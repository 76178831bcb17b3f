------------------------- MODULE MCMultipartParser -------------------------
(***************************************************************************)
(* Bodies for MultipartParser: a body is described by its parts; its bytes *)
(* and the callbacks it deserves are both derived from them.               *)
(***************************************************************************)
EXTENDS MultipartParser

Concat(ss) == LET C[k \in 0 .. Len(ss)] == IF k = 0 THEN << >> ELSE C[k - 1] \o ss[k] IN C[Len(ss)]

\* A callback, and the bytes before, of and behind its data.
Item(cb, lead, data, tail) == <<[cb |-> cb, lead |-> lead, data |-> data, tail |-> tail]>>

PartItems(b, part, first) ==
  Item("part_data_begin", IF first THEN b \o CRLF ELSE CRLF, << >>, << >>) \o
  Concat([k \in DOMAIN part.headers |->
            Item("header_field", << >>, part.headers[k].name, <<":">>) \o
            Item("header_value", part.headers[k].blanks, part.headers[k].value, CRLF)]) \o
  Item("headers_complete", CRLF, << >>, << >>) \o Item("part_data", << >>, part.data, << >>) \o
  Item("part_data_end", CRLF \o b, << >>, << >>)

Items(b, parts) ==
  Concat([k \in DOMAIN parts |-> PartItems(b, parts[k], k = 1)]) \o Item("body_end", <<"-", "-">>, << >>, CRLF)

Known(b, parts, nc, nf) ==
  LET items == Items(b, parts)
      text == [k \in DOMAIN items |-> items[k].lead \o items[k].data \o items[k].tail]
      before[k \in DOMAIN items] == IF k = 1 THEN 0 ELSE before[k - 1] + Len(text[k - 1])
      spans == [k \in DOMAIN items |-> LET from == before[k] + Len(items[k].lead)
                                       IN  [from |-> from, to |-> from + Len(items[k].data)]]
      body == [boundary |-> b, bytes |-> Concat(text), cuts |-> nc, faults |-> nf, known |-> TRUE,
               calls |-> [k \in DOMAIN items |-> [cb |-> items[k].cb, data |-> items[k].data]],
               spans |-> spans, fragile |-> {}]
  IN  [body EXCEPT !.fragile = Fragile(body)]

Part(headers, data) == [headers |-> headers, data |-> data]
Header(name, blanks, value) == [name |-> name, blanks |-> blanks, value |-> value]

B == <<"-", "b">>

\* Data that looks like line ends and boundaries.
Bytes == {"CR", "LF", "-", "b", "x"}
Contains(s, t) == \E k \in 0 .. Len(s) - Len(t) : SubSeq(s, k + 1, k + Len(t)) = t
Datas(n) == {d \in UNION {[1 .. k -> Bytes] : k \in 0 .. n} : ~Contains(d, CRLF \o B)}

H1 == <<Header(<<"a", "-", "b">>, <<" ">>, <<"v", ":", "-">>)>>
H2 == <<Header(<<"x">>, << >>, << >>), Header(<<"a", "b">>, <<" ", " ">>, <<"v">>)>>

OneCut == {Known(B, <<Part(<< >>, d)>>, 1, 0) : d \in Datas(4)}
TwoCuts == {Known(B, <<Part(<< >>, d)>>, 2, 0) : d \in Datas(2)}
Whole == {Known(B, <<Part(H1, d), Part(H2, e)>>, 0, 0) : d, e \in Datas(2)}
Failing == {Known(B, <<Part(h, d), Part(g, d)>>, 2, 1) : h, g \in {H1, H2}, d \in {<<"x", "CR", "LF", "CR", "-">>}}
Longer == {Known(<<"-", "-", "b", "-">>, <<Part(H1, d)>>, 2, 0) :
             d \in {<<"CR", "LF", "-", "-", "b", "x">>, <<"CR", "CR", "LF", "-", "LF">>}}

\* One byte is wrong.
Corrupted ==
  LET good == Known(B, <<Part(H1, <<"x", "CR", "LF">>), Part(H2, <<"CR">>)>>, 1, 0)
  IN  {[good EXCEPT !.known = FALSE, !.bytes = [@ EXCEPT ![k] = x]] :
         k \in DOMAIN good.bytes, x \in Bytes \cup {":", " "}}

All == OneCut \cup TwoCuts \cup Whole \cup Failing \cup Longer \cup Corrupted
=============================================================================
