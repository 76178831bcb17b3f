---------------------------- MODULE MCHttpParser ----------------------------
(***************************************************************************)
(* Streams for HttpParser.  A message is described by what it means; its   *)
(* bytes and the callbacks it deserves are both derived from that.         *)
(***************************************************************************)
EXTENDS HttpParser

CRLF == <<"CR", "LF">>
Sp == <<"SP">>

\* A header line: its name, the bytes behind the colon, the value they stand
\* for, and what it says of the message.
H(name, after, value, says, len) ==
  [name |-> name, after |-> after, value |-> value, says |-> says, len |-> len]
Plain(name, value, says) == H(name, Sp \o value \o CRLF, value, says, -1)

Conn == <<"C", "o", "n", "n", "ection">>

Plains ==
  {Plain(<<"x">>, <<"y">>, {}),
   Plain(Conn, <<"C", "lose">>, {"close"}),
   Plain(Conn, KEEP_ALIVE, {"keep"}),
   Plain(Conn, KEEP_ALIVE \o <<",">> \o CLOSE, {"keep", "close"}),
   Plain(Conn, <<"x", ",">> \o CLOSE \o Sp, {"close"}),
   Plain(Conn, CLOSE \o <<"x">>, {}),
   Plain(Conn, <<"k", "eep-", "x">>, {}),
   Plain(PROXY_CONNECTION, CLOSE, {"close"}),
   Plain(Conn \o <<"x">>, CLOSE, {}),
   Plain(<<"c", "o", "x">>, CLOSE, {}),
   Plain(<<"c", "o", "n", "x">>, CLOSE, {}),
   Plain(<<"c", "o", "n", "t", "x">>, <<"9">>, {}),
   Plain(TRANSFER_ENCODING, CHUNKED \o <<"x">>, {}),
   Plain(Conn, UPGRADE, {"connup"}),
   H(<<"x">>, <<"y", "LF">>, <<"y">>, {}, -1),
   H(<<"x">>, CRLF, << >>, {}, -1),
   H(<<"x">>, <<"LF">>, << >>, {}, -1),
   H(<<"x">>, CRLF \o Sp \o <<"y">> \o CRLF, <<"y">>, {}, -1),
   H(<<"x">>, <<"y">> \o CRLF \o <<"HT", "z">> \o CRLF, <<"y", "HT", "z">>, {}, -1),
   H(Conn, Sp \o <<"x", ",">> \o CRLF \o Sp \o CLOSE \o CRLF,
     <<"x", ",", "SP">> \o CLOSE, {"close"}, -1)}

Framings ==
  {H(CONTENT_LENGTH, Sp \o <<"2">> \o CRLF, <<"2">>, {}, 2),
   H(CONTENT_LENGTH, <<"0", "2">> \o Sp \o CRLF, <<"0", "2", "SP">>, {}, 2),
   H(CONTENT_LENGTH, <<"0">> \o CRLF, <<"0">>, {}, 0),
   H(CONTENT_LENGTH, <<"5", "9">> \o CRLF, <<"5", "9">>, {}, 59),
   Plain(TRANSFER_ENCODING, CHUNKED, {"chunked"}),
   Plain(TRANSFER_ENCODING, CHUNKED \o Sp, {"chunked"})}

Concat(ss) == LET C[i \in 0 .. Len(ss)] == IF i = 0 THEN << >> ELSE C[i - 1] \o ss[i] IN C[Len(ss)]

\* m: [type, method, url, version, status, headers].  A body without a length is of two bytes.
Says(m) == UNION {m.headers[i].says : i \in DOMAIN m.headers}
Length(m) == LET ls == {i \in DOMAIN m.headers : m.headers[i].len >= 0}
             IN  IF ls = {} THEN -1 ELSE m.headers[CHOOSE i \in ls : \A j \in ls : j <= i].len
Switches(m) == {"upgrade", "connup"} \subseteq Says(m) \/ m.method = "CONNECT"
ToEof(m) == /\ m.type = "HTTP_RESPONSE" /\ m.status \notin {100, 204, 304}
            /\ "chunked" \notin Says(m) /\ Length(m) = -1
KeepAlive(m) == /\ IF m.version = <<1, 1>> THEN "close" \notin Says(m) ELSE "keep" \in Says(m)
                /\ ~ToEof(m)

Body(m) == IF Switches(m) THEN << >>
           ELSE IF "chunked" \in Says(m) \/ ToEof(m) THEN <<"b", "CR">>
           ELSE [i \in 1 .. Length(m) |-> IF i % 2 = 1 THEN "b" ELSE "CR"]
Trailer == Plain(<<"x">>, <<"t">>, {})

HeaderBytes(h) == h.name \o <<":">> \o h.after
BodyBytes(m) ==
  IF "chunked" \in Says(m) /\ ~Switches(m)
    THEN <<"1", ";", "x">> \o CRLF \o <<"b">> \o CRLF \o <<"0", "1">> \o CRLF \o <<"CR">> \o CRLF \o
         <<"0">> \o CRLF \o HeaderBytes(Trailer) \o CRLF
    ELSE Body(m)

VersionBytes(v) == <<Digits[v[1] + 1], ".", Digits[v[2] + 1]>>
FirstLine(m) ==
  IF m.type = "HTTP_RESPONSE"
    THEN <<"H", "T", "T", "P", "/">> \o VersionBytes(m.version) \o Sp \o
         <<Digits[(m.status \div 100) + 1], "0", Digits[(m.status % 10) + 1]>> \o
         (IF m.url = << >> THEN << >> ELSE Sp \o m.url) \o CRLF
  ELSE IF m.version = <<0, 9>> THEN MethodWord[m.method] \o Sp \o m.url \o CRLF
  ELSE MethodWord[m.method] \o Sp \o m.url \o Sp \o <<"H", "T", "T", "P", "/">> \o
       VersionBytes(m.version) \o CRLF

Bytes(m) ==
  FirstLine(m) \o Concat([i \in DOMAIN m.headers |-> HeaderBytes(m.headers[i])]) \o CRLF \o BodyBytes(m)

C(cb, data) == <<[cb |-> cb, data |-> data]>>
HeaderCalls(h) == C("header_field", h.name) \o C("header_value", h.value)
Calls(m) ==
  C("message_begin", << >>) \o
  (IF m.url = << >> THEN << >> ELSE C(IF m.type = "HTTP_REQUEST" THEN "url" ELSE "status", m.url)) \o
  Concat([i \in DOMAIN m.headers |-> HeaderCalls(m.headers[i])]) \o
  C("headers_complete", << >>) \o
  (IF Body(m) = << >> THEN << >> ELSE C("body", Body(m))) \o
  (IF "chunked" \in Says(m) /\ ~Switches(m) THEN HeaderCalls(Trailer) ELSE << >>) \o
  C("message_complete", << >>)
AttrsOf(m) == [type |-> m.type, method |-> m.method, version |-> m.version, status |-> m.status,
               upgrade |-> Switches(m), keep_alive |-> KeepAlive(m)]

Request(method, url, version, headers) ==
  [type |-> "HTTP_REQUEST", method |-> method, url |-> url, version |-> version, status |-> 0,
   headers |-> headers]
Response(version, status, reason, headers) ==
  [type |-> "HTTP_RESPONSE", method |-> "none", url |-> reason, version |-> version,
   status |-> status, headers |-> headers]

\* Streams.  nc and nf bound the cuts and the callbacks that answer other than 0.
Known(type, bytes, cs, as, e, nc, nf) ==
  [type |-> type, bytes |-> bytes, cuts |-> nc, faults |-> nf, known |-> TRUE,
   calls |-> cs, attrs |-> as, errno |-> e]
Unknown(type, bytes, nc, nf) ==
  [type |-> type, bytes |-> bytes, cuts |-> nc, faults |-> nf, known |-> FALSE]

\* A message m alone, or behind a request, with a second request behind it.
ReqTypes == {"HTTP_REQUEST", "HTTP_BOTH"}

Next2 == Request("GET", <<"/">>, <<1, 1>>, << >>)
Stream(type, m, nc, nf) ==
  LET two == m.type = "HTTP_REQUEST" /\ ~Switches(m)
      both == two /\ KeepAlive(m)
  IN  Known(type,
            Bytes(m) \o (IF two THEN CRLF \o Bytes(Next2) ELSE IF Switches(m) THEN <<"z">> ELSE << >>),
            Calls(m) \o (IF both THEN Calls(Next2) ELSE << >>),
            <<AttrsOf(m)>> \o (IF both THEN <<AttrsOf(Next2)>> ELSE << >>),
            IF two /\ ~both THEN "HPE_CLOSED_CONNECTION" ELSE "HPE_OK", nc, nf)

Get(url, headers) == Request("GET", url, <<1, 1>>, headers)
Headers == Plains \cup Framings \cup {Plain(UPGRADE, <<"w">>, {"upgrade"})}

\* Every kind of header, cut anywhere, one callback failing or pausing; the
\* same with other versions; every pair of headers; two cuts.
Singles == {Stream("HTTP_REQUEST", Get(<<"/">>, <<h>>), 1, 1) : h \in Headers}
Versions == {Stream("HTTP_REQUEST", Request("GET", <<"/">>, v, <<h>>), 0, 0) :
               h \in Headers, v \in {<<1, 0>>, <<0, 9>>}}
Pairs == {Stream("HTTP_REQUEST", Get(<<"/">>, <<g, h>>), 0, 0) : g, h \in Headers}
TwoCuts == {Stream("HTTP_REQUEST", Get(<<"/">>, <<h>>), 2, 0) :
              h \in {Plain(Conn, CLOSE, {"close"}), Plain(TRANSFER_ENCODING, CHUNKED, {"chunked"})}}
Connects == {Stream(t, Request(mt, <<"h", ":", "1">>, <<1, 1>>, << >>), 1, 1) : t \in ReqTypes, mt \in {"CONNECT"}}

Responses ==
  {Stream(t, Response(<<1, 1>>, s, <<"O", "K">>, h), 1, 1) :
     t \in {"HTTP_RESPONSE", "HTTP_BOTH"}, s \in {200, 204}, h \in {<< >>} \cup {<<f>> : f \in Framings}}
  \cup {Stream(t, Response(<<1, 1>>, s, << >>, << >>), 1, 1) :
          t \in {"HTTP_RESPONSE", "HTTP_BOTH"}, s \in {200, 204}}
BlankFirst ==
  {Known("HTTP_RESPONSE", CRLF \o Bytes(m), C("message_begin", << >>) \o C("message_begin", << >>) \o Calls(m),
         <<AttrsOf(m)>>, "HPE_OK", 1, 1) : m \in {Response(<<1, 1>>, 204, << >>, << >>)}}
BlankBetween ==
  LET m == Response(<<1, 1>>, 204, << >>, << >>)
      begin == C("message_begin", << >>)
  IN  {Known(t, Bytes(m) \o CRLF \o Bytes(m), Calls(m) \o begin \o begin \o Calls(m),
             <<AttrsOf(m), AttrsOf(m)>>, "HPE_OK", 0, 1) : t \in {"HTTP_RESPONSE", "HTTP_BOTH"}}

\* Every method, and the words made of the head of one and the tail of another.
MethodStreams ==
  {Stream(t, Request(mt, IF mt = "CONNECT" THEN <<"h">> ELSE <<"*">>, <<1, 1>>, << >>), 0, 0) :
     t \in ReqTypes, mt \in DOMAIN MethodWord}
Words == {MethodWord[mt] : mt \in DOMAIN MethodWord}
Mixed == UNION {{SubSeq(v, 1, i) \o SubSeq(w, i + 1, Len(w)) : i \in 1 .. Len(v)} : v, w \in Words}
BadMethods ==
  {Known("HTTP_REQUEST", w \o <<"SP", "/", "LF", "LF">>, C("message_begin", << >>), << >>,
         "HPE_INVALID_METHOD", 0, 0) : w \in Mixed \ Words}

\* Urls: all short ones over an alphabet that has every class of byte.
UrlBytes == {"/", "?", "#", ":", "@", "a", "1", "["}
ShortUrls == UNION {[1 .. n -> UrlBytes] : n \in 1 .. 3}
Absolute == {<<"a", ":", "/", "/">> \o u : u \in ShortUrls}
UrlStreams ==
  {Stream("HTTP_REQUEST", Get(<<c>> \o u, << >>), 0, 0) : c \in {"/", "*"}, u \in ShortUrls}
  \cup {Unknown("HTTP_REQUEST", MethodWord["GET"] \o Sp \o u \o <<"LF", "LF">>, 0, 0) :
          u \in ShortUrls \cup Absolute}

\* Lengths that do not fit: 60 as a length, 0x3C as the size of a chunk; and
\* one that is no number.
TooLong ==
  LET m == Get(<<"/">>, << >>)
      head == C("message_begin", << >>) \o C("url", <<"/">>)
      h == H(TRANSFER_ENCODING, CHUNKED \o CRLF, CHUNKED, {"chunked"}, -1)
  IN  {Unknown("HTTP_REQUEST", FirstLine(m) \o CONTENT_LENGTH \o <<":", "0", "0", "1", "2", "x">>, 1, 0),
       Known("HTTP_REQUEST", FirstLine(m) \o CONTENT_LENGTH \o <<":", "6", "0">> \o CRLF,
             head \o C("header_field", CONTENT_LENGTH), << >>, "HPE_INVALID_CONTENT_LENGTH", 0, 0),
       Known("HTTP_REQUEST", FirstLine(m) \o HeaderBytes(h) \o CRLF \o <<"3", "C">> \o CRLF \o <<"b">>,
             head \o HeaderCalls(h) \o C("headers_complete", << >>),
             <<AttrsOf(Get(<<"/">>, <<h>>))>>, "HPE_INVALID_CONTENT_LENGTH", 0, 0)}

\* Headers of about the largest size; the ones at the limit cut anywhere.
Filler(n) == [i \in 1 .. n |-> "v"]
LargeValue(n, e, nc) ==
  Unknown("HTTP_REQUEST", FirstLine(Next2) \o <<"x", ":">> \o Filler(n) \o e \o CRLF, nc, 0)
Large ==
  {LargeValue(n, e, 0) : n \in HTTP_MAX_HEADER_SIZE - 22 .. HTTP_MAX_HEADER_SIZE, e \in {CRLF, <<"LF">>}}
  \cup {LargeValue(n, CRLF, 1) : n \in {59} \cup HTTP_MAX_HEADER_SIZE - 21 .. HTTP_MAX_HEADER_SIZE - 18}
  \cup {Unknown("HTTP_REQUEST", FirstLine(Next2) \o Filler(n) \o <<":">> \o CRLF \o CRLF, 0, 0) :
          n \in HTTP_MAX_HEADER_SIZE - 18 .. HTTP_MAX_HEADER_SIZE - 12}

\* One byte is wrong.
Wrong == {"CR", "LF", "SP", ":", "x", "1", "0", "8b", "H", ",", "/", ".", ";"}
Corrupted(type, bytes) ==
  {Unknown(type, [bytes EXCEPT ![i] = c], 0, 0) : i \in DOMAIN bytes, c \in Wrong}
CorruptedStreams ==
  Corrupted("HTTP_REQUEST", Bytes(Get(<<"a", ":", "/", "/", "b", "?">>,
                                      <<Plain(TRANSFER_ENCODING, CHUNKED, {"chunked"})>>)))
  \cup Corrupted("HTTP_RESPONSE", Bytes(Response(<<1, 1>>, 200, <<"O", "K">>,
                                      <<H(<<"x">>, CRLF \o Sp \o <<"y">> \o CRLF, <<"y">>, {}, -1),
                                        H(CONTENT_LENGTH, <<"0", "2">> \o CRLF, <<"0", "2">>, {}, 2)>>)))
  \cup Corrupted("HTTP_BOTH", Bytes(Request("HEAD", <<"/">>, <<1, 1>>, << >>)))

\* Urls of about the largest size, and with a schema but no host.
Long == {Stream("HTTP_REQUEST", Get(<<"/">> \o Filler(n) \o <<"?", "q">>, << >>), 0, 0) :
           n \in UINT16_MAX - 4 .. UINT16_MAX}
Schema(u) ==
  Unknown("HTTP_REQUEST", MethodWord["GET"] \o Sp \o <<"h", "t", "t", "p", ":", "/", "/">> \o u \o <<"LF", "LF">>, 0, 0)
Toto == {Schema(<<"/", "t", "o", "t", "o">>)}
Schemas == Toto \cup {Schema(u) : u \in {<<"?">>, <<"a", ":", "8", "1">>, <<"b", "@", "[", "f", ":", ":", "]">>}}

\* A response whose headers announce a body, as the answer to a HEAD request has.
Announced == {Stream("HTTP_RESPONSE", Response(<<1, 1>>, 200, <<"O", "K">>, <<h>>), 0, 1) :
                h \in {H(CONTENT_LENGTH, <<"2">> \o CRLF, <<"2">>, {}, 2),
                       Plain(TRANSFER_ENCODING, CHUNKED, {"chunked"})}}

\* Fields all alike: cleared, or somewhere in the url.
JunkFields == {[f \in UrlFields |-> [off |-> o, len |-> n]] : o \in {0, 1}, n \in {0, 2}}

All == Long \cup Schemas \cup Singles \cup Versions \cup Pairs \cup TwoCuts \cup Connects \cup Responses \cup BlankFirst
       \cup BlankBetween \cup MethodStreams \cup BadMethods \cup UrlStreams \cup TooLong \cup Large \cup CorruptedStreams
=============================================================================
