---------------------------- MODULE MCRestService ----------------------------
(***************************************************************************)
(* The streams of MCRequestParser, and requests for every url whose query  *)
(* string has up to four characters of those the code tells apart.         *)
(***************************************************************************)
EXTENDS MCRequestParser, RestService

MCMethodOf == [w \in MCMethods |-> IF w \in {"GET", ""} THEN "GET" ELSE "POST"]

MCUrlChars == [w \in STRING |-> [n \in 1 .. Len(w) |-> SubSeq(w, n, n)]]

Char == {"", "a", "=", "&"}
Long == {"/?a=&aa=a", "/?a=a&a=a&a==a", "/?=&=&=&a", "/?aa=&a=a&aa=a&a="}
Urls == {"/"} \cup Long \cup {"/?" \o c \o d \o e \o f : c, d, e, f \in Char}

\* The handlers of two requests make three calls, the others one.
MCMaxCalls == [w \in STRING |-> IF w \in {"/", "/?a=&aa=a"} THEN 3 ELSE 1]

\* To a service without a generic handler: with and without a resource for
\* their path, and with a nameless parameter.  The header tells them apart.
UnpublishedStreams ==
  {<<"GET", w, "HTTP/1.1">> \o CRLF \o <<"h", "COLON", "x">> \o CRLF \o CRLF :
     w \in {"/", "/b", "/?a=a", "/b?a=a&a=", "/b?a"}}

ServiceStreams ==
  AllStreams \cup UnpublishedStreams \cup {<<"GET", w, "HTTP/1.1">> \o CRLF \o CRLF : w \in Urls}
    \cup {<<"GET", "/", "HTTP/1.1">> \o CRLF \o <<"h", "COLON", "a|b">> \o CRLF \o CRLF \o <<"|">>}

MCResources == <<[method |-> "POST", path |-> <<"/">>],
                 [method |-> "GET", path |-> <<"/">>], [method |-> "GET", path |-> <<"/">>],
                 [method |-> "POST", path |-> <<"/", "a">>]>>
MCParamNames == {<<"a">>, <<"a", "=">>}
=============================================================================
