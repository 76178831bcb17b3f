-------------------------- MODULE MCRequestParser --------------------------
(***************************************************************************)
(* Streams for RequestParser: a request line, up to three header lines of  *)
(* every kind the code tells apart, and a body.                            *)
(***************************************************************************)
EXTENDS RequestParser

CRLF == <<"CR", "LF">>
Post == <<"POST", "/a", "HTTP/1.1">> \o CRLF

MCMethods == {"GET", "POST", "PO", ""}   \* "" in front of a leading blank
MCVersions == {"HTTP/1.1"}
MCNumberOf == [w \in {"0", "1", "2", "9"} |->
                 IF w = "0" THEN 0 ELSE IF w = "1" THEN 1 ELSE IF w = "2" THEN 2 ELSE 9]

Pairs == {<<"Host", "COLON", "h">>, <<"A", "COLON", "x", "y">>}
Lengths == {<<"Content-Length", "COLON", w>> : w \in {"1", "2", "x"}}
Odd == {<<"Host", "COLON", "h", "COLON", "p">>,  \* a port: second colon
        <<"A", "COLON">>,                        \* no value
        <<"stray">>,                             \* no colon
        <<"A", "CR">>}                           \* a bare CR

Requests(heads, bodies) ==
  {Post \o h1 \o CRLF \o h2 \o CRLF \o CRLF \o b : h1, h2 \in heads, b \in bodies}
    \cup {Post \o h1 \o CRLF \o h2 \o CRLF \o h3 \o CRLF \o CRLF \o b :
            h1, h2, h3 \in heads, b \in bodies}
    \cup {Post \o CRLF \o b : b \in bodies}

Malformed == {<<"GET", "/a", "HTTP/1.1", "z">> \o CRLF \o CRLF,
              <<"GET", "/a", "ftp">> \o CRLF \o <<"Host", "COLON", "h">> \o CRLF \o CRLF,
              <<"FOO", "/a", "HTTP/1.1">> \o CRLF \o CRLF,
              <<"", "/a", "HTTP/1.1">> \o CRLF \o CRLF,
              <<"GET">> \o CRLF \o CRLF \o CRLF,
              Post \o <<"Content-Length", "COLON", "9">> \o CRLF \o CRLF \o <<"b">>}

\* Complete messages: the declared length is there, and more may follow.
WholeStreams ==
  Requests(Pairs \cup Lengths \cup Odd, {<<"b", "c", "d">>}) \cup Malformed

\* The body may be shorter than declared, for a while or for ever.
SplitStreams == Requests(Pairs \cup Lengths, {<< >>, <<"b">>, <<"b", "c">>, <<"b", "c", "d">>})

AllStreams == WholeStreams \cup SplitStreams
=============================================================================
