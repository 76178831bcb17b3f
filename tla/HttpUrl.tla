------------------------------ MODULE HttpUrl ------------------------------
(***************************************************************************)
(* The character classes and the URL parser of http_parser.c: the step     *)
(* function http_parser_execute shares, and http_parser_parse_url.         *)
(*                                                                         *)
(* A byte is a string of one character; "SP" is the blank, "CR", "LF" and  *)
(* "HT" are control characters and "8b" is a byte above 127.  Where the    *)
(* code only compares a run of letters with one constant, the run is a     *)
(* single symbol ("hunked"), which is a letter to every class below.       *)
(***************************************************************************)
EXTENDS Integers, Sequences

CONSTANT UINT16_MAX   \* the largest offset or length of a field, and the largest port

ASSUME UrlAssumption == UINT16_MAX \in Nat \ {0}

Upper == <<"A", "B", "C", "D", "E", "F", "G", "H", "I", "J", "K", "L", "M",
           "N", "O", "P", "Q", "R", "S", "T", "U", "V", "W", "X", "Y", "Z">>
Lowers == <<"a", "b", "c", "d", "e", "f", "g", "h", "i", "j", "k", "l", "m",
            "n", "o", "p", "q", "r", "s", "t", "u", "v", "w", "x", "y", "z">>
Digits == <<"0", "1", "2", "3", "4", "5", "6", "7", "8", "9">>
Ran(s) == {s[i] : i \in DOMAIN s}

LOWER(c) == IF c \in Ran(Upper) THEN Lowers[CHOOSE i \in 1 .. 26 : Upper[i] = c] ELSE c
IS_ALPHA(c) == c \in Ran(Upper) \cup Ran(Lowers)
IS_NUM(c) == c \in Ran(Digits)
IS_HEX(c) == IS_NUM(c) \/ LOWER(c) \in {"a", "b", "c", "d", "e", "f"}
IS_MARK(c) == c \in {"-", "_", ".", "!", "~", "*", "'", "(", ")"}
IS_USERINFO_CHAR(c) ==
  IS_ALPHA(c) \/ IS_NUM(c) \/ IS_MARK(c) \/ c \in {"%", ";", ":", "&", "=", "+", "$", ","}
IS_HOST_CHAR(c) == IS_ALPHA(c) \/ IS_NUM(c) \/ c \in {".", "-"}
IS_URL_CHAR(c) == c \notin {"CR", "LF", "HT", "8b", "SP", "#", "?"}

DigitVal(c) == (CHOOSE i \in 1 .. 10 : Digits[i] = c) - 1

-----------------------------------------------------------------------------
UrlServer == {"s_req_server_start", "s_req_server", "s_req_server_with_at"}
UrlQuery == {"s_req_query_string_start", "s_req_query_string"}
UrlFragment == {"s_req_fragment_start", "s_req_fragment"}

parse_url_char(s, ch) ==
  CASE s = "s_req_spaces_before_url" /\ ch \in {"/", "*"} -> "s_req_path"
    [] s = "s_req_spaces_before_url" /\ IS_ALPHA(ch) -> "s_req_schema"
    [] s = "s_req_schema" /\ IS_ALPHA(ch) -> s
    [] s = "s_req_schema" /\ ch = ":" -> "s_req_schema_slash"
    [] s = "s_req_schema_slash" /\ ch = "/" -> "s_req_schema_slash_slash"
    [] s = "s_req_schema_slash_slash" /\ ch = "/" -> "s_req_server_start"
    [] s \in UrlServer /\ ch = "/" -> "s_req_path"
    [] s \in UrlServer /\ ch = "?" -> "s_req_query_string_start"
    [] s \in UrlServer \ {"s_req_server_with_at"} /\ ch = "@" -> "s_req_server_with_at"
    [] s \in UrlServer /\ (ch \in {"[", "]"} \/ IS_USERINFO_CHAR(ch)) -> "s_req_server"
    [] s = "s_req_path" /\ IS_URL_CHAR(ch) -> s
    [] s \in UrlQuery /\ (ch = "?" \/ IS_URL_CHAR(ch)) -> "s_req_query_string"
    [] s \in UrlFragment /\ (ch = "?" \/ IS_URL_CHAR(ch)) -> "s_req_fragment"
    [] s \in UrlFragment /\ ch = "#" -> s
    [] s = "s_req_path" /\ ch = "?" -> "s_req_query_string_start"
    [] s \in UrlQuery \cup {"s_req_path"} /\ ch = "#" -> "s_req_fragment_start"
    [] OTHER -> "s_dead"   \* blanks too: they are in none of the classes

http_parse_host_char(s, ch) ==
  CASE s \in {"userinfo_start", "userinfo"} /\ ch = "@" -> "host_start"
    [] s \in {"userinfo_start", "userinfo"} /\ IS_USERINFO_CHAR(ch) -> "userinfo"
    [] s = "host_start" /\ ch = "[" -> "host_v6_start"
    [] s \in {"host_start", "host"} /\ IS_HOST_CHAR(ch) -> "host"
    [] s \in {"host", "host_v6_end"} /\ ch = ":" -> "host_port_start"
    [] s = "host_v6" /\ ch = "]" -> "host_v6_end"
    [] s \in {"host_v6_start", "host_v6"} /\ (IS_HEX(ch) \/ ch \in {":", "."}) -> "host_v6"
    [] s \in {"host_port_start", "host_port"} /\ IS_NUM(ch) -> "host_port"
    [] OTHER -> "host_dead"

-----------------------------------------------------------------------------
(***************************************************************************)
(* struct http_parser_url: the fields that are set, with offset and length *)
(* (counted from 0), also for the fields that are not set: nobody clears   *)
(* the structure, so it starts with any junk.                              *)
(***************************************************************************)
UrlFields == {"SCHEMA", "HOST", "PORT", "PATH", "QUERY", "FRAGMENT", "USERINFO"}

\* Offsets and lengths are uint16_t.
U16(n) == n % (UINT16_MAX + 1)

ExtendJunk(u, uf, p, new) ==   \* mutant: the length of a new field is not set
  LET x == u.data[uf]
  IN  [set |-> u.set \cup {uf},
       data |-> [u.data EXCEPT ![uf] = [off |-> IF new THEN U16(p) ELSE x.off, len |-> U16(x.len + 1)]]]

\* The byte at offset p belongs to field uf, as it did before or newly so.
Extend(u, uf, p, new) ==
  LET x == u.data[uf]
  IN  [set |-> u.set \cup {uf},
       data |-> [u.data EXCEPT ![uf] = IF new THEN [off |-> U16(p), len |-> 1]
                                       ELSE [off |-> x.off, len |-> U16(x.len + 1)]]]

HostField(s) == CASE s \in {"host", "host_v6"} -> "HOST"
                  [] s = "host_port" -> "PORT"
                  [] s = "userinfo" -> "USERINFO"
                  [] OTHER -> "none"

\* HOST keeps its offset until the host proper starts, and its length counts
\* from 0; the bit of HOST is not touched.
HostStep(h, p, ch) ==
  LET s == http_parse_host_char(h.s, ch)
      uf == HostField(s)
  IN  IF uf = "none" THEN [h EXCEPT !.s = s]
      ELSE [s |-> s, u |-> [Extend(h.u, uf, p, s # h.s)
                              EXCEPT !.set = IF uf = "HOST" THEN h.u.set ELSE @]]

\* The loop of http_parse_host from offset off to end: its state, and what it
\* leaves in u, at every offset.  What is read behind the end of buf is some
\* byte (here "8b").
HostRead(buf, u, found_at, off, end) ==
  LET H[p \in off .. end] ==
        IF p = off THEN [s |-> IF found_at THEN "userinfo_start" ELSE "host_start",
                         u |-> [u EXCEPT !.data["HOST"].len = 0]]
        ELSE HostStep(H[p - 1], p - 1, IF p <= Len(buf) THEN buf[p] ELSE "8b")
  IN  H

\* What http_parse_host leaves in u, and whether it fails.
http_parse_host(buf, u, found_at) ==
  LET off == u.data["HOST"].off
      end == off + u.data["HOST"].len
      h == HostRead(buf, u, found_at, off, end)[end]
  IN  [ret |-> IF h.s \in {"host", "host_v6_end", "host_port"} THEN 0 ELSE 1, u |-> h.u]

UrlField(s) == CASE s = "s_req_schema" -> "SCHEMA"
                 [] s \in {"s_req_server", "s_req_server_with_at"} -> "HOST"
                 [] s = "s_req_path" -> "PATH"
                 [] s = "s_req_query_string" -> "QUERY"
                 [] s = "s_req_fragment" -> "FRAGMENT"
                 [] OTHER -> "none"   \* a delimiter

UrlStep(r, p, ch) ==
  LET s == parse_url_char(r.s, ch)
      uf == UrlField(s)
  IN  IF uf = "none" THEN [r EXCEPT !.s = s]
      ELSE [s |-> s, old |-> uf, u |-> Extend(r.u, uf, p, uf # r.old),
            at |-> r.at \/ s = "s_req_server_with_at"]

\* The loop of http_parser_parse_url: its state after every number of bytes.
UrlRead(buf, is_connect, junk) ==
  LET R[p \in 0 .. Len(buf)] ==
        IF p = 0 THEN [s |-> IF is_connect THEN "s_req_server_start" ELSE "s_req_spaces_before_url",
                       old |-> "MAX", u |-> [set |-> {}, data |-> junk], at |-> FALSE]
        ELSE UrlStep(R[p - 1], p - 1, buf[p])
  IN  R

\* strtoul: the byte behind the digits is none.
PortOf(buf, u) ==
  LET off == u.data["PORT"].off
      V[i \in 0 .. u.data["PORT"].len] ==
        IF i = 0 THEN 0 ELSE 10 * V[i - 1] + DigitVal(buf[off + i])
  IN  V[u.data["PORT"].len]

\* http_parser_parse_url(buf, is_connect) into a structure that holds junk.
http_parser_parse_url(buf, is_connect, junk) ==
  LET r == UrlRead(buf, is_connect, junk)[Len(buf)]
      hosted == r.u.set \cap {"SCHEMA", "HOST"} # {}
      h == IF hosted THEN http_parse_host(buf, r.u, r.at) ELSE [ret |-> 0, u |-> r.u]
      bad == \/ h.ret # 0
             \/ is_connect /\ h.u.set # {"HOST", "PORT"}
             \/ "PORT" \in h.u.set /\ PortOf(buf, h.u) > UINT16_MAX
  IN  IF r.s = "s_dead" THEN [ret |-> 1, u |-> r.u]
      ELSE [ret |-> IF bad THEN 1 ELSE 0, u |-> h.u]
=============================================================================
