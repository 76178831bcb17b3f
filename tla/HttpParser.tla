----------------------------- MODULE HttpParser -----------------------------
(***************************************************************************)
(* http_parser_execute (http_parser.c), the parser of the builds that      *)
(* define RST_USE_HTTP_PARSER, fed with a stream that is cut into chunks   *)
(* anywhere, and the callbacks it makes.  One action per state, or group   *)
(* of states, of its switch; a step handles one byte, or one run of bytes  *)
(* where the code takes the run at once.  A callback may fail or pause the *)
(* parser.  HTTP_PARSER_STRICT is 1, as in http_parser.h.                  *)
(***************************************************************************)
EXTENDS HttpUrl, FiniteSets

CONSTANTS
  Inputs,      \* what a peer may send, with what is known of its meaning
  HTTP_MAX_HEADER_SIZE,
  ULLONG_MAX,  \* the largest content_length, and the mark for none
  None,        \* a null mark
  Junk         \* what the structure for a url may hold before it is filled

ASSUME HttpAssumption ==
  /\ HTTP_MAX_HEADER_SIZE \in Nat \ {0}
  /\ ULLONG_MAX \in Nat /\ ULLONG_MAX >= 26
  /\ None \notin Nat
  /\ \A in \in Inputs : /\ in.type \in {"HTTP_REQUEST", "HTTP_RESPONSE", "HTTP_BOTH"}
                        /\ in.bytes \in Seq(STRING)
                        /\ in.cuts \in Nat /\ in.faults \in Nat
  /\ Junk \subseteq [UrlFields -> [off : 0 .. UINT16_MAX, len : 0 .. UINT16_MAX]]

VARIABLES
  input,       \* the type of parser and the bytes it gets; how often they are cut
               \* and a callback answers other than 0 (bounds); and, if it is
               \* known, what they mean: calls, attrs and errno in the end
  parser,      \* struct http_parser
  pc,          \* "idle", in the "loop" of http_parser_execute, "closed"
  p, lim,      \* the current byte and the end of the chunk, from the start of
               \* the stream; outside execute both are what has been taken
  mark,        \* the five marks
  start,       \* start of the inner loop of a header field or value, or None
  cuts, faults,\* chunk ends and failed or pausing callbacks so far
  calls,       \* the callbacks so far; pieces of one string put together
  attrs        \* what on_headers_complete saw in the parser, message by message,
               \* and whether it answered 1

vars == <<input, parser, pc, p, lim, mark, start, cuts, faults, calls, attrs>>

-----------------------------------------------------------------------------
DataCallbacks == {"header_field", "header_value", "url", "body", "status"}
NoMarks == [c \in DataCallbacks |-> None]

UrlStates == UrlServer \cup UrlQuery \cup UrlFragment \cup
  {"s_req_schema", "s_req_schema_slash", "s_req_schema_slash_slash", "s_req_path"}

BodyStates == {"s_chunk_data", "s_chunk_data_almost_done", "s_chunk_data_done",
               "s_body_identity", "s_body_identity_eof", "s_message_done"}
PARSING_HEADER(s) == s \notin BodyStates

\* flags is six bits wide.
FlagBits == 6
Bit == [F_CHUNKED |-> 0, F_CONNECTION_KEEP_ALIVE |-> 1, F_CONNECTION_CLOSE |-> 2,
        F_CONNECTION_UPGRADE |-> 3, F_TRAILING |-> 4, F_UPGRADE |-> 5, F_SKIPBODY |-> 6]
Flag(f) == IF Bit[f] < FlagBits THEN {f} ELSE {}

NonTokens == {"CR", "LF", "HT", "8b", "SP", "(", ")", ",", "/", ":", ";", "=", "?", "@", "[", "]"}
IsToken(c) == c \notin NonTokens
Unhex(c) == IF IS_NUM(c) THEN DigitVal(c)
            ELSE IF IS_HEX(c) THEN 9 + CHOOSE i \in 1 .. 6 : Lowers[i] = LOWER(c)
            ELSE -1

(***************************************************************************)
(* Words.  A matcher is a word, the state that follows its last letter and *)
(* the state that follows a letter that is not the word's.                 *)
(***************************************************************************)
CONNECTION == <<"c", "o", "n", "n", "ection">>
PROXY_CONNECTION == <<"p", "roxy-connection">>
CONTENT_LENGTH == <<"c", "o", "n", "t", "ent-length">>
TRANSFER_ENCODING == <<"t", "ransfer-encoding">>
UPGRADE == <<"u", "pgrade">>
CHUNKED == <<"c", "hunked">>
KEEP_ALIVE == <<"k", "eep-", "alive">>
CLOSE == <<"c", "lose">>

Matcher ==
  LET M(w, h, m) == [word |-> w, hit |-> h, miss |-> m]
  IN  [h_matching_connection |-> M(CONNECTION, "h_connection", "h_general"),
       h_matching_proxy_connection |-> M(PROXY_CONNECTION, "h_connection", "h_general"),
       h_matching_content_length |-> M(CONTENT_LENGTH, "h_content_length", "h_general"),
       h_matching_transfer_encoding |-> M(TRANSFER_ENCODING, "h_transfer_encoding", "h_general"),
       h_matching_upgrade |-> M(UPGRADE, "h_upgrade", "h_general"),
       h_matching_transfer_encoding_chunked |->
         M(CHUNKED, "h_transfer_encoding_chunked", "h_general"),
       h_matching_connection_keep_alive |->
         M(KEEP_ALIVE, "h_connection_keep_alive", "h_matching_connection_token"),
       h_matching_connection_close |->
         M(CLOSE, "h_connection_close", "h_matching_connection_token"),
       h_matching_connection_upgrade |->
         M(UPGRADE, "h_connection_upgrade", "h_matching_connection_token")]

MatchPrefix(h, i, c) ==   \* mutant: the first letters are enough
  LET m == Matcher[h] IN IF i < Len(m.word) /\ c = m.word[i + 1] THEN m.hit ELSE m.miss

\* The letter at index i is c.
Match(h, i, c) ==
  LET m == Matcher[h]
  IN  IF i >= Len(m.word) \/ c # m.word[i + 1] THEN m.miss
      ELSE IF i = Len(m.word) - 1 THEN m.hit
      ELSE h

\* Flags of a header that ended in state h.
HeaderFlag(h) ==
  CASE h = "h_connection_keep_alive" -> Flag("F_CONNECTION_KEEP_ALIVE")
    [] h = "h_connection_close" -> Flag("F_CONNECTION_CLOSE")
    [] h = "h_connection_upgrade" -> Flag("F_CONNECTION_UPGRADE")
    [] h = "h_transfer_encoding_chunked" -> Flag("F_CHUNKED")
    [] OTHER -> {}

\* method_strings, the enum http_method by name.
MethodWord ==
  [DELETE |-> <<"D", "E", "L", "E", "T", "E">>, GET |-> <<"G", "E", "T">>,
   HEAD |-> <<"H", "E", "A", "D">>, POST |-> <<"P", "O", "S", "T">>, PUT |-> <<"P", "U", "T">>,
   CONNECT |-> <<"C", "O", "N", "N", "E", "C", "T">>,
   OPTIONS |-> <<"O", "P", "T", "I", "O", "N", "S">>, TRACE |-> <<"T", "R", "A", "C", "E">>,
   COPY |-> <<"C", "O", "P", "Y">>, LOCK |-> <<"L", "O", "C", "K">>,
   MKCOL |-> <<"M", "K", "C", "O", "L">>, MOVE |-> <<"M", "O", "V", "E">>,
   PROPFIND |-> <<"P", "R", "O", "P", "F", "I", "N", "D">>,
   PROPPATCH |-> <<"P", "R", "O", "P", "P", "A", "T", "C", "H">>,
   SEARCH |-> <<"S", "E", "A", "R", "C", "H">>, UNLOCK |-> <<"U", "N", "L", "O", "C", "K">>,
   REPORT |-> <<"R", "E", "P", "O", "R", "T">>,
   MKACTIVITY |-> <<"M", "K", "A", "C", "T", "I", "V", "I", "T", "Y">>,
   CHECKOUT |-> <<"C", "H", "E", "C", "K", "O", "U", "T">>,
   MERGE |-> <<"M", "E", "R", "G", "E">>,
   MSEARCH |-> <<"M", "-", "S", "E", "A", "R", "C", "H">>,
   NOTIFY |-> <<"N", "O", "T", "I", "F", "Y">>,
   SUBSCRIBE |-> <<"S", "U", "B", "S", "C", "R", "I", "B", "E">>,
   UNSUBSCRIBE |-> <<"U", "N", "S", "U", "B", "S", "C", "R", "I", "B", "E">>,
   PATCH |-> <<"P", "A", "T", "C", "H">>, PURGE |-> <<"P", "U", "R", "G", "E">>,
   MKCALENDAR |-> <<"M", "K", "C", "A", "L", "E", "N", "D", "A", "R">>]

FirstGuess ==
  [C |-> "CONNECT", D |-> "DELETE", G |-> "GET", H |-> "HEAD", L |-> "LOCK", M |-> "MKCOL",
   N |-> "NOTIFY", O |-> "OPTIONS", P |-> "POST", R |-> "REPORT", S |-> "SUBSCRIBE",
   T |-> "TRACE", U |-> "UNLOCK"]

\* From the method guessed so far, at an index, on a letter that is not its
\* own, to the method it must be.
Reguess ==
  {<<"CONNECT", 1, "H", "CHECKOUT">>, <<"CONNECT", 2, "P", "COPY">>,
   <<"MKCOL", 1, "O", "MOVE">>, <<"MKCOL", 1, "E", "MERGE">>, <<"MKCOL", 1, "-", "MSEARCH">>,
   <<"MKCOL", 2, "A", "MKACTIVITY">>, <<"MKCOL", 3, "A", "MKCALENDAR">>,
   <<"SUBSCRIBE", 1, "E", "SEARCH">>,
   <<"POST", 1, "R", "PROPFIND">>, <<"POST", 1, "U", "PUT">>, <<"POST", 1, "A", "PATCH">>,
   <<"PUT", 2, "R", "PURGE">>, <<"UNLOCK", 2, "S", "UNSUBSCRIBE">>,
   <<"PROPFIND", 4, "P", "PROPPATCH">>}

-----------------------------------------------------------------------------
\* http_message_needs_eof, http_should_keep_alive, NEW_MESSAGE and start_state.
http_message_needs_eof(r) ==
  /\ r.type # "HTTP_REQUEST"
  /\ ~(r.status_code \div 100 = 1 \/ r.status_code \in {204, 304} \/ "F_SKIPBODY" \in r.flags)
  /\ "F_CHUNKED" \notin r.flags /\ r.content_length = ULLONG_MAX

http_should_keep_alive(r) ==
  /\ IF r.http_major > 0 /\ r.http_minor > 0
       THEN "F_CONNECTION_CLOSE" \notin r.flags
       ELSE "F_CONNECTION_KEEP_ALIVE" \in r.flags
  /\ ~http_message_needs_eof(r)

NEW_MESSAGEalways(r) ==   \* mutant: a closing message is followed by another
  IF r.type = "HTTP_REQUEST" THEN "s_start_req" ELSE "s_start_res"

NEW_MESSAGE(r) ==
  IF ~http_should_keep_alive(r) THEN "s_dead"
  ELSE IF r.type = "HTTP_REQUEST" THEN "s_start_req" ELSE "s_start_res"

http_parser_init(t) ==
  [type |-> t, flags |-> {}, header_state |-> "h_general", index |-> 0, nread |-> 0,
   content_length |-> 0, http_major |-> 0, http_minor |-> 0, status_code |-> 0,
   method |-> "DELETE", errno |-> "HPE_OK", upgrade |-> FALSE,
   state |-> CASE t = "HTTP_REQUEST" -> "s_start_req"
               [] t = "HTTP_RESPONSE" -> "s_start_res"
               [] OTHER -> "s_start_req_or_res"]

Init ==
  /\ input \in Inputs
  /\ parser = http_parser_init(input.type)
  /\ pc = "idle" /\ p = 0 /\ lim = 0
  /\ mark = NoMarks /\ start = None
  /\ cuts = 0 /\ faults = 0
  /\ calls = << >> /\ attrs = << >>

-----------------------------------------------------------------------------
(***************************************************************************)
(* Ways to leave a byte.  A step gives the parser it leaves behind.        *)
(***************************************************************************)
ch == input.bytes[p + 1]

\* COUNT_HEADER_SIZE(1) at the head of the loop; an inner loop is in it once.
q == IF start = None /\ PARSING_HEADER(parser.state)
       THEN [parser EXCEPT !.nread = @ + 1] ELSE parser

At(S) == /\ pc = "loop" /\ p < lim /\ parser.state \in S
         /\ q.nread <= HTTP_MAX_HEADER_SIZE

\* COUNT_HEADER_SIZE(n)
Count(r, n) ==
  [r EXCEPT !.nread = @ + n,
            !.errno = IF r.nread + n > HTTP_MAX_HEADER_SIZE THEN "HPE_HEADER_OVERFLOW" ELSE @]

\* Leave execute, at stream position n.
Return(r, n) ==
  /\ parser' = r /\ pc' = "idle" /\ p' = n /\ lim' = n /\ mark' = NoMarks /\ start' = None
  /\ UNCHANGED <<input, cuts>>

Quiet == UNCHANGED <<faults, calls, attrs>>

Error(r, e) == Return([r EXCEPT !.errno = e], p) /\ Quiet
Fail(e) == Error(q, e)

\* Stay in the loop, at position n.
Continue(r, n, m, st) ==
  /\ parser' = r /\ p' = n /\ mark' = m /\ start' = st
  /\ UNCHANGED <<input, pc, lim, cuts>>

Step(r) == Continue(r, p + 1, mark, None) /\ Quiet
Goto(s) == Step([q EXCEPT !.state = s])
Reexecute(r) == Continue(r, p, mark, None) /\ Quiet

MARK(cb) == [mark EXCEPT ![cb] = IF @ = None THEN p ELSE @]

Recorded(cb, data) ==
  LET n == Len(calls)
  IN  IF n > 0 /\ cb \in DataCallbacks /\ calls[n].cb = cb
        THEN [calls EXCEPT ![n].data = @ \o data]
        ELSE Append(calls, [cb |-> cb, data |-> data])

\* A callback runs.  It succeeds and the loop goes on with parser ok at
\* position pOk, unless counting the header size found it too large; or it
\* fails or pauses the parser, and execute returns pErr with parser err.
Call(cb, data, m, ok, pOk, err, pErr) ==
  /\ calls' = Recorded(cb, data)
  /\ UNCHANGED attrs
  /\ \/ /\ UNCHANGED faults
        /\ IF ok.errno = "HPE_OK"
             THEN Continue(ok, pOk, [c \in DataCallbacks |-> IF c = cb THEN None ELSE m[c]], None)
             ELSE Return(ok, p)
     \/ /\ faults < input.faults /\ faults' = faults + 1
        /\ \E e \in {"HPE_CB", "HPE_PAUSED"} : Return([err EXCEPT !.errno = e], pErr)

\* CALLBACK_NOTIFY: the byte is consumed either way.
Notify(cb, r) == Call(cb, << >>, mark, r, p + 1, r, p + 1)

\* CALLBACK_DATA up to position to, if there is a mark.
CallData(cb, m, to, ok, pOk, err, pErr) ==
  IF m[cb] = None THEN Continue(ok, pOk, m, None) /\ Quiet
  ELSE Call(cb, SubSeq(input.bytes, m[cb] + 1, to), m, ok, pOk, err, pErr)

-----------------------------------------------------------------------------
(***************************************************************************)
(* Entering and leaving http_parser_execute, and its caller.  A chunk of n *)
(* bytes; the marks of the state it starts in are set to its first byte.   *)
(* In an error state execute returns 0 and does nothing.                   *)
(***************************************************************************)
MarkOnEntry(s) ==
  CASE s = "s_header_field" -> {"header_field"}
    [] s = "s_header_value" -> {"header_value"}
    [] s \in UrlStates -> {"url"}
    [] s = "s_res_status" -> {"status"}
    [] OTHER -> {}

\* The connection is no longer HTTP; what follows is not for the parser.
Upgraded == parser.upgrade /\ parser.state \in {"s_start_req", "s_start_res", "s_dead"}

Execute(n) ==
  /\ pc = "idle" /\ parser.errno = "HPE_OK" /\ ~Upgraded
  /\ p + n <= Len(input.bytes)
  /\ cuts' = IF p + n < Len(input.bytes) THEN cuts + 1 ELSE cuts
  /\ cuts' <= input.cuts
  /\ pc' = "loop" /\ lim' = p + n
  /\ mark' = [c \in DataCallbacks |-> IF c \in MarkOnEntry(parser.state) THEN p ELSE None]
  /\ UNCHANGED <<input, parser, p, start, faults, calls, attrs>>

\* The end of the chunk: callbacks for the marks that are left, in this order.
LeftOver == <<"header_field", "header_value", "url", "body", "status">>

EndOfData ==
  /\ pc = "loop" /\ p = lim
  /\ \E i \in 1 .. 5 :
       /\ mark[LeftOver[i]] # None
       /\ \A j \in 1 .. i - 1 : mark[LeftOver[j]] = None
       /\ CallData(LeftOver[i], mark, p, parser, p, parser, p)

EndOfCall ==
  /\ pc = "loop" /\ p = lim /\ mark = NoMarks
  /\ Return(parser, p) /\ Quiet

\* The caller goes on after a pause: http_parser_pause(parser, 0).
Unpause ==
  /\ pc = "idle" /\ parser.errno = "HPE_PAUSED"
  /\ parser' = [parser EXCEPT !.errno = "HPE_OK"]
  /\ UNCHANGED <<input, pc, p, lim, mark, start, cuts, faults, calls, attrs>>

\* A call with length 0: the connection was closed by the peer.  Nothing
\* follows, so what this last callback returns does not matter.
Eof ==
  /\ pc = "idle" /\ parser.errno = "HPE_OK" /\ ~Upgraded
  /\ pc' = "closed"
  /\ parser' = [parser EXCEPT !.errno =
       IF parser.state \in {"s_body_identity_eof", "s_dead", "s_start_req_or_res",
                            "s_start_res", "s_start_req"}
         THEN @ ELSE "HPE_INVALID_EOF_STATE"]
  /\ calls' = IF parser.state = "s_body_identity_eof" THEN Recorded("message_complete", << >>)
              ELSE calls
  /\ UNCHANGED <<input, p, lim, mark, start, cuts, faults, attrs>>

HeaderOverflow ==
  /\ pc = "loop" /\ p < lim /\ q.nread > HTTP_MAX_HEADER_SIZE
  /\ Fail("HPE_HEADER_OVERFLOW")

-----------------------------------------------------------------------------
(***************************************************************************)
(* The start of a message and a response's first line.                     *)
(***************************************************************************)
LineEnd == {"CR", "LF"}
Fresh(r) == [r EXCEPT !.flags = {}, !.content_length = ULLONG_MAX]

Dead ==
  /\ At({"s_dead"})
  /\ IF ch \in LineEnd THEN Step(q) ELSE Fail("HPE_CLOSED_CONNECTION")

StartReqOrRes ==
  /\ At({"s_start_req_or_res"})
  /\ \/ ch \in LineEnd /\ Step(q)
     \/ ch = "H" /\ Notify("message_begin", [Fresh(q) EXCEPT !.state = "s_res_or_resp_H"])
     \/ /\ ch \notin LineEnd \cup {"H"}
        /\ Reexecute([Fresh(q) EXCEPT !.type = "HTTP_REQUEST", !.state = "s_start_req"])

ResOrRespH ==
  /\ At({"s_res_or_resp_H"})
  /\ \/ ch = "T" /\ Step([q EXCEPT !.type = "HTTP_RESPONSE", !.state = "s_res_HT"])
     \/ ch = "E" /\ Step([q EXCEPT !.type = "HTTP_REQUEST", !.method = "HEAD", !.index = 2,
                                   !.state = "s_req_method"])
     \/ ch \notin {"T", "E"} /\ Fail("HPE_INVALID_CONSTANT")

\* message_begin is called for a blank line too.
StartRes ==
  /\ At({"s_start_res"})
  /\ \/ ch = "H" /\ Notify("message_begin", [Fresh(q) EXCEPT !.state = "s_res_H"])
     \/ ch \in LineEnd /\ Notify("message_begin", Fresh(q))
     \/ ch \notin LineEnd \cup {"H"} /\ Error(Fresh(q), "HPE_INVALID_CONSTANT")

\* The states in which one byte is right: the byte, the next state and the
\* error of any other byte.
Expect ==
  LET E(c, s, e) == [byte |-> c, next |-> s, errno |-> e]
  IN  [s_res_H |-> E("T", "s_res_HT", "HPE_STRICT"),
       s_res_HT |-> E("T", "s_res_HTT", "HPE_STRICT"),
       s_res_HTT |-> E("P", "s_res_HTTP", "HPE_STRICT"),
       s_res_HTTP |-> E("/", "s_res_first_http_major", "HPE_STRICT"),
       s_res_line_almost_done |-> E("LF", "s_header_field_start", "HPE_STRICT"),
       s_req_http_H |-> E("T", "s_req_http_HT", "HPE_STRICT"),
       s_req_http_HT |-> E("T", "s_req_http_HTT", "HPE_STRICT"),
       s_req_http_HTT |-> E("P", "s_req_http_HTTP", "HPE_STRICT"),
       s_req_http_HTTP |-> E("/", "s_req_first_http_major", "HPE_STRICT"),
       s_req_line_almost_done |-> E("LF", "s_header_field_start", "HPE_LF_EXPECTED"),
       s_header_almost_done |-> E("LF", "s_header_value_lws", "HPE_STRICT"),
       s_header_value_discard_ws_almost_done |->
         E("LF", "s_header_value_discard_lws", "HPE_STRICT")]

OneByte ==
  /\ At(DOMAIN Expect)
  /\ LET e == Expect[parser.state]
     IN  IF ch = e.byte THEN Goto(e.next) ELSE Fail(e.errno)

\* http_major and http_minor: a first digit, then digits up to 999, then what
\* ends the number.
FirstMajor ==
  /\ At({"s_res_first_http_major", "s_req_first_http_major"})
  /\ LET req == parser.state = "s_req_first_http_major"
     IN  IF IS_NUM(ch) /\ ~(req /\ ch = "0")
           THEN Step([q EXCEPT !.http_major = DigitVal(ch),
                               !.state = IF req THEN "s_req_http_major" ELSE "s_res_http_major"])
           ELSE Fail("HPE_INVALID_VERSION")

Major ==
  /\ At({"s_res_http_major", "s_req_http_major"})
  /\ IF ch = "." THEN Goto(IF parser.state = "s_req_http_major" THEN "s_req_first_http_minor"
                                                                 ELSE "s_res_first_http_minor")
     ELSE IF IS_NUM(ch) /\ 10 * parser.http_major + DigitVal(ch) <= 999
       THEN Step([q EXCEPT !.http_major = 10 * @ + DigitVal(ch)])
       ELSE Fail("HPE_INVALID_VERSION")

FirstMinor ==
  /\ At({"s_res_first_http_minor", "s_req_first_http_minor"})
  /\ IF IS_NUM(ch)
       THEN Step([q EXCEPT !.http_minor = DigitVal(ch),
                           !.state = IF @ = "s_req_first_http_minor" THEN "s_req_http_minor"
                                                                     ELSE "s_res_http_minor"])
       ELSE Fail("HPE_INVALID_VERSION")

Minor ==
  /\ At({"s_res_http_minor", "s_req_http_minor"})
  /\ LET req == parser.state = "s_req_http_minor"
     IN  IF ~req /\ ch = "SP" THEN Goto("s_res_first_status_code")
         ELSE IF req /\ ch = "CR" THEN Goto("s_req_line_almost_done")
         ELSE IF req /\ ch = "LF" THEN Goto("s_header_field_start")
         ELSE IF IS_NUM(ch) /\ 10 * parser.http_minor + DigitVal(ch) <= 999
           THEN Step([q EXCEPT !.http_minor = 10 * @ + DigitVal(ch)])
           ELSE Fail("HPE_INVALID_VERSION")

FirstStatusCode ==
  /\ At({"s_res_first_status_code"})
  /\ \/ IS_NUM(ch) /\ Step([q EXCEPT !.status_code = DigitVal(ch), !.state = "s_res_status_code"])
     \/ ch = "SP" /\ Step(q)
     \/ ~IS_NUM(ch) /\ ch # "SP" /\ Fail("HPE_INVALID_STATUS")

\* The line end of a status line, from states that allow it.
StatusLineEnd(c) == IF c = "CR" THEN "s_res_line_almost_done" ELSE "s_header_field_start"

StatusCode ==
  /\ At({"s_res_status_code"})
  /\ IF ch = "SP" THEN Goto("s_res_status_start")
     ELSE IF ch \in LineEnd THEN Goto(StatusLineEnd(ch))
     ELSE IF IS_NUM(ch) /\ 10 * parser.status_code + DigitVal(ch) <= 999
       THEN Step([q EXCEPT !.status_code = 10 * @ + DigitVal(ch)])
       ELSE Fail("HPE_INVALID_STATUS")

StatusStart ==
  /\ At({"s_res_status_start"})
  /\ IF ch \in LineEnd THEN Goto(StatusLineEnd(ch))
     ELSE /\ Continue([q EXCEPT !.state = "s_res_status", !.index = 0], p + 1, MARK("status"), None)
          /\ Quiet

Status ==
  /\ At({"s_res_status"})
  /\ IF ch \in LineEnd
       THEN LET r == [q EXCEPT !.state = StatusLineEnd(ch)]
            IN  CallData("status", mark, p, r, p + 1, r, p + 1)
       ELSE Step(q)

-----------------------------------------------------------------------------
(***************************************************************************)
(* The request line.                                                       *)
(***************************************************************************)
StartReq ==
  /\ At({"s_start_req"})
  /\ \/ ch \in LineEnd /\ Step(q)
     \/ /\ ch \in DOMAIN FirstGuess
        /\ Notify("message_begin", [Fresh(q) EXCEPT !.method = FirstGuess[ch], !.index = 1,
                                                    !.state = "s_req_method"])
     \/ /\ ch \notin LineEnd \cup DOMAIN FirstGuess
        /\ Error(Fresh(q), "HPE_INVALID_METHOD")

ReqMethod ==
  /\ At({"s_req_method"})
  /\ LET word == MethodWord[parser.method]
         i == parser.index
         others == {g \in Reguess : g[1] = parser.method /\ g[2] = i /\ g[3] = ch}
         own == i < Len(word) /\ ch = word[i + 1]
     IN  \/ ch = "SP" /\ i = Len(word) /\ Step([q EXCEPT !.state = "s_req_spaces_before_url", !.index = i + 1])
         \/ own /\ Step([q EXCEPT !.index = i + 1])
         \/ ~own /\ \E g \in others : Step([q EXCEPT !.method = g[4], !.index = i + 1])
         \/ ~own /\ others = {} /\ ~(ch = "SP" /\ i = Len(word)) /\ Fail("HPE_INVALID_METHOD")

SpacesBeforeUrl ==
  /\ At({"s_req_spaces_before_url"})
  /\ LET from == IF parser.method = "CONNECT" THEN "s_req_server_start" ELSE parser.state
         s == parse_url_char(from, ch)
     IN  IF ch = "SP" THEN Step(q)
         ELSE IF s = "s_dead" THEN Error([q EXCEPT !.state = s], "HPE_INVALID_URL")
         ELSE Continue([q EXCEPT !.state = s], p + 1, MARK("url"), None) /\ Quiet

\* A blank or line end ends the url, unless the url has just begun.
UrlMayEnd(s) == s \notin {"s_req_schema", "s_req_schema_slash", "s_req_schema_slash_slash",
                          "s_req_server_start"}

Url ==
  /\ At(UrlStates)
  /\ ch \notin LineEnd \cup {"SP"}
  /\ LET s == parse_url_char(parser.state, ch)
     IN  IF s = "s_dead" THEN Error([q EXCEPT !.state = s], "HPE_INVALID_URL") ELSE Goto(s)

UrlEnd ==
  /\ At(UrlStates)
  /\ ch \in LineEnd \cup {"SP"}
  /\ LET r == IF ch = "SP" THEN [q EXCEPT !.state = "s_req_http_start"]
              ELSE [q EXCEPT !.http_major = 0, !.http_minor = 9,
                             !.state = IF ch = "CR" THEN "s_req_line_almost_done"
                                                    ELSE "s_header_field_start"]
     IN  IF UrlMayEnd(parser.state) THEN CallData("url", mark, p, r, p + 1, r, p + 1)
                                    ELSE Fail("HPE_INVALID_URL")

HttpStart ==
  /\ At({"s_req_http_start"})
  /\ \/ ch = "H" /\ Goto("s_req_http_H")
     \/ ch = "SP" /\ Step(q)
     \/ ch \notin {"H", "SP"} /\ Fail("HPE_INVALID_CONSTANT")

-----------------------------------------------------------------------------
(***************************************************************************)
(* Headers.                                                                *)
(***************************************************************************)
FirstLetter(c) ==
  CASE c = "c" -> "h_C"
    [] c = "p" -> "h_matching_proxy_connection"
    [] c = "t" -> "h_matching_transfer_encoding"
    [] c = "u" -> "h_matching_upgrade"
    [] OTHER -> "h_general"

\* A bare LF ends the headers as CR LF does.
HeaderFieldStart ==
  /\ At({"s_header_field_start"})
  /\ IF ch = "CR" THEN Goto("s_headers_almost_done")
     ELSE IF ch = "LF" THEN Reexecute([q EXCEPT !.state = "s_headers_almost_done"])
     ELSE IF ~IsToken(ch) THEN Fail("HPE_INVALID_HEADER_TOKEN")
     ELSE /\ Continue([q EXCEPT !.state = "s_header_field", !.index = 0,
                                !.header_state = FirstLetter(LOWER(ch))],
                      p + 1, MARK("header_field"), None)
          /\ Quiet

\* A letter c of a header's name, read in header state r.header_state.
NameLetter(r, c) ==
  LET h == r.header_state
      i == r.index + 1
      next == CASE h = "h_C" -> IF c = "o" THEN "h_CO" ELSE "h_general"
                [] h = "h_CO" -> IF c = "n" THEN "h_CON" ELSE "h_general"
                [] h = "h_CON" -> IF c = "n" THEN "h_matching_connection"
                                  ELSE IF c = "t" THEN "h_matching_content_length"
                                  ELSE "h_general"
                [] h \in DOMAIN Matcher -> Match(h, i, c)
                [] OTHER -> "h_general"
  IN  [r EXCEPT !.header_state = next,
                !.index = IF h \in DOMAIN Matcher \cup {"h_C", "h_CO", "h_CON"} THEN i ELSE @]

InnerStepUncounted(r, n) ==   \* mutant: a name or value that goes on is not counted
  /\ Quiet
  /\ IF n < lim THEN Continue(r, n, mark, IF start = None THEN p ELSE start)
     ELSE Continue(r, n, mark, None)

\* The inner loops of s_header_field and s_header_value take position n next,
\* and count what they took when the chunk ends.
InnerStep(r, n) ==
  LET from == IF start = None THEN p ELSE start
      done == Count(r, n - from)
  IN  /\ Quiet
      /\ IF n < lim THEN Continue(r, n, mark, from)
         ELSE IF done.errno = "HPE_OK" THEN Continue(done, n, mark, None)
         ELSE Return(done, n)

Taken == IF start = None THEN 0 ELSE p - start

HeaderField ==
  /\ At({"s_header_field"})
  /\ LET r == Count(q, Taken)
         named == [r EXCEPT !.state = "s_header_value_discard_ws"]
     IN  IF IsToken(ch) THEN InnerStep(NameLetter(q, LOWER(ch)), p + 1)
         ELSE IF r.errno # "HPE_OK" THEN Return(r, p) /\ Quiet
         ELSE IF ch = ":" THEN CallData("header_field", mark, p, named, p + 1, named, p + 1)
         ELSE Error(r, "HPE_INVALID_HEADER_TOKEN")

Blank == {"SP", "HT"}

\* s_header_value_start: the first byte of a value.
ConnectionToken(c, other) ==
  CASE c = "k" -> "h_matching_connection_keep_alive"
    [] c = "c" -> "h_matching_connection_close"
    [] c = "u" -> "h_matching_connection_upgrade"
    [] OTHER -> other

ValueStart ==
  LET h == parser.header_state
      c == LOWER(ch)
      r == [q EXCEPT !.state = "s_header_value", !.index = 0]
      next == CASE h = "h_transfer_encoding" /\ c = "c" -> "h_matching_transfer_encoding_chunked"
                [] h = "h_connection" -> ConnectionToken(c, "h_matching_connection_token")
                [] h \in {"h_content_length", "h_matching_connection_token_start"} -> h
                [] OTHER -> "h_general"
  IN  IF h = "h_content_length" /\ ~IS_NUM(ch) THEN Error(r, "HPE_INVALID_CONTENT_LENGTH")
      ELSE /\ Continue([r EXCEPT !.header_state = next,
                                 !.flags = IF h = "h_upgrade" THEN @ \cup Flag("F_UPGRADE") ELSE @,
                                 !.content_length = IF h = "h_content_length" THEN DigitVal(ch) ELSE @],
                       p + 1, MARK("header_value"), None)
           /\ Quiet

HeaderValueStart == At({"s_header_value_start"}) /\ ValueStart

DiscardWs ==
  /\ At({"s_header_value_discard_ws"})
  /\ \/ ch \in Blank /\ Step(q)
     \/ ch = "CR" /\ Goto("s_header_value_discard_ws_almost_done")
     \/ ch = "LF" /\ Goto("s_header_value_discard_lws")
     \/ ch \notin Blank \cup LineEnd /\ ValueStart

LengthOverflowsLate(r, base) ==   \* mutant: the room for the digit is forgotten
  ULLONG_MAX \div base < r.content_length

LengthOverflows(r, base) == (ULLONG_MAX - base) \div base < r.content_length

\* It separates the tokens of a Connection header.
Comma == ","

\* A further byte of a value.
ValueByte(r) ==
  LET h == r.header_state
      c == LOWER(ch)
      i == r.index + 1
  IN  CASE h = "h_content_length" /\ ch = "SP" -> r
        [] h = "h_content_length" /\ ch # "SP" ->
             IF ~IS_NUM(ch) \/ LengthOverflows(r, 10)
               THEN [r EXCEPT !.errno = "HPE_INVALID_CONTENT_LENGTH"]
               ELSE [r EXCEPT !.content_length = 10 * @ + DigitVal(ch)]
        [] h \in DOMAIN Matcher -> [r EXCEPT !.index = i, !.header_state = Match(h, i, c)]
        [] h = "h_matching_connection_token_start" ->
             [r EXCEPT !.header_state =
                ConnectionToken(c, IF IsToken(c) THEN "h_matching_connection_token" ELSE "h_general")]
        [] h \in {"h_matching_connection_token", "h_connection_keep_alive", "h_connection_close",
                  "h_connection_upgrade"} ->
             IF ch = Comma THEN [r EXCEPT !.flags = @ \cup HeaderFlag(h), !.index = 0,
                                        !.header_state = "h_matching_connection_token_start"]
             ELSE IF ch = "SP" THEN r
             ELSE [r EXCEPT !.header_state = "h_matching_connection_token"]
        [] h = "h_transfer_encoding_chunked" /\ ch = "SP" -> r
        [] OTHER -> [r EXCEPT !.header_state = "h_general"]

\* In h_general the rest of the line is skipped with memchr, which looks at no
\* more than HTTP_MAX_HEADER_SIZE bytes.
LineEndFrom(n) ==
  LET ends == {k \in n .. lim - 1 : k < n + HTTP_MAX_HEADER_SIZE /\ input.bytes[k + 1] \in LineEnd}
  IN  IF ends = {} THEN lim ELSE CHOOSE k \in ends : \A j \in ends : k <= j

\* At a bare LF the size is counted before and, as the LF is read again,
\* behind the callback.
HeaderValue ==
  /\ At({"s_header_value"})
  /\ LET r == [q EXCEPT !.state = "s_header_almost_done"]
         counted == Count(r, Taken)
         byte == ValueByte(q)
     IN  \/ ch = "CR" /\ CallData("header_value", mark, p, counted, p + 1, r, p + 1)
         \/ /\ ch = "LF"
            /\ IF counted.errno # "HPE_OK" THEN Return(counted, p) /\ Quiet
               ELSE CallData("header_value", mark, p, Count(counted, Taken - 1), p, counted, p)
         \/ /\ ch \notin LineEnd
            /\ IF byte.errno # "HPE_OK" THEN Return(byte, p) /\ Quiet
               ELSE InnerStep(byte, IF q.header_state = "h_general" THEN LineEndFrom(p) ELSE p + 1)

\* A line that starts with a blank continues the value.
HeaderValueLws ==
  /\ At({"s_header_value_lws"})
  /\ IF ch \in Blank THEN Reexecute([q EXCEPT !.state = "s_header_value_start"])
     ELSE Reexecute([q EXCEPT !.flags = @ \cup HeaderFlag(q.header_state),
                              !.state = "s_header_field_start"])

DiscardLwsSilent ==   \* mutant: nothing is called for an empty value
  /\ At({"s_header_value_discard_lws"})
  /\ IF ch \in Blank THEN Goto("s_header_value_discard_ws")
     ELSE Reexecute([q EXCEPT !.flags = @ \cup HeaderFlag(q.header_state),
                              !.state = "s_header_field_start"])

DiscardLws ==
  /\ At({"s_header_value_discard_lws"})
  /\ LET r == [q EXCEPT !.flags = @ \cup HeaderFlag(q.header_state), !.state = "s_header_field_start"]
     IN  IF ch \in Blank THEN Goto("s_header_value_discard_ws")
         ELSE CallData("header_value", MARK("header_value"), p, r, p, r, p)

-----------------------------------------------------------------------------
(***************************************************************************)
(* The end of the headers.  on_headers_complete answers 0, or 1 for "there *)
(* is no body", fails, or pauses.  The LF is read again in s_headers_done. *)
(***************************************************************************)
Upgrade(r) == {"F_UPGRADE", "F_CONNECTION_UPGRADE"} \subseteq r.flags \/ r.method = "CONNECT"

Attrs(r) == [type |-> r.type, method |-> IF r.type = "HTTP_REQUEST" THEN r.method ELSE "none",
             version |-> <<r.http_major, r.http_minor>>, status |-> r.status_code,
             upgrade |-> r.upgrade, keep_alive |-> http_should_keep_alive(r)]

Answered(r, noBody) == attrs' = Append(attrs, [seen |-> Attrs(r), noBody |-> noBody])

HeadersAlmostDone ==
  /\ At({"s_headers_almost_done"})
  /\ LET r == [q EXCEPT !.state = "s_headers_done", !.upgrade = Upgrade(q)]
     IN  \/ ch # "LF" /\ Fail("HPE_STRICT")
         \/ /\ ch = "LF" /\ "F_TRAILING" \in q.flags
            /\ Notify("message_complete", [q EXCEPT !.state = NEW_MESSAGE(q)])
         \/ /\ ch = "LF" /\ "F_TRAILING" \notin q.flags
            /\ calls' = Recorded("headers_complete", << >>)
            /\ \/ Answered(r, FALSE) /\ Continue(r, p, mark, None) /\ UNCHANGED faults
               \/ /\ faults < input.faults /\ faults' = faults + 1
                  /\ \/ /\ Answered(r, TRUE)
                        /\ Continue([r EXCEPT !.flags = @ \cup Flag("F_SKIPBODY")], p, mark, None)
                     \/ /\ Answered(r, FALSE)
                        /\ \E e \in {"HPE_CB", "HPE_PAUSED"} : Return([r EXCEPT !.errno = e], p)

\* What follows the headers: nothing, chunks, a counted body or one up to EOF.
BodyState(r) ==
  IF "F_SKIPBODY" \in r.flags THEN "none"
  ELSE IF "F_CHUNKED" \in r.flags THEN "s_chunk_size_start"
  ELSE IF r.content_length = 0 THEN "none"
  ELSE IF r.content_length # ULLONG_MAX THEN "s_body_identity"
  ELSE IF r.type = "HTTP_REQUEST" \/ ~http_message_needs_eof(r) THEN "none"
  ELSE "s_body_identity_eof"

HeadersDone ==
  /\ At({"s_headers_done"})
  /\ LET r == [q EXCEPT !.nread = 0]
         new == [r EXCEPT !.state = NEW_MESSAGE(r)]
     IN  \/ ch # "LF" /\ Fail("HPE_STRICT")
         \/ /\ ch = "LF" /\ ~r.upgrade
            /\ IF BodyState(r) = "none" THEN Notify("message_complete", new)
               ELSE Step([r EXCEPT !.state = BodyState(r)])
         \/ /\ ch = "LF" /\ r.upgrade   \* the rest is another protocol
            /\ calls' = Recorded("message_complete", << >>)
            /\ UNCHANGED attrs
            /\ \/ Return(new, p + 1) /\ UNCHANGED faults
               \/ /\ faults < input.faults /\ faults' = faults + 1
                  /\ \E e \in {"HPE_CB", "HPE_PAUSED"} : Return([new EXCEPT !.errno = e], p + 1)

-----------------------------------------------------------------------------
(***************************************************************************)
(* Bodies.  The last byte of a counted body is read again in               *)
(* s_message_done.                                                         *)
(***************************************************************************)
ToRead == IF parser.content_length < lim - p THEN parser.content_length ELSE lim - p
Read(n) == [q EXCEPT !.content_length = @ - n]

BodyIdentity ==
  /\ At({"s_body_identity"})
  /\ LET n == ToRead
         r == [Read(n) EXCEPT !.state = "s_message_done"]
     IN  IF n = parser.content_length
           THEN CallData("body", MARK("body"), p + n, r, p + n - 1, r, p + n - 1)
           ELSE Continue(Read(n), p + n, MARK("body"), None) /\ Quiet

BodyIdentityEofReexecutes ==   \* mutant: the byte is read again, and again
  At({"s_body_identity_eof"}) /\ Continue(q, p, MARK("body"), None) /\ Quiet

BodyIdentityEof ==
  /\ At({"s_body_identity_eof"})
  /\ Continue(q, lim, MARK("body"), None) /\ Quiet

MessageDone ==
  /\ At({"s_message_done"})
  /\ Notify("message_complete", [q EXCEPT !.state = NEW_MESSAGE(q)])

ChunkSizeStart ==
  /\ At({"s_chunk_size_start"})
  /\ IF Unhex(ch) = -1 THEN Fail("HPE_INVALID_CHUNK_SIZE")
     ELSE Step([q EXCEPT !.content_length = Unhex(ch), !.state = "s_chunk_size"])

\* What may follow the size of a chunk on its line.
ChunkExtension == {";", "SP"}

ChunkSize ==
  /\ At({"s_chunk_size"})
  /\ \/ ch = "CR" /\ Goto("s_chunk_size_almost_done")
     \/ ch \in ChunkExtension /\ Goto("s_chunk_parameters")
     \/ /\ Unhex(ch) # -1
        /\ IF LengthOverflows(q, 16) THEN Fail("HPE_INVALID_CONTENT_LENGTH")
           ELSE Step([q EXCEPT !.content_length = 16 * @ + Unhex(ch)])
     \/ ch \notin {"CR"} \cup ChunkExtension /\ Unhex(ch) = -1 /\ Fail("HPE_INVALID_CHUNK_SIZE")

ChunkParameters ==
  /\ At({"s_chunk_parameters"})
  /\ IF ch = "CR" THEN Goto("s_chunk_size_almost_done") ELSE Step(q)

ChunkSizeAlmostDone ==
  /\ At({"s_chunk_size_almost_done"})
  /\ LET r == [q EXCEPT !.nread = 0]
     IN  IF ch # "LF" THEN Fail("HPE_STRICT")
         ELSE IF r.content_length = 0
           THEN Step([r EXCEPT !.flags = @ \cup Flag("F_TRAILING"), !.state = "s_header_field_start"])
           ELSE Step([r EXCEPT !.state = "s_chunk_data"])

ChunkData ==
  /\ At({"s_chunk_data"})
  /\ LET n == ToRead
     IN  Continue([Read(n) EXCEPT !.state = IF n = parser.content_length
                                              THEN "s_chunk_data_almost_done" ELSE @],
                  p + n, MARK("body"), None)
  /\ Quiet

ChunkDataAlmostDone ==
  /\ At({"s_chunk_data_almost_done"})
  /\ LET r == [q EXCEPT !.state = "s_chunk_data_done"]
     IN  IF ch = "CR" THEN CallData("body", mark, p, r, p + 1, r, p + 1) ELSE Fail("HPE_STRICT")

ChunkDataDone ==
  /\ At({"s_chunk_data_done"})
  /\ IF ch = "LF" THEN Step([q EXCEPT !.nread = 0, !.state = "s_chunk_size_start"])
     ELSE Fail("HPE_STRICT")

-----------------------------------------------------------------------------
Loop ==
  \/ EndOfData \/ EndOfCall \/ HeaderOverflow
  \/ Dead \/ StartReqOrRes \/ ResOrRespH \/ StartRes \/ OneByte
  \/ FirstMajor \/ Major \/ FirstMinor \/ Minor
  \/ FirstStatusCode \/ StatusCode \/ StatusStart \/ Status
  \/ StartReq \/ ReqMethod \/ SpacesBeforeUrl \/ Url \/ UrlEnd \/ HttpStart
  \/ HeaderFieldStart \/ HeaderField \/ DiscardWs \/ HeaderValueStart \/ HeaderValue
  \/ HeaderValueLws \/ DiscardLws \/ HeadersAlmostDone \/ HeadersDone
  \/ BodyIdentity \/ BodyIdentityEof \/ MessageDone
  \/ ChunkSizeStart \/ ChunkSize \/ ChunkParameters \/ ChunkSizeAlmostDone
  \/ ChunkData \/ ChunkDataAlmostDone \/ ChunkDataDone

Next == Loop \/ Unpause \/ Eof \/ \E n \in 1 .. Len(input.bytes) : Execute(n)

Spec == Init /\ [][Next]_vars

\* http_parser_execute is sequential code: it takes its next step.
FairSpec == Spec /\ WF_vars(Loop)

-----------------------------------------------------------------------------
(***************************************************************************)
(* Properties.                                                             *)
(***************************************************************************)
Callbacks == DataCallbacks \cup {"message_begin", "headers_complete", "message_complete"}

TypeOK ==
  /\ pc \in {"idle", "loop", "closed"}
  /\ p \in 0 .. lim /\ lim \in 0 .. Len(input.bytes)
  /\ \A c \in DataCallbacks : mark[c] = None \/ mark[c] \in 0 .. p
  /\ start = None \/ start \in 0 .. p
  /\ cuts \in 0 .. input.cuts /\ faults \in 0 .. input.faults
  /\ \A i \in DOMAIN calls : calls[i].cb \in Callbacks
  /\ parser.flags \subseteq DOMAIN Bit
  /\ parser.method \in DOMAIN MethodWord
  /\ parser.nread \in 0 .. HTTP_MAX_HEADER_SIZE \/ parser.errno = "HPE_HEADER_OVERFLOW"
  /\ parser.content_length \in 0 .. ULLONG_MAX
  /\ {parser.http_major, parser.http_minor, parser.status_code} \subseteq 0 .. 999

IsPrefixOf(s, t) == Len(s) <= Len(t) /\ s = SubSeq(t, 1, Len(s))

\* on_headers_complete said "there is no body" of a message that has one.
BodyDenied ==
  LET complete == {i \in DOMAIN input.calls : input.calls[i].cb = "headers_complete"}
      has(k) == \E i \in complete : /\ Cardinality({j \in complete : j <= i}) = k
                                    /\ i < Len(input.calls) /\ input.calls[i + 1].cb = "body"
  IN  \E k \in DOMAIN attrs : attrs[k].noBody /\ has(k)

\* What on_headers_complete saw, message by message.
Seen == [k \in DOMAIN attrs |-> attrs[k].seen]

\* Wherever the stream is cut, and whichever callback pauses the parser, the
\* callbacks so far are those of the messages in the stream, each string in
\* the right place with nothing missing, repeated or added: names and values
\* (continued lines, empty values), bodies by length, by chunks or up to the
\* end, and method, version, keep-alive and upgrade as the message says.  (A
\* peer that closes early ends a body that lasts up to the end.)  It says nothing
\* of a stream once on_headers_complete answered 1 for a message with a body;
\* NoBodyAfterOne is about those.
Delivered ==
  input.known /\ ~BodyDenied /\ (pc = "closed" => p = Len(input.bytes)) =>
    /\ Len(calls) <= Len(input.calls)
    /\ \A i \in DOMAIN calls :
         /\ calls[i].cb = input.calls[i].cb
         /\ IsPrefixOf(calls[i].data, input.calls[i].data)
         /\ i < Len(calls) => calls[i] = input.calls[i]
    /\ IsPrefixOf(Seen, input.attrs)

\* Nothing more will be parsed.
Ended == \/ pc = "closed"
         \/ pc = "idle" /\ parser.errno \notin {"HPE_OK", "HPE_PAUSED"}
         \/ pc = "idle" /\ parser.errno = "HPE_OK" /\ Upgraded

\* A stream that arrived is parsed to the end, whatever the cuts and pauses:
\* all callbacks were made, and the error is the one the stream deserves, if
\* any: a word that is no method, a length that does not fit in 64 bits, bytes
\* behind a closing message.  (Unless a message with a body was said to have
\* none, as in Delivered.)
ParsedToTheEnd ==
  /\ input.known /\ ~BodyDenied /\ Ended /\ parser.errno # "HPE_CB"
  /\ pc = "closed" => p = Len(input.bytes)
  => calls = input.calls /\ Seen = input.attrs /\ parser.errno = input.errno

\* When on_headers_complete answers 1, no body is handed over for the message:
\* http_parser.h:73-77 promises so ("should not expect a body").
NoBodyAfterOne ==
  \A i \in DOMAIN calls : calls[i].cb = "body" =>
    ~attrs[Cardinality({j \in 1 .. i : calls[j].cb = "headers_complete"})].noBody

\* The assertions of the code: one string is being collected at a time, chunk
\* sizes are counted from 1, a body is read only while some of it is missing;
\* and no count leaves its range.
AssertionsHold ==
  /\ TypeOK
  /\ p = lim => \A c, d \in DataCallbacks : mark[c] # None /\ mark[d] # None => c = d
  /\ pc = "loop" /\ p < lim =>
       /\ parser.state = "s_chunk_size_start" => q.nread = 1
       /\ parser.state \in {"s_chunk_size_start", "s_chunk_size", "s_chunk_parameters",
                            "s_chunk_size_almost_done", "s_chunk_data", "s_chunk_data_almost_done",
                            "s_chunk_data_done"} => "F_CHUNKED" \in parser.flags
       /\ parser.state \in {"s_body_identity", "s_chunk_data"} =>
            parser.content_length \notin {0, ULLONG_MAX}
       /\ parser.state = "s_chunk_data_almost_done" => parser.content_length = 0
       /\ parser.state = "s_header_value" =>
            parser.header_state \notin {"h_connection", "h_transfer_encoding"}

\* As long as no callback interferes, nread counts every byte of the headers
\* at least once, so never more than HTTP_MAX_HEADER_SIZE of them are taken;
\* and it counts none more than twice, so headers of half that size pass.
\* (A bad digit of Content-Length ends execute before the digits in front of it
\* are counted.)
HeaderSizeBounded ==
  faults = 0 /\ attrs = << >> /\ start = None =>
    /\ parser.errno # "HPE_INVALID_CONTENT_LENGTH" => p <= parser.nread
    /\ parser.nread <= 2 * (p + 1)
    /\ parser.errno = "HPE_OK" => p <= HTTP_MAX_HEADER_SIZE

\* The callbacks come in the order of a message, for every stream, whatever is
\* wrong with it: begin, first line, headers in pairs, headers_complete, body,
\* trailing headers, complete; and only then the next message.  (A response
\* parser announces a message for every blank line before it.)
Follow(cb) ==
  CASE cb = "message_begin" -> {"url", "status", "header_field", "headers_complete"} \cup
                                 (IF input.type # "HTTP_REQUEST" THEN {cb} ELSE {})
    [] cb \in {"url", "status"} -> {"header_field", "headers_complete"}
    [] cb = "header_field" -> {"header_value"}
    [] cb = "header_value" -> {"header_field", "headers_complete", "message_complete"}
    [] cb = "headers_complete" -> {"body", "header_field", "message_complete"}
    [] cb = "body" -> {"header_field", "message_complete"}
    [] cb = "message_complete" -> {"message_begin"}

CallbackOrder ==
  /\ calls # << >> => calls[1].cb = "message_begin"
  /\ \A i \in 1 .. Len(calls) - 1 : calls[i + 1].cb \in Follow(calls[i].cb)
  /\ \A i \in DOMAIN calls :
       LET open == {j \in 1 .. i : calls[j].cb = "headers_complete"}
           done == {j \in 1 .. i : calls[j].cb = "message_complete"}
       IN  /\ calls[i].cb = "message_complete" => \E j \in open : \A k \in done \ {i} : k < j
           /\ calls[i].cb = "headers_complete" =>
                \A j \in open \ {i} : \E k \in done : j < k

(***************************************************************************)
(* The url as on_message_complete of rstclient.c takes it apart: with      *)
(* is_connect 0, into a structure on the stack that nobody has cleared.    *)
(***************************************************************************)
\* The url, when the callback behind it was made.
CompleteUrl == LET k == Len(calls) - 1 IN IF k > 0 /\ calls[k].cb = "url" THEN {calls[k].data} ELSE {}

\* The bytes of url up to the first of stops, from offset n on.
UpTo(url, n, stops) ==
  LET ends == {i \in n .. Len(url) - 1 : url[i + 1] \in stops} \cup {Len(url)}
  IN  (CHOOSE i \in ends : \A j \in ends : i <= j) - n

\* The fields do not overlap and leave out delimiters only.
FieldsApart(url, u) ==
  LET Part(f) == {i \in 0 .. Len(url) - 1 : u.data[f].off <= i /\ i < u.data[f].off + u.data[f].len}
  IN  /\ \A f \in u.set : u.data[f].len > 0 /\ u.data[f].off + u.data[f].len <= Len(url)
      /\ \A f, g \in u.set : f # g => Part(f) \cap Part(g) = {}
      /\ \A i \in 0 .. Len(url) - 1 :
           url[i + 1] \in {":", "/", "?", "#", "@", "[", "]"} \/ \E f \in u.set : i \in Part(f)

\* The path ends at the first ? or #, the query is what is between ? and #.
PathAndQuery(url, u) ==
  LET n == UpTo(url, 0, {"?", "#"})
      len == IF n < Len(url) /\ url[n + 1] = "?" THEN UpTo(url, n + 1, {"#"}) ELSE 0
  IN  /\ u.data["PATH"] = [off |-> 0, len |-> n]
      /\ ("QUERY" \in u.set) <=> len > 0
      /\ len > 0 => u.data["QUERY"] = [off |-> n + 1, len |-> len]

\* A url that http_parser_execute lets through comes apart the same way in
\* http_parser_parse_url, whatever the structure held before: the fields of a
\* good url are disjoint parts of it and miss nothing but delimiters, and a url
\* that begins with its path always is good, its path ends at the first ? or #
\* and its query is what is between ? and #.  (A url with neither is not asked
\* for its path: url_data then holds junk.)  Two things are excepted: a url too
\* long for offsets of 16 bits, which fits in the headers, and a schema
\* without a host: "host must be present if there is a schema"
\* (http_parser.c:2358) holds in a structure that was cleared; otherwise the
\* junk in the place of the host is taken for one, and may look like one.
UrlTakenApart ==
  \A url \in CompleteUrl, junk \in Junk : Len(url) <= UINT16_MAX =>
    LET r == http_parser_parse_url(url, FALSE, junk)
    IN  /\ r.ret = 0 /\ ("SCHEMA" \in r.u.set => "HOST" \in r.u.set) => FieldsApart(url, r.u)
        /\ r.ret = 0 /\ "SCHEMA" \in r.u.set /\ junk["HOST"].len = 0 => "HOST" \in r.u.set
        /\ url[1] \in {"/", "*"} => r.ret = 0 /\ PathAndQuery(url, r.u)

\* http_parser_execute returns.
ExecuteReturns == pc = "loop" ~> pc # "loop"
=============================================================================
