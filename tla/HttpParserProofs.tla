-------------------------- MODULE HttpParserProofs --------------------------
(***************************************************************************)
(* http_parser_execute, for every stream of bytes, well formed or not,     *)
(* every way to cut it and every callback that fails or pauses: its        *)
(* assertions hold, the size of the headers is bounded, the callbacks come *)
(* in the order of a message, and the urls they get come apart into their  *)
(* fields in http_parser_parse_url.                                        *)
(***************************************************************************)
EXTENDS HttpParser, SequenceTheorems, WellFoundedInduction, TLAPS

-----------------------------------------------------------------------------
(***************************************************************************)
(* The inductive invariant.                                                *)
(***************************************************************************)
MessageTypes == {"HTTP_REQUEST", "HTTP_RESPONSE", "HTTP_BOTH"}
FlagNames == DOMAIN Bit
MethodNames == DOMAIN MethodWord
Lengths == 0 .. ULLONG_MAX
Numbers == 0 .. 999

StateNames == {"s_dead", "s_start_req_or_res", "s_res_or_resp_H", "s_start_res", "s_res_H", "s_res_HT",
  "s_res_HTT", "s_res_HTTP", "s_res_first_http_major", "s_res_http_major", "s_res_first_http_minor",
  "s_res_http_minor", "s_res_first_status_code", "s_res_status_code", "s_res_status_start",
  "s_res_status", "s_res_line_almost_done", "s_start_req", "s_req_method", "s_req_spaces_before_url",
  "s_req_schema", "s_req_schema_slash", "s_req_schema_slash_slash", "s_req_server_start",
  "s_req_server", "s_req_server_with_at", "s_req_path", "s_req_query_string_start",
  "s_req_query_string", "s_req_fragment_start", "s_req_fragment", "s_req_http_start", "s_req_http_H",
  "s_req_http_HT", "s_req_http_HTT", "s_req_http_HTTP", "s_req_first_http_major", "s_req_http_major",
  "s_req_first_http_minor", "s_req_http_minor", "s_req_line_almost_done", "s_header_field_start",
  "s_header_field", "s_header_value_discard_ws", "s_header_value_discard_ws_almost_done",
  "s_header_value_discard_lws", "s_header_value_start", "s_header_value", "s_header_value_lws",
  "s_header_almost_done", "s_chunk_size_start", "s_chunk_size", "s_chunk_parameters",
  "s_chunk_size_almost_done", "s_headers_almost_done", "s_headers_done", "s_chunk_data",
  "s_chunk_data_almost_done", "s_chunk_data_done", "s_body_identity", "s_body_identity_eof",
  "s_message_done"}
HeaderStateNames == {"h_general", "h_C", "h_CO", "h_CON", "h_matching_connection",
  "h_matching_proxy_connection", "h_matching_content_length", "h_matching_transfer_encoding",
  "h_matching_upgrade", "h_connection", "h_content_length", "h_transfer_encoding", "h_upgrade",
  "h_matching_transfer_encoding_chunked", "h_matching_connection_token_start",
  "h_matching_connection_keep_alive", "h_matching_connection_close", "h_matching_connection_upgrade",
  "h_matching_connection_token", "h_transfer_encoding_chunked", "h_connection_keep_alive",
  "h_connection_close", "h_connection_upgrade"}
ErrorNames == {"HPE_OK", "HPE_PAUSED", "HPE_CB", "HPE_HEADER_OVERFLOW", "HPE_INVALID_CONTENT_LENGTH",
  "HPE_INVALID_EOF_STATE", "HPE_CLOSED_CONNECTION", "HPE_INVALID_CONSTANT", "HPE_STRICT",
  "HPE_LF_EXPECTED", "HPE_INVALID_VERSION", "HPE_INVALID_STATUS", "HPE_INVALID_METHOD",
  "HPE_INVALID_URL", "HPE_INVALID_HEADER_TOKEN", "HPE_INVALID_CHUNK_SIZE"}

Parsers == [type : MessageTypes, flags : SUBSET FlagNames, header_state : HeaderStateNames,
            index : Nat, nread : Nat, content_length : Lengths, http_major : Numbers,
            http_minor : Numbers, status_code : Numbers, method : MethodNames, errno : ErrorNames,
            upgrade : BOOLEAN, state : StateNames]
CallRecords == [cb : Callbacks, data : Seq(STRING)]
AttrRecords == [seen : {Attrs(r) : r \in Parsers}, noBody : BOOLEAN]

Types ==
  /\ input \in Inputs /\ pc \in {"idle", "loop", "closed"}
  /\ lim \in 0 .. Len(input.bytes) /\ p \in 0 .. lim
  /\ cuts \in 0 .. input.cuts /\ faults \in 0 .. input.faults
  /\ parser \in Parsers
  /\ parser.nread <= HTTP_MAX_HEADER_SIZE \/ parser.errno = "HPE_HEADER_OVERFLOW"
  /\ calls \in Seq(CallRecords) /\ attrs \in Seq(AttrRecords)
  /\ pc = "loop" => parser.errno = "HPE_OK"

\* The parser goes on, now or in a later call.
Alive == pc # "closed" /\ parser.errno \in {"HPE_OK", "HPE_PAUSED"}

(***************************************************************************)
(* What the parser knows in a state.                                       *)
(***************************************************************************)
SizeStates == {"s_chunk_size", "s_chunk_parameters", "s_chunk_size_almost_done"}
ChunkStates == SizeStates \cup {"s_chunk_size_start", "s_chunk_data", "s_chunk_data_almost_done",
                                "s_chunk_data_done"}
ValueMatchers == {"h_matching_transfer_encoding_chunked", "h_matching_connection_keep_alive",
                  "h_matching_connection_close", "h_matching_connection_upgrade"}
ValueStates == ValueMatchers \cup
  {"h_general", "h_content_length", "h_transfer_encoding_chunked", "h_matching_connection_token",
   "h_matching_connection_token_start", "h_connection_keep_alive", "h_connection_close",
   "h_connection_upgrade"}

Sound(r) ==
  /\ r.state = "s_chunk_size_start" => r.nread = 0
  /\ r.state \in ChunkStates => "F_CHUNKED" \in r.flags
  /\ r.state \in SizeStates => r.content_length # ULLONG_MAX
  /\ r.state \in {"s_body_identity", "s_chunk_data"} => r.content_length \notin {0, ULLONG_MAX}
  /\ r.state = "s_chunk_data_almost_done" => r.content_length = 0
  /\ r.state = "s_header_value" => r.header_state \in ValueStates

(***************************************************************************)
(* Which callback was the last.  A message is open from headers_complete   *)
(* to message_complete.                                                    *)
(***************************************************************************)
LastOf(cs) == IF cs = << >> THEN "none" ELSE cs[Len(cs)].cb
OpenIn(cs) == \E j \in 1 .. Len(cs) : /\ cs[j].cb = "headers_complete"
                                      /\ \A k \in j .. Len(cs) : cs[k].cb # "message_complete"

BeginStates == {"s_res_or_resp_H", "s_res_H", "s_res_HT", "s_res_HTT", "s_res_HTTP",
                "s_res_first_http_major", "s_res_http_major", "s_res_first_http_minor",
                "s_res_http_minor", "s_res_first_status_code", "s_res_status_code",
                "s_res_status_start", "s_req_method", "s_req_spaces_before_url"}
StatusStates == {"s_res_status", "s_res_line_almost_done"}
HttpStates == {"s_req_http_start", "s_req_http_H", "s_req_http_HT", "s_req_http_HTT",
               "s_req_http_HTTP", "s_req_first_http_major", "s_req_http_major",
               "s_req_first_http_minor", "s_req_http_minor", "s_req_line_almost_done"}
NamedStates == {"s_header_value_discard_ws", "s_header_value_discard_ws_almost_done",
                "s_header_value_discard_lws"}
ValuedStates == {"s_header_value_start", "s_header_almost_done", "s_header_value_lws"}
HeaderStates == NamedStates \cup ValuedStates \cup
  {"s_header_field_start", "s_header_field", "s_headers_almost_done", "s_header_value"}
LineStates == BeginStates \cup StatusStates \cup HttpStates \cup UrlStates
StartStates == {"s_start_req", "s_start_res", "s_start_req_or_res"}
BodyParts == ChunkStates \cup {"s_body_identity", "s_body_identity_eof"}

\* A header line may begin: of the message, or of its trailer.
Before(trailing) == IF trailing THEN {"headers_complete", "body", "header_value"}
                    ELSE {"message_begin", "url", "status", "header_value"}

LastFits(s, trailing, l) ==
  /\ s = "s_start_req_or_res" => l = "none"
  /\ s = "s_start_req" => l \in {"none", "message_complete"}
  /\ s = "s_start_res" => l \in {"none", "message_complete", "message_begin"}
  /\ s = "s_dead" => l = "message_complete"
  /\ s \in BeginStates => l = "message_begin"
  /\ s \in StatusStates => l \in {"message_begin", "status"}
  /\ s \in UrlStates => l \in {"message_begin", "url"}
  /\ s \in HttpStates => l = "url"
  /\ s \in {"s_header_field_start", "s_headers_almost_done"} => l \in Before(trailing)
  /\ s = "s_header_field" => l \in Before(trailing) \cup {"header_field"}
  /\ s \in NamedStates => l = "header_field"
  /\ s = "s_header_value" => l \in {"header_field", "header_value"}
  /\ s \in ValuedStates => l = "header_value"
  /\ s = "s_headers_done" => l = "headers_complete"
  /\ s \in BodyParts => l \in {"headers_complete", "body"}
  /\ s = "s_message_done" => l = "body"

OpenFits(s, trailing, open) ==
  /\ s \in StartStates \cup {"s_dead"} => ~open
  /\ s \in LineStates => ~open /\ ~trailing
  /\ s \in HeaderStates => (open <=> trailing)
  /\ s \in BodyParts \cup {"s_headers_done", "s_message_done"} => open

\* new: the first headers_complete is still to come.
FirstFits(s, trailing, new) ==
  new => ~trailing /\ s \in StartStates \cup LineStates \cup HeaderStates

\* A parser of requests stays one.
TypeFits(s, t, in) ==
  in = "HTTP_REQUEST" => t = "HTTP_REQUEST" /\ s \notin {"s_start_res", "s_start_req_or_res", "s_res_or_resp_H"}

Trailing(r) == "F_TRAILING" \in r.flags

Table(s, t, trailing, l, open, new, in) ==
  /\ LastFits(s, trailing, l)
  /\ OpenFits(s, trailing, open)
  /\ FirstFits(s, trailing, new)
  /\ TypeFits(s, t, in)

Fits(r, l, open, new, in) == Table(r.state, r.type, Trailing(r), l, open, new, in)

State == Alive => Sound(parser) /\ Fits(parser, LastOf(calls), OpenIn(calls), attrs = << >>, input.type)

\* Follow, for a parser of type in.
FollowIn(in, cb) ==
  CASE cb = "message_begin" -> {"url", "status", "header_field", "headers_complete"} \cup
                                 (IF in # "HTTP_REQUEST" THEN {cb} ELSE {})
    [] cb \in {"url", "status"} -> {"header_field", "headers_complete"}
    [] cb = "header_field" -> {"header_value"}
    [] cb = "header_value" -> {"header_field", "headers_complete", "message_complete"}
    [] cb = "headers_complete" -> {"body", "header_field", "message_complete"}
    [] cb = "body" -> {"header_field", "message_complete"}
    [] cb = "message_complete" -> {"message_begin"}

\* cb may be called when l was the last one.
May(l, open, cb, in) ==
  /\ cb \in Callbacks
  /\ \/ l = "none" /\ cb = "message_begin"
     \/ l # "none" /\ (cb \in FollowIn(in, l) \/ (cb \in DataCallbacks /\ cb = l))
  /\ cb = "message_complete" => open
  /\ cb = "headers_complete" => ~open

OpenAfter(cb, open) == cb = "headers_complete" \/ (cb # "message_complete" /\ open)

Closes(cs, i) == cs[i].cb = "message_complete" =>
  \E j \in 1 .. i - 1 : cs[j].cb = "headers_complete" /\ \A k \in j .. i - 1 : cs[k].cb # "message_complete"
Opens(cs, i) == cs[i].cb = "headers_complete" =>
  \A j \in 1 .. i - 1 : cs[j].cb = "headers_complete" => \E k \in j .. i - 1 : cs[k].cb = "message_complete"

Ordered(cs, in) ==
  /\ cs # << >> => cs[1].cb = "message_begin"
  /\ \A i \in 1 .. Len(cs) - 1 : cs[i + 1].cb \in FollowIn(in, cs[i].cb)
  /\ \A i \in 1 .. Len(cs) : Closes(cs, i) /\ Opens(cs, i)

(***************************************************************************)
(* Marks, and the inner loops over names and values.                       *)
(***************************************************************************)
Home(c) == CASE c = "header_field" -> {"s_header_field"}
             [] c = "header_value" -> {"s_header_value"}
             [] c = "url" -> UrlStates
             [] c = "status" -> {"s_res_status"}
             [] c = "body" -> {"s_body_identity", "s_body_identity_eof", "s_chunk_data",
                               "s_chunk_data_almost_done"}

\* n is the current byte and l the end of the chunk.
MarksFit(m, st, s, n, l) ==
  /\ m \in [DataCallbacks -> Nat \cup {None}]
  /\ \A c \in DataCallbacks : m[c] # None => m[c] <= n /\ s \in Home(c)
  /\ n < l => \A c \in DataCallbacks \ {"body"} : s \in Home(c) => m[c] # None
  /\ st # None => /\ st \in Nat /\ st < n /\ n < l
                  /\ s \in {"s_header_field", "s_header_value"}

Marks == /\ pc = "loop" => MarksFit(mark, start, parser.state, p, lim)
         /\ pc # "loop" => mark = NoMarks /\ start = None

(***************************************************************************)
(* How nread grows: by one for a byte, and once more for a byte that is    *)
(* read again.                                                             *)
(***************************************************************************)
Most(s, n) ==
  IF s \in {"s_start_req", "s_start_res", "s_headers_almost_done"} THEN 2 * n + 1
  ELSE IF s \in {"s_start_req_or_res", "s_req_method", "s_res_or_resp_H", "s_res_H",
                 "s_header_field_start", "s_header_value_start"} THEN 2 * n
  ELSE 2 * n - 1

Sized(r, n, st) == IF st = None THEN n <= r.nread /\ r.nread <= Most(r.state, n)
                   ELSE st + 1 <= r.nread /\ r.nread <= 2 * st

Size ==
  faults = 0 /\ attrs = << >> =>
    /\ Alive => Sized(parser, p, start)
    /\ start = None => parser.nread <= 2 * p + 2
    /\ start = None /\ parser.errno # "HPE_INVALID_CONTENT_LENGTH" => p <= parser.nread

IInv == Types /\ State /\ Marks /\ Ordered(calls, input.type) /\ Size

-----------------------------------------------------------------------------
(***************************************************************************)
(* Recorded: a piece of a string is put behind the one before it, any      *)
(* other call is a new one.                                                *)
(***************************************************************************)
LEMMA MergedOrdered ==
  ASSUME NEW cs \in Seq(CallRecords), NEW ds \in Seq(CallRecords), Len(ds) = Len(cs), Len(cs) > 0,
         \A i \in 1 .. Len(cs) : ds[i].cb = cs[i].cb, NEW in, Ordered(cs, in)
  PROVE  Ordered(ds, in) /\ LastOf(ds) = LastOf(cs) /\ (OpenIn(ds) <=> OpenIn(cs))
<1> DEFINE n == Len(cs)
<1>0. n \in Nat /\ n > 0 /\ Len(ds) = n /\ cs # << >> /\ ds # << >>
      /\ \A i \in 1 .. n : ds[i].cb = cs[i].cb
  OBVIOUS
<1>1. ds[1].cb = "message_begin"
  BY <1>0 DEF Ordered
<1>2. \A i \in 1 .. n - 1 : ds[i + 1].cb \in FollowIn(in, ds[i].cb)
  BY <1>0 DEF Ordered
<1>3. \A i \in 1 .. n : Closes(ds, i) /\ Opens(ds, i)
  <2> SUFFICES ASSUME NEW i \in 1 .. n PROVE Closes(ds, i) /\ Opens(ds, i)
    OBVIOUS
  <2>1. Closes(cs, i) /\ Opens(cs, i)
    BY DEF Ordered
  <2>2. i - 1 \in 0 .. n /\ \A k \in 1 .. i - 1 : ds[k].cb = cs[k].cb
    BY <1>0
  <2>3. Closes(ds, i)
    BY ONLY <2>1, <2>2, <1>0, n \in Nat, i \in 1 .. n DEF Closes
  <2>4. Opens(ds, i)
    <3> SUFFICES ASSUME ds[i].cb = "headers_complete", NEW j \in 1 .. i - 1, ds[j].cb = "headers_complete"
                 PROVE  \E k \in j .. i - 1 : ds[k].cb = "message_complete"
      BY DEF Opens
    <3>1. PICK k \in j .. i - 1 : cs[k].cb = "message_complete"
      BY <2>1, <2>2, <1>0 DEF Opens
    <3> QED BY <3>1, <2>2
  <2> QED BY <2>3, <2>4
<1>4. LastOf(ds) = LastOf(cs)
  BY <1>0 DEF LastOf
<1>5. OpenIn(ds) <=> OpenIn(cs)
  BY ONLY SMTT(30), <1>0 DEF OpenIn
<1> QED BY <1>0, <1>1, <1>2, <1>3, <1>4, <1>5 DEF Ordered

LEMMA AppendedOrdered ==
  ASSUME NEW cs \in Seq(CallRecords), NEW x \in CallRecords, NEW in, Ordered(cs, in),
         May(LastOf(cs), OpenIn(cs), x.cb, in), ~(Len(cs) > 0 /\ x.cb \in DataCallbacks /\ cs[Len(cs)].cb = x.cb)
  PROVE  LET ds == Append(cs, x)
         IN  /\ ds \in Seq(CallRecords) /\ Ordered(ds, in) /\ LastOf(ds) = x.cb
             /\ OpenIn(ds) <=> OpenAfter(x.cb, OpenIn(cs))
<1> DEFINE n == Len(cs)
           ds == Append(cs, x)
<1>0. /\ n \in Nat /\ Len(ds) = n + 1 /\ ds # << >> /\ (cs = << >> <=> n = 0) /\ ds \in Seq(CallRecords)
      /\ \A i \in 1 .. n : ds[i] = cs[i] /\ cs[i] \in CallRecords
      /\ ds[n + 1] = x
      /\ \A y \in CallRecords : y.cb # "none"
  <2>1. \A y \in CallRecords : y.cb # "none"
    BY DEF CallRecords, Callbacks, DataCallbacks
  <2> QED BY <2>1
<1> HIDE DEF ds, n
<1>1. ds[1].cb = "message_begin"
  <2>1. CASE n = 0
    BY <2>1, <1>0 DEF May, LastOf
  <2>2. CASE n > 0
    BY <2>2, <1>0 DEF Ordered
  <2> QED BY <2>1, <2>2, <1>0
<1>2. \A i \in 1 .. n : ds[i + 1].cb \in FollowIn(in, ds[i].cb)
  <2> SUFFICES ASSUME NEW i \in 1 .. n PROVE ds[i + 1].cb \in FollowIn(in, ds[i].cb)
    OBVIOUS
  <2>1. CASE i < n
    BY <2>1, <1>0 DEF Ordered, n
  <2>2. CASE i = n
    <3>1. LastOf(cs) = cs[n].cb /\ cs[n].cb # "none"
      BY <2>2, <1>0 DEF LastOf, n
    <3> QED BY <3>1, <2>2, <1>0 DEF May, n
  <2> QED BY <2>1, <2>2, <1>0
<1>3. \A i \in 1 .. n + 1 : Closes(ds, i) /\ Opens(ds, i)
  <2> SUFFICES ASSUME NEW i \in 1 .. n + 1 PROVE Closes(ds, i) /\ Opens(ds, i)
    OBVIOUS
  <2>0. i - 1 \in 0 .. n /\ \A k \in 1 .. i - 1 : ds[k] = cs[k]
    BY <1>0
  <2>1. CASE i \in 1 .. n
    <3>1. Closes(cs, i) /\ Opens(cs, i) /\ ds[i] = cs[i]
      BY <2>1, <1>0 DEF Ordered, n
    <3>2. Closes(ds, i)
      BY SMTT(30), <3>1, <2>0, <1>0 DEF Closes
    <3>3. Opens(ds, i)
      <4> SUFFICES ASSUME ds[i].cb = "headers_complete", NEW j \in 1 .. i - 1, ds[j].cb = "headers_complete"
                   PROVE  \E k \in j .. i - 1 : ds[k].cb = "message_complete"
        BY DEF Opens
      <4>1. PICK k \in j .. i - 1 : cs[k].cb = "message_complete"
        BY <3>1, <2>0, <1>0 DEF Opens
      <4> QED BY <4>1, <2>0, <1>0
    <3> QED BY <3>2, <3>3
  <2>2. CASE i = n + 1
    <3>1. i - 1 = n /\ ds[i].cb = x.cb
      BY <2>2, <1>0
    <3>2. Closes(ds, i)
      BY <3>1, <2>0, <1>0 DEF Closes, May, OpenIn, n
    <3>3. Opens(ds, i)
      BY <3>1, <2>0, <1>0 DEF Opens, May, OpenIn, n
    <3> QED BY <3>2, <3>3
  <2> QED BY <2>1, <2>2, <1>0
<1>4. LastOf(ds) = x.cb
  BY <1>0 DEF LastOf
<1>5. OpenIn(ds) <=> OpenAfter(x.cb, OpenIn(cs))
  <2>1. CASE x.cb = "message_complete"
    BY <2>1, <1>0 DEF OpenIn, OpenAfter
  <2>2. CASE x.cb = "headers_complete"
    <3>1. n + 1 \in 1 .. Len(ds) /\ \A k \in n + 1 .. Len(ds) : ds[k].cb # "message_complete"
      BY <2>2, <1>0
    <3> QED BY <3>1, <2>2, <1>0 DEF OpenIn, OpenAfter
  <2>3. CASE x.cb \notin {"message_complete", "headers_complete"}
    <3>1. ASSUME OpenIn(cs) PROVE OpenIn(ds)
      <4>1. PICK j \in 1 .. n : cs[j].cb = "headers_complete" /\ \A k \in j .. n : cs[k].cb # "message_complete"
        BY <3>1 DEF OpenIn, n
      <4>2. j \in 1 .. Len(ds) /\ ds[j].cb = "headers_complete"
            /\ \A k \in j .. Len(ds) : ds[k].cb # "message_complete"
        BY <4>1, <1>0, <2>3
      <4> QED BY <4>2 DEF OpenIn
    <3>2. ASSUME OpenIn(ds) PROVE OpenIn(cs)
      BY <3>2, <1>0, <2>3 DEF OpenIn, n
    <3> QED BY <3>1, <3>2, <2>3 DEF OpenAfter
  <2> QED BY <2>1, <2>2, <2>3
<1> QED BY <1>0, <1>1, <1>2, <1>3, <1>4, <1>5 DEF Ordered, ds

LEMMA RecordedKeeps ==
  ASSUME Types, Ordered(calls, input.type), NEW cb, NEW data \in Seq(STRING),
         May(LastOf(calls), OpenIn(calls), cb, input.type)
  PROVE  LET ds == Recorded(cb, data)
         IN  /\ ds \in Seq(CallRecords) /\ Ordered(ds, input.type) /\ LastOf(ds) = cb
             /\ OpenIn(ds) <=> OpenAfter(cb, OpenIn(calls))
<1> DEFINE n == Len(calls)
           ds == Recorded(cb, data)
<1>0. /\ calls \in Seq(CallRecords) /\ n \in Nat /\ cb \in Callbacks
      /\ \A i \in 1 .. n : calls[i] \in CallRecords
      /\ calls = << >> <=> n = 0
  BY DEF Types, May
<1>1. CASE n > 0 /\ cb \in DataCallbacks /\ calls[n].cb = cb
  <2> DEFINE x == [calls[n] EXCEPT !.data = @ \o data]
  <2>1. ds = [calls EXCEPT ![n] = x]
    BY <1>1 DEF Recorded
  <2>2. calls[n].data \o data \in Seq(STRING) /\ calls[n] \in CallRecords
    BY <1>0, <1>1 DEF CallRecords
  <2>3. x \in CallRecords /\ x.cb = calls[n].cb
    BY <2>2 DEF CallRecords
  <2> HIDE DEF x, ds
  <2>4. ds \in Seq(CallRecords) /\ Len(ds) = n /\ \A i \in 1 .. n : ds[i].cb = calls[i].cb
    BY <2>1, <2>3, <1>0, <1>1
  <2>5. Ordered(ds, input.type) /\ LastOf(ds) = LastOf(calls) /\ (OpenIn(ds) <=> OpenIn(calls))
    BY <2>4, <1>0, <1>1, MergedOrdered
  <2>6. LastOf(calls) = cb /\ (OpenIn(calls) <=> OpenAfter(cb, OpenIn(calls)))
    BY <1>0, <1>1 DEF LastOf, OpenAfter, DataCallbacks
  <2> QED BY <2>4, <2>5, <2>6 DEF ds
<1>2. CASE ~(n > 0 /\ cb \in DataCallbacks /\ calls[n].cb = cb)
  <2> DEFINE x == [cb |-> cb, data |-> data]
  <2>1. ds = Append(calls, x)
    BY <1>2 DEF Recorded
  <2>2. x \in CallRecords /\ x.cb = cb
    BY <1>0 DEF CallRecords
  <2> HIDE DEF x, ds
  <2> QED BY <2>1, <2>2, <1>0, <1>2, AppendedOrdered DEF ds
<1> QED BY <1>1, <1>2

LEMMA OrderedIs == Types /\ Ordered(calls, input.type) => CallbackOrder
<1> SUFFICES ASSUME Types, Ordered(calls, input.type) PROVE CallbackOrder
  OBVIOUS
<1> DEFINE n == Len(calls)
<1>0. n \in Nat /\ DOMAIN calls = 1 .. n
  BY DEF Types
<1>1. \A i \in 1 .. n - 1 : calls[i + 1].cb \in Follow(calls[i].cb)
  BY <1>0 DEF Ordered, Follow, FollowIn
<1>2. ASSUME NEW i \in 1 .. n
      PROVE  LET open == {j \in 1 .. i : calls[j].cb = "headers_complete"}
                 done == {j \in 1 .. i : calls[j].cb = "message_complete"}
             IN  /\ calls[i].cb = "message_complete" => \E j \in open : \A k \in done \ {i} : k < j
                 /\ calls[i].cb = "headers_complete" =>
                      \A j \in open \ {i} : \E k \in done : j < k
  <2> DEFINE open == {j \in 1 .. i : calls[j].cb = "headers_complete"}
             done == {j \in 1 .. i : calls[j].cb = "message_complete"}
  <2>1. Closes(calls, i) /\ Opens(calls, i)
    BY DEF Ordered
  <2>2. ASSUME calls[i].cb = "message_complete" PROVE \E j \in open : \A k \in done \ {i} : k < j
    <3>1. PICK j \in 1 .. i - 1 : calls[j].cb = "headers_complete" /\ \A k \in j .. i - 1 : calls[k].cb # "message_complete"
      BY <2>1, <2>2 DEF Closes
    <3>2. j \in open /\ \A k \in done \ {i} : k < j
      BY <3>1, <1>0
    <3> QED BY <3>2
  <2>3. ASSUME calls[i].cb = "headers_complete", NEW j \in open \ {i} PROVE \E k \in done : j < k
    <3>1. PICK k \in j .. i - 1 : calls[k].cb = "message_complete"
      BY <2>1, <2>3, <1>0 DEF Opens
    <3>2. k \in done /\ j < k
      BY <3>1, <1>0, <2>3
    <3> QED BY <3>2
  <2> QED BY <2>2, <2>3
<1>3. calls # << >> => calls[1].cb = "message_begin"
  BY DEF Ordered
<1> QED BY <1>0, <1>1, <1>2, <1>3, Zenon DEF CallbackOrder

-----------------------------------------------------------------------------
(***************************************************************************)
(* Ways to leave a byte.  Fine: execute may stay in the loop with parser r *)
(* at byte n, with marks m; FineParser: it may also return and be called   *)
(* again; Broken: it may return and is never called again.                 *)
(***************************************************************************)
FineParser(r, l, open) ==
  /\ r \in Parsers /\ r.nread <= HTTP_MAX_HEADER_SIZE /\ Sound(r)
  /\ Fits(r, l, open, attrs = << >>, input.type)

Fine(r, n, m, st, l, open) ==
  /\ FineParser(r, l, open) /\ r.errno = "HPE_OK"
  /\ n \in p .. lim
  /\ MarksFit(m, st, r.state, n, lim)
  /\ faults = 0 /\ attrs = << >> => Sized(r, n, st)

Broken(r, n) ==
  /\ r \in Parsers /\ r.errno \notin {"HPE_OK", "HPE_PAUSED"}
  /\ r.nread <= HTTP_MAX_HEADER_SIZE \/ r.errno = "HPE_HEADER_OVERFLOW"
  /\ n \in p .. lim
  /\ faults = 0 /\ attrs = << >> =>
       /\ r.nread <= 2 * n + 2
       /\ r.errno # "HPE_INVALID_CONTENT_LENGTH" => n <= r.nread

Last == LastOf(calls)
Open == OpenIn(calls)
Good(cs) == cs \in Seq(CallRecords) /\ Ordered(cs, input.type)

LEMMA InputIs ==
  ASSUME Types
  PROVE  /\ input.bytes \in Seq(STRING) /\ input.cuts \in Nat /\ input.faults \in Nat
         /\ p \in Nat /\ lim \in Nat /\ cuts \in Nat /\ faults \in Nat /\ p <= lim
         /\ lim <= Len(input.bytes) /\ Len(input.bytes) \in Nat
         /\ input.type \in MessageTypes
         /\ HTTP_MAX_HEADER_SIZE \in Nat /\ ULLONG_MAX \in Nat /\ ULLONG_MAX >= 26 /\ None \notin Nat
BY HttpAssumption DEF Types, MessageTypes

LEMMA MostBounds ==
  ASSUME NEW s, NEW n \in Nat
  PROVE  Most(s, n) \in Int /\ Most(s, n) <= 2 * n + 1 /\ Most(s, n) >= 2 * n - 1
BY DEF Most

LEMMA Stays ==
  ASSUME IInv, pc = "loop", NEW r, NEW n, NEW m, NEW st, NEW cs,
         Continue(r, n, m, st), UNCHANGED <<faults, attrs>>, calls' = cs, Good(cs),
         Fine(r, n, m, st, LastOf(cs), OpenIn(cs))
  PROVE  IInv'
<1>0. Types /\ n \in p .. lim /\ n \in Nat
  BY InputIs DEF IInv, Fine
<1>1. /\ parser' = r /\ p' = n /\ mark' = m /\ start' = st /\ input' = input /\ pc' = pc /\ lim' = lim
      /\ cuts' = cuts /\ faults' = faults /\ attrs' = attrs
  BY DEF Continue
<1>2. Types'
  BY <1>0, <1>1, InputIs DEF Types, Fine, FineParser, Good
<1>3. State'
  BY <1>1 DEF State, Fine, FineParser
<1>4. Marks'
  BY <1>1 DEF Marks, Fine
<1>5. Ordered(calls, input.type)'
  BY <1>1 DEF Good
<1>6. Size'
  <2> SUFFICES ASSUME faults = 0, attrs = << >>
               PROVE  /\ Sized(r, n, st)
                      /\ st = None => r.nread <= 2 * n + 2
                      /\ st = None => n <= r.nread
    BY <1>1 DEF Size
  <2>1. Sized(r, n, st) /\ r.nread \in Nat
    BY DEF Fine, FineParser, Parsers
  <2> QED BY <2>1, <1>0, MostBounds DEF Sized
<1> QED BY <1>2, <1>3, <1>4, <1>5, <1>6 DEF IInv

LEMMA Moves ==
  ASSUME IInv, pc = "loop", NEW r, NEW n, NEW m, NEW st, Continue(r, n, m, st), Quiet,
         Fine(r, n, m, st, Last, Open)
  PROVE  IInv'
BY Stays DEF Quiet, IInv, Good, Types, Last, Open

LEMMA Breaks ==
  ASSUME IInv, pc = "loop", NEW r, NEW n, NEW cs, Return(r, n), UNCHANGED <<faults, attrs>>,
         calls' = cs, Good(cs), Broken(r, n)
  PROVE  IInv'
<1>0. Types /\ n \in p .. lim /\ n \in Nat
  BY InputIs DEF IInv, Broken
<1>1. /\ parser' = r /\ p' = n /\ mark' = NoMarks /\ start' = None /\ input' = input /\ pc' = "idle"
      /\ lim' = n /\ cuts' = cuts /\ faults' = faults /\ attrs' = attrs
  BY DEF Return
<1>2. Types'
  BY <1>0, <1>1, InputIs DEF Types, Broken, Good
<1>3. ~Alive'
  BY <1>1 DEF Alive, Broken
<1>4. State' /\ Marks'
  BY <1>1, <1>3 DEF State, Marks
<1>5. Ordered(calls, input.type)'
  BY <1>1 DEF Good
<1>6. Size'
  BY <1>1, <1>3 DEF Size, Broken
<1> QED BY <1>2, <1>4, <1>5, <1>6 DEF IInv

LEMMA Fails ==
  ASSUME IInv, pc = "loop", NEW r, NEW n, Return(r, n), Quiet, Broken(r, n)
  PROVE  IInv'
BY Breaks DEF Quiet, IInv, Good, Types

\* A callback fails or pauses.
LEMMA Pauses ==
  ASSUME IInv, pc = "loop", NEW r, NEW n \in p .. lim, NEW cs, NEW e \in {"HPE_CB", "HPE_PAUSED"},
         Return([r EXCEPT !.errno = e], n), calls' = cs, Good(cs),
         faults < input.faults, faults' = faults + 1,
         attrs' \in Seq(AttrRecords),
         r \in Parsers, r.nread <= HTTP_MAX_HEADER_SIZE, Sound(r),
         Fits(r, LastOf(cs), OpenIn(cs), attrs' = << >>, input.type)
  PROVE  IInv'
<1> DEFINE t == [r EXCEPT !.errno = e]
<1>0. Types /\ n \in Nat
  BY InputIs DEF IInv
<1>1. /\ t \in Parsers /\ t.nread = r.nread /\ t.errno = e /\ Sound(t)
      /\ Fits(t, LastOf(cs), OpenIn(cs), attrs' = << >>, input.type)
  <2>1. /\ t \in Parsers /\ t.nread = r.nread /\ t.errno = e /\ t.state = r.state /\ t.flags = r.flags
        /\ t.type = r.type /\ t.content_length = r.content_length /\ t.header_state = r.header_state
    BY r \in Parsers, e \in ErrorNames DEF Parsers, ErrorNames
  <2> HIDE DEF t
  <2> QED BY <2>1 DEF Sound, Fits, Trailing
<1> HIDE DEF t
<1>2. /\ parser' = t /\ p' = n /\ mark' = NoMarks /\ start' = None /\ input' = input /\ pc' = "idle"
      /\ lim' = n /\ cuts' = cuts
  BY DEF Return, t
<1>3. Types'
  <2>1. p' \in 0 .. lim' /\ lim' \in 0 .. Len(input.bytes) /\ faults' \in 0 .. input.faults
    BY SMTT(30), <1>0, <1>2, InputIs
  <2>2. input \in Inputs /\ cuts \in 0 .. input.cuts
    BY <1>0 DEF Types
  <2> QED BY <1>1, <1>2, <2>1, <2>2 DEF Types, Good
<1>4. State' /\ Marks'
  BY <1>1, <1>2 DEF State, Marks
<1>5. Ordered(calls, input.type)'
  BY <1>2 DEF Good
<1>6. Size'
  BY <1>0, <1>2, InputIs DEF Size
<1> QED BY <1>3, <1>4, <1>5, <1>6 DEF IInv

Without(m, cb) == [c \in DataCallbacks |-> IF c = cb THEN None ELSE m[c]]

LEMMA CallKeeps ==
  ASSUME IInv, pc = "loop", NEW cb, NEW data \in Seq(STRING), NEW m, NEW ok, NEW pOk, NEW err, NEW pErr,
         Call(cb, data, m, ok, pOk, err, pErr),
         May(Last, Open, cb, input.type),
         ok.errno = "HPE_OK" => Fine(ok, pOk, Without(m, cb), None, cb, OpenAfter(cb, Open)),
         ok.errno # "HPE_OK" => Broken(ok, p),
         FineParser(err, cb, OpenAfter(cb, Open)), pErr \in p .. lim
  PROVE  IInv'
<1> DEFINE cs == Recorded(cb, data)
<1>1. Good(cs) /\ LastOf(cs) = cb /\ (OpenIn(cs) <=> OpenAfter(cb, Open)) /\ attrs \in Seq(AttrRecords)
  BY RecordedKeeps DEF IInv, Good, Last, Open, Types
<1>1a. OpenIn(cs) = OpenAfter(cb, Open)
  BY <1>1 DEF OpenIn, OpenAfter, Open
<1>2. calls' = cs /\ attrs' = attrs
  BY DEF Call
<1> HIDE DEF cs
<1>3. CASE faults' = faults /\ ok.errno = "HPE_OK" /\ Continue(ok, pOk, Without(m, cb), None)
  BY <1>1, <1>1a, <1>2, <1>3, Stays
<1>4. CASE faults' = faults /\ ok.errno # "HPE_OK" /\ Return(ok, p)
  BY <1>1, <1>2, <1>4, Breaks
<1>5. CASE /\ faults < input.faults /\ faults' = faults + 1
           /\ \E e \in {"HPE_CB", "HPE_PAUSED"} : Return([err EXCEPT !.errno = e], pErr)
  BY <1>1, <1>1a, <1>2, <1>5, Pauses DEF FineParser
<1> QED BY <1>3, <1>4, <1>5 DEF Call, Without

-----------------------------------------------------------------------------
(***************************************************************************)
(* At a byte.                                                              *)
(***************************************************************************)
InLoop == IInv /\ pc = "loop" /\ p < lim

BodyHomes == {"s_body_identity", "s_body_identity_eof", "s_chunk_data", "s_chunk_data_almost_done"}
MarkHomes == UrlStates \cup {"s_header_field", "s_header_value", "s_res_status"}
Again == {"s_start_req", "s_start_res", "s_headers_almost_done"}

LEMMA HomeIs ==
  /\ Home("header_field") = {"s_header_field"} /\ Home("header_value") = {"s_header_value"}
  /\ Home("url") = UrlStates /\ Home("status") = {"s_res_status"} /\ Home("body") = BodyHomes
BY DEF Home, BodyHomes

LEMMA HomesApart ==
  /\ UrlStates \cap (BodyHomes \cup {"s_header_field", "s_header_value", "s_res_status"}) = {}
  /\ BodyHomes \cap {"s_header_field", "s_header_value", "s_res_status"} = {}
BY DEF UrlStates, UrlServer, UrlQuery, UrlFragment, BodyHomes

LEMMA Unmarked ==
  ASSUME NEW m, NEW st, NEW s, NEW n, NEW l, MarksFit(m, st, s, n, l)
  PROVE  /\ m \in [DataCallbacks -> Nat \cup {None}]
         /\ s \notin MarkHomes \cup BodyHomes => \A c \in DataCallbacks : m[c] = None
         /\ s \notin {"s_header_field", "s_header_value"} => st = None
<1>1. ASSUME s \notin MarkHomes \cup BodyHomes, NEW c \in DataCallbacks PROVE m[c] = None
  BY <1>1, HomeIs DEF MarksFit, DataCallbacks, MarkHomes
<1> QED BY <1>1 DEF MarksFit

\* In a home, only its own mark can be set.
LEMMA OneMark ==
  ASSUME NEW m, NEW st, NEW s, NEW n, NEW l, MarksFit(m, st, s, n, l), NEW c \in DataCallbacks, s \in Home(c)
  PROVE  \A d \in DataCallbacks \ {c} : m[d] = None
BY HomeIs, HomesApart DEF MarksFit, DataCallbacks

LEMMA ClearFits ==
  ASSUME NEW m \in [DataCallbacks -> Nat \cup {None}], \A c \in DataCallbacks : m[c] = None,
         NEW s, NEW n, NEW l, s \in MarkHomes => ~(n < l)
  PROVE  MarksFit(m, None, s, n, l)
<1>1. ASSUME n < l, NEW c \in DataCallbacks \ {"body"}, s \in Home(c) PROVE m[c] # None
  BY <1>1, HomeIs DEF DataCallbacks, MarkHomes
<1> QED BY <1>1 DEF MarksFit

LEMMA WithoutFits ==
  ASSUME NEW m \in [DataCallbacks -> Nat \cup {None}], NEW cb, \A c \in DataCallbacks \ {cb} : m[c] = None,
         NEW s, NEW n, NEW l, s \in MarkHomes => ~(n < l)
  PROVE  MarksFit(Without(m, cb), None, s, n, l)
<1>1. /\ Without(m, cb) \in [DataCallbacks -> Nat \cup {None}]
      /\ \A c \in DataCallbacks : Without(m, cb)[c] = None
  BY DEF Without
<1> QED BY <1>1, ClearFits

LEMMA MostNext ==
  ASSUME NEW n \in Nat, NEW s, NEW t
  PROVE  /\ s \notin Again => Most(s, n) + 1 <= Most(t, n + 1)
         /\ Most(s, n) + 1 <= 2 * n + 2
BY DEF Most, Again

\* COUNT_HEADER_SIZE(1).
LEMMA Here ==
  ASSUME InLoop
  PROVE  /\ q \in Parsers /\ q.errno = "HPE_OK" /\ q.state = parser.state /\ q.flags = parser.flags
         /\ q.type = parser.type /\ q.content_length = parser.content_length
         /\ q.header_state = parser.header_state /\ q.index = parser.index /\ q.method = parser.method
         /\ q.nread \in Nat /\ parser.nread \in Nat
         /\ parser \in Parsers /\ Sound(parser) /\ Fits(q, Last, Open, attrs = << >>, input.type)
         /\ MarksFit(mark, start, parser.state, p, lim)
         /\ parser.nread <= HTTP_MAX_HEADER_SIZE
         /\ start # None => q = parser
         /\ ~PARSING_HEADER(parser.state) => q = parser
         /\ start = None /\ PARSING_HEADER(parser.state) => q.nread = parser.nread + 1
         /\ faults = 0 /\ attrs = << >> =>
              IF start = None THEN p + 1 <= q.nread /\ q.nread <= Most(parser.state, p) + 1
                              ELSE start + 1 <= q.nread /\ q.nread <= 2 * start
<1>1. /\ parser \in Parsers /\ parser.nread \in Nat /\ parser.errno = "HPE_OK"
      /\ parser.nread <= HTTP_MAX_HEADER_SIZE
  BY DEF InLoop, IInv, Types, Parsers
<1>2. /\ Alive /\ Sound(parser) /\ Fits(parser, Last, Open, attrs = << >>, input.type)
      /\ MarksFit(mark, start, parser.state, p, lim)
  BY <1>1 DEF InLoop, IInv, Alive, State, Marks, Last, Open
<1>3. faults = 0 /\ attrs = << >> => Sized(parser, p, start)
  BY <1>2 DEF InLoop, IInv, Size
<1>4. attrs = << >> => PARSING_HEADER(parser.state)
  BY <1>2 DEF Fits, Table, FirstFits, PARSING_HEADER, StartStates, LineStates, HeaderStates, BeginStates,
              StatusStates, HttpStates, NamedStates, ValuedStates, BodyStates, UrlStates, UrlServer,
              UrlQuery, UrlFragment
<1>5. CASE start = None /\ PARSING_HEADER(parser.state)
  <2>1. q = [parser EXCEPT !.nread = @ + 1]
    BY <1>5 DEF q
  <2>2. /\ q \in Parsers /\ q.errno = "HPE_OK" /\ q.state = parser.state /\ q.flags = parser.flags
        /\ q.type = parser.type /\ q.content_length = parser.content_length
        /\ q.header_state = parser.header_state /\ q.index = parser.index /\ q.method = parser.method
        /\ q.nread = parser.nread + 1
    BY <2>1, <1>1 DEF Parsers
  <2>3. Fits(q, Last, Open, attrs = << >>, input.type)
    BY <2>2, <1>2 DEF Fits, Trailing
  <2>4. p \in Nat
    BY InputIs DEF InLoop, IInv
  <2> QED BY <1>1, <1>2, <1>3, <1>5, <2>2, <2>3, <2>4, MostBounds DEF Sized
<1>6. CASE ~(start = None /\ PARSING_HEADER(parser.state))
  <2>1. q = parser
    BY <1>6 DEF q
  <2>2. faults = 0 /\ attrs = << >> => start # None
    BY <1>4, <1>6
  <2> QED BY <1>1, <1>2, <1>3, <1>6, <2>1, <2>2 DEF Sized
<1> QED BY <1>5, <1>6

LEMMA Bounds ==
  ASSUME InLoop
  PROVE  /\ p \in Nat /\ lim \in Nat /\ p + 1 \in p .. lim /\ p \in p .. lim /\ p + 1 \in Nat
         /\ HTTP_MAX_HEADER_SIZE \in Nat /\ ULLONG_MAX \in Nat /\ ULLONG_MAX >= 26 /\ None \notin Nat
         /\ input.type \in MessageTypes /\ Types
BY InputIs DEF InLoop, IInv

LEMMA SizeHere ==
  ASSUME InLoop, start = None, NEW r, r.nread = q.nread, NEW m \in Int, Most(parser.state, p) + 1 <= m
  PROVE  faults = 0 /\ attrs = << >> => p + 1 <= r.nread /\ r.nread <= m
<1>1. /\ q.nread \in Nat
      /\ faults = 0 /\ attrs = << >> => p + 1 <= q.nread /\ q.nread <= Most(parser.state, p) + 1
  BY Here
<1> DEFINE k == Most(parser.state, p)
<1>2. p \in Nat /\ k \in Int
  BY Bounds, MostBounds
<1>3. k + 1 <= m /\ (faults = 0 /\ attrs = << >> => p + 1 <= q.nread /\ q.nread <= k + 1)
  BY <1>1
<1> HIDE DEF k
<1> QED BY ONLY <1>1, <1>2, <1>3, r.nread = q.nread, m \in Int

LEMMA SizedUp ==
  ASSUME InLoop, start = None, NEW r, r.nread = q.nread, Most(parser.state, p) + 1 <= Most(r.state, p + 1)
  PROVE  faults = 0 /\ attrs = << >> => Sized(r, p + 1, None)
<1>1. Most(r.state, p + 1) \in Int
  BY Bounds, MostBounds
<1>2. faults = 0 /\ attrs = << >> => p + 1 <= r.nread /\ r.nread <= Most(r.state, p + 1)
  BY <1>1, SizeHere
<1> QED BY <1>2 DEF Sized

LEMMA FailKeeps ==
  ASSUME InLoop, NEW r \in Parsers, r.nread = q.nread, start = None,
         NEW e \in ErrorNames \ {"HPE_OK", "HPE_PAUSED"},
         Error(r, e), q.nread <= HTTP_MAX_HEADER_SIZE \/ e = "HPE_HEADER_OVERFLOW"
  PROVE  IInv'
<1> DEFINE t == [r EXCEPT !.errno = e]
<1>1. t \in Parsers /\ t.nread = q.nread /\ t.errno = e
  BY DEF Parsers
<1>2. Return(t, p) /\ Quiet
  BY DEF Error
<1> HIDE DEF t
<1>3. Broken(t, p)
  BY SMTT(30), <1>1, Here, Bounds, MostNext, MostBounds DEF Broken
<1> QED BY <1>2, <1>3, Fails DEF InLoop

LEMMA HeaderOverflowKeeps == ASSUME InLoop, HeaderOverflow PROVE IInv'
<1>1. /\ Error(q, "HPE_HEADER_OVERFLOW") /\ q \in Parsers /\ q.nread > HTTP_MAX_HEADER_SIZE
      /\ "HPE_HEADER_OVERFLOW" \in ErrorNames \ {"HPE_OK", "HPE_PAUSED"}
  BY Here DEF HeaderOverflow, Fail, ErrorNames
<1>2. start = None
  BY <1>1, Here, Bounds
<1> QED BY <1>1, <1>2, FailKeeps

LEMMA StepKeeps ==
  ASSUME InLoop, NEW r, Step(r), FineParser(r, Last, Open), r.errno = "HPE_OK", r.nread = q.nread,
         parser.state \notin MarkHomes \cup BodyHomes, r.state \notin MarkHomes,
         Most(parser.state, p) + 1 <= Most(r.state, p + 1)
  PROVE  IInv'
<1>1. Continue(r, p + 1, mark, None) /\ Quiet
  BY DEF Step
<1>2. MarksFit(mark, None, r.state, p + 1, lim)
  BY Here, Unmarked, ClearFits
<1>3. start = None
  BY Here, Unmarked DEF MarkHomes
<1>4. faults = 0 /\ attrs = << >> => Sized(r, p + 1, None)
  BY <1>3, SizedUp
<1>5. Fine(r, p + 1, mark, None, Last, Open)
  BY <1>2, <1>4, Bounds DEF Fine
<1> QED BY <1>1, <1>5, Moves DEF InLoop

\* Parser r is q in state s, with other numbers.
Like(r, s) ==
  /\ r \in Parsers /\ r.state = s /\ r.errno = "HPE_OK" /\ r.nread = q.nread /\ r.flags = q.flags
  /\ r.type = q.type

StateFits(s) == Table(s, q.type, Trailing(q), Last, Open, attrs = << >>, input.type)

\* States of which Sound says nothing and in which nothing is marked.
PlainStates == StateNames \ (MarkHomes \cup BodyHomes \cup ChunkStates)

LEMMA PlainFine ==
  ASSUME q.nread <= HTTP_MAX_HEADER_SIZE, NEW r, NEW s \in PlainStates, Like(r, s), StateFits(s)
  PROVE  FineParser(r, Last, Open)
<1>1. Sound(r)
  BY DEF Sound, Like, PlainStates, ChunkStates, SizeStates, BodyHomes, MarkHomes
<1>2. Fits(r, Last, Open, attrs = << >>, input.type)
  BY DEF Fits, StateFits, Like, Trailing
<1> QED BY <1>1, <1>2 DEF FineParser, Like

LEMMA GoKeeps ==
  ASSUME InLoop, q.nread <= HTTP_MAX_HEADER_SIZE, NEW r, NEW s \in PlainStates, Like(r, s), Step(r),
         StateFits(s), parser.state \in PlainStates \ Again
  PROVE  IInv'
<1>1. FineParser(r, Last, Open)
  BY PlainFine
<1>2. Most(parser.state, p) + 1 <= Most(s, p + 1)
  BY MostNext, Bounds
<1> QED BY <1>1, <1>2, StepKeeps DEF Like, PlainStates

LEMMA GotoIs ==
  ASSUME InLoop, NEW s \in StateNames
  PROVE  Like([q EXCEPT !.state = s], s)
<1>1. q \in Parsers /\ q.errno = "HPE_OK"
  BY Here
<1> QED BY <1>1 DEF Like, Parsers

\* The byte is wrong.
LEMMA FailedKeeps ==
  ASSUME InLoop, q.nread <= HTTP_MAX_HEADER_SIZE, parser.state \notin {"s_header_field", "s_header_value"},
         NEW e \in ErrorNames \ {"HPE_OK", "HPE_PAUSED"}, Fail(e)
  PROVE  IInv'
<1>1. start = None
  BY Here, Unmarked
<1> QED BY <1>1, Here, FailKeeps DEF Fail

-----------------------------------------------------------------------------
(***************************************************************************)
(* The table, class by class.                                              *)
(***************************************************************************)
FitsAfter(r, cb) == Fits(r, cb, OpenAfter(cb, Open), attrs = << >>, input.type)

LEMMA StartFits ==
  ASSUME NEW s \in StartStates
  PROVE  StateFits(s) <=>
           /\ Last = "none" \/ (s # "s_start_req_or_res" /\ Last = "message_complete")
              \/ (s = "s_start_res" /\ Last = "message_begin")
           /\ ~Open /\ (attrs = << >> => ~Trailing(q)) /\ TypeFits(s, q.type, input.type)
BY DEF StateFits, Table, LastFits, OpenFits, FirstFits, TypeFits, StartStates, BeginStates, StatusStates,
       HttpStates, UrlStates, UrlServer, UrlQuery, UrlFragment, LineStates, NamedStates, ValuedStates,
       HeaderStates, SizeStates, ChunkStates, BodyParts

LEMMA StartAfter ==
  ASSUME NEW r, r.state \in StartStates, NEW cb
  PROVE  FitsAfter(r, cb) <=>
           /\ cb = "none" \/ (r.state # "s_start_req_or_res" /\ cb = "message_complete")
              \/ (r.state = "s_start_res" /\ cb = "message_begin")
           /\ ~OpenAfter(cb, Open) /\ (attrs = << >> => ~Trailing(r)) /\ TypeFits(r.state, r.type, input.type)
BY DEF FitsAfter, Fits, Table, LastFits, OpenFits, FirstFits, TypeFits, StartStates, BeginStates, StatusStates,
       HttpStates, UrlStates, UrlServer, UrlQuery, UrlFragment, LineStates, NamedStates, ValuedStates,
       HeaderStates, SizeStates, ChunkStates, BodyParts

LineLast(s) == IF s \in BeginStates THEN {"message_begin"}
               ELSE IF s \in HttpStates THEN {"url"}
               ELSE IF s \in StatusStates THEN {"message_begin", "status"}
               ELSE {"message_begin", "url"}

LEMMA LineFits ==
  ASSUME NEW s \in LineStates
  PROVE  StateFits(s) <=>
           Last \in LineLast(s) /\ ~Open /\ ~Trailing(q) /\ TypeFits(s, q.type, input.type)
BY DEF StateFits, Table, LineLast, LastFits, OpenFits, FirstFits, TypeFits, StartStates, BeginStates, StatusStates,
       HttpStates, UrlStates, UrlServer, UrlQuery, UrlFragment, LineStates, NamedStates, ValuedStates,
       HeaderStates, SizeStates, ChunkStates, BodyParts

LEMMA LineAfter ==
  ASSUME NEW r, r.state \in LineStates, NEW cb
  PROVE  FitsAfter(r, cb) <=>
           cb \in LineLast(r.state) /\ ~OpenAfter(cb, Open) /\ ~Trailing(r) /\ TypeFits(r.state, r.type, input.type)
BY DEF FitsAfter, Fits, Table, LineLast, LastFits, OpenFits, FirstFits, TypeFits, StartStates, BeginStates, StatusStates,
       HttpStates, UrlStates, UrlServer, UrlQuery, UrlFragment, LineStates, NamedStates, ValuedStates,
       HeaderStates, SizeStates, ChunkStates, BodyParts

HeaderLast(s, trailing) ==
  IF s \in NamedStates THEN {"header_field"}
  ELSE IF s \in ValuedStates THEN {"header_value"}
  ELSE IF s = "s_header_value" THEN {"header_field", "header_value"}
  ELSE IF s = "s_header_field" THEN Before(trailing) \cup {"header_field"}
  ELSE Before(trailing)

LEMMA HeaderFits ==
  ASSUME NEW s \in HeaderStates
  PROVE  StateFits(s) <=>
           /\ Last \in HeaderLast(s, Trailing(q)) /\ (Open <=> Trailing(q)) /\ (attrs = << >> => ~Trailing(q))
           /\ input.type = "HTTP_REQUEST" => q.type = "HTTP_REQUEST"
BY DEF StateFits, Table, HeaderLast, LastFits, OpenFits, FirstFits, TypeFits, StartStates, BeginStates, StatusStates,
       HttpStates, UrlStates, UrlServer, UrlQuery, UrlFragment, LineStates, NamedStates, ValuedStates,
       HeaderStates, SizeStates, ChunkStates, BodyParts

LEMMA HeaderAfter ==
  ASSUME NEW r, r.state \in HeaderStates, NEW cb
  PROVE  FitsAfter(r, cb) <=>
           /\ cb \in HeaderLast(r.state, Trailing(r)) /\ (OpenAfter(cb, Open) <=> Trailing(r)) /\ (attrs = << >> => ~Trailing(r))
           /\ input.type = "HTTP_REQUEST" => r.type = "HTTP_REQUEST"
BY DEF FitsAfter, Fits, Table, HeaderLast, LastFits, OpenFits, FirstFits, TypeFits, StartStates, BeginStates, StatusStates,
       HttpStates, UrlStates, UrlServer, UrlQuery, UrlFragment, LineStates, NamedStates, ValuedStates,
       HeaderStates, SizeStates, ChunkStates, BodyParts

BodyLast(s) == IF s = "s_headers_done" THEN {"headers_complete"}
               ELSE IF s = "s_message_done" THEN {"body"} ELSE {"headers_complete", "body"}

LEMMA BodyFits ==
  ASSUME NEW s \in BodyParts \cup {"s_headers_done", "s_message_done"}
  PROVE  StateFits(s) <=>
           /\ Last \in BodyLast(s) /\ Open /\ attrs # << >>
           /\ input.type = "HTTP_REQUEST" => q.type = "HTTP_REQUEST"
BY DEF StateFits, Table, BodyLast, LastFits, OpenFits, FirstFits, TypeFits, StartStates, BeginStates, StatusStates,
       HttpStates, UrlStates, UrlServer, UrlQuery, UrlFragment, LineStates, NamedStates, ValuedStates,
       HeaderStates, SizeStates, ChunkStates, BodyParts

LEMMA BodyAfter ==
  ASSUME NEW r, r.state \in BodyParts \cup {"s_headers_done", "s_message_done"}, NEW cb
  PROVE  FitsAfter(r, cb) <=>
           /\ cb \in BodyLast(r.state) /\ OpenAfter(cb, Open) /\ attrs # << >>
           /\ input.type = "HTTP_REQUEST" => r.type = "HTTP_REQUEST"
BY DEF FitsAfter, Fits, Table, BodyLast, LastFits, OpenFits, FirstFits, TypeFits, StartStates, BeginStates, StatusStates,
       HttpStates, UrlStates, UrlServer, UrlQuery, UrlFragment, LineStates, NamedStates, ValuedStates,
       HeaderStates, SizeStates, ChunkStates, BodyParts

LEMMA DeadAfter ==
  ASSUME NEW r, r.state = "s_dead", NEW cb
  PROVE  FitsAfter(r, cb) <=>
           /\ cb = "message_complete" /\ ~OpenAfter(cb, Open) /\ attrs # << >>
           /\ input.type = "HTTP_REQUEST" => r.type = "HTTP_REQUEST"
BY DEF FitsAfter, Fits, Table, LastFits, OpenFits, FirstFits, TypeFits, StartStates, BeginStates, StatusStates,
       HttpStates, UrlStates, UrlServer, UrlQuery, UrlFragment, LineStates, NamedStates, ValuedStates,
       HeaderStates, SizeStates, ChunkStates, BodyParts

LEMMA PlainAre ==
  /\ StartStates \cup BeginStates \cup HttpStates \cup NamedStates \cup ValuedStates \subseteq PlainStates
  /\ {"s_dead", "s_res_line_almost_done", "s_header_field_start", "s_headers_almost_done", "s_headers_done",
      "s_message_done"} \subseteq PlainStates
  /\ (BeginStates \cup HttpStates \cup NamedStates \cup ValuedStates) \cap Again = {}
  /\ UrlStates \subseteq StateNames \ (Again \cup BodyHomes \cup ChunkStates)
BY DEF PlainStates, StateNames, MarkHomes, BodyHomes, ChunkStates, SizeStates, UrlStates, UrlServer,
       UrlQuery, UrlFragment, Again, StartStates, BeginStates, HttpStates, NamedStates, ValuedStates

\* q is where it should be.
LEMMA Placed == ASSUME InLoop PROVE StateFits(parser.state) /\ q.state = parser.state
BY Here DEF Fits, StateFits

\* Within the first line.
LEMMA BeginKeeps ==
  ASSUME InLoop, q.nread <= HTTP_MAX_HEADER_SIZE, parser.state \in BeginStates, NEW r,
         NEW s \in BeginStates \ {"s_res_or_resp_H"}, Like(r, s), Step(r)
  PROVE  IInv'
<1>1. StateFits(parser.state) /\ parser.state \in LineStates /\ s \in LineStates
  BY Placed DEF LineStates
<1>2. StateFits(s)
  BY <1>1, LineFits DEF LineLast, TypeFits, BeginStates
<1> QED BY <1>2, GoKeeps, PlainAre

LEMMA HttpKeeps ==
  ASSUME InLoop, q.nread <= HTTP_MAX_HEADER_SIZE, parser.state \in HttpStates, NEW r,
         NEW s \in HttpStates, Like(r, s), Step(r)
  PROVE  IInv'
<1>1. StateFits(parser.state) /\ parser.state \in LineStates /\ s \in LineStates
  BY Placed DEF LineStates
<1>2. StateFits(s)
  BY <1>1, LineFits DEF LineLast, TypeFits, BeginStates, HttpStates
<1> QED BY <1>2, GoKeeps, PlainAre

\* From the first line to the headers.
LEMMA LineDone ==
  ASSUME InLoop, q.nread <= HTTP_MAX_HEADER_SIZE,
         parser.state \in BeginStates \cup HttpStates \cup {"s_res_line_almost_done"},
         NEW r, Like(r, "s_header_field_start"), Step(r)
  PROVE  IInv'
<1>1. StateFits(parser.state) /\ parser.state \in LineStates /\ "s_header_field_start" \in HeaderStates
  BY Placed DEF LineStates, HeaderStates, StatusStates
<1>2. StateFits("s_header_field_start")
  BY <1>1, LineFits, HeaderFits
     DEF LineLast, HeaderLast, TypeFits, Before, NamedStates, ValuedStates
<1>3. parser.state \in PlainStates \ Again
  BY PlainAre DEF Again
<1> QED BY <1>2, <1>3, GoKeeps, PlainAre

LEMMA DeadKeeps == ASSUME InLoop, Dead PROVE IInv'
<1>1. parser.state = "s_dead" /\ q.nread <= HTTP_MAX_HEADER_SIZE
  BY DEF Dead, At
<1>3. CASE Step(q)
  <2>1. Like(q, "s_dead") /\ StateFits("s_dead") /\ "s_dead" \in PlainStates \ Again
    BY <1>1, Here, Placed, PlainAre DEF Like, Again
  <2> QED BY <1>1, <1>3, <2>1, GoKeeps
<1>4. CASE Fail("HPE_CLOSED_CONNECTION")
  BY <1>1, <1>4, FailedKeeps DEF ErrorNames
<1> QED BY <1>3, <1>4 DEF Dead

LEMMA ExpectIs ==
  ASSUME NEW s \in DOMAIN Expect
  PROVE  /\ Expect[s].errno \in {"HPE_STRICT", "HPE_LF_EXPECTED"}
         /\ \/ /\ s \in {"s_res_H", "s_res_HT", "s_res_HTT", "s_res_HTTP"}
               /\ Expect[s].next \in {"s_res_HT", "s_res_HTT", "s_res_HTTP", "s_res_first_http_major"}
            \/ s = "s_res_line_almost_done" /\ Expect[s].next = "s_header_field_start"
            \/ /\ s \in {"s_req_http_H", "s_req_http_HT", "s_req_http_HTT", "s_req_http_HTTP"}
               /\ Expect[s].next \in {"s_req_http_HT", "s_req_http_HTT", "s_req_http_HTTP",
                                      "s_req_first_http_major"}
            \/ s = "s_req_line_almost_done" /\ Expect[s].next = "s_header_field_start"
            \/ s = "s_header_almost_done" /\ Expect[s].next = "s_header_value_lws"
            \/ /\ s = "s_header_value_discard_ws_almost_done"
               /\ Expect[s].next = "s_header_value_discard_lws"
BY DEF Expect

LEMMA OneByteKeeps == ASSUME InLoop, OneByte PROVE IInv'
<1> DEFINE s == parser.state
           e == Expect[s]
           r == [q EXCEPT !.state = e.next]
<1>1. s \in DOMAIN Expect /\ q.nread <= HTTP_MAX_HEADER_SIZE
  BY DEF OneByte, At
<1>2. e.errno \in ErrorNames \ {"HPE_OK", "HPE_PAUSED"} /\ s \notin {"s_header_field", "s_header_value"}
  BY <1>1, ExpectIs DEF ErrorNames
<1>3. CASE Goto(e.next)
  <2>1. Step(r) /\ (e.next \in StateNames => Like(r, e.next))
    BY <1>3, GotoIs DEF Goto
  <2> HIDE DEF r
  <2>2. CASE /\ s \in {"s_res_H", "s_res_HT", "s_res_HTT", "s_res_HTTP"}
             /\ e.next \in {"s_res_HT", "s_res_HTT", "s_res_HTTP", "s_res_first_http_major"}
    BY <1>1, <2>1, <2>2, BeginKeeps, PlainAre DEF BeginStates, StateNames
  <2>3. CASE /\ s \in {"s_req_http_H", "s_req_http_HT", "s_req_http_HTT", "s_req_http_HTTP"}
             /\ e.next \in {"s_req_http_HT", "s_req_http_HTT", "s_req_http_HTTP", "s_req_first_http_major"}
    BY <1>1, <2>1, <2>3, HttpKeeps, PlainAre DEF HttpStates, StateNames
  <2>4. CASE s \in {"s_res_line_almost_done", "s_req_line_almost_done"} /\ e.next = "s_header_field_start"
    BY <1>1, <2>1, <2>4, LineDone DEF HttpStates, StateNames
  <2>5. CASE \/ s = "s_header_almost_done" /\ e.next = "s_header_value_lws"
             \/ s = "s_header_value_discard_ws_almost_done" /\ e.next = "s_header_value_discard_lws"
    <3>1. s \in HeaderStates /\ e.next \in HeaderStates /\ StateFits(s) /\ e.next \in StateNames
      BY <2>5, Placed DEF HeaderStates, NamedStates, ValuedStates, StateNames
    <3>2. StateFits(e.next)
      BY <3>1, <2>5, HeaderFits DEF HeaderLast, NamedStates, ValuedStates
    <3>3. s \in PlainStates \ Again /\ e.next \in PlainStates
      BY <2>5, PlainAre DEF NamedStates, ValuedStates, Again
    <3> QED BY <1>1, <2>1, <3>1, <3>2, <3>3, GoKeeps
  <2> QED BY <1>1, <2>2, <2>3, <2>4, <2>5, ExpectIs
<1>4. CASE Fail(e.errno)
  BY <1>1, <1>2, <1>4, FailedKeeps
<1> QED BY <1>3, <1>4 DEF OneByte

LEMMA DigitIs == ASSUME NEW c, IS_NUM(c) PROVE DigitVal(c) \in 0 .. 9
<1>1. \E i \in 1 .. 10 : Digits[i] = c
  BY DEF IS_NUM, Ran, Digits
<1>2. (CHOOSE i \in 1 .. 10 : Digits[i] = c) \in 1 .. 10
  BY <1>1
<1> QED BY <1>2 DEF DigitVal

-----------------------------------------------------------------------------
(***************************************************************************)
(* A response's first line, and the version of a request.                  *)
(***************************************************************************)
LEMMA MajorIs ==
  ASSUME InLoop, NEW k \in Numbers, NEW s \in StateNames
  PROVE  /\ Like([q EXCEPT !.http_major = k], parser.state)
         /\ Like([q EXCEPT !.http_major = k, !.state = s], s)
<1>1. q \in Parsers /\ q.errno = "HPE_OK" /\ q.state = parser.state
  BY Here
<1> QED BY <1>1 DEF Like, Parsers

LEMMA MinorIs ==
  ASSUME InLoop, NEW k \in Numbers, NEW s \in StateNames
  PROVE  /\ Like([q EXCEPT !.http_minor = k], parser.state)
         /\ Like([q EXCEPT !.http_minor = k, !.state = s], s)
<1>1. q \in Parsers /\ q.errno = "HPE_OK" /\ q.state = parser.state
  BY Here
<1> QED BY <1>1 DEF Like, Parsers

LEMMA StatusIs ==
  ASSUME InLoop, NEW k \in Numbers, NEW s \in StateNames
  PROVE  /\ Like([q EXCEPT !.status_code = k], parser.state)
         /\ Like([q EXCEPT !.status_code = k, !.state = s], s)
<1>1. q \in Parsers /\ q.errno = "HPE_OK" /\ q.state = parser.state
  BY Here
<1> QED BY <1>1 DEF Like, Parsers

\* A further digit of a number.
LEMMA NextDigit ==
  ASSUME InLoop, IS_NUM(ch)
  PROVE  /\ 10 * parser.http_major + DigitVal(ch) <= 999 => 10 * q.http_major + DigitVal(ch) \in Numbers
         /\ 10 * parser.http_minor + DigitVal(ch) <= 999 => 10 * q.http_minor + DigitVal(ch) \in Numbers
         /\ 10 * parser.status_code + DigitVal(ch) <= 999 => 10 * q.status_code + DigitVal(ch) \in Numbers
         /\ DigitVal(ch) \in Numbers
<1>1. parser \in Parsers
  BY Here
<1>2. /\ q.http_major = parser.http_major /\ parser.http_major \in Nat
      /\ q.http_minor = parser.http_minor /\ parser.http_minor \in Nat
      /\ q.status_code = parser.status_code /\ parser.status_code \in Nat
  <2>1. /\ parser.http_major \in Numbers /\ parser.http_minor \in Numbers /\ parser.status_code \in Numbers
        /\ parser.nread \in Nat
    BY <1>1 DEF Parsers
  <2> DEFINE k == parser.nread + 1
             r == [parser EXCEPT !.nread = k]
  <2>2. q = parser \/ q = r
    BY DEF q
  <2>3. r.http_major = parser.http_major /\ r.http_minor = parser.http_minor /\ r.status_code = parser.status_code
    <3> HIDE DEF k
    <3> QED BY <1>1 DEF Parsers
  <2> HIDE DEF r
  <2>4. q.http_major = parser.http_major /\ q.http_minor = parser.http_minor /\ q.status_code = parser.status_code
    BY <2>2, <2>3
  <2>5. Numbers \subseteq Nat
    BY DEF Numbers
  <2> QED BY <2>1, <2>4, <2>5
<1>3. DigitVal(ch) \in 0 .. 9
  BY DigitIs
<1> DEFINE d == DigitVal(ch)
<1> HIDE DEF d
<1>4. d \in 0 .. 9 /\ d = DigitVal(ch)
  BY <1>3 DEF d
<1>5. d \in Numbers
  BY ONLY <1>4 DEF Numbers
<1>6. ASSUME NEW k \in Nat, 10 * k + d <= 999 PROVE 10 * k + d \in Numbers
  BY ONLY <1>4, <1>6, k \in Nat DEF Numbers
<1>7. /\ 10 * parser.http_major + d <= 999 => 10 * q.http_major + d \in Numbers
      /\ 10 * parser.http_minor + d <= 999 => 10 * q.http_minor + d \in Numbers
      /\ 10 * parser.status_code + d <= 999 => 10 * q.status_code + d \in Numbers
  BY <1>2, <1>6
<1> QED BY <1>4, <1>5, <1>7

LEMMA FirstMajorKeeps == ASSUME InLoop, FirstMajor PROVE IInv'
<1> DEFINE req == parser.state = "s_req_first_http_major"
           s == IF req THEN "s_req_http_major" ELSE "s_res_http_major"
           k == DigitVal(ch)
           r == [q EXCEPT !.http_major = k, !.state = s]
<1>1. parser.state \in {"s_res_first_http_major", "s_req_first_http_major"} /\ q.nread <= HTTP_MAX_HEADER_SIZE
  BY DEF FirstMajor, At
<1>2. CASE IS_NUM(ch) /\ Step(r)
  <2>1. k \in Numbers /\ s \in StateNames
    BY <1>2, NextDigit DEF StateNames
  <2>2. Like(r, s)
    <3> HIDE DEF k, s
    <3> QED BY <2>1, MajorIs
  <2> HIDE DEF r
  <2> QED BY <1>1, <1>2, <2>2, BeginKeeps, HttpKeeps DEF BeginStates, HttpStates
<1>3. CASE Fail("HPE_INVALID_VERSION")
  BY <1>1, <1>3, FailedKeeps DEF ErrorNames
<1> QED BY <1>2, <1>3 DEF FirstMajor

LEMMA MajorKeeps == ASSUME InLoop, Major PROVE IInv'
<1> DEFINE s == IF parser.state = "s_req_http_major" THEN "s_req_first_http_minor" ELSE "s_res_first_http_minor"
           k == 10 * q.http_major + DigitVal(ch)
           r == [q EXCEPT !.http_major = k]
<1>1. /\ parser.state \in {"s_res_http_major", "s_req_http_major"} /\ q.nread <= HTTP_MAX_HEADER_SIZE
      /\ parser.state \in StateNames
  BY DEF Major, At, StateNames
<1>2. CASE Goto(s)
  <2>1. s \in StateNames
    BY DEF StateNames
  <2>2. Like([q EXCEPT !.state = s], s) /\ Step([q EXCEPT !.state = s])
    BY <1>2, <2>1, GotoIs DEF Goto
  <2> QED BY <1>1, <2>2, BeginKeeps, HttpKeeps DEF BeginStates, HttpStates
<1>3. CASE IS_NUM(ch) /\ 10 * parser.http_major + DigitVal(ch) <= 999 /\ Step(r)
  <2>1. k \in Numbers
    BY <1>3, NextDigit
  <2>2. Like(r, parser.state)
    <3> HIDE DEF k
    <3> QED BY <1>1, <2>1, MajorIs
  <2> HIDE DEF r
  <2> QED BY <1>1, <1>3, <2>2, BeginKeeps, HttpKeeps DEF BeginStates, HttpStates
<1>4. CASE Fail("HPE_INVALID_VERSION")
  BY <1>1, <1>4, FailedKeeps DEF ErrorNames
<1>5. IF ch = "." THEN Goto(s)
      ELSE IF IS_NUM(ch) /\ 10 * parser.http_major + DigitVal(ch) <= 999 THEN Step(r)
      ELSE Fail("HPE_INVALID_VERSION")
  BY Zenon DEF Major
<1> HIDE DEF r, s
<1> QED BY <1>2, <1>3, <1>4, <1>5

LEMMA FirstMinorKeeps == ASSUME InLoop, FirstMinor PROVE IInv'
<1> DEFINE s == IF q.state = "s_req_first_http_minor" THEN "s_req_http_minor" ELSE "s_res_http_minor"
           k == DigitVal(ch)
           r == [q EXCEPT !.http_minor = k, !.state = s]
<1>1. /\ parser.state \in {"s_res_first_http_minor", "s_req_first_http_minor"} /\ q.nread <= HTTP_MAX_HEADER_SIZE
      /\ q.state = parser.state
  BY Here DEF FirstMinor, At
<1>2. CASE IS_NUM(ch) /\ Step(r)
  <2>1. k \in Numbers /\ s \in StateNames
    BY <1>2, NextDigit DEF StateNames
  <2>2. Like(r, s)
    <3> HIDE DEF k, s
    <3> QED BY <2>1, MinorIs
  <2> HIDE DEF r
  <2> QED BY <1>1, <1>2, <2>2, BeginKeeps, HttpKeeps DEF BeginStates, HttpStates
<1>3. CASE Fail("HPE_INVALID_VERSION")
  BY <1>1, <1>3, FailedKeeps DEF ErrorNames
<1>4. [q EXCEPT !.http_minor = DigitVal(ch),
                !.state = IF @ = "s_req_first_http_minor" THEN "s_req_http_minor" ELSE "s_res_http_minor"] = r
  OBVIOUS
<1> HIDE DEF r
<1> QED BY <1>2, <1>3, <1>4 DEF FirstMinor

LEMMA MinorKeeps == ASSUME InLoop, Minor PROVE IInv'
<1> DEFINE k == 10 * q.http_minor + DigitVal(ch)
           r == [q EXCEPT !.http_minor = k]
<1>1. /\ parser.state \in {"s_res_http_minor", "s_req_http_minor"} /\ q.nread <= HTTP_MAX_HEADER_SIZE
      /\ parser.state \in StateNames
  BY DEF Minor, At, StateNames
<1>2. ASSUME NEW s \in StateNames, Goto(s)
      PROVE  Like([q EXCEPT !.state = s], s) /\ Step([q EXCEPT !.state = s])
  BY <1>2, GotoIs DEF Goto
<1>3. CASE parser.state = "s_res_http_minor" /\ Goto("s_res_first_status_code")
  BY <1>1, <1>2, <1>3, BeginKeeps DEF BeginStates, StateNames
<1>4. CASE parser.state = "s_req_http_minor" /\ Goto("s_req_line_almost_done")
  BY <1>1, <1>2, <1>4, HttpKeeps DEF HttpStates, StateNames
<1>5. CASE parser.state = "s_req_http_minor" /\ Goto("s_header_field_start")
  BY <1>1, <1>2, <1>5, LineDone DEF HttpStates, StateNames
<1>6. CASE IS_NUM(ch) /\ 10 * parser.http_minor + DigitVal(ch) <= 999 /\ Step(r)
  <2>1. k \in Numbers
    BY <1>6, NextDigit
  <2>2. Like(r, parser.state)
    <3> HIDE DEF k
    <3> QED BY <1>1, <2>1, MinorIs
  <2> HIDE DEF r
  <2> QED BY <1>1, <1>6, <2>2, BeginKeeps, HttpKeeps DEF BeginStates, HttpStates
<1>7. CASE Fail("HPE_INVALID_VERSION")
  BY <1>1, <1>7, FailedKeeps DEF ErrorNames
<1> DEFINE req == parser.state = "s_req_http_minor"
<1>8. IF ~req /\ ch = "SP" THEN Goto("s_res_first_status_code")
      ELSE IF req /\ ch = "CR" THEN Goto("s_req_line_almost_done")
      ELSE IF req /\ ch = "LF" THEN Goto("s_header_field_start")
      ELSE IF IS_NUM(ch) /\ 10 * parser.http_minor + DigitVal(ch) <= 999 THEN Step(r)
      ELSE Fail("HPE_INVALID_VERSION")
  BY Zenon DEF Minor
<1> HIDE DEF r
<1> QED BY <1>1, <1>3, <1>4, <1>5, <1>6, <1>7, <1>8

LEMMA FirstStatusCodeKeeps == ASSUME InLoop, FirstStatusCode PROVE IInv'
<1> DEFINE k == DigitVal(ch)
           s == "s_res_status_code"
           r == [q EXCEPT !.status_code = k, !.state = s]
<1>1. parser.state = "s_res_first_status_code" /\ q.nread <= HTTP_MAX_HEADER_SIZE
  BY DEF FirstStatusCode, At
<1>2. CASE IS_NUM(ch) /\ Step(r)
  <2>1. k \in Numbers /\ s \in StateNames
    BY <1>2, NextDigit DEF StateNames
  <2>2. Like(r, s)
    <3> HIDE DEF k, s
    <3> QED BY <2>1, StatusIs
  <2> HIDE DEF r
  <2> QED BY <1>1, <1>2, <2>2, BeginKeeps DEF BeginStates
<1>3. CASE Step(q)
  <2>1. Like(q, parser.state)
    BY Here DEF Like
  <2> QED BY <1>1, <1>3, <2>1, BeginKeeps DEF BeginStates
<1>4. CASE Fail("HPE_INVALID_STATUS")
  BY <1>1, <1>4, FailedKeeps DEF ErrorNames
<1> QED BY <1>2, <1>3, <1>4 DEF FirstStatusCode

LEMMA StatusLineEndIs ==
  ASSUME NEW c
  PROVE  StatusLineEnd(c) \in {"s_res_line_almost_done", "s_header_field_start"}
BY DEF StatusLineEnd

\* The line ends before a status text.
LEMMA StatusLineEnds ==
  ASSUME InLoop, q.nread <= HTTP_MAX_HEADER_SIZE, parser.state \in BeginStates, Goto(StatusLineEnd(ch))
  PROVE  IInv'
<1> DEFINE s == StatusLineEnd(ch)
           r == [q EXCEPT !.state = s]
<1>1. s \in {"s_res_line_almost_done", "s_header_field_start"} /\ s \in StateNames
  BY StatusLineEndIs DEF StateNames
<1>2. Like(r, s) /\ Step(r)
  BY <1>1, GotoIs DEF Goto
<1> HIDE DEF r, s
<1>3. CASE s = "s_header_field_start"
  BY <1>2, <1>3, LineDone
<1>4. CASE s = "s_res_line_almost_done"
  <2>1. StateFits(parser.state) /\ parser.state \in LineStates /\ s \in LineStates
    BY <1>4, Placed DEF LineStates, StatusStates
  <2>2. StateFits(s)
    BY <1>4, <2>1, LineFits DEF LineLast, TypeFits, BeginStates, HttpStates, StatusStates
  <2>3. s \in PlainStates /\ parser.state \in PlainStates \ Again
    BY <1>4, PlainAre
  <2> QED BY <1>2, <2>2, <2>3, GoKeeps
<1> QED BY <1>1, <1>3, <1>4

LEMMA StatusCodeKeeps == ASSUME InLoop, StatusCode PROVE IInv'
<1> DEFINE k == 10 * q.status_code + DigitVal(ch)
           r == [q EXCEPT !.status_code = k]
<1>1. /\ parser.state = "s_res_status_code" /\ q.nread <= HTTP_MAX_HEADER_SIZE
      /\ parser.state \in StateNames /\ parser.state \in BeginStates
  BY DEF StatusCode, At, StateNames, BeginStates
<1>2. CASE Goto("s_res_status_start")
  <2>1. Like([q EXCEPT !.state = "s_res_status_start"], "s_res_status_start")
    BY GotoIs DEF StateNames
  <2> QED BY <1>1, <1>2, <2>1, BeginKeeps DEF BeginStates, Goto
<1>3. CASE Goto(StatusLineEnd(ch))
  BY <1>1, <1>3, StatusLineEnds
<1>4. CASE IS_NUM(ch) /\ 10 * parser.status_code + DigitVal(ch) <= 999 /\ Step(r)
  <2>1. k \in Numbers
    BY <1>4, NextDigit
  <2>2. Like(r, parser.state)
    <3> HIDE DEF k
    <3> QED BY <1>1, <2>1, StatusIs
  <2> HIDE DEF r
  <2> QED BY <1>1, <1>4, <2>2, BeginKeeps DEF BeginStates
<1>5. CASE Fail("HPE_INVALID_STATUS")
  BY <1>1, <1>5, FailedKeeps DEF ErrorNames
<1>6. IF ch = "SP" THEN Goto("s_res_status_start")
      ELSE IF ch \in LineEnd THEN Goto(StatusLineEnd(ch))
      ELSE IF IS_NUM(ch) /\ 10 * parser.status_code + DigitVal(ch) <= 999 THEN Step(r)
      ELSE Fail("HPE_INVALID_STATUS")
  BY Zenon DEF StatusCode
<1> HIDE DEF r
<1> QED BY <1>2, <1>3, <1>4, <1>5, <1>6

-----------------------------------------------------------------------------
(***************************************************************************)
(* Marks that are set and callbacks that are made at a byte.               *)
(***************************************************************************)
FineAfter(r, cb) == r \in Parsers /\ r.nread <= HTTP_MAX_HEADER_SIZE /\ Sound(r) /\ FitsAfter(r, cb)
SizedAt(r, n) == faults = 0 /\ attrs = << >> => Sized(r, n, None)

LEMMA MarkIs ==
  ASSUME InLoop, parser.state \notin MarkHomes \cup BodyHomes, NEW cb \in DataCallbacks
  PROVE  /\ MARK(cb) \in [DataCallbacks -> Nat \cup {None}] /\ MARK(cb)[cb] = p
         /\ \A c \in DataCallbacks \ {cb} : MARK(cb)[c] = None
<1>1. /\ mark \in [DataCallbacks -> Nat \cup {None}] /\ \A c \in DataCallbacks : mark[c] = None
      /\ p \in Nat
  BY Here, Unmarked, Bounds
<1> QED BY <1>1 DEF MARK

LEMMA MarkedFits ==
  ASSUME NEW m \in [DataCallbacks -> Nat \cup {None}], NEW cb \in DataCallbacks, NEW n \in Nat,
         m[cb] # None, m[cb] <= n, \A c \in DataCallbacks \ {cb} : m[c] = None,
         NEW s \in Home(cb), NEW l
  PROVE  MarksFit(m, None, s, n, l)
BY HomeIs, HomesApart DEF MarksFit, DataCallbacks

LEMMA MarkKeeps ==
  ASSUME InLoop, NEW cb \in DataCallbacks, NEW r, Continue(r, p + 1, MARK(cb), None), Quiet,
         FineParser(r, Last, Open), r.errno = "HPE_OK", r.nread = q.nread,
         parser.state \notin MarkHomes \cup BodyHomes \cup Again, r.state \in Home(cb)
  PROVE  IInv'
<1>1. start = None
  BY Here, Unmarked DEF MarkHomes
<1>2. MarksFit(MARK(cb), None, r.state, p + 1, lim)
  <2> DEFINE m == MARK(cb)
  <2>1. /\ m \in [DataCallbacks -> Nat \cup {None}] /\ m[cb] = p
        /\ \A c \in DataCallbacks \ {cb} : m[c] = None
    BY MarkIs
  <2>2. p \in Nat /\ p + 1 \in Nat /\ m[cb] # None /\ m[cb] <= p + 1
    BY <2>1, Bounds
  <2> HIDE DEF m
  <2> QED BY <2>1, <2>2, MarkedFits DEF m
<1>3. faults = 0 /\ attrs = << >> => Sized(r, p + 1, None)
  <2>1. Most(parser.state, p) + 1 <= Most(r.state, p + 1)
    BY MostNext, Bounds
  <2> QED BY <1>1, <2>1, SizedUp
<1>4. Fine(r, p + 1, MARK(cb), None, Last, Open)
  BY <1>2, <1>3, Bounds DEF Fine
<1> QED BY <1>4, Moves DEF InLoop

LEMMA HandsOver ==
  ASSUME IInv, pc = "loop", NEW cb \in DataCallbacks, NEW m \in [DataCallbacks -> Nat \cup {None}],
         m[cb] # None, m[cb] <= p, \A c \in DataCallbacks \ {cb} : m[c] = None,
         NEW to \in p .. lim, NEW ok, NEW pOk \in p .. lim, NEW err, NEW pErr \in p .. lim,
         CallData(cb, m, to, ok, pOk, err, pErr), May(Last, Open, cb, input.type),
         ok.errno = "HPE_OK" => FineAfter(ok, cb) /\ SizedAt(ok, pOk) /\ (ok.state \in MarkHomes => ~(pOk < lim)),
         ok.errno # "HPE_OK" => Broken(ok, p),
         FineAfter(err, cb)
  PROVE  IInv'
<1> DEFINE data == SubSeq(input.bytes, m[cb] + 1, to)
<1>1. Call(cb, data, m, ok, pOk, err, pErr)
  BY DEF CallData
<1>2. data \in Seq(STRING)
  <2>1. /\ input.bytes \in Seq(STRING) /\ Len(input.bytes) \in Nat /\ m[cb] \in Nat /\ p \in Nat /\ lim \in Nat
        /\ lim <= Len(input.bytes)
    BY InputIs DEF IInv
  <2>2. m[cb] + 1 \in 1 .. Len(input.bytes) + 1 /\ to \in (m[cb] + 1) - 1 .. Len(input.bytes)
    BY ONLY <2>1, m[cb] <= p, to \in p .. lim
  <2> QED BY <2>1, <2>2, SubSeqProperties
<1>3. ok.errno = "HPE_OK" => Fine(ok, pOk, Without(m, cb), None, cb, OpenAfter(cb, Open))
  <2> SUFFICES ASSUME ok.errno = "HPE_OK" PROVE Fine(ok, pOk, Without(m, cb), None, cb, OpenAfter(cb, Open))
    OBVIOUS
  <2>1. MarksFit(Without(m, cb), None, ok.state, pOk, lim)
    BY WithoutFits
  <2> QED BY <2>1 DEF Fine, FineParser, FineAfter, FitsAfter, SizedAt
<1>4. FineParser(err, cb, OpenAfter(cb, Open))
  BY DEF FineParser, FineAfter, FitsAfter
<1> HIDE DEF data
<1> QED BY <1>1, <1>2, <1>3, <1>4, CallKeeps

LEMMA DataKeeps ==
  ASSUME InLoop, NEW cb \in DataCallbacks, NEW m \in [DataCallbacks -> Nat \cup {None}],
         m[cb] # None, m[cb] <= p, \A c \in DataCallbacks \ {cb} : m[c] = None,
         NEW to \in p .. lim, NEW ok, NEW pOk \in p .. lim, NEW err, NEW pErr \in p .. lim,
         CallData(cb, m, to, ok, pOk, err, pErr), May(Last, Open, cb, input.type),
         ok.errno = "HPE_OK" => FineAfter(ok, cb) /\ SizedAt(ok, pOk) /\ (ok.state \in MarkHomes => ~(pOk < lim)),
         ok.errno # "HPE_OK" => Broken(ok, p),
         FineAfter(err, cb)
  PROVE  IInv'
BY HandsOver DEF InLoop

LEMMA NotifyKeeps ==
  ASSUME InLoop, NEW cb, NEW r, Notify(cb, r), parser.state \notin MarkHomes \cup BodyHomes,
         May(Last, Open, cb, input.type), FineAfter(r, cb), r.errno = "HPE_OK", SizedAt(r, p + 1),
         r.state \notin MarkHomes
  PROVE  IInv'
<1>1. Call(cb, << >>, mark, r, p + 1, r, p + 1) /\ << >> \in Seq(STRING)
  BY DEF Notify
<1>2. MarksFit(Without(mark, cb), None, r.state, p + 1, lim)
  BY Here, Unmarked, WithoutFits
<1>3. Fine(r, p + 1, Without(mark, cb), None, cb, OpenAfter(cb, Open))
  BY <1>2, Bounds DEF Fine, FineParser, FineAfter, FitsAfter, SizedAt
<1>4. FineParser(r, cb, OpenAfter(cb, Open))
  BY DEF FineParser, FineAfter, FitsAfter
<1> QED BY <1>1, <1>3, <1>4, CallKeeps, Bounds DEF InLoop

\* The byte is read again in another state.
LEMMA ReexecuteKeeps ==
  ASSUME InLoop, NEW r, Reexecute(r), FineParser(r, Last, Open), r.errno = "HPE_OK", r.nread = q.nread,
         parser.state \notin MarkHomes \cup BodyHomes, r.state \notin MarkHomes,
         attrs = << >> => Most(parser.state, p) + 1 <= Most(r.state, p)
  PROVE  IInv'
<1>1. Continue(r, p, mark, None) /\ Quiet
  BY DEF Reexecute
<1>2. MarksFit(mark, None, r.state, p, lim)
  BY Here, Unmarked, ClearFits
<1>3. start = None
  BY Here, Unmarked DEF MarkHomes
<1>4. faults = 0 /\ attrs = << >> => Sized(r, p, None)
  BY SMTT(30), <1>3, Here, Bounds, MostBounds DEF Sized
<1>5. Fine(r, p, mark, None, Last, Open)
  BY <1>2, <1>4, Bounds DEF Fine
<1> QED BY <1>1, <1>5, Moves DEF InLoop

\* States of which Sound says nothing.
EasyStates == StateNames \ (BodyHomes \cup ChunkStates \cup {"s_header_value"})

LEMMA EasyAre ==
  PlainStates \cup UrlStates \cup {"s_res_status", "s_header_field"} \subseteq EasyStates
BY HomesApart, PlainAre
   DEF EasyStates, PlainStates, StateNames, BodyHomes, ChunkStates, SizeStates, MarkHomes

LEMMA EasySound == ASSUME NEW r, r.state \in EasyStates PROVE Sound(r)
BY DEF Sound, EasyStates, ChunkStates, SizeStates, BodyHomes

LEMMA EasyFine ==
  ASSUME q.nread <= HTTP_MAX_HEADER_SIZE, NEW r, NEW s \in EasyStates, Like(r, s), StateFits(s)
  PROVE  FineParser(r, Last, Open)
<1>1. Sound(r)
  BY EasySound DEF Like
<1>2. Fits(r, Last, Open, attrs = << >>, input.type)
  BY DEF Fits, StateFits, Like, Trailing
<1> QED BY <1>1, <1>2 DEF FineParser, Like

LEMMA SizedNext ==
  ASSUME InLoop, start = None, parser.state \notin Again, NEW r, r.nread = q.nread
  PROVE  SizedAt(r, p + 1)
<1>1. Most(parser.state, p) + 1 <= Most(r.state, p + 1)
  BY MostNext, Bounds
<1> QED BY <1>1, SizedUp DEF SizedAt

LEMMA EasyAfter ==
  ASSUME q.nread <= HTTP_MAX_HEADER_SIZE, NEW r, NEW s \in EasyStates, Like(r, s), NEW cb, FitsAfter(r, cb)
  PROVE  FineAfter(r, cb)
BY EasySound DEF FineAfter, Like

\* Within a url or a status text.
LEMMA HomeStepKeeps ==
  ASSUME InLoop, q.nread <= HTTP_MAX_HEADER_SIZE, NEW cb \in {"url", "status"}, parser.state \in Home(cb),
         NEW r, NEW s \in Home(cb), Like(r, s), StateFits(s), Step(r)
  PROVE  IInv'
<1>1. Continue(r, p + 1, mark, None) /\ Quiet
  BY DEF Step
<1>2. /\ parser.state \notin Again \cup {"s_header_field", "s_header_value"} /\ s \in EasyStates
      /\ cb \in DataCallbacks
  BY HomeIs, HomesApart, PlainAre, EasyAre DEF Again, DataCallbacks
<1>3. start = None /\ p + 1 \in Nat /\ p \in Nat
  BY <1>2, Here, Unmarked, Bounds
<1>4. /\ mark \in [DataCallbacks -> Nat \cup {None}] /\ mark[cb] # None /\ mark[cb] <= p + 1
      /\ \A c \in DataCallbacks \ {cb} : mark[c] = None
  <2>1. MarksFit(mark, start, parser.state, p, lim) /\ p < lim
    BY Here DEF InLoop
  <2>2. \A c \in DataCallbacks \ {cb} : mark[c] = None
    BY <2>1, <1>2, OneMark
  <2>3. mark \in [DataCallbacks -> Nat \cup {None}] /\ mark[cb] # None /\ mark[cb] <= p
    BY <2>1, <1>2 DEF MarksFit
  <2> QED BY <2>2, <2>3, <1>2, <1>3
<1>5. MarksFit(mark, None, r.state, p + 1, lim)
  BY <1>2, <1>3, <1>4, MarkedFits DEF Like
<1>6. SizedAt(r, p + 1) /\ FineParser(r, Last, Open)
  BY <1>2, <1>3, SizedNext, EasyFine DEF Like
<1>7. Fine(r, p + 1, mark, None, Last, Open)
  BY <1>5, <1>6, Bounds DEF Fine, SizedAt, Like
<1> QED BY <1>1, <1>7, Moves DEF InLoop

\* A string ends, at a byte that is taken.
LEMMA HomeLeaves ==
  ASSUME InLoop, q.nread <= HTTP_MAX_HEADER_SIZE, NEW cb \in {"url", "status"}, parser.state \in Home(cb),
         NEW r, NEW s \in PlainStates, Like(r, s), May(Last, Open, cb, input.type), FitsAfter(r, cb),
         CallData(cb, mark, p, r, p + 1, r, p + 1)
  PROVE  IInv'
<1>2. /\ parser.state \notin Again \cup {"s_header_field", "s_header_value"} /\ s \in EasyStates
      /\ cb \in DataCallbacks /\ s \notin MarkHomes
  BY HomeIs, HomesApart, PlainAre, EasyAre DEF Again, DataCallbacks, PlainStates
<1>3. start = None
  BY <1>2, Here, Unmarked
<1>4. /\ mark \in [DataCallbacks -> Nat \cup {None}] /\ mark[cb] # None /\ mark[cb] <= p
      /\ \A c \in DataCallbacks \ {cb} : mark[c] = None
  <2>1. MarksFit(mark, start, parser.state, p, lim) /\ p < lim
    BY Here DEF InLoop
  <2>2. \A c \in DataCallbacks \ {cb} : mark[c] = None
    BY <2>1, <1>2, OneMark
  <2>3. mark \in [DataCallbacks -> Nat \cup {None}] /\ mark[cb] # None /\ mark[cb] <= p
    BY <2>1, <1>2 DEF MarksFit
  <2> QED BY <2>2, <2>3, <1>2
<1>5. SizedAt(r, p + 1) /\ FineAfter(r, cb) /\ r.state \notin MarkHomes /\ r.errno = "HPE_OK"
  BY <1>2, <1>3, SizedNext, EasyAfter DEF Like
<1> QED BY <1>2, <1>4, <1>5, DataKeeps, Bounds

LEMMA IndexIs ==
  ASSUME InLoop, NEW i \in Nat, NEW s \in StateNames
  PROVE  /\ Like([q EXCEPT !.state = s, !.index = i], s)
         /\ Like([q EXCEPT !.index = i], parser.state)
<1>1. q \in Parsers /\ q.errno = "HPE_OK" /\ q.state = parser.state
  BY Here
<1> QED BY <1>1 DEF Like, Parsers

-----------------------------------------------------------------------------
LEMMA StatusStartKeeps == ASSUME InLoop, StatusStart PROVE IInv'
<1> DEFINE s == "s_res_status"
           r == [q EXCEPT !.state = s, !.index = 0]
<1>1. parser.state = "s_res_status_start" /\ q.nread <= HTTP_MAX_HEADER_SIZE /\ parser.state \in BeginStates
  BY DEF StatusStart, At, BeginStates
<1>2. CASE Goto(StatusLineEnd(ch))
  BY <1>1, <1>2, StatusLineEnds
<1>3. CASE Continue(r, p + 1, MARK("status"), None) /\ Quiet
  <2>1. s \in StateNames /\ 0 \in Nat
    BY DEF StateNames
  <2>2. Like(r, s)
    <3> HIDE DEF s
    <3> QED BY <2>1, IndexIs
  <2>3. StateFits(parser.state) /\ parser.state \in LineStates /\ s \in LineStates
    BY <1>1, Placed DEF LineStates, StatusStates
  <2>4. StateFits(s)
    BY <1>1, <2>3, LineFits DEF LineLast, TypeFits, BeginStates, HttpStates, StatusStates
  <2>5. FineParser(r, Last, Open)
    BY <1>1, <2>2, <2>4, EasyFine, EasyAre
  <2>6. parser.state \notin MarkHomes \cup BodyHomes \cup Again /\ s \in Home("status")
    BY <1>1, PlainAre, HomeIs DEF PlainStates
  <2> HIDE DEF r
  <2> QED BY <1>3, <2>2, <2>5, <2>6, MarkKeeps DEF Like, DataCallbacks
<1> QED BY <1>2, <1>3 DEF StatusStart

LEMMA StatusKeeps == ASSUME InLoop, Status PROVE IInv'
<1> DEFINE s == StatusLineEnd(ch)
           r == [q EXCEPT !.state = s]
<1>1. parser.state = "s_res_status" /\ q.nread <= HTTP_MAX_HEADER_SIZE
  BY DEF Status, At
<1>2. parser.state \in LineStates /\ StateFits(parser.state) /\ parser.state \in Home("status")
  BY <1>1, Placed, HomeIs DEF LineStates, StatusStates
<1>3. /\ Last \in {"message_begin", "status"} /\ ~Open /\ ~Trailing(q)
      /\ input.type = "HTTP_REQUEST" => q.type = "HTTP_REQUEST"
  BY <1>1, <1>2, LineFits DEF LineLast, TypeFits, BeginStates, HttpStates, StatusStates
<1>4. CASE CallData("status", mark, p, r, p + 1, r, p + 1)
  <2>1. s \in {"s_res_line_almost_done", "s_header_field_start"} /\ s \in StateNames
    BY StatusLineEndIs DEF StateNames
  <2>2. Like(r, s)
    BY <2>1, GotoIs
  <2> HIDE DEF r, s
  <2>3. ~Trailing(r) /\ r.type = q.type /\ r.state = s /\ ~OpenAfter("status", Open)
    BY <1>3, <2>2 DEF Like, Trailing, OpenAfter
  <2>4. FitsAfter(r, "status")
    <3>1. CASE s = "s_res_line_almost_done"
      <4>1. r.state \in LineStates
        BY <2>3, <3>1 DEF LineStates, StatusStates
      <4> QED BY <1>3, <2>3, <3>1, <4>1, LineAfter
              DEF LineLast, TypeFits, BeginStates, HttpStates, StatusStates
    <3>2. CASE s = "s_header_field_start"
      <4>1. r.state \in HeaderStates
        BY <2>3, <3>2 DEF HeaderStates
      <4> QED BY <1>3, <2>3, <3>2, <4>1, HeaderAfter
              DEF HeaderLast, Before, NamedStates, ValuedStates
    <3> QED BY <2>1, <3>1, <3>2
  <2>5. May(Last, Open, "status", input.type)
    BY <1>3 DEF May, FollowIn, Callbacks, DataCallbacks
  <2>6. s \in PlainStates
    BY <2>1, PlainAre
  <2> QED BY <1>1, <1>2, <1>4, <2>2, <2>4, <2>5, <2>6, HomeLeaves
<1>5. CASE Step(q)
  <2>1. Like(q, "s_res_status")
    BY <1>1, Here DEF Like
  <2> QED BY <1>1, <1>2, <1>5, <2>1, HomeStepKeeps
<1> QED BY <1>4, <1>5 DEF Status

-----------------------------------------------------------------------------
(***************************************************************************)
(* The start of a message.                                                 *)
(***************************************************************************)
FitsNow(r) == Fits(r, Last, Open, attrs = << >>, input.type)

LEMMA StartNow ==
  ASSUME NEW r, r.state \in StartStates
  PROVE  FitsNow(r) <=>
           /\ Last = "none" \/ (r.state # "s_start_req_or_res" /\ Last = "message_complete")
              \/ (r.state = "s_start_res" /\ Last = "message_begin")
           /\ ~Open /\ (attrs = << >> => ~Trailing(r)) /\ TypeFits(r.state, r.type, input.type)
BY DEF FitsNow, Fits, Table, LastFits, OpenFits, FirstFits, TypeFits, StartStates, BeginStates, StatusStates,
       HttpStates, UrlStates, UrlServer, UrlQuery, UrlFragment, LineStates, NamedStates, ValuedStates,
       HeaderStates, SizeStates, ChunkStates, BodyParts

LEMMA LineNow ==
  ASSUME NEW r, r.state \in LineStates
  PROVE  FitsNow(r) <=>
           Last \in LineLast(r.state) /\ ~Open /\ ~Trailing(r) /\ TypeFits(r.state, r.type, input.type)
BY DEF FitsNow, Fits, Table, LineLast, LastFits, OpenFits, FirstFits, TypeFits, StartStates, BeginStates, StatusStates,
       HttpStates, UrlStates, UrlServer, UrlQuery, UrlFragment, LineStates, NamedStates, ValuedStates,
       HeaderStates, SizeStates, ChunkStates, BodyParts

LEMMA HeaderNow ==
  ASSUME NEW r, r.state \in HeaderStates
  PROVE  FitsNow(r) <=>
           /\ Last \in HeaderLast(r.state, Trailing(r)) /\ (Open <=> Trailing(r)) /\ (attrs = << >> => ~Trailing(r))
           /\ input.type = "HTTP_REQUEST" => r.type = "HTTP_REQUEST"
BY DEF FitsNow, Fits, Table, HeaderLast, LastFits, OpenFits, FirstFits, TypeFits, StartStates, BeginStates, StatusStates,
       HttpStates, UrlStates, UrlServer, UrlQuery, UrlFragment, LineStates, NamedStates, ValuedStates,
       HeaderStates, SizeStates, ChunkStates, BodyParts

LEMMA BodyNow ==
  ASSUME NEW r, r.state \in BodyParts \cup {"s_headers_done", "s_message_done"}
  PROVE  FitsNow(r) <=>
           /\ Last \in BodyLast(r.state) /\ Open /\ attrs # << >>
           /\ input.type = "HTTP_REQUEST" => r.type = "HTTP_REQUEST"
BY DEF FitsNow, Fits, Table, BodyLast, LastFits, OpenFits, FirstFits, TypeFits, StartStates, BeginStates, StatusStates,
       HttpStates, UrlStates, UrlServer, UrlQuery, UrlFragment, LineStates, NamedStates, ValuedStates,
       HeaderStates, SizeStates, ChunkStates, BodyParts

LEMMA EasyNow ==
  ASSUME q.nread <= HTTP_MAX_HEADER_SIZE, NEW r \in Parsers, r.nread = q.nread, r.state \in EasyStates, FitsNow(r)
  PROVE  FineParser(r, Last, Open)
BY EasySound DEF FineParser, FitsNow

LEMMA SizedFirst ==
  ASSUME InLoop, start = None, NEW r, r.nread = q.nread,
         r.state \in {"s_start_req", "s_start_res", "s_req_method", "s_res_H", "s_res_or_resp_H"}
  PROVE  SizedAt(r, p + 1)
<1>1. Most(r.state, p + 1) >= 2 * p + 2 /\ Most(parser.state, p) + 1 <= 2 * p + 2 /\ p \in Nat
  BY MostNext, Bounds DEF Most
<1>2. Most(parser.state, p) + 1 <= Most(r.state, p + 1)
  BY <1>1, MostBounds
<1> QED BY <1>2, SizedUp DEF SizedAt

\* A message begins.
LEMMA FreshIs ==
  ASSUME InLoop, NEW s \in StateNames
  PROVE  LET f == Fresh(q)
             r == [f EXCEPT !.state = s]
             t == [f EXCEPT !.type = "HTTP_REQUEST", !.state = s]
         IN  /\ f \in Parsers /\ f.nread = q.nread /\ f.state = parser.state /\ f.errno = "HPE_OK"
             /\ ~Trailing(f) /\ f.type = q.type
             /\ r \in Parsers /\ r.nread = q.nread /\ r.state = s /\ r.errno = "HPE_OK"
             /\ ~Trailing(r) /\ r.type = q.type
             /\ t \in Parsers /\ t.nread = q.nread /\ t.state = s /\ t.errno = "HPE_OK"
             /\ ~Trailing(t) /\ t.type = "HTTP_REQUEST"
<1>1. q \in Parsers /\ q.errno = "HPE_OK" /\ q.state = parser.state /\ ULLONG_MAX \in Lengths
  BY Here, Bounds DEF Lengths
<1>2. "HTTP_REQUEST" \in MessageTypes
  BY DEF MessageTypes
<1>3. Fresh(q) \in Parsers /\ Fresh(q).nread = q.nread /\ Fresh(q).state = q.state
      /\ Fresh(q).errno = q.errno /\ Fresh(q).flags = {} /\ Fresh(q).type = q.type
  BY <1>1 DEF Fresh, Parsers
<1> DEFINE f == Fresh(q)
<1> HIDE DEF f
<1> QED BY <1>1, <1>2, <1>3 DEF Trailing, Parsers, f

LEMMA BeginsKeeps ==
  ASSUME InLoop, q.nread <= HTTP_MAX_HEADER_SIZE, parser.state \in StartStates,
         NEW r \in Parsers, r.nread = q.nread, r.errno = "HPE_OK", ~Trailing(r), r.type = q.type,
         r.state \in {"s_start_res", "s_req_method", "s_res_H", "s_res_or_resp_H"},
         input.type = "HTTP_REQUEST" => r.state = "s_req_method",
         Notify("message_begin", r)
  PROVE  IInv'
<1>1. StateFits(parser.state) /\ parser.state \notin MarkHomes \cup BodyHomes
  BY Placed, PlainAre DEF PlainStates
<1>2. /\ Last = "none" \/ Last = "message_complete" \/ (parser.state = "s_start_res" /\ Last = "message_begin")
      /\ ~Open /\ TypeFits(parser.state, q.type, input.type)
  BY <1>1, StartFits
<1>3. start = None
  BY <1>1, Here, Unmarked DEF MarkHomes
<1>4. SizedAt(r, p + 1)
  BY <1>3, SizedFirst
<1>5. May(Last, Open, "message_begin", input.type)
  BY <1>2 DEF May, Callbacks, FollowIn, TypeFits
<1>6. ~OpenAfter("message_begin", Open)
  BY <1>2 DEF OpenAfter
<1>7. FitsAfter(r, "message_begin")
  <2>1. CASE r.state = "s_start_res"
    <3>1. r.state \in StartStates
      BY <2>1 DEF StartStates
    <3> QED BY <2>1, <3>1, <1>2, <1>6, StartAfter DEF TypeFits
  <2>2. CASE r.state # "s_start_res"
    <3>1. r.state \in LineStates /\ r.state \in BeginStates
      BY <2>2 DEF LineStates, BeginStates
    <3> QED BY <2>2, <3>1, <1>2, <1>6, LineAfter DEF LineLast, TypeFits
  <2> QED BY <2>1, <2>2
<1>8. r.state \in PlainStates /\ r.state \in EasyStates /\ r.state \notin MarkHomes
  BY PlainAre, EasyAre DEF StartStates, BeginStates, PlainStates
<1>9. FineAfter(r, "message_begin")
  BY <1>7, <1>8, EasySound DEF FineAfter
<1> QED BY <1>1, <1>4, <1>5, <1>8, <1>9, NotifyKeeps

LEMMA StartReqOrResKeeps == ASSUME InLoop, StartReqOrRes PROVE IInv'
<1> DEFINE r == [Fresh(q) EXCEPT !.state = "s_res_or_resp_H"]
           t == [Fresh(q) EXCEPT !.type = "HTTP_REQUEST", !.state = "s_start_req"]
<1>0. {"s_res_or_resp_H", "s_start_req"} \subseteq StateNames
  BY DEF StateNames
<1>1. parser.state = "s_start_req_or_res" /\ q.nread <= HTTP_MAX_HEADER_SIZE /\ parser.state \in StartStates
  BY DEF StartReqOrRes, At, StartStates
<1>2. StateFits(parser.state) /\ parser.state \in PlainStates /\ parser.state \notin Again
  BY <1>1, Placed, PlainAre DEF Again
<1>3. Last = "none" /\ ~Open /\ input.type # "HTTP_REQUEST"
  BY <1>1, <1>2, StartFits DEF TypeFits
<1>4. CASE Step(q)
  <2>1. Like(q, parser.state)
    BY Here DEF Like
  <2> QED BY <1>1, <1>2, <1>4, <2>1, GoKeeps
<1>5. CASE Notify("message_begin", r)
  <2>1. /\ r \in Parsers /\ r.nread = q.nread /\ r.state = "s_res_or_resp_H" /\ r.errno = "HPE_OK"
        /\ ~Trailing(r) /\ r.type = q.type
    BY <1>0, FreshIs
  <2> HIDE DEF r
  <2> QED BY <1>1, <1>3, <1>5, <2>1, BeginsKeeps
<1>6. CASE Reexecute(t)
  <2>1. /\ t \in Parsers /\ t.nread = q.nread /\ t.state = "s_start_req" /\ t.errno = "HPE_OK"
        /\ ~Trailing(t) /\ t.type = "HTTP_REQUEST"
    BY <1>0, FreshIs
  <2> HIDE DEF t
  <2>2. t.state \in StartStates /\ t.state \in PlainStates /\ t.state \in EasyStates
    BY <2>1, PlainAre, EasyAre DEF StartStates
  <2>3. FitsNow(t)
    BY <1>3, <2>1, <2>2, StartNow DEF TypeFits
  <2>4. FineParser(t, Last, Open)
    BY <1>1, <2>1, <2>2, <2>3, EasyNow
  <2>5. Most(parser.state, p) + 1 <= Most(t.state, p)
    BY <1>1, <2>1, Bounds DEF Most
  <2> QED BY <1>2, <1>6, <2>1, <2>2, <2>4, <2>5, ReexecuteKeeps DEF PlainStates
<1> QED BY <1>4, <1>5, <1>6 DEF StartReqOrRes

LEMMA ResOrRespHKeeps == ASSUME InLoop, ResOrRespH PROVE IInv'
<1> DEFINE r == [q EXCEPT !.type = "HTTP_RESPONSE", !.state = "s_res_HT"]
           t == [q EXCEPT !.type = "HTTP_REQUEST", !.method = "HEAD", !.index = 2, !.state = "s_req_method"]
<1>1. parser.state = "s_res_or_resp_H" /\ q.nread <= HTTP_MAX_HEADER_SIZE /\ q \in Parsers /\ q.errno = "HPE_OK"
  BY Here DEF ResOrRespH, At
<1>2. /\ StateFits(parser.state) /\ parser.state \in LineStates /\ parser.state \in PlainStates
      /\ parser.state \notin Again
  BY <1>1, Placed, PlainAre DEF Again, LineStates, BeginStates
<1>3. Last = "message_begin" /\ ~Open /\ ~Trailing(q) /\ input.type # "HTTP_REQUEST"
  BY <1>1, <1>2, LineFits DEF TypeFits, LineLast, BeginStates
<1>4. ASSUME NEW u \in Parsers, u.nread = q.nread, u.errno = "HPE_OK", u.flags = q.flags,
             u.state \in {"s_res_HT", "s_req_method"}, Step(u)
      PROVE  IInv'
  <2>1. u.state \in LineStates /\ u.state \in BeginStates /\ u.state \in PlainStates /\ u.state \in EasyStates
    BY <1>4, PlainAre, EasyAre DEF LineStates, BeginStates
  <2>2. FitsNow(u)
    BY <1>3, <1>4, <2>1, LineNow DEF LineLast, TypeFits, Trailing
  <2>3. FineParser(u, Last, Open)
    BY <1>1, <1>4, <2>1, <2>2, EasyNow
  <2>4. Most(parser.state, p) + 1 <= Most(u.state, p + 1)
    BY <1>2, MostNext, Bounds
  <2> QED BY <1>2, <1>4, <2>1, <2>3, <2>4, StepKeeps DEF PlainStates
<1>5. CASE Step(r)
  <2>1. r \in Parsers /\ r.nread = q.nread /\ r.errno = "HPE_OK" /\ r.flags = q.flags /\ r.state = "s_res_HT"
    <3>1. "HTTP_RESPONSE" \in MessageTypes /\ "s_res_HT" \in StateNames
      BY DEF MessageTypes, StateNames
    <3> QED BY <1>1, <3>1 DEF Parsers
  <2> HIDE DEF r
  <2> QED BY <1>4, <1>5, <2>1
<1>6. CASE Step(t)
  <2>1. t \in Parsers /\ t.nread = q.nread /\ t.errno = "HPE_OK" /\ t.flags = q.flags /\ t.state = "s_req_method"
    <3>1. "HTTP_REQUEST" \in MessageTypes /\ "s_req_method" \in StateNames /\ "HEAD" \in MethodNames /\ 2 \in Nat
      BY DEF MessageTypes, StateNames, MethodNames, MethodWord
    <3> QED BY <1>1, <3>1 DEF Parsers
  <2> HIDE DEF t
  <2> QED BY <1>4, <1>6, <2>1
<1>7. CASE Fail("HPE_INVALID_CONSTANT")
  BY <1>1, <1>7, FailedKeeps DEF ErrorNames
<1> QED BY <1>5, <1>6, <1>7 DEF ResOrRespH

LEMMA StartResKeeps == ASSUME InLoop, StartRes PROVE IInv'
<1> DEFINE r == [Fresh(q) EXCEPT !.state = "s_res_H"]
           f == Fresh(q)
<1>0. "s_res_H" \in StateNames
  BY DEF StateNames
<1>1. parser.state = "s_start_res" /\ q.nread <= HTTP_MAX_HEADER_SIZE /\ parser.state \in StartStates
  BY DEF StartRes, At, StartStates
<1>2. StateFits(parser.state)
  BY Placed
<1>3. input.type # "HTTP_REQUEST"
  BY <1>1, <1>2, StartFits DEF TypeFits
<1>4. /\ r \in Parsers /\ r.nread = q.nread /\ r.state = "s_res_H" /\ r.errno = "HPE_OK"
      /\ ~Trailing(r) /\ r.type = q.type
      /\ f \in Parsers /\ f.nread = q.nread /\ f.state = parser.state /\ f.errno = "HPE_OK"
      /\ ~Trailing(f) /\ f.type = q.type
  BY <1>0, FreshIs
<1> HIDE DEF r, f
<1>5. CASE Notify("message_begin", r)
  BY <1>1, <1>3, <1>4, <1>5, BeginsKeeps
<1>6. CASE Notify("message_begin", f)
  BY <1>1, <1>3, <1>4, <1>6, BeginsKeeps
<1>7. CASE Error(f, "HPE_INVALID_CONSTANT")
  <2>1. start = None
    BY <1>1, Here, Unmarked
  <2> QED BY <1>1, <1>4, <1>7, <2>1, FailKeeps DEF ErrorNames
<1> QED BY <1>5, <1>6, <1>7 DEF StartRes, r, f

-----------------------------------------------------------------------------
(***************************************************************************)
(* The request line.                                                       *)
(***************************************************************************)
LEMMA GuessIs == ASSUME NEW c \in DOMAIN FirstGuess PROVE FirstGuess[c] \in MethodNames
BY DEF FirstGuess, MethodNames, MethodWord

LEMMA ReguessIs == ASSUME NEW g \in Reguess PROVE g[4] \in MethodNames
BY DEF Reguess, MethodNames, MethodWord

LEMMA StartReqKeeps == ASSUME InLoop, StartReq PROVE IInv'
<1> DEFINE f == Fresh(q)
           m == FirstGuess[ch]
           r == [f EXCEPT !.method = m, !.index = 1, !.state = "s_req_method"]
<1>1. parser.state = "s_start_req" /\ q.nread <= HTTP_MAX_HEADER_SIZE /\ parser.state \in StartStates
  BY DEF StartReq, At, StartStates
<1>2. StateFits(parser.state) /\ parser.state \in PlainStates
  BY <1>1, Placed, PlainAre
<1>3. /\ f \in Parsers /\ f.nread = q.nread /\ f.state = parser.state /\ f.errno = "HPE_OK"
      /\ ~Trailing(f) /\ f.type = q.type
  BY FreshIs DEF StateNames
<1> HIDE DEF f
<1>4. CASE Step(q)
  <2>1. Like(q, parser.state)
    BY Here DEF Like
  <2>2. FineParser(q, Last, Open)
    BY <1>1, <1>2, <2>1, PlainFine
  <2>3. Most(parser.state, p) + 1 <= Most(q.state, p + 1)
    BY <1>1, <2>1, Bounds DEF Most, Like
  <2> QED BY <1>2, <1>4, <2>1, <2>2, <2>3, StepKeeps DEF PlainStates, Like
<1>5. CASE ch \in DOMAIN FirstGuess /\ Notify("message_begin", r)
  <2>1. m \in MethodNames /\ "s_req_method" \in StateNames /\ 1 \in Nat
    BY <1>5, GuessIs DEF StateNames
  <2> HIDE DEF m
  <2>2. /\ r \in Parsers /\ r.nread = q.nread /\ r.state = "s_req_method" /\ r.errno = "HPE_OK"
        /\ r.flags = f.flags /\ r.type = q.type
    BY <1>3, <2>1 DEF Parsers
  <2>3. ~Trailing(r)
    BY <1>3, <2>2 DEF Trailing
  <2> HIDE DEF r
  <2> QED BY <1>1, <1>5, <2>2, <2>3, BeginsKeeps
<1>6. CASE Error(f, "HPE_INVALID_METHOD")
  <2>1. start = None
    BY <1>1, Here, Unmarked
  <2> QED BY <1>1, <1>3, <1>6, <2>1, FailKeeps DEF ErrorNames
<1> QED BY <1>4, <1>5, <1>6 DEF StartReq, f

LEMMA MethodIs ==
  ASSUME InLoop, NEW i \in Nat, NEW m \in MethodNames
  PROVE  Like([q EXCEPT !.method = m, !.index = i], parser.state)
<1>1. q \in Parsers /\ q.errno = "HPE_OK" /\ q.state = parser.state
  BY Here
<1> QED BY <1>1 DEF Like, Parsers

LEMMA ReqMethodKeeps == ASSUME InLoop, ReqMethod PROVE IInv'
<1> DEFINE i == parser.index
           k == i + 1
           s == "s_req_spaces_before_url"
<1>1. parser.state = "s_req_method" /\ q.nread <= HTTP_MAX_HEADER_SIZE /\ parser.state \in BeginStates
  BY DEF ReqMethod, At, BeginStates
<1>2. k \in Nat /\ s \in StateNames
  BY Here DEF Parsers, StateNames
<1> HIDE DEF k
<1>3. CASE Step([q EXCEPT !.state = s, !.index = k])
  <2>1. Like([q EXCEPT !.state = s, !.index = k], s)
    <3> HIDE DEF s
    <3> QED BY <1>2, IndexIs
  <2> QED BY <1>1, <1>3, <2>1, BeginKeeps DEF BeginStates
<1>4. CASE Step([q EXCEPT !.index = k])
  <2>1. Like([q EXCEPT !.index = k], parser.state)
    BY <1>2, IndexIs
  <2> QED BY <1>1, <1>4, <2>1, BeginKeeps
<1>5. ASSUME NEW g \in Reguess, Step([q EXCEPT !.method = g[4], !.index = k])
      PROVE  IInv'
  <2> DEFINE m == g[4]
  <2>1. m \in MethodNames
    BY ReguessIs
  <2>2. Like([q EXCEPT !.method = m, !.index = k], parser.state)
    <3> HIDE DEF m
    <3> QED BY <1>2, <2>1, MethodIs
  <2> QED BY <1>1, <1>5, <2>2, BeginKeeps
<1>6. CASE Fail("HPE_INVALID_METHOD")
  BY <1>1, <1>6, FailedKeeps DEF ErrorNames
<1> QED BY <1>3, <1>4, <1>5, <1>6 DEF ReqMethod, k

LEMMA UrlCharIs ==
  ASSUME NEW s, NEW c
  PROVE  parse_url_char(s, c) \in UrlStates \cup {"s_dead"}
BY DEF parse_url_char, UrlStates, UrlServer, UrlQuery, UrlFragment

LEMMA UrlApart ==
  ASSUME NEW s \in UrlStates
  PROVE  /\ s \in LineStates /\ LineLast(s) = {"message_begin", "url"} /\ s \in StateNames
         /\ s \notin {"s_start_res", "s_start_req_or_res", "s_res_or_resp_H"} /\ s \in EasyStates
         /\ s \in Home("url") /\ s # "s_dead"
<1>1. /\ s \notin BeginStates \cup HttpStates \cup StatusStates /\ s # "s_dead"
      /\ s \notin {"s_start_res", "s_start_req_or_res", "s_res_or_resp_H"}
  BY DEF UrlStates, UrlServer, UrlQuery, UrlFragment, BeginStates, HttpStates, StatusStates
<1> QED BY <1>1, PlainAre, EasyAre, HomeIs DEF LineLast, LineStates

LEMMA BadUrl ==
  ASSUME InLoop, q.nread <= HTTP_MAX_HEADER_SIZE, parser.state \notin {"s_header_field", "s_header_value"},
         NEW s, s = "s_dead", Error([q EXCEPT !.state = s], "HPE_INVALID_URL")
  PROVE  IInv'
<1>1. start = None
  BY Here, Unmarked
<1>2. Like([q EXCEPT !.state = s], s)
  BY GotoIs DEF StateNames
<1> QED BY <1>1, <1>2, FailKeeps DEF Like, ErrorNames

LEMMA SpacesBeforeUrlKeeps == ASSUME InLoop, SpacesBeforeUrl PROVE IInv'
<1> DEFINE from == IF parser.method = "CONNECT" THEN "s_req_server_start" ELSE parser.state
           s == parse_url_char(from, ch)
           r == [q EXCEPT !.state = s]
<1>1. /\ parser.state = "s_req_spaces_before_url" /\ q.nread <= HTTP_MAX_HEADER_SIZE
      /\ parser.state \in BeginStates
  BY DEF SpacesBeforeUrl, At, BeginStates
<1>2. s \in UrlStates \cup {"s_dead"}
  BY UrlCharIs
<1> HIDE DEF s
<1>3. CASE Step(q)
  <2>1. Like(q, parser.state)
    BY Here DEF Like
  <2> QED BY <1>1, <1>3, <2>1, BeginKeeps
<1>4. CASE s = "s_dead" /\ Error(r, "HPE_INVALID_URL")
  BY <1>1, <1>4, BadUrl
<1>5. CASE s # "s_dead" /\ Continue(r, p + 1, MARK("url"), None) /\ Quiet
  <2>1. s \in UrlStates
    BY <1>2, <1>5
  <2>2. Like(r, s)
    BY <2>1, UrlApart, GotoIs
  <2>3. StateFits(parser.state) /\ parser.state \in LineStates /\ LineLast(parser.state) = {"message_begin"}
    BY <1>1, Placed DEF LineStates, LineLast
  <2>4. StateFits(s)
    BY <2>1, <2>3, UrlApart, LineFits DEF TypeFits
  <2>5. FineParser(r, Last, Open)
    BY <1>1, <2>1, <2>2, <2>4, EasyFine, UrlApart
  <2>6. parser.state \notin MarkHomes \cup BodyHomes \cup Again /\ s \in Home("url")
    BY <1>1, <2>1, PlainAre, UrlApart DEF PlainStates
  <2> HIDE DEF r
  <2> QED BY <1>5, <2>2, <2>5, <2>6, MarkKeeps DEF Like, DataCallbacks
<1> QED BY <1>3, <1>4, <1>5 DEF SpacesBeforeUrl, s

LEMMA UrlKeeps == ASSUME InLoop, Url PROVE IInv'
<1> DEFINE s == parse_url_char(parser.state, ch)
           r == [q EXCEPT !.state = s]
<1>1. parser.state \in UrlStates /\ q.nread <= HTTP_MAX_HEADER_SIZE
  BY DEF Url, At
<1>2. s \in UrlStates \cup {"s_dead"}
  BY UrlCharIs
<1> HIDE DEF s
<1>3. parser.state \in Home("url") /\ parser.state \notin {"s_header_field", "s_header_value"}
  BY <1>1, UrlApart, HomesApart
<1>4. CASE s = "s_dead" /\ Error(r, "HPE_INVALID_URL")
  BY <1>1, <1>3, <1>4, BadUrl
<1>5. CASE s # "s_dead" /\ Goto(s)
  <2>1. s \in UrlStates
    BY <1>2, <1>5
  <2>2. Like(r, s) /\ Step(r)
    BY <1>5, <2>1, UrlApart, GotoIs DEF Goto
  <2>3. StateFits(s)
    BY <1>1, <2>1, Placed, UrlApart, LineFits DEF TypeFits
  <2> HIDE DEF r
  <2> QED BY <1>1, <1>3, <2>1, <2>2, <2>3, UrlApart, HomeStepKeeps
<1> QED BY <1>4, <1>5 DEF Url, s

LEMMA UrlEndKeeps == ASSUME InLoop, UrlEnd PROVE IInv'
<1> DEFINE t == IF ch = "CR" THEN "s_req_line_almost_done" ELSE "s_header_field_start"
           s == IF ch = "SP" THEN "s_req_http_start" ELSE t
           r == IF ch = "SP" THEN [q EXCEPT !.state = "s_req_http_start"]
                ELSE [q EXCEPT !.http_major = 0, !.http_minor = 9, !.state = t]
<1>1. parser.state \in UrlStates /\ q.nread <= HTTP_MAX_HEADER_SIZE
  BY DEF UrlEnd, At
<1>2. /\ parser.state \in Home("url") /\ parser.state \notin {"s_header_field", "s_header_value"}
      /\ StateFits(parser.state)
  BY <1>1, UrlApart, HomesApart, Placed
<1>3. /\ Last \in {"message_begin", "url"} /\ ~Open /\ ~Trailing(q)
      /\ input.type = "HTTP_REQUEST" => q.type = "HTTP_REQUEST"
  BY <1>1, <1>2, UrlApart, LineFits DEF TypeFits
<1>4. CASE CallData("url", mark, p, r, p + 1, r, p + 1)
  <2>1. s \in {"s_req_http_start", "s_req_line_almost_done", "s_header_field_start"} /\ t \in StateNames
    BY DEF StateNames
  <2>2. Like(r, s)
    <3>1. CASE ch = "SP"
      BY <3>1, GotoIs DEF StateNames
    <3>2. CASE ch # "SP"
      <4> HIDE DEF t
      <4>1. q \in Parsers /\ q.errno = "HPE_OK" /\ 0 \in Numbers /\ 9 \in Numbers
        BY Here DEF Numbers
      <4>2. r = [q EXCEPT !.http_major = 0, !.http_minor = 9, !.state = t] /\ s = t
        BY <3>2
      <4>3. Like([q EXCEPT !.http_major = 0, !.http_minor = 9, !.state = t], t)
        BY <2>1, <4>1 DEF Like, Parsers
      <4> HIDE DEF r, s
      <4> QED BY <4>2, <4>3
    <3> QED BY <3>1, <3>2
  <2> HIDE DEF r, s
  <2>3. ~Trailing(r) /\ r.type = q.type /\ r.state = s /\ ~OpenAfter("url", Open)
    BY <1>3, <2>2 DEF Like, Trailing, OpenAfter
  <2>4. FitsAfter(r, "url")
    <3>1. CASE s \in {"s_req_http_start", "s_req_line_almost_done"}
      <4>1. r.state \in LineStates /\ r.state \in HttpStates
        BY <2>3, <3>1 DEF LineStates, HttpStates
      <4> QED BY <1>3, <2>3, <3>1, <4>1, LineAfter DEF LineLast, TypeFits, BeginStates
    <3>2. CASE s = "s_header_field_start"
      <4>1. r.state \in HeaderStates
        BY <2>3, <3>2 DEF HeaderStates
      <4> QED BY <1>3, <2>3, <3>2, <4>1, HeaderAfter
              DEF HeaderLast, Before, NamedStates, ValuedStates
    <3> QED BY <2>1, <3>1, <3>2
  <2>5. May(Last, Open, "url", input.type)
    BY <1>3 DEF May, FollowIn, Callbacks, DataCallbacks
  <2>6. s \in PlainStates
    BY <2>1, PlainAre DEF HttpStates
  <2> QED BY <1>1, <1>2, <1>4, <2>2, <2>4, <2>5, <2>6, HomeLeaves
<1>5. CASE Fail("HPE_INVALID_URL")
  BY <1>1, <1>2, <1>5, FailedKeeps DEF ErrorNames
<1> QED BY <1>4, <1>5 DEF UrlEnd

LEMMA HttpStartKeeps == ASSUME InLoop, HttpStart PROVE IInv'
<1>1. parser.state = "s_req_http_start" /\ q.nread <= HTTP_MAX_HEADER_SIZE /\ parser.state \in HttpStates
  BY DEF HttpStart, At, HttpStates
<1>2. CASE Goto("s_req_http_H")
  <2>1. Like([q EXCEPT !.state = "s_req_http_H"], "s_req_http_H")
    BY GotoIs DEF StateNames
  <2> QED BY <1>1, <1>2, <2>1, HttpKeeps DEF HttpStates, Goto
<1>3. CASE Step(q)
  <2>1. Like(q, parser.state)
    BY Here DEF Like
  <2> QED BY <1>1, <1>3, <2>1, HttpKeeps
<1>4. CASE Fail("HPE_INVALID_CONSTANT")
  BY <1>1, <1>4, FailedKeeps DEF ErrorNames
<1> QED BY <1>2, <1>3, <1>4 DEF HttpStart

-----------------------------------------------------------------------------
(***************************************************************************)
(* Headers.                                                                *)
(***************************************************************************)
LEMMA HeaderSide ==
  ASSUME InLoop, parser.state \in HeaderStates
  PROVE  /\ Last \in HeaderLast(parser.state, Trailing(q)) /\ (Open <=> Trailing(q)) /\ (attrs = << >> => ~Trailing(q))
         /\ input.type = "HTTP_REQUEST" => q.type = "HTTP_REQUEST"
BY Placed, HeaderFits

LEMMA FirstLetterIs == ASSUME NEW c PROVE FirstLetter(c) \in HeaderStateNames
BY DEF FirstLetter, HeaderStateNames

LEMMA NamedIs ==
  ASSUME InLoop, NEW i \in Nat, NEW h \in HeaderStateNames, NEW s \in StateNames
  PROVE  /\ Like([q EXCEPT !.state = s, !.index = i, !.header_state = h], s)
         /\ Like([q EXCEPT !.header_state = h, !.index = i], parser.state)
<1>1. q \in Parsers /\ q.errno = "HPE_OK" /\ q.state = parser.state
  BY Here
<1> QED BY <1>1 DEF Like, Parsers

LEMMA HeaderFieldStartKeeps == ASSUME InLoop, HeaderFieldStart PROVE IInv'
<1> DEFINE s == "s_headers_almost_done"
           r == [q EXCEPT !.state = s]
           t == "s_header_field"
           h == FirstLetter(LOWER(ch))
           n == [q EXCEPT !.state = t, !.index = 0, !.header_state = h]
<1>1. /\ parser.state = "s_header_field_start" /\ q.nread <= HTTP_MAX_HEADER_SIZE
      /\ parser.state \in PlainStates \ Again /\ parser.state \in HeaderStates /\ StateFits(parser.state)
  BY Placed, PlainAre DEF HeaderFieldStart, At, HeaderStates, Again
<1>2. s \in PlainStates /\ s \in EasyStates /\ s \in HeaderStates /\ StateFits(s) /\ Like(r, s)
  <2>1. s \in PlainStates /\ s \in EasyStates /\ s \in HeaderStates /\ s \in StateNames
    BY PlainAre, EasyAre DEF HeaderStates, StateNames
  <2>2. StateFits(s)
    BY <1>1, <2>1, HeaderFits DEF HeaderLast, NamedStates, ValuedStates
  <2> QED BY <2>1, <2>2, GotoIs
<1> HIDE DEF r
<1>3. CASE Step(r)
  BY <1>1, <1>2, <1>3, GoKeeps
<1>4. CASE Reexecute(r)
  <2>1. FineParser(r, Last, Open)
    BY <1>1, <1>2, EasyFine
  <2>2. Most(parser.state, p) + 1 <= Most(s, p)
    BY <1>1, Bounds DEF Most
  <2> QED BY <1>1, <1>2, <1>4, <2>1, <2>2, ReexecuteKeeps DEF Like, PlainStates
<1>5. CASE Fail("HPE_INVALID_HEADER_TOKEN")
  BY <1>1, <1>5, FailedKeeps DEF ErrorNames
<1>6. CASE Continue(n, p + 1, MARK("header_field"), None) /\ Quiet
  <2>1. h \in HeaderStateNames /\ t \in StateNames /\ 0 \in Nat /\ t \in EasyStates /\ t \in HeaderStates
    BY FirstLetterIs, EasyAre DEF StateNames, HeaderStates
  <2>2. Like(n, t)
    <3> HIDE DEF h, t
    <3> QED BY <2>1, NamedIs
  <2>3. StateFits(t)
    BY <1>1, <2>1, HeaderFits DEF HeaderLast, NamedStates, ValuedStates
  <2> HIDE DEF n
  <2>4. FineParser(n, Last, Open)
    BY <1>1, <2>1, <2>2, <2>3, EasyFine
  <2>5. t \in Home("header_field") /\ "header_field" \in DataCallbacks
    BY HomeIs DEF DataCallbacks
  <2> QED BY <1>1, <1>6, <2>2, <2>4, <2>5, MarkKeeps DEF Like, PlainStates
<1> QED BY <1>3, <1>4, <1>5, <1>6 DEF HeaderFieldStart, Goto, r

\* COUNT_HEADER_SIZE(n)
LEMMA CountIs ==
  ASSUME NEW r \in Parsers, NEW n \in Int, r.nread + n \in Nat
  PROVE  LET c == Count(r, n)
         IN  /\ c \in Parsers /\ c.nread = r.nread + n
             /\ c.errno = IF r.nread + n > HTTP_MAX_HEADER_SIZE THEN "HPE_HEADER_OVERFLOW" ELSE r.errno
             /\ c.state = r.state /\ c.flags = r.flags /\ c.type = r.type /\ c.header_state = r.header_state
             /\ c.content_length = r.content_length
<1> DEFINE e == IF r.nread + n > HTTP_MAX_HEADER_SIZE THEN "HPE_HEADER_OVERFLOW" ELSE r.errno
           k == r.nread + n
<1>1. e \in ErrorNames
  BY DEF Parsers, ErrorNames
<1>2. Count(r, n) = [r EXCEPT !.nread = k, !.errno = e]
  BY DEF Count
<1>3. k \in Nat
  OBVIOUS
<1> HIDE DEF e, k
<1>4. LET c == [r EXCEPT !.nread = k, !.errno = e]
      IN  /\ c \in Parsers /\ c.nread = k /\ c.errno = e
          /\ c.state = r.state /\ c.flags = r.flags /\ c.type = r.type /\ c.header_state = r.header_state
          /\ c.content_length = r.content_length
  BY <1>1, <1>3 DEF Parsers
<1> QED BY <1>2, <1>4 DEF e, k

InnerStates == {"s_header_field", "s_header_value"}

\* How far the count is in an inner loop.
LEMMA TakenIs ==
  ASSUME InLoop, parser.state \in InnerStates
  PROVE  /\ Taken \in Nat
         /\ start # None => start \in Nat /\ start < p
         /\ Taken = IF start = None THEN 0 ELSE p - start
         /\ start = None => q.nread >= 1
         /\ faults = 0 /\ attrs = << >> =>
              IF start = None THEN p + 1 <= q.nread /\ q.nread <= 2 * p
              ELSE start + 1 <= q.nread /\ q.nread <= 2 * start
<1>1. start # None => start \in Nat /\ start < p
  BY Here DEF MarksFit
<1>2. Most(parser.state, p) = 2 * p - 1 /\ PARSING_HEADER(parser.state)
  BY DEF Most, InnerStates, PARSING_HEADER, BodyStates
<1> QED BY SMTT(30), <1>1, <1>2, Here, Bounds DEF Taken

LEMMA InnerStepKeeps ==
  ASSUME InLoop, parser.state \in InnerStates, NEW r, NEW n \in p + 1 .. lim, InnerStep(r, n),
         FineParser(r, Last, Open), r.nread = q.nread, r.errno = "HPE_OK", r.state = parser.state
  PROVE  IInv'
<1> DEFINE from == IF start = None THEN p ELSE start
           k == n - from
           done == Count(r, k)
<1>1. /\ Quiet
      /\ \/ n < lim /\ Continue(r, n, mark, from)
         \/ ~(n < lim) /\ done.errno = "HPE_OK" /\ Continue(done, n, mark, None)
         \/ ~(n < lim) /\ done.errno # "HPE_OK" /\ Return(done, n)
  BY DEF InnerStep
<1>2. /\ from \in Nat /\ from < n /\ n \in p .. lim /\ n \in Nat /\ p < n /\ k \in Nat /\ from <= p
      /\ faults = 0 /\ attrs = << >> => from + 1 <= q.nread /\ q.nread <= 2 * from
      /\ q.nread \in Nat
  <2>1. q.nread \in Nat
    BY Here
  <2>2. CASE start = None
    BY <2>1, <2>2, TakenIs, Bounds
  <2>3. CASE start # None
    BY SMTT(30), <2>1, <2>3, TakenIs, Bounds
  <2> QED BY <2>2, <2>3
<1>3. r \in Parsers /\ r.nread + k \in Nat
  BY <1>2 DEF FineParser
<1>4. /\ done \in Parsers /\ done.nread = q.nread + k
      /\ done.errno = IF q.nread + k > HTTP_MAX_HEADER_SIZE THEN "HPE_HEADER_OVERFLOW" ELSE "HPE_OK"
      /\ done.state = r.state /\ done.flags = r.flags /\ done.type = r.type
      /\ done.header_state = r.header_state /\ done.content_length = r.content_length
  BY <1>2, <1>3, CountIs
<1>5. k = n - from
  OBVIOUS
<1> HIDE DEF from, done, k
<1>6. MarksFit(mark, start, parser.state, p, lim)
  BY Here
<1>7. CASE n < lim /\ Continue(r, n, mark, from)
  <2>1. MarksFit(mark, from, r.state, n, lim)
    BY <1>2, <1>6, <1>7, Bounds DEF MarksFit, InnerStates, InLoop
  <2>2. Sized(r, n, from) \/ ~(faults = 0 /\ attrs = << >>)
    BY <1>2, Bounds DEF Sized
  <2> QED BY <1>1, <1>2, <1>7, <2>1, <2>2, Moves DEF Fine, InLoop
<1>8. CASE ~(n < lim) /\ done.errno = "HPE_OK" /\ Continue(done, n, mark, None)
  <2>1. MarksFit(mark, None, done.state, n, lim)
    BY <1>2, <1>4, <1>6, <1>8, Bounds DEF MarksFit
  <2>2. FineParser(done, Last, Open)
    <3>1. Sound(done)
      BY <1>4 DEF FineParser, Sound, InnerStates
    <3>2. Fits(done, Last, Open, attrs = << >>, input.type)
      BY <1>4 DEF FineParser, Fits, Trailing
    <3>3. done.nread <= HTTP_MAX_HEADER_SIZE
      BY <1>2, <1>4, <1>8, Bounds
    <3> QED BY <1>4, <3>1, <3>2, <3>3 DEF FineParser
  <2>3. faults = 0 /\ attrs = << >> => Sized(done, n, None)
    BY <1>2, <1>4, <1>5, MostBounds DEF Sized
  <2> QED BY <1>1, <1>2, <1>8, <2>1, <2>2, <2>3, Moves DEF Fine, InLoop
<1>9. CASE ~(n < lim) /\ done.errno # "HPE_OK" /\ Return(done, n)
  <2>1. Broken(done, n)
    BY <1>2, <1>4, <1>5, <1>9 DEF Broken
  <2> QED BY <1>1, <1>9, <2>1, Fails DEF InLoop
<1> QED BY <1>1, <1>7, <1>8, <1>9

MatcherNames == {"h_matching_connection", "h_matching_proxy_connection", "h_matching_content_length",
                 "h_matching_transfer_encoding", "h_matching_upgrade"} \cup ValueMatchers

LEMMA MatcherIs ==
  /\ DOMAIN Matcher = MatcherNames
  /\ \A h \in MatcherNames : Matcher[h].hit \in HeaderStateNames /\ Matcher[h].miss \in HeaderStateNames
  /\ \A h \in ValueMatchers : Matcher[h].hit \in ValueStates /\ Matcher[h].miss \in ValueStates
BY DEF Matcher, MatcherNames, ValueMatchers, ValueStates, HeaderStateNames

LEMMA MatchIs ==
  ASSUME NEW h \in DOMAIN Matcher, NEW i, NEW c
  PROVE  /\ Match(h, i, c) \in HeaderStateNames
         /\ h \in ValueStates => Match(h, i, c) \in ValueStates
<1>1. Match(h, i, c) \in {h, Matcher[h].hit, Matcher[h].miss}
  BY DEF Match
<1>2. h \in HeaderStateNames /\ (h \in ValueStates => h \in ValueMatchers)
  BY MatcherIs DEF MatcherNames, ValueMatchers, ValueStates, HeaderStateNames
<1> QED BY <1>1, <1>2, MatcherIs

LEMMA NameLetterIs ==
  ASSUME InLoop, NEW c
  PROVE  Like(NameLetter(q, c), parser.state)
<1> DEFINE h == q.header_state
           i == q.index + 1
           next == CASE h = "h_C" -> IF c = "o" THEN "h_CO" ELSE "h_general"
                     [] h = "h_CO" -> IF c = "n" THEN "h_CON" ELSE "h_general"
                     [] h = "h_CON" -> IF c = "n" THEN "h_matching_connection"
                                       ELSE IF c = "t" THEN "h_matching_content_length"
                                       ELSE "h_general"
                     [] h \in DOMAIN Matcher -> Match(h, i, c)
                     [] OTHER -> "h_general"
           j == IF h \in DOMAIN Matcher \cup {"h_C", "h_CO", "h_CON"} THEN i ELSE q.index
<1>1. NameLetter(q, c) = [q EXCEPT !.header_state = next, !.index = j]
  BY DEF NameLetter
<1>2. j \in Nat
  BY Here DEF Parsers
<1>3. next \in HeaderStateNames
  <2>1. {"h_CO", "h_CON", "h_general", "h_matching_connection", "h_matching_content_length"} \subseteq HeaderStateNames
    BY DEF HeaderStateNames
  <2>2. CASE h \in DOMAIN Matcher
    <3>1. h \notin {"h_C", "h_CO", "h_CON"}
      BY <2>2, MatcherIs DEF MatcherNames, ValueMatchers
    <3>2. next = Match(h, i, c)
      BY <2>2, <3>1
    <3> QED BY <2>2, <3>2, MatchIs
  <2>3. CASE h \notin DOMAIN Matcher
    BY <2>1, <2>3
  <2> QED BY <2>2, <2>3
<1>4. parser.state \in StateNames
  BY Here DEF Parsers
<1> HIDE DEF next, j
<1> QED BY <1>1, <1>2, <1>3, <1>4, NamedIs

\* The marks of a name or a value that ends.
LEMMA InnerMark ==
  ASSUME InLoop, NEW cb \in {"header_field", "header_value"}, parser.state \in Home(cb)
  PROVE  /\ mark \in [DataCallbacks -> Nat \cup {None}] /\ mark[cb] # None /\ mark[cb] <= p
         /\ \A c \in DataCallbacks \ {cb} : mark[c] = None
         /\ cb \in DataCallbacks
<1>1. MarksFit(mark, start, parser.state, p, lim) /\ p < lim /\ cb \in DataCallbacks
  BY Here DEF InLoop, DataCallbacks
<1>2. \A c \in DataCallbacks \ {cb} : mark[c] = None
  BY <1>1, OneMark
<1>3. mark \in [DataCallbacks -> Nat \cup {None}] /\ mark[cb] # None /\ mark[cb] <= p
  BY <1>1 DEF MarksFit
<1> QED BY <1>1, <1>2, <1>3

\* The size of a name or a value that ends is counted.
LEMMA CountedIs ==
  ASSUME InLoop, parser.state \in InnerStates, NEW r \in Parsers, r.nread = q.nread, r.errno = "HPE_OK"
  PROVE  LET c == Count(r, Taken)
         IN  /\ c \in Parsers /\ c.nread = q.nread + Taken
             /\ c.errno \in {"HPE_OK", "HPE_HEADER_OVERFLOW"}
             /\ c.errno = "HPE_OK" => c.nread <= HTTP_MAX_HEADER_SIZE
             /\ c.state = r.state /\ c.flags = r.flags /\ c.type = r.type /\ c.header_state = r.header_state
             /\ faults = 0 /\ attrs = << >> => p + 1 <= c.nread /\ c.nread <= 2 * p
             /\ c.errno # "HPE_OK" => Broken(c, p)
<1> DEFINE n == Taken
           c == Count(r, n)
<1>1. n \in Nat /\ q.nread \in Nat /\ p \in p .. lim /\ HTTP_MAX_HEADER_SIZE \in Nat /\ p \in Nat
  BY TakenIs, Here, Bounds
<1>2. faults = 0 /\ attrs = << >> => p + 1 <= q.nread + n /\ q.nread + n <= 2 * p
  <2>1. CASE start = None
    BY <1>1, <2>1, TakenIs
  <2>2. CASE start # None
    BY <1>1, <2>2, TakenIs
  <2> QED BY <2>1, <2>2
<1> HIDE DEF n
<1>3. /\ c \in Parsers /\ c.nread = q.nread + n
      /\ c.errno = IF q.nread + n > HTTP_MAX_HEADER_SIZE THEN "HPE_HEADER_OVERFLOW" ELSE "HPE_OK"
      /\ c.state = r.state /\ c.flags = r.flags /\ c.type = r.type /\ c.header_state = r.header_state
  BY SMTT(30), <1>1, CountIs
<1> HIDE DEF c
<1>4. c.errno # "HPE_OK" => Broken(c, p)
  BY <1>1, <1>2, <1>3 DEF Broken
<1> QED BY <1>1, <1>2, <1>3, <1>4 DEF c, n

LEMMA HeaderFieldKeeps == ASSUME InLoop, HeaderField PROVE IInv'
<1> DEFINE r == Count(q, Taken)
           named == [r EXCEPT !.state = "s_header_value_discard_ws"]
           l == NameLetter(q, LOWER(ch))
<1>1. /\ parser.state = "s_header_field" /\ q.nread <= HTTP_MAX_HEADER_SIZE /\ parser.state \in InnerStates
      /\ parser.state \in HeaderStates /\ StateFits(parser.state) /\ parser.state \in Home("header_field")
      /\ parser.state \in EasyStates
  BY Placed, HomeIs, EasyAre DEF HeaderField, At, InnerStates, HeaderStates
<1>2. /\ Last \in Before(Trailing(q)) \cup {"header_field"} /\ (Open <=> Trailing(q))
      /\ attrs = << >> => ~Trailing(q)
      /\ input.type = "HTTP_REQUEST" => q.type = "HTTP_REQUEST"
  BY <1>1, HeaderSide DEF HeaderLast, NamedStates, ValuedStates
<1>3. /\ r \in Parsers /\ r.nread = q.nread + Taken /\ r.errno \in {"HPE_OK", "HPE_HEADER_OVERFLOW"}
      /\ r.errno = "HPE_OK" => r.nread <= HTTP_MAX_HEADER_SIZE
      /\ r.flags = q.flags /\ r.type = q.type
      /\ faults = 0 /\ attrs = << >> => p + 1 <= r.nread /\ r.nread <= 2 * p
      /\ r.errno # "HPE_OK" => Broken(r, p)
  BY <1>1, Here, CountedIs
<1> HIDE DEF r
<1>4. CASE InnerStep(l, p + 1)
  <2>1. Like(l, parser.state)
    BY NameLetterIs
  <2> HIDE DEF l
  <2>2. FineParser(l, Last, Open)
    BY <1>1, <2>1, EasyFine
  <2>3. p + 1 \in p + 1 .. lim
    BY Bounds DEF InLoop
  <2> QED BY <1>1, <1>4, <2>1, <2>2, <2>3, InnerStepKeeps DEF Like
<1>5. CASE r.errno # "HPE_OK" /\ Return(r, p) /\ Quiet
  BY <1>3, <1>5, Fails DEF InLoop
<1>6. CASE r.errno = "HPE_OK" /\ CallData("header_field", mark, p, named, p + 1, named, p + 1)
  <2>1. /\ named \in Parsers /\ named.state = "s_header_value_discard_ws" /\ named.nread = r.nread
        /\ named.errno = r.errno /\ named.flags = r.flags /\ named.type = r.type
    <3>1. "s_header_value_discard_ws" \in StateNames
      BY DEF StateNames
    <3> QED BY <1>3, <3>1 DEF Parsers
  <2> HIDE DEF named
  <2>2. named.state \in HeaderStates /\ named.state \in NamedStates /\ named.state \in EasyStates
        /\ named.state \notin MarkHomes
    BY <2>1, PlainAre, EasyAre DEF HeaderStates, NamedStates, PlainStates
  <2>3. FitsAfter(named, "header_field")
    <3>1. (OpenAfter("header_field", Open) <=> Open) /\ (Trailing(named) <=> Trailing(q))
      BY <1>3, <2>1 DEF OpenAfter, Trailing
    <3> QED BY <1>2, <1>3, <2>1, <2>2, <3>1, HeaderAfter DEF HeaderLast
  <2>4. FineAfter(named, "header_field")
    BY <1>3, <1>6, <2>1, <2>2, <2>3, EasySound DEF FineAfter
  <2>5. SizedAt(named, p + 1)
    <3>1. p \in Nat /\ named.nread \in Nat /\ Most(named.state, p + 1) \in Int
          /\ Most(named.state, p + 1) >= 2 * p + 1
      BY <2>1, Bounds, MostBounds DEF Parsers
    <3> QED BY <1>3, <2>1, <3>1 DEF SizedAt, Sized
  <2>6. May(Last, Open, "header_field", input.type)
    BY <1>2 DEF May, FollowIn, Callbacks, DataCallbacks, Before
  <2>7. "header_field" \in {"header_field", "header_value"}
    OBVIOUS
  <2> QED BY <1>1, <1>6, <2>1, <2>2, <2>4, <2>5, <2>6, <2>7, InnerMark, DataKeeps, Bounds
<1>7. CASE r.errno = "HPE_OK" /\ Error(r, "HPE_INVALID_HEADER_TOKEN")
  <2> DEFINE t == [r EXCEPT !.errno = "HPE_INVALID_HEADER_TOKEN"]
  <2>1. t \in Parsers /\ t.nread = r.nread /\ t.errno = "HPE_INVALID_HEADER_TOKEN"
    <3>1. "HPE_INVALID_HEADER_TOKEN" \in ErrorNames
      BY DEF ErrorNames
    <3> QED BY <1>3, <3>1 DEF Parsers
  <2>2. Return(t, p) /\ Quiet
    BY <1>7 DEF Error
  <2> HIDE DEF t
  <2>3. p \in Nat /\ p \in p .. lim /\ t.nread \in Nat
    BY <2>1, Bounds DEF Parsers
  <2>4. Broken(t, p)
    BY <1>3, <1>7, <2>1, <2>3 DEF Broken
  <2> QED BY <2>2, <2>4, Fails DEF InLoop
<1> QED BY <1>4, <1>5, <1>6, <1>7 DEF HeaderField, r

LEMMA FlagIs ==
  ASSUME NEW f \in FlagNames
  PROVE  Flag(f) \subseteq FlagNames /\ (f # "F_TRAILING" => "F_TRAILING" \notin Flag(f))
BY DEF Flag

LEMMA FlagsAre ==
  /\ {"F_CHUNKED", "F_CONNECTION_KEEP_ALIVE", "F_CONNECTION_CLOSE", "F_CONNECTION_UPGRADE", "F_TRAILING",
      "F_UPGRADE", "F_SKIPBODY"} = FlagNames
  /\ Flag("F_TRAILING") = {"F_TRAILING"}
BY DEF FlagNames, Bit, Flag, FlagBits

LEMMA HeaderFlagIs ==
  ASSUME NEW h
  PROVE  HeaderFlag(h) \subseteq FlagNames /\ "F_TRAILING" \notin HeaderFlag(h)
<1>1. HeaderFlag(h) \in {{}, Flag("F_CONNECTION_KEEP_ALIVE"), Flag("F_CONNECTION_CLOSE"),
                         Flag("F_CONNECTION_UPGRADE"), Flag("F_CHUNKED")}
  BY DEF HeaderFlag
<1>2. \A f \in {"F_CONNECTION_KEEP_ALIVE", "F_CONNECTION_CLOSE", "F_CONNECTION_UPGRADE", "F_CHUNKED"} :
        f \in FlagNames /\ Flag(f) \subseteq FlagNames /\ "F_TRAILING" \notin Flag(f)
  BY FlagsAre, FlagIs
<1> QED BY <1>1, <1>2

\* Parser r is q with other flags and numbers, but in the same part of the message.
Akin(r, s) ==
  /\ r \in Parsers /\ r.state = s /\ r.errno = "HPE_OK" /\ r.nread = q.nread /\ r.type = q.type
  /\ Trailing(r) <=> Trailing(q)

LEMMA ConnectionTokenIs ==
  ASSUME NEW c, NEW h \in ValueStates
  PROVE  ConnectionToken(c, h) \in ValueStates
BY DEF ConnectionToken, ValueStates, ValueMatchers

LEMMA ValueStatesAre == ValueStates \subseteq HeaderStateNames
BY DEF ValueStates, ValueMatchers, HeaderStateNames

LEMMA ValueFine ==
  ASSUME InLoop, q.nread <= HTTP_MAX_HEADER_SIZE,
         parser.state \in NamedStates \cup {"s_header_value_start", "s_header_value"},
         NEW r, Akin(r, "s_header_value"), r.header_state \in ValueStates
  PROVE  FineParser(r, Last, Open)
<1>1. parser.state \in HeaderStates /\ r.state \in HeaderStates
  BY DEF HeaderStates, NamedStates, ValuedStates, Akin
<1>2. Last \in {"header_field", "header_value"}
  BY <1>1, HeaderSide DEF HeaderLast, NamedStates, ValuedStates
<1>3. FitsNow(r)
  BY <1>1, <1>2, HeaderSide, HeaderNow DEF HeaderLast, NamedStates, ValuedStates, Akin
<1>4. Sound(r)
  BY DEF Sound, Akin, ChunkStates, SizeStates
<1> QED BY <1>3, <1>4 DEF FineParser, FitsNow, Akin

LEMMA ValueStartKeeps ==
  ASSUME InLoop, q.nread <= HTTP_MAX_HEADER_SIZE,
         parser.state \in {"s_header_value_start", "s_header_value_discard_ws"}, ValueStart
  PROVE  IInv'
<1> DEFINE h == parser.header_state
           c == LOWER(ch)
           s == "s_header_value"
           r == [q EXCEPT !.state = s, !.index = 0]
           next == CASE h = "h_transfer_encoding" /\ c = "c" -> "h_matching_transfer_encoding_chunked"
                     [] h = "h_connection" -> ConnectionToken(c, "h_matching_connection_token")
                     [] h \in {"h_content_length", "h_matching_connection_token_start"} -> h
                     [] OTHER -> "h_general"
           flags == IF h = "h_upgrade" THEN r.flags \cup Flag("F_UPGRADE") ELSE r.flags
           length == IF h = "h_content_length" THEN DigitVal(ch) ELSE r.content_length
           t == [r EXCEPT !.header_state = next, !.flags = flags, !.content_length = length]
<1>1. start = None
  BY Here, Unmarked
<1>2. Like(r, s)
  <2>1. s \in StateNames /\ 0 \in Nat
    BY DEF StateNames
  <2> HIDE DEF s
  <2> QED BY <2>1, IndexIs
<1>3. next \in ValueStates
  <2>1. {"h_matching_transfer_encoding_chunked", "h_matching_connection_token", "h_content_length",
         "h_matching_connection_token_start", "h_general"} \subseteq ValueStates
    BY DEF ValueStates, ValueMatchers
  <2>2. ConnectionToken(c, "h_matching_connection_token") \in ValueStates
    BY <2>1, ConnectionTokenIs
  <2> QED BY <2>1, <2>2
<1>4. flags \subseteq FlagNames /\ ("F_TRAILING" \in flags <=> "F_TRAILING" \in q.flags)
  <2>1. Flag("F_UPGRADE") \subseteq FlagNames /\ "F_TRAILING" \notin Flag("F_UPGRADE")
    BY FlagsAre, FlagIs
  <2>2. r.flags \subseteq FlagNames /\ r.flags = q.flags
    BY <1>2 DEF Like, Parsers
  <2> QED BY <2>1, <2>2
<1>5. CASE h = "h_content_length" /\ ~IS_NUM(ch) /\ Error(r, "HPE_INVALID_CONTENT_LENGTH")
  BY <1>1, <1>2, <1>5, FailKeeps DEF Like, ErrorNames
<1>6. CASE (h = "h_content_length" => IS_NUM(ch)) /\ Continue(t, p + 1, MARK("header_value"), None) /\ Quiet
  <2>1. length \in Lengths
    <3>1. r.content_length \in Lengths
      BY <1>2 DEF Like, Parsers
    <3>2. h = "h_content_length" => DigitVal(ch) \in 0 .. 9
      BY <1>6, DigitIs
    <3> QED BY <3>1, <3>2, Bounds DEF Lengths
  <2>2. next \in HeaderStateNames
    BY <1>3, ValueStatesAre
  <2> HIDE DEF r, next, flags, length
  <2>3. /\ t \in Parsers /\ t.state = r.state /\ t.errno = r.errno /\ t.nread = r.nread /\ t.type = r.type
        /\ t.flags = flags /\ t.header_state = next
    BY <1>2, <1>4, <2>1, <2>2 DEF Like, Parsers
  <2> HIDE DEF t
  <2>4. Akin(t, s)
    BY <1>2, <1>4, <2>3 DEF Akin, Like, Trailing
  <2>5. parser.state \in NamedStates \cup {"s_header_value_start", "s_header_value"}
    BY DEF NamedStates
  <2>6. FineParser(t, Last, Open)
    BY <1>3, <2>3, <2>4, <2>5, ValueFine
  <2>7. s \in Home("header_value") /\ "header_value" \in DataCallbacks
    BY HomeIs DEF DataCallbacks
  <2>8. parser.state \notin MarkHomes \cup BodyHomes \cup Again
    BY PlainAre DEF PlainStates, NamedStates, ValuedStates
  <2> QED BY <1>6, <2>4, <2>6, <2>7, <2>8, MarkKeeps DEF Akin
<1> QED BY <1>5, <1>6 DEF ValueStart

LEMMA HeaderValueStartKeeps == ASSUME InLoop, HeaderValueStart PROVE IInv'
BY ValueStartKeeps DEF HeaderValueStart, At

\* Within the lines of a header.
LEMMA NamedKeeps ==
  ASSUME InLoop, q.nread <= HTTP_MAX_HEADER_SIZE, parser.state \in NamedStates, NEW s \in NamedStates, Goto(s)
  PROVE  IInv'
<1>1. s \in PlainStates /\ parser.state \in PlainStates \ Again /\ s \in HeaderStates /\ s \in StateNames
      /\ parser.state \in HeaderStates
  BY PlainAre DEF PlainStates, HeaderStates
<1>2. StateFits(s)
  BY <1>1, Placed, HeaderFits DEF HeaderLast
<1>3. Like([q EXCEPT !.state = s], s) /\ Step([q EXCEPT !.state = s])
  BY <1>1, GotoIs DEF Goto
<1> QED BY <1>1, <1>2, <1>3, GoKeeps

LEMMA DiscardWsKeeps == ASSUME InLoop, DiscardWs PROVE IInv'
<1>1. /\ parser.state = "s_header_value_discard_ws" /\ q.nread <= HTTP_MAX_HEADER_SIZE
      /\ parser.state \in NamedStates /\ parser.state \in PlainStates \ Again
  BY PlainAre DEF DiscardWs, At, NamedStates
<1>2. CASE Step(q)
  <2>1. Like(q, parser.state) /\ StateFits(parser.state)
    BY Here, Placed DEF Like
  <2> QED BY <1>1, <1>2, <2>1, GoKeeps
<1>3. CASE Goto("s_header_value_discard_ws_almost_done") \/ Goto("s_header_value_discard_lws")
  BY <1>1, <1>3, NamedKeeps DEF NamedStates
<1>4. CASE ValueStart
  BY <1>1, <1>4, ValueStartKeeps
<1> QED BY <1>2, <1>3, <1>4 DEF DiscardWs

\* A header has ended: its flags are set.
LEMMA FlaggedIs ==
  ASSUME InLoop, NEW s \in StateNames, NEW f, f = HeaderFlag(q.header_state)
  PROVE  Akin([q EXCEPT !.flags = @ \cup f, !.state = s], s)
<1> DEFINE g == q.flags \cup f
           r == [q EXCEPT !.flags = g, !.state = s]
<1>1. q \in Parsers /\ q.errno = "HPE_OK" /\ g \subseteq FlagNames /\ ("F_TRAILING" \in g <=> "F_TRAILING" \in q.flags)
  BY Here, HeaderFlagIs DEF Parsers
<1> HIDE DEF g
<1>2. /\ r \in Parsers /\ r.state = s /\ r.errno = q.errno /\ r.nread = q.nread /\ r.type = q.type
      /\ r.flags = g
  BY <1>1 DEF Parsers
<1> HIDE DEF r
<1>3. Akin(r, s)
  BY <1>1, <1>2 DEF Akin, Trailing
<1> QED BY <1>3 DEF r, g

LEMMA HeaderValueLwsKeeps == ASSUME InLoop, HeaderValueLws PROVE IInv'
<1> DEFINE s == "s_header_value_start"
           r == [q EXCEPT !.state = s]
           t == "s_header_field_start"
           u == [q EXCEPT !.flags = @ \cup HeaderFlag(q.header_state), !.state = t]
<1>1. /\ parser.state = "s_header_value_lws" /\ q.nread <= HTTP_MAX_HEADER_SIZE
      /\ parser.state \in HeaderStates /\ parser.state \notin MarkHomes \cup BodyHomes
  BY PlainAre DEF HeaderValueLws, At, HeaderStates, ValuedStates, PlainStates
<1>2. Last = "header_value"
  BY <1>1, HeaderSide DEF HeaderLast, NamedStates, ValuedStates
<1>3. ASSUME NEW v, Akin(v, v.state), v.state \in {s, t}, Reexecute(v) PROVE IInv'
  <2>1. v.state \in HeaderStates /\ v.state \in EasyStates /\ v.state \notin MarkHomes
    BY <1>3, PlainAre, EasyAre DEF HeaderStates, ValuedStates, PlainStates
  <2>2. FitsNow(v)
    BY <1>1, <1>2, <1>3, <2>1, HeaderNow, HeaderSide
       DEF HeaderLast, NamedStates, ValuedStates, Akin, Before
  <2>3. FineParser(v, Last, Open)
    BY <1>1, <1>3, <2>1, <2>2, EasyNow DEF Akin
  <2>4. Most(parser.state, p) + 1 <= Most(v.state, p)
    BY <1>1, <1>3, Bounds DEF Most
  <2> QED BY <1>1, <1>3, <2>1, <2>3, <2>4, ReexecuteKeeps DEF Akin
<1>4. CASE Reexecute(r)
  <2>1. Like(r, s)
    BY GotoIs DEF StateNames
  <2> HIDE DEF r
  <2>2. Akin(r, r.state) /\ (r.state = s \/ r.state = t)
    BY <2>1 DEF Akin, Like, Trailing
  <2> QED BY <1>3, <1>4, <2>2, Zenon
<1>5. CASE Reexecute(u)
  <2>1. Akin(u, t)
    <3>1. t \in StateNames
      BY DEF StateNames
    <3> HIDE DEF t
    <3> QED BY <3>1, FlaggedIs, Zenon
  <2> HIDE DEF u
  <2>2. Akin(u, u.state) /\ (u.state = s \/ u.state = t)
    BY <2>1 DEF Akin
  <2> QED BY <1>3, <1>5, <2>2, Zenon
<1> QED BY <1>4, <1>5 DEF HeaderValueLws

LEMMA DiscardLwsKeeps == ASSUME InLoop, DiscardLws PROVE IInv'
<1> DEFINE t == "s_header_field_start"
           u == [q EXCEPT !.flags = @ \cup HeaderFlag(q.header_state), !.state = t]
           m == MARK("header_value")
<1>1. /\ parser.state = "s_header_value_discard_lws" /\ q.nread <= HTTP_MAX_HEADER_SIZE
      /\ parser.state \in HeaderStates /\ parser.state \notin MarkHomes \cup BodyHomes
      /\ parser.state \in NamedStates
  BY PlainAre DEF DiscardLws, At, HeaderStates, NamedStates, PlainStates
<1>2. Last = "header_field" /\ start = None
  BY <1>1, HeaderSide, Here, Unmarked DEF HeaderLast, NamedStates
<1>3. CASE Goto("s_header_value_discard_ws")
  BY <1>1, <1>3, NamedKeeps DEF NamedStates
<1>4. CASE CallData("header_value", m, p, u, p, u, p)
  <2>1. Akin(u, t)
    <3>1. t \in StateNames
      BY DEF StateNames
    <3> HIDE DEF t
    <3> QED BY <3>1, FlaggedIs, Zenon
  <2>2. /\ m \in [DataCallbacks -> Nat \cup {None}] /\ m["header_value"] = p /\ "header_value" \in DataCallbacks
        /\ \A c \in DataCallbacks \ {"header_value"} : m[c] = None
    BY <1>1, MarkIs DEF DataCallbacks
  <2>3. m["header_value"] # None /\ m["header_value"] <= p
    BY <2>2, Bounds
  <2> HIDE DEF u, m
  <2>4. u.state \in HeaderStates /\ u.state \in EasyStates /\ u.state \notin MarkHomes
    BY <2>1, PlainAre, EasyAre DEF HeaderStates, ValuedStates, PlainStates, Akin
  <2>5. FitsAfter(u, "header_value")
    <3>1. OpenAfter("header_value", Open) <=> Open
      BY DEF OpenAfter
    <3> QED BY <1>1, <2>1, <2>4, <3>1, HeaderAfter, HeaderSide
            DEF HeaderLast, NamedStates, ValuedStates, Akin, Before
  <2>6. FineAfter(u, "header_value")
    BY <1>1, <2>1, <2>4, <2>5, EasySound DEF FineAfter, Akin
  <2>7. SizedAt(u, p)
    <3>1. Most(parser.state, p) + 1 <= Most(u.state, p) /\ Most(u.state, p) \in Int
      BY <1>1, <2>1, Bounds DEF Most, Akin
    <3> QED BY SMTT(30), <1>2, <2>1, <3>1, Here, Bounds, MostBounds DEF SizedAt, Sized, Akin
  <2>8. May(Last, Open, "header_value", input.type)
    BY <1>2 DEF May, FollowIn, Callbacks, DataCallbacks
  <2> QED BY <1>4, <2>1, <2>2, <2>3, <2>4, <2>6, <2>7, <2>8, DataKeeps, Bounds DEF Akin
<1> QED BY <1>3, <1>4 DEF DiscardLws

\* A digit fits where LengthOverflows finds room.
LEMMA RoomFor10 ==
  ASSUME ULLONG_MAX \in Nat, ULLONG_MAX >= 26, NEW r, r.content_length \in Nat, ~LengthOverflows(r, 10),
         NEW d \in 0 .. 9
  PROVE  10 * r.content_length + d \in Lengths
BY DEF LengthOverflows, Lengths

LEMMA RoomFor16 ==
  ASSUME ULLONG_MAX \in Nat, ULLONG_MAX >= 26, NEW r, r.content_length \in Nat, ~LengthOverflows(r, 16),
         NEW d \in 0 .. 15
  PROVE  16 * r.content_length + d \in Lengths \ {ULLONG_MAX}
BY DEF LengthOverflows, Lengths

\* A byte of a value.
LEMMA ValueByteIs ==
  ASSUME InLoop, parser.state = "s_header_value"
  PROVE  LET b == ValueByte(q)
         IN  /\ b \in Parsers /\ b.state = "s_header_value" /\ b.nread = q.nread
             /\ b.errno \in {"HPE_OK", "HPE_INVALID_CONTENT_LENGTH"}
             /\ b.errno = "HPE_OK" => Akin(b, "s_header_value") /\ b.header_state \in ValueStates
<1> DEFINE h == q.header_state
           c == LOWER(ch)
           i == q.index + 1
           b == ValueByte(q)
           Fit(x) == /\ x \in Parsers /\ x.state = "s_header_value" /\ x.nread = q.nread
                     /\ x.errno \in {"HPE_OK", "HPE_INVALID_CONTENT_LENGTH"}
                     /\ x.errno = "HPE_OK" => Akin(x, "s_header_value") /\ x.header_state \in ValueStates
<1> SUFFICES Fit(b)
  OBVIOUS
<1>1. /\ q \in Parsers /\ q.state = "s_header_value" /\ q.errno = "HPE_OK" /\ h \in ValueStates /\ i \in Nat
      /\ h \in HeaderStateNames
  BY Here DEF Sound, Parsers
<1>2. Akin(q, "s_header_value") /\ Fit(q)
  BY <1>1 DEF Akin
<1>3. Fit([q EXCEPT !.errno = "HPE_INVALID_CONTENT_LENGTH"])
  <2> DEFINE x == [q EXCEPT !.errno = "HPE_INVALID_CONTENT_LENGTH"]
  <2>1. "HPE_INVALID_CONTENT_LENGTH" \in ErrorNames
    BY DEF ErrorNames
  <2>2. x \in Parsers /\ x.state = q.state /\ x.nread = q.nread /\ x.errno = "HPE_INVALID_CONTENT_LENGTH"
    BY <1>1, <2>1 DEF Parsers
  <2> HIDE DEF x
  <2>3. Fit(x)
    BY <1>1, <2>2
  <2> QED BY <2>3 DEF x
<1>4. ASSUME NEW k \in Lengths PROVE Fit([q EXCEPT !.content_length = k])
  <2> DEFINE x == [q EXCEPT !.content_length = k]
  <2>1. /\ x \in Parsers /\ x.state = q.state /\ x.nread = q.nread /\ x.errno = q.errno /\ x.type = q.type
        /\ x.flags = q.flags /\ x.header_state = h
    BY <1>1 DEF Parsers
  <2> HIDE DEF x
  <2>2. Fit(x)
    BY <1>1, <2>1 DEF Akin, Trailing
  <2> QED BY <2>2 DEF x
<1>5. ASSUME NEW g \in ValueStates
      PROVE  Fit([q EXCEPT !.header_state = g]) /\ Fit([q EXCEPT !.index = i, !.header_state = g])
  <2> DEFINE x == [q EXCEPT !.header_state = g]
             y == [q EXCEPT !.index = i, !.header_state = g]
  <2>0. g \in HeaderStateNames
    BY ValueStatesAre
  <2>1. /\ x \in Parsers /\ x.state = q.state /\ x.nread = q.nread /\ x.errno = q.errno /\ x.type = q.type
        /\ x.flags = q.flags /\ x.header_state = g
        /\ y \in Parsers /\ y.state = q.state /\ y.nread = q.nread /\ y.errno = q.errno /\ y.type = q.type
        /\ y.flags = q.flags /\ y.header_state = g
    BY <1>1, <2>0 DEF Parsers
  <2> HIDE DEF x, y
  <2>2. Fit(x) /\ Fit(y)
    BY <1>1, <2>1 DEF Akin, Trailing
  <2> QED BY <2>2 DEF x, y
<1>6. ASSUME NEW f, f = HeaderFlag(h), NEW g \in ValueStates
      PROVE  Fit([q EXCEPT !.flags = q.flags \cup f, !.index = 0, !.header_state = g])
  <2> DEFINE fs == q.flags \cup f
             x == [q EXCEPT !.flags = fs, !.index = 0, !.header_state = g]
  <2>0. g \in HeaderStateNames /\ fs \subseteq FlagNames /\ ("F_TRAILING" \in fs <=> "F_TRAILING" \in q.flags)
    BY <1>1, <1>6, ValueStatesAre, HeaderFlagIs DEF Parsers
  <2> HIDE DEF fs
  <2>1. /\ x \in Parsers /\ x.state = q.state /\ x.nread = q.nread /\ x.errno = q.errno /\ x.type = q.type
        /\ x.flags = fs /\ x.header_state = g
    BY <1>1, <2>0 DEF Parsers
  <2> HIDE DEF x
  <2>2. Fit(x)
    BY <1>1, <2>0, <2>1 DEF Akin, Trailing
  <2> QED BY <2>2 DEF x, fs
<1> DEFINE bad == [q EXCEPT !.errno = "HPE_INVALID_CONTENT_LENGTH"]
           k == 10 * q.content_length + DigitVal(ch)
           longer == [q EXCEPT !.content_length = k]
           g == Match(h, i, c)
           matched == [q EXCEPT !.index = i, !.header_state = g]
           o == IF IsToken(c) THEN "h_matching_connection_token" ELSE "h_general"
           d == ConnectionToken(c, o)
           token == [q EXCEPT !.header_state = d]
           f == HeaderFlag(h)
           ended == [q EXCEPT !.flags = q.flags \cup f, !.index = 0,
                              !.header_state = "h_matching_connection_token_start"]
           other == [q EXCEPT !.header_state = "h_matching_connection_token"]
           general == [q EXCEPT !.header_state = "h_general"]
           Tokens == {"h_matching_connection_token", "h_connection_keep_alive", "h_connection_close",
                      "h_connection_upgrade"}
<1>7. b = CASE h = "h_content_length" /\ ch = "SP" -> q
            [] h = "h_content_length" /\ ch # "SP" -> IF ~IS_NUM(ch) \/ LengthOverflows(q, 10) THEN bad ELSE longer
            [] h \in DOMAIN Matcher -> matched
            [] h = "h_matching_connection_token_start" -> token
            [] h \in Tokens -> IF ch = Comma THEN ended ELSE IF ch = "SP" THEN q ELSE other
            [] h = "h_transfer_encoding_chunked" /\ ch = "SP" -> q
            [] OTHER -> general
  BY DEF ValueByte
<1>8. {"h_general", "h_matching_connection_token", "h_matching_connection_token_start"} \subseteq ValueStates
  BY DEF ValueStates
<1> HIDE DEF Fit, b, h, i, c
<1>9. Fit(bad) /\ Fit(other) /\ Fit(general)
  BY <1>3, <1>5, <1>8
<1>10. Fit(ended)
  <2> HIDE DEF f
  <2> QED BY <1>6, <1>8 DEF f
<1>11. h \in DOMAIN Matcher => Fit(matched)
  <2>1. h \in DOMAIN Matcher => g \in ValueStates
    BY <1>1, MatchIs
  <2> HIDE DEF g
  <2> QED BY <1>5, <2>1
<1>12. Fit(token)
  <2>1. d \in ValueStates
    BY <1>8, ConnectionTokenIs
  <2> HIDE DEF d
  <2> QED BY <1>5, <2>1
<1>13. IS_NUM(ch) /\ ~LengthOverflows(q, 10) => Fit(longer)
  <2> SUFFICES ASSUME IS_NUM(ch), ~LengthOverflows(q, 10) PROVE Fit(longer)
    OBVIOUS
  <2>1. DigitVal(ch) \in 0 .. 9 /\ q.content_length \in Nat
    BY <1>1, DigitIs, Bounds DEF Parsers, Lengths
  <2>2. k \in Lengths
    BY <2>1, RoomFor10, Bounds
  <2> HIDE DEF k
  <2> QED BY <1>4, <2>2
<1> HIDE DEF bad, longer, matched, token, ended, other, general
<1>14. \/ b \in {q, bad, token, ended, other, general}
       \/ b = longer /\ IS_NUM(ch) /\ ~LengthOverflows(q, 10)
       \/ b = matched /\ h \in DOMAIN Matcher
  BY <1>7
<1> QED BY <1>2, <1>9, <1>10, <1>11, <1>12, <1>13, <1>14

LEMMA LineEndIs ==
  ASSUME InLoop, ch \notin LineEnd
  PROVE  LineEndFrom(p) \in p + 1 .. lim
<1> DEFINE ends == {k \in p .. lim - 1 : k < p + HTTP_MAX_HEADER_SIZE /\ input.bytes[k + 1] \in LineEnd}
<1>1. p \in Nat /\ lim \in Nat /\ p < lim /\ ends \subseteq Nat /\ p \notin ends
  BY Bounds DEF InLoop, ch
<1>2. LineEndFrom(p) = IF ends = {} THEN lim ELSE CHOOSE k \in ends : \A j \in ends : k <= j
  BY DEF LineEndFrom
<1>3. \A k \in ends : k \in p + 1 .. lim
  BY <1>1
<1> HIDE DEF ends
<1>4. CASE ends = {}
  BY <1>1, <1>2, <1>4
<1>5. CASE ends # {}
  <2>1. PICK m \in ends : \A y \in ends : ~(<<y, m>> \in OpToRel(<, Nat))
    BY <1>1, <1>5, NatLessThanWellFounded, WFMin
  <2>2. \A y \in ends : y \in Nat /\ m \in Nat /\ ~(y < m)
    BY <1>1, <2>1, Zenon DEF OpToRel
  <2>3. \A y \in ends : m <= y
    BY <2>2
  <2>4. LineEndFrom(p) \in ends
    BY <1>2, <1>5, <2>3
  <2> QED BY <1>3, <2>4
<1> QED BY <1>4, <1>5

LEMMA HeaderValueKeeps == ASSUME InLoop, HeaderValue PROVE IInv'
<1> DEFINE s == "s_header_almost_done"
           r == [q EXCEPT !.state = s]
           n == Taken - 1
           counted == Count(r, Taken)
           twice == Count(counted, n)
           byte == ValueByte(q)
<1>1. /\ parser.state = "s_header_value" /\ q.nread <= HTTP_MAX_HEADER_SIZE /\ parser.state \in InnerStates
      /\ parser.state \in HeaderStates /\ parser.state \in Home("header_value")
  BY HomeIs DEF HeaderValue, At, InnerStates, HeaderStates
<1>2. /\ Last \in {"header_field", "header_value"} /\ (Open <=> Trailing(q))
      /\ attrs = << >> => ~Trailing(q)
      /\ input.type = "HTTP_REQUEST" => q.type = "HTTP_REQUEST"
  BY <1>1, HeaderSide DEF HeaderLast, NamedStates, ValuedStates
<1>3. Like(r, s)
  BY GotoIs DEF StateNames
<1> HIDE DEF r
<1>4. /\ counted \in Parsers /\ counted.nread = q.nread + Taken /\ counted.errno \in {"HPE_OK", "HPE_HEADER_OVERFLOW"}
      /\ counted.errno = "HPE_OK" => counted.nread <= HTTP_MAX_HEADER_SIZE
      /\ counted.flags = q.flags /\ counted.type = q.type /\ counted.state = s
      /\ faults = 0 /\ attrs = << >> => p + 1 <= counted.nread /\ counted.nread <= 2 * p
      /\ counted.errno # "HPE_OK" => Broken(counted, p)
  BY <1>1, <1>3, CountedIs DEF Like
<1> HIDE DEF counted
<1>5. May(Last, Open, "header_value", input.type)
  BY <1>2 DEF May, FollowIn, Callbacks, DataCallbacks
<1>6. ASSUME NEW v \in Parsers, v.state = s, v.nread <= HTTP_MAX_HEADER_SIZE, v.flags = q.flags, v.type = q.type
      PROVE  FineAfter(v, "header_value") /\ v.state \notin MarkHomes
  <2>1. v.state \in HeaderStates /\ v.state \in ValuedStates /\ v.state \in EasyStates /\ v.state \notin MarkHomes
        /\ v.state \notin NamedStates
    BY <1>6, PlainAre, EasyAre DEF HeaderStates, ValuedStates, PlainStates, NamedStates
  <2>2. (OpenAfter("header_value", Open) <=> Open) /\ (Trailing(v) <=> Trailing(q))
    BY <1>6 DEF OpenAfter, Trailing
  <2>3. FitsAfter(v, "header_value")
    BY <1>2, <1>6, <2>1, <2>2, HeaderAfter DEF HeaderLast
  <2> QED BY <1>6, <2>1, <2>3, EasySound DEF FineAfter
<1>7. /\ mark \in [DataCallbacks -> Nat \cup {None}] /\ mark["header_value"] # None
      /\ mark["header_value"] <= p /\ "header_value" \in DataCallbacks
      /\ \A c \in DataCallbacks \ {"header_value"} : mark[c] = None
  <2>1. "header_value" \in {"header_field", "header_value"}
    OBVIOUS
  <2> QED BY <1>1, <2>1, InnerMark
<1>8. CASE CallData("header_value", mark, p, counted, p + 1, r, p + 1)
  <2>1. counted.errno = "HPE_OK" => FineAfter(counted, "header_value") /\ counted.state \notin MarkHomes
    BY <1>4, <1>6
  <2>2. FineAfter(r, "header_value")
    BY <1>1, <1>3, <1>6 DEF Like
  <2>3. SizedAt(counted, p + 1)
    <3>1. /\ p \in Nat /\ counted.nread \in Nat /\ Most(counted.state, p + 1) \in Int
          /\ Most(counted.state, p + 1) >= 2 * p + 1
      BY SMTT(30), <1>4, Bounds, MostBounds DEF Parsers
    <3> QED BY <1>4, <3>1 DEF SizedAt, Sized
  <2> QED BY <1>4, <1>5, <1>7, <1>8, <2>1, <2>2, <2>3, DataKeeps, Bounds
<1>9. CASE counted.errno # "HPE_OK" /\ Return(counted, p) /\ Quiet
  BY <1>4, <1>9, Fails DEF InLoop
<1>10. CASE counted.errno = "HPE_OK" /\ CallData("header_value", mark, p, twice, p, counted, p)
  <2>1. /\ n \in Int /\ counted.nread + n \in Nat /\ p \in Nat
        /\ faults = 0 /\ attrs = << >> => p <= counted.nread + n /\ counted.nread + n <= 2 * p - 1
    <3>1. q.nread \in Nat /\ p \in Nat
      BY Here, Bounds
    <3>2. /\ Taken \in Nat /\ counted.nread = q.nread + Taken
          /\ start # None => start \in Nat /\ start < p
          /\ Taken = IF start = None THEN 0 ELSE p - start
          /\ start = None => q.nread >= 1
          /\ faults = 0 /\ attrs = << >> =>
               IF start = None THEN p + 1 <= q.nread /\ q.nread <= 2 * p
               ELSE start + 1 <= q.nread /\ q.nread <= 2 * start
      BY <1>1, <1>4, TakenIs
    <3> DEFINE t == Taken
    <3>3. n = t - 1 /\ t \in Nat /\ n \in Int
      BY <3>2
    <3> HIDE DEF n, t
    <3>4. CASE start = None
      BY ONLY <3>1, <3>2, <3>3, <3>4 DEF t
    <3>5. CASE start # None
      BY ONLY SMTT(30), <3>1, <3>2, <3>3, <3>5 DEF t
    <3> QED BY <3>4, <3>5
  <2> HIDE DEF n
  <2>2. /\ twice \in Parsers /\ twice.nread = counted.nread + n
        /\ twice.errno = IF counted.nread + n > HTTP_MAX_HEADER_SIZE THEN "HPE_HEADER_OVERFLOW" ELSE "HPE_OK"
        /\ twice.state = s /\ twice.flags = q.flags /\ twice.type = q.type
    BY <1>4, <1>10, <2>1, CountIs
  <2> HIDE DEF twice
  <2>3. twice.errno = "HPE_OK" => FineAfter(twice, "header_value") /\ twice.state \notin MarkHomes
    BY <1>6, <2>1, <2>2, Bounds
  <2>4. FineAfter(counted, "header_value")
    BY <1>4, <1>6, <1>10
  <2>5. SizedAt(twice, p)
    BY <2>1, <2>2 DEF SizedAt, Sized, Most
  <2>6. twice.errno # "HPE_OK" => Broken(twice, p)
    BY <2>1, <2>2, Bounds DEF Broken
  <2> QED BY <1>5, <1>7, <1>10, <2>3, <2>4, <2>5, <2>6, DataKeeps, Bounds
<1>11. CASE /\ ch \notin LineEnd
            /\ IF byte.errno # "HPE_OK" THEN Return(byte, p) /\ Quiet
               ELSE InnerStep(byte, IF q.header_state = "h_general" THEN LineEndFrom(p) ELSE p + 1)
  <2> DEFINE to == IF q.header_state = "h_general" THEN LineEndFrom(p) ELSE p + 1
  <2>1. /\ byte \in Parsers /\ byte.state = "s_header_value" /\ byte.nread = q.nread
        /\ byte.errno \in {"HPE_OK", "HPE_INVALID_CONTENT_LENGTH"}
        /\ byte.errno = "HPE_OK" => Akin(byte, "s_header_value") /\ byte.header_state \in ValueStates
    BY <1>1, ValueByteIs
  <2>2. to \in p + 1 .. lim
    BY <1>11, LineEndIs, Bounds DEF InLoop
  <2> HIDE DEF byte, to
  <2>3. CASE byte.errno # "HPE_OK" /\ Return(byte, p) /\ Quiet
    <3>1. p \in Nat /\ p \in p .. lim /\ q.nread \in Nat
      BY Bounds, Here
    <3>2. faults = 0 /\ attrs = << >> => q.nread <= 2 * p + 2
      <4>1. CASE start = None
        BY <1>1, <3>1, <4>1, TakenIs
      <4>2. CASE start # None
        BY <1>1, <3>1, <4>2, TakenIs
      <4> QED BY <4>1, <4>2
    <3>3. Broken(byte, p)
      BY <1>1, <2>1, <2>3, <3>1, <3>2 DEF Broken
    <3> QED BY <2>3, <3>3, Fails DEF InLoop
  <2>4. CASE byte.errno = "HPE_OK" /\ InnerStep(byte, to)
    <3>1. FineParser(byte, Last, Open)
      BY <1>1, <2>1, <2>4, ValueFine
    <3> QED BY <1>1, <2>1, <2>2, <2>4, <3>1, InnerStepKeeps
  <2> QED BY <1>11, <2>3, <2>4 DEF byte, to
<1> QED BY <1>8, <1>9, <1>10, <1>11 DEF HeaderValue, counted, r

-----------------------------------------------------------------------------
(***************************************************************************)
(* The end of the headers and the body.  From here on attrs is not empty   *)
(* and the size is not looked at.                                          *)
(***************************************************************************)
LEMMA Completes ==
  ASSUME IInv, pc = "loop", NEW r, NEW cs, Continue(r, p, mark, None), calls' = cs, Good(cs),
         faults' \in faults .. input.faults, attrs' \in Seq(AttrRecords), attrs' # << >>,
         r \in Parsers, r.nread <= HTTP_MAX_HEADER_SIZE, r.errno = "HPE_OK", Sound(r),
         Fits(r, LastOf(cs), OpenIn(cs), attrs' = << >>, input.type),
         MarksFit(mark, None, r.state, p, lim)
  PROVE  IInv'
<1>0. Types
  BY DEF IInv
<1>1. /\ parser' = r /\ p' = p /\ mark' = mark /\ start' = None /\ input' = input /\ pc' = pc /\ lim' = lim
      /\ cuts' = cuts
  BY DEF Continue
<1>2. Types'
  BY <1>0, <1>1, InputIs DEF Types, Good
<1>3. State'
  BY <1>1 DEF State
<1>4. Marks'
  BY <1>1 DEF Marks
<1>5. Ordered(calls, input.type)'
  BY <1>1 DEF Good
<1>6. Size'
  BY DEF Size
<1> QED BY <1>2, <1>3, <1>4, <1>5, <1>6 DEF IInv

\* execute returns without an error.
LEMMA Returns ==
  ASSUME IInv, pc = "loop", NEW r, NEW n \in p .. lim, NEW cs, Return(r, n), UNCHANGED <<faults, attrs>>,
         calls' = cs, Good(cs), FineParser(r, LastOf(cs), OpenIn(cs)), SizedAt(r, n)
  PROVE  IInv'
<1>0. Types /\ n \in Nat
  BY InputIs DEF IInv
<1>1. /\ parser' = r /\ p' = n /\ mark' = NoMarks /\ start' = None /\ input' = input /\ pc' = "idle"
      /\ lim' = n /\ cuts' = cuts /\ faults' = faults /\ attrs' = attrs
  BY DEF Return
<1>2. Types'
  BY <1>0, <1>1, InputIs DEF Types, Good, FineParser
<1>3. State' /\ Marks'
  BY <1>1 DEF State, Marks, FineParser
<1>4. Ordered(calls, input.type)'
  BY <1>1 DEF Good
<1>5. Size'
  <2> SUFFICES ASSUME faults = 0, attrs = << >>
               PROVE  /\ Sized(r, n, None)
                      /\ r.nread <= 2 * n + 2
                      /\ n <= r.nread
    BY <1>1 DEF Size
  <2>1. Sized(r, n, None) /\ r.nread \in Nat
    BY DEF FineParser, Parsers, SizedAt
  <2> QED BY <2>1, <1>0, MostBounds DEF Sized
<1> QED BY <1>2, <1>3, <1>4, <1>5 DEF IInv

LEMMA NewMessageIs ==
  ASSUME NEW r
  PROVE  /\ NEW_MESSAGE(r) \in {"s_dead", "s_start_req", "s_start_res"}
         /\ r.type = "HTTP_REQUEST" => NEW_MESSAGE(r) # "s_start_res"
         /\ NEW_MESSAGE(r) \in StateNames /\ NEW_MESSAGE(r) \in EasyStates /\ NEW_MESSAGE(r) \notin MarkHomes
<1>1. /\ NEW_MESSAGE(r) \in {"s_dead", "s_start_req", "s_start_res"}
      /\ r.type = "HTTP_REQUEST" => NEW_MESSAGE(r) # "s_start_res"
  BY DEF NEW_MESSAGE
<1> QED BY <1>1, PlainAre, EasyAre DEF StartStates, PlainStates

\* The states in which a message may be complete.
Finishing == /\ attrs # << >> /\ Open /\ Last \in {"headers_complete", "body", "header_value"}
             /\ input.type = "HTTP_REQUEST" => q.type = "HTTP_REQUEST"

LEMMA FinishedFits ==
  ASSUME Finishing, NEW r, r.type = q.type, NEW u, u.type = r.type, r.state = NEW_MESSAGE(u)
  PROVE  FitsAfter(r, "message_complete")
<1>1. ~OpenAfter("message_complete", Open) /\ attrs # << >>
  BY DEF OpenAfter, Finishing
<1>2. /\ r.state \in {"s_dead", "s_start_req", "s_start_res"}
      /\ input.type = "HTTP_REQUEST" => r.type = "HTTP_REQUEST" /\ r.state # "s_start_res"
  BY NewMessageIs DEF Finishing
<1>3. CASE r.state = "s_dead"
  BY <1>1, <1>2, <1>3, DeadAfter
<1>4. CASE r.state # "s_dead"
  <2>1. r.state \in StartStates
    BY <1>2, <1>4 DEF StartStates
  <2> QED BY <1>1, <1>2, <1>4, <2>1, StartAfter DEF TypeFits
<1> QED BY <1>3, <1>4

LEMMA MayFinish == ASSUME Finishing PROVE May(Last, Open, "message_complete", input.type)
BY DEF Finishing, May, FollowIn, Callbacks, DataCallbacks

LEMMA FinishKeeps ==
  ASSUME InLoop, Finishing, parser.state \notin MarkHomes \cup BodyHomes,
         NEW r \in Parsers, r.nread <= HTTP_MAX_HEADER_SIZE, r.errno = "HPE_OK", r.type = q.type,
         NEW u, u.type = r.type, r.state = NEW_MESSAGE(u), Notify("message_complete", r)
  PROVE  IInv'
<1>1. FitsAfter(r, "message_complete")
  BY FinishedFits
<1>2. r.state \in EasyStates /\ r.state \notin MarkHomes
  BY NewMessageIs
<1>3. FineAfter(r, "message_complete")
  BY <1>1, <1>2, EasySound DEF FineAfter
<1>4. SizedAt(r, p + 1)
  BY DEF SizedAt, Finishing
<1> QED BY <1>2, <1>3, <1>4, MayFinish, NotifyKeeps

LEMMA HeadersAlmostDoneKeeps == ASSUME InLoop, HeadersAlmostDone PROVE IInv'
<1> DEFINE s == "s_headers_done"
           up == Upgrade(q)
           r == [q EXCEPT !.state = s, !.upgrade = up]
           new == [q EXCEPT !.state = NEW_MESSAGE(q)]
           fs == q.flags \cup Flag("F_SKIPBODY")
           skip == [r EXCEPT !.flags = r.flags \cup Flag("F_SKIPBODY")]
           cs == Recorded("headers_complete", << >>)
<1>1. /\ parser.state = "s_headers_almost_done" /\ q.nread <= HTTP_MAX_HEADER_SIZE
      /\ parser.state \in HeaderStates /\ parser.state \notin MarkHomes \cup BodyHomes
  BY PlainAre DEF HeadersAlmostDone, At, HeaderStates, PlainStates
<1>2. /\ Last \in Before(Trailing(q)) /\ (Open <=> Trailing(q)) /\ (attrs = << >> => ~Trailing(q))
      /\ input.type = "HTTP_REQUEST" => q.type = "HTTP_REQUEST"
  BY <1>1, HeaderSide DEF HeaderLast, NamedStates, ValuedStates
<1>3. q \in Parsers /\ q.errno = "HPE_OK"
  BY Here
<1>4. CASE Fail("HPE_STRICT")
  BY <1>1, <1>4, FailedKeeps DEF ErrorNames
<1>5. CASE "F_TRAILING" \in q.flags /\ Notify("message_complete", new)
  <2>1. NEW_MESSAGE(q) \in StateNames
    BY NewMessageIs
  <2>2. Like(new, NEW_MESSAGE(q))
    BY <2>1, GotoIs
  <2>3. Finishing
    BY <1>2, <1>5 DEF Finishing, Before, Trailing
  <2> HIDE DEF new
  <2> QED BY <1>1, <1>5, <2>2, <2>3, FinishKeeps DEF Like
<1>6. CASE /\ "F_TRAILING" \notin q.flags /\ calls' = cs
           /\ \E one \in BOOLEAN : attrs' = Append(attrs, [seen |-> Attrs(r), noBody |-> one])
           /\ \/ Continue(r, p, mark, None) /\ UNCHANGED faults
              \/ /\ faults < input.faults /\ faults' = faults + 1
                 /\ \/ Continue(skip, p, mark, None)
                    \/ \E e \in {"HPE_CB", "HPE_PAUSED"} : Return([r EXCEPT !.errno = e], p)
  <2>1. May(Last, Open, "headers_complete", input.type) /\ << >> \in Seq(STRING)
    BY <1>2, <1>6 DEF May, FollowIn, Callbacks, Before, Trailing
  <2>2. Good(cs) /\ LastOf(cs) = "headers_complete" /\ OpenIn(cs)
    <3>1. Types /\ Ordered(calls, input.type)
      BY DEF InLoop, IInv
    <3> QED BY <2>1, <3>1, RecordedKeeps DEF Good, Last, Open, OpenAfter
  <2> HIDE DEF cs
  <2>3. up \in BOOLEAN /\ s \in StateNames
    BY DEF Upgrade, StateNames
  <2>4. /\ r \in Parsers /\ r.state = s /\ r.nread = q.nread /\ r.errno = q.errno /\ r.type = q.type
        /\ r.flags = q.flags
    <3> HIDE DEF up, s
    <3> QED BY <1>3, <2>3 DEF Parsers
  <2> HIDE DEF r
  <2>5. attrs' \in Seq(AttrRecords) /\ attrs' # << >> /\ ~(attrs' = << >>)
    <3>1. Attrs(r) \in {Attrs(x) : x \in Parsers} /\ attrs \in Seq(AttrRecords)
      BY <2>4 DEF InLoop, IInv, Types
    <3> DEFINE a(one) == [seen |-> Attrs(r), noBody |-> one]
    <3>2. ASSUME NEW one \in BOOLEAN PROVE a(one) \in AttrRecords
      BY <3>1 DEF AttrRecords
    <3>3. PICK one \in BOOLEAN : attrs' = Append(attrs, a(one))
      BY <1>6
    <3> HIDE DEF a
    <3> QED BY <3>1, <3>2, <3>3
  <2>6. ASSUME NEW v, v.state = s, v.type = q.type
        PROVE  Sound(v) /\ Fits(v, LastOf(cs), OpenIn(cs), attrs' = << >>, input.type)
    <3>1. Sound(v)
      BY <2>6, EasySound, EasyAre, PlainAre
    <3>2. input.type = "HTTP_REQUEST" => v.type = "HTTP_REQUEST"
      BY <1>2, <2>6
    <3>3. v.state = "s_headers_done"
      BY <2>6
    <3> QED BY <2>2, <2>5, <3>1, <3>2, <3>3
            DEF Fits, Table, LastFits, OpenFits, FirstFits, TypeFits, StartStates, BeginStates, StatusStates,
                HttpStates, UrlStates, UrlServer, UrlQuery, UrlFragment, LineStates, NamedStates, ValuedStates,
                HeaderStates, SizeStates, ChunkStates, BodyParts
  <2>7. MarksFit(mark, None, s, p, lim)
    <3>1. s \notin MarkHomes
      BY PlainAre DEF PlainStates
    <3> QED BY <1>1, <3>1, Here, Unmarked, ClearFits
  <2>8. faults \in Nat /\ input.faults \in Nat /\ faults \in faults .. input.faults /\ p \in p .. lim
    BY Bounds, InputIs DEF Types
  <2>9. CASE Continue(r, p, mark, None) /\ UNCHANGED faults
    <3>1. Sound(r) /\ Fits(r, LastOf(cs), OpenIn(cs), attrs' = << >>, input.type)
      BY <2>4, <2>6
    <3>2. faults' \in faults .. input.faults
      BY <2>8, <2>9
    <3>3. MarksFit(mark, None, r.state, p, lim)
      BY <2>4, <2>7
    <3> QED BY <1>1, <1>3, <1>6, <2>2, <2>4, <2>5, <2>9, <3>1, <3>2, <3>3, Completes DEF InLoop
  <2>10. CASE faults < input.faults /\ faults' = faults + 1 /\ Continue(skip, p, mark, None)
    <3>1. Flag("F_SKIPBODY") \subseteq FlagNames
      BY FlagsAre, FlagIs
    <3>2. /\ skip \in Parsers /\ skip.state = s /\ skip.nread = q.nread /\ skip.errno = q.errno /\ skip.type = q.type
      <4> DEFINE g == r.flags \cup Flag("F_SKIPBODY")
      <4>1. g \subseteq FlagNames
        BY <2>4, <3>1 DEF Parsers
      <4> HIDE DEF g
      <4>2. LET x == [r EXCEPT !.flags = g]
            IN  x \in Parsers /\ x.state = r.state /\ x.nread = r.nread /\ x.errno = r.errno /\ x.type = r.type
        BY <2>4, <4>1 DEF Parsers
      <4> QED BY <2>4, <4>2 DEF g
    <3> HIDE DEF skip
    <3>3. Sound(skip) /\ Fits(skip, LastOf(cs), OpenIn(cs), attrs' = << >>, input.type)
      BY <2>6, <3>2
    <3>4. faults' \in faults .. input.faults
      BY <2>8, <2>10
    <3>5. MarksFit(mark, None, skip.state, p, lim)
      BY <2>7, <3>2
    <3> QED BY <1>1, <1>3, <1>6, <2>2, <2>5, <2>10, <3>2, <3>3, <3>4, <3>5, Completes DEF InLoop
  <2>11. CASE /\ faults < input.faults /\ faults' = faults + 1
              /\ \E e \in {"HPE_CB", "HPE_PAUSED"} : Return([r EXCEPT !.errno = e], p)
    <3>1. Sound(r) /\ Fits(r, LastOf(cs), OpenIn(cs), attrs' = << >>, input.type)
      BY <2>4, <2>6
    <3> QED BY <1>1, <1>6, <2>2, <2>4, <2>5, <2>8, <2>11, <3>1, Pauses DEF InLoop
  <2> QED BY <1>6, <2>9, <2>10, <2>11
<1> QED BY <1>4, <1>5, <1>6 DEF HeadersAlmostDone, Answered

LEMMA BodySide ==
  ASSUME InLoop, parser.state \in BodyParts \cup {"s_headers_done", "s_message_done"}
  PROVE  /\ Last \in {"headers_complete", "body"} /\ Open /\ attrs # << >>
         /\ input.type = "HTTP_REQUEST" => q.type = "HTTP_REQUEST"
         /\ Last \in BodyLast(parser.state) /\ Finishing
<1>1. /\ Last \in BodyLast(parser.state) /\ Open /\ attrs # << >>
      /\ input.type = "HTTP_REQUEST" => q.type = "HTTP_REQUEST"
  BY Placed, BodyFits
<1> QED BY <1>1 DEF BodyLast, Finishing

LEMMA BodyApart ==
  /\ (BodyParts \cup {"s_headers_done", "s_message_done"}) \cap MarkHomes = {}
  /\ BodyParts \cup {"s_headers_done", "s_message_done"} \subseteq StateNames
BY DEF BodyParts, ChunkStates, SizeStates, MarkHomes, UrlStates, UrlServer, UrlQuery, UrlFragment, StateNames

\* Within the body.
LEMMA BodyFine ==
  ASSUME InLoop, parser.state \in BodyParts \cup {"s_headers_done"},
         NEW r \in Parsers, r.nread <= HTTP_MAX_HEADER_SIZE, r.type = q.type, r.state \in BodyParts, Sound(r)
  PROVE  FineParser(r, Last, Open)
<1>1. FitsNow(r)
  BY BodySide, BodyNow DEF BodyLast, BodyParts, ChunkStates, SizeStates
<1> QED BY <1>1 DEF FineParser, FitsNow

LEMMA BodyStepKeeps ==
  ASSUME InLoop, attrs # << >>, NEW r, Step(r), FineParser(r, Last, Open), r.errno = "HPE_OK",
         parser.state \notin MarkHomes \cup BodyHomes, r.state \notin MarkHomes
  PROVE  IInv'
<1>1. Continue(r, p + 1, mark, None) /\ Quiet
  BY DEF Step
<1>2. MarksFit(mark, None, r.state, p + 1, lim)
  BY Here, Unmarked, ClearFits
<1>3. Fine(r, p + 1, mark, None, Last, Open)
  BY <1>2, Bounds DEF Fine
<1> QED BY <1>1, <1>3, Moves DEF InLoop

LEMMA HeadersDoneKeeps == ASSUME InLoop, HeadersDone PROVE IInv'
<1> DEFINE r == [q EXCEPT !.nread = 0]
           t == NEW_MESSAGE(r)
           new == [r EXCEPT !.state = t]
           s == BodyState(r)
           body == [r EXCEPT !.state = s]
           cs == Recorded("message_complete", << >>)
<1>1. /\ parser.state = "s_headers_done" /\ q.nread <= HTTP_MAX_HEADER_SIZE
      /\ parser.state \notin MarkHomes \cup BodyHomes
  BY PlainAre DEF HeadersDone, At, PlainStates
<1>2. Finishing /\ attrs # << >>
  BY <1>1, BodySide
<1>3. /\ r \in Parsers /\ r.nread = 0 /\ r.errno = "HPE_OK" /\ r.type = q.type /\ r.flags = q.flags
      /\ r.content_length = q.content_length /\ 0 <= HTTP_MAX_HEADER_SIZE
  <2>1. q \in Parsers /\ q.errno = "HPE_OK" /\ HTTP_MAX_HEADER_SIZE \in Nat
    BY Here, Bounds
  <2> QED BY <2>1 DEF Parsers
<1> HIDE DEF r
<1>4. t \in StateNames /\ t \in EasyStates
  BY NewMessageIs
<1>5. new \in Parsers /\ new.nread = 0 /\ new.errno = "HPE_OK" /\ new.type = q.type /\ new.state = t
  <2> HIDE DEF t
  <2> QED BY <1>3, <1>4 DEF Parsers
<1> HIDE DEF new
<1>6. CASE Fail("HPE_STRICT")
  BY <1>1, <1>6, FailedKeeps DEF ErrorNames
<1>7. CASE Notify("message_complete", new)
  BY <1>1, <1>2, <1>3, <1>5, <1>7, FinishKeeps
<1>8. CASE s # "none" /\ Step(body)
  <2>1. \/ s = "s_chunk_size_start" /\ "F_CHUNKED" \in r.flags
        \/ s = "s_body_identity" /\ r.content_length \notin {0, ULLONG_MAX}
        \/ s = "s_body_identity_eof"
    BY <1>8 DEF BodyState
  <2>2. s \in BodyParts /\ s \in StateNames /\ s \notin MarkHomes
    BY <2>1, BodyApart DEF BodyParts, ChunkStates
  <2> HIDE DEF s
  <2>3. /\ body \in Parsers /\ body.nread = 0 /\ body.errno = "HPE_OK" /\ body.type = q.type /\ body.state = s
        /\ body.flags = r.flags /\ body.content_length = r.content_length
    BY <1>3, <2>2 DEF Parsers
  <2> HIDE DEF body
  <2>4. Sound(body)
    BY <2>1, <2>3 DEF Sound, ChunkStates, SizeStates
  <2>5. FineParser(body, Last, Open)
    BY <1>1, <1>3, <2>2, <2>3, <2>4, BodyFine
  <2> QED BY <1>1, <1>2, <1>8, <2>2, <2>3, <2>5, BodyStepKeeps
<1>9. CASE /\ calls' = cs /\ UNCHANGED attrs
           /\ \/ Return(new, p + 1) /\ UNCHANGED faults
              \/ /\ faults < input.faults /\ faults' = faults + 1
                 /\ \E e \in {"HPE_CB", "HPE_PAUSED"} : Return([new EXCEPT !.errno = e], p + 1)
  <2>1. FitsAfter(new, "message_complete")
    BY <1>2, <1>3, <1>5, FinishedFits
  <2>2. /\ Good(cs) /\ LastOf(cs) = "message_complete" /\ (OpenIn(cs) <=> OpenAfter("message_complete", Open))
        /\ attrs \in Seq(AttrRecords)
    <3>1. Types /\ Ordered(calls, input.type) /\ << >> \in Seq(STRING) /\ attrs \in Seq(AttrRecords)
      BY DEF InLoop, IInv, Types
    <3> QED BY <1>2, <3>1, MayFinish, RecordedKeeps DEF Good, Last, Open
  <2>3. OpenIn(cs) = OpenAfter("message_complete", Open)
    BY <2>2 DEF OpenIn, OpenAfter, Open
  <2> HIDE DEF cs
  <2>4. Sound(new) /\ Fits(new, LastOf(cs), OpenIn(cs), attrs = << >>, input.type)
    BY <1>4, <1>5, <2>1, <2>2, <2>3, EasySound DEF FitsAfter
  <2>5. FineParser(new, LastOf(cs), OpenIn(cs)) /\ p + 1 \in p .. lim /\ SizedAt(new, p + 1)
    BY <1>2, <1>3, <1>5, <2>4, Bounds DEF FineParser, SizedAt
  <2>6. CASE Return(new, p + 1) /\ UNCHANGED faults
    BY <1>9, <2>2, <2>5, <2>6, Returns DEF InLoop
  <2>7. CASE /\ faults < input.faults /\ faults' = faults + 1
             /\ \E e \in {"HPE_CB", "HPE_PAUSED"} : Return([new EXCEPT !.errno = e], p + 1)
    BY <1>3, <1>5, <1>9, <2>2, <2>4, <2>5, <2>7, Pauses DEF InLoop
  <2> QED BY <1>9, <2>6, <2>7
<1> QED BY <1>6, <1>7, <1>8, <1>9 DEF HeadersDone, r, new

LEMMA MessageDoneKeeps == ASSUME InLoop, MessageDone PROVE IInv'
<1> DEFINE t == NEW_MESSAGE(q)
           new == [q EXCEPT !.state = t]
<1>1. /\ parser.state = "s_message_done" /\ q.nread <= HTTP_MAX_HEADER_SIZE
      /\ parser.state \notin MarkHomes \cup BodyHomes
  BY PlainAre DEF MessageDone, At, PlainStates
<1>2. Finishing
  BY <1>1, BodySide
<1>3. Like(new, t)
  BY NewMessageIs, GotoIs
<1>4. Notify("message_complete", new)
  BY DEF MessageDone
<1> HIDE DEF new
<1> QED BY <1>1, <1>2, <1>3, <1>4, FinishKeeps DEF Like

LEMMA BodyMark ==
  ASSUME InLoop, parser.state \in BodyHomes
  PROVE  LET m == MARK("body")
         IN  /\ m \in [DataCallbacks -> Nat \cup {None}] /\ m["body"] # None /\ m["body"] <= p
             /\ \A c \in DataCallbacks \ {"body"} : m[c] = None
             /\ "body" \in DataCallbacks
<1>1. /\ MarksFit(mark, start, parser.state, p, lim) /\ "body" \in DataCallbacks /\ parser.state \in Home("body")
      /\ p \in Nat /\ None \notin Nat
  BY Here, HomeIs, Bounds DEF DataCallbacks
<1>2. \A c \in DataCallbacks \ {"body"} : mark[c] = None
  BY <1>1, OneMark
<1>3. mark \in [DataCallbacks -> Nat \cup {None}] /\ (mark["body"] # None => mark["body"] <= p)
  BY <1>1 DEF MarksFit
<1> QED BY <1>1, <1>2, <1>3 DEF MARK

\* Bytes of the body are taken.
LEMMA BodyGoesOn ==
  ASSUME InLoop, parser.state \in BodyHomes, NEW n \in p .. lim, NEW r, Continue(r, n, MARK("body"), None), Quiet,
         r \in Parsers, r.nread <= HTTP_MAX_HEADER_SIZE, r.type = q.type, r.errno = "HPE_OK",
         r.state \in BodyHomes, Sound(r)
  PROVE  IInv'
<1> DEFINE m == MARK("body")
<1>1. parser.state \in BodyParts /\ r.state \in BodyParts /\ r.state \in Home("body") /\ n \in Nat
  BY HomeIs, Bounds DEF BodyHomes, BodyParts, ChunkStates
<1>2. FineParser(r, Last, Open) /\ attrs # << >>
  BY <1>1, BodyFine, BodySide
<1>3. /\ m \in [DataCallbacks -> Nat \cup {None}] /\ m["body"] # None /\ m["body"] <= p
      /\ \A c \in DataCallbacks \ {"body"} : m[c] = None /\ "body" \in DataCallbacks
      /\ "body" \in DataCallbacks
  BY BodyMark
<1>4. Continue(r, n, m, None)
  OBVIOUS
<1> HIDE DEF m
<1>5. m["body"] <= n
  BY <1>3, Bounds
<1>6. MarksFit(m, None, r.state, n, lim)
  BY <1>1, <1>3, <1>5, MarkedFits
<1>7. Fine(r, n, m, None, Last, Open)
  BY <1>2, <1>6 DEF Fine
<1> QED BY <1>4, <1>7, Moves DEF InLoop

LEMMA ReadIs ==
  ASSUME InLoop, parser.state \in {"s_body_identity", "s_chunk_data"}
  PROVE  /\ q = parser /\ ToRead \in 1 .. lim - p /\ ToRead <= q.content_length
         /\ q.content_length \in Nat /\ q.content_length # ULLONG_MAX
         /\ q.content_length - ToRead \in Lengths \ {ULLONG_MAX}
         /\ parser.content_length = q.content_length
         /\ ToRead # q.content_length => q.content_length - ToRead # 0
         /\ ToRead = q.content_length => q.content_length - ToRead = 0
<1>1. q = parser
  BY Here DEF PARSING_HEADER, BodyStates
<1>2. parser.content_length \in Lengths /\ parser.content_length \notin {0, ULLONG_MAX}
  BY Here DEF Sound, Parsers
<1> QED BY <1>1, <1>2, Bounds DEF ToRead, Lengths, InLoop

\* q with content length k, in state s.
LeftTo(r, k, s) ==
  /\ r \in Parsers /\ r.content_length = k /\ r.state = s /\ r.errno = "HPE_OK"
  /\ r.nread = q.nread /\ r.type = q.type /\ r.flags = q.flags

LEMMA RestIs ==
  ASSUME InLoop, NEW k \in Lengths, NEW s \in StateNames
  PROVE  /\ LeftTo([q EXCEPT !.content_length = k], k, parser.state)
         /\ LeftTo([[q EXCEPT !.content_length = k] EXCEPT !.state = s], k, s)
<1> DEFINE r == [q EXCEPT !.content_length = k]
           t == [r EXCEPT !.state = s]
<1>1. q \in Parsers /\ q.errno = "HPE_OK" /\ q.state = parser.state
  BY Here
<1>2. LeftTo(r, k, parser.state)
  BY <1>1 DEF Parsers, LeftTo
<1> HIDE DEF r
<1>3. LeftTo(t, k, s)
  BY <1>2 DEF Parsers, LeftTo
<1> QED BY <1>2, <1>3 DEF r

LEMMA BodyIdentityKeeps == ASSUME InLoop, BodyIdentity PROVE IInv'
<1> DEFINE n == ToRead
           k == q.content_length - n
           s == "s_message_done"
           rest == [q EXCEPT !.content_length = k]
           r == [rest EXCEPT !.state = s]
           m == MARK("body")
<1>1. /\ parser.state = "s_body_identity" /\ q.nread <= HTTP_MAX_HEADER_SIZE /\ parser.state \in BodyHomes
      /\ parser.state \in BodyParts
  BY DEF BodyIdentity, At, BodyHomes, BodyParts
<1>2. /\ q = parser /\ n \in 1 .. lim - p /\ k \in Lengths \ {ULLONG_MAX}
      /\ n # q.content_length => k # 0
      /\ p + n \in p .. lim /\ p + n - 1 \in p .. lim
  BY <1>1, ReadIs, Bounds
<1>3. LeftTo(rest, k, parser.state) /\ LeftTo(r, k, s)
  <2>1. s \in StateNames
    BY DEF StateNames
  <2>2. k \in Lengths
    BY <1>2
  <2> HIDE DEF k, s
  <2>3. LeftTo(rest, k, parser.state) /\ LeftTo(r, k, s)
    BY <2>1, <2>2, RestIs, Zenon
  <2> QED BY <2>3
<1>4. \/ CallData("body", m, p + n, r, p + n - 1, r, p + n - 1)
      \/ n # q.content_length /\ Continue(rest, p + n, m, None) /\ Quiet
  BY <1>2 DEF BodyIdentity, Read
<1> HIDE DEF n, k, rest, r
<1>5. CASE CallData("body", m, p + n, r, p + n - 1, r, p + n - 1)
  <2>1. /\ m \in [DataCallbacks -> Nat \cup {None}] /\ m["body"] # None /\ m["body"] <= p
        /\ \A c \in DataCallbacks \ {"body"} : m[c] = None
        /\ "body" \in DataCallbacks
    BY <1>1, BodyMark
  <2> HIDE DEF m
  <2>2. /\ Last \in {"headers_complete", "body"} /\ Open /\ attrs # << >>
        /\ input.type = "HTTP_REQUEST" => q.type = "HTTP_REQUEST"
    BY <1>1, BodySide
  <2>3. May(Last, Open, "body", input.type) /\ OpenAfter("body", Open)
    BY <2>2 DEF May, FollowIn, Callbacks, DataCallbacks, OpenAfter
  <2>4. FitsAfter(r, "body")
    BY <1>3, <2>2, <2>3, BodyAfter DEF BodyLast, LeftTo
  <2>5. r.state \in EasyStates /\ r.state \notin MarkHomes
    BY <1>3, PlainAre, EasyAre DEF PlainStates, LeftTo
  <2>6. FineAfter(r, "body") /\ SizedAt(r, p + n - 1)
    BY <1>1, <1>3, <2>2, <2>4, <2>5, EasySound DEF FineAfter, SizedAt, LeftTo
  <2> QED BY <1>2, <1>3, <1>5, <2>1, <2>3, <2>5, <2>6, DataKeeps DEF LeftTo
<1>6. CASE n # q.content_length /\ Continue(rest, p + n, m, None) /\ Quiet
  <2>1. Sound(rest) /\ rest.state \in BodyHomes
    BY <1>1, <1>2, <1>3, <1>6 DEF Sound, ChunkStates, SizeStates, LeftTo
  <2> QED BY <1>1, <1>2, <1>3, <1>6, <2>1, BodyGoesOn DEF LeftTo
<1> QED BY <1>4, <1>5, <1>6

LEMMA BodyIdentityEofKeeps == ASSUME InLoop, BodyIdentityEof PROVE IInv'
<1>1. /\ parser.state = "s_body_identity_eof" /\ q.nread <= HTTP_MAX_HEADER_SIZE /\ parser.state \in BodyHomes
      /\ q.state = parser.state /\ q \in Parsers /\ q.errno = "HPE_OK" /\ lim \in p .. lim
  BY Here, Bounds DEF BodyIdentityEof, At, BodyHomes
<1>2. Sound(q)
  BY <1>1 DEF Sound, ChunkStates, SizeStates
<1>3. Continue(q, lim, MARK("body"), None) /\ Quiet
  BY DEF BodyIdentityEof
<1> QED BY <1>1, <1>2, <1>3, BodyGoesOn

LEMMA ChunkDataKeeps == ASSUME InLoop, ChunkData PROVE IInv'
<1> DEFINE n == ToRead
           k == q.content_length - n
           s == IF n = parser.content_length THEN "s_chunk_data_almost_done" ELSE "s_chunk_data"
           rest == [q EXCEPT !.content_length = k]
           r == [rest EXCEPT !.state = s]
<1>1. /\ parser.state = "s_chunk_data" /\ q.nread <= HTTP_MAX_HEADER_SIZE /\ parser.state \in BodyHomes
  BY DEF ChunkData, At, BodyHomes
<1>2. /\ q = parser /\ n \in 1 .. lim - p /\ k \in Lengths \ {ULLONG_MAX}
      /\ n # q.content_length => k # 0
      /\ n = q.content_length => k = 0
      /\ p + n \in p .. lim /\ parser.content_length = q.content_length
  BY <1>1, ReadIs, Bounds
<1>3. LeftTo(rest, k, parser.state) /\ LeftTo(r, k, s)
  <2>1. s \in StateNames
    BY DEF StateNames
  <2>2. k \in Lengths
    BY <1>2
  <2> HIDE DEF k, s
  <2>3. LeftTo(rest, k, parser.state) /\ LeftTo(r, k, s)
    BY <2>1, <2>2, RestIs, Zenon
  <2> QED BY <2>3
<1>4. Continue(r, p + n, MARK("body"), None) /\ Quiet
  <2>1. rest.state = "s_chunk_data"
    <3> HIDE DEF rest, r
    <3> QED BY <1>1, <1>3 DEF LeftTo
  <2>2. [rest EXCEPT !.state = IF n = parser.content_length THEN "s_chunk_data_almost_done" ELSE rest.state] = r
    BY <2>1
  <2> QED BY <2>2 DEF ChunkData, Read
<1>5. "F_CHUNKED" \in q.flags
  BY <1>1, Here DEF Sound, ChunkStates
<1> HIDE DEF n, k, r, rest
<1>6. Sound(r) /\ r.state \in BodyHomes
  BY <1>2, <1>3, <1>5 DEF Sound, ChunkStates, SizeStates, BodyHomes, LeftTo
<1> QED BY <1>1, <1>2, <1>3, <1>4, <1>6, BodyGoesOn DEF LeftTo

LEMMA UnhexIs == ASSUME NEW c PROVE Unhex(c) \in -1 .. 15
<1>1. CASE IS_NUM(c)
  BY <1>1, DigitIs DEF Unhex
<1>2. CASE ~IS_NUM(c) /\ IS_HEX(c)
  <2>1. \E i \in 1 .. 6 : Lowers[i] = LOWER(c)
    <3>1. LOWER(c) \in {"a", "b", "c", "d", "e", "f"}
      BY <1>2 DEF IS_HEX
    <3> HIDE DEF LOWER
    <3> QED BY <3>1 DEF Lowers
  <2> DEFINE d == CHOOSE i \in 1 .. 6 : Lowers[i] = LOWER(c)
  <2>2. d \in 1 .. 6
    BY <2>1
  <2>3. Unhex(c) = 9 + d
    BY <1>2 DEF Unhex
  <2> HIDE DEF d
  <2> QED BY <2>2, <2>3
<1>3. CASE ~IS_NUM(c) /\ ~IS_HEX(c)
  BY <1>3 DEF Unhex
<1> QED BY <1>1, <1>2, <1>3

\* A byte between the parts of a body.
LEMMA ChunkStepKeeps ==
  ASSUME InLoop, parser.state \in BodyParts \ BodyHomes, NEW r \in Parsers, Step(r),
         r.nread <= HTTP_MAX_HEADER_SIZE, r.type = q.type, r.errno = "HPE_OK", r.state \in BodyParts, Sound(r)
  PROVE  IInv'
<1>1. FineParser(r, Last, Open) /\ attrs # << >>
  BY BodyFine, BodySide
<1>2. parser.state \notin MarkHomes \cup BodyHomes /\ r.state \notin MarkHomes
  BY BodyApart
<1> QED BY <1>1, <1>2, BodyStepKeeps

LEMMA ChunkSizeStartKeeps == ASSUME InLoop, ChunkSizeStart PROVE IInv'
<1> DEFINE k == Unhex(ch)
           s == "s_chunk_size"
           r == [q EXCEPT !.content_length = k, !.state = s]
<1>1. /\ parser.state = "s_chunk_size_start" /\ q.nread <= HTTP_MAX_HEADER_SIZE
      /\ parser.state \in BodyParts \ BodyHomes /\ "F_CHUNKED" \in q.flags
  BY Here DEF ChunkSizeStart, At, BodyParts, ChunkStates, BodyHomes, Sound
<1>2. CASE Fail("HPE_INVALID_CHUNK_SIZE")
  BY <1>1, <1>2, FailedKeeps DEF ErrorNames
<1>3. CASE k # -1 /\ Step(r)
  <2>1. k \in Lengths /\ k # ULLONG_MAX
    BY <1>3, UnhexIs, Bounds DEF Lengths
  <2>2. s \in StateNames
    BY DEF StateNames
  <2> HIDE DEF k
  <2>3. LeftTo(r, k, s)
    <3> HIDE DEF s
    <3> QED BY <2>1, <2>2, RestIs
  <2> HIDE DEF r
  <2>4. Sound(r) /\ r.state \in BodyParts
    BY <1>1, <2>1, <2>3 DEF LeftTo, Sound, ChunkStates, SizeStates, BodyParts
  <2> QED BY <1>1, <1>3, <2>3, <2>4, ChunkStepKeeps DEF LeftTo
<1> QED BY <1>2, <1>3 DEF ChunkSizeStart

\* Between the size of a chunk and the end of its line.
LEMMA SizeLineKeeps ==
  ASSUME InLoop, q.nread <= HTTP_MAX_HEADER_SIZE, parser.state \in SizeStates, NEW s \in SizeStates,
         NEW r, LeftTo(r, q.content_length, s), Step(r)
  PROVE  IInv'
<1>1. parser.state \in BodyParts \ BodyHomes /\ "F_CHUNKED" \in q.flags /\ q.content_length # ULLONG_MAX
  BY Here DEF BodyParts, ChunkStates, SizeStates, BodyHomes, Sound
<1>2. Sound(r) /\ r.state \in BodyParts
  BY <1>1 DEF LeftTo, Sound, ChunkStates, SizeStates, BodyParts
<1> QED BY <1>1, <1>2, ChunkStepKeeps DEF LeftTo

LEMMA WentTo ==
  ASSUME InLoop, NEW s \in StateNames
  PROVE  LeftTo([q EXCEPT !.state = s], q.content_length, s)
<1>1. q \in Parsers /\ q.errno = "HPE_OK"
  BY Here
<1> QED BY <1>1 DEF Parsers, LeftTo

LEMMA SizeGotoKeeps ==
  ASSUME InLoop, q.nread <= HTTP_MAX_HEADER_SIZE, parser.state \in SizeStates, NEW s \in SizeStates, Goto(s)
  PROVE  IInv'
<1> DEFINE r == [q EXCEPT !.state = s]
<1>1. s \in StateNames
  BY DEF SizeStates, StateNames
<1>2. LeftTo(r, q.content_length, s) /\ Step(r)
  BY <1>1, WentTo DEF Goto
<1> HIDE DEF r
<1> QED BY <1>2, SizeLineKeeps

LEMMA ChunkSizeKeeps == ASSUME InLoop, ChunkSize PROVE IInv'
<1> DEFINE k == 16 * q.content_length + Unhex(ch)
           r == [q EXCEPT !.content_length = k]
<1>1. /\ parser.state = "s_chunk_size" /\ q.nread <= HTTP_MAX_HEADER_SIZE /\ parser.state \in SizeStates
      /\ parser.state \in BodyParts \ BodyHomes /\ "F_CHUNKED" \in q.flags
      /\ {"s_chunk_size_almost_done", "s_chunk_parameters"} \subseteq SizeStates
  BY Here DEF ChunkSize, At, BodyParts, ChunkStates, SizeStates, BodyHomes, Sound
<1>2. CASE Goto("s_chunk_size_almost_done")
  BY <1>1, <1>2, SizeGotoKeeps
<1>3. CASE Goto("s_chunk_parameters")
  BY <1>1, <1>3, SizeGotoKeeps
<1>4. CASE Fail("HPE_INVALID_CONTENT_LENGTH")
  BY <1>1, <1>4, FailedKeeps DEF ErrorNames
<1>5. CASE Fail("HPE_INVALID_CHUNK_SIZE")
  BY <1>1, <1>5, FailedKeeps DEF ErrorNames
<1>6. CASE Unhex(ch) # -1 /\ ~LengthOverflows(q, 16) /\ Step(r)
  <2>1. k \in Lengths \ {ULLONG_MAX}
    <3>1. q.content_length \in Nat /\ ULLONG_MAX \in Nat /\ ULLONG_MAX >= 26
      BY Here, Bounds DEF Parsers, Lengths
    <3>2. Unhex(ch) \in 0 .. 15
      BY <1>6, UnhexIs
    <3> QED BY <1>6, <3>1, <3>2, RoomFor16
  <2>2. parser.state \in StateNames /\ k \in Lengths
    BY <2>1, Here DEF Parsers
  <2> HIDE DEF k
  <2>3. LeftTo(r, k, parser.state)
    BY <2>2, RestIs
  <2> HIDE DEF r
  <2>4. Sound(r) /\ r.state \in BodyParts
    BY <1>1, <2>1, <2>3 DEF LeftTo, Sound, ChunkStates, SizeStates, BodyParts
  <2> QED BY <1>1, <1>6, <2>3, <2>4, ChunkStepKeeps DEF LeftTo
<1> QED BY <1>2, <1>3, <1>4, <1>5, <1>6 DEF ChunkSize

LEMMA ChunkParametersKeeps == ASSUME InLoop, ChunkParameters PROVE IInv'
<1>1. /\ parser.state = "s_chunk_parameters" /\ q.nread <= HTTP_MAX_HEADER_SIZE /\ parser.state \in SizeStates
      /\ "s_chunk_size_almost_done" \in SizeStates
  BY DEF ChunkParameters, At, SizeStates
<1>2. CASE Goto("s_chunk_size_almost_done")
  BY <1>1, <1>2, SizeGotoKeeps
<1>3. CASE Step(q)
  <2>1. LeftTo(q, q.content_length, parser.state)
    BY Here DEF LeftTo
  <2> QED BY <1>1, <1>3, <2>1, SizeLineKeeps
<1> QED BY <1>2, <1>3 DEF ChunkParameters

\* q with no header bytes counted, in state s.
Cleared(r, s) ==
  /\ r \in Parsers /\ r.state = s /\ r.nread = 0 /\ r.errno = "HPE_OK" /\ r.type = q.type /\ r.flags = q.flags
  /\ r.content_length = q.content_length

LEMMA ClearedIs ==
  ASSUME InLoop, NEW s \in StateNames
  PROVE  /\ Cleared([q EXCEPT !.nread = 0], parser.state)
         /\ Cleared([[q EXCEPT !.nread = 0] EXCEPT !.state = s], s)
<1> DEFINE r == [q EXCEPT !.nread = 0]
<1>1. q \in Parsers /\ q.errno = "HPE_OK" /\ q.state = parser.state
  BY Here
<1>2. Cleared(r, parser.state)
  BY <1>1 DEF Parsers, Cleared
<1> HIDE DEF r
<1>3. Cleared([r EXCEPT !.state = s], s)
  BY <1>2 DEF Parsers, Cleared
<1> QED BY <1>2, <1>3 DEF r

\* A trailer begins.
Trailer(t, s) ==
  /\ t \in Parsers /\ t.state = s /\ t.nread = 0 /\ t.errno = "HPE_OK" /\ t.type = q.type
  /\ "F_TRAILING" \in t.flags

LEMMA TrailerIs ==
  ASSUME NEW r, NEW s \in StateNames, Cleared(r, parser.state), NEW f \in SUBSET FlagNames, "F_TRAILING" \in f
  PROVE  Trailer([r EXCEPT !.flags = @ \cup f, !.state = s], s)
BY DEF Parsers, Cleared, Trailer

LEMMA ChunkSizeAlmostDoneKeeps == ASSUME InLoop, ChunkSizeAlmostDone PROVE IInv'
<1> DEFINE r == [q EXCEPT !.nread = 0]
           f == Flag("F_TRAILING")
           s == "s_header_field_start"
           trailer == [r EXCEPT !.flags = @ \cup f, !.state = s]
           d == "s_chunk_data"
           data == [r EXCEPT !.state = d]
<1>1. /\ parser.state = "s_chunk_size_almost_done" /\ q.nread <= HTTP_MAX_HEADER_SIZE
      /\ parser.state \in BodyParts \ BodyHomes /\ parser.state \notin MarkHomes
      /\ "F_CHUNKED" \in q.flags /\ q.content_length # ULLONG_MAX
  BY Here, BodyApart DEF ChunkSizeAlmostDone, At, BodyParts, ChunkStates, SizeStates, BodyHomes, Sound
<1>2. s \in StateNames /\ d \in StateNames
  BY DEF StateNames
<1>3. Cleared(r, parser.state) /\ Cleared(data, d)
  <2> HIDE DEF s, d
  <2> QED BY <1>2, ClearedIs, Zenon
<1>4. IF ch # "LF" THEN Fail("HPE_STRICT")
      ELSE IF r.content_length = 0 THEN Step(trailer) ELSE Step(data)
  BY Zenon DEF ChunkSizeAlmostDone
<1> HIDE DEF data
<1>5. CASE Fail("HPE_STRICT")
  BY <1>1, <1>5, FailedKeeps DEF ErrorNames
<1>6. CASE Step(trailer)
  <2>1. f \in SUBSET FlagNames /\ "F_TRAILING" \in f
    BY FlagsAre
  <2> HIDE DEF f, r
  <2>2. Trailer(trailer, s)
    <3> HIDE DEF s
    <3> QED BY <1>2, <1>3, <2>1, TrailerIs
  <2> HIDE DEF trailer
  <2>3. /\ Last \in {"headers_complete", "body"} /\ Open /\ attrs # << >>
        /\ input.type = "HTTP_REQUEST" => q.type = "HTTP_REQUEST"
    BY <1>1, BodySide
  <2>4. trailer.state \in HeaderStates /\ trailer.state \in EasyStates /\ trailer.state \notin MarkHomes
    BY <2>2, PlainAre, EasyAre DEF HeaderStates, PlainStates, Trailer
  <2>5. Trailing(trailer) /\ Last \in HeaderLast(trailer.state, Trailing(trailer))
    BY <2>2, <2>3 DEF Trailing, HeaderLast, Before, NamedStates, ValuedStates, Trailer
  <2>6. FitsNow(trailer)
    BY <2>2, <2>3, <2>4, <2>5, HeaderNow DEF Trailer
  <2>7. FineParser(trailer, Last, Open)
    BY <2>2, <2>4, <2>6, EasySound, Bounds DEF FineParser, FitsNow, Trailer
  <2> QED BY <1>1, <1>6, <2>2, <2>3, <2>4, <2>7, BodyStepKeeps DEF Trailer
<1>7. CASE r.content_length # 0 /\ Step(data)
  <2> HIDE DEF r
  <2>1. Sound(data) /\ data.state \in BodyParts
    BY <1>1, <1>3, <1>7 DEF Cleared, Sound, ChunkStates, SizeStates, BodyParts
  <2> QED BY <1>1, <1>3, <1>7, <2>1, ChunkStepKeeps, Bounds DEF Cleared
<1> HIDE DEF trailer, r
<1> QED BY <1>4, <1>5, <1>6, <1>7

LEMMA ChunkDataAlmostDoneKeeps == ASSUME InLoop, ChunkDataAlmostDone PROVE IInv'
<1> DEFINE s == "s_chunk_data_done"
           r == [q EXCEPT !.state = s]
<1>1. /\ parser.state = "s_chunk_data_almost_done" /\ q.nread <= HTTP_MAX_HEADER_SIZE
      /\ parser.state \in BodyParts /\ parser.state \in BodyHomes /\ "F_CHUNKED" \in q.flags
  BY Here DEF ChunkDataAlmostDone, At, BodyParts, ChunkStates, BodyHomes, Sound
<1>2. s \in StateNames
  BY DEF StateNames
<1>3. LeftTo(r, q.content_length, s)
  <2> HIDE DEF s
  <2> QED BY <1>2, WentTo
<1>4. Fail("HPE_STRICT") \/ CallData("body", mark, p, r, p + 1, r, p + 1)
  BY DEF ChunkDataAlmostDone
<1> HIDE DEF r
<1>5. CASE Fail("HPE_STRICT")
  BY <1>1, <1>5, FailedKeeps DEF ErrorNames
<1>6. CASE CallData("body", mark, p, r, p + 1, r, p + 1)
  <2>1. /\ MarksFit(mark, start, parser.state, p, lim) /\ "body" \in DataCallbacks /\ parser.state \in Home("body")
        /\ mark \in [DataCallbacks -> Nat \cup {None}]
        /\ mark["body"] # None => mark["body"] <= p
    BY <1>1, Here, HomeIs DEF DataCallbacks, MarksFit
  <2>2. \A c \in DataCallbacks \ {"body"} : mark[c] = None
    BY <2>1, OneMark
  <2>3. r.state \in BodyParts /\ Sound(r) /\ r.state \notin MarkHomes
    BY <1>1, <1>3, BodyApart DEF LeftTo, Sound, ChunkStates, SizeStates, BodyParts
  <2>4. /\ Last \in {"headers_complete", "body"} /\ Open /\ attrs # << >>
        /\ input.type = "HTTP_REQUEST" => q.type = "HTTP_REQUEST"
    BY <1>1, BodySide
  <2>5. CASE mark["body"] = None
    <3>1. Continue(r, p + 1, mark, None) /\ Quiet
      BY <1>6, <2>5 DEF CallData
    <3>2. FineParser(r, Last, Open)
      BY <1>1, <1>3, <2>3, BodyFine DEF LeftTo
    <3>3. \A c \in DataCallbacks : mark[c] = None
      BY <2>2, <2>5
    <3>4. MarksFit(mark, None, r.state, p + 1, lim)
      BY <2>1, <2>3, <3>3, ClearFits
    <3>5. Fine(r, p + 1, mark, None, Last, Open)
      BY <1>3, <2>4, <3>2, <3>4, Bounds DEF Fine, LeftTo
    <3> QED BY <3>1, <3>5, Moves DEF InLoop
  <2>6. CASE mark["body"] # None
    <3>1. May(Last, Open, "body", input.type) /\ OpenAfter("body", Open)
      BY <2>4 DEF May, FollowIn, Callbacks, DataCallbacks, OpenAfter
    <3>2. FitsAfter(r, "body")
      BY <1>3, <2>3, <2>4, <3>1, BodyAfter DEF BodyLast, LeftTo, BodyParts, ChunkStates
    <3>3. FineAfter(r, "body") /\ SizedAt(r, p + 1)
      BY <1>1, <1>3, <2>3, <2>4, <3>2 DEF FineAfter, SizedAt, LeftTo
    <3> QED BY <1>3, <1>6, <2>1, <2>2, <2>3, <2>6, <3>1, <3>3, Bounds, DataKeeps DEF LeftTo
  <2> QED BY <2>5, <2>6
<1> QED BY <1>4, <1>5, <1>6

LEMMA ChunkDataDoneKeeps == ASSUME InLoop, ChunkDataDone PROVE IInv'
<1> DEFINE s == "s_chunk_size_start"
           r == [q EXCEPT !.nread = 0, !.state = s]
<1>1. /\ parser.state = "s_chunk_data_done" /\ q.nread <= HTTP_MAX_HEADER_SIZE
      /\ parser.state \in BodyParts \ BodyHomes /\ "F_CHUNKED" \in q.flags
  BY Here DEF ChunkDataDone, At, BodyParts, ChunkStates, BodyHomes, Sound
<1>2. s \in StateNames
  BY DEF StateNames
<1>3. Cleared(r, s)
  <2> HIDE DEF s
  <2> QED BY <1>2, ClearedIs, Zenon
<1>4. Fail("HPE_STRICT") \/ Step(r)
  BY DEF ChunkDataDone
<1> HIDE DEF r
<1>5. CASE Fail("HPE_STRICT")
  BY <1>1, <1>5, FailedKeeps DEF ErrorNames
<1>6. CASE Step(r)
  <2>1. Sound(r) /\ r.state \in BodyParts
    BY <1>1, <1>3 DEF Cleared, Sound, ChunkStates, SizeStates, BodyParts
  <2> QED BY <1>1, <1>3, <1>6, <2>1, ChunkStepKeeps, Bounds DEF Cleared
<1> QED BY <1>4, <1>5, <1>6

-----------------------------------------------------------------------------
(***************************************************************************)
(* The end of a chunk, and the caller.                                     *)
(***************************************************************************)
LEMMA Stopped ==
  ASSUME IInv, pc = "loop", p = lim
  PROVE  /\ FineParser(parser, Last, Open) /\ parser.errno = "HPE_OK" /\ start = None /\ SizedAt(parser, p)
         /\ MarksFit(mark, start, parser.state, p, lim) /\ p \in p .. lim /\ p \in Nat /\ FitsNow(parser)
<1>1. Types /\ parser.errno = "HPE_OK" /\ parser \in Parsers /\ parser.nread <= HTTP_MAX_HEADER_SIZE /\ Alive
  BY DEF IInv, Types, Alive
<1>2. Sound(parser) /\ FitsNow(parser)
  BY <1>1 DEF IInv, State, FitsNow, Last, Open
<1>3. MarksFit(mark, start, parser.state, p, lim) /\ p \in Nat
  BY <1>1, InputIs DEF IInv, Marks
<1>4. start = None
  BY <1>3 DEF MarksFit
<1>5. SizedAt(parser, p)
  BY <1>1, <1>4 DEF IInv, Size, SizedAt
<1> QED BY <1>1, <1>2, <1>3, <1>4, <1>5 DEF FineParser, FitsNow

\* The string that is being collected may be handed over.
LEMMA HandedFits ==
  ASSUME NEW cb \in DataCallbacks, parser.state \in Home(cb), FitsNow(parser)
  PROVE  May(Last, Open, cb, input.type) /\ FitsAfter(parser, cb)
<1>1. CASE cb = "header_field"
  <2>1. parser.state = "s_header_field" /\ parser.state \in HeaderStates
    BY <1>1, HomeIs DEF HeaderStates
  <2>2. /\ Last \in Before(Trailing(parser)) \cup {"header_field"}
        /\ Open <=> Trailing(parser)
        /\ attrs = << >> => ~Trailing(parser)
        /\ input.type = "HTTP_REQUEST" => parser.type = "HTTP_REQUEST"
    BY <2>1, HeaderNow DEF HeaderLast, NamedStates, ValuedStates
  <2>3. May(Last, Open, cb, input.type)
    BY <1>1, <2>2 DEF Before, May, FollowIn, Callbacks, DataCallbacks
  <2> QED BY <1>1, <2>1, <2>2, <2>3, HeaderAfter DEF HeaderLast, NamedStates, ValuedStates, OpenAfter
<1>2. CASE cb = "header_value"
  <2>1. parser.state = "s_header_value" /\ parser.state \in HeaderStates
    BY <1>2, HomeIs DEF HeaderStates
  <2>2. /\ Last \in {"header_field", "header_value"}
        /\ Open <=> Trailing(parser)
        /\ attrs = << >> => ~Trailing(parser)
        /\ input.type = "HTTP_REQUEST" => parser.type = "HTTP_REQUEST"
    BY <2>1, HeaderNow DEF HeaderLast, NamedStates, ValuedStates
  <2>3. May(Last, Open, cb, input.type)
    BY <1>2, <2>2 DEF May, FollowIn, Callbacks, DataCallbacks
  <2> QED BY <1>2, <2>1, <2>2, <2>3, HeaderAfter DEF HeaderLast, NamedStates, ValuedStates, OpenAfter
<1>3. CASE cb = "url"
  <2>1. parser.state \in LineStates /\ LineLast(parser.state) = {"message_begin", "url"}
    BY <1>3, HomeIs, UrlApart
  <2>2. Last \in {"message_begin", "url"} /\ ~Open /\ ~Trailing(parser) /\ TypeFits(parser.state, parser.type, input.type)
    BY <2>1, LineNow
  <2>3. May(Last, Open, cb, input.type)
    BY <1>3, <2>2 DEF May, FollowIn, Callbacks, DataCallbacks
  <2> QED BY <1>3, <2>1, <2>2, <2>3, LineAfter DEF OpenAfter
<1>4. CASE cb = "status"
  <2>1. parser.state = "s_res_status" /\ parser.state \in LineStates
    BY <1>4, HomeIs DEF LineStates, StatusStates
  <2>2. LineLast(parser.state) = {"message_begin", "status"}
    BY <2>1 DEF LineLast, BeginStates, StatusStates, HttpStates, UrlStates, UrlServer, UrlQuery, UrlFragment
  <2>3. Last \in {"message_begin", "status"} /\ ~Open /\ ~Trailing(parser) /\ TypeFits(parser.state, parser.type, input.type)
    BY <2>1, <2>2, LineNow
  <2>4. May(Last, Open, cb, input.type)
    BY <1>4, <2>3 DEF May, FollowIn, Callbacks, DataCallbacks
  <2> QED BY <1>4, <2>1, <2>2, <2>3, <2>4, LineAfter DEF OpenAfter
<1>5. CASE cb = "body"
  <2>1. parser.state \in BodyParts /\ BodyLast(parser.state) = {"headers_complete", "body"}
    BY <1>5, HomeIs DEF BodyHomes, BodyParts, ChunkStates, BodyLast
  <2>2. /\ Last \in {"headers_complete", "body"} /\ Open /\ attrs # << >>
        /\ input.type = "HTTP_REQUEST" => parser.type = "HTTP_REQUEST"
    BY <2>1, BodyNow
  <2>3. May(Last, Open, cb, input.type)
    BY <1>5, <2>2 DEF May, FollowIn, Callbacks, DataCallbacks
  <2> QED BY <1>5, <2>1, <2>2, <2>3, BodyAfter DEF OpenAfter
<1> QED BY <1>1, <1>2, <1>3, <1>4, <1>5 DEF DataCallbacks

LEMMA EndOfDataKeeps == ASSUME IInv, EndOfData PROVE IInv'
<1>1. pc = "loop" /\ p = lim
  BY DEF EndOfData
<1>2. PICK i \in 1 .. 5 : mark[LeftOver[i]] # None /\ CallData(LeftOver[i], mark, p, parser, p, parser, p)
  BY DEF EndOfData
<1> DEFINE cb == LeftOver[i]
<1>3. cb \in DataCallbacks
  BY DEF LeftOver, DataCallbacks
<1> HIDE DEF cb
<1>4. mark[cb] # None /\ CallData(cb, mark, p, parser, p, parser, p)
  BY <1>2 DEF cb
<1>5. /\ FineParser(parser, Last, Open) /\ parser.errno = "HPE_OK" /\ start = None /\ SizedAt(parser, p)
      /\ MarksFit(mark, start, parser.state, p, lim) /\ p \in p .. lim /\ FitsNow(parser)
  BY <1>1, Stopped
<1>6. mark \in [DataCallbacks -> Nat \cup {None}] /\ mark[cb] <= p /\ parser.state \in Home(cb)
  BY <1>3, <1>4, <1>5 DEF MarksFit
<1>7. \A c \in DataCallbacks \ {cb} : mark[c] = None
  BY <1>3, <1>5, <1>6, OneMark
<1>8. May(Last, Open, cb, input.type) /\ FineAfter(parser, cb)
  BY <1>3, <1>5, <1>6, HandedFits DEF FineAfter, FineParser
<1>9. ~(p < lim)
  BY <1>1, <1>5, Stopped
<1> QED BY <1>1, <1>3, <1>4, <1>5, <1>6, <1>7, <1>8, <1>9, HandsOver

LEMMA EndOfCallKeeps == ASSUME IInv, EndOfCall PROVE IInv'
<1>1. pc = "loop" /\ p = lim /\ Return(parser, p) /\ calls' = calls /\ UNCHANGED <<faults, attrs>>
  BY DEF EndOfCall, Quiet
<1>2. Good(calls)
  BY DEF IInv, Types, Good
<1> QED BY <1>1, <1>2, Stopped, Returns DEF Last, Open

LEMMA UnpauseKeeps == ASSUME IInv, Unpause PROVE IInv'
<1> DEFINE e == "HPE_OK"
           r == [parser EXCEPT !.errno = e]
<1>1. /\ pc = "idle" /\ parser.errno = "HPE_PAUSED" /\ parser' = r
      /\ UNCHANGED <<input, pc, p, lim, mark, start, cuts, faults, calls, attrs>>
  BY DEF Unpause
<1>2. Types /\ State /\ Marks /\ Ordered(calls, input.type) /\ Size /\ parser \in Parsers
      /\ parser.nread <= HTTP_MAX_HEADER_SIZE
  BY <1>1 DEF IInv, Types
<1>3. /\ r \in Parsers /\ r.errno = "HPE_OK" /\ r.nread = parser.nread /\ r.state = parser.state
      /\ r.flags = parser.flags /\ r.type = parser.type /\ r.content_length = parser.content_length
      /\ r.header_state = parser.header_state
  BY <1>2 DEF Parsers, ErrorNames
<1> HIDE DEF r
<1>4. Types'
  BY <1>1, <1>2, <1>3 DEF Types
<1>5. State'
  <2>1. Sound(parser) /\ Fits(parser, LastOf(calls), OpenIn(calls), attrs = << >>, input.type)
    BY <1>1, <1>2 DEF State, Alive
  <2>2. Sound(r) /\ Fits(r, LastOf(calls), OpenIn(calls), attrs = << >>, input.type)
    BY <1>3, <2>1 DEF Sound, Fits, Trailing
  <2> QED BY <1>1, <2>2 DEF State
<1>6. Marks' /\ Ordered(calls, input.type)'
  BY <1>1, <1>2 DEF Marks
<1>7. Size'
  BY <1>1, <1>2, <1>3 DEF Size, Alive, Sized
<1> QED BY <1>4, <1>5, <1>6, <1>7 DEF IInv

LEMMA EofKeeps == ASSUME IInv, Eof PROVE IInv'
<1> DEFINE e == IF parser.state \in {"s_body_identity_eof", "s_dead", "s_start_req_or_res", "s_start_res", "s_start_req"}
                  THEN parser.errno ELSE "HPE_INVALID_EOF_STATE"
           r == [parser EXCEPT !.errno = e]
           cs == IF parser.state = "s_body_identity_eof" THEN Recorded("message_complete", << >>) ELSE calls
<1>1. /\ pc = "idle" /\ parser.errno = "HPE_OK" /\ parser' = r /\ pc' = "closed" /\ calls' = cs
      /\ UNCHANGED <<input, p, lim, mark, start, cuts, faults, attrs>>
  BY DEF Eof
<1>2. Types /\ State /\ Marks /\ Ordered(calls, input.type) /\ Size /\ parser \in Parsers
      /\ parser.nread <= HTTP_MAX_HEADER_SIZE /\ calls \in Seq(CallRecords)
  BY <1>1 DEF IInv, Types
<1>3. r \in Parsers /\ r.errno = e /\ r.nread = parser.nread
  <2>1. e \in ErrorNames
    BY <1>1 DEF ErrorNames
  <2> HIDE DEF e
  <2> QED BY <1>2, <2>1 DEF Parsers
<1>4. cs \in Seq(CallRecords) /\ Ordered(cs, input.type)
  <2>1. CASE parser.state = "s_body_identity_eof"
    <3>1. FitsNow(parser) /\ parser.state \in BodyParts
      BY <1>1, <1>2, <2>1 DEF State, Alive, FitsNow, Last, Open, BodyParts
    <3>2. Last \in {"headers_complete", "body"} /\ Open
      BY <2>1, <3>1, BodyNow DEF BodyLast
    <3>3. May(Last, Open, "message_complete", input.type) /\ << >> \in Seq(STRING)
      BY <3>2 DEF May, FollowIn, Callbacks, DataCallbacks
    <3> QED BY <1>2, <2>1, <3>3, RecordedKeeps DEF Last, Open
  <2>2. CASE parser.state # "s_body_identity_eof"
    BY <1>2, <2>2
  <2> QED BY <2>1, <2>2
<1> HIDE DEF r, cs
<1>5. Types'
  BY <1>1, <1>2, <1>3, <1>4 DEF Types
<1>6. ~Alive' /\ State'
  BY <1>1 DEF Alive, State
<1>7. Marks' /\ Ordered(calls, input.type)'
  BY <1>1, <1>2, <1>4 DEF Marks
<1>8. Size'
  BY <1>1, <1>2, <1>3, <1>6 DEF Size
<1> QED BY <1>5, <1>6, <1>7, <1>8 DEF IInv

\* The marks that are set on entry are those of the state.
LEMMA EntryIs ==
  ASSUME NEW s, NEW c \in DataCallbacks
  PROVE  /\ c \in MarkOnEntry(s) => s \in Home(c)
         /\ c # "body" /\ s \in Home(c) => c \in MarkOnEntry(s)
<1>1. CASE s \in UrlStates
  BY <1>1, HomeIs, HomesApart DEF MarkOnEntry, DataCallbacks
<1>2. CASE s \notin UrlStates
  BY <1>2, HomeIs, HomesApart DEF MarkOnEntry, DataCallbacks
<1> QED BY <1>1, <1>2

LEMMA ExecuteKeeps == ASSUME IInv, NEW n \in 1 .. Len(input.bytes), Execute(n) PROVE IInv'
<1> DEFINE m == [c \in DataCallbacks |-> IF c \in MarkOnEntry(parser.state) THEN p ELSE None]
<1>1. /\ pc = "idle" /\ parser.errno = "HPE_OK" /\ p + n <= Len(input.bytes) /\ cuts' <= input.cuts
      /\ cuts' = (IF p + n < Len(input.bytes) THEN cuts + 1 ELSE cuts)
      /\ pc' = "loop" /\ lim' = p + n /\ mark' = m
      /\ UNCHANGED <<input, parser, p, start, faults, calls, attrs>>
  BY DEF Execute
<1>2. Types /\ State /\ Marks /\ Ordered(calls, input.type) /\ Size
  BY DEF IInv
<1>3. p \in Nat /\ cuts \in Nat /\ input.cuts \in Nat /\ Len(input.bytes) \in Nat /\ None \notin Nat
  BY <1>2, InputIs
<1>4. start = None
  BY <1>1, <1>2 DEF Marks
<1>5. Types'
  <2>1. lim' \in 0 .. Len(input.bytes) /\ p \in 0 .. lim' /\ cuts' \in 0 .. input.cuts
    BY <1>1, <1>3
  <2> QED BY <1>1, <1>2, <2>1 DEF Types
<1>6. Alive /\ Alive'
  BY <1>1 DEF Alive
<1>7. State' /\ Size' /\ Ordered(calls, input.type)'
  BY <1>1, <1>2, <1>6 DEF State, Size
<1>8. MarksFit(m, None, parser.state, p, lim')
  <2>1. m \in [DataCallbacks -> Nat \cup {None}]
    BY <1>3
  <2>2. \A c \in DataCallbacks : m[c] # None => m[c] <= p /\ parser.state \in Home(c)
    BY <1>3, EntryIs
  <2>3. \A c \in DataCallbacks \ {"body"} : parser.state \in Home(c) => m[c] # None
    BY <1>3, EntryIs
  <2> HIDE DEF m
  <2> QED BY <2>1, <2>2, <2>3 DEF MarksFit
<1> HIDE DEF m
<1>9. Marks'
  BY <1>1, <1>4, <1>8 DEF Marks
<1> QED BY <1>5, <1>7, <1>9 DEF IInv

LEMMA InitIs == Init => IInv
<1> SUFFICES ASSUME Init PROVE IInv
  OBVIOUS
<1> DEFINE s == CASE input.type = "HTTP_REQUEST" -> "s_start_req"
                  [] input.type = "HTTP_RESPONSE" -> "s_start_res"
                  [] OTHER -> "s_start_req_or_res"
<1>1. /\ input \in Inputs /\ pc = "idle" /\ p = 0 /\ lim = 0 /\ mark = NoMarks /\ start = None
      /\ cuts = 0 /\ faults = 0 /\ calls = << >> /\ attrs = << >> /\ parser = http_parser_init(input.type)
  BY DEF Init
<1>2. /\ input.type \in MessageTypes /\ input.bytes \in Seq(STRING) /\ input.cuts \in Nat /\ input.faults \in Nat
      /\ HTTP_MAX_HEADER_SIZE \in Nat /\ ULLONG_MAX \in Nat
  BY <1>1, HttpAssumption DEF MessageTypes
<1>3. /\ s \in StartStates /\ s \in StateNames /\ TypeFits(s, input.type, input.type)
  BY DEF StartStates, StateNames, TypeFits
<1>4. /\ parser \in Parsers /\ parser.state = s /\ parser.type = input.type /\ parser.flags = {} /\ parser.nread = 0
      /\ parser.errno = "HPE_OK"
  <2>1. parser = [type |-> input.type, flags |-> {}, header_state |-> "h_general", index |-> 0, nread |-> 0,
                  content_length |-> 0, http_major |-> 0, http_minor |-> 0, status_code |-> 0,
                  method |-> "DELETE", errno |-> "HPE_OK", upgrade |-> FALSE, state |-> s]
    BY <1>1 DEF http_parser_init
  <2>2. "DELETE" \in MethodNames
    BY DEF MethodNames, MethodWord
  <2> HIDE DEF s
  <2> QED BY <1>2, <1>3, <2>1, <2>2 DEF Parsers, HeaderStateNames, Lengths, Numbers, ErrorNames
<1> HIDE DEF s
<1>5. Types
  BY <1>1, <1>2, <1>4 DEF Types
<1>6. State
  <2>1. LastOf(calls) = "none" /\ ~OpenIn(calls) /\ ~Trailing(parser)
    BY <1>1, <1>4 DEF LastOf, OpenIn, Trailing
  <2>2. FitsNow(parser)
    BY <1>3, <1>4, <2>1, StartNow DEF Last, Open
  <2>3. Sound(parser)
    BY <1>3, <1>4, PlainAre, EasyAre, EasySound
  <2> QED BY <2>2, <2>3 DEF State, FitsNow, Last, Open
<1>7. Marks
  BY <1>1 DEF Marks
<1>8. Ordered(calls, input.type)
  BY <1>1 DEF Ordered
<1>9. Size
  BY <1>1, <1>3, <1>4 DEF Size, Sized, Most, StartStates
<1> QED BY <1>5, <1>6, <1>7, <1>8, <1>9 DEF IInv

-----------------------------------------------------------------------------
(***************************************************************************)
(* Every step keeps the invariant, and what follows from it.               *)
(***************************************************************************)
LEMMA LoopKeeps == ASSUME IInv, Loop PROVE IInv'
<1>1. CASE EndOfData
  BY <1>1, EndOfDataKeeps
<1>2. CASE EndOfCall
  BY <1>2, EndOfCallKeeps
<1>3. CASE HeaderOverflow
  BY <1>3, HeaderOverflowKeeps DEF HeaderOverflow, InLoop
<1>4. CASE Dead
  BY <1>4, DeadKeeps DEF Dead, At, InLoop
<1>5. CASE StartReqOrRes
  BY <1>5, StartReqOrResKeeps DEF StartReqOrRes, At, InLoop
<1>6. CASE ResOrRespH
  BY <1>6, ResOrRespHKeeps DEF ResOrRespH, At, InLoop
<1>7. CASE StartRes
  BY <1>7, StartResKeeps DEF StartRes, At, InLoop
<1>8. CASE OneByte
  BY <1>8, OneByteKeeps DEF OneByte, At, InLoop
<1>9. CASE FirstMajor
  BY <1>9, FirstMajorKeeps DEF FirstMajor, At, InLoop
<1>10. CASE Major
  BY <1>10, MajorKeeps DEF Major, At, InLoop
<1>11. CASE FirstMinor
  BY <1>11, FirstMinorKeeps DEF FirstMinor, At, InLoop
<1>12. CASE Minor
  BY <1>12, MinorKeeps DEF Minor, At, InLoop
<1>13. CASE FirstStatusCode
  BY <1>13, FirstStatusCodeKeeps DEF FirstStatusCode, At, InLoop
<1>14. CASE StatusCode
  BY <1>14, StatusCodeKeeps DEF StatusCode, At, InLoop
<1>15. CASE StatusStart
  BY <1>15, StatusStartKeeps DEF StatusStart, At, InLoop
<1>16. CASE Status
  BY <1>16, StatusKeeps DEF Status, At, InLoop
<1>17. CASE StartReq
  BY <1>17, StartReqKeeps DEF StartReq, At, InLoop
<1>18. CASE ReqMethod
  BY <1>18, ReqMethodKeeps DEF ReqMethod, At, InLoop
<1>19. CASE SpacesBeforeUrl
  BY <1>19, SpacesBeforeUrlKeeps DEF SpacesBeforeUrl, At, InLoop
<1>20. CASE Url
  BY <1>20, UrlKeeps DEF Url, At, InLoop
<1>21. CASE UrlEnd
  BY <1>21, UrlEndKeeps DEF UrlEnd, At, InLoop
<1>22. CASE HttpStart
  BY <1>22, HttpStartKeeps DEF HttpStart, At, InLoop
<1>23. CASE HeaderFieldStart
  BY <1>23, HeaderFieldStartKeeps DEF HeaderFieldStart, At, InLoop
<1>24. CASE HeaderField
  BY <1>24, HeaderFieldKeeps DEF HeaderField, At, InLoop
<1>25. CASE DiscardWs
  BY <1>25, DiscardWsKeeps DEF DiscardWs, At, InLoop
<1>26. CASE HeaderValueStart
  BY <1>26, HeaderValueStartKeeps DEF HeaderValueStart, At, InLoop
<1>27. CASE HeaderValue
  BY <1>27, HeaderValueKeeps DEF HeaderValue, At, InLoop
<1>28. CASE HeaderValueLws
  BY <1>28, HeaderValueLwsKeeps DEF HeaderValueLws, At, InLoop
<1>29. CASE DiscardLws
  BY <1>29, DiscardLwsKeeps DEF DiscardLws, At, InLoop
<1>30. CASE HeadersAlmostDone
  BY <1>30, HeadersAlmostDoneKeeps DEF HeadersAlmostDone, At, InLoop
<1>31. CASE HeadersDone
  BY <1>31, HeadersDoneKeeps DEF HeadersDone, At, InLoop
<1>32. CASE BodyIdentity
  BY <1>32, BodyIdentityKeeps DEF BodyIdentity, At, InLoop
<1>33. CASE BodyIdentityEof
  BY <1>33, BodyIdentityEofKeeps DEF BodyIdentityEof, At, InLoop
<1>34. CASE MessageDone
  BY <1>34, MessageDoneKeeps DEF MessageDone, At, InLoop
<1>35. CASE ChunkSizeStart
  BY <1>35, ChunkSizeStartKeeps DEF ChunkSizeStart, At, InLoop
<1>36. CASE ChunkSize
  BY <1>36, ChunkSizeKeeps DEF ChunkSize, At, InLoop
<1>37. CASE ChunkParameters
  BY <1>37, ChunkParametersKeeps DEF ChunkParameters, At, InLoop
<1>38. CASE ChunkSizeAlmostDone
  BY <1>38, ChunkSizeAlmostDoneKeeps DEF ChunkSizeAlmostDone, At, InLoop
<1>39. CASE ChunkData
  BY <1>39, ChunkDataKeeps DEF ChunkData, At, InLoop
<1>40. CASE ChunkDataAlmostDone
  BY <1>40, ChunkDataAlmostDoneKeeps DEF ChunkDataAlmostDone, At, InLoop
<1>41. CASE ChunkDataDone
  BY <1>41, ChunkDataDoneKeeps DEF ChunkDataDone, At, InLoop
<1> QED
  BY <1>1, <1>2, <1>3, <1>4, <1>5, <1>6, <1>7, <1>8, <1>9, <1>10, <1>11, <1>12, <1>13, <1>14, <1>15,
     <1>16, <1>17, <1>18, <1>19, <1>20, <1>21, <1>22, <1>23, <1>24, <1>25, <1>26, <1>27, <1>28,
     <1>29, <1>30, <1>31, <1>32, <1>33, <1>34, <1>35, <1>36, <1>37, <1>38, <1>39, <1>40, <1>41
  DEF Loop

LEMMA NextKeeps == IInv /\ [Next]_vars => IInv'
<1> SUFFICES ASSUME IInv, [Next]_vars PROVE IInv'
  OBVIOUS
<1>1. CASE Loop
  BY <1>1, LoopKeeps
<1>2. CASE Unpause
  BY <1>2, UnpauseKeeps
<1>3. CASE Eof
  BY <1>3, EofKeeps
<1>4. CASE \E n \in 1 .. Len(input.bytes) : Execute(n)
  BY <1>4, ExecuteKeeps
<1>5. CASE UNCHANGED vars
  BY <1>5 DEF vars, IInv, Types, State, Alive, Marks, Size
<1> QED BY <1>1, <1>2, <1>3, <1>4, <1>5 DEF Next

\* IInv is an invariant: what the parser knows in each of its states, which
\* callback was the last, which string is being collected and how many bytes
\* of headers are counted.
THEOREM Invariance == Spec => []IInv
BY InitIs, NextKeeps, PTL DEF Spec

LEMMA AssertionsFollow == IInv => AssertionsHold
<1> SUFFICES ASSUME IInv PROVE AssertionsHold
  OBVIOUS
<1>1. Types /\ Marks /\ parser \in Parsers /\ p \in Nat /\ lim \in Nat /\ None \notin Nat
  BY InputIs DEF IInv, Types
<1>2. /\ pc = "loop" => MarksFit(mark, start, parser.state, p, lim)
      /\ pc # "loop" => (\A c \in DataCallbacks : mark[c] = None) /\ start = None
  BY <1>1 DEF Marks, NoMarks
<1>3. TypeOK
  <2>1. \A c \in DataCallbacks : mark[c] = None \/ mark[c] \in 0 .. p
    BY <1>1, <1>2 DEF MarksFit
  <2>2. start = None \/ start \in 0 .. p
    BY <1>1, <1>2 DEF MarksFit
  <2>3. \A i \in DOMAIN calls : calls[i].cb \in Callbacks
    <3>1. calls \in Seq(CallRecords)
      BY <1>1 DEF Types
    <3>2. \A i \in DOMAIN calls : calls[i] \in CallRecords
      BY <3>1
    <3>3. \A y \in CallRecords : y.cb \in Callbacks
      BY DEF CallRecords
    <3> QED BY <3>2, <3>3
  <2>4. /\ parser.flags \subseteq DOMAIN Bit /\ parser.method \in DOMAIN MethodWord
        /\ parser.content_length \in 0 .. ULLONG_MAX
        /\ {parser.http_major, parser.http_minor, parser.status_code} \subseteq 0 .. 999
    BY SMTT(30), <1>1 DEF Parsers, FlagNames, MethodNames, Lengths, Numbers
  <2>5. parser.nread \in 0 .. HTTP_MAX_HEADER_SIZE \/ parser.errno = "HPE_HEADER_OVERFLOW"
    BY <1>1, InputIs DEF Types, Parsers
  <2> QED BY <1>1, <2>1, <2>2, <2>3, <2>4, <2>5 DEF TypeOK, Types
<1>4. ASSUME NEW c \in DataCallbacks, NEW d \in DataCallbacks, mark[c] # None, mark[d] # None
      PROVE  c = d
  <2>1. MarksFit(mark, start, parser.state, p, lim) /\ parser.state \in Home(c)
    BY <1>2, <1>4 DEF MarksFit
  <2> QED BY <1>4, <2>1, OneMark
<1>5. ASSUME pc = "loop", p < lim
      PROVE  /\ parser.state = "s_chunk_size_start" => q.nread = 1
             /\ parser.state \in ChunkStates => "F_CHUNKED" \in parser.flags
             /\ parser.state \in {"s_body_identity", "s_chunk_data"} => parser.content_length \notin {0, ULLONG_MAX}
             /\ parser.state = "s_chunk_data_almost_done" => parser.content_length = 0
             /\ parser.state = "s_header_value" => parser.header_state \notin {"h_connection", "h_transfer_encoding"}
  <2>1. InLoop
    BY <1>5 DEF InLoop
  <2>2. Sound(parser) /\ MarksFit(mark, start, parser.state, p, lim)
    BY <2>1, Here
  <2>3. parser.state = "s_chunk_size_start" => start = None /\ PARSING_HEADER(parser.state) /\ parser.nread = 0
    BY <2>2 DEF MarksFit, Sound, PARSING_HEADER, BodyStates
  <2>4. parser.state = "s_chunk_size_start" => q.nread = 1
    BY <2>1, <2>3, Here
  <2> QED BY <2>2, <2>4 DEF Sound, ValueStates, ValueMatchers
<1> QED BY <1>3, <1>4, <1>5 DEF AssertionsHold, ChunkStates, SizeStates

\* The assertions of http_parser_execute hold for every stream, cut anywhere,
\* and whatever the callbacks answer: one string is collected at a time, chunk
\* sizes are counted from 1, a body is read only while some of it is missing.
THEOREM AssertionsSafe == Spec => []AssertionsHold
BY Invariance, AssertionsFollow, PTL

LEMMA SizeFollows == IInv => HeaderSizeBounded
<1> SUFFICES ASSUME IInv, faults = 0, attrs = << >>, start = None
             PROVE  /\ parser.errno # "HPE_INVALID_CONTENT_LENGTH" => p <= parser.nread
                    /\ parser.nread <= 2 * (p + 1)
                    /\ parser.errno = "HPE_OK" => p <= HTTP_MAX_HEADER_SIZE
  BY DEF HeaderSizeBounded
<1>1. p \in Nat /\ parser.nread \in Nat /\ HTTP_MAX_HEADER_SIZE \in Nat
  BY InputIs DEF IInv, Types, Parsers
<1>2. /\ parser.nread <= 2 * p + 2
      /\ parser.errno # "HPE_INVALID_CONTENT_LENGTH" => p <= parser.nread
  BY DEF IInv, Size
<1>3. parser.errno = "HPE_OK" => parser.nread <= HTTP_MAX_HEADER_SIZE
  BY DEF IInv, Types
<1> QED BY <1>1, <1>2, <1>3

\* The headers of a message are never longer than HTTP_MAX_HEADER_SIZE, and
\* headers of half that size are never refused for their length.
THEOREM HeaderSizeSafe == Spec => []HeaderSizeBounded
BY Invariance, SizeFollows, PTL

\* Whatever the peer sends, the callbacks come in the order of a message.
THEOREM CallbacksOrdered == Spec => []CallbackOrder
<1>1. IInv => CallbackOrder
  BY OrderedIs DEF IInv
<1> QED BY <1>1, Invariance, PTL

-----------------------------------------------------------------------------
(***************************************************************************)
(* Recursion and induction along a range of numbers.                       *)
(***************************************************************************)
LEMMA FirstExists ==
  ASSUME NEW S, S \subseteq Nat, S # {}
  PROVE  \E m \in S : \A j \in S : m <= j
<1>1. PICK m \in S : \A y \in S : ~(<<y, m>> \in OpToRel(<, Nat))
  BY NatLessThanWellFounded, WFMin
<1>2. \A y \in S : y \in Nat /\ m \in Nat /\ ~(y < m)
  BY <1>1, Zenon DEF OpToRel
<1>3. \A y \in S : m <= y
  BY <1>2
<1> QED BY <1>3

\* A set with the first number of a range, and with every next one, has all of them.
LEMMA Upwards ==
  ASSUME NEW a \in Nat, NEW b \in Nat, NEW A, a \in A,
         \A i \in a .. b : i \in A /\ i < b => i + 1 \in A
  PROVE  \A i \in a .. b : i \in A
<1> DEFINE bad == {i \in a .. b : i \notin A}
<1> SUFFICES ASSUME bad # {} PROVE FALSE
  OBVIOUS
<1>0. bad \subseteq Nat
  OBVIOUS
<1>1. PICK m \in bad : \A j \in bad : m <= j
  BY <1>0, FirstExists
<1>2. m # a /\ m \in a .. b
  BY <1>1
<1>3. m - 1 \in a .. b /\ m - 1 < b /\ (m - 1) + 1 = m /\ ~(m <= m - 1)
  BY <1>2
<1>4. m - 1 \in A
  BY <1>1, <1>3
<1>5. m \in A
  BY <1>3, <1>4
<1> QED BY <1>1, <1>5

\* A recursion along a..b from x by the steps of T.
Solvable(a, b, S, x, T) ==
  \E f \in [a .. b -> S] : f[a] = x /\ \A i \in a + 1 .. b : f[i] = T[i][f[i - 1]]

\* A recursion whose steps stay in a set has a solution.
LEMMA RecursionExists ==
  ASSUME NEW a \in Nat, NEW b \in Nat, a <= b, NEW S, NEW x \in S, NEW T \in [a .. b -> [S -> S]]
  PROVE  Solvable(a, b, S, x, T)
<1> DEFINE Solves(f, n) == f \in [a .. n -> S] /\ f[a] = x /\ \A i \in a + 1 .. n : f[i] = T[i][f[i - 1]]
           A == {n \in a .. b : \E f : Solves(f, n)}
<1>1. a \in A
  <2> DEFINE g == [i \in a .. a |-> x]
  <2>1. g \in [a .. a -> S] /\ g[a] = x
    OBVIOUS
  <2>2. \A i \in a + 1 .. a : FALSE
    OBVIOUS
  <2> HIDE DEF g
  <2>3. Solves(g, a)
    BY <2>1, <2>2
  <2> QED BY <2>3
<1>2. ASSUME NEW n \in a .. b, n \in A, n < b PROVE n + 1 \in A
  <2>1. PICK f : Solves(f, n)
    BY <1>2
  <2> DEFINE g == [i \in a .. n + 1 |-> IF i = n + 1 THEN T[n + 1][f[n]] ELSE f[i]]
  <2>2. n + 1 \in a .. b /\ n \in a .. n /\ f[n] \in S
    BY <1>2, <2>1
  <2>3. T[n + 1][f[n]] \in S
    BY <2>2
  <2>4. \A i \in a .. n + 1 : g[i] = IF i = n + 1 THEN T[n + 1][f[n]] ELSE f[i]
    OBVIOUS
  <2>5. g \in [a .. n + 1 -> S]
    <3>1. \A i \in a .. n + 1 : g[i] \in S
      BY <2>1, <2>3, <2>4
    <3> QED BY <3>1
  <2> HIDE DEF g
  <2>6. g[a] = x
    BY <2>1, <2>2, <2>4
  <2>7. ASSUME NEW i \in a + 1 .. n + 1 PROVE g[i] = T[i][g[i - 1]]
    <3>1. i - 1 \in a .. n + 1 /\ i - 1 # n + 1 /\ i \in a .. n + 1
      BY <2>7, <2>2
    <3>2. g[i - 1] = f[i - 1]
      BY <2>4, <3>1
    <3>3. CASE i = n + 1
      BY <2>4, <3>1, <3>2, <3>3
    <3>4. CASE i # n + 1
      <4>1. i \in a + 1 .. n
        BY <3>4, <2>7
      <4>2. f[i] = T[i][f[i - 1]]
        BY <2>1, <4>1
      <4> QED BY <2>4, <3>1, <3>2, <3>4, <4>2
    <3> QED BY <3>3, <3>4
  <2>8. Solves(g, n + 1)
    BY <2>5, <2>6, <2>7
  <2> QED BY <2>2, <2>8
<1> HIDE DEF A
<1>3. \A i \in a .. b : i \in A
  BY <1>1, <1>2, Upwards
<1> QED BY <1>3 DEF A, Solvable

-----------------------------------------------------------------------------
(***************************************************************************)
(* http_parser_parse_url: types, and the equations of its loops.           *)
(***************************************************************************)
UrlNames == UrlStates \cup {"s_req_spaces_before_url", "s_dead"}
HostNames == {"userinfo_start", "userinfo", "host_start", "host_v6_start", "host", "host_v6", "host_v6_end",
              "host_port_start", "host_port", "host_dead"}
Extents == [off : 0 .. UINT16_MAX, len : 0 .. UINT16_MAX]
Structs == [set : SUBSET UrlFields, data : [UrlFields -> Extents]]
UrlReaders == [s : UrlNames, old : UrlFields \cup {"MAX"}, u : Structs, at : BOOLEAN]
HostReaders == [s : HostNames, u : Structs]

LEMMA U16Is == \A n \in Nat : U16(n) \in 0 .. UINT16_MAX /\ (n <= UINT16_MAX => U16(n) = n)
BY UrlAssumption DEF U16

\* v is u with the byte at offset n in field uf, newly so or not.
IsExtended(u, uf, n, new, v) ==
  /\ v \in Structs /\ v.set = u.set \cup {uf}
  /\ \A g \in UrlFields : g # uf => v.data[g] = u.data[g]
  /\ new = TRUE /\ n <= UINT16_MAX => v.data[uf] = [off |-> n, len |-> 1]
  /\ new = FALSE /\ u.data[uf].len < UINT16_MAX =>
       v.data[uf] = [off |-> u.data[uf].off, len |-> u.data[uf].len + 1]

LEMMA ExtendIs ==
  ASSUME NEW u \in Structs, NEW uf \in UrlFields, NEW n \in Nat, NEW new \in BOOLEAN
  PROVE  IsExtended(u, uf, n, new, Extend(u, uf, n, new))
<1> DEFINE x == IF new THEN [off |-> U16(n), len |-> 1] ELSE [off |-> u.data[uf].off, len |-> U16(u.data[uf].len + 1)]
<1>1. Extend(u, uf, n, new) = [set |-> u.set \cup {uf}, data |-> [u.data EXCEPT ![uf] = x]]
  BY DEF Extend, Structs
<1>2. u.set \in SUBSET UrlFields /\ u.data \in [UrlFields -> Extents] /\ u.data[uf] \in Extents
  BY DEF Structs
<1>3. u.data[uf].len \in 0 .. UINT16_MAX /\ u.data[uf].off \in 0 .. UINT16_MAX
  BY <1>2 DEF Extents
<1>4. x \in Extents
  <2>1. U16(n) \in 0 .. UINT16_MAX /\ U16(u.data[uf].len + 1) \in 0 .. UINT16_MAX /\ 1 \in 0 .. UINT16_MAX
    BY <1>3, U16Is, UrlAssumption
  <2> QED BY <1>2, <2>1 DEF Extents
<1>5. /\ new = TRUE /\ n <= UINT16_MAX => x = [off |-> n, len |-> 1]
      /\ new = FALSE /\ u.data[uf].len < UINT16_MAX => x = [off |-> u.data[uf].off, len |-> u.data[uf].len + 1]
  <2>1. UINT16_MAX \in Nat /\ (n <= UINT16_MAX => U16(n) = n)
        /\ (u.data[uf].len < UINT16_MAX => U16(u.data[uf].len + 1) = u.data[uf].len + 1)
    BY <1>3, U16Is, UrlAssumption
  <2> QED BY <1>2, <2>1 DEF Extents
<1> HIDE DEF x
<1>6. [u.data EXCEPT ![uf] = x] \in [UrlFields -> Extents]
  BY <1>2, <1>4
<1> QED BY <1>1, <1>2, <1>5, <1>6 DEF Structs, IsExtended

-----------------------------------------------------------------------------
LEMMA UrlNamesAre ==
  ASSUME NEW s, NEW c
  PROVE  /\ parse_url_char(s, c) \in UrlNames
         /\ UrlField(s) \in (UrlFields \ {"PORT", "USERINFO"}) \cup {"none"}
         /\ UrlField(s) # "none" => UrlField(s) \in UrlFields
<1>1. parse_url_char(s, c) \in UrlNames
  BY DEF parse_url_char, UrlNames, UrlStates, UrlServer, UrlQuery, UrlFragment
<1>2. UrlField(s) \in (UrlFields \ {"PORT", "USERINFO"}) \cup {"none"}
  BY DEF UrlField, UrlFields
<1> QED BY <1>1, <1>2

LEMMA UrlStepIs ==
  ASSUME NEW r \in UrlReaders, NEW n \in Nat, NEW c
  PROVE  LET s == parse_url_char(r.s, c)
             f == UrlField(s)
             x == UrlStep(r, n, c)
         IN  /\ x \in UrlReaders /\ x.s = s
             /\ f = "none" => x.old = r.old /\ x.u = r.u /\ x.at = r.at
             /\ f # "none" => x.old = f /\ x.u = Extend(r.u, f, n, f # r.old)
<1> DEFINE s == parse_url_char(r.s, c)
           f == UrlField(s)
           x == UrlStep(r, n, c)
           at == r.at \/ s = "s_req_server_with_at"
<1>1. s \in UrlNames /\ (f # "none" => f \in UrlFields)
  BY UrlNamesAre
<1>2. /\ r.s \in UrlNames /\ r.old \in UrlFields \cup {"MAX"} /\ r.u \in Structs /\ r.at \in BOOLEAN
      /\ r = [s |-> r.s, old |-> r.old, u |-> r.u, at |-> r.at]
  BY DEF UrlReaders
<1>3. x = IF f = "none" THEN [r EXCEPT !.s = s] ELSE [s |-> s, old |-> f, u |-> Extend(r.u, f, n, f # r.old), at |-> at]
  BY DEF UrlStep
<1> HIDE DEF s, f, x
<1>4. CASE f = "none"
  <2>1. x = [s |-> s, old |-> r.old, u |-> r.u, at |-> r.at]
    BY <1>2, <1>3, <1>4
  <2>2. x.s = s /\ x.old = r.old /\ x.u = r.u /\ x.at = r.at
    BY <2>1
  <2>3. x \in UrlReaders
    BY <1>1, <1>2, <2>1 DEF UrlReaders
  <2> QED BY <1>4, <2>2, <2>3 DEF s, f, x
<1>5. CASE f # "none"
  <2>1. Extend(r.u, f, n, f # r.old) \in Structs
    BY <1>1, <1>2, <1>5, ExtendIs DEF IsExtended
  <2> DEFINE v == Extend(r.u, f, n, f # r.old)
  <2> HIDE DEF v
  <2>2. x = [s |-> s, old |-> f, u |-> v, at |-> at] /\ v \in Structs /\ at \in BOOLEAN
    BY <1>3, <1>5, <2>1 DEF v
  <2> HIDE DEF at
  <2>3. x \in UrlReaders
    BY <1>1, <1>5, <2>2 DEF UrlReaders
  <2>4. x.s = s /\ x.old = f /\ x.u = v
    BY <2>2
  <2> QED BY <1>5, <2>3, <2>4 DEF s, f, x, v
<1> QED BY <1>4, <1>5

UrlStart(junk) == [s |-> "s_req_spaces_before_url", old |-> "MAX", u |-> [set |-> {}, data |-> junk], at |-> FALSE]

LEMMA UrlReadIs ==
  ASSUME NEW buf \in Seq(STRING), NEW junk \in [UrlFields -> Extents]
  PROVE  LET R == UrlRead(buf, FALSE, junk)
         IN  /\ R[0] = UrlStart(junk)
             /\ \A n \in 1 .. Len(buf) : R[n] = UrlStep(R[n - 1], n - 1, buf[n])
<1> DEFINE N == Len(buf)
           T == [i \in 0 .. N |-> [r \in UrlReaders |-> IF i = 0 THEN r ELSE UrlStep(r, i - 1, buf[i])]]
           Eq(f) == [n \in 0 .. N |-> IF n = 0 THEN UrlStart(junk) ELSE UrlStep(f[n - 1], n - 1, buf[n])]
           R == CHOOSE f : f = Eq(f)
<1>0. N \in Nat
  OBVIOUS
<1>1. UrlRead(buf, FALSE, junk) = R
  BY DEF UrlRead, UrlStart
<1>2. UrlStart(junk) \in UrlReaders
  BY DEF UrlStart, UrlReaders, UrlNames, Structs
<1> HIDE DEF N
<1>3. T \in [0 .. N -> [UrlReaders -> UrlReaders]]
  <2>1. ASSUME NEW i \in 0 .. N, NEW r \in UrlReaders
        PROVE  (IF i = 0 THEN r ELSE UrlStep(r, i - 1, buf[i])) \in UrlReaders
    <3>1. CASE i = 0
      BY <3>1
    <3>2. CASE i # 0
      <4>1. i - 1 \in Nat
        BY <1>0, <3>2
      <4> QED BY <3>2, <4>1, UrlStepIs
    <3> QED BY <3>1, <3>2
  <2> QED BY <2>1
<1>4. \A i \in 1 .. N, r \in UrlReaders : T[i][r] = UrlStep(r, i - 1, buf[i])
  BY <1>0
<1> HIDE DEF T
<1> DEFINE W == UrlReaders
           x0 == UrlStart(junk)
<1> HIDE DEF W, x0
<1>5a. 0 \in Nat /\ 0 <= N /\ x0 \in W /\ T \in [0 .. N -> [W -> W]]
  BY <1>0, <1>2, <1>3 DEF W, x0
<1>5b. Solvable(0, N, W, x0, T)
  <2> HIDE DEF Eq, R
  <2> QED BY <1>0, <1>5a, RecursionExists, Zenon
<1>5. PICK f \in [0 .. N -> UrlReaders] : f[0] = UrlStart(junk) /\ \A i \in 0 + 1 .. N : f[i] = T[i][f[i - 1]]
  BY <1>5b DEF W, x0, Solvable
<1>6. f = Eq(f)
  <2>1. ASSUME NEW i \in 0 .. N PROVE f[i] = IF i = 0 THEN UrlStart(junk) ELSE UrlStep(f[i - 1], i - 1, buf[i])
    <3>1. CASE i = 0
      BY <1>5, <3>1
    <3>2. CASE i # 0
      <4>1. i \in 1 .. N /\ i \in 0 + 1 .. N /\ i - 1 \in 0 .. N
        BY <1>0, <3>2
      <4>2. f[i - 1] \in UrlReaders /\ f[i] = T[i][f[i - 1]]
        BY <1>5, <4>1
      <4> QED BY <1>4, <3>2, <4>1, <4>2
    <3> QED BY <3>1, <3>2
  <2> QED BY <2>1, <1>5
<1>7. R = Eq(R)
  <2> HIDE DEF Eq
  <2> QED BY <1>6
<1> HIDE DEF R
<1>8. R[0] = UrlStart(junk) /\ \A n \in 1 .. N : R[n] = UrlStep(R[n - 1], n - 1, buf[n])
  BY <1>0, <1>7
<1> QED BY <1>1, <1>8 DEF N

LEMMA HostNamesAre ==
  ASSUME NEW s, NEW c
  PROVE  /\ http_parse_host_char(s, c) \in HostNames
         /\ HostField(s) \in {"HOST", "PORT", "USERINFO", "none"}
         /\ HostField(s) # "none" => HostField(s) \in UrlFields
<1>1. http_parse_host_char(s, c) \in HostNames
  BY DEF http_parse_host_char, HostNames
<1>2. HostField(s) \in {"HOST", "PORT", "USERINFO", "none"}
  BY DEF HostField
<1> QED BY <1>1, <1>2 DEF UrlFields

HostStepped(h, n, c) ==
  LET s == http_parse_host_char(h.s, c)
      f == HostField(s)
      v == Extend(h.u, f, n, s # h.s)
      x == HostStep(h, n, c)
  IN  /\ x \in HostReaders /\ x.s = s
      /\ f = "none" => x.u = h.u
      /\ f # "none" => x.u.data = v.data /\ x.u.set = IF f = "HOST" THEN h.u.set ELSE v.set

LEMMA HostStepIs ==
  ASSUME NEW h \in HostReaders, NEW n \in Nat, NEW c
  PROVE  HostStepped(h, n, c)
<1> DEFINE s == http_parse_host_char(h.s, c)
           f == HostField(s)
           v == Extend(h.u, f, n, s # h.s)
           x == HostStep(h, n, c)
<1>1. s \in HostNames /\ (f # "none" => f \in UrlFields)
  BY HostNamesAre
<1>2. h.s \in HostNames /\ h.u \in Structs /\ h = [s |-> h.s, u |-> h.u]
  BY DEF HostReaders
<1>3. x = IF f = "none" THEN [h EXCEPT !.s = s]
          ELSE [s |-> s, u |-> [v EXCEPT !.set = IF f = "HOST" THEN h.u.set ELSE @]]
  BY DEF HostStep
<1>4. f # "none" => v \in Structs
  BY <1>1, <1>2, ExtendIs DEF IsExtended
<1> HIDE DEF s, f, x, v
<1>5. CASE f = "none"
  <2>1. x = [s |-> s, u |-> h.u]
    BY <1>2, <1>3, <1>5
  <2>2. x \in HostReaders /\ x.s = s /\ x.u = h.u
    BY <1>1, <1>2, <2>1 DEF HostReaders
  <2> QED BY <1>5, <2>2 DEF HostStepped, s, f, x, v
<1>6. CASE f # "none"
  <2> DEFINE w == [set |-> IF f = "HOST" THEN h.u.set ELSE v.set, data |-> v.data]
  <2>1. v \in Structs /\ v.set \in SUBSET UrlFields /\ v.data \in [UrlFields -> Extents]
        /\ v = [set |-> v.set, data |-> v.data] /\ h.u.set \in SUBSET UrlFields
    BY <1>2, <1>4, <1>6 DEF Structs
  <2>2. [v EXCEPT !.set = IF f = "HOST" THEN h.u.set ELSE @] = w
    BY <2>1
  <2>3. x = [s |-> s, u |-> w]
    BY <1>3, <1>6, <2>2
  <2>4. w \in Structs /\ w.set = (IF f = "HOST" THEN h.u.set ELSE v.set) /\ w.data = v.data
    BY <2>1 DEF Structs
  <2> HIDE DEF w
  <2>5. x \in HostReaders /\ x.s = s /\ x.u = w
    BY <1>1, <2>3, <2>4 DEF HostReaders
  <2>6. x.u.data = v.data /\ x.u.set = IF f = "HOST" THEN h.u.set ELSE v.set
    BY <2>4, <2>5
  <2> QED BY <1>6, <2>5, <2>6 DEF HostStepped, s, f, x, v
<1> QED BY <1>5, <1>6

HostStart(u, found_at) == [s |-> IF found_at THEN "userinfo_start" ELSE "host_start",
                           u |-> [u EXCEPT !.data["HOST"].len = 0]]

LEMMA HostStartIs ==
  ASSUME NEW u \in Structs, NEW found_at \in BOOLEAN
  PROVE  LET h == HostStart(u, found_at)
         IN  /\ h \in HostReaders /\ h.u.set = u.set
             /\ h.s = IF found_at THEN "userinfo_start" ELSE "host_start"
             /\ h.u.data["HOST"].len = 0
             /\ \A g \in UrlFields : g # "HOST" => h.u.data[g] = u.data[g]
<1> DEFINE x == [off |-> u.data["HOST"].off, len |-> 0]
           w == [set |-> u.set, data |-> [u.data EXCEPT !["HOST"] = x]]
           t == IF found_at THEN "userinfo_start" ELSE "host_start"
<1>1. /\ u.set \in SUBSET UrlFields /\ u.data \in [UrlFields -> Extents] /\ "HOST" \in UrlFields
      /\ u = [set |-> u.set, data |-> u.data]
  BY DEF Structs, UrlFields
<1>2. u.data["HOST"] \in Extents /\ UINT16_MAX \in Nat
  BY <1>1, UrlAssumption
<1>3. u.data["HOST"] = [off |-> u.data["HOST"].off, len |-> u.data["HOST"].len] /\ x \in Extents
  BY <1>2 DEF Extents
<1>4. [u EXCEPT !.data["HOST"].len = 0] = w
  BY <1>1, <1>3
<1> HIDE DEF x
<1>5. w \in Structs /\ w.set = u.set /\ w.data["HOST"] = x /\ \A g \in UrlFields : g # "HOST" => w.data[g] = u.data[g]
  BY <1>1, <1>3 DEF Structs
<1>6. t \in HostNames /\ x.len = 0
  BY DEF HostNames, x
<1> HIDE DEF w
<1> QED BY <1>4, <1>5, <1>6 DEF HostStart, HostReaders

LEMMA HostReadIs ==
  ASSUME NEW buf \in Seq(STRING), NEW u \in Structs, NEW found_at \in BOOLEAN,
         NEW a \in Nat, NEW b \in Nat, a <= b
  PROVE  LET H == HostRead(buf, u, found_at, a, b)
         IN  /\ H[a] = HostStart(u, found_at)
             /\ \A n \in a + 1 .. b : H[n] = HostStep(H[n - 1], n - 1, IF n <= Len(buf) THEN buf[n] ELSE "8b")
<1> DEFINE T == [i \in a .. b |->
                  [r \in HostReaders |->
                     IF i = a THEN r ELSE HostStep(r, i - 1, IF i <= Len(buf) THEN buf[i] ELSE "8b")]]
           Eq(f) == [n \in a .. b |-> IF n = a THEN HostStart(u, found_at)
                                       ELSE HostStep(f[n - 1], n - 1, IF n <= Len(buf) THEN buf[n] ELSE "8b")]
           H == CHOOSE f : f = Eq(f)
<1>0. Len(buf) \in Nat
  OBVIOUS
<1>1. HostRead(buf, u, found_at, a, b) = H
  BY DEF HostRead, HostStart
<1>2. HostStart(u, found_at) \in HostReaders
  BY HostStartIs
<1>3. T \in [a .. b -> [HostReaders -> HostReaders]]
  <2>1. ASSUME NEW i \in a .. b, NEW r \in HostReaders
        PROVE  (IF i = a THEN r ELSE HostStep(r, i - 1, IF i <= Len(buf) THEN buf[i] ELSE "8b")) \in HostReaders
    <3>1. CASE i = a
      BY <3>1
    <3>2. CASE i # a
      <4>1. i - 1 \in Nat
        BY <1>0, <3>2
      <4> QED BY <3>2, <4>1, HostStepIs DEF HostStepped
    <3> QED BY <3>1, <3>2
  <2> QED BY <2>1
<1>4. \A i \in a + 1 .. b, r \in HostReaders : T[i][r] = HostStep(r, i - 1, IF i <= Len(buf) THEN buf[i] ELSE "8b")
  <2> SUFFICES ASSUME NEW i \in a + 1 .. b, NEW r \in HostReaders
               PROVE  T[i][r] = HostStep(r, i - 1, IF i <= Len(buf) THEN buf[i] ELSE "8b")
    OBVIOUS
  <2>1. i \in a .. b /\ i # a
    OBVIOUS
  <2> QED BY <2>1
<1> HIDE DEF T
<1> DEFINE W == HostReaders
           x0 == HostStart(u, found_at)
<1> HIDE DEF W, x0
<1>5a. x0 \in W /\ T \in [a .. b -> [W -> W]]
  BY <1>2, <1>3 DEF W, x0
<1>5b. Solvable(a, b, W, x0, T)
  <2> HIDE DEF Eq, H
  <2> QED BY <1>5a, RecursionExists, Zenon
<1>5. PICK f \in [a .. b -> HostReaders] : f[a] = HostStart(u, found_at) /\ \A i \in a + 1 .. b : f[i] = T[i][f[i - 1]]
  BY <1>5b DEF W, x0, Solvable
<1>6. f = Eq(f)
  <2>1. ASSUME NEW i \in a .. b
        PROVE  f[i] = IF i = a THEN HostStart(u, found_at)
                      ELSE HostStep(f[i - 1], i - 1, IF i <= Len(buf) THEN buf[i] ELSE "8b")
    <3>1. CASE i = a
      BY <1>5, <3>1
    <3>2. CASE i # a
      <4>1. i \in a + 1 .. b /\ i - 1 \in a .. b
        BY <1>0, <3>2
      <4>2. f[i - 1] \in HostReaders /\ f[i] = T[i][f[i - 1]]
        BY <1>5, <4>1
      <4> QED BY <1>4, <3>2, <4>1, <4>2
    <3> QED BY <3>1, <3>2
  <2> QED BY <2>1, <1>5
<1>7. H = Eq(H)
  <2> HIDE DEF Eq
  <2> QED BY <1>6
<1> HIDE DEF H
<1>8. /\ H[a] = HostStart(u, found_at)
      /\ \A n \in a + 1 .. b : H[n] = HostStep(H[n - 1], n - 1, IF n <= Len(buf) THEN buf[n] ELSE "8b")
  <2>1. \A n \in a .. b : H[n] = IF n = a THEN HostStart(u, found_at)
                      ELSE HostStep(H[n - 1], n - 1, IF n <= Len(buf) THEN buf[n] ELSE "8b")
    BY <1>7
  <2>2. \A n \in a + 1 .. b : n \in a .. b /\ n # a
    BY <1>0
  <2> QED BY <2>1, <2>2
<1> QED BY <1>1, <1>8

-----------------------------------------------------------------------------
(***************************************************************************)
(* Fields laid out in a url: those of F lie in its bytes a..n-1, do not    *)
(* overlap, and leave out delimiters only.                                 *)
(***************************************************************************)
Delimiters == {":", "/", "?", "#", "@", "[", "]"}
Covers(x, i) == x.off <= i /\ i < x.off + x.len

Laid(d, F, url, a, n) ==
  /\ \A f \in F : a <= d[f].off /\ d[f].len > 0 /\ d[f].off + d[f].len <= n
  /\ \A f, g \in F : f # g => d[f].off + d[f].len <= d[g].off \/ d[g].off + d[g].len <= d[f].off
  /\ \A i \in a .. n - 1 : url[i + 1] \in Delimiters \/ \E f \in F : Covers(d[f], i)

Fields == [UrlFields -> Extents]

LEMMA ExtentIs == \A d \in Fields, f \in UrlFields : d[f] \in Extents /\ d[f].off \in Nat /\ d[f].len \in Nat
BY UrlAssumption DEF Fields, Extents

LEMMA LaidDelim ==
  ASSUME NEW d \in Fields, NEW F \in SUBSET UrlFields, NEW url, NEW a \in Nat, NEW n \in Nat,
         Laid(d, F, url, a, n), url[n + 1] \in Delimiters
  PROVE  Laid(d, F, url, a, n + 1)
<1>1. \A f \in F : d[f].off \in Nat /\ d[f].len \in Nat
  BY ExtentIs
<1>2. \A f \in F : a <= d[f].off /\ d[f].len > 0 /\ d[f].off + d[f].len <= n + 1
  BY <1>1 DEF Laid
<1>3. ASSUME NEW i \in a .. (n + 1) - 1
      PROVE  url[i + 1] \in Delimiters \/ \E f \in F : Covers(d[f], i)
  <2>1. i = n \/ i \in a .. n - 1
    OBVIOUS
  <2> QED BY <2>1 DEF Laid
<1> QED BY <1>2, <1>3 DEF Laid

LEMMA LaidNew ==
  ASSUME NEW d \in Fields, NEW e \in Fields, NEW F \in SUBSET UrlFields, NEW url, NEW a \in Nat, NEW n \in Nat, a <= n,
         NEW uf \in UrlFields \ F, Laid(d, F, url, a, n),
         e[uf] = [off |-> n, len |-> 1], \A g \in UrlFields : g # uf => e[g] = d[g]
  PROVE  Laid(e, F \cup {uf}, url, a, n + 1)
<1>1. \A f \in F : d[f].off \in Nat /\ d[f].len \in Nat /\ e[f] = d[f]
  BY ExtentIs
<1>2. e[uf].off = n /\ e[uf].len = 1
  OBVIOUS
<1>3. \A f \in F : a <= e[f].off /\ e[f].len > 0 /\ e[f].off + e[f].len <= n
  BY <1>1 DEF Laid
<1>4. ASSUME NEW f \in F \cup {uf}
      PROVE a <= e[f].off /\ e[f].len > 0 /\ e[f].off + e[f].len <= n + 1
  <2>1. CASE f \in F
    BY <1>1, <1>3, <2>1
  <2>2. CASE f = uf
    BY <1>2, <2>2
  <2> QED BY <2>1, <2>2
<1>5. ASSUME NEW f \in F \cup {uf}, NEW g \in F \cup {uf}, f # g
      PROVE e[f].off + e[f].len <= e[g].off \/ e[g].off + e[g].len <= e[f].off
  <2>1. CASE f \in F /\ g \in F
    BY <1>1, <1>5, <2>1 DEF Laid
  <2>2. CASE f = uf /\ g \in F
    BY <1>2, <1>3, <2>2
  <2>3. CASE g = uf /\ f \in F
    BY <1>2, <1>3, <2>3
  <2> QED BY <1>5, <2>1, <2>2, <2>3
<1>6. ASSUME NEW i \in a .. (n + 1) - 1
      PROVE  url[i + 1] \in Delimiters \/ \E f \in F \cup {uf} : Covers(e[f], i)
  <2>1. CASE i = n
    <3>1. Covers(e[uf], i)
      BY <1>2, <2>1 DEF Covers
    <3> QED BY <3>1
  <2>2. CASE i \in a .. n - 1
    <3>1. url[i + 1] \in Delimiters \/ \E f \in F : Covers(d[f], i)
      BY <2>2 DEF Laid
    <3> QED BY <1>1, <3>1
  <2> QED BY <2>1, <2>2
<1> QED BY <1>4, <1>5, <1>6 DEF Laid

LEMMA LaidMore ==
  ASSUME NEW d \in Fields, NEW e \in Fields, NEW F \in SUBSET UrlFields, NEW url, NEW a \in Nat, NEW n \in Nat, a <= n,
         NEW uf \in F, Laid(d, F, url, a, n), d[uf].off + d[uf].len = n,
         e[uf] = [off |-> d[uf].off, len |-> d[uf].len + 1], \A g \in UrlFields : g # uf => e[g] = d[g]
  PROVE  Laid(e, F, url, a, n + 1)
<1>1. \A f \in F : d[f].off \in Nat /\ d[f].len \in Nat
  BY ExtentIs
<1>2. e[uf].off = d[uf].off /\ e[uf].len = d[uf].len + 1 /\ e[uf].off + e[uf].len = n + 1
  BY <1>1
<1>3. \A f \in F : a <= d[f].off /\ d[f].len > 0 /\ d[f].off + d[f].len <= n
  BY DEF Laid
<1>4. ASSUME NEW f \in F
      PROVE a <= e[f].off /\ e[f].len > 0 /\ e[f].off + e[f].len <= n + 1
  <2>1. CASE f # uf
    <3>1. e[f] = d[f]
      BY <2>1
    <3> QED BY <1>1, <1>3, <3>1
  <2>2. CASE f = uf
    BY <1>1, <1>2, <1>3, <2>2
  <2> QED BY <2>1, <2>2
<1>5. ASSUME NEW f \in F, NEW g \in F, f # g
      PROVE e[f].off + e[f].len <= e[g].off \/ e[g].off + e[g].len <= e[f].off
  <2>0. d[f].off + d[f].len <= d[g].off \/ d[g].off + d[g].len <= d[f].off
    BY <1>5 DEF Laid
  <2>1. CASE f # uf /\ g # uf
    <3>1. e[f] = d[f] /\ e[g] = d[g]
      BY <2>1
    <3> QED BY <2>0, <3>1
  <2>2. CASE f = uf
    <3>1. e[g] = d[g]
      BY <1>5, <2>2
    <3>2. d[g].off + d[g].len <= n /\ d[g].len > 0
      BY <1>3
    <3>3. d[g].off + d[g].len <= d[f].off
      BY <1>1, <2>0, <2>2, <3>2
    <3> QED BY <1>2, <2>2, <3>1, <3>3
  <2>3. CASE g = uf
    <3>1. e[f] = d[f]
      BY <1>5, <2>3
    <3>2. d[f].off + d[f].len <= n /\ d[f].len > 0
      BY <1>3
    <3>3. d[f].off + d[f].len <= d[g].off
      BY <1>1, <2>0, <2>3, <3>2
    <3> QED BY <1>2, <2>3, <3>1, <3>3
  <2> QED BY <2>1, <2>2, <2>3
<1>6. ASSUME NEW i \in a .. (n + 1) - 1
      PROVE  url[i + 1] \in Delimiters \/ \E f \in F : Covers(e[f], i)
  <2>1. CASE i = n
    <3>1. Covers(e[uf], i)
      BY <1>1, <1>2, <1>3, <2>1 DEF Covers
    <3> QED BY <3>1
  <2>2. CASE i \in a .. n - 1
    <3>1. url[i + 1] \in Delimiters \/ \E f \in F : Covers(d[f], i)
      BY <2>2 DEF Laid
    <3>2. ASSUME NEW f \in F, Covers(d[f], i) PROVE Covers(e[f], i)
      <4>1. CASE f = uf
        BY <1>1, <1>2, <3>2, <4>1 DEF Covers
      <4>2. CASE f # uf
        <5>1. e[f] = d[f]
          BY <4>2
        <5> QED BY <3>2, <5>1
      <4> QED BY <4>1, <4>2
    <3> QED BY <3>1, <3>2
  <2> QED BY <2>1, <2>2
<1> QED BY <1>4, <1>5, <1>6 DEF Laid

\* One field of a layout, uf, is laid out itself.
LEMMA LaidWithin ==
  ASSUME NEW d \in Fields, NEW e \in Fields, NEW F \in SUBSET UrlFields, NEW G \in SUBSET UrlFields, NEW url, NEW n \in Nat,
         NEW uf \in F, Laid(d, F, url, 0, n), G \cap (F \ {uf}) = {},
         Laid(e, G, url, d[uf].off, d[uf].off + d[uf].len), \A g \in F \ {uf} : e[g] = d[g]
  PROVE  Laid(e, (F \ {uf}) \cup G, url, 0, n)
<1> DEFINE lo == d[uf].off
           hi == d[uf].off + d[uf].len
           R == (F \ {uf}) \cup G
<1>0. lo \in Nat /\ hi \in Nat /\ lo <= hi /\ hi <= n
  BY ExtentIs DEF Laid
<1>1. \A f \in F \cup G : d[f].off \in Nat /\ d[f].len \in Nat /\ e[f].off \in Nat /\ e[f].len \in Nat
  BY ExtentIs
<1>2. \A f \in G : lo <= e[f].off /\ e[f].len > 0 /\ e[f].off + e[f].len <= hi
  BY DEF Laid
<1>3. \A f \in F : 0 <= d[f].off /\ d[f].len > 0 /\ d[f].off + d[f].len <= n
  BY DEF Laid
<1>4. \A f \in F \ {uf} : hi <= d[f].off \/ d[f].off + d[f].len <= lo
  BY DEF Laid
<1> HIDE DEF lo, hi
<1>5. ASSUME NEW f \in R PROVE 0 <= e[f].off /\ e[f].len > 0 /\ e[f].off + e[f].len <= n
  <2>1. CASE f \in G
    <3>1. lo <= e[f].off /\ e[f].len > 0 /\ e[f].off + e[f].len <= hi
      BY <1>2, <2>1
    <3> QED BY <1>0, <1>1, <2>1, <3>1
  <2>2. CASE f \in F \ {uf}
    BY <1>3, <2>2
  <2> QED BY <2>1, <2>2
<1>6. ASSUME NEW f \in R, NEW g \in R, f # g
      PROVE  e[f].off + e[f].len <= e[g].off \/ e[g].off + e[g].len <= e[f].off
  <2>1. ASSUME NEW x \in G, NEW y \in F \ {uf}
        PROVE  e[x].off + e[x].len <= e[y].off \/ e[y].off + e[y].len <= e[x].off
    <3>1. lo <= e[x].off /\ e[x].off + e[x].len <= hi
      BY <1>2
    <3>2. (hi <= e[y].off \/ e[y].off + e[y].len <= lo) /\ e[y].off \in Nat /\ e[y].len \in Nat
      BY <1>1, <1>4
    <3>3. e[x].off \in Nat /\ e[x].len \in Nat
      BY <1>1
    <3> QED BY <1>0, <3>1, <3>2, <3>3
  <2>2. CASE f \in G /\ g \in G
    BY <1>6, <2>2 DEF Laid
  <2>3. CASE f \in F \ {uf} /\ g \in F \ {uf}
    <3>1. e[f] = d[f] /\ e[g] = d[g] /\ f \in F /\ g \in F
      BY <2>3
    <3> QED BY <1>6, <3>1 DEF Laid
  <2>4. CASE f \in G /\ g \in F \ {uf}
    BY <2>1, <2>4
  <2>5. CASE g \in G /\ f \in F \ {uf}
    BY <2>1, <2>5
  <2> QED BY <2>2, <2>3, <2>4, <2>5
<1>7. ASSUME NEW i \in 0 .. n - 1
      PROVE  url[i + 1] \in Delimiters \/ \E f \in R : Covers(e[f], i)
  <2>1. url[i + 1] \in Delimiters \/ \E f \in F : Covers(d[f], i)
    BY DEF Laid
  <2>2. CASE Covers(d[uf], i)
    <3>1. i \in d[uf].off .. (d[uf].off + d[uf].len) - 1
      BY <1>1, <2>2 DEF Covers
    <3>2. url[i + 1] \in Delimiters \/ \E f \in G : Covers(e[f], i)
      BY <3>1 DEF Laid
    <3> QED BY <3>2
  <2>3. ASSUME NEW f \in F, Covers(d[f], i), f # uf PROVE \E g \in R : Covers(e[g], i)
    <3>1. e[f] = d[f] /\ f \in R
      BY <2>3
    <3> QED BY <2>3, <3>1
  <2> QED BY <2>1, <2>2, <2>3
<1>8. (\A f \in R : 0 <= e[f].off /\ e[f].len > 0 /\ e[f].off + e[f].len <= n)
      /\ (\A f, g \in R : f # g => e[f].off + e[f].len <= e[g].off \/ e[g].off + e[g].len <= e[f].off)
  BY <1>5, <1>6
<1> HIDE DEF R
<1>9. Laid(e, R, url, 0, n)
  BY <1>7, <1>8 DEF Laid
<1> QED BY <1>9 DEF R

LEMMA LaidApart ==
  ASSUME NEW u \in Structs, NEW url, Len(url) \in Nat, Laid(u.data, u.set, url, 0, Len(url))
  PROVE  FieldsApart(url, u)
<1> DEFINE Part(f) == {i \in 0 .. Len(url) - 1 : u.data[f].off <= i /\ i < u.data[f].off + u.data[f].len}
<1>0. u.set \in SUBSET UrlFields /\ u.data \in Fields
  BY DEF Structs, Fields
<1>1. \A f \in u.set : u.data[f].off \in Nat /\ u.data[f].len \in Nat
  BY <1>0, ExtentIs
<1>2. \A f \in u.set : u.data[f].len > 0 /\ u.data[f].off + u.data[f].len <= Len(url)
  BY DEF Laid
<1>3. ASSUME NEW f \in u.set, NEW g \in u.set, f # g PROVE Part(f) \cap Part(g) = {}
  <2>1. u.data[f].off + u.data[f].len <= u.data[g].off \/ u.data[g].off + u.data[g].len <= u.data[f].off
    BY <1>3 DEF Laid
  <2>2. u.data[f].off \in Nat /\ u.data[f].len \in Nat /\ u.data[g].off \in Nat /\ u.data[g].len \in Nat
    BY <1>1
  <2>3. ASSUME NEW i \in Part(f), i \in Part(g) PROVE FALSE
    <3>1. /\ i \in Int /\ u.data[f].off <= i /\ i < u.data[f].off + u.data[f].len
          /\ u.data[g].off <= i /\ i < u.data[g].off + u.data[g].len
      <4>1. i \in 0 .. Len(url) - 1 /\ u.data[f].off <= i /\ i < u.data[f].off + u.data[f].len
        BY <2>3, Zenon
      <4>2. u.data[g].off <= i /\ i < u.data[g].off + u.data[g].len
        BY <2>3, Zenon
      <4> QED BY <4>1, <4>2
    <3>2. \A o, l, m, k \in Nat, j \in Int :
            (o + l <= m \/ m + k <= o) /\ o <= j /\ j < o + l /\ m <= j /\ j < m + k => FALSE
      OBVIOUS
    <3> HIDE DEF Part
    <3> QED BY <2>1, <2>2, <3>1, <3>2
  <2> HIDE DEF Part
  <2> QED BY <2>3
<1>4. \A i \in 0 .. Len(url) - 1 : url[i + 1] \in Delimiters \/ \E f \in u.set : i \in Part(f)
  BY DEF Laid, Covers
<1> HIDE DEF Part
<1>5. \A i \in 0 .. Len(url) - 1 : url[i + 1] \in {":", "/", "?", "#", "@", "[", "]"} \/ \E f \in u.set : i \in Part(f)
  BY <1>4 DEF Delimiters
<1> QED BY <1>2, <1>3, <1>5 DEF FieldsApart, Part

-----------------------------------------------------------------------------
(***************************************************************************)
(* What the loop of http_parser_parse_url has met in a state.              *)
(***************************************************************************)
Reach(s) ==
  CASE s = "s_req_spaces_before_url" -> {}
    [] s \in {"s_req_schema", "s_req_schema_slash", "s_req_schema_slash_slash", "s_req_server_start"} -> {"SCHEMA"}
    [] s \in {"s_req_server", "s_req_server_with_at"} -> {"SCHEMA", "HOST"}
    [] s \in {"s_req_path", "s_req_query_string_start"} -> {"SCHEMA", "HOST", "PATH"}
    [] s \in {"s_req_query_string", "s_req_fragment_start"} -> {"SCHEMA", "HOST", "PATH", "QUERY"}
    [] OTHER -> {"SCHEMA", "HOST", "PATH", "QUERY", "FRAGMENT"}

\* A byte that keeps the parser alive is a delimiter, or belongs to the field
\* of the byte before it, or to one that was not met before.
LEMMA UrlMoves ==
  ASSUME NEW s \in UrlNames, s # "s_dead", NEW c
  PROVE  LET t == parse_url_char(s, c)
             f == UrlField(t)
         IN  t # "s_dead" =>
               /\ Reach(s) \subseteq Reach(t) /\ Reach(t) \subseteq UrlFields \ {"PORT", "USERINFO"}
               /\ f = "none" => c \in Delimiters
               /\ f # "none" => f \in Reach(t) /\ (UrlField(s) = f \/ f \notin Reach(s))
<1> DEFINE t == parse_url_char(s, c)
           f == UrlField(t)
<1> SUFFICES ASSUME t # "s_dead"
             PROVE  /\ Reach(s) \subseteq Reach(t) /\ Reach(t) \subseteq UrlFields \ {"PORT", "USERINFO"}
                    /\ f = "none" => c \in Delimiters
                    /\ f # "none" => f \in Reach(t) /\ (UrlField(s) = f \/ f \notin Reach(s))
  OBVIOUS
<1>0. s \in {"s_req_spaces_before_url", "s_req_schema", "s_req_schema_slash", "s_req_schema_slash_slash",
             "s_req_server_start", "s_req_server", "s_req_server_with_at", "s_req_path", "s_req_query_string_start",
             "s_req_query_string", "s_req_fragment_start", "s_req_fragment"}
  BY DEF UrlNames, UrlStates, UrlServer, UrlQuery, UrlFragment
<1>1. /\ s = "s_req_spaces_before_url" => t \in {"s_req_path", "s_req_schema"}
      /\ s = "s_req_schema" => t \in {"s_req_schema", "s_req_schema_slash"} /\ (t = "s_req_schema_slash" => c = ":")
      /\ s = "s_req_schema_slash" => t = "s_req_schema_slash_slash" /\ c = "/"
      /\ s = "s_req_schema_slash_slash" => t = "s_req_server_start" /\ c = "/"
  BY DEF parse_url_char, UrlServer, UrlQuery, UrlFragment
<1>2. s \in UrlServer => /\ t \in {"s_req_path", "s_req_query_string_start", "s_req_server_with_at", "s_req_server"}
                         /\ t = "s_req_query_string_start" => c = "?"
  BY DEF parse_url_char, UrlServer, UrlQuery, UrlFragment
<1>3. s = "s_req_path" => /\ t \in {"s_req_path", "s_req_query_string_start", "s_req_fragment_start"}
                          /\ t # "s_req_path" => c \in {"?", "#"}
  BY DEF parse_url_char, UrlServer, UrlQuery, UrlFragment
<1>4. s \in UrlQuery => /\ t \in {"s_req_query_string", "s_req_fragment_start"}
                        /\ t = "s_req_fragment_start" => c = "#"
  BY DEF parse_url_char, UrlServer, UrlQuery, UrlFragment
<1>5. s \in UrlFragment => /\ t \in UrlFragment
                           /\ s = "s_req_fragment_start" /\ t = s => c = "#"
                           /\ s = "s_req_fragment" => t = s
  BY DEF parse_url_char, UrlServer, UrlQuery, UrlFragment
<1> HIDE DEF t
<1> USE DEF f, Reach, UrlField, Delimiters, UrlFields
<1>6. CASE s = "s_req_spaces_before_url"
  BY <1>1, <1>6
<1>7. CASE s \in {"s_req_schema", "s_req_schema_slash", "s_req_schema_slash_slash"}
  BY <1>1, <1>7
<1>8. CASE s \in UrlServer
  BY <1>2, <1>8 DEF UrlServer
<1>9. CASE s = "s_req_path"
  BY <1>3, <1>9
<1>10. CASE s \in UrlQuery
  BY <1>4, <1>10 DEF UrlQuery
<1>11. CASE s \in UrlFragment
  BY <1>5, <1>11 DEF UrlFragment
<1> QED BY <1>0, <1>6, <1>7, <1>8, <1>9, <1>10, <1>11 DEF UrlServer, UrlQuery, UrlFragment

LEMMA UrlDead == \A c : parse_url_char("s_dead", c) = "s_dead"
BY DEF parse_url_char, UrlServer, UrlQuery, UrlFragment

\* The same for the loop of http_parse_host.
HostReach(s) ==
  CASE s = "userinfo_start" -> {}
    [] s \in {"userinfo", "host_start", "host_v6_start"} -> {"USERINFO"}
    [] s \in {"host", "host_v6", "host_v6_end", "host_port_start"} -> {"USERINFO", "HOST"}
    [] OTHER -> {"USERINFO", "HOST", "PORT"}

WithHost == {"host", "host_v6", "host_v6_end", "host_port_start", "host_port"}

LEMMA HostMoves ==
  ASSUME NEW s \in HostNames, s # "host_dead", NEW c
  PROVE  LET t == http_parse_host_char(s, c)
             f == HostField(t)
         IN  t # "host_dead" =>
               /\ HostReach(s) \subseteq HostReach(t)
               /\ f = "none" => c \in Delimiters
               /\ f # "none" => f \in HostReach(t) /\ (s = t \/ f \notin HostReach(s))
               /\ t \in WithHost => s \in WithHost \/ f = "HOST"
<1> DEFINE t == http_parse_host_char(s, c)
           f == HostField(t)
<1> SUFFICES ASSUME t # "host_dead"
             PROVE  /\ HostReach(s) \subseteq HostReach(t)
                    /\ f = "none" => c \in Delimiters
                    /\ f # "none" => f \in HostReach(t) /\ (s = t \/ f \notin HostReach(s))
                    /\ t \in WithHost => s \in WithHost \/ f = "HOST"
  OBVIOUS
<1>1. /\ s \in {"userinfo_start", "userinfo"} => t = "userinfo" \/ (t = "host_start" /\ c = "@")
      /\ s = "host_start" => t = "host" \/ (t = "host_v6_start" /\ c = "[")
      /\ s = "host" => t = "host" \/ (t = "host_port_start" /\ c = ":")
      /\ s \in {"host_v6_start", "host_v6"} => t = "host_v6" \/ (s = "host_v6" /\ t = "host_v6_end" /\ c = "]")
  <2>1. s \in {"userinfo_start", "userinfo"} => t = "userinfo" \/ (t = "host_start" /\ c = "@")
    BY DEF http_parse_host_char
  <2>2. s = "host_start" => t = "host" \/ (t = "host_v6_start" /\ c = "[")
    BY DEF http_parse_host_char
  <2>3. s = "host" => t = "host" \/ (t = "host_port_start" /\ c = ":")
    BY DEF http_parse_host_char
  <2>4. s \in {"host_v6_start", "host_v6"} => t = "host_v6" \/ (s = "host_v6" /\ t = "host_v6_end" /\ c = "]")
    BY DEF http_parse_host_char
  <2> QED BY <2>1, <2>2, <2>3, <2>4
<1>2. /\ s = "host_v6_end" => t = "host_port_start" /\ c = ":"
      /\ s \in {"host_port_start", "host_port"} => t = "host_port"
  BY DEF http_parse_host_char
<1> HIDE DEF t
<1> USE DEF f, HostReach, HostField, Delimiters, WithHost
<1>3. CASE s \in {"userinfo_start", "userinfo"}
  BY <1>1, <1>3
<1>4. CASE s = "host_start"
  BY <1>1, <1>4
<1>5. CASE s = "host"
  BY <1>1, <1>5
<1>6. CASE s \in {"host_v6_start", "host_v6"}
  BY <1>1, <1>6
<1>7. CASE s \in {"host_v6_end", "host_port_start", "host_port"}
  BY <1>2, <1>7
<1> QED BY <1>3, <1>4, <1>5, <1>6, <1>7 DEF HostNames

LEMMA HostDead == \A c : http_parse_host_char("host_dead", c) = "host_dead"
BY DEF http_parse_host_char

-----------------------------------------------------------------------------
(***************************************************************************)
(* The loop of http_parser_parse_url, after n bytes.                       *)
(***************************************************************************)
UrlReadFits(r, url, junk, n) ==
  /\ r \in UrlReaders
  /\ "HOST" \notin r.u.set => r.u.data["HOST"] = junk["HOST"]
  /\ r.s # "s_dead" =>
       /\ Laid(r.u.data, r.u.set, url, 0, n)
       /\ r.u.set \subseteq Reach(r.s)
       /\ r.old \in Reach(r.s) \cup {"MAX"}
       /\ UrlField(r.s) # "none" =>
            /\ r.old = UrlField(r.s) /\ r.old \in r.u.set
            /\ r.u.data[r.old].off + r.u.data[r.old].len = n

LEMMA UrlReadStep ==
  ASSUME NEW r, NEW url, NEW junk, NEW n \in Nat, n < UINT16_MAX, UrlReadFits(r, url, junk, n)
  PROVE  UrlReadFits(UrlStep(r, n, url[n + 1]), url, junk, n + 1)
<1> DEFINE c == url[n + 1]
           s == parse_url_char(r.s, c)
           f == UrlField(s)
           x == UrlStep(r, n, c)
           new == f # r.old
           v == Extend(r.u, f, n, new)
<1>0. UINT16_MAX \in Nat /\ n <= UINT16_MAX
  BY UrlAssumption
<1>1. /\ r \in UrlReaders /\ r.u \in Structs /\ r.s \in UrlNames /\ r.u.set \in SUBSET UrlFields /\ r.u.data \in Fields
      /\ "HOST" \notin r.u.set => r.u.data["HOST"] = junk["HOST"]
  BY DEF UrlReadFits, UrlReaders, Structs, Fields
<1>2. /\ x \in UrlReaders /\ x.s = s
      /\ f = "none" => x.old = r.old /\ x.u = r.u /\ x.at = r.at
      /\ f # "none" => x.old = f /\ x.u = v
  BY <1>1, UrlStepIs, Zenon
<1>3. f \in UrlFields \/ f = "none"
  BY UrlNamesAre
<1> HIDE DEF x
<1>4. ASSUME f # "none"
      PROVE  /\ v \in Structs /\ v.set = r.u.set \cup {f}
             /\ \A g \in UrlFields : g # f => v.data[g] = r.u.data[g]
             /\ f # r.old => v.data[f] = [off |-> n, len |-> 1]
             /\ f = r.old /\ r.u.data[f].len < UINT16_MAX =>
                  v.data[f] = [off |-> r.u.data[f].off, len |-> r.u.data[f].len + 1]
  <2>1. f \in UrlFields
    BY <1>3, <1>4
  <2>2. new \in BOOLEAN /\ (f # r.old => new = TRUE) /\ (f = r.old => new = FALSE)
    OBVIOUS
  <2> HIDE DEF new, f
  <2>3. IsExtended(r.u, f, n, new, v)
    BY <1>1, <2>1, <2>2, ExtendIs
  <2> HIDE DEF v
  <2> QED BY <1>0, <2>2, <2>3 DEF IsExtended
<1> HIDE DEF v
<1>5. "HOST" \notin x.u.set => x.u.data["HOST"] = junk["HOST"]
  <2>1. CASE f = "none"
    BY <1>1, <1>2, <2>1
  <2>2. CASE f # "none"
    <3> SUFFICES ASSUME "HOST" \notin x.u.set PROVE x.u.data["HOST"] = junk["HOST"]
      OBVIOUS
    <3>1. "HOST" # f /\ "HOST" \notin r.u.set /\ "HOST" \in UrlFields
      BY <1>2, <1>4, <2>2 DEF UrlFields
    <3> QED BY <1>1, <1>2, <1>4, <2>2, <3>1
  <2> QED BY <2>1, <2>2
<1>6. ASSUME s # "s_dead"
      PROVE  /\ Laid(x.u.data, x.u.set, url, 0, n + 1)
             /\ x.u.set \subseteq Reach(s)
             /\ x.old \in Reach(s) \cup {"MAX"}
             /\ f # "none" => /\ x.old = f /\ x.old \in x.u.set
                              /\ x.u.data[x.old].off + x.u.data[x.old].len = n + 1
  <2>1. r.s # "s_dead"
    BY <1>6, UrlDead
  <2>2. /\ Laid(r.u.data, r.u.set, url, 0, n)
        /\ r.u.set \subseteq Reach(r.s)
        /\ r.old \in Reach(r.s) \cup {"MAX"}
        /\ UrlField(r.s) # "none" =>
             /\ r.old = UrlField(r.s) /\ r.old \in r.u.set
             /\ r.u.data[r.old].off + r.u.data[r.old].len = n
    BY <2>1 DEF UrlReadFits
  <2>3. /\ Reach(r.s) \subseteq Reach(s)
        /\ f = "none" => c \in Delimiters
        /\ f # "none" => f \in Reach(s) /\ (UrlField(r.s) = f \/ f \notin Reach(r.s))
    BY <1>1, <1>6, <2>1, UrlMoves, Zenon
  <2>4. CASE f = "none"
    <3>1. Laid(r.u.data, r.u.set, url, 0, n + 1)
      BY <1>1, <2>2, <2>3, <2>4, LaidDelim
    <3> QED BY <1>2, <2>2, <2>3, <2>4, <3>1
  <2>5. CASE f # "none" /\ UrlField(r.s) = f
    <3>1. f = r.old /\ f \in r.u.set /\ r.u.data[f].off + r.u.data[f].len = n
      BY <2>2, <2>5
    <3>2. r.u.data[f].off \in Nat /\ r.u.data[f].len \in Nat
      BY <1>1, <3>1, ExtentIs
    <3>3. r.u.data[f].len < UINT16_MAX
      BY <1>0, <3>1, <3>2
    <3>4. x.u = v /\ v \in Structs /\ v.set = r.u.set /\ x.old = f
      BY <1>2, <1>4, <2>5, <3>1
    <3>5. v.data[f] = [off |-> r.u.data[f].off, len |-> r.u.data[f].len + 1]
          /\ \A g \in UrlFields : g # f => v.data[g] = r.u.data[g]
      BY <1>4, <2>5, <3>1, <3>3
    <3>6. v.data \in Fields
      BY <3>4 DEF Structs, Fields
    <3> HIDE DEF f
    <3>7. Laid(v.data, v.set, url, 0, n + 1)
      BY <1>1, <2>2, <3>1, <3>4, <3>5, <3>6, LaidMore
    <3>8. v.data[f].off + v.data[f].len = n + 1
      <4>1. v.data[f].off = r.u.data[f].off /\ v.data[f].len = r.u.data[f].len + 1
        BY <3>5
      <4> QED BY <3>1, <3>2, <4>1
    <3> QED BY <2>2, <2>3, <2>5, <3>1, <3>4, <3>7, <3>8
  <2>6. CASE f # "none" /\ UrlField(r.s) # f
    <3>1. f \notin Reach(r.s) /\ f # "MAX"
      BY <1>3, <2>3, <2>6 DEF UrlFields
    <3>2. f # r.old /\ f \notin r.u.set
      BY <2>2, <3>1
    <3>3. x.u = v /\ v \in Structs /\ v.set = r.u.set \cup {f} /\ x.old = f
      BY <1>2, <1>4, <2>6
    <3>4. v.data[f] = [off |-> n, len |-> 1] /\ \A g \in UrlFields : g # f => v.data[g] = r.u.data[g]
      BY <1>0, <1>4, <2>6, <3>2
    <3>5. v.data \in Fields /\ f \in UrlFields \ r.u.set /\ 0 <= n
      BY <1>3, <2>6, <3>2, <3>3 DEF Structs, Fields
    <3> HIDE DEF f
    <3>6. Laid(v.data, r.u.set \cup {f}, url, 0, n + 1)
      BY <1>1, <2>2, <3>4, <3>5, LaidNew
    <3>7. v.data[f].off + v.data[f].len = n + 1
      <4>1. v.data[f].off = n /\ v.data[f].len = 1
        BY <3>4
      <4> QED BY <4>1
    <3>8. Laid(x.u.data, x.u.set, url, 0, n + 1)
      BY <3>3, <3>6
    <3>9. x.u.set \subseteq Reach(s) /\ x.old \in Reach(s) \cup {"MAX"}
      BY <2>2, <2>3, <2>6, <3>3
    <3>10. x.old = f /\ x.old \in x.u.set /\ x.u.data[x.old].off + x.u.data[x.old].len = n + 1
      BY <3>3, <3>7
    <3> HIDE DEF s
    <3> QED BY <3>8, <3>9, <3>10
  <2> QED BY <2>4, <2>5, <2>6
<1> HIDE DEF s, f
<1>7. UrlReadFits(x, url, junk, n + 1)
  BY <1>2, <1>5, <1>6 DEF UrlReadFits, f
<1> QED BY <1>7 DEF x

LEMMA UrlReadLaid ==
  ASSUME NEW url \in Seq(STRING), Len(url) <= UINT16_MAX, NEW junk \in Fields
  PROVE  \A n \in 0 .. Len(url) : UrlReadFits(UrlRead(url, FALSE, junk)[n], url, junk, n)
<1> DEFINE R == UrlRead(url, FALSE, junk)
           A == {n \in 0 .. Len(url) : UrlReadFits(R[n], url, junk, n)}
<1>0. Len(url) \in Nat /\ UINT16_MAX \in Nat
  BY UrlAssumption
<1>1. R[0] = UrlStart(junk) /\ \A n \in 1 .. Len(url) : R[n] = UrlStep(R[n - 1], n - 1, url[n])
  BY UrlReadIs DEF Fields
<1> HIDE DEF R
<1>2. UrlReadFits(R[0], url, junk, 0)
  <2> DEFINE r == UrlStart(junk)
  <2>1. /\ r.s = "s_req_spaces_before_url" /\ r.old = "MAX" /\ r.u.set = {} /\ r.u.data = junk
        /\ r \in UrlReaders
    BY DEF UrlStart, UrlReaders, UrlNames, Structs, Fields
  <2>2. Laid(junk, {}, url, 0, 0)
    BY DEF Laid
  <2>3. UrlField("s_req_spaces_before_url") = "none" /\ Reach("s_req_spaces_before_url") = {}
    BY DEF UrlField, Reach
  <2> HIDE DEF r
  <2>4. UrlReadFits(r, url, junk, 0)
    BY <2>1, <2>2, <2>3 DEF UrlReadFits
  <2> QED BY <1>1, <2>4 DEF r
<1>3. 0 \in A
  BY <1>0, <1>2
<1>4. ASSUME NEW n \in 0 .. Len(url), n \in A, n < Len(url) PROVE n + 1 \in A
  <2>1. n \in Nat /\ n < UINT16_MAX /\ n + 1 \in 1 .. Len(url) /\ n + 1 \in 0 .. Len(url) /\ (n + 1) - 1 = n
    BY <1>0, <1>4
  <2>2. R[n + 1] = UrlStep(R[n], n, url[n + 1])
    BY <1>1, <2>1
  <2>3. UrlReadFits(R[n], url, junk, n)
    BY <1>4
  <2>4. UrlReadFits(R[n + 1], url, junk, n + 1)
    BY <2>1, <2>2, <2>3, UrlReadStep
  <2> QED BY <2>1, <2>4
<1> HIDE DEF A
<1>5. \A n \in 0 .. Len(url) : n \in A
  BY <1>0, <1>3, <1>4, Upwards
<1> QED BY <1>5 DEF A, R

-----------------------------------------------------------------------------
(***************************************************************************)
(* The loop of http_parse_host, from offset a, at offset n.                *)
(***************************************************************************)
HostParts == {"HOST", "PORT", "USERINFO"}

\* The parts of a host found so far: nobody sets the bit of HOST.
Found(h) == {f \in HostParts : IF f = "HOST" THEN h.u.data[f].len > 0 ELSE f \in h.u.set}

\* It touches nothing else.
HostKeeps(h, u) ==
  /\ h \in HostReaders
  /\ u.set \subseteq h.u.set /\ h.u.set \subseteq u.set \cup {"PORT", "USERINFO"}
  /\ \A g \in UrlFields \ HostParts : h.u.data[g] = u.data[g]

HostReadFits(h, url, a, n) ==
  h.s # "host_dead" =>
    /\ Laid(h.u.data, Found(h), url, a, n)
    /\ Found(h) \subseteq HostReach(h.s)
    /\ h.s \in WithHost => "HOST" \in Found(h)
    /\ HostField(h.s) # "none" =>
         /\ HostField(h.s) \in Found(h)
         /\ h.u.data[HostField(h.s)].off + h.u.data[HostField(h.s)].len = n

LEMMA HostStepKeeps ==
  ASSUME NEW h, NEW u \in Structs, NEW n \in Nat, NEW c, HostKeeps(h, u)
  PROVE  HostKeeps(HostStep(h, n, c), u)
<1> DEFINE s == http_parse_host_char(h.s, c)
           f == HostField(s)
           new == s # h.s
           v == Extend(h.u, f, n, new)
           x == HostStep(h, n, c)
<1>1. h \in HostReaders /\ h.u \in Structs
  BY DEF HostKeeps, HostReaders
<1>2. /\ x \in HostReaders /\ x.s = s
      /\ f = "none" => x.u = h.u
      /\ f # "none" => x.u.data = v.data /\ x.u.set = IF f = "HOST" THEN h.u.set ELSE v.set
  <2>1. HostStepped(h, n, c)
    BY <1>1, HostStepIs
  <2> QED BY <2>1 DEF HostStepped
<1>3. f \in HostParts \/ f = "none"
  BY HostNamesAre DEF HostParts
<1> HIDE DEF x
<1>4. CASE f = "none"
  <2>1. HostKeeps(x, u)
    BY <1>2, <1>4 DEF HostKeeps
  <2> QED BY <2>1 DEF x
<1>5. CASE f # "none"
  <2>1. f \in HostParts /\ f \in UrlFields /\ HostParts \subseteq UrlFields /\ new \in BOOLEAN
    BY <1>3, <1>5 DEF HostParts, UrlFields
  <2> HIDE DEF f, new
  <2>2. IsExtended(h.u, f, n, new, v)
    BY <1>1, <2>1, ExtendIs
  <2> HIDE DEF v
  <2>3. v.set = h.u.set \cup {f} /\ \A g \in UrlFields : g # f => v.data[g] = h.u.data[g]
    BY <2>2 DEF IsExtended
  <2>4. x.u.set = h.u.set \/ (x.u.set = h.u.set \cup {f} /\ f \in {"PORT", "USERINFO"})
    BY <1>2, <1>5, <2>1, <2>3 DEF HostParts
  <2>5. \A g \in UrlFields \ HostParts : x.u.data[g] = h.u.data[g]
    BY <1>2, <1>5, <2>1, <2>3
  <2>6. HostKeeps(x, u)
    BY <1>2, <2>4, <2>5 DEF HostKeeps
  <2> QED BY <2>6 DEF x
<1> QED BY <1>4, <1>5

LEMMA HostReadStep ==
  ASSUME NEW h \in HostReaders, NEW url, NEW a \in Nat, NEW n \in Nat, a <= n, n < UINT16_MAX, HostReadFits(h, url, a, n)
  PROVE  HostReadFits(HostStep(h, n, url[n + 1]), url, a, n + 1)
<1> DEFINE c == url[n + 1]
           s == http_parse_host_char(h.s, c)
           f == HostField(s)
           new == s # h.s
           v == Extend(h.u, f, n, new)
           x == HostStep(h, n, c)
<1>0. UINT16_MAX \in Nat /\ n <= UINT16_MAX
  BY UrlAssumption
<1>1. h.s \in HostNames /\ h.u \in Structs /\ h.u.set \in SUBSET UrlFields /\ h.u.data \in Fields
  BY DEF HostReaders, Structs, Fields
<1>2. /\ x \in HostReaders /\ x.s = s
      /\ f = "none" => x.u = h.u
      /\ f # "none" => x.u.data = v.data /\ x.u.set = IF f = "HOST" THEN h.u.set ELSE v.set
  <2>1. HostStepped(h, n, c)
    BY HostStepIs
  <2> QED BY <2>1 DEF HostStepped
<1>3. (f \in HostParts \/ f = "none") /\ HostParts \subseteq UrlFields
  BY HostNamesAre DEF HostParts, UrlFields
<1> HIDE DEF x
<1>4. SUFFICES ASSUME s # "host_dead"
      PROVE  /\ Laid(x.u.data, Found(x), url, a, n + 1)
             /\ Found(x) \subseteq HostReach(s)
             /\ s \in WithHost => "HOST" \in Found(x)
             /\ f # "none" => f \in Found(x) /\ x.u.data[f].off + x.u.data[f].len = n + 1
  <2> HIDE DEF s, f
  <2>1. HostReadFits(x, url, a, n + 1)
    BY <1>2 DEF HostReadFits, f
  <2> QED BY <2>1 DEF x
<1>5. h.s # "host_dead"
  BY <1>4, HostDead
<1>6. /\ Laid(h.u.data, Found(h), url, a, n)
      /\ Found(h) \subseteq HostReach(h.s)
      /\ h.s \in WithHost => "HOST" \in Found(h)
      /\ HostField(h.s) # "none" =>
           /\ HostField(h.s) \in Found(h)
           /\ h.u.data[HostField(h.s)].off + h.u.data[HostField(h.s)].len = n
  BY <1>5 DEF HostReadFits
<1>7. /\ HostReach(h.s) \subseteq HostReach(s)
      /\ f = "none" => c \in Delimiters
      /\ f # "none" => f \in HostReach(s) /\ (h.s = s \/ f \notin HostReach(h.s))
      /\ s \in WithHost => h.s \in WithHost \/ f = "HOST"
  BY <1>1, <1>4, <1>5, HostMoves, Zenon
<1>8. Found(h) \in SUBSET UrlFields
  BY <1>3 DEF Found
<1>9. CASE f = "none"
  <2>1. Laid(h.u.data, Found(h), url, a, n + 1)
    BY <1>1, <1>6, <1>7, <1>8, <1>9, LaidDelim
  <2>2. x.u = h.u /\ Found(x) = Found(h)
    BY <1>2, <1>9 DEF Found
  <2>3. s \in WithHost => "HOST" \in Found(x)
    BY <1>6, <1>7, <1>9, <2>2
  <2> HIDE DEF s, f
  <2>4. Laid(x.u.data, Found(x), url, a, n + 1)
    BY <2>1, <2>2
  <2>5. Found(x) \subseteq HostReach(s)
    BY <1>6, <1>7, <2>2
  <2> QED BY <1>9, <2>3, <2>4, <2>5
<1>10. CASE f # "none"
  <2>1. /\ new \in BOOLEAN /\ (s # h.s => new = TRUE) /\ (s = h.s => new = FALSE) /\ (s = h.s => HostField(h.s) = f)
        /\ f \in UrlFields /\ f \in HostParts
    BY <1>3, <1>10
  <2> HIDE DEF s, f, new
  <2>2. IsExtended(h.u, f, n, new, v)
    BY <1>1, <2>1, ExtendIs
  <2> HIDE DEF v
  <2>3. /\ v \in Structs /\ v.set = h.u.set \cup {f}
        /\ \A g \in UrlFields : g # f => v.data[g] = h.u.data[g]
        /\ s # h.s => v.data[f] = [off |-> n, len |-> 1]
        /\ s = h.s /\ h.u.data[f].len < UINT16_MAX =>
             v.data[f] = [off |-> h.u.data[f].off, len |-> h.u.data[f].len + 1]
    BY <1>0, <2>1, <2>2 DEF IsExtended
  <2>4. /\ x.u.data = v.data /\ x.u.data \in Fields
        /\ f # "HOST" => x.u.set = h.u.set \cup {f}
        /\ f = "HOST" => x.u.set = h.u.set
    BY <1>2, <1>10, <2>3 DEF Structs, Fields
  <2>5. ASSUME x.u.data[f].len > 0 PROVE Found(x) = Found(h) \cup {f}
    <3>1. ASSUME NEW g \in HostParts, g # f PROVE g \in Found(x) <=> g \in Found(h)
      <4>1. x.u.data[g] = h.u.data[g]
        BY <1>3, <2>3, <2>4, <3>1
      <4>2. g # "HOST" => (g \in x.u.set <=> g \in h.u.set)
        BY <2>4, <3>1
      <4> QED BY <4>1, <4>2 DEF Found
    <3>2. f \in Found(x)
      <4>1. CASE f = "HOST"
        BY <2>1, <2>5, <4>1 DEF Found
      <4>2. CASE f # "HOST"
        <5>1. f \in x.u.set
          BY <2>4, <4>2
        <5> QED BY <2>1, <4>2, <5>1 DEF Found
      <4> QED BY <4>1, <4>2
    <3>3. Found(x) \subseteq HostParts /\ Found(h) \subseteq HostParts
      BY DEF Found
    <3> QED BY <2>1, <3>1, <3>2, <3>3
  <2>6. CASE s = h.s
    <3>1. f \in Found(h) /\ h.u.data[f].off + h.u.data[f].len = n
      BY <1>6, <1>10, <2>1, <2>6
    <3>2. h.u.data[f].off \in Nat /\ h.u.data[f].len \in Nat
      BY <1>1, <2>1, ExtentIs
    <3>3. h.u.data[f].len < UINT16_MAX
      BY <1>0, <3>1, <3>2
    <3>4. x.u.data[f] = [off |-> h.u.data[f].off, len |-> h.u.data[f].len + 1]
          /\ \A g \in UrlFields : g # f => x.u.data[g] = h.u.data[g]
      BY <2>3, <2>4, <2>6, <3>3
    <3>5. x.u.data[f].off = h.u.data[f].off /\ x.u.data[f].len = h.u.data[f].len + 1
      BY <3>4
    <3>6. x.u.data[f].len > 0 /\ x.u.data[f].off + x.u.data[f].len = n + 1
      BY <3>1, <3>2, <3>5
    <3>7. Found(x) = Found(h)
      BY <2>5, <3>1, <3>6
    <3>8. Laid(x.u.data, Found(h), url, a, n + 1)
      BY <1>1, <1>6, <1>8, <2>4, <3>1, <3>4, LaidMore
    <3>9. Found(x) \subseteq HostReach(s) /\ (s \in WithHost => "HOST" \in Found(x))
      BY <1>6, <2>6, <3>7
    <3>10. f \in Found(x) /\ Laid(x.u.data, Found(x), url, a, n + 1)
      BY <3>1, <3>7, <3>8
    <3> QED BY <3>6, <3>9, <3>10
  <2>7. CASE s # h.s
    <3>1. f \notin Found(h)
      BY <1>6, <1>7, <1>10, <2>7
    <3>2. x.u.data[f] = [off |-> n, len |-> 1] /\ \A g \in UrlFields : g # f => x.u.data[g] = h.u.data[g]
      BY <2>3, <2>4, <2>7
    <3>3. x.u.data[f].off = n /\ x.u.data[f].len = 1
      BY <3>2
    <3>4. Found(x) = Found(h) \cup {f} /\ x.u.data[f].off + x.u.data[f].len = n + 1
      BY <2>5, <3>3
    <3>5. f \in UrlFields \ Found(h)
      BY <2>1, <3>1
    <3>6. Laid(x.u.data, Found(h) \cup {f}, url, a, n + 1)
      BY <1>1, <1>6, <1>8, <2>4, <3>2, <3>5, LaidNew
    <3>7. Found(x) \subseteq HostReach(s)
      BY <1>6, <1>7, <1>10, <3>4
    <3>8. s \in WithHost => "HOST" \in Found(x)
      BY <1>6, <1>7, <3>4
    <3>9. Laid(x.u.data, Found(x), url, a, n + 1) /\ f \in Found(x)
      BY <3>4, <3>6
    <3> QED BY <3>4, <3>7, <3>8, <3>9
  <2> QED BY <2>6, <2>7
<1> QED BY <1>9, <1>10

LEMMA HostReadLaid ==
  ASSUME NEW url \in Seq(STRING), NEW u \in Structs, NEW found_at \in BOOLEAN,
         NEW a \in Nat, NEW b \in Nat, a <= b, u.set \cap {"PORT", "USERINFO"} = {}
  PROVE  LET H == HostRead(url, u, found_at, a, b)
         IN  \A n \in a .. b : /\ HostKeeps(H[n], u)
                               /\ b <= Len(url) /\ Len(url) <= UINT16_MAX => HostReadFits(H[n], url, a, n)
<1> DEFINE H == HostRead(url, u, found_at, a, b)
           short == b <= Len(url) /\ Len(url) <= UINT16_MAX
           A == {n \in a .. b : HostKeeps(H[n], u) /\ (short => HostReadFits(H[n], url, a, n))}
           h0 == HostStart(u, found_at)
<1>0. Len(url) \in Nat /\ UINT16_MAX \in Nat /\ a \in a .. b
  BY UrlAssumption
<1>1. /\ H[a] = h0
      /\ \A n \in a + 1 .. b : H[n] = HostStep(H[n - 1], n - 1, IF n <= Len(url) THEN url[n] ELSE "8b")
  BY HostReadIs
<1>2. /\ h0 \in HostReaders /\ h0.u.set = u.set
      /\ h0.s = IF found_at THEN "userinfo_start" ELSE "host_start"
      /\ h0.u.data["HOST"].len = 0
      /\ \A g \in UrlFields : g # "HOST" => h0.u.data[g] = u.data[g]
  BY HostStartIs
<1> HIDE DEF H, h0, short
<1>3. HostKeeps(h0, u)
  BY <1>2 DEF HostKeeps, HostParts
<1>4. HostReadFits(h0, url, a, a)
  <2>1. Found(h0) = {}
    BY <1>2 DEF Found, HostParts
  <2>2. h0.s \notin WithHost /\ HostField(h0.s) = "none"
    BY <1>2 DEF WithHost, HostField
  <2>3. Laid(h0.u.data, {}, url, a, a)
    BY DEF Laid
  <2> QED BY <2>1, <2>2, <2>3 DEF HostReadFits
<1>5. a \in A
  BY <1>0, <1>1, <1>3, <1>4
<1>6. ASSUME NEW n \in a .. b, n \in A, n < b PROVE n + 1 \in A
  <2>1. n \in Nat /\ a <= n /\ n + 1 \in a .. b /\ n + 1 \in a + 1 .. b /\ (n + 1) - 1 = n
    BY <1>6
  <2> DEFINE c == IF n + 1 <= Len(url) THEN url[n + 1] ELSE "8b"
  <2>2. H[n + 1] = HostStep(H[n], n, c)
    BY <1>1, <2>1
  <2>3. HostKeeps(H[n], u) /\ H[n] \in HostReaders
    BY <1>6 DEF HostKeeps
  <2>4. HostKeeps(H[n + 1], u)
    <3> HIDE DEF c
    <3> QED BY <2>1, <2>2, <2>3, HostStepKeeps
  <2>5. ASSUME short PROVE HostReadFits(H[n + 1], url, a, n + 1)
    <3>1. n + 1 <= Len(url) /\ n < UINT16_MAX
      BY <1>0, <1>6, <2>1, <2>5 DEF short
    <3>2. c = url[n + 1] /\ HostReadFits(H[n], url, a, n)
      BY <1>6, <2>5, <3>1
    <3> HIDE DEF c
    <3> QED BY <2>1, <2>2, <2>3, <3>1, <3>2, HostReadStep
  <2> QED BY <2>1, <2>4, <2>5
<1> HIDE DEF A
<1>7. \A n \in a .. b : n \in A
  BY <1>5, <1>6, Upwards
<1> QED BY <1>7 DEF A, H, short

-----------------------------------------------------------------------------
(***************************************************************************)
(* http_parser_parse_url takes a url apart.                                *)
(***************************************************************************)
LEMMA ParseUrlIs ==
  ASSUME NEW url, NEW junk
  PROVE  LET r == http_parser_parse_url(url, FALSE, junk)
             x == UrlRead(url, FALSE, junk)[Len(url)]
             h == http_parse_host(url, x.u, x.at)
             hosted == "SCHEMA" \in x.u.set \/ "HOST" \in x.u.set
         IN  /\ r.ret = 0 => x.s # "s_dead" /\ (hosted => h.ret = 0)
             /\ x.s # "s_dead" => r.u = IF hosted THEN h.u ELSE x.u
             /\ x.s # "s_dead" /\ ~hosted /\ "PORT" \notin x.u.set => r.ret = 0
<1> DEFINE x == UrlRead(url, FALSE, junk)[Len(url)]
           hosted == x.u.set \cap {"SCHEMA", "HOST"} # {}
           g == http_parse_host(url, x.u, x.at)
           h == IF hosted THEN g ELSE [ret |-> 0, u |-> x.u]
           bad == \/ h.ret # 0
                  \/ FALSE /\ h.u.set # {"HOST", "PORT"}
                  \/ "PORT" \in h.u.set /\ PortOf(url, h.u) > UINT16_MAX
           r == http_parser_parse_url(url, FALSE, junk)
<1>1. r = IF x.s = "s_dead" THEN [ret |-> 1, u |-> x.u] ELSE [ret |-> IF bad THEN 1 ELSE 0, u |-> h.u]
  BY DEF http_parser_parse_url
<1> HIDE DEF r
<1>2. hosted <=> ("SCHEMA" \in x.u.set \/ "HOST" \in x.u.set)
  OBVIOUS
<1> HIDE DEF x, g
<1>3. r.ret = 0 => x.s # "s_dead" /\ (hosted => g.ret = 0)
  BY <1>1
<1>4. x.s # "s_dead" => r.u = IF hosted THEN g.u ELSE x.u
  BY <1>1
<1>5. x.s # "s_dead" /\ ~hosted /\ "PORT" \notin x.u.set => r.ret = 0
  BY <1>1
<1> HIDE DEF hosted
<1> QED BY <1>2, <1>3, <1>4, <1>5 DEF r, x, g

LEMMA UrlComesApart ==
  ASSUME NEW url \in Seq(STRING), Len(url) <= UINT16_MAX, NEW junk \in Fields
  PROVE  LET r == http_parser_parse_url(url, FALSE, junk)
         IN  /\ r.ret = 0 /\ ("SCHEMA" \in r.u.set => "HOST" \in r.u.set) => FieldsApart(url, r.u)
             /\ r.ret = 0 /\ "SCHEMA" \in r.u.set /\ junk["HOST"].len = 0 => "HOST" \in r.u.set
<1> DEFINE r == http_parser_parse_url(url, FALSE, junk)
           x == UrlRead(url, FALSE, junk)[Len(url)]
           h == http_parse_host(url, x.u, x.at)
           off == x.u.data["HOST"].off
           end == off + x.u.data["HOST"].len
           H == HostRead(url, x.u, x.at, off, end)
           y == H[end]
<1> SUFFICES ASSUME r.ret = 0
             PROVE  /\ ("SCHEMA" \in r.u.set => "HOST" \in r.u.set) => FieldsApart(url, r.u)
                    /\ "SCHEMA" \in r.u.set /\ junk["HOST"].len = 0 => "HOST" \in r.u.set
  OBVIOUS
<1>0. Len(url) \in Nat /\ Len(url) \in 0 .. Len(url)
  OBVIOUS
<1>1. UrlReadFits(x, url, junk, Len(url))
  BY <1>0, UrlReadLaid
<1>2. /\ x.s # "s_dead" /\ ("SCHEMA" \in x.u.set \/ "HOST" \in x.u.set => h.ret = 0)
      /\ r.u = IF "SCHEMA" \in x.u.set \/ "HOST" \in x.u.set THEN h.u ELSE x.u
  BY ParseUrlIs, Zenon
<1>3. h = [ret |-> IF y.s \in {"host", "host_v6_end", "host_port"} THEN 0 ELSE 1, u |-> y.u]
  BY DEF http_parse_host
<1> HIDE DEF r, x
<1>4. /\ x.u \in Structs /\ x.at \in BOOLEAN /\ x.s \in UrlNames /\ x.u.set \in SUBSET UrlFields /\ x.u.data \in Fields
      /\ "HOST" \notin x.u.set => x.u.data["HOST"] = junk["HOST"]
  BY <1>1 DEF UrlReadFits, UrlReaders, Structs, Fields
<1>5. Laid(x.u.data, x.u.set, url, 0, Len(url)) /\ x.u.set \subseteq Reach(x.s)
  BY <1>1, <1>2 DEF UrlReadFits
<1>6. "PORT" \notin x.u.set /\ "USERINFO" \notin x.u.set
  BY <1>5 DEF Reach
<1>7. "HOST" \in UrlFields /\ off \in Nat /\ x.u.data["HOST"].len \in Nat
  BY <1>4, ExtentIs DEF UrlFields
<1>8. end \in Nat /\ off <= end /\ end \in off .. end
  <2> HIDE DEF off
  <2>1. end \in Nat /\ off <= end
    BY <1>7
  <2> HIDE DEF end
  <2> QED BY <1>7, <2>1
<1> HIDE DEF off, end, h
<1>9. HostKeeps(y, x.u) /\ (end <= Len(url) => HostReadFits(y, url, off, end))
  BY <1>4, <1>6, <1>7, <1>8, HostReadLaid
<1>10. y \in HostReaders /\ y.u \in Structs /\ y.u.data \in Fields
  BY <1>9 DEF HostKeeps, HostReaders, Structs, Fields
<1>11. CASE "HOST" \in x.u.set
  <2>1. end <= Len(url)
    BY <1>5, <1>11 DEF Laid, off, end
  <2>2. y.s \in {"host", "host_v6_end", "host_port"} /\ r.u = y.u
    BY <1>2, <1>3, <1>11
  <2> HIDE DEF H, y
  <2>3. y.s # "host_dead" /\ y.s \in WithHost
    BY <2>2 DEF WithHost
  <2>4. Laid(y.u.data, Found(y), url, off, end) /\ "HOST" \in Found(y)
    BY <1>9, <2>1, <2>3 DEF HostReadFits
  <2>5. Found(y) \subseteq HostParts /\ Found(y) \in SUBSET UrlFields
    BY DEF Found, HostParts, UrlFields
  <2>6. Found(y) \cap (x.u.set \ {"HOST"}) = {}
    BY <1>6, <2>5 DEF HostParts
  <2>7. \A g \in x.u.set \ {"HOST"} : y.u.data[g] = x.u.data[g]
    <3>1. \A g \in x.u.set \ {"HOST"} : g \in UrlFields \ HostParts
      BY <1>4, <1>6 DEF HostParts
    <3> QED BY <1>9, <3>1 DEF HostKeeps
  <2>8. Laid(y.u.data, (x.u.set \ {"HOST"}) \cup Found(y), url, 0, Len(url))
    <3>1. Laid(y.u.data, Found(y), url, x.u.data["HOST"].off, x.u.data["HOST"].off + x.u.data["HOST"].len)
      BY <2>4 DEF off, end
    <3> QED BY <1>0, <1>4, <1>5, <1>10, <1>11, <2>5, <2>6, <2>7, <3>1, LaidWithin
  <2>9. (x.u.set \ {"HOST"}) \cup Found(y) = y.u.set
    <3>1. x.u.set \subseteq y.u.set /\ y.u.set \subseteq x.u.set \cup {"PORT", "USERINFO"}
      BY <1>9 DEF HostKeeps
    <3>2. ("PORT" \in Found(y) <=> "PORT" \in y.u.set) /\ ("USERINFO" \in Found(y) <=> "USERINFO" \in y.u.set)
      BY DEF Found, HostParts
    <3> QED BY <1>11, <2>4, <2>5, <3>1, <3>2 DEF HostParts
  <2>10. FieldsApart(url, y.u)
    BY <1>0, <1>10, <2>8, <2>9, LaidApart
  <2>11. "HOST" \in r.u.set
    BY <1>9, <1>11, <2>2 DEF HostKeeps
  <2> QED BY <2>2, <2>10, <2>11
<1>12. CASE "HOST" \notin x.u.set /\ "SCHEMA" \in x.u.set
  <2>1. y.s \in {"host", "host_v6_end", "host_port"} /\ r.u = y.u
    BY <1>2, <1>3, <1>12
  <2>2. "HOST" \notin y.u.set /\ "SCHEMA" \in y.u.set
    BY <1>9, <1>12 DEF HostKeeps
  <2>3. junk["HOST"].len # 0
    <3> SUFFICES ASSUME junk["HOST"].len = 0 PROVE FALSE
      OBVIOUS
    <3>1. x.u.data["HOST"].len = 0
      BY <1>4, <1>12
    <3>2. end = off
      BY <1>7, <3>1 DEF end, off
    <3>3. H[off] = HostStart(x.u, x.at)
      BY <1>4, <1>7, <1>8, HostReadIs
    <3>4. y.s = IF x.at THEN "userinfo_start" ELSE "host_start"
      BY <3>2, <3>3, <1>4, HostStartIs
    <3> QED BY <2>1, <3>4
  <2> QED BY <2>1, <2>2, <2>3
<1>13. CASE "HOST" \notin x.u.set /\ "SCHEMA" \notin x.u.set
  <2>1. r.u = x.u
    BY <1>2, <1>13
  <2>2. FieldsApart(url, x.u)
    BY <1>0, <1>4, <1>5, LaidApart
  <2> QED BY <1>13, <2>1, <2>2
<1> QED BY <1>11, <1>12, <1>13

-----------------------------------------------------------------------------
(***************************************************************************)
(* A url that begins with its path.                                        *)
(***************************************************************************)
Blanks == {"CR", "LF", "HT", "8b", "SP"}

LEMMA UpToIs ==
  ASSUME NEW url \in Seq(STRING), NEW k \in 0 .. Len(url), NEW stops
  PROVE  LET m == UpTo(url, k, stops)
         IN  /\ m \in Nat /\ k + m <= Len(url)
             /\ \A i \in k .. (k + m) - 1 : url[i + 1] \notin stops
             /\ k + m < Len(url) => url[k + m + 1] \in stops
<1> DEFINE N == Len(url)
           ends == {i \in k .. N - 1 : url[i + 1] \in stops} \cup {N}
           e == CHOOSE i \in ends : \A j \in ends : i <= j
           m == UpTo(url, k, stops)
<1>0. N \in Nat /\ k \in Nat /\ k <= N
  OBVIOUS
<1>1. m = e - k
  BY DEF UpTo
<1>2. ends \subseteq Nat /\ ends # {} /\ \A j \in ends : k <= j /\ j <= N
  BY <1>0
<1>3. e \in ends /\ \A j \in ends : e <= j
  <2>1. \E i \in ends : \A j \in ends : i <= j
    <3> HIDE DEF ends
    <3> QED BY <1>2, FirstExists
  <2> HIDE DEF ends
  <2> QED BY <2>1
<1> HIDE DEF e, m
<1>4. e \in Nat /\ k <= e /\ e <= N
  <2> HIDE DEF ends
  <2> QED BY <1>2, <1>3
<1>5. m \in Nat /\ k + m = e
  BY <1>0, <1>1, <1>4
<1>6. ASSUME NEW i \in k .. e - 1 PROVE url[i + 1] \notin stops
  <2>1. i \in k .. N - 1 /\ i \in Int /\ ~(e <= i)
    BY <1>0, <1>4
  <2>2. i \notin ends
    <3> HIDE DEF ends
    <3> QED BY <1>3, <2>1
  <2> QED BY <2>1, <2>2
<1>7. e < N => url[e + 1] \in stops
  BY <1>0, <1>3, <1>4
<1> HIDE DEF N
<1> QED BY <1>4, <1>5, <1>6, <1>7 DEF m, N

\* How the states behind the path answer to a byte that is no blank.
LEMMA RootedMoves ==
  ASSUME NEW c, c \notin Blanks
  PROVE  /\ c \notin {"?", "#"} => parse_url_char("s_req_path", c) = "s_req_path"
         /\ parse_url_char("s_req_path", "?") = "s_req_query_string_start"
         /\ parse_url_char("s_req_path", "#") = "s_req_fragment_start"
         /\ \A s \in UrlQuery : /\ c # "#" => parse_url_char(s, c) = "s_req_query_string"
                                /\ parse_url_char(s, "#") = "s_req_fragment_start"
         /\ \A s \in UrlFragment : parse_url_char(s, c) \in UrlFragment
<1> USE DEF Blanks, IS_URL_CHAR, UrlServer, UrlQuery, UrlFragment
<1>1. /\ c \notin {"?", "#"} => parse_url_char("s_req_path", c) = "s_req_path"
      /\ parse_url_char("s_req_path", "?") = "s_req_query_string_start"
      /\ parse_url_char("s_req_path", "#") = "s_req_fragment_start"
  BY DEF parse_url_char
<1>2. \A s \in UrlQuery : c # "#" => parse_url_char(s, c) = "s_req_query_string"
  BY DEF parse_url_char
<1>3. \A s \in UrlQuery : parse_url_char(s, "#") = "s_req_fragment_start"
  BY DEF parse_url_char
<1>4. \A s \in UrlFragment : parse_url_char(s, c) \in UrlFragment
  BY DEF parse_url_char
<1> QED BY <1>1, <1>2, <1>3, <1>4

\* After at least one byte: n is where the path ends, len the length of the query.
Rooted(x, url, n, len, m) ==
  /\ x \in UrlReaders
  /\ x.u.set \subseteq {"PATH", "QUERY", "FRAGMENT"}
  /\ m <= n => /\ x.s = "s_req_path" /\ x.old = "PATH" /\ "QUERY" \notin x.u.set
               /\ x.u.data["PATH"] = [off |-> 0, len |-> m]
  /\ m > n => x.u.data["PATH"] = [off |-> 0, len |-> n]
  /\ m = n + 1 /\ url[n + 1] = "?" =>
       x.s = "s_req_query_string_start" /\ x.old = "PATH" /\ "QUERY" \notin x.u.set
  /\ m > n + 1 /\ url[n + 1] = "?" /\ m <= n + 1 + len =>
       /\ x.s = "s_req_query_string" /\ x.old = "QUERY" /\ "QUERY" \in x.u.set
       /\ x.u.data["QUERY"] = [off |-> n + 1, len |-> m - (n + 1)]
  /\ m > n /\ (url[n + 1] # "?" \/ m > n + 1 + len) =>
       /\ x.s \in UrlFragment
       /\ "QUERY" \in x.u.set <=> len > 0
       /\ len > 0 => x.u.data["QUERY"] = [off |-> n + 1, len |-> len]

\* y is x after the byte at offset m, which is in field f, or in "none".
Stepped(x, m, s, f, y) ==
  /\ y \in UrlReaders /\ y.s = s
  /\ f = "none" => y.old = x.old /\ y.u = x.u
  /\ f # "none" =>
       /\ y.old = f /\ y.u.set = x.u.set \cup {f}
       /\ \A g \in UrlFields : g # f => y.u.data[g] = x.u.data[g]
       /\ f # x.old => y.u.data[f] = [off |-> m, len |-> 1]
       /\ f = x.old /\ x.u.data[f].len < UINT16_MAX =>
            y.u.data[f] = [off |-> x.u.data[f].off, len |-> x.u.data[f].len + 1]

LEMMA UrlStepTo ==
  ASSUME NEW x \in UrlReaders, NEW m \in Nat, m < UINT16_MAX, NEW c
  PROVE  Stepped(x, m, parse_url_char(x.s, c), UrlField(parse_url_char(x.s, c)), UrlStep(x, m, c))
<1> DEFINE s == parse_url_char(x.s, c)
           f == UrlField(s)
           new == f # x.old
           v == Extend(x.u, f, m, new)
           y == UrlStep(x, m, c)
<1>0. UINT16_MAX \in Nat /\ m <= UINT16_MAX
  BY UrlAssumption
<1>1. x.u \in Structs
  BY DEF UrlReaders
<1>2. /\ y \in UrlReaders /\ y.s = s
      /\ f = "none" => y.old = x.old /\ y.u = x.u
      /\ f # "none" => y.old = f /\ y.u = v
  BY UrlStepIs, Zenon
<1>3. f \in UrlFields \/ f = "none"
  BY UrlNamesAre
<1>4. new \in BOOLEAN /\ (f # x.old => new = TRUE) /\ (f = x.old => new = FALSE)
  OBVIOUS
<1> HIDE DEF s, f, new, y
<1>5. f # "none" => IsExtended(x.u, f, m, new, v)
  BY <1>1, <1>3, <1>4, ExtendIs
<1> HIDE DEF v
<1>6. f # "none" =>
        /\ y.old = f /\ y.u.set = x.u.set \cup {f}
        /\ \A g \in UrlFields : g # f => y.u.data[g] = x.u.data[g]
        /\ f # x.old => y.u.data[f] = [off |-> m, len |-> 1]
        /\ f = x.old /\ x.u.data[f].len < UINT16_MAX =>
             y.u.data[f] = [off |-> x.u.data[f].off, len |-> x.u.data[f].len + 1]
  BY <1>0, <1>2, <1>4, <1>5 DEF IsExtended
<1>7. Stepped(x, m, s, f, y)
  BY <1>2, <1>6 DEF Stepped
<1> QED BY <1>7 DEF s, f, y

LEMMA RootedStep ==
  ASSUME NEW x, NEW url \in Seq(STRING), Len(url) <= UINT16_MAX, NEW n \in Nat, NEW len \in Nat, n <= Len(url),
         \A i \in 0 .. n - 1 : url[i + 1] \notin {"?", "#"},
         n < Len(url) => url[n + 1] \in {"?", "#"},
         url[n + 1] # "?" => len = 0,
         n < Len(url) /\ url[n + 1] = "?" =>
           /\ n + 1 + len <= Len(url)
           /\ \A i \in n + 1 .. n + len : url[i + 1] # "#"
           /\ n + 1 + len < Len(url) => url[n + len + 2] = "#",
         NEW m \in 1 .. Len(url), m < Len(url), Rooted(x, url, n, len, m), url[m + 1] \notin Blanks
  PROVE  Rooted(UrlStep(x, m, url[m + 1]), url, n, len, m + 1)
<1> DEFINE c == url[m + 1]
           s == parse_url_char(x.s, c)
           f == UrlField(s)
           y == UrlStep(x, m, c)
<1>0. Len(url) \in Nat /\ UINT16_MAX \in Nat /\ m \in Nat /\ m < UINT16_MAX /\ c \notin Blanks /\ m + 1 \in Nat
  BY UrlAssumption
<1>1. x \in UrlReaders /\ x.u.set \subseteq {"PATH", "QUERY", "FRAGMENT"}
  BY DEF Rooted
<1>2. /\ y \in UrlReaders /\ y.s = s
      /\ f = "none" => y.old = x.old /\ y.u = x.u
      /\ f # "none" =>
           /\ y.old = f /\ y.u.set = x.u.set \cup {f}
           /\ \A g \in UrlFields : g # f => y.u.data[g] = x.u.data[g]
           /\ f # x.old => y.u.data[f] = [off |-> m, len |-> 1]
           /\ f = x.old /\ x.u.data[f].len < UINT16_MAX =>
                y.u.data[f] = [off |-> x.u.data[f].off, len |-> x.u.data[f].len + 1]
  <2>1. Stepped(x, m, s, f, y)
    BY <1>0, <1>1, UrlStepTo
  <2> QED BY <2>1 DEF Stepped
<1>3. {"PATH", "QUERY", "FRAGMENT"} \subseteq UrlFields
  BY DEF UrlFields
<1> HIDE DEF y, s
<1>4. SUFFICES Rooted(y, url, n, len, m + 1)
  BY DEF y
<1>5. UrlField("s_req_path") = "PATH" /\ UrlField("s_req_query_string") = "QUERY"
      /\ UrlField("s_req_query_string_start") = "none" /\ UrlField("s_req_fragment_start") = "none"
      /\ UrlField("s_req_fragment") = "FRAGMENT"
  BY DEF UrlField
<1>6. CASE m < n
  <2>1. m \in 0 .. n - 1 /\ m + 1 <= n /\ ~(m + 1 > n)
    BY <1>0, <1>6
  <2>2. x.s = "s_req_path" /\ x.old = "PATH" /\ "QUERY" \notin x.u.set /\ x.u.data["PATH"] = [off |-> 0, len |-> m]
    BY <2>1 DEF Rooted
  <2>3. s = "s_req_path" /\ f = "PATH"
    BY <1>0, <1>5, <2>1, <2>2, RootedMoves DEF s
  <2>4. x.u.data["PATH"].len = m /\ x.u.data["PATH"].off = 0
    BY <2>2
  <2>5. y.u.data["PATH"] = [off |-> 0, len |-> m + 1]
    BY <1>0, <1>2, <2>2, <2>3, <2>4
  <2>6. y.s = "s_req_path" /\ y.old = "PATH" /\ y.u.set = x.u.set \cup {"PATH"} /\ y \in UrlReaders
    BY <1>2, <2>3
  <2>7. "QUERY" \notin y.u.set /\ y.u.set \subseteq {"PATH", "QUERY", "FRAGMENT"}
    BY <1>1, <2>2, <2>6
  <2>8. ~(m + 1 = n + 1) /\ ~(m + 1 > n + 1)
    BY <1>0, <1>6
  <2> QED BY <2>1, <2>5, <2>6, <2>7, <2>8 DEF Rooted
<1>7. CASE m = n
  <2>1. ~(m + 1 <= n) /\ m + 1 > n /\ m + 1 = n + 1 /\ ~(m + 1 > n + 1) /\ ~(m + 1 > n + 1 + len) /\ m <= n /\ n < Len(url)
    BY <1>0, <1>7
  <2>2. x.s = "s_req_path" /\ x.old = "PATH" /\ "QUERY" \notin x.u.set /\ x.u.data["PATH"] = [off |-> 0, len |-> n]
    BY <1>7, <2>1 DEF Rooted
  <2>3. c \in {"?", "#"} /\ c = url[n + 1]
    BY <1>7, <2>1
  <2>4. s = (IF c = "?" THEN "s_req_query_string_start" ELSE "s_req_fragment_start") /\ f = "none"
    BY <1>0, <1>5, <2>2, <2>3, RootedMoves DEF s
  <2>5. y.u = x.u /\ y.old = "PATH" /\ y.s = s /\ y \in UrlReaders
    BY <1>2, <2>2, <2>4
  <2>6. /\ y.u.data["PATH"] = [off |-> 0, len |-> n]
        /\ "QUERY" \notin y.u.set /\ y.u.set \subseteq {"PATH", "QUERY", "FRAGMENT"}
    BY <1>1, <2>2, <2>5
  <2>7. CASE c = "?"
    BY <2>1, <2>3, <2>4, <2>5, <2>6, <2>7 DEF Rooted
  <2>8. CASE c = "#"
    <3>1. url[n + 1] # "?" /\ len = 0 /\ ~(len > 0)
      BY <2>3, <2>8
    <3>2. y.s \in UrlFragment
      BY <2>4, <2>5, <2>8 DEF UrlFragment
    <3> QED BY <2>1, <2>5, <2>6, <3>1, <3>2 DEF Rooted
  <2> QED BY <2>3, <2>7, <2>8
<1>8. ASSUME m > n
      PROVE  /\ ~(m + 1 <= n) /\ m + 1 > n /\ m + 1 # n + 1 /\ m + 1 > n + 1 /\ n < Len(url)
             /\ x.u.data["PATH"] = [off |-> 0, len |-> n]
  <2>1. x.u.data["PATH"] = [off |-> 0, len |-> n]
    BY <1>8 DEF Rooted
  <2> QED BY <1>0, <1>8, <2>1
<1>9. CASE m > n /\ url[n + 1] = "?" /\ m < n + 1 + len
  <2>1. /\ m \in n + 1 .. n + len /\ m <= n + 1 + len /\ m + 1 <= n + 1 + len
        /\ ~(m + 1 > n + 1 + len) /\ (m = n + 1 \/ m > n + 1)
    BY <1>0, <1>9
  <2>2. c # "#"
    BY <1>8, <1>9, <2>1
  <2>3. x.s \in UrlQuery
    BY <1>9, <2>1 DEF Rooted, UrlQuery
  <2>4. s = "s_req_query_string" /\ f = "QUERY"
    BY <1>0, <1>5, <2>2, <2>3, RootedMoves DEF s
  <2>5. y \in UrlReaders /\ y.s = "s_req_query_string" /\ y.old = "QUERY" /\ y.u.set = x.u.set \cup {"QUERY"}
        /\ y.u.data["PATH"] = x.u.data["PATH"]
    BY <1>2, <1>3, <2>4
  <2>6. y.u.data["QUERY"] = [off |-> n + 1, len |-> (m + 1) - (n + 1)]
    <3>1. CASE m = n + 1
      <4>1. x.old = "PATH"
        BY <1>9, <3>1 DEF Rooted
      <4>2. y.u.data["QUERY"] = [off |-> m, len |-> 1] /\ (m + 1) - (n + 1) = 1
        BY <1>2, <2>4, <3>1, <4>1
      <4> QED BY <3>1, <4>2
    <3>2. CASE m > n + 1
      <4>1. x.old = "QUERY" /\ x.u.data["QUERY"] = [off |-> n + 1, len |-> m - (n + 1)]
        BY <1>9, <2>1, <3>2 DEF Rooted
      <4>2. x.u.data["QUERY"].len = m - (n + 1) /\ x.u.data["QUERY"].off = n + 1
        BY <4>1
      <4>3. x.u.data["QUERY"].len < UINT16_MAX /\ x.u.data["QUERY"].len + 1 = (m + 1) - (n + 1)
        BY <1>0, <4>2
      <4> QED BY <1>2, <2>4, <4>1, <4>2, <4>3
    <3> QED BY <2>1, <3>1, <3>2
  <2>7. y.u.data["PATH"] = [off |-> 0, len |-> n] /\ "QUERY" \in y.u.set /\ y.u.set \subseteq {"PATH", "QUERY", "FRAGMENT"}
    BY <1>1, <1>8, <1>9, <2>5
  <2> QED BY <1>8, <1>9, <2>1, <2>5, <2>6, <2>7 DEF Rooted
<1>10. CASE m > n /\ url[n + 1] = "?" /\ m = n + 1 + len
  <2>1. /\ m <= n + 1 + len /\ m + 1 > n + 1 + len /\ ~(m + 1 <= n + 1 + len)
        /\ (len = 0 => m = n + 1) /\ (len > 0 => m > n + 1)
        /\ m + 1 = n + len + 2 /\ n + 1 + len < Len(url) /\ (len = 0 \/ len > 0)
    BY <1>0, <1>10
  <2>2. c = "#"
    BY <1>8, <1>10, <2>1
  <2>3. x.s \in UrlQuery
    BY <1>10, <2>1 DEF Rooted, UrlQuery
  <2>4. s = "s_req_fragment_start" /\ f = "none"
    BY <1>0, <1>5, <2>2, <2>3, RootedMoves DEF s
  <2>5. y \in UrlReaders /\ y.s = "s_req_fragment_start" /\ y.u = x.u
    BY <1>2, <2>4
  <2>6. ("QUERY" \in x.u.set <=> len > 0) /\ (len > 0 => x.u.data["QUERY"] = [off |-> n + 1, len |-> len])
    <3>1. CASE len = 0
      <4>1. "QUERY" \notin x.u.set
        BY <1>10, <2>1, <3>1 DEF Rooted
      <4> QED BY <3>1, <4>1
    <3>2. CASE len > 0
      <4>1. "QUERY" \in x.u.set /\ x.u.data["QUERY"] = [off |-> n + 1, len |-> m - (n + 1)] /\ m - (n + 1) = len
        BY <1>0, <1>10, <2>1, <3>2 DEF Rooted
      <4> QED BY <3>2, <4>1
    <3> QED BY <2>1, <3>1, <3>2
  <2>7. y.s \in UrlFragment
    BY <2>5 DEF UrlFragment
  <2> QED BY <1>1, <1>8, <1>10, <2>1, <2>5, <2>6, <2>7 DEF Rooted
<1>11. CASE m > n /\ (url[n + 1] # "?" \/ m > n + 1 + len)
  <2>1. /\ x.s \in UrlFragment
        /\ "QUERY" \in x.u.set <=> len > 0
        /\ len > 0 => x.u.data["QUERY"] = [off |-> n + 1, len |-> len]
    BY <1>11 DEF Rooted
  <2>2. s \in UrlFragment
    BY <1>0, <2>1, RootedMoves DEF s
  <2>3. f \in {"none", "FRAGMENT"}
    BY <1>5, <2>2 DEF UrlFragment
  <2>4. /\ y.u.set \subseteq x.u.set \cup {"FRAGMENT"} /\ x.u.set \subseteq y.u.set
        /\ y.u.data["PATH"] = x.u.data["PATH"] /\ y.u.data["QUERY"] = x.u.data["QUERY"]
    <3>1. CASE f = "none"
      BY <1>2, <3>1
    <3>2. CASE f = "FRAGMENT"
      BY <1>2, <1>3, <3>2
    <3> QED BY <2>3, <3>1, <3>2
  <2>5. ("QUERY" \in y.u.set <=> len > 0) /\ (len > 0 => y.u.data["QUERY"] = [off |-> n + 1, len |-> len])
    BY <2>1, <2>4
  <2>6. y.u.set \subseteq {"PATH", "QUERY", "FRAGMENT"} /\ y.u.data["PATH"] = [off |-> 0, len |-> n]
    BY <1>1, <1>8, <1>11, <2>4
  <2>7. url[n + 1] # "?" \/ (m + 1 > n + 1 + len /\ ~(m + 1 <= n + 1 + len))
    BY <1>0, <1>11
  <2>8. y \in UrlReaders /\ y.s \in UrlFragment
    BY <1>2, <2>2
  <2> HIDE DEF f, c
  <2> QED BY <1>8, <1>11, <2>5, <2>6, <2>7, <2>8 DEF Rooted
<1>12. m < n \/ m = n \/ (m > n /\ (m < n + 1 + len \/ m = n + 1 + len \/ m > n + 1 + len))
  BY <1>0
<1> QED BY <1>6, <1>7, <1>9, <1>10, <1>11, <1>12

LEMMA RootedStart == \A b : b \in {"/", "*"} => parse_url_char("s_req_spaces_before_url", b) = "s_req_path"
BY DEF parse_url_char, UrlServer, UrlQuery, UrlFragment, IS_ALPHA, Ran, Upper, Lowers

LEMMA RootedComesApart ==
  ASSUME NEW url \in Seq(STRING), Len(url) > 0, Len(url) <= UINT16_MAX, NEW junk \in Fields,
         url[1] \in {"/", "*"}, \A i \in 1 .. Len(url) : url[i] \notin Blanks
  PROVE  LET r == http_parser_parse_url(url, FALSE, junk)
         IN  r.ret = 0 /\ PathAndQuery(url, r.u)
<1> DEFINE N == Len(url)
           r == http_parser_parse_url(url, FALSE, junk)
           n == UpTo(url, 0, {"?", "#"})
           e == UpTo(url, n + 1, {"#"})
           len == IF n < N /\ url[n + 1] = "?" THEN e ELSE 0
           R == UrlRead(url, FALSE, junk)
           A == {m \in 1 .. N : Rooted(R[m], url, n, len, m)}
           x == R[N]
<1>0. N \in Nat /\ N > 0 /\ UINT16_MAX \in Nat /\ N \in 1 .. N /\ 1 \in 1 .. N
  <2>1. N \in Nat /\ N > 0
    OBVIOUS
  <2> QED BY <2>1, UrlAssumption
<1>1. /\ n \in Nat /\ n <= N
      /\ \A i \in 0 .. n - 1 : url[i + 1] \notin {"?", "#"}
      /\ n < N => url[n + 1] \in {"?", "#"}
  <2>1. 0 \in 0 .. Len(url)
    OBVIOUS
  <2>2. /\ n \in Nat /\ 0 + n <= Len(url)
        /\ \A i \in 0 .. (0 + n) - 1 : url[i + 1] \notin {"?", "#"}
        /\ 0 + n < Len(url) => url[0 + n + 1] \in {"?", "#"}
    BY <2>1, UpToIs, Zenon
  <2> HIDE DEF n
  <2>3. 0 + n = n
    BY <2>2
  <2> QED BY <2>2, <2>3
<1> HIDE DEF n
<1>2. n > 0
  <2> SUFFICES ASSUME n = 0 PROVE FALSE
    BY <1>1
  <2>1. url[0 + 1] \in {"?", "#"} /\ 0 + 1 = 1
    BY <1>0, <1>1
  <2> QED BY <2>1
<1>3. n < N /\ url[n + 1] = "?" =>
        /\ e \in Nat /\ n + 1 + e <= N
        /\ \A i \in n + 1 .. n + e : url[i + 1] # "#"
        /\ n + 1 + e < N => url[n + e + 2] = "#"
  <2> SUFFICES ASSUME n < N PROVE
        /\ e \in Nat /\ n + 1 + e <= N
        /\ \A i \in n + 1 .. n + e : url[i + 1] # "#"
        /\ n + 1 + e < N => url[n + e + 2] = "#"
    OBVIOUS
  <2>1. n + 1 \in 0 .. Len(url)
    BY <1>0, <1>1
  <2>2. /\ e \in Nat /\ (n + 1) + e <= Len(url)
        /\ \A i \in n + 1 .. ((n + 1) + e) - 1 : url[i + 1] \notin {"#"}
        /\ (n + 1) + e < Len(url) => url[(n + 1) + e + 1] \in {"#"}
    BY <2>1, UpToIs, Zenon
  <2> HIDE DEF e
  <2>3. n + 1 + e = (n + 1) + e /\ ((n + 1) + e) - 1 = n + e /\ (n + 1) + e + 1 = n + e + 2
    BY <1>1, <2>2
  <2> QED BY <2>2, <2>3
<1>4. /\ len \in Nat
      /\ url[n + 1] # "?" => len = 0
      /\ n < N /\ url[n + 1] = "?" =>
           /\ n + 1 + len <= N
           /\ \A i \in n + 1 .. n + len : url[i + 1] # "#"
           /\ n + 1 + len < N => url[n + len + 2] = "#"
  <2> HIDE DEF e, N
  <2> QED BY <1>3
<1>5. ~(n < N /\ url[n + 1] = "?") => len = 0
  OBVIOUS
<1> HIDE DEF len
<1>6. R[0] = UrlStart(junk) /\ \A i \in 1 .. Len(url) : R[i] = UrlStep(R[i - 1], i - 1, url[i])
  BY UrlReadIs DEF Fields
<1> HIDE DEF R
<1>7. Rooted(R[1], url, n, len, 1)
  <2> DEFINE y == UrlStart(junk)
             c == url[1]
             s == parse_url_char(y.s, c)
             f == UrlField(s)
             z == UrlStep(y, 0, c)
  <2>1. y \in UrlReaders /\ y.s = "s_req_spaces_before_url" /\ y.old = "MAX" /\ y.u.set = {}
    BY DEF UrlStart, UrlReaders, UrlNames, Structs, Fields
  <2>2. R[1] = z
    <3>1. 1 \in 1 .. Len(url) /\ 1 - 1 = 0
      BY <1>0
    <3> QED BY <1>6, <3>1
  <2> HIDE DEF y
  <2>3. s = "s_req_path"
    BY <2>1, RootedStart
  <2>4. f = "PATH"
    <3> HIDE DEF s
    <3> QED BY <2>3 DEF UrlField
  <2>5. Stepped(y, 0, s, f, z)
    <3>1. 0 \in Nat /\ 0 < UINT16_MAX
      BY <1>0
    <3>2. Stepped(y, 0, parse_url_char(y.s, c), UrlField(parse_url_char(y.s, c)), UrlStep(y, 0, c))
      <4> HIDE DEF c
      <4> QED BY <2>1, <3>1, UrlStepTo
    <3> QED BY <3>2
  <2> HIDE DEF s, f, z, c
  <2>6. /\ z \in UrlReaders /\ z.s = "s_req_path" /\ z.old = "PATH"
        /\ z.u.set = {"PATH"} /\ z.u.data["PATH"] = [off |-> 0, len |-> 1]
    BY <2>1, <2>3, <2>4, <2>5 DEF Stepped
  <2>7. 1 <= n /\ ~(1 > n) /\ ~(1 = n + 1) /\ ~(1 > n + 1)
    BY <1>1, <1>2
  <2>8. "QUERY" \notin z.u.set /\ z.u.set \subseteq {"PATH", "QUERY", "FRAGMENT"}
    BY <2>6
  <2>9. Rooted(z, url, n, len, 1)
    BY <2>6, <2>7, <2>8 DEF Rooted
  <2> QED BY <2>2, <2>9
<1>8. ASSUME NEW m \in 1 .. N, m \in A, m < N PROVE m + 1 \in A
  <2>1. m + 1 \in 1 .. Len(url) /\ m + 1 \in 1 .. N /\ (m + 1) - 1 = m /\ m \in 1 .. Len(url) /\ m < Len(url)
    BY <1>0, <1>8
  <2>2. R[m + 1] = UrlStep(R[m], m, url[m + 1])
    BY <1>6, <2>1
  <2>3. Rooted(R[m], url, n, len, m)
    BY <1>8
  <2>4. url[m + 1] \notin Blanks
    BY <2>1
  <2>5. Rooted(UrlStep(R[m], m, url[m + 1]), url, n, len, m + 1)
    BY <1>1, <1>4, <2>1, <2>3, <2>4, RootedStep
  <2> QED BY <2>1, <2>2, <2>5
<1>9. 1 \in A
  BY <1>0, <1>7
<1> HIDE DEF A, N
<1>10. \A m \in 1 .. N : m \in A
  <2>1. 1 \in Nat
    OBVIOUS
  <2> QED BY <1>0, <1>8, <1>9, <2>1, Upwards
<1>11. Rooted(x, url, n, len, N)
  BY <1>0, <1>10 DEF A
<1> HIDE DEF x
<1>12. x.s # "s_dead" /\ x.u.set \subseteq {"PATH", "QUERY", "FRAGMENT"}
  <2>1. x.s \in {"s_req_path"} \cup UrlQuery \cup UrlFragment
    <3>1. CASE N <= n
      BY <1>11, <3>1 DEF Rooted
    <3>2. CASE N > n /\ (url[n + 1] # "?" \/ N > n + 1 + len)
      BY <1>11, <3>2 DEF Rooted
    <3>3. CASE N > n /\ url[n + 1] = "?" /\ N <= n + 1 + len
      <4>1. N = n + 1 \/ N > n + 1
        BY <1>0, <1>1, <3>3
      <4>2. CASE N = n + 1
        BY <1>11, <3>3, <4>2 DEF Rooted, UrlQuery
      <4>3. CASE N > n + 1
        BY <1>11, <3>3, <4>3 DEF Rooted, UrlQuery
      <4> QED BY <4>1, <4>2, <4>3
    <3>4. N <= n \/ (N > n /\ (N <= n + 1 + len \/ N > n + 1 + len))
      BY <1>0, <1>1, <1>4
    <3> HIDE DEF UrlQuery, UrlFragment
    <3> QED BY <3>1, <3>2, <3>3, <3>4, Zenon
  <2> QED BY <1>11, <2>1 DEF Rooted, UrlQuery, UrlFragment
<1>13. r.ret = 0 /\ r.u = x.u
  <2>1. "SCHEMA" \notin x.u.set /\ "HOST" \notin x.u.set /\ "PORT" \notin x.u.set
    BY <1>12
  <2> DEFINE w == UrlRead(url, FALSE, junk)[Len(url)]
  <2>2. w = x
    BY DEF x, R, N
  <2>3. /\ w.s # "s_dead" => r.u = IF "SCHEMA" \in w.u.set \/ "HOST" \in w.u.set
                                  THEN http_parse_host(url, w.u, w.at).u ELSE w.u
        /\ w.s # "s_dead" /\ ~("SCHEMA" \in w.u.set \/ "HOST" \in w.u.set) /\ "PORT" \notin w.u.set => r.ret = 0
    BY ParseUrlIs, Zenon
  <2> HIDE DEF w, r
  <2> QED BY <1>12, <2>1, <2>2, <2>3
<1>14. x.u.data["PATH"] = [off |-> 0, len |-> n]
  <2>1. CASE N = n
    <3>1. N <= n
      BY <1>0, <2>1
    <3> QED BY <1>11, <2>1, <3>1 DEF Rooted
  <2>2. CASE N > n
    BY <1>11, <2>2 DEF Rooted
  <2>3. N = n \/ N > n
    BY <1>0, <1>1
  <2> QED BY <2>1, <2>2, <2>3
<1>15. ("QUERY" \in x.u.set <=> len > 0) /\ (len > 0 => x.u.data["QUERY"] = [off |-> n + 1, len |-> len])
  <2>1. CASE N = n
    <3>1. len = 0 /\ ~(len > 0) /\ N <= n
      BY <1>1, <1>5, <2>1
    <3>2. "QUERY" \notin x.u.set
      BY <1>11, <3>1 DEF Rooted
    <3> QED BY <3>1, <3>2
  <2>2. CASE N > n /\ (url[n + 1] # "?" \/ N > n + 1 + len)
    BY <1>11, <2>2 DEF Rooted
  <2>3. CASE N > n /\ url[n + 1] = "?" /\ N <= n + 1 + len
    <3>1. N = n + 1 + len
      BY <1>0, <1>1, <1>4, <2>3
    <3>2. CASE len = 0
      <4>1. N = n + 1 /\ ~(len > 0)
        BY <1>1, <3>1, <3>2
      <4>2. "QUERY" \notin x.u.set
        BY <1>11, <2>3, <4>1 DEF Rooted
      <4> QED BY <4>1, <4>2
    <3>3. CASE len > 0
      <4>1. N > n + 1 /\ N - (n + 1) = len
        BY <1>1, <1>4, <3>1, <3>3
      <4> QED BY <1>11, <2>3, <3>3, <4>1 DEF Rooted
    <3> QED BY <1>4, <3>2, <3>3
  <2> QED BY <1>0, <1>1, <1>4, <2>1, <2>2, <2>3
<1> HIDE DEF r
<1>16. /\ r.ret = 0
       /\ r.u.data["PATH"] = [off |-> 0, len |-> n]
       /\ ("QUERY" \in r.u.set) <=> len > 0
       /\ len > 0 => r.u.data["QUERY"] = [off |-> n + 1, len |-> len]
  BY <1>13, <1>14, <1>15
<1> QED BY <1>16 DEF PathAndQuery, r, n, len, e, N

-----------------------------------------------------------------------------
(***************************************************************************)
(* Steps that are not about the url: they do not enter its states and give *)
(* no piece of it to the callbacks.                                        *)
(***************************************************************************)
Away ==
  /\ parser'.state \notin UrlStates
  /\ calls' = calls \/ \E cb, data : cb # "url" /\ calls' = Recorded(cb, data)

\* q, the parser with the byte counted.
LEMMA QIs == ASSUME InLoop PROVE q \in Parsers /\ q.state = parser.state /\ parser \in Parsers
BY Here

\* Ways to leave a byte: a callback that is not for the url, none, an error.
LEMMA CallAway ==
  ASSUME NEW cb, cb # "url", NEW data, NEW m, NEW ok, NEW pOk, NEW err \in Parsers, NEW pErr,
         ok.state \notin UrlStates, err.state \notin UrlStates,
         Call(cb, data, m, ok, pOk, err, pErr)
  PROVE  Away
BY DEF Away, Call, Continue, Return, Parsers

LEMMA NotifyAway ==
  ASSUME NEW cb, cb # "url", NEW r \in Parsers, r.state \notin UrlStates, Notify(cb, r)
  PROVE  Away
BY CallAway DEF Notify

LEMMA DataAway ==
  ASSUME NEW cb, cb # "url", NEW m, NEW to, NEW ok, NEW pOk, NEW err \in Parsers, NEW pErr,
         ok.state \notin UrlStates, err.state \notin UrlStates,
         CallData(cb, m, to, ok, pOk, err, pErr)
  PROVE  Away
BY CallAway DEF CallData, Continue, Quiet, Away

LEMMA StepAway ==
  ASSUME NEW r, r.state \notin UrlStates, Quiet, NEW n, NEW m, NEW st,
         Continue(r, n, m, st) \/ Return(r, n)
  PROVE  Away
BY DEF Away, Continue, Return, Quiet

LEMMA ErrorAway ==
  ASSUME NEW r \in Parsers, r.state \notin UrlStates, NEW e, Error(r, e)
  PROVE  Away
BY DEF Away, Error, Return, Quiet, Parsers

LEMMA GotoAway ==
  ASSUME InLoop, NEW s, s \notin UrlStates, Goto(s)
  PROVE  Away
<1>1. [q EXCEPT !.state = s].state = s
  BY QIs DEF Parsers
<1> HIDE DEF q
<1> QED BY <1>1, StepAway DEF Goto, Step

LEMMA NotUrlStates ==
  {"s_dead", "s_start_req", "s_start_res", "s_res_or_resp_H", "s_res_H", "s_req_method", "s_header_field",
   "s_header_field_start", "s_header_value", "s_header_value_discard_ws", "s_header_value_discard_lws",
   "s_header_value_discard_ws_almost_done", "s_header_almost_done", "s_headers_almost_done",
   "s_headers_done", "s_chunk_size_start", "s_body_identity", "s_body_identity_eof"}
  \subseteq StateNames \ UrlStates
BY DEF StateNames, UrlStates, UrlServer, UrlQuery, UrlFragment

\* The start of a message.
LEMMA StartReqOrResAway == ASSUME InLoop, StartReqOrRes, parser.state \notin UrlStates PROVE Away
<1> DEFINE f == Fresh(q)
           r == [f EXCEPT !.state = "s_res_or_resp_H"]
           t == [f EXCEPT !.type = "HTTP_REQUEST", !.state = "s_start_req"]
<1>1. r \in Parsers /\ r.state \notin UrlStates
  <2>1. "s_res_or_resp_H" \in StateNames \ UrlStates
    BY NotUrlStates
  <2> QED BY <2>1, FreshIs
<1>2. t.state \notin UrlStates
  <2>1. "s_start_req" \in StateNames \ UrlStates
    BY NotUrlStates
  <2> QED BY <2>1, FreshIs
<1> HIDE DEF r, t
<1>3. Step(q) \/ Notify("message_begin", r) \/ Reexecute(t)
  BY DEF StartReqOrRes, r, t
<1> QED BY <1>1, <1>2, <1>3, NotifyAway, StepAway, QIs DEF Step, Reexecute, Quiet

LEMMA StartResAway == ASSUME InLoop, StartRes, parser.state \notin UrlStates PROVE Away
<1> DEFINE f == Fresh(q)
           r == [f EXCEPT !.state = "s_res_H"]
<1>0. "s_res_H" \in StateNames \ UrlStates
  BY NotUrlStates
<1>1. r \in Parsers /\ r.state \notin UrlStates
  BY <1>0, FreshIs
<1>2. f \in Parsers /\ f.state \notin UrlStates
  <2>1. "s_res_H" \in StateNames
    BY NotUrlStates
  <2> QED BY <2>1, FreshIs
<1> HIDE DEF r, f
<1>3. Notify("message_begin", f) \/ Notify("message_begin", r) \/ Error(f, "HPE_INVALID_CONSTANT")
  BY DEF StartRes, r, f
<1> QED BY <1>1, <1>2, <1>3, NotifyAway, ErrorAway

LEMMA StartReqAway == ASSUME InLoop, StartReq, parser.state \notin UrlStates PROVE Away
<1> DEFINE f == Fresh(q)
<1>1. f \in Parsers /\ f.state \notin UrlStates
  <2>1. "s_res_H" \in StateNames
    BY NotUrlStates
  <2> QED BY <2>1, FreshIs
<1>2. CASE ch \in LineEnd /\ Step(q)
  BY <1>2, QIs, StepAway DEF Step, Quiet
<1>3. CASE ch \in DOMAIN FirstGuess /\ Notify("message_begin", [f EXCEPT !.method = FirstGuess[ch], !.index = 1,
                                                    !.state = "s_req_method"])
  <2> DEFINE r == [f EXCEPT !.method = FirstGuess[ch], !.index = 1, !.state = "s_req_method"]
  <2> HIDE DEF f
  <2>1. r \in Parsers /\ r.state = "s_req_method"
    BY <1>1, <1>3, GuessIs, NotUrlStates DEF Parsers
  <2>2. Notify("message_begin", r)
    BY <1>3
  <2> HIDE DEF r
  <2> QED BY <2>1, <2>2, NotUrlStates, NotifyAway
<1>4. CASE Error(f, "HPE_INVALID_METHOD")
  BY <1>1, <1>4, ErrorAway
<1> QED BY <1>2, <1>3, <1>4 DEF StartReq

\* Headers.
LEMMA ValueStartAway == ASSUME InLoop, ValueStart PROVE Away
<1>1. q \in Parsers
  BY QIs
<1> HIDE DEF q
<1>2. "s_header_value" \notin UrlStates
  BY NotUrlStates
<1> HIDE DEF UrlStates
<1> QED BY <1>1, <1>2 DEF ValueStart, Away, Error, Return, Continue, Quiet, Parsers

LEMMA DiscardWsAway == ASSUME InLoop, DiscardWs, parser.state \notin UrlStates PROVE Away
<1>1. q \in Parsers /\ q.state \notin UrlStates
  BY QIs
<1> HIDE DEF q
<1>2. CASE ch \notin Blank \cup LineEnd /\ ValueStart
  BY <1>2, ValueStartAway
<1>3. CASE Step(q)
  BY <1>1, <1>3 DEF Step, Away, Continue, Quiet
<1>4. CASE \E s \in {"s_header_value_discard_ws_almost_done", "s_header_value_discard_lws"} : Goto(s)
  <2>1. PICK s \in {"s_header_value_discard_ws_almost_done", "s_header_value_discard_lws"} : Goto(s)
    BY <1>4
  <2>2. s \notin UrlStates
    BY NotUrlStates
  <2> HIDE DEF UrlStates
  <2> QED BY <1>1, <2>1, <2>2 DEF Goto, Step, Away, Continue, Quiet, Parsers
<1> QED BY <1>2, <1>3, <1>4 DEF DiscardWs

\* The end of the headers.
LEMMA HeadersAlmostDoneAway == ASSUME InLoop, HeadersAlmostDone, parser.state \notin UrlStates PROVE Away
<1>1. q \in Parsers /\ q.state \notin UrlStates
  BY QIs
<1> HIDE DEF q
<1> DEFINE r == [q EXCEPT !.state = "s_headers_done", !.upgrade = Upgrade(q)]
           n == [q EXCEPT !.state = NEW_MESSAGE(q)]
<1>2. r \in [DOMAIN q -> {r[f] : f \in DOMAIN q}] /\ r.state \notin UrlStates
  <2>1. "s_headers_done" \notin UrlStates
    BY NotUrlStates
  <2> QED BY <1>1, <2>1 DEF Parsers
<1>3. n \in Parsers /\ n.state \notin UrlStates
  <2>1. NEW_MESSAGE(q) \in StateNames \ UrlStates
    BY NewMessageIs, NotUrlStates
  <2> HIDE DEF UrlStates
  <2> QED BY <1>1, <2>1 DEF Parsers
<1>4. "state" \in DOMAIN r /\ "flags" \in DOMAIN r
  BY <1>1 DEF Parsers
<1> HIDE DEF UrlStates, n
<1>5. CASE Fail("HPE_STRICT")
  BY <1>1, <1>5, ErrorAway DEF Fail
<1>6. CASE Notify("message_complete", n)
  BY <1>3, <1>6, NotifyAway
<1>7. CASE /\ calls' = Recorded("headers_complete", << >>)
           /\ \/ Continue(r, p, mark, None)
              \/ Continue([r EXCEPT !.flags = @ \cup Flag("F_SKIPBODY")], p, mark, None)
              \/ \E e \in {"HPE_CB", "HPE_PAUSED"} : Return([r EXCEPT !.errno = e], p)
  <2> HIDE DEF r
  <2>1. parser'.state \notin UrlStates
    BY <1>2, <1>4, <1>7 DEF Continue, Return
  <2>2. "headers_complete" # "url"
    OBVIOUS
  <2>3. calls' = Recorded("headers_complete", << >>)
    BY <1>7
  <2> HIDE <1>7
  <2> QED BY <2>1, <2>2, <2>3 DEF Away
<1> QED BY <1>5, <1>6, <1>7 DEF HeadersAlmostDone, n

LEMMA HeadersDoneAway == ASSUME InLoop, HeadersDone, parser.state \notin UrlStates PROVE Away
<1>1. q \in Parsers /\ q.state \notin UrlStates
  BY QIs
<1> HIDE DEF q
<1> DEFINE r == [q EXCEPT !.nread = 0]
           new == [r EXCEPT !.state = NEW_MESSAGE(r)]
           body == [r EXCEPT !.state = BodyState(r)]
<1>2. r \in Parsers
  BY <1>1 DEF Parsers
<1> HIDE DEF r
<1>3. new \in Parsers /\ new.state \notin UrlStates
  <2>1. NEW_MESSAGE(r) \in StateNames \ UrlStates
    BY NewMessageIs, NotUrlStates
  <2> HIDE DEF UrlStates
  <2> QED BY <1>2, <2>1 DEF Parsers
<1>4. BodyState(r) # "none" => body.state \notin UrlStates
  <2>1. BodyState(r) # "none" => BodyState(r) \in {"s_chunk_size_start", "s_body_identity", "s_body_identity_eof"}
    BY DEF BodyState
  <2>2. BodyState(r) # "none" => BodyState(r) \notin UrlStates
    BY <2>1, NotUrlStates
  <2> HIDE DEF UrlStates
  <2> QED BY <1>2, <2>2 DEF Parsers
<1> HIDE DEF UrlStates, new, body
<1>5. CASE Fail("HPE_STRICT")
  BY <1>1, <1>5, ErrorAway DEF Fail
<1>6. CASE Notify("message_complete", new)
  BY <1>3, <1>6, NotifyAway
<1>7. CASE BodyState(r) # "none" /\ Step(body)
  BY <1>4, <1>7, StepAway DEF Step
<1>8. CASE /\ calls' = Recorded("message_complete", << >>)
           /\ \/ Return(new, p + 1)
              \/ \E e \in {"HPE_CB", "HPE_PAUSED"} : Return([new EXCEPT !.errno = e], p + 1)
  <2>1. parser'.state \notin UrlStates
    BY <1>3, <1>8 DEF Return, Parsers
  <2> QED BY <1>8, <2>1 DEF Away
<1> QED BY <1>5, <1>6, <1>7, <1>8 DEF HeadersDone, new, body, r

\* The inner loops.
LEMMA InnerAway ==
  ASSUME InLoop, parser.state \in InnerStates, NEW r \in Parsers, r.state \notin UrlStates, r.nread = q.nread,
         NEW n \in Int, n > p, InnerStep(r, n)
  PROVE  Away
<1> DEFINE from == IF start = None THEN p ELSE start
           done == Count(r, n - from)
<1>1. p \in Nat /\ n - from \in Nat
  <2>1. p \in Nat /\ (start # None => start \in Nat /\ start < p)
    BY TakenIs, InputIs DEF InLoop, IInv
  <2> QED BY <2>1
<1>2. r.nread + (n - from) \in Nat
  BY <1>1 DEF Parsers
<1>3. done.state = r.state
  BY <1>1, <1>2, CountIs
<1> HIDE DEF done, UrlStates, q
<1>4. Quiet /\ \E s \in {r, done} : \E m, st : Continue(s, n, m, st) \/ Return(s, n)
  BY DEF InnerStep, done
<1> QED BY <1>3, <1>4, StepAway

LEMMA HeaderFieldAway == ASSUME InLoop, HeaderField, parser.state \notin UrlStates PROVE Away
<1> DEFINE r == Count(q, Taken)
           named == [r EXCEPT !.state = "s_header_value_discard_ws"]
<1>1. parser.state = "s_header_field" /\ parser.state \in InnerStates
  BY DEF HeaderField, At, InnerStates
<1>2. q \in Parsers /\ q.state = parser.state /\ q.nread + Taken \in Nat /\ Taken \in Int
  BY <1>1, QIs, TakenIs DEF Parsers
<1>3. r \in Parsers /\ r.state \notin UrlStates
  BY <1>2, CountIs
<1>4. named \in Parsers /\ named.state \notin UrlStates
  <2>1. "s_header_value_discard_ws" \in StateNames \ UrlStates
    BY NotUrlStates
  <2> HIDE DEF r, UrlStates
  <2> QED BY <1>3, <2>1 DEF Parsers
<1>5. CASE InnerStep(NameLetter(q, LOWER(ch)), p + 1)
  <2> DEFINE l == NameLetter(q, LOWER(ch))
  <2>1. l \in Parsers /\ l.state = parser.state /\ l.nread = q.nread
    BY NameLetterIs DEF Like
  <2>2. p \in Nat
    BY InputIs DEF InLoop, IInv
  <2> HIDE DEF l
  <2> QED BY <1>1, <1>5, <2>1, <2>2, InnerAway DEF l
<1> HIDE DEF r, named, UrlStates
<1>6. CASE Return(r, p) /\ Quiet
  BY <1>3, <1>6, StepAway
<1>7. CASE CallData("header_field", mark, p, named, p + 1, named, p + 1)
  BY <1>4, <1>7, DataAway
<1>8. CASE Error(r, "HPE_INVALID_HEADER_TOKEN")
  BY <1>3, <1>8, ErrorAway
<1> QED BY <1>5, <1>6, <1>7, <1>8 DEF HeaderField, r, named

LEMMA HeaderValueAway == ASSUME InLoop, HeaderValue, parser.state \notin UrlStates PROVE Away
<1> DEFINE r == [q EXCEPT !.state = "s_header_almost_done"]
           counted == Count(r, Taken)
           again == Count(counted, Taken - 1)
           byte == ValueByte(q)
<1>1. parser.state = "s_header_value" /\ parser.state \in InnerStates
  BY DEF HeaderValue, At, InnerStates
<1>2. q \in Parsers /\ q.state = parser.state /\ q.nread + Taken \in Nat /\ Taken \in Nat
  BY <1>1, QIs, TakenIs DEF Parsers
<1>3. r \in Parsers /\ r.state \notin UrlStates /\ r.nread = q.nread
  <2>1. "s_header_almost_done" \in StateNames \ UrlStates
    BY NotUrlStates
  <2> HIDE DEF q, UrlStates
  <2> QED BY <1>2, <2>1 DEF Parsers
<1>4. counted \in Parsers /\ counted.state \notin UrlStates /\ counted.nread = q.nread + Taken
  <2>1. r.nread + Taken \in Nat /\ Taken \in Int
    BY <1>2, <1>3
  <2> HIDE DEF r, q
  <2> QED BY <1>2, <1>3, <2>1, CountIs
<1>6. CASE ch = "LF" /\ CallData("header_value", mark, p, again, p, counted, p)
  <2>1. again.state \notin UrlStates
    <3>1. counted.nread + (Taken - 1) \in Nat
      <4>1. Taken = 0 => q.nread >= 1
        <5>1. Taken = 0 => start = None
          <6>1. p \in Nat
            BY InputIs DEF InLoop, IInv
          <6> QED BY <6>1, <1>1, TakenIs
        <5> QED BY <5>1, <1>1, TakenIs
      <4>2. q.nread \in Nat
        BY <1>2 DEF Parsers
      <4> HIDE DEF counted, q, Taken
      <4> QED BY <1>2, <1>4, <4>1, <4>2
    <3> QED BY <1>2, <1>4, <3>1, CountIs
  <2> HIDE DEF counted, again, UrlStates
  <2> QED BY <1>4, <1>6, <2>1, DataAway
<1>7. CASE InnerStep(byte, IF q.header_state = "h_general" THEN LineEndFrom(p) ELSE p + 1) /\ ch \notin LineEnd
  <2> DEFINE n == IF q.header_state = "h_general" THEN LineEndFrom(p) ELSE p + 1
  <2>1. n \in Int /\ n > p
    <3>1. p \in Nat
      BY InputIs DEF InLoop, IInv
    <3> QED BY <1>7, <3>1, LineEndIs
  <2>2. byte \in Parsers /\ byte.state = parser.state /\ byte.nread = q.nread
    BY <1>1, ValueByteIs
  <2> HIDE DEF n, byte
  <2> QED BY <1>1, <1>7, <2>1, <2>2, InnerAway DEF n
<1>8. byte.state \notin UrlStates
  BY <1>1, ValueByteIs
<1> HIDE DEF r, counted, byte, UrlStates, again
<1>9. CASE \E s \in {byte, counted} : Return(s, p) /\ Quiet
  BY <1>4, <1>8, <1>9, StepAway
<1>10. CASE CallData("header_value", mark, p, counted, p + 1, r, p + 1)
  BY <1>3, <1>4, <1>10, DataAway
<1> QED BY <1>6, <1>7, <1>9, <1>10 DEF HeaderValue, r, counted, byte, again

\* Every other step of the loop.
LEMMA LoopAway ==
  ASSUME IInv, Loop, ~EndOfData, ~EndOfCall, ~HeaderOverflow, ~SpacesBeforeUrl, ~Url, ~UrlEnd
  PROVE  Away
<1>1. CASE Dead
  <2>1. InLoop /\ parser.state \notin UrlStates
    BY <1>1 DEF Dead, At, InLoop, UrlStates, UrlServer, UrlQuery, UrlFragment
  <2>2. q \in Parsers /\ q.state = parser.state
    BY <2>1, QIs
  <2> HIDE DEF q
  <2> QED BY <1>1, <2>1, <2>2 DEF Dead, At, Step, Fail, Error, Continue, Return, Quiet, Away,
             Parsers, UrlStates, UrlServer, UrlQuery, UrlFragment
<1>2. CASE StartReqOrRes
  <2>1. InLoop /\ parser.state \notin UrlStates
    BY <1>2 DEF StartReqOrRes, At, InLoop, UrlStates, UrlServer, UrlQuery, UrlFragment
  <2> QED BY <1>2, <2>1, StartReqOrResAway
<1>3. CASE ResOrRespH
  <2>1. InLoop /\ parser.state \notin UrlStates
    BY <1>3 DEF ResOrRespH, At, InLoop, UrlStates, UrlServer, UrlQuery, UrlFragment
  <2>2. q \in Parsers /\ q.state = parser.state
    BY <2>1, QIs
  <2> HIDE DEF q
  <2> QED BY <1>3, <2>1, <2>2 DEF ResOrRespH, At, Step, Fail, Error, Continue, Return, Quiet, Away,
             Parsers, UrlStates, UrlServer, UrlQuery, UrlFragment
<1>4. CASE StartRes
  <2>1. InLoop /\ parser.state \notin UrlStates
    BY <1>4 DEF StartRes, At, InLoop, UrlStates, UrlServer, UrlQuery, UrlFragment
  <2> QED BY <1>4, <2>1, StartResAway
<1>5. CASE OneByte
  <2>1. InLoop /\ parser.state \notin UrlStates
    BY <1>5 DEF OneByte, At, InLoop, UrlStates, UrlServer, UrlQuery, UrlFragment, Expect
  <2>2. q \in Parsers /\ q.state = parser.state
    BY <2>1, QIs
  <2> HIDE DEF q
  <2> QED BY <1>5, <2>1, <2>2 DEF OneByte, At, Goto, Step, Fail, Error, Continue, Return, Quiet,
             Away, Parsers, UrlStates, UrlServer, UrlQuery, UrlFragment, Expect
<1>6. CASE FirstMajor
  <2>1. InLoop /\ parser.state \notin UrlStates
    BY <1>6 DEF FirstMajor, At, InLoop, UrlStates, UrlServer, UrlQuery, UrlFragment
  <2>2. q \in Parsers /\ q.state = parser.state
    BY <2>1, QIs
  <2> HIDE DEF q
  <2> QED BY ZenonT(40), <1>6, <2>1, <2>2 DEF FirstMajor, At, Step, Fail, Error, Continue, Return, Quiet, Away,
             Parsers, UrlStates, UrlServer, UrlQuery, UrlFragment
<1>7. CASE Major
  <2>1. InLoop /\ parser.state \notin UrlStates
    BY <1>7 DEF Major, At, InLoop, UrlStates, UrlServer, UrlQuery, UrlFragment
  <2>2. q \in Parsers /\ q.state = parser.state
    BY <2>1, QIs
  <2> HIDE DEF q
  <2> QED BY <1>7, <2>1, <2>2 DEF Major, At, Goto, Step, Fail, Error, Continue, Return, Quiet, Away,
             Parsers, UrlStates, UrlServer, UrlQuery, UrlFragment
<1>8. CASE FirstMinor
  <2>1. InLoop /\ parser.state \notin UrlStates
    BY <1>8 DEF FirstMinor, At, InLoop, UrlStates, UrlServer, UrlQuery, UrlFragment
  <2>2. q \in Parsers /\ q.state = parser.state
    BY <2>1, QIs
  <2> DEFINE r == [q EXCEPT !.http_minor = DigitVal(ch),
                            !.state = IF @ = "s_req_first_http_minor" THEN "s_req_http_minor"
                                                                      ELSE "s_res_http_minor"]
  <2>3. r.state \notin UrlStates
    BY <2>2 DEF Parsers, UrlStates, UrlServer, UrlQuery, UrlFragment
  <2>4. Step(r) \/ Error(q, "HPE_INVALID_VERSION")
    BY <1>8 DEF FirstMinor, Fail
  <2> HIDE DEF r, q
  <2> QED BY <2>1, <2>2, <2>3, <2>4, StepAway, ErrorAway DEF Step
<1>9. CASE Minor
  <2>1. InLoop /\ parser.state \notin UrlStates
    BY <1>9 DEF Minor, At, InLoop, UrlStates, UrlServer, UrlQuery, UrlFragment
  <2>2. q \in Parsers /\ q.state = parser.state
    BY <2>1, QIs
  <2> HIDE DEF q
  <2> QED BY <1>9, <2>1, <2>2 DEF Minor, At, Goto, Step, Fail, Error, Continue, Return, Quiet, Away,
             Parsers, UrlStates, UrlServer, UrlQuery, UrlFragment
<1>10. CASE FirstStatusCode
  <2>1. InLoop /\ parser.state \notin UrlStates
    BY <1>10 DEF FirstStatusCode, At, InLoop, UrlStates, UrlServer, UrlQuery, UrlFragment
  <2>2. q \in Parsers /\ q.state = parser.state
    BY <2>1, QIs
  <2> HIDE DEF q
  <2> QED BY <1>10, <2>1, <2>2 DEF FirstStatusCode, At, Step, Fail, Error, Continue, Return, Quiet,
             Away, Parsers, UrlStates, UrlServer, UrlQuery, UrlFragment
<1>11. CASE StatusCode
  <2>1. InLoop /\ parser.state \notin UrlStates
    BY <1>11 DEF StatusCode, At, InLoop, UrlStates, UrlServer, UrlQuery, UrlFragment
  <2>2. q \in Parsers /\ q.state = parser.state
    BY <2>1, QIs
  <2> HIDE DEF q
  <2> QED BY <1>11, <2>1, <2>2 DEF StatusCode, At, Goto, Step, Fail, Error, Continue, Return, Quiet,
             StatusLineEnd, Away, Parsers, UrlStates, UrlServer, UrlQuery, UrlFragment
<1>12. CASE StatusStart
  <2>1. InLoop /\ parser.state \notin UrlStates
    BY <1>12 DEF StatusStart, At, InLoop, UrlStates, UrlServer, UrlQuery, UrlFragment
  <2>2. q \in Parsers /\ q.state = parser.state
    BY <2>1, QIs
  <2> DEFINE r == [q EXCEPT !.state = "s_res_status", !.index = 0]
  <2>3. r.state \notin UrlStates /\ StatusLineEnd(ch) \notin UrlStates
    BY <2>2 DEF StatusLineEnd, Parsers, UrlStates, UrlServer, UrlQuery, UrlFragment
  <2>4. Goto(StatusLineEnd(ch)) \/ (Continue(r, p + 1, MARK("status"), None) /\ Quiet)
    BY <1>12 DEF StatusStart
  <2> HIDE DEF r
  <2> QED BY <2>1, <2>3, <2>4, GotoAway, StepAway
<1>13. CASE Status
  <2>1. InLoop /\ parser.state \notin UrlStates
    BY <1>13 DEF Status, At, InLoop, UrlStates, UrlServer, UrlQuery, UrlFragment
  <2>2. q \in Parsers /\ q.state = parser.state
    BY <2>1, QIs
  <2> DEFINE r == [q EXCEPT !.state = StatusLineEnd(ch)]
  <2>3. StatusLineEnd(ch) \in StateNames \ UrlStates
    BY DEF StatusLineEnd, StateNames, UrlStates, UrlServer, UrlQuery, UrlFragment
  <2>4. r \in Parsers /\ r.state \notin UrlStates
    BY <2>2, <2>3 DEF Parsers
  <2>5. CallData("status", mark, p, r, p + 1, r, p + 1) \/ Step(q)
    BY <1>13 DEF Status
  <2> HIDE DEF r
  <2> QED BY <2>1, <2>2, <2>4, <2>5, DataAway, StepAway DEF Step
<1>14. CASE StartReq
  <2>1. InLoop /\ parser.state \notin UrlStates
    BY <1>14 DEF StartReq, At, InLoop, UrlStates, UrlServer, UrlQuery, UrlFragment
  <2> QED BY <1>14, <2>1, StartReqAway
<1>15. CASE ReqMethod
  <2>1. InLoop /\ parser.state \notin UrlStates
    BY <1>15 DEF ReqMethod, At, InLoop, UrlStates, UrlServer, UrlQuery, UrlFragment
  <2>2. q \in Parsers /\ q.state = parser.state
    BY <2>1, QIs
  <2> HIDE DEF q
  <2> QED BY <1>15, <2>1, <2>2 DEF ReqMethod, At, Step, Fail, Error, Continue, Return, Quiet, Away,
             Parsers, UrlStates, UrlServer, UrlQuery, UrlFragment
<1>16. CASE HttpStart
  <2>1. InLoop /\ parser.state \notin UrlStates
    BY <1>16 DEF HttpStart, At, InLoop, UrlStates, UrlServer, UrlQuery, UrlFragment
  <2>2. q \in Parsers /\ q.state = parser.state
    BY <2>1, QIs
  <2> HIDE DEF q
  <2> QED BY <1>16, <2>1, <2>2 DEF HttpStart, At, Goto, Step, Fail, Error, Continue, Return, Quiet,
             Away, Parsers, UrlStates, UrlServer, UrlQuery, UrlFragment
<1>17. CASE HeaderFieldStart
  <2>1. InLoop /\ parser.state \notin UrlStates
    BY <1>17 DEF HeaderFieldStart, At, InLoop, UrlStates, UrlServer, UrlQuery, UrlFragment
  <2>2. q \in Parsers /\ q.state = parser.state
    BY <2>1, QIs
  <2> DEFINE r == [q EXCEPT !.state = "s_header_field", !.index = 0, !.header_state = FirstLetter(LOWER(ch))]
             t == [q EXCEPT !.state = "s_headers_almost_done"]
  <2>3. r.state = "s_header_field" /\ t.state = "s_headers_almost_done"
    BY <2>2 DEF Parsers
  <2>4. {"s_header_field", "s_headers_almost_done"} \cap UrlStates = {}
    BY NotUrlStates
  <2>5. \/ Goto("s_headers_almost_done") \/ Reexecute(t) \/ Error(q, "HPE_INVALID_HEADER_TOKEN")
        \/ (Continue(r, p + 1, MARK("header_field"), None) /\ Quiet)
    BY <1>17 DEF HeaderFieldStart, Fail
  <2> HIDE DEF r, t
  <2> QED BY <2>1, <2>2, <2>3, <2>4, <2>5, GotoAway, StepAway, ErrorAway DEF Reexecute
<1>18. CASE HeaderField
  <2>1. InLoop /\ parser.state \notin UrlStates
    BY <1>18 DEF HeaderField, At, InLoop, UrlStates, UrlServer, UrlQuery, UrlFragment
  <2> QED BY <1>18, <2>1, HeaderFieldAway
<1>19. CASE DiscardWs
  <2>1. InLoop /\ parser.state \notin UrlStates
    BY <1>19 DEF DiscardWs, At, InLoop, UrlStates, UrlServer, UrlQuery, UrlFragment
  <2> QED BY <1>19, <2>1, DiscardWsAway
<1>20. CASE HeaderValueStart
  <2>1. InLoop /\ parser.state \notin UrlStates
    BY <1>20 DEF HeaderValueStart, At, InLoop, UrlStates, UrlServer, UrlQuery, UrlFragment
  <2> QED BY <1>20, <2>1, ValueStartAway DEF HeaderValueStart
<1>21. CASE HeaderValue
  <2>1. InLoop /\ parser.state \notin UrlStates
    BY <1>21 DEF HeaderValue, At, InLoop, UrlStates, UrlServer, UrlQuery, UrlFragment
  <2> QED BY <1>21, <2>1, HeaderValueAway
<1>22. CASE HeaderValueLws
  <2>1. InLoop /\ parser.state \notin UrlStates
    BY <1>22 DEF HeaderValueLws, At, InLoop, UrlStates, UrlServer, UrlQuery, UrlFragment
  <2>2. q \in Parsers /\ q.state = parser.state
    BY <2>1, QIs
  <2> DEFINE r == [q EXCEPT !.state = "s_header_value_start"]
             t == [q EXCEPT !.flags = @ \cup HeaderFlag(q.header_state), !.state = "s_header_field_start"]
  <2>3. r.state \notin UrlStates /\ t.state \notin UrlStates
    BY <2>2 DEF Parsers, UrlStates, UrlServer, UrlQuery, UrlFragment
  <2>4. Reexecute(r) \/ Reexecute(t)
    BY <1>22 DEF HeaderValueLws
  <2> HIDE DEF r, t
  <2> QED BY <2>3, <2>4, StepAway DEF Reexecute
<1>23. CASE DiscardLws
  <2>1. InLoop /\ parser.state \notin UrlStates
    BY <1>23 DEF DiscardLws, At, InLoop, UrlStates, UrlServer, UrlQuery, UrlFragment
  <2>2. q \in Parsers /\ q.state = parser.state
    BY <2>1, QIs
  <2> DEFINE r == [q EXCEPT !.flags = @ \cup HeaderFlag(q.header_state), !.state = "s_header_field_start"]
  <2>3. "s_header_field_start" \in StateNames \ UrlStates /\ "s_header_value_discard_ws" \notin UrlStates
    BY NotUrlStates
  <2>4. r.state = "s_header_field_start" /\ \A e : [r EXCEPT !.errno = e].state = r.state
    BY <2>2 DEF Parsers
  <2>5. \/ Goto("s_header_value_discard_ws")
        \/ CallData("header_value", MARK("header_value"), p, r, p, r, p)
    BY <1>23 DEF DiscardLws
  <2> HIDE DEF r
  <2>6. CASE CallData("header_value", MARK("header_value"), p, r, p, r, p)
    BY <2>3, <2>4, <2>6 DEF CallData, Call, Continue, Return, Quiet, Away
  <2> QED BY <2>1, <2>3, <2>5, <2>6, GotoAway
<1>24. CASE HeadersAlmostDone
  <2>1. InLoop /\ parser.state \notin UrlStates
    BY <1>24 DEF HeadersAlmostDone, At, InLoop, UrlStates, UrlServer, UrlQuery, UrlFragment
  <2> QED BY <1>24, <2>1, HeadersAlmostDoneAway
<1>25. CASE HeadersDone
  <2>1. InLoop /\ parser.state \notin UrlStates
    BY <1>25 DEF HeadersDone, At, InLoop, UrlStates, UrlServer, UrlQuery, UrlFragment
  <2> QED BY <1>25, <2>1, HeadersDoneAway
<1>26. CASE BodyIdentity
  <2>1. InLoop /\ parser.state \notin UrlStates
    BY <1>26 DEF BodyIdentity, At, InLoop, UrlStates, UrlServer, UrlQuery, UrlFragment
  <2>2. q \in Parsers /\ q.state = parser.state
    BY <2>1, QIs
  <2> DEFINE n == ToRead
             r == [Read(n) EXCEPT !.state = "s_message_done"]
  <2>3. Read(n).state \notin UrlStates /\ r.state \notin UrlStates
    BY <2>1, <2>2 DEF Read, Parsers, UrlStates, UrlServer, UrlQuery, UrlFragment
  <2>4. CASE Continue(Read(n), p + n, MARK("body"), None) /\ Quiet
    <3> HIDE DEF n
    <3> QED BY <2>3, <2>4, StepAway
  <2>5. CASE CallData("body", MARK("body"), p + n, r, p + n - 1, r, p + n - 1)
    <3>1. \A e : [r EXCEPT !.errno = e].state = r.state
      BY <2>2 DEF Read, Parsers
    <3> HIDE DEF n, r
    <3> QED BY <2>3, <2>5, <3>1 DEF CallData, Call, Continue, Return, Quiet, Away
  <2> QED BY <1>26, <2>4, <2>5 DEF BodyIdentity
<1>27. CASE BodyIdentityEof
  <2>1. InLoop /\ parser.state \notin UrlStates
    BY <1>27 DEF BodyIdentityEof, At, InLoop, UrlStates, UrlServer, UrlQuery, UrlFragment
  <2>2. q \in Parsers /\ q.state = parser.state
    BY <2>1, QIs
  <2> HIDE DEF q
  <2> QED BY <1>27, <2>1, <2>2 DEF BodyIdentityEof, At, Continue, Quiet, Away, Parsers, UrlStates,
             UrlServer, UrlQuery, UrlFragment
<1>28. CASE MessageDone
  <2>1. InLoop /\ parser.state \notin UrlStates
    BY <1>28 DEF MessageDone, At, InLoop, UrlStates, UrlServer, UrlQuery, UrlFragment
  <2>2. q \in Parsers /\ q.state = parser.state
    BY <2>1, QIs
  <2> DEFINE r == [q EXCEPT !.state = NEW_MESSAGE(q)]
  <2>3. NEW_MESSAGE(q) \in StateNames \ UrlStates
    BY NotUrlStates DEF NEW_MESSAGE
  <2>4. r \in Parsers /\ r.state \notin UrlStates
    BY <2>2, <2>3 DEF Parsers
  <2>5. Notify("message_complete", r)
    BY <1>28 DEF MessageDone
  <2> HIDE DEF r
  <2> QED BY <2>4, <2>5, NotifyAway
<1>29. CASE ChunkSizeStart
  <2>1. InLoop /\ parser.state \notin UrlStates
    BY <1>29 DEF ChunkSizeStart, At, InLoop, UrlStates, UrlServer, UrlQuery, UrlFragment
  <2>2. q \in Parsers /\ q.state = parser.state
    BY <2>1, QIs
  <2> HIDE DEF q
  <2> QED BY ZenonT(40), <1>29, <2>1, <2>2 DEF ChunkSizeStart, At, Step, Fail, Error, Continue, Return, Quiet,
             Away, Parsers, UrlStates, UrlServer, UrlQuery, UrlFragment
<1>30. CASE ChunkSize
  <2>1. InLoop /\ parser.state \notin UrlStates
    BY <1>30 DEF ChunkSize, At, InLoop, UrlStates, UrlServer, UrlQuery, UrlFragment
  <2>2. q \in Parsers /\ q.state = parser.state
    BY <2>1, QIs
  <2> HIDE DEF q
  <2> QED BY <1>30, <2>1, <2>2 DEF ChunkSize, At, Goto, Step, Fail, Error, Continue, Return, Quiet,
             Away, Parsers, UrlStates, UrlServer, UrlQuery, UrlFragment
<1>31. CASE ChunkParameters
  <2>1. InLoop /\ parser.state \notin UrlStates
    BY <1>31 DEF ChunkParameters, At, InLoop, UrlStates, UrlServer, UrlQuery, UrlFragment
  <2>2. q \in Parsers /\ q.state = parser.state
    BY <2>1, QIs
  <2> HIDE DEF q
  <2> QED BY <1>31, <2>1, <2>2 DEF ChunkParameters, At, Goto, Step, Continue, Quiet, Away, Parsers,
             UrlStates, UrlServer, UrlQuery, UrlFragment
<1>32. CASE ChunkSizeAlmostDone
  <2>1. InLoop /\ parser.state \notin UrlStates
    BY <1>32 DEF ChunkSizeAlmostDone, At, InLoop, UrlStates, UrlServer, UrlQuery, UrlFragment
  <2>2. q \in Parsers /\ q.state = parser.state
    BY <2>1, QIs
  <2> HIDE DEF q
  <2> DEFINE z == [q EXCEPT !.nread = 0]
             t == [z EXCEPT !.flags = @ \cup Flag("F_TRAILING"), !.state = "s_header_field_start"]
             d == [z EXCEPT !.state = "s_chunk_data"]
  <2>3. z \in Parsers
    BY <2>2 DEF Parsers
  <2>4. Step(t) \/ Step(d) \/ Fail("HPE_STRICT")
    BY <1>32 DEF ChunkSizeAlmostDone
  <2> HIDE DEF z
  <2>5. t.state = "s_header_field_start" /\ d.state = "s_chunk_data"
    BY <2>3 DEF Parsers
  <2>6. t.state \notin UrlStates /\ d.state \notin UrlStates
    BY <2>5 DEF UrlStates, UrlServer, UrlQuery, UrlFragment
  <2> HIDE DEF t, d
  <2> QED BY <2>1, <2>2, <2>4, <2>6, StepAway, ErrorAway DEF Step, Fail
<1>33. CASE ChunkData
  <2>1. InLoop /\ parser.state \notin UrlStates
    BY <1>33 DEF ChunkData, At, InLoop, UrlStates, UrlServer, UrlQuery, UrlFragment
  <2>2. q \in Parsers /\ q.state = parser.state
    BY <2>1, QIs
  <2> HIDE DEF q
  <2> QED BY <1>33, <2>1, <2>2 DEF ChunkData, At, Continue, Quiet, Read, Away, Parsers, UrlStates,
             UrlServer, UrlQuery, UrlFragment
<1>34. CASE ChunkDataAlmostDone
  <2>1. InLoop /\ parser.state \notin UrlStates
    BY <1>34 DEF ChunkDataAlmostDone, At, InLoop, UrlStates, UrlServer, UrlQuery, UrlFragment
  <2>2. q \in Parsers /\ q.state = parser.state
    BY <2>1, QIs
  <2> DEFINE r == [q EXCEPT !.state = "s_chunk_data_done"]
  <2>3. r \in Parsers /\ r.state \notin UrlStates
    BY <2>2 DEF Parsers, StateNames, UrlStates, UrlServer, UrlQuery, UrlFragment
  <2>4. CallData("body", mark, p, r, p + 1, r, p + 1) \/ Error(q, "HPE_STRICT")
    BY <1>34 DEF ChunkDataAlmostDone, Fail
  <2> HIDE DEF r
  <2> QED BY <2>1, <2>2, <2>3, <2>4, DataAway, ErrorAway
<1>35. CASE ChunkDataDone
  <2>1. InLoop /\ parser.state \notin UrlStates
    BY <1>35 DEF ChunkDataDone, At, InLoop, UrlStates, UrlServer, UrlQuery, UrlFragment
  <2>2. q \in Parsers /\ q.state = parser.state
    BY <2>1, QIs
  <2> HIDE DEF q
  <2> QED BY ZenonT(40), <1>35, <2>1, <2>2 DEF ChunkDataDone, At, Step, Fail, Error, Continue, Return, Quiet,
             Away, Parsers, UrlStates, UrlServer, UrlQuery, UrlFragment
<1> QED
  BY <1>1, <1>2, <1>3, <1>4, <1>5, <1>6, <1>7, <1>8, <1>9, <1>10, <1>11, <1>12,
     <1>13, <1>14, <1>15, <1>16, <1>17, <1>18, <1>19, <1>20, <1>21, <1>22, <1>23,
     <1>24, <1>25, <1>26, <1>27, <1>28, <1>29, <1>30, <1>31, <1>32, <1>33, <1>34,
     <1>35
  DEF Loop

-----------------------------------------------------------------------------
(***************************************************************************)
(* The url that the callbacks get is not empty and has no blank in it.     *)
(***************************************************************************)
Clean(data) == \A j \in 1 .. Len(data) : data[j] \notin Blanks
CleanUrls(cs) ==
  \A i \in 1 .. Len(cs) : cs[i].cb = "url" => cs[i].data # << >> /\ Clean(cs[i].data)

UrlsClean ==
  /\ CleanUrls(calls)
  /\ mark["url"] # None =>
       /\ \A j \in mark["url"] + 1 .. p : input.bytes[j] \notin Blanks
       /\ mark["url"] < p \/ Last = "url"
  /\ Alive /\ parser.state \in UrlStates /\ mark["url"] = None => Last = "url"

\* parse_url_char lets no blank through.
LEMMA UrlByteClean == ASSUME NEW s, NEW c \in Blanks PROVE parse_url_char(s, c) = "s_dead"
<1>1. ~IS_ALPHA(c) /\ ~IS_NUM(c) /\ ~IS_MARK(c) /\ ~IS_URL_CHAR(c)
      /\ c \notin {"%", ";", ":", "&", "=", "+", "$", ","}
  <2>1. ~IS_ALPHA(c)
    BY DEF Blanks, IS_ALPHA, Ran, Upper, Lowers
  <2>2. ~IS_NUM(c)
    BY DEF Blanks, IS_NUM, Ran, Digits
  <2>3. ~IS_MARK(c)
    BY DEF Blanks, IS_MARK
  <2>4. ~IS_URL_CHAR(c)
    BY DEF Blanks, IS_URL_CHAR
  <2>5. c \notin {"%", ";", ":", "&", "=", "+", "$", ","}
    BY DEF Blanks
  <2> QED BY <2>1, <2>2, <2>3, <2>4, <2>5
<1>2. ~IS_USERINFO_CHAR(c)
  BY <1>1 DEF IS_USERINFO_CHAR
<1>3. c \notin {"/", "*", ":", "?", "@", "[", "]", "#"}
  BY DEF Blanks
<1> QED BY <1>1, <1>2, <1>3 DEF parse_url_char

\* Another callback leaves the urls alone.
LEMMA OtherClean ==
  ASSUME CleanUrls(calls), calls \in Seq(CallRecords), NEW cb, cb # "url", NEW data
  PROVE  CleanUrls(Recorded(cb, data))
<1> DEFINE n == Len(calls)
           cs == Recorded(cb, data)
<1>0. n \in Nat /\ \A i \in 1 .. n : calls[i] \in CallRecords
  OBVIOUS
<1>1. CASE n > 0 /\ cb \in DataCallbacks /\ calls[n].cb = cb
  <2> DEFINE x == [calls[n] EXCEPT !.data = @ \o data]
  <2>1. cs = [calls EXCEPT ![n] = x]
    BY <1>1 DEF Recorded
  <2>2. calls[n] \in CallRecords
    BY <1>0, <1>1
  <2>3. x.cb # "url"
    BY <1>1, <2>2 DEF CallRecords
  <2> HIDE DEF x, cs
  <2>4. Len(cs) = n /\ \A i \in 1 .. n : IF i = n THEN cs[i] = x ELSE cs[i] = calls[i]
    BY <2>1, <1>0, <1>1
  <2>5. CleanUrls(cs)
    BY <2>3, <2>4, <1>0 DEF CleanUrls
  <2> QED BY <2>5 DEF cs
<1>2. CASE ~(n > 0 /\ cb \in DataCallbacks /\ calls[n].cb = cb)
  <2> DEFINE x == [cb |-> cb, data |-> data]
  <2>1. cs = Append(calls, x)
    BY <1>2 DEF Recorded
  <2>2. x.cb # "url"
    OBVIOUS
  <2> HIDE DEF x, cs
  <2>3. Len(cs) = n + 1 /\ \A i \in 1 .. n + 1 : IF i = n + 1 THEN cs[i] = x ELSE cs[i] = calls[i]
    BY <2>1, <1>0
  <2>4. CleanUrls(cs)
    BY <2>2, <2>3, <1>0 DEF CleanUrls
  <2> QED BY <2>4 DEF cs
<1> QED BY <1>1, <1>2

\* So does a further piece of a url.
LEMMA PieceClean ==
  ASSUME CleanUrls(calls), calls \in Seq(CallRecords), NEW data \in Seq(STRING), Clean(data),
         data # << >> \/ Last = "url"
  PROVE  CleanUrls(Recorded("url", data)) /\ LastOf(Recorded("url", data)) = "url"
<1> DEFINE n == Len(calls)
           cs == Recorded("url", data)
<1>0. n \in Nat /\ \A i \in 1 .. n : calls[i] \in CallRecords
  OBVIOUS
<1>1. CASE n > 0 /\ calls[n].cb = "url"
  <2> DEFINE d == calls[n].data \o data
             x == [calls[n] EXCEPT !.data = d]
  <2>1. cs = [calls EXCEPT ![n] = x]
    BY <1>1 DEF Recorded, DataCallbacks
  <2>2. calls[n] \in CallRecords /\ calls[n].data \in Seq(STRING)
    BY <1>0, <1>1 DEF CallRecords
  <2>3. calls[n].data # << >> /\ Clean(calls[n].data)
    BY <1>0, <1>1 DEF CleanUrls
  <2>4. d # << >> /\ Clean(d)
    BY <2>2, <2>3 DEF Clean
  <2>5. x.cb = "url" /\ x.data = d
    BY <1>1, <2>2 DEF CallRecords
  <2> HIDE DEF x, cs, d
  <2>6. Len(cs) = n /\ \A i \in 1 .. n : IF i = n THEN cs[i] = x ELSE cs[i] = calls[i]
    BY <2>1, <1>0, <1>1
  <2>7. CleanUrls(cs)
    BY <2>4, <2>5, <2>6, <1>0 DEF CleanUrls
  <2>8. LastOf(cs) = "url"
    BY <1>0, <1>1, <2>5, <2>6 DEF LastOf
  <2> QED BY <2>7, <2>8 DEF cs
<1>2. CASE ~(n > 0 /\ calls[n].cb = "url")
  <2> DEFINE x == [cb |-> "url", data |-> data]
  <2>1. cs = Append(calls, x)
    BY <1>2 DEF Recorded
  <2>2. x.cb = "url" /\ x.data = data
    OBVIOUS
  <2>3. data # << >>
    BY <1>0, <1>2 DEF Last, LastOf
  <2> HIDE DEF x, cs
  <2>4. Len(cs) = n + 1 /\ \A i \in 1 .. n + 1 : IF i = n + 1 THEN cs[i] = x ELSE cs[i] = calls[i]
    BY <2>1, <1>0
  <2>5. CleanUrls(cs)
    BY <2>2, <2>3, <2>4, <1>0 DEF CleanUrls
  <2>6. LastOf(cs) = "url"
    BY <1>0, <2>2, <2>4 DEF LastOf
  <2> QED BY <2>5, <2>6 DEF cs
<1> QED BY <1>1, <1>2

\* Away from the url nothing is marked.
LEMMA MarkAway ==
  ASSUME IInv, parser.state \notin UrlStates
  PROVE  mark["url"] = None
<1>1. CASE pc = "loop"
  BY <1>1, HomeIs DEF IInv, Marks, MarksFit, DataCallbacks
<1>2. CASE pc # "loop"
  BY <1>2 DEF IInv, Marks, NoMarks, DataCallbacks
<1> QED BY <1>1, <1>2

LEMMA MarkAwayThen ==
  ASSUME IInv', parser'.state \notin UrlStates
  PROVE  mark'["url"] = None
<1>1. Marks'
  BY DEF IInv
<1>2. CASE pc' = "loop"
  BY <1>1, <1>2, HomeIs DEF Marks, MarksFit, DataCallbacks
<1>3. CASE pc' # "loop"
  BY <1>1, <1>3 DEF Marks, NoMarks, DataCallbacks
<1> QED BY <1>2, <1>3

LEMMA AwayKeeps ==
  ASSUME IInv, UrlsClean, IInv', Away
  PROVE  UrlsClean'
<1>1. mark'["url"] = None /\ parser'.state \notin UrlStates
  BY MarkAwayThen DEF Away
<1>2. calls \in Seq(CallRecords) /\ CleanUrls(calls)
  BY DEF IInv, Types, UrlsClean
<1>3. CleanUrls(calls)'
  BY <1>2, OtherClean DEF Away, CleanUrls
<1> QED BY <1>1, <1>3 DEF UrlsClean

\* A piece is handed over.
LEMMA HandedKeeps ==
  ASSUME IInv, UrlsClean, pc = "loop", mark["url"] # None, NEW ok, NEW pOk, NEW err, NEW pErr,
         CallData("url", mark, p, ok, pOk, err, pErr)
  PROVE  UrlsClean'
<1> DEFINE k == mark["url"]
           data == SubSeq(input.bytes, k + 1, p)
<1>1. /\ k \in Nat /\ k <= p /\ p \in Nat /\ p <= Len(input.bytes) /\ input.bytes \in Seq(STRING)
      /\ calls \in Seq(CallRecords)
  BY InputIs DEF IInv, Types, Marks, MarksFit, DataCallbacks
<1> HIDE DEF k
<1>2. data \in Seq(STRING) /\ Len(data) = p - k /\ \A j \in 1 .. p - k : data[j] = input.bytes[k + j]
  BY <1>1
<1>3. CleanUrls(calls) /\ (\A j \in k + 1 .. p : input.bytes[j] \notin Blanks) /\ (k < p \/ Last = "url")
  BY DEF UrlsClean, k
<1>4. Clean(data) /\ (data # << >> \/ Last = "url")
  <2>1. \A j \in 1 .. p - k : k + j \in k + 1 .. p
    BY <1>1
  <2>2. k < p => data # << >>
    BY <1>1, <1>2
  <2> HIDE DEF data
  <2> QED BY <1>2, <1>3, <2>1, <2>2 DEF Clean
<1>5. Call("url", data, mark, ok, pOk, err, pErr)
  BY DEF CallData, k
<1> HIDE DEF data
<1>6. CleanUrls(Recorded("url", data)) /\ LastOf(Recorded("url", data)) = "url"
  BY <1>1, <1>2, <1>3, <1>4, PieceClean
<1>7. CleanUrls(calls)' /\ Last' = "url"
  BY <1>5, <1>6 DEF Call, CleanUrls, Last, LastOf
<1>8. mark'["url"] = None
  BY <1>5 DEF Call, Continue, Return, NoMarks, DataCallbacks
<1> QED BY <1>7, <1>8 DEF UrlsClean

LEMMA SpacesBeforeUrlClean == ASSUME InLoop, UrlsClean, IInv', SpacesBeforeUrl PROVE UrlsClean'
<1> DEFINE from == IF parser.method = "CONNECT" THEN "s_req_server_start" ELSE parser.state
           s == parse_url_char(from, ch)
           r == [q EXCEPT !.state = s]
<1>1. parser.state = "s_req_spaces_before_url" /\ q \in Parsers /\ q.state = parser.state
  BY QIs DEF SpacesBeforeUrl, At
<1>2. parser.state \notin UrlStates /\ "s_dead" \notin UrlStates
  BY <1>1 DEF UrlStates, UrlServer, UrlQuery, UrlFragment
<1>3. mark["url"] = None
  BY <1>2, MarkAway DEF InLoop
<1> HIDE DEF q, s
<1>4. CASE Step(q)
  BY <1>1, <1>2, <1>4, StepAway, AwayKeeps DEF Step, InLoop
<1>5. CASE s = "s_dead" /\ Error(r, "HPE_INVALID_URL")
  BY <1>1, <1>2, <1>5, ErrorAway, AwayKeeps DEF InLoop, Parsers, StateNames
<1>6. CASE s # "s_dead" /\ Continue(r, p + 1, MARK("url"), None) /\ Quiet
  <2>1. ch \notin Blanks
    BY <1>6, UrlByteClean DEF s
  <2>2. p \in Nat /\ mark'["url"] = p /\ p' = p + 1 /\ input' = input /\ calls' = calls
    BY <1>3, <1>6, Here, InputIs DEF Continue, MARK, MarksFit, DataCallbacks, Quiet, InLoop, IInv
  <2>3. \A j \in p + 1 .. p + 1 : input.bytes[j] \notin Blanks
    BY <2>1, <2>2 DEF ch
  <2>4. p # None /\ p < p + 1
    BY <2>2, HttpAssumption
  <2> QED BY <2>2, <2>3, <2>4 DEF UrlsClean, CleanUrls
<1> QED BY <1>4, <1>5, <1>6 DEF SpacesBeforeUrl, s

LEMMA UrlClean == ASSUME InLoop, UrlsClean, IInv', Url PROVE UrlsClean'
<1> DEFINE s == parse_url_char(parser.state, ch)
           r == [q EXCEPT !.state = s]
<1>1. parser.state \in UrlStates /\ q \in Parsers
  BY QIs DEF Url, At
<1>2. mark["url"] # None /\ mark["url"] \in Nat /\ mark["url"] <= p /\ p \in Nat
  BY <1>1, Here, HomeIs, InputIs DEF InLoop, IInv, MarksFit, DataCallbacks
<1> HIDE DEF q, s
<1>3. CASE s = "s_dead" /\ Error(r, "HPE_INVALID_URL")
  <2>1. "s_dead" \notin UrlStates
    BY DEF UrlStates, UrlServer, UrlQuery, UrlFragment
  <2> QED BY <1>1, <1>3, <2>1, ErrorAway, AwayKeeps DEF InLoop, Parsers, StateNames
<1>4. CASE s # "s_dead" /\ Goto(s)
  <2>1. ch \notin Blanks
    BY <1>4, UrlByteClean DEF s
  <2>2. mark' = mark /\ p' = p + 1 /\ input' = input /\ calls' = calls
    BY <1>4 DEF Goto, Step, Continue, Quiet
  <2>3. \A j \in mark["url"] + 1 .. p + 1 : input.bytes[j] \notin Blanks
    <3>1. \A j \in mark["url"] + 1 .. p + 1 : j = p + 1 \/ j \in mark["url"] + 1 .. p
      BY <1>2
    <3> QED BY <1>2, <2>1, <3>1 DEF ch, UrlsClean
  <2>4. mark["url"] < p + 1
    BY <1>2
  <2> QED BY <1>2, <2>2, <2>3, <2>4 DEF UrlsClean, CleanUrls
<1> QED BY <1>3, <1>4 DEF Url, s

\* An error: the parser is not asked again.
LEMMA ErrorClean ==
  ASSUME InLoop, UrlsClean, Return(parser', p'), parser'.errno \notin {"HPE_OK", "HPE_PAUSED"}, calls' = calls
  PROVE  UrlsClean'
BY DEF UrlsClean, Return, NoMarks, DataCallbacks, Alive, CleanUrls

LEMMA LoopClean == ASSUME IInv, UrlsClean, IInv', Loop PROVE UrlsClean'
<1>1. CASE EndOfData
  <2>1. pc = "loop" /\ p = lim
    BY <1>1 DEF EndOfData
  <2>2. PICK i \in 1 .. 5 : mark[LeftOver[i]] # None /\ CallData(LeftOver[i], mark, p, parser, p, parser, p)
    BY <1>1 DEF EndOfData
  <2> DEFINE cb == LeftOver[i]
  <2>3. cb \in DataCallbacks
    BY DEF LeftOver, DataCallbacks
  <2> HIDE DEF cb
  <2>4. mark[cb] # None /\ CallData(cb, mark, p, parser, p, parser, p)
    BY <2>2 DEF cb
  <2>5. CASE cb = "url"
    BY <2>1, <2>4, <2>5, HandedKeeps
  <2>6. CASE cb # "url"
    <3>1. parser.state \in Home(cb) /\ parser \in Parsers
      BY <2>1, <2>3, <2>4 DEF IInv, Types, Marks, MarksFit
    <3>2. parser.state \notin UrlStates
      BY <2>3, <2>6, <3>1, HomeIs, HomesApart DEF DataCallbacks
    <3> QED BY <2>4, <2>6, <3>1, <3>2, DataAway, AwayKeeps
  <2> QED BY <2>5, <2>6
<1>2. CASE EndOfCall
  <2>1. pc = "loop" /\ mark = NoMarks /\ Return(parser, p) /\ calls' = calls
    BY <1>2 DEF EndOfCall, Quiet
  <2>2. mark["url"] = None /\ mark'["url"] = None /\ parser' = parser
    BY <2>1 DEF Return, NoMarks, DataCallbacks
  <2>3. Alive' => Alive
    BY <2>1, <2>2 DEF Alive
  <2> QED BY <2>1, <2>2, <2>3 DEF UrlsClean, CleanUrls, Last, LastOf
<1>3. CASE HeaderOverflow
  <2>1. InLoop /\ Error(q, "HPE_HEADER_OVERFLOW")
    BY <1>3 DEF HeaderOverflow, Fail, InLoop
  <2>2. q \in Parsers
    BY <2>1, QIs
  <2> HIDE DEF q
  <2>3. Return(parser', p') /\ calls' = calls /\ parser'.errno = "HPE_HEADER_OVERFLOW"
    BY <2>1, <2>2 DEF Error, Return, Quiet, Parsers
  <2> QED BY <2>1, <2>3, ErrorClean
<1>4. CASE SpacesBeforeUrl
  BY <1>4, SpacesBeforeUrlClean DEF SpacesBeforeUrl, At, InLoop
<1>5. CASE Url
  BY <1>5, UrlClean DEF Url, At, InLoop
<1>6. CASE UrlEnd
  <2>1. InLoop /\ parser.state \in UrlStates
    BY <1>6 DEF UrlEnd, At, InLoop
  <2>2. mark["url"] # None /\ q \in Parsers
    BY <2>1, Here, HomeIs DEF InLoop, MarksFit, DataCallbacks
  <2>3. CASE \E r : CallData("url", mark, p, r, p + 1, r, p + 1)
    BY <2>1, <2>2, <2>3, HandedKeeps DEF InLoop
  <2> HIDE DEF q
  <2>4. CASE Error(q, "HPE_INVALID_URL")
    <3>1. Return(parser', p') /\ calls' = calls /\ parser'.errno = "HPE_INVALID_URL"
      BY <2>2, <2>4 DEF Error, Return, Quiet, Parsers
    <3> QED BY <2>1, <3>1, ErrorClean
  <2> QED BY <1>6, <2>3, <2>4 DEF UrlEnd, Fail
<1>7. CASE ~EndOfData /\ ~EndOfCall /\ ~HeaderOverflow /\ ~SpacesBeforeUrl /\ ~Url /\ ~UrlEnd
  BY <1>7, LoopAway, AwayKeeps
<1> QED BY <1>1, <1>2, <1>3, <1>4, <1>5, <1>6, <1>7

LEMMA NextClean == IInv /\ UrlsClean /\ IInv' /\ [Next]_vars => UrlsClean'
<1> SUFFICES ASSUME IInv, UrlsClean, IInv', [Next]_vars PROVE UrlsClean'
  OBVIOUS
<1>1. CASE Loop
  BY <1>1, LoopClean
<1>2. CASE Unpause
  <2>1. /\ pc = "idle" /\ parser.errno = "HPE_PAUSED" /\ parser'.state = parser.state
        /\ UNCHANGED <<input, pc, p, mark, calls>>
    BY <1>2 DEF Unpause, IInv, Types, Parsers
  <2> QED BY <2>1 DEF UrlsClean, Alive, CleanUrls, Last, LastOf
<1>3. CASE Eof
  <2>1. /\ pc = "idle" /\ pc' = "closed" /\ mark' = mark
        /\ calls' = calls \/ calls' = Recorded("message_complete", << >>)
    BY <1>3 DEF Eof
  <2>2. mark["url"] = None
    BY <2>1 DEF IInv, Marks, NoMarks, DataCallbacks
  <2>3. calls \in Seq(CallRecords) /\ CleanUrls(calls)
    BY DEF IInv, Types, UrlsClean
  <2>4. CleanUrls(calls)'
    BY <2>1, <2>3, OtherClean DEF CleanUrls
  <2> QED BY <2>1, <2>2, <2>4 DEF UrlsClean, Alive
<1>4. CASE \E n \in 1 .. Len(input.bytes) : Execute(n)
  <2>1. PICK n \in 1 .. Len(input.bytes) : Execute(n)
    BY <1>4
  <2>2. /\ pc = "idle" /\ parser.errno = "HPE_OK" /\ UNCHANGED <<input, parser, p, calls>>
        /\ mark' = [c \in DataCallbacks |-> IF c \in MarkOnEntry(parser.state) THEN p ELSE None]
    BY <2>1 DEF Execute
  <2>3. mark["url"] = None /\ Alive
    BY <2>2 DEF IInv, Marks, NoMarks, DataCallbacks, Alive
  <2>4. parser.state \in UrlStates <=> "url" \in MarkOnEntry(parser.state)
    BY EntryIs, HomeIs DEF DataCallbacks
  <2>5. p \in Nat
    BY InputIs DEF IInv
  <2>6. mark'["url"] = None \/ (mark'["url"] = p /\ parser.state \in UrlStates)
    BY <2>2, <2>4 DEF DataCallbacks
  <2>7. Last' = Last /\ CleanUrls(calls)'
    BY <2>2 DEF Last, LastOf, UrlsClean, CleanUrls
  <2>8. mark'["url"] = None => parser.state \notin UrlStates
    BY <2>2, <2>4, <2>5, HttpAssumption DEF DataCallbacks
  <2> QED BY <2>2, <2>3, <2>5, <2>6, <2>7, <2>8 DEF UrlsClean
<1>5. CASE UNCHANGED vars
  BY <1>5 DEF vars, UrlsClean, CleanUrls, Alive, Last, LastOf
<1> QED BY <1>1, <1>2, <1>3, <1>4, <1>5 DEF Next

LEMMA InitClean == Init => UrlsClean
<1> SUFFICES ASSUME Init PROVE UrlsClean
  OBVIOUS
<1>1. calls = << >> /\ mark = NoMarks
  BY DEF Init
<1>2. parser.state \in {"s_start_req", "s_start_res", "s_start_req_or_res"}
  BY DEF Init, http_parser_init
<1>3. parser.state \notin UrlStates
  BY <1>2 DEF UrlStates, UrlServer, UrlQuery, UrlFragment
<1> QED BY <1>1, <1>3 DEF UrlsClean, CleanUrls, NoMarks, DataCallbacks

\* A url of bytes that are no blanks is taken apart as it should be.
LEMMA TakenApartFollows == IInv /\ UrlsClean => UrlTakenApart
<1> SUFFICES ASSUME IInv, UrlsClean, NEW url \in CompleteUrl, NEW junk \in Junk, Len(url) <= UINT16_MAX
             PROVE  LET r == http_parser_parse_url(url, FALSE, junk)
                    IN  /\ r.ret = 0 /\ ("SCHEMA" \in r.u.set => "HOST" \in r.u.set) => FieldsApart(url, r.u)
                        /\ r.ret = 0 /\ "SCHEMA" \in r.u.set /\ junk["HOST"].len = 0 => "HOST" \in r.u.set
                        /\ url[1] \in {"/", "*"} => r.ret = 0 /\ PathAndQuery(url, r.u)
  BY DEF UrlTakenApart
<1> DEFINE k == Len(calls) - 1
<1>1. calls \in Seq(CallRecords) /\ CleanUrls(calls)
  BY DEF IInv, Types, UrlsClean
<1>2. k > 0 /\ calls[k].cb = "url" /\ url = calls[k].data
  BY DEF CompleteUrl
<1>3. k \in 1 .. Len(calls) /\ calls[k] \in CallRecords
  BY <1>1, <1>2
<1>4. url \in Seq(STRING) /\ url # << >> /\ Clean(url)
  BY <1>1, <1>2, <1>3 DEF CallRecords, CleanUrls
<1>5. junk \in Fields
  BY HttpAssumption DEF Fields, Extents
<1>6. Len(url) > 0 /\ \A i \in 1 .. Len(url) : url[i] \notin Blanks
  BY <1>4 DEF Clean
<1> QED BY <1>4, <1>5, <1>6, UrlComesApart, RootedComesApart

\* Whatever the peer sends and wherever it is cut, the url that was given to the
\* callbacks is taken apart by http_parser_parse_url as rstclient.c needs it.
THEOREM UrlsTakenApart == Spec => []UrlTakenApart
<1>1. Init => IInv /\ UrlsClean
  BY InitIs, InitClean
<1>2. IInv /\ UrlsClean /\ [Next]_vars => (IInv /\ UrlsClean)'
  BY NextKeeps, NextClean
<1>3. IInv /\ UrlsClean => UrlTakenApart
  BY TakenApartFollows
<1> QED BY <1>1, <1>2, <1>3, PTL DEF Spec

-----------------------------------------------------------------------------
(***************************************************************************)
(* Where the bytes that the callbacks are given stand in the stream.       *)
(***************************************************************************)
\* at[i][j] is the place of the j-th byte of the i-th call: the strings of cs
\* are bytes of the stream up to place b, in their order and none of them twice.
Given(cs, at, b) ==
  /\ at \in Seq(Seq(Nat)) /\ Len(at) = Len(cs)
  /\ \A i \in 1 .. Len(cs) :
       /\ Len(at[i]) = Len(cs[i].data)
       /\ \A j \in 1 .. Len(at[i]) : at[i][j] \in 1 .. b /\ cs[i].data[j] = input.bytes[at[i][j]]
  /\ \A i, k \in 1 .. Len(cs) : \A j \in 1 .. Len(at[i]), l \in 1 .. Len(at[k]) :
       i < k \/ (i = k /\ j < l) => at[i][j] < at[k][l]

\* The last byte of a counted body is read again in s_message_done.
Reached == IF parser.state = "s_message_done" THEN p + 1 ELSE p

\* No byte that was given is behind a mark: it would be given again.
Handed ==
  \E b \in 0 .. Len(input.bytes) :
    /\ \E at \in Seq(Seq(Nat)) : Given(calls, at, b)
    /\ b <= Reached
    /\ \A c \in DataCallbacks : mark[c] # None => b <= mark[c]

\* What the library leaves to be said about sequences.
LEMMA Joins ==
  ASSUME NEW S, NEW s \in Seq(S), NEW t \in Seq(S)
  PROVE  /\ s \o t \in Seq(S) /\ Len(s \o t) = Len(s) + Len(t)
         /\ \A i \in 1 .. Len(s) : (s \o t)[i] = s[i]
         /\ \A i \in Len(s) + 1 .. Len(s) + Len(t) : (s \o t)[i] = t[i - Len(s)]
OBVIOUS

Sliced(s, S, m, n) ==
  /\ SubSeq(s, m + 1, n) \in Seq(S) /\ Len(SubSeq(s, m + 1, n)) = n - m /\ n - m \in Nat
  /\ \A i \in 1 .. n - m : SubSeq(s, m + 1, n)[i] = s[m + i]

LEMMA Slice ==
  ASSUME NEW S, NEW s \in Seq(S), NEW m \in Nat, NEW n \in Nat, m <= n, n <= Len(s)
  PROVE  Sliced(s, S, m, n)
BY DEF Sliced

LEMMA Changed ==
  ASSUME NEW S, NEW s \in Seq(S), NEW n \in 1 .. Len(s), NEW x \in S
  PROVE  LET t == [s EXCEPT ![n] = x]
         IN  t \in Seq(S) /\ Len(t) = Len(s) /\ t[n] = x /\ \A i \in 1 .. Len(s) : i # n => t[i] = s[i]
OBVIOUS

LEMMA Appended ==
  ASSUME NEW S, NEW s \in Seq(S), NEW x \in S
  PROVE  LET t == Append(s, x)
         IN  t \in Seq(S) /\ Len(t) = Len(s) + 1 /\ t[Len(s) + 1] = x /\ \A i \in 1 .. Len(s) : t[i] = s[i]
OBVIOUS

LEMMA GivenMerged ==
  ASSUME NEW cs \in Seq(CallRecords), NEW at \in Seq(Seq(Nat)), NEW b \in Nat, Given(cs, at, b),
         NEW from \in Nat, b <= from, NEW to \in Nat, from <= to, to <= Len(input.bytes),
         input.bytes \in Seq(STRING), Len(cs) > 0
  PROVE  \E a \in Seq(Seq(Nat)) :
           Given([cs EXCEPT ![Len(cs)].data = @ \o SubSeq(input.bytes, from + 1, to)], a, to)
<1> DEFINE n == Len(cs)
           data == SubSeq(input.bytes, from + 1, to)
           more == [j \in 1 .. to - from |-> from + j]
           old == at[n]
           h == Len(old)
           new == old \o more
           a == [at EXCEPT ![n] = new]
           x == [cs[n] EXCEPT !.data = @ \o data]
           ds == [cs EXCEPT ![n] = x]
<1>0. n \in Nat /\ n > 0 /\ n \in 1 .. Len(at) /\ Len(at) = n
  BY DEF Given
<1>1. /\ data \in Seq(STRING) /\ Len(data) = to - from /\ to - from \in Nat
      /\ \A j \in 1 .. to - from : data[j] = input.bytes[from + j]
  <2>1. Sliced(input.bytes, STRING, from, to)
    BY Slice
  <2> QED BY <2>1 DEF Sliced
<1>2. /\ more \in Seq(Nat) /\ Len(more) = to - from
      /\ \A j \in 1 .. to - from : more[j] = from + j
  BY <1>1
<1>3. old \in Seq(Nat) /\ h \in Nat
  BY <1>0
<1>4. cs[n] \in CallRecords /\ cs[n].data \in Seq(STRING) /\ Len(cs[n].data) = h
  <2>1. cs[n] \in CallRecords /\ Len(cs[n].data) = h
    BY <1>0 DEF Given
  <2> QED BY <2>1 DEF CallRecords
<1>5. x \in CallRecords /\ x.data = cs[n].data \o data
  <2> HIDE DEF data
  <2>1. cs[n].data \o data \in Seq(STRING)
    BY <1>1, <1>4
  <2> QED BY <2>1, <1>4 DEF CallRecords
<1>6. ds = [cs EXCEPT ![n].data = @ \o data]
  OBVIOUS
<1> HIDE DEF data, more, x
<1>7. /\ new \in Seq(Nat) /\ Len(new) = h + (to - from)
      /\ \A j \in 1 .. h : new[j] = old[j]
      /\ \A j \in h + 1 .. h + (to - from) : new[j] = more[j - h]
  <2> HIDE DEF old
  <2>1. /\ new \in Seq(Nat) /\ Len(new) = Len(old) + Len(more)
        /\ \A j \in 1 .. Len(old) : new[j] = old[j]
        /\ \A j \in Len(old) + 1 .. Len(old) + Len(more) : new[j] = more[j - Len(old)]
    BY <1>2, <1>3, Joins
  <2> QED BY <2>1, <1>2
<1>8. /\ Len(x.data) = h + (to - from)
      /\ \A j \in 1 .. h : x.data[j] = cs[n].data[j]
      /\ \A j \in h + 1 .. h + (to - from) : x.data[j] = data[j - h]
  <2> DEFINE s == cs[n].data
  <2>1. s \in Seq(STRING) /\ Len(s) = h /\ x.data = s \o data
    BY <1>4, <1>5
  <2> HIDE DEF s, h
  <2>2. /\ Len(s \o data) = Len(s) + Len(data)
        /\ \A j \in 1 .. Len(s) : (s \o data)[j] = s[j]
        /\ \A j \in Len(s) + 1 .. Len(s) + Len(data) : (s \o data)[j] = data[j - Len(s)]
    BY <1>1, <2>1, Joins
  <2> QED BY <2>1, <2>2, <1>1 DEF s
<1> HIDE DEF new
<1>9. Len(ds) = n /\ ds[n] = x /\ \A i \in 1 .. n : i # n => ds[i] = cs[i]
  BY <1>0, <1>5, Changed
<1>10. a \in Seq(Seq(Nat)) /\ Len(a) = n /\ a[n] = new /\ \A i \in 1 .. n : i # n => a[i] = at[i]
  BY <1>0, <1>7, Changed
<1> HIDE DEF a, ds
<1>11. \A i \in 1 .. n : /\ Len(at[i]) = Len(cs[i].data)
                         /\ \A j \in 1 .. Len(at[i]) : at[i][j] \in 1 .. b /\ cs[i].data[j] = input.bytes[at[i][j]]
  BY DEF Given
<1>12. \A j \in h + 1 .. h + (to - from) :
         /\ j - h \in 1 .. to - from /\ new[j] = from + (j - h) /\ x.data[j] = input.bytes[from + (j - h)]
  <2> SUFFICES ASSUME NEW j \in h + 1 .. h + (to - from)
               PROVE  /\ j - h \in 1 .. to - from /\ new[j] = from + (j - h)
                      /\ x.data[j] = input.bytes[from + (j - h)]
    OBVIOUS
  <2> HIDE DEF h
  <2>1. j - h \in 1 .. to - from
    BY <1>1, <1>3
  <2> QED BY <2>1, <1>1, <1>2, <1>7, <1>8
<1>13. \A i \in 1 .. n : /\ Len(a[i]) = Len(ds[i].data)
                         /\ \A j \in 1 .. Len(a[i]) : a[i][j] \in 1 .. to /\ ds[i].data[j] = input.bytes[a[i][j]]
  <2> SUFFICES ASSUME NEW i \in 1 .. n
               PROVE  /\ Len(a[i]) = Len(ds[i].data)
                      /\ \A j \in 1 .. Len(a[i]) : a[i][j] \in 1 .. to /\ ds[i].data[j] = input.bytes[a[i][j]]
    OBVIOUS
  <2>1. CASE i # n
    <3>1. a[i] = at[i] /\ ds[i] = cs[i]
      BY <2>1, <1>9, <1>10
    <3>2. \A y \in 1 .. b : y \in 1 .. to
      OBVIOUS
    <3> QED BY <3>1, <3>2, <1>11
  <2>2. CASE i = n
    <3> SUFFICES ASSUME NEW j \in 1 .. h + (to - from)
                 PROVE  new[j] \in 1 .. to /\ x.data[j] = input.bytes[new[j]]
      BY <2>2, <1>7, <1>8, <1>9, <1>10
    <3> HIDE DEF n
    <3>1. CASE j \in 1 .. h
      <4>1. old[j] \in 1 .. b /\ cs[n].data[j] = input.bytes[old[j]]
        BY <3>1, <2>2, <1>11
      <4> HIDE DEF old, h
      <4> QED BY SMTT(30), <3>1, <4>1, <1>7, <1>8
    <3>2. CASE j \in h + 1 .. h + (to - from)
      <4>1. j - h \in 1 .. to - from /\ new[j] = from + (j - h) /\ x.data[j] = input.bytes[from + (j - h)]
        BY <3>2, <1>12
      <4> HIDE DEF h
      <4> QED BY <4>1
    <3>3. j \in 1 .. h \/ j \in h + 1 .. h + (to - from)
      <4> HIDE DEF h
      <4> QED BY <1>1, <1>3
    <3> QED BY <3>1, <3>2, <3>3
  <2> QED BY <2>1, <2>2
<1>14. \A i, k \in 1 .. n : \A j \in 1 .. Len(a[i]), l \in 1 .. Len(a[k]) :
         i < k \/ (i = k /\ j < l) => a[i][j] < a[k][l]
  <2> SUFFICES ASSUME NEW i \in 1 .. n, NEW k \in 1 .. n, NEW j \in 1 .. Len(a[i]), NEW l \in 1 .. Len(a[k]),
                      i < k \/ (i = k /\ j < l)
               PROVE  a[i][j] < a[k][l]
    OBVIOUS
  <2>1. \A g, m \in 1 .. n : \A e \in 1 .. Len(at[g]), f \in 1 .. Len(at[m]) :
          g < m \/ (g = m /\ e < f) => at[g][e] < at[m][f]
    BY DEF Given
  \* a place that was there, or a new one
  <2>2. ASSUME NEW g \in 1 .. n, NEW e \in 1 .. Len(a[g])
        PROVE  \/ e \in 1 .. Len(at[g]) /\ a[g][e] = at[g][e]
               \/ g = n /\ e \in h + 1 .. h + (to - from) /\ a[g][e] = from + (e - h)
    <3>1. CASE g # n
      BY <2>2, <3>1, <1>10
    <3>2. CASE g = n /\ e \in 1 .. h
      BY <3>2, <1>7, <1>10
    <3>3. CASE g = n /\ e \in h + 1 .. h + (to - from)
      BY <3>3, <1>10, <1>12
    <3>4. g = n => e \in 1 .. h + (to - from)
      BY <2>2, <1>7, <1>10
    <3>5. e \in 1 .. h + (to - from) => e \in 1 .. h \/ e \in h + 1 .. h + (to - from)
      <4> HIDE DEF h
      <4> QED BY <1>1, <1>3
    <3> QED BY <3>1, <3>2, <3>3, <3>4, <3>5
  <2>3. CASE l \in 1 .. Len(at[k]) /\ a[k][l] = at[k][l]
    <3>1. CASE j \in 1 .. Len(at[i]) /\ a[i][j] = at[i][j]
      BY <2>1, <2>3, <3>1
    <3>2. CASE i = n /\ j \in h + 1 .. h + (to - from)
      <4>1. k = n /\ l \in 1 .. h /\ j < l
        BY SMTT(30), <2>3, <3>2, <1>0
      <4> HIDE DEF h
      <4> QED BY <3>2, <4>1, <1>3
    <3> QED BY <2>2, <3>1, <3>2
  <2>4. CASE k = n /\ l \in h + 1 .. h + (to - from) /\ a[k][l] = from + (l - h)
    <3>1. CASE j \in 1 .. Len(at[i]) /\ a[i][j] = at[i][j]
      <4>1. at[i][j] \in 1 .. b
        BY <3>1, <1>11
      <4> DEFINE m == h
                 y == at[i][j]
                 z == a[k][l]
      <4>2. m \in Nat /\ l \in m + 1 .. m + (to - from) /\ z = from + (l - m) /\ y \in 1 .. b /\ a[i][j] = y
        BY <2>4, <3>1, <4>1, <1>3
      <4> HIDE DEF m, y, z
      <4>3. y < z
        BY ONLY <4>2, b <= from, b \in Nat, from \in Nat, to \in Nat
      <4> QED BY <4>2, <4>3 DEF z
    <3>2. CASE i = n /\ j \in h + 1 .. h + (to - from) /\ a[i][j] = from + (j - h)
      <4> HIDE DEF h
      <4>1. j < l
        BY <2>4, <3>2, <1>0
      <4> QED BY <2>4, <3>2, <4>1, <1>3
    <3> QED BY <2>2, <3>1, <3>2
  <2> QED BY <2>2, <2>3, <2>4
<1>15. Given(ds, a, to)
  BY <1>9, <1>10, <1>13, <1>14 DEF Given
<1> QED BY <1>6, <1>10, <1>15 DEF data

LEMMA GivenAppended ==
  ASSUME NEW cs \in Seq(CallRecords), NEW at \in Seq(Seq(Nat)), NEW b \in Nat, Given(cs, at, b),
         NEW from \in Nat, b <= from, NEW to \in Nat, from <= to, to <= Len(input.bytes),
         input.bytes \in Seq(STRING), NEW cb \in Callbacks
  PROVE  \E a \in Seq(Seq(Nat)) :
           Given(Append(cs, [cb |-> cb, data |-> SubSeq(input.bytes, from + 1, to)]), a, to)
<1> DEFINE n == Len(cs)
           data == SubSeq(input.bytes, from + 1, to)
           more == [j \in 1 .. to - from |-> from + j]
           a == Append(at, more)
           x == [cb |-> cb, data |-> data]
           ds == Append(cs, x)
<1>0. n \in Nat /\ Len(at) = n
  BY DEF Given
<1>1. /\ data \in Seq(STRING) /\ Len(data) = to - from /\ to - from \in Nat
      /\ \A j \in 1 .. to - from : data[j] = input.bytes[from + j]
  <2>1. Sliced(input.bytes, STRING, from, to)
    BY Slice
  <2> QED BY <2>1 DEF Sliced
<1>2. /\ more \in Seq(Nat) /\ Len(more) = to - from
      /\ \A j \in 1 .. to - from : more[j] = from + j
  BY <1>1
<1> HIDE DEF data, more
<1>3. x \in CallRecords /\ x.data = data
  BY <1>1 DEF CallRecords
<1> HIDE DEF x
<1>4. Len(ds) = n + 1 /\ ds[n + 1] = x /\ \A i \in 1 .. n : ds[i] = cs[i]
  BY <1>3, Appended
<1>5. a \in Seq(Seq(Nat)) /\ Len(a) = n + 1 /\ a[n + 1] = more /\ \A i \in 1 .. n : a[i] = at[i]
  BY <1>0, <1>2, Appended
<1> HIDE DEF a, ds
<1>6. \A i \in 1 .. n : /\ Len(at[i]) = Len(cs[i].data)
                        /\ \A j \in 1 .. Len(at[i]) : at[i][j] \in 1 .. b /\ cs[i].data[j] = input.bytes[at[i][j]]
  BY DEF Given
<1>7. \A i \in 1 .. n + 1 :
        /\ Len(a[i]) = Len(ds[i].data)
        /\ \A j \in 1 .. Len(a[i]) : a[i][j] \in 1 .. to /\ ds[i].data[j] = input.bytes[a[i][j]]
  <2> SUFFICES ASSUME NEW i \in 1 .. n + 1
               PROVE  /\ Len(a[i]) = Len(ds[i].data)
                      /\ \A j \in 1 .. Len(a[i]) : a[i][j] \in 1 .. to /\ ds[i].data[j] = input.bytes[a[i][j]]
    OBVIOUS
  <2>1. CASE i \in 1 .. n
    <3>1. a[i] = at[i] /\ ds[i] = cs[i]
      BY <2>1, <1>4, <1>5
    <3>2. \A y \in 1 .. b : y \in 1 .. to
      OBVIOUS
    <3> QED BY <2>1, <3>1, <3>2, <1>6
  <2>2. CASE i = n + 1
    <3> SUFFICES ASSUME NEW j \in 1 .. to - from
                 PROVE  more[j] \in 1 .. to /\ data[j] = input.bytes[more[j]]
      BY <2>2, <1>1, <1>2, <1>3, <1>4, <1>5
    <3>1. more[j] = from + j /\ data[j] = input.bytes[from + j]
      BY <1>1, <1>2
    <3> QED BY <3>1
  <2>3. i \in 1 .. n \/ i = n + 1
    BY <1>0
  <2> QED BY <2>1, <2>2, <2>3
<1>8. \A i, k \in 1 .. n + 1 : \A j \in 1 .. Len(a[i]), l \in 1 .. Len(a[k]) :
        i < k \/ (i = k /\ j < l) => a[i][j] < a[k][l]
  <2> SUFFICES ASSUME NEW i \in 1 .. n + 1, NEW k \in 1 .. n + 1, NEW j \in 1 .. Len(a[i]),
                      NEW l \in 1 .. Len(a[k]), i < k \/ (i = k /\ j < l)
               PROVE  a[i][j] < a[k][l]
    OBVIOUS
  <2>0. i \in Nat /\ k \in Nat /\ i <= k
    BY <1>0
  <2>1. CASE k \in 1 .. n
    <3>1. i \in 1 .. n
      BY <2>0, <2>1, <1>0
    <3>2. a[i] = at[i] /\ a[k] = at[k]
      BY <2>1, <3>1, <1>5
    <3>3. \A g, m \in 1 .. n : \A e \in 1 .. Len(at[g]), f \in 1 .. Len(at[m]) :
            g < m \/ (g = m /\ e < f) => at[g][e] < at[m][f]
      BY DEF Given
    <3> QED BY <2>1, <3>1, <3>2, <3>3
  <2>2. CASE k = n + 1 /\ i \in 1 .. n
    <3>1. a[i] = at[i] /\ a[k] = more
      BY <2>2, <1>5
    <3>2. at[i][j] \in 1 .. b
      BY <2>2, <3>1, <1>6
    <3>3. l \in 1 .. to - from /\ more[l] = from + l
      BY <3>1, <1>2
    <3>4. at[i][j] < from + l
      <4> DEFINE y == at[i][j]
      <4>1. y \in 1 .. b
        BY <3>2
      <4> HIDE DEF y
      <4>2. y < from + l
        BY ONLY <4>1, <3>3, <1>1, b \in Nat, from \in Nat, b <= from
      <4> QED BY <4>2 DEF y
    <3> QED BY <3>1, <3>3, <3>4
  <2>3. CASE k = n + 1 /\ i = n + 1
    <3>1. a[i] = more /\ a[k] = more /\ j < l
      BY <2>0, <2>3, <1>5
    <3>2. j \in 1 .. to - from /\ l \in 1 .. to - from
      BY <3>1, <1>2
    <3>3. a[i][j] = from + j /\ a[k][l] = from + l
      BY <3>1, <3>2, <1>2
    <3>4. from + j < from + l
      BY <1>1, <3>1, <3>2
    <3> QED BY <3>3, <3>4, Zenon
  <2>4. k \in 1 .. n \/ (k = n + 1 /\ i \in 1 .. n) \/ (k = n + 1 /\ i = n + 1)
    <3>1. \A g \in 1 .. n + 1 : g \in 1 .. n \/ g = n + 1
      BY <1>0
    <3> QED BY <3>1
  <2> QED BY <2>1, <2>2, <2>3, <2>4
<1>9. Given(ds, a, to)
  BY <1>4, <1>5, <1>7, <1>8 DEF Given
<1> QED BY <1>5, <1>9 DEF ds, x, data

\* The next bytes of the stream are given, from a place that was not yet.
LEMMA GivenNext ==
  ASSUME Types, NEW at \in Seq(Seq(Nat)), NEW b \in Nat, Given(calls, at, b), NEW from \in Nat, b <= from,
         NEW to \in Nat, from <= to, to <= Len(input.bytes),
         NEW cb \in Callbacks
  PROVE  \E a \in Seq(Seq(Nat)) : Given(Recorded(cb, SubSeq(input.bytes, from + 1, to)), a, to)
<1>1. calls \in Seq(CallRecords) /\ input.bytes \in Seq(STRING)
  BY InputIs DEF Types
<1> DEFINE data == SubSeq(input.bytes, from + 1, to)
           n == Len(calls)
<1>2. CASE n > 0 /\ cb \in DataCallbacks /\ calls[n].cb = cb
  <2>1. Recorded(cb, data) = [calls EXCEPT ![n].data = @ \o data]
    BY <1>2 DEF Recorded
  <2>2. \E a \in Seq(Seq(Nat)) : Given([calls EXCEPT ![n].data = @ \o data], a, to)
    BY <1>1, <1>2, GivenMerged
  <2> QED BY <2>1, <2>2
<1>3. CASE ~(n > 0 /\ cb \in DataCallbacks /\ calls[n].cb = cb)
  <2>1. Recorded(cb, data) = Append(calls, [cb |-> cb, data |-> data])
    BY <1>3 DEF Recorded
  <2> QED BY <1>1, <2>1, GivenAppended
<1> QED BY <1>2, <1>3

\* What a step of the parser can do: give nothing and set a mark here, or give
\* the bytes from a mark, or from here, up to where the parser gets.
Gives(cb, from, to) ==
  /\ \/ \E c \in DataCallbacks : mark[c] # None /\ from = mark[c]
     \/ from >= Reached
  /\ from <= to /\ to <= Len(input.bytes) /\ to <= Reached'
  /\ calls' = Recorded(cb, SubSeq(input.bytes, from + 1, to))
  /\ \A c \in DataCallbacks : mark'[c] = None

GivesNone ==
  /\ calls' = calls \/ \E cb \in Callbacks : calls' = Recorded(cb, << >>)
  /\ Reached' >= Reached
  /\ \A c \in DataCallbacks : mark'[c] = None \/ mark'[c] = mark[c] \/ mark'[c] >= Reached

GoesOn == /\ input' = input
          /\ GivesNone \/ \E cb \in Callbacks : \E from, to \in Nat : Gives(cb, from, to)

LEMMA Within == ASSUME NEW n \in Nat, NEW l \in 0 .. n, NEW i \in 0 .. l PROVE i \in Nat /\ i + 1 \in Nat
OBVIOUS

LEMMA Further == ASSUME NEW i \in Nat, NEW j \in Nat, j >= i, NEW r \in {j, j + 1} PROVE r >= i
OBVIOUS

LEMMA ReachedIs == Types => p \in Nat /\ Reached \in Nat /\ Reached >= p
BY InputIs DEF Reached

LEMMA GoesOnKeeps == ASSUME IInv, IInv', Handed, GoesOn PROVE Handed'
<1>1. PICK b \in 0 .. Len(input.bytes) :
        /\ \E at \in Seq(Seq(Nat)) : Given(calls, at, b)
        /\ b <= Reached
        /\ \A c \in DataCallbacks : mark[c] # None => b <= mark[c]
  BY DEF Handed
<1>2. PICK at \in Seq(Seq(Nat)) : Given(calls, at, b)
  BY <1>1
<1>3. input' = input
  BY DEF GoesOn
<1>4. Types /\ Types' /\ Len(input.bytes) \in Nat /\ b \in Nat /\ Reached \in Nat /\ Reached' \in Nat
  <2>1. Types /\ Types'
    BY DEF IInv
  <2>2. Len(input.bytes) \in Nat /\ b \in Nat /\ Reached \in Nat
    BY <1>1, <2>1, InputIs, ReachedIs
  <2>3. lim' \in 0 .. Len(input.bytes) /\ p' \in 0 .. lim'
    BY <2>1, <1>3 DEF Types
  <2>4. p' \in Nat /\ p' + 1 \in Nat
    BY <2>2, <2>3, Within
  <2>5. Reached' \in Nat
    BY <2>4 DEF Reached
  <2> QED BY <2>1, <2>2, <2>5
<1>5. \A c \in DataCallbacks : mark[c] # None => mark[c] \in Nat
  BY InputIs DEF IInv, Marks, MarksFit, NoMarks
<1>6. \A cs, a, n : Given(cs, a, n)' <=> Given(cs, a, n)
  BY <1>3 DEF Given
<1>7. ASSUME NEW n \in 0 .. Len(input.bytes), NEW a \in Seq(Seq(Nat)), Given(calls', a, n), n <= Reached',
             \A c \in DataCallbacks : mark'[c] # None => n <= mark'[c]
      PROVE  Handed'
  <2>1. Given(calls, a, n)'
    BY <1>3, <1>7 DEF Given
  <2>2. n \in 0 .. Len(input'.bytes)
    BY <1>3
  <2> QED BY <2>1, <2>2, <1>7 DEF Handed
<1>8. CASE GivesNone
  <2>1. PICK a \in Seq(Seq(Nat)) : Given(calls', a, b)
    <3>1. CASE calls' = calls
      BY <3>1, <1>2
    <3>2. ASSUME NEW cb \in Callbacks, calls' = Recorded(cb, << >>)
          PROVE  \E a \in Seq(Seq(Nat)) : Given(calls', a, b)
      <4>1. \E a \in Seq(Seq(Nat)) : Given(Recorded(cb, SubSeq(input.bytes, b + 1, b)), a, b)
        BY <1>1, <1>2, <1>4, GivenNext
      <4>2. SubSeq(input.bytes, b + 1, b) = << >>
        BY <1>4
      <4> QED BY <3>2, <4>1, <4>2
    <3> QED BY <1>8, <3>1, <3>2 DEF GivesNone
  <2>2. ASSUME NEW c \in DataCallbacks, mark'[c] # None PROVE b <= mark'[c]
    <3>1. mark'[c] = mark[c] \/ mark'[c] >= Reached
      BY <1>8, <2>2 DEF GivesNone
    <3>2. CASE mark'[c] = mark[c]
      BY <3>2, <2>2, <1>1
    <3>3. CASE mark'[c] >= Reached
      <4>1. mark'[c] \in Nat
        BY <2>2, <1>3, <1>4, InputIs DEF IInv, Marks, MarksFit, NoMarks
      <4> QED BY <3>3, <4>1, <1>1, <1>4
    <3> QED BY <3>1, <3>2, <3>3
  <2>3. b <= Reached'
    BY <1>1, <1>4, <1>8 DEF GivesNone
  <2> QED BY <2>1, <2>2, <2>3, <1>7
<1>9. ASSUME NEW cb \in Callbacks, NEW from \in Nat, NEW to \in Nat, Gives(cb, from, to) PROVE Handed'
  <2>1. b <= from
    <3>1. CASE \E c \in DataCallbacks : mark[c] # None /\ from = mark[c]
      BY <3>1, <1>1
    <3>2. CASE from >= Reached
      BY <3>2, <1>1, <1>4
    <3> QED BY <1>9, <3>1, <3>2 DEF Gives
  <2>2. from <= to /\ to <= Len(input.bytes) /\ to <= Reached' /\ to \in 0 .. Len(input.bytes)
    BY <1>4, <1>9 DEF Gives
  <2>3. PICK a \in Seq(Seq(Nat)) : Given(Recorded(cb, SubSeq(input.bytes, from + 1, to)), a, to)
    BY <2>1, <2>2, <1>2, <1>4, GivenNext
  <2>4. calls' = Recorded(cb, SubSeq(input.bytes, from + 1, to)) /\ \A c \in DataCallbacks : mark'[c] = None
    BY <1>9 DEF Gives
  <2> QED BY <2>2, <2>3, <2>4, <1>7
<1> QED BY <1>8, <1>9 DEF GoesOn

-----------------------------------------------------------------------------
\* Steps that give nothing: what the ways to leave a byte have in common.
Plain ==
  /\ input' = input /\ (calls' = calls \/ \E cb \in Callbacks : calls' = Recorded(cb, << >>))
  /\ p' \in Nat /\ p' >= p
  /\ \A c \in DataCallbacks : mark'[c] \in {None, mark[c], p}

\* Every byte but the one that is read again.
Fresher == IInv /\ pc = "loop" /\ parser.state # "s_message_done"

LEMMA PlainGoesOn == ASSUME Fresher, Plain PROVE GoesOn
<1>1. p \in Nat /\ Reached = p
  BY InputIs DEF Fresher, IInv, Reached
<1>2. p' \in Nat /\ p' >= p /\ Reached' \in {p', p' + 1}
  BY DEF Reached, Plain
<1>3. Reached' >= Reached
  BY <1>1, <1>2, Further
<1>4. \A c \in DataCallbacks : mark'[c] = None \/ mark'[c] = mark[c] \/ mark'[c] >= Reached
  BY <1>1 DEF Plain
<1> QED BY <1>3, <1>4 DEF Plain, GoesOn, GivesNone

LEMMA ContinuePlain ==
  ASSUME IInv, NEW r, NEW n \in Nat, n >= p, NEW m, m = mark \/ \E c \in DataCallbacks : m = MARK(c), NEW st,
         Continue(r, n, m, st), Quiet
  PROVE  Plain
<1>1. mark \in [DataCallbacks -> Nat \cup {None}]
  BY DEF IInv, Marks, MarksFit, NoMarks
<1>2. \A c \in DataCallbacks : m[c] \in {None, mark[c], p}
  BY <1>1 DEF MARK
<1> QED BY <1>2 DEF Continue, Quiet, Plain

LEMMA ReturnPlain ==
  ASSUME NEW r, NEW n \in Nat, n >= p, Return(r, n),
         calls' = calls \/ \E cb \in Callbacks : calls' = Recorded(cb, << >>)
  PROVE  Plain
BY DEF Return, NoMarks, Plain

LEMMA StepPlain == ASSUME IInv, NEW r, Step(r) \/ Reexecute(r) PROVE Plain
<1>1. p \in Nat /\ p + 1 \in Nat /\ p + 1 >= p
  BY InputIs DEF IInv
<1> QED BY <1>1, ContinuePlain DEF Step, Reexecute

LEMMA GotoPlain == ASSUME IInv, NEW s, Goto(s) PROVE Plain
BY StepPlain DEF Goto

LEMMA MarkPlain ==
  ASSUME IInv, NEW r, NEW n \in Nat, n >= p, NEW cb \in DataCallbacks, Continue(r, n, MARK(cb), None), Quiet
  PROVE  Plain
BY ContinuePlain

LEMMA ErrorPlain == ASSUME IInv, NEW r, NEW e, Error(r, e) PROVE Plain
<1>1. p \in Nat /\ p >= p
  BY InputIs DEF IInv
<1>2. Return([r EXCEPT !.errno = e], p) /\ calls' = calls
  BY DEF Error, Quiet
<1> QED BY <1>1, <1>2, ReturnPlain

LEMMA FailPlain == ASSUME IInv, NEW e, Fail(e) PROVE Plain
BY ErrorPlain DEF Fail

LEMMA NotifyPlain ==
  ASSUME IInv, NEW cb \in {"message_begin", "message_complete"}, NEW r, Notify(cb, r)
  PROVE  Plain
<1>1. p \in Nat /\ p + 1 \in Nat /\ p + 1 >= p /\ p >= p
  BY InputIs DEF IInv
<1>2. cb \in Callbacks /\ calls' = Recorded(cb, << >>)
  BY DEF Callbacks, Notify, Call
<1>3. CASE \E s, n : n \in {p, p + 1} /\ Return(s, n)
  BY <1>1, <1>2, <1>3, ReturnPlain
<1>4. CASE Continue(r, p + 1, [c \in DataCallbacks |-> IF c = cb THEN None ELSE mark[c]], None)
  BY <1>1, <1>2, <1>4 DEF Continue, Plain
<1> QED BY <1>3, <1>4 DEF Notify, Call

LEMMA InnerPlain ==
  ASSUME IInv, NEW r, NEW n \in Nat, n >= p, InnerStep(r, n)
  PROVE  Plain
<1>1. Quiet /\ \E s, st : Continue(s, n, mark, st) \/ Return(s, n)
  BY DEF InnerStep
<1> QED BY <1>1, ContinuePlain, ReturnPlain DEF Quiet

-----------------------------------------------------------------------------
\* Steps that give what is behind a mark.
LEMMA Alone ==
  ASSUME IInv, NEW cb \in DataCallbacks, mark[cb] # None
  PROVE  /\ \A c \in DataCallbacks \ {cb} : mark[c] = None
         /\ mark[cb] \in Nat /\ mark[cb] <= p /\ parser.state # "s_message_done"
<1>1. MarksFit(mark, start, parser.state, p, lim)
  BY DEF IInv, Marks, NoMarks
<1>2. parser.state \in Home(cb) /\ mark[cb] \in Nat /\ mark[cb] <= p
  BY <1>1 DEF MarksFit
<1>3. "s_message_done" \notin Home(cb)
  BY HomeIs DEF DataCallbacks, UrlStates, UrlServer, UrlQuery, UrlFragment, BodyHomes
<1> QED BY <1>1, <1>2, <1>3, OneMark

LEMMA CallGives ==
  ASSUME Fresher, NEW cb \in DataCallbacks, NEW m, NEW from \in Nat, from <= p,
         from = mark[cb] \/ from = p, mark[cb] # None \/ from = p,
         \A c \in DataCallbacks \ {cb} : m[c] = None,
         NEW ok, NEW pOk \in Nat, pOk >= p, NEW err, NEW pErr \in Nat, pErr >= p,
         Call(cb, SubSeq(input.bytes, from + 1, p), m, ok, pOk, err, pErr)
  PROVE  GoesOn
<1>1. p \in Nat /\ Reached = p /\ p <= Len(input.bytes) /\ cb \in Callbacks
  BY InputIs DEF Fresher, IInv, Reached, Callbacks
<1>2. /\ input' = input /\ p' \in {p, pOk, pErr}
      /\ mark' = NoMarks \/ mark' = [c \in DataCallbacks |-> IF c = cb THEN None ELSE m[c]]
  BY DEF Call, Continue, Return
<1>3. Reached' >= p
  BY <1>1, <1>2 DEF Reached
<1>4. \A c \in DataCallbacks : mark'[c] = None
  BY <1>2 DEF NoMarks
<1>5. (\E c \in DataCallbacks : mark[c] # None /\ from = mark[c]) \/ from >= Reached
  BY <1>1
<1>6. calls' = Recorded(cb, SubSeq(input.bytes, from + 1, p))
  BY DEF Call
<1>7. Gives(cb, from, p)
  BY <1>1, <1>3, <1>4, <1>5, <1>6 DEF Gives
<1> QED BY <1>1, <1>2, <1>7 DEF GoesOn

LEMMA DataGives ==
  ASSUME Fresher, NEW cb \in DataCallbacks, NEW ok, NEW pOk \in Nat, pOk >= p, NEW err, NEW pErr \in Nat, pErr >= p,
         CallData(cb, mark, p, ok, pOk, err, pErr)
  PROVE  GoesOn
<1>1. IInv
  BY DEF Fresher
<1>2. CASE mark[cb] = None
  <2>1. Continue(ok, pOk, mark, None) /\ Quiet
    BY <1>2 DEF CallData
  <2> QED BY <1>1, <2>1, ContinuePlain, PlainGoesOn
<1>3. CASE mark[cb] # None
  <2>1. Call(cb, SubSeq(input.bytes, mark[cb] + 1, p), mark, ok, pOk, err, pErr)
    BY <1>3 DEF CallData
  <2> QED BY <1>1, <1>3, <2>1, Alone, CallGives
<1> QED BY <1>2, <1>3

-----------------------------------------------------------------------------
\* Actions that give nothing.
LEMMA FirstLinePlain ==
  ASSUME IInv,
         \/ Dead \/ ResOrRespH \/ OneByte \/ FirstMajor \/ Major \/ FirstMinor \/ Minor
         \/ FirstStatusCode \/ StatusCode \/ ReqMethod \/ Url \/ HttpStart
  PROVE  Plain
<1>1. CASE Dead
  BY <1>1, StepPlain, FailPlain DEF Dead
<1>2. CASE ResOrRespH
  BY <1>2, StepPlain, FailPlain DEF ResOrRespH
<1>3. CASE OneByte
  BY <1>3, GotoPlain, FailPlain DEF OneByte
<1>4. CASE FirstMajor
  BY <1>4, StepPlain, FailPlain DEF FirstMajor
<1>5. CASE Major
  BY <1>5, StepPlain, GotoPlain, FailPlain DEF Major
<1>6. CASE FirstMinor
  BY <1>6, StepPlain, FailPlain DEF FirstMinor
<1>7. CASE Minor
  BY <1>7, StepPlain, GotoPlain, FailPlain DEF Minor
<1>8. CASE FirstStatusCode
  BY <1>8, StepPlain, FailPlain DEF FirstStatusCode
<1>9. CASE StatusCode
  BY <1>9, StepPlain, GotoPlain, FailPlain DEF StatusCode
<1>10. CASE ReqMethod
  BY <1>10, StepPlain, FailPlain DEF ReqMethod
<1>11. CASE Url
  BY <1>11, ErrorPlain, GotoPlain DEF Url
<1>12. CASE HttpStart
  BY <1>12, StepPlain, GotoPlain, FailPlain DEF HttpStart
<1> QED BY <1>1, <1>2, <1>3, <1>4, <1>5, <1>6, <1>7, <1>8, <1>9, <1>10, <1>11, <1>12

LEMMA BeginPlain == ASSUME IInv, StartReqOrRes \/ StartRes \/ StartReq PROVE Plain
<1>1. CASE StartReqOrRes
  BY <1>1, StepPlain, NotifyPlain DEF StartReqOrRes
<1>2. CASE StartRes
  BY <1>2, ErrorPlain, NotifyPlain DEF StartRes
<1>3. CASE StartReq
  BY <1>3, StepPlain, ErrorPlain, NotifyPlain DEF StartReq
<1> QED BY <1>1, <1>2, <1>3

LEMMA ChunkPlain ==
  ASSUME IInv,
         ChunkSizeStart \/ ChunkSize \/ ChunkParameters \/ ChunkSizeAlmostDone \/ ChunkDataDone
  PROVE  Plain
<1>1. CASE ChunkSizeStart
  BY <1>1, StepPlain, FailPlain DEF ChunkSizeStart
<1>2. CASE ChunkSize
  BY <1>2, StepPlain, GotoPlain, FailPlain DEF ChunkSize
<1>3. CASE ChunkParameters
  BY <1>3, StepPlain, GotoPlain DEF ChunkParameters
<1>4. CASE ChunkSizeAlmostDone
  BY <1>4, StepPlain, FailPlain DEF ChunkSizeAlmostDone
<1>5. CASE ChunkDataDone
  BY <1>5, StepPlain, FailPlain DEF ChunkDataDone
<1> QED BY <1>1, <1>2, <1>3, <1>4, <1>5

\* A string begins.
LEMMA NextPlain ==
  ASSUME IInv, NEW r, NEW cb \in DataCallbacks, Continue(r, p + 1, MARK(cb), None), Quiet
  PROVE  Plain
<1>1. p + 1 \in Nat /\ p + 1 >= p
  BY InputIs DEF IInv
<1> QED BY <1>1, MarkPlain

LEMMA ValueStartPlain == ASSUME IInv, ValueStart PROVE Plain
<1>1. "header_value" \in DataCallbacks
  BY DEF DataCallbacks
<1> QED BY <1>1, ErrorPlain, NextPlain DEF ValueStart

LEMMA StringPlain ==
  ASSUME IInv,
         \/ StatusStart \/ SpacesBeforeUrl \/ HeaderFieldStart \/ DiscardWs \/ HeaderValueStart
         \/ HeaderValueLws
  PROVE  Plain
<1>0. {"status", "url", "header_field"} \subseteq DataCallbacks
  BY DEF DataCallbacks
<1>1. CASE StatusStart
  BY <1>0, <1>1, GotoPlain, NextPlain DEF StatusStart
<1>2. CASE SpacesBeforeUrl
  BY <1>0, <1>2, StepPlain, ErrorPlain, NextPlain DEF SpacesBeforeUrl
<1>3. CASE HeaderFieldStart
  BY <1>0, <1>3, GotoPlain, StepPlain, FailPlain, NextPlain DEF HeaderFieldStart
<1>4. CASE DiscardWs
  BY <1>4, StepPlain, GotoPlain, ValueStartPlain DEF DiscardWs
<1>5. CASE HeaderValueStart
  BY <1>5, ValueStartPlain DEF HeaderValueStart
<1>6. CASE HeaderValueLws
  BY <1>6, StepPlain DEF HeaderValueLws
<1> QED BY <1>1, <1>2, <1>3, <1>4, <1>5, <1>6

LEMMA HeadersEndPlain == ASSUME IInv, HeadersAlmostDone \/ HeadersDone PROVE Plain
<1>0. p \in Nat /\ p + 1 \in Nat /\ p + 1 >= p /\ p >= p
  BY InputIs DEF IInv
<1>1. {"headers_complete", "message_complete"} \subseteq Callbacks
  BY DEF Callbacks
<1>2. ASSUME NEW r, Continue(r, p, mark, None), calls' = Recorded("headers_complete", << >>)
      PROVE  Plain
  BY <1>0, <1>1, <1>2 DEF Continue, Plain
<1>3. CASE HeadersAlmostDone
  <2>1. CASE Fail("HPE_STRICT")
    BY <2>1, FailPlain
  <2>2. CASE \E r : Notify("message_complete", r)
    BY <2>2, NotifyPlain
  <2>3. CASE /\ calls' = Recorded("headers_complete", << >>)
             /\ \E r : Continue(r, p, mark, None) \/ Return(r, p)
    BY <2>3, <1>0, <1>1, <1>2, ReturnPlain
  <2> QED BY <1>3, <2>1, <2>2, <2>3 DEF HeadersAlmostDone
<1>4. CASE HeadersDone
  <2>1. CASE Fail("HPE_STRICT")
    BY <2>1, FailPlain
  <2>2. CASE \E r : Notify("message_complete", r)
    BY <2>2, NotifyPlain
  <2>3. CASE \E r : Step(r)
    BY <2>3, StepPlain
  <2>4. CASE calls' = Recorded("message_complete", << >>) /\ \E r : Return(r, p + 1)
    BY <2>4, <1>0, <1>1, ReturnPlain
  <2> QED BY <1>4, <2>1, <2>2, <2>3, <2>4 DEF HeadersDone
<1> QED BY <1>3, <1>4

LEMMA BodyPlain == ASSUME InLoop, BodyIdentityEof \/ ChunkData PROVE Plain
<1>0. "body" \in DataCallbacks /\ p \in Nat /\ lim \in Nat /\ lim >= p /\ IInv
  BY InputIs DEF InLoop, IInv, DataCallbacks
<1>1. CASE BodyIdentityEof
  BY <1>0, <1>1, MarkPlain DEF BodyIdentityEof
<1>2. CASE ChunkData
  <2>1. ToRead \in 1 .. lim - p
    BY <1>2, ReadIs DEF ChunkData, At
  <2>2. p + ToRead \in Nat /\ p + ToRead >= p
    BY <1>0, <2>1
  <2> QED BY <1>0, <1>2, <2>2, MarkPlain DEF ChunkData
<1> QED BY <1>1, <1>2

\* The inner loops.
LEMMA HeaderFieldGoesOn == ASSUME InLoop, Fresher, HeaderField PROVE GoesOn
<1>0. "header_field" \in DataCallbacks /\ p \in Nat /\ p + 1 \in Nat /\ p + 1 >= p /\ p >= p /\ IInv
  BY InputIs DEF InLoop, IInv, DataCallbacks
<1>1. CASE \E r : InnerStep(r, p + 1) \/ (Return(r, p) /\ Quiet)
  BY <1>0, <1>1, InnerPlain, ReturnPlain, PlainGoesOn DEF Quiet
<1>2. CASE \E r : CallData("header_field", mark, p, r, p + 1, r, p + 1)
  BY <1>0, <1>2, DataGives
<1>3. CASE \E r, e : Error(r, e)
  BY <1>0, <1>3, ErrorPlain, PlainGoesOn
<1> QED BY <1>1, <1>2, <1>3 DEF HeaderField

LEMMA HeaderValueGoesOn == ASSUME InLoop, Fresher, HeaderValue PROVE GoesOn
<1>0. "header_value" \in DataCallbacks /\ p \in Nat /\ p + 1 \in Nat /\ p + 1 >= p /\ p >= p /\ IInv
  BY InputIs DEF InLoop, IInv, DataCallbacks
<1>1. CASE \E r, s : \E n \in {p, p + 1} : CallData("header_value", mark, p, r, n, s, n)
  BY <1>0, <1>1, DataGives
<1>2. CASE \E r : Return(r, p) /\ Quiet
  BY <1>0, <1>2, ReturnPlain, PlainGoesOn DEF Quiet
<1>3. CASE ch \notin LineEnd /\ \E r : \E n \in {p + 1, LineEndFrom(p)} : InnerStep(r, n)
  <2>1. LineEndFrom(p) \in p + 1 .. lim /\ lim \in Nat
    BY <1>3, LineEndIs, Bounds
  <2>2. LineEndFrom(p) \in Nat /\ LineEndFrom(p) >= p
    BY <1>0, <2>1
  <2> QED BY <1>0, <1>3, <2>2, InnerPlain, PlainGoesOn
<1> QED BY <1>1, <1>2, <1>3 DEF HeaderValue

\* The ends of the other strings.
LEMMA DataGoesOn == ASSUME Fresher, Status \/ UrlEnd \/ ChunkDataAlmostDone PROVE GoesOn
<1>0. {"status", "url", "body"} \subseteq DataCallbacks /\ p + 1 \in Nat /\ p + 1 >= p /\ IInv
  BY InputIs DEF Fresher, IInv, DataCallbacks
<1>1. CASE \E cb \in DataCallbacks : \E r : CallData(cb, mark, p, r, p + 1, r, p + 1)
  BY <1>0, <1>1, DataGives
<1>2. CASE \E r : Step(r) \/ \E e : Fail(e)
  BY <1>0, <1>2, StepPlain, FailPlain, PlainGoesOn
<1>3. CASE Status
  BY <1>0, <1>1, <1>2, <1>3 DEF Status
<1>4. CASE UrlEnd
  BY <1>0, <1>1, <1>2, <1>4 DEF UrlEnd
<1>5. CASE ChunkDataAlmostDone
  BY <1>0, <1>1, <1>2, <1>5 DEF ChunkDataAlmostDone
<1> QED BY <1>3, <1>4, <1>5

\* An empty value: it begins and ends here.
LEMMA DiscardLwsGoesOn == ASSUME Fresher, DiscardLws PROVE GoesOn
<1> DEFINE cb == "header_value"
           m == MARK(cb)
<1>0. cb \in DataCallbacks /\ p \in Nat /\ p >= p /\ IInv /\ None \notin Nat
  BY InputIs DEF Fresher, IInv, DataCallbacks
<1>1. \A c \in DataCallbacks : mark[c] = None
  <2>1. parser.state = "s_header_value_discard_lws"
    BY DEF DiscardLws, At
  <2>2. \A c \in DataCallbacks : parser.state \notin Home(c)
    BY <2>1, HomeIs DEF DataCallbacks, UrlStates, UrlServer, UrlQuery, UrlFragment, BodyHomes
  <2> QED BY <2>2 DEF Fresher, IInv, Marks, MarksFit
<1>2. m[cb] = p /\ \A c \in DataCallbacks \ {cb} : m[c] = None
  <2>1. mark \in [DataCallbacks -> Nat \cup {None}]
    BY DEF Fresher, IInv, Marks, MarksFit
  <2> QED BY <1>0, <1>1, <2>1 DEF MARK
<1> HIDE DEF m
<1>3. CASE \E s : Goto(s)
  BY <1>0, <1>3, GotoPlain, PlainGoesOn
<1>4. ASSUME NEW r, CallData(cb, m, p, r, p, r, p) PROVE GoesOn
  <2>1. Call(cb, SubSeq(input.bytes, p + 1, p), m, r, p, r, p)
    BY <1>0, <1>2, <1>4 DEF CallData
  <2> QED BY <1>0, <1>2, <2>1, CallGives
<1> QED BY <1>3, <1>4 DEF DiscardLws, m

\* A counted body that ends gives its last byte, which is read again.
LEMMA BodyIdentityGoesOn == ASSUME InLoop, Fresher, BodyIdentity PROVE GoesOn
<1> DEFINE n == ToRead
           m == MARK("body")
           r == [Read(n) EXCEPT !.state = "s_message_done"]
           from == m["body"]
<1>0. p \in Nat /\ lim \in Nat /\ lim <= Len(input.bytes) /\ Len(input.bytes) \in Nat /\ None \notin Nat /\ IInv
  BY InputIs DEF InLoop, IInv
<1>1. parser.state = "s_body_identity" /\ Reached = p
  BY DEF BodyIdentity, At, Reached
<1>2. n \in 1 .. lim - p /\ q = parser /\ q \in Parsers /\ q.errno = "HPE_OK"
  BY <1>1, ReadIs, Here
<1>3. /\ "body" \in DataCallbacks /\ m["body"] # None /\ m["body"] <= p
      /\ \A c \in DataCallbacks \ {"body"} : m[c] = None
      /\ m \in [DataCallbacks -> Nat \cup {None}]
  BY <1>1, BodyMark DEF BodyHomes
<1>4. from \in Nat /\ from <= p /\ (from = p \/ (from = mark["body"] /\ mark["body"] # None))
  <2>1. mark \in [DataCallbacks -> Nat \cup {None}]
    BY DEF InLoop, IInv, Marks, MarksFit
  <2>2. from = IF mark["body"] = None THEN p ELSE mark["body"]
    BY <1>3, <2>1 DEF MARK
  <2> HIDE DEF m, from
  <2>3. from <= p
    BY <1>3 DEF from
  <2>4. CASE mark["body"] = None
    <3>1. from = p
      BY <2>2, <2>4
    <3> QED BY <1>0, <2>3, <3>1
  <2>5. CASE mark["body"] # None
    <3>1. "body" \in DataCallbacks
      BY <1>3
    <3>2. mark["body"] \in Nat
      BY <2>1, <2>5, <3>1
    <3> QED BY <2>2, <2>3, <2>5, <3>2
  <2> QED BY <2>4, <2>5
<1>5. r.errno = "HPE_OK" /\ r.state = "s_message_done" /\ \A e : [r EXCEPT !.errno = e].state = "s_message_done"
  BY <1>2 DEF Read, Parsers
<1>6. p + n \in Nat /\ p + n - 1 \in Nat /\ p + n >= p /\ p + n <= Len(input.bytes) /\ p + n - 1 + 1 = p + n /\ from <= p + n
  BY <1>0, <1>2, <1>4
<1> HIDE DEF n, m, r, from
<1>7. CASE Continue(Read(n), p + n, m, None) /\ Quiet
  BY <1>0, <1>3, <1>6, <1>7, MarkPlain, PlainGoesOn DEF m
<1>8. CASE CallData("body", m, p + n, r, p + n - 1, r, p + n - 1)
  <2>1. Call("body", SubSeq(input.bytes, from + 1, p + n), m, r, p + n - 1, r, p + n - 1)
    BY <1>3, <1>8 DEF CallData, from
  <2>2. /\ p' = p + n - 1 /\ parser'.state = "s_message_done" /\ input' = input
        /\ mark' = NoMarks \/ mark' = [c \in DataCallbacks |-> IF c = "body" THEN None ELSE m[c]]
    BY <1>5, <2>1 DEF Call, Continue, Return
  <2>3. Reached' = p + n
    BY <1>6, <2>2 DEF Reached
  <2>4. \A c \in DataCallbacks : mark'[c] = None
    BY <1>3, <2>2 DEF NoMarks
  <2>5. calls' = Recorded("body", SubSeq(input.bytes, from + 1, p + n))
    BY <2>1 DEF Call
  <2>6. (\E c \in DataCallbacks : mark[c] # None /\ from = mark[c]) \/ from >= Reached
    BY <1>0, <1>1, <1>3, <1>4
  <2>7. Gives("body", from, p + n) /\ "body" \in Callbacks
    BY <1>3, <1>6, <2>3, <2>4, <2>5, <2>6 DEF Gives, Callbacks
  <2> QED BY <1>4, <1>6, <2>2, <2>7 DEF GoesOn
<1> QED BY <1>7, <1>8 DEF BodyIdentity, n, m, r

LEMMA NoMarkThere ==
  ASSUME IInv, pc = "loop", parser.state = "s_message_done"
  PROVE  \A c \in DataCallbacks : mark[c] = None
<1>1. \A c \in DataCallbacks : parser.state \notin Home(c)
  BY HomeIs DEF DataCallbacks, UrlStates, UrlServer, UrlQuery, UrlFragment, BodyHomes
<1> QED BY <1>1 DEF IInv, Marks, MarksFit

\* The byte that is read again is left behind.
LEMMA MessageDoneGoesOn == ASSUME InLoop, MessageDone PROVE GoesOn
<1> DEFINE r == [q EXCEPT !.state = NEW_MESSAGE(q)]
<1>0. p \in Nat /\ p + 1 \in Nat /\ IInv /\ pc = "loop"
  BY InputIs DEF InLoop, IInv
<1>1. parser.state = "s_message_done" /\ Reached = p + 1
  BY DEF MessageDone, At, Reached
<1>2. r.errno = "HPE_OK" /\ r.state # "s_message_done" /\ \A e : [r EXCEPT !.errno = e].state # "s_message_done"
  <2>1. q \in Parsers /\ q.errno = "HPE_OK"
    BY Here
  <2>2. NEW_MESSAGE(q) \in {"s_dead", "s_start_req", "s_start_res"}
    BY NewMessageIs
  <2> HIDE DEF q
  <2> QED BY <2>1, <2>2 DEF Parsers
<1>3. \A c \in DataCallbacks : mark[c] = None
  BY <1>0, <1>1, NoMarkThere
<1>4. Notify("message_complete", r)
  BY DEF MessageDone
<1> HIDE DEF r
<1>5. /\ p' = p + 1 /\ parser'.state # "s_message_done" /\ input' = input
      /\ mark' = NoMarks \/ mark' = [c \in DataCallbacks |-> IF c = "message_complete" THEN None ELSE mark[c]]
      /\ calls' = Recorded("message_complete", << >>)
  BY <1>2, <1>4 DEF Notify, Call, Continue, Return
<1>6. Reached' >= Reached
  BY <1>0, <1>1, <1>5 DEF Reached
<1>7. \A c \in DataCallbacks : mark'[c] = None
  BY <1>3, <1>5 DEF NoMarks
<1>8. "message_complete" \in Callbacks
  BY DEF Callbacks
<1> QED BY <1>5, <1>6, <1>7, <1>8 DEF GivesNone, GoesOn

\* Leaving execute.
LEMMA StaysGoesOn ==
  ASSUME IInv, input' = input, calls' = calls, p' = p, parser'.state = parser.state,
         \A c \in DataCallbacks : mark'[c] = None \/ mark'[c] = mark[c] \/ mark'[c] >= Reached
  PROVE  GoesOn
<1>1. Reached' = Reached /\ Reached \in Nat
  BY ReachedIs DEF Reached, IInv
<1>2. Reached' >= Reached
  BY <1>1
<1> QED BY <1>2 DEF GivesNone, GoesOn

LEMMA EndOfDataGoesOn == ASSUME IInv, EndOfData PROVE GoesOn
<1>1. PICK i \in 1 .. 5 : mark[LeftOver[i]] # None /\ CallData(LeftOver[i], mark, p, parser, p, parser, p)
  BY DEF EndOfData
<1>2. LeftOver[i] \in DataCallbacks /\ pc = "loop" /\ p \in Nat /\ p >= p
  BY InputIs DEF LeftOver, DataCallbacks, EndOfData, IInv
<1>3. Fresher
  BY <1>1, <1>2, Alone DEF Fresher
<1> QED BY <1>1, <1>2, <1>3, DataGives

LEMMA EndOfCallGoesOn == ASSUME IInv, EndOfCall PROVE GoesOn
BY StaysGoesOn DEF EndOfCall, Return, Quiet, NoMarks

LEMMA HeaderOverflowGoesOn == ASSUME IInv, HeaderOverflow PROVE GoesOn
<1>1. q \in Parsers /\ q.state = parser.state
  BY Here DEF InLoop, HeaderOverflow
<1>2. [q EXCEPT !.errno = "HPE_HEADER_OVERFLOW"].state = parser.state
  BY <1>1 DEF Parsers
<1> HIDE DEF q
<1> QED BY <1>2, StaysGoesOn DEF HeaderOverflow, Fail, Error, Return, Quiet, NoMarks

LEMMA DoneIsNot == "s_message_done" \notin UrlStates /\ "s_message_done" \notin DOMAIN Expect
BY DEF UrlStates, UrlServer, UrlQuery, UrlFragment, Expect

LEMMA LoopGoesOn == ASSUME IInv, Loop PROVE GoesOn
<1>1. CASE EndOfData \/ EndOfCall \/ HeaderOverflow
  BY <1>1, EndOfDataGoesOn, EndOfCallGoesOn, HeaderOverflowGoesOn
<1>2. CASE MessageDone
  BY <1>2, MessageDoneGoesOn DEF MessageDone, At, InLoop
<1>3. ASSUME NEW S, At(S), "s_message_done" \notin S PROVE InLoop /\ Fresher
  BY <1>3 DEF At, InLoop, Fresher
<1>4. ASSUME \/ Dead \/ StartReqOrRes \/ ResOrRespH \/ StartRes \/ OneByte
             \/ FirstMajor \/ Major \/ FirstMinor \/ Minor \/ FirstStatusCode \/ StatusCode \/ StatusStart
             \/ StartReq \/ ReqMethod \/ SpacesBeforeUrl \/ Url \/ HttpStart
             \/ HeaderFieldStart \/ DiscardWs \/ HeaderValueStart \/ HeaderValueLws
             \/ HeadersAlmostDone \/ HeadersDone \/ BodyIdentityEof
             \/ ChunkSizeStart \/ ChunkSize \/ ChunkParameters \/ ChunkSizeAlmostDone
             \/ ChunkData \/ ChunkDataDone
      PROVE  GoesOn
  <2>1. \E S : At(S) /\ "s_message_done" \notin S
    <3>1. CASE Url
      BY <3>1, DoneIsNot DEF Url
    <3>2. CASE OneByte
      BY <3>2, DoneIsNot DEF OneByte
    <3>3. CASE \/ Dead \/ StartReqOrRes \/ ResOrRespH \/ StartRes
               \/ FirstMajor \/ Major \/ FirstMinor \/ Minor \/ FirstStatusCode \/ StatusCode \/ StatusStart
               \/ StartReq \/ ReqMethod \/ SpacesBeforeUrl \/ HttpStart
      <4>1. \E S \in {{"s_dead"}, {"s_start_req_or_res"}, {"s_res_or_resp_H"}, {"s_start_res"},
                      {"s_res_first_http_major", "s_req_first_http_major"},
                      {"s_res_http_major", "s_req_http_major"},
                      {"s_res_first_http_minor", "s_req_first_http_minor"},
                      {"s_res_http_minor", "s_req_http_minor"}, {"s_res_first_status_code"},
                      {"s_res_status_code"}, {"s_res_status_start"}, {"s_start_req"}, {"s_req_method"},
                      {"s_req_spaces_before_url"}, {"s_req_http_start"}} : At(S)
        BY <3>3 DEF Dead, StartReqOrRes, ResOrRespH, StartRes, FirstMajor, Major, FirstMinor, Minor,
                    FirstStatusCode, StatusCode, StatusStart, StartReq, ReqMethod, SpacesBeforeUrl, HttpStart
      <4> QED BY <4>1
    <3>4. CASE \/ HeaderFieldStart \/ DiscardWs \/ HeaderValueStart \/ HeaderValueLws
               \/ HeadersAlmostDone \/ HeadersDone \/ BodyIdentityEof
               \/ ChunkSizeStart \/ ChunkSize \/ ChunkParameters \/ ChunkSizeAlmostDone
               \/ ChunkData \/ ChunkDataDone
      <4>1. \E S \in {{"s_header_field_start"}, {"s_header_value_discard_ws"}, {"s_header_value_start"},
                      {"s_header_value_lws"}, {"s_headers_almost_done"}, {"s_headers_done"},
                      {"s_body_identity_eof"}, {"s_chunk_size_start"}, {"s_chunk_size"},
                      {"s_chunk_parameters"}, {"s_chunk_size_almost_done"}, {"s_chunk_data"},
                      {"s_chunk_data_done"}} : At(S)
        BY <3>4 DEF HeaderFieldStart, DiscardWs, HeaderValueStart, HeaderValueLws, HeadersAlmostDone,
                    HeadersDone, BodyIdentityEof, ChunkSizeStart, ChunkSize, ChunkParameters,
                    ChunkSizeAlmostDone, ChunkData, ChunkDataDone
      <4> QED BY <4>1
    <3> QED BY <1>4, <3>1, <3>2, <3>3, <3>4
  <2>2. InLoop /\ Fresher
    BY <1>3, <2>1
  <2>3. Plain
    BY <1>4, <2>2, FirstLinePlain, BeginPlain, ChunkPlain, StringPlain, HeadersEndPlain, BodyPlain
  <2> QED BY <2>2, <2>3, PlainGoesOn
<1>5. CASE Status \/ UrlEnd \/ ChunkDataAlmostDone
  <2>1. At({"s_res_status"}) \/ At(UrlStates) \/ At({"s_chunk_data_almost_done"})
    BY <1>5 DEF Status, UrlEnd, ChunkDataAlmostDone
  <2> QED BY <1>3, <1>5, <2>1, DoneIsNot, DataGoesOn
<1>6. CASE HeaderField \/ HeaderValue \/ DiscardLws \/ BodyIdentity
  <2>1. \E S \in {{"s_header_field"}, {"s_header_value"}, {"s_header_value_discard_lws"}, {"s_body_identity"}} :
          At(S)
    BY <1>6 DEF HeaderField, HeaderValue, DiscardLws, BodyIdentity
  <2>2. InLoop /\ Fresher
    BY <1>3, <2>1
  <2> QED BY <1>6, <2>2, HeaderFieldGoesOn, HeaderValueGoesOn, DiscardLwsGoesOn, BodyIdentityGoesOn
<1> QED BY <1>1, <1>2, <1>4, <1>5, <1>6 DEF Loop

LEMMA UnpauseGoesOn == ASSUME IInv, Unpause PROVE GoesOn
<1>1. [parser EXCEPT !.errno = "HPE_OK"].state = parser.state
  BY DEF IInv, Types, Parsers
<1> QED BY <1>1, StaysGoesOn DEF Unpause

LEMMA EofGoesOn == ASSUME IInv, Eof PROVE GoesOn
<1>1. parser'.state = parser.state /\ p' = p
  BY DEF Eof, IInv, Types, Parsers
<1>2. Reached' = Reached /\ Reached \in Nat
  BY <1>1, ReachedIs DEF Reached, IInv
<1>3. Reached' >= Reached
  BY <1>2
<1>4. "message_complete" \in Callbacks
  BY DEF Callbacks
<1>5. input' = input /\ mark' = mark /\ (calls' = calls \/ calls' = Recorded("message_complete", << >>))
  BY DEF Eof
<1> QED BY <1>3, <1>4, <1>5 DEF GivesNone, GoesOn

LEMMA ExecuteGoesOn == ASSUME IInv, NEW n \in 1 .. Len(input.bytes), Execute(n) PROVE GoesOn
<1>1. ASSUME NEW c \in DataCallbacks, mark'[c] # None PROVE mark'[c] = p /\ Reached = p
  <2>1. mark'[c] = IF c \in MarkOnEntry(parser.state) THEN p ELSE None
    BY DEF Execute
  <2>2. MarkOnEntry(parser.state) # {}
    BY <1>1, <2>1
  <2>3. parser.state # "s_message_done"
    BY <2>2, DoneIsNot DEF MarkOnEntry
  <2> QED BY <1>1, <2>1, <2>3 DEF Reached
<1>2. p \in Nat
  BY InputIs DEF IInv
<1>3. \A c \in DataCallbacks : mark'[c] = None \/ mark'[c] >= Reached
  BY <1>1, <1>2
<1> QED BY <1>3, StaysGoesOn DEF Execute

LEMMA HandedHolds == IInv /\ IInv' /\ Handed /\ [Next]_vars => Handed'
<1> SUFFICES ASSUME IInv, IInv', Handed, [Next]_vars PROVE Handed'
  OBVIOUS
<1>1. CASE Next
  BY <1>1, LoopGoesOn, UnpauseGoesOn, EofGoesOn, ExecuteGoesOn, GoesOnKeeps DEF Next
<1>2. CASE UNCHANGED vars
  <2>1. input' = input /\ calls' = calls /\ mark' = mark /\ Reached' = Reached
    BY <1>2 DEF vars, Reached
  <2>2. \A at, b : Given(calls, at, b)' <=> Given(calls, at, b)
    BY <2>1 DEF Given
  <2> QED BY <2>1, <2>2 DEF Handed
<1> QED BY <1>1, <1>2

LEMMA HandedAtFirst == Init => Handed
<1> SUFFICES ASSUME Init PROVE Handed
  OBVIOUS
<1>1. IInv
  BY InitIs
<1>2. calls = << >> /\ p = 0 /\ 0 \in 0 .. Len(input.bytes) /\ \A c \in DataCallbacks : mark[c] = None
  BY <1>1, InputIs DEF Init, NoMarks, IInv
<1>3. << >> \in Seq(Seq(Nat)) /\ Given(calls, << >>, 0)
  BY <1>2 DEF Given
<1>4. 0 <= Reached
  BY <1>1, ReachedIs DEF IInv
<1> QED BY <1>2, <1>3, <1>4 DEF Handed

\* What the callbacks were given are bytes of the stream, in the order of the
\* stream and none of them twice.
InOrder == \E at \in Seq(Seq(Nat)) : Given(calls, at, Len(input.bytes))

LEMMA InOrderFollows == IInv /\ Handed => InOrder
<1> SUFFICES ASSUME IInv, Handed PROVE InOrder
  OBVIOUS
<1>1. PICK b \in 0 .. Len(input.bytes) : \E at \in Seq(Seq(Nat)) : Given(calls, at, b)
  BY DEF Handed
<1>2. PICK at \in Seq(Seq(Nat)) : Given(calls, at, b)
  BY <1>1
<1>3. \A x \in 1 .. b : x \in 1 .. Len(input.bytes)
  BY <1>1, InputIs DEF IInv
<1>4. Given(calls, at, Len(input.bytes))
  BY <1>2, <1>3 DEF Given
<1> QED BY <1>4 DEF InOrder

\* Whatever the stream holds, wherever it is cut and whichever callback fails or
\* pauses the parser: http_parser_execute hands out no byte twice, none that did
\* not arrive, and none before one that arrived earlier.
THEOREM GivenInOrder == Spec => []InOrder
BY Invariance, HandedAtFirst, HandedHolds, InOrderFollows, PTL DEF Spec
=============================================================================
