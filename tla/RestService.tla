----------------------------- MODULE RestService -----------------------------
(***************************************************************************)
(* One request of a connection from its first byte to its release: the     *)
(* parser of RequestParser, RST_client_parser_on_message_complete          *)
(* (rstclient.c) with the query string, the choice of a resource           *)
(* (service.c), the handler's calls on the response (response.c,           *)
(* resource.c), and the release of response, request and client.  As       *)
(* NO_THREADING is defined, the handler runs inside the parser's callback; *)
(* its calls are steps of their own.  The strings of a url are sequences   *)
(* of characters; of a body only its length matters.                       *)
(***************************************************************************)
EXTENDS RequestParser, FiniteSets

CONSTANTS
  MethodOf,    \* the method a word of Methods is taken for
  UrlChars,    \* the characters of the words that are urls
  Resources,   \* what RST_service_publish was called with, in order
  Unpublished, \* the streams sent where no generic handler was published
  ExitWords,   \* words that hold the byte 0x7C
  HeaderNames, \* names a handler may set, and the parameters it asks for
  ParamNames,
  MaxCalls     \* bound: calls of a handler on its request and response, per url

ASSUME ServiceAssumption ==
  /\ Methods \subseteq DOMAIN MethodOf
  /\ \A w \in Word : UrlChars[w] \in Seq(STRING) /\ MaxCalls[w] \in Nat
  /\ "Content-Length" \notin HeaderNames
  /\ Resources \in Seq([method : STRING, path : Seq(STRING)])
  /\ ParamNames \subseteq Seq(STRING)
  /\ None \notin Nat \cup {"OK", "Not found"}

VARIABLES
  method, version,  \* of RST_RequestParser, copied to the request
  phase,            \* how far the request is
  handler,          \* what RST_service_find_resource chose
  query,            \* the locals of RST_request_parse_query_string
  params,           \* request->query_params: pairs <<key, value>>, in order
  response,         \* RST_Response
  sent,             \* the response whose text RST_client_send_sb_async was given
  called,           \* the handler's calls: <<function, length of the body if it has one>>
  got               \* what the last RST_request_get_query_param gave

serviceVars == <<query, handler, params, response, sent, called, got>>
allVars == <<vars, method, version, phase, serviceVars>>

ServiceInit ==
  /\ Init
  /\ method = None /\ version = None
  /\ phase = "parsing" /\ handler = None
  /\ query = [i |-> 0, current_is_value |-> FALSE, started_from |-> 0, cur_len |-> 0, key |-> None]
  /\ params = << >> /\ response = None /\ sent = None
  /\ called = << >> /\ got = None

-----------------------------------------------------------------------------
(***************************************************************************)
(* The parser at work.  The method is set before the rest of the request   *)
(* line is looked at, if there is more; the version at its end.            *)
(***************************************************************************)
AtRequestLine == pc = "exec" /\ state = "req_line" /\ LineEnds # {} /\ Len(Line) >= 2

Parse ==
  /\ phase = "parsing"
  /\ Loop
  /\ method' = IF AtRequestLine /\ Line[1] \in Methods THEN MethodOf[Line[1]] ELSE method
  /\ version' = IF AtRequestLine /\ GoodRequestLine(Line) THEN Line[3] ELSE version
  /\ phase' = IF completed' > completed THEN "complete" ELSE phase
  /\ UNCHANGED serviceVars

\* More data: also after the answer, until the client is released.
Receive(k) ==
  /\ phase \in {"parsing", "sent"}
  /\ Execute(k)
  /\ UNCHANGED <<method, version, phase, serviceVars>>

\* RST_service_on_data_received calls exit(0) before it parses when a chunk
\* begins with 0x7C: a cut inside a word may put the byte there.
ExitByte ==
  /\ phase \in {"parsing", "sent"} /\ pc = "idle"
  /\ fed < Len(stream) /\ stream[fed + 1] \in ExitWords
  /\ phase' = "exited"
  /\ UNCHANGED <<vars, method, version, serviceVars>>

-----------------------------------------------------------------------------
(***************************************************************************)
(* RST_requestparser_parse_url, and the look-up in a map of strings.       *)
(***************************************************************************)
Url == UrlChars[client.url[1]]

\* Offsets count from 0, as in the code.
Questions(url) == {n \in 0 .. Len(url) - 1 : url[n + 1] = "?"}
PLen(url) == IF Questions(url) = {} THEN Len(url) ELSE FirstOf(Questions(url))
Path(url) == SubSeq(url, 1, PLen(url))
Query(url) == SubSeq(url, PLen(url) + 2, Len(url))

\* RST_cstr_comparator is strcmp, which does not survive a null pointer; the
\* look-up stops at the first match.
FindCrashes(ps, key) ==
  \E n \in DOMAIN ps : /\ key = None \/ ps[n][1] = None
                       /\ \A m \in 1 .. n - 1 : key = None \/ ps[m][1] # key
Contains(ps, key) == \E n \in DOMAIN ps : ps[n][1] = key

-----------------------------------------------------------------------------
(***************************************************************************)
(* RST_Response.  RST_map_insert keeps the header that is there.           *)
(***************************************************************************)
RST_response_init ==
  [version |-> "HTTP/0.0", status |-> 0, message |-> None, headers |-> [h \in {} |-> 0], body |-> 0]

set_header(r, name, value) == [r EXCEPT !.headers = MapInsert(@, name, value)]

set_body_n_stale(r, len) ==   \* mutant: the length is taken before the append
  [set_header(r, "Content-Length", r.body) EXCEPT !.body = @ + len]

\* The body is appended to, and its length so far is the Content-Length.
set_body_n(r, len) ==
  LET s == [r EXCEPT !.body = @ + len] IN set_header(s, "Content-Length", s.body)

set_status_message(r, m) == [r EXCEPT !.message = m]

\* RST_response_set_not_found and RST_response_set_bad_request
set_error(r, status, message) ==
  set_body_n([set_status_message([r EXCEPT !.status = status], message) EXCEPT !.version = version], 0)

-----------------------------------------------------------------------------
(***************************************************************************)
(* RST_client_parser_on_message_complete, without the header it saves.     *)
(***************************************************************************)
Generic == 0   \* no resource: the generic handler
Matching == {n \in DOMAIN Resources : Resources[n] = [method |-> method, path |-> Path(Url)]}
RST_service_find_resource == IF Matching = {} THEN Generic ELSE FirstOf(Matching)

Respond(r) == sent' = r /\ response' = None /\ phase' = "sent"
Abort == phase' = "aborted" /\ UNCHANGED <<handler, response, sent>>

GenericMissing(h) == h = Generic /\ stream \in Unpublished

\* The handler of the resource, or the generic one, with a new response.
\* scheduled_generic_handle does not ask whether there is one: RST_service_init
\* leaves generic_handler at the zero of fresh pool memory, and the call
\* through the null pointer ends the process.
Schedule ==
  /\ handler' = RST_service_find_resource
  /\ response' = RST_response_init
  /\ phase' = IF GenericMissing(RST_service_find_resource) THEN "aborted" ELSE "handler"
  /\ UNCHANGED sent

MessageComplete ==
  /\ phase = "complete"
  /\ IF Query(Url) = << >> THEN Schedule
     ELSE phase' = "query" /\ UNCHANGED <<handler, response, sent>>
  /\ UNCHANGED <<vars, method, version, query, params, called, got>>

-----------------------------------------------------------------------------
(***************************************************************************)
(* RST_request_parse_query_string, a character at a time.                  *)
(***************************************************************************)
Q == Query(Url)
InQuery == phase = "query" /\ query.i < Len(Q)
AtChar(c) == InQuery /\ Q[query.i + 1] = c
AtEnd == phase = "query" /\ query.i = Len(Q)

\* The cur_len characters at started_from.
Text == SubSeq(Q, query.started_from + 1, query.started_from + query.cur_len)

InsertParam ==
  /\ ~FindCrashes(params, query.key)
  /\ params' = IF Contains(params, query.key) THEN params
               ELSE Append(params, <<query.key, IF query.current_is_value THEN Text ELSE << >>>>)

EqualSign ==
  /\ AtChar("=") /\ ~query.current_is_value
  /\ query' = [i |-> query.i + 1, current_is_value |-> TRUE, started_from |-> query.i + 1,
               cur_len |-> 0, key |-> Text]
  /\ UNCHANGED <<vars, method, version, phase, handler, params, response, sent, called, got>>

SecondEqualAccepted ==   \* mutant: the second '=' is part of the value
  /\ AtChar("=") /\ query.current_is_value
  /\ query' = [query EXCEPT !.i = @ + 1, !.cur_len = @ + 1]
  /\ UNCHANGED <<vars, method, version, phase, handler, params, response, sent, called, got>>

\* A second '=' in a parameter: return 0.
SecondEqual ==
  /\ AtChar("=") /\ query.current_is_value
  /\ Respond(set_error(RST_response_init, 400, "Bad request"))
  /\ UNCHANGED <<vars, method, version, query, handler, params, called, got>>

AfterAmpersandKeepsStart ==   \* mutant: started_from stays at the parameter before
  [query EXCEPT !.i = @ + 1, !.key = None, !.current_is_value = FALSE, !.cur_len = 1]

AfterAmpersandKeepsKey ==   \* mutant: key is not reset
  [i |-> query.i + 1, current_is_value |-> FALSE, started_from |-> query.i + 1,
   cur_len |-> 1, key |-> query.key]

\* The case falls through to default, so the '&' is counted as the first
\* character of what follows it.
AfterAmpersand ==
  [i |-> query.i + 1, current_is_value |-> FALSE, started_from |-> query.i + 1,
   cur_len |-> 1, key |-> None]

Ampersand ==
  /\ AtChar("&")
  /\ InsertParam
  /\ query' = AfterAmpersand
  /\ UNCHANGED <<vars, method, version, phase, handler, response, sent, called, got>>

OtherChar ==
  /\ InQuery /\ ~AtChar("=") /\ ~AtChar("&")
  /\ query' = [query EXCEPT !.i = @ + 1, !.cur_len = @ + 1]
  /\ UNCHANGED <<vars, method, version, phase, handler, params, response, sent, called, got>>

QueryEnd ==
  /\ AtEnd
  /\ InsertParam
  /\ Schedule
  /\ UNCHANGED <<vars, method, version, query, called, got>>

InsertCrash ==
  /\ AtChar("&") \/ AtEnd
  /\ FindCrashes(params, query.key)
  /\ Abort
  /\ UNCHANGED <<vars, method, version, query, params, called, got>>

ParseQueryString ==
  EqualSign \/ SecondEqual \/ Ampersand \/ OtherChar \/ QueryEnd \/ InsertCrash

-----------------------------------------------------------------------------
\* What a handler may do with its response.
HandlerCall(name, len, r) ==
  /\ phase = "handler" /\ Len(called) < MaxCalls[client.url[1]]
  /\ called' = Append(called, <<name, len>>)
  /\ response' = r
  /\ UNCHANGED <<vars, method, version, phase, query, handler, params, sent, got>>

SetBody(len) == HandlerCall("set_body", len, set_body_n(response, len))
SetHeader(name, value) == HandlerCall("set_header", None, set_header(response, name, value))
SetStatus == HandlerCall("set_status", None, set_status_message([response EXCEPT !.status = 200], "OK"))
SetNotFound == HandlerCall("set_not_found", 0, set_error(response, 404, "Not found"))

GetQueryParam(name) ==
  /\ phase = "handler" /\ Len(called) < MaxCalls[client.url[1]]
  /\ called' = Append(called, <<"get", None>>)
  /\ IF FindCrashes(params, name) THEN phase' = "aborted" /\ UNCHANGED got
     ELSE /\ got' = [name |-> name,
                     value |-> IF Contains(params, name)
                                 THEN params[CHOOSE n \in DOMAIN params : params[n][1] = name][2]
                                 ELSE None]
          /\ UNCHANGED phase
  /\ UNCHANGED <<vars, method, version, query, handler, params, response, sent>>

HandlerReturnsUnset ==   \* mutant: a response without a status message is never sent
  /\ phase = "handler" /\ response.message # None
  /\ Respond(response)
  /\ UNCHANGED <<vars, method, version, query, called, got, handler, params>>

\* scheduled_handle_request and scheduled_generic_handle: the response becomes text and is released.  Its
\* status message is freed, and RST_free asserts that it is not null.
HandlerReturns ==
  /\ phase = "handler"
  /\ IF response.message = None THEN Abort /\ UNCHANGED params
     ELSE Respond(response) /\ UNCHANGED <<handler, params>>
  /\ UNCHANGED <<vars, method, version, query, called, got>>

\* RST_service_on_data_sent: the client is erased, and RST_client_release frees
\* the keys of query_params, with the same assertion.
DataSent ==
  /\ phase = "sent" /\ pc = "idle"
  /\ phase' = IF Contains(params, None) THEN "aborted" ELSE "released"
  /\ UNCHANGED <<vars, method, version, serviceVars>>

Handler ==
  \/ \E len \in 0 .. 2 : SetBody(len)
  \/ \E name \in HeaderNames : SetHeader(name, Len(called))
  \/ SetStatus \/ SetNotFound
  \/ \E name \in ParamNames : GetQueryParam(name)

ServiceNext ==
  \/ Parse \/ ExitByte \/ \E k \in 1 .. Len(stream) : Receive(k)
  \/ MessageComplete \/ ParseQueryString \/ Handler \/ HandlerReturns \/ DataSent

ServiceSpec == ServiceInit /\ [][ServiceNext]_allVars

\* Sequential code takes its next step; a handler returns.
FairServiceSpec ==
  /\ ServiceSpec
  /\ WF_allVars(Parse) /\ WF_allVars(MessageComplete) /\ WF_allVars(ParseQueryString) /\ WF_allVars(HandlerReturns)

-----------------------------------------------------------------------------
(***************************************************************************)
(* Properties.  The reference takes the query string apart at '&' and '='. *)
(***************************************************************************)
ServiceTypeOK ==
  /\ TypeOK
  /\ phase \in {"parsing", "complete", "query", "handler", "sent", "released", "aborted", "exited"}
  /\ \A n \in DOMAIN params : params[n][1] = None \/ params[n][1] \in Seq(STRING)
  /\ handler \in DOMAIN Resources \cup {Generic, None}
  /\ sent = None \/ (sent.body \in Nat /\ sent.status \in {0, 200, 400, 404})

Starts(q) == {1} \cup {n + 1 : n \in {i \in DOMAIN q : q[i] = "&"}}
PartAt(q, s) == SubSeq(q, s, FirstOf({i \in s .. Len(q) : q[i] = "&"} \cup {Len(q) + 1}) - 1)
Equals(part) == {i \in DOMAIN part : part[i] = "="}

KeyOf(part, s) == SubSeq(part, 1, FirstOf(Equals(part)) - 1) \o (IF s = 1 THEN << >> ELSE <<"=">>)
ValueOf(part) == SubSeq(part, FirstOf(Equals(part)) + 1, Len(part))

\* What the url with this query string asks for.  The parser looks at the parts
\* up to the first with a second '='; with none of them nameless, each is a
\* key with a value.
QueryReference(q) ==
  LET part == [s \in Starts(q) |-> PartAt(q, s)]
      bad == {s \in DOMAIN part : \E i, j \in Equals(part[s]) : i # j}
      nameless == {s \in DOMAIN part : Equals(part[s]) = {} /\ \A b \in bad : s < b}
      key == [s \in {t \in DOMAIN part : Equals(part[t]) # {}} |-> KeyOf(part[s], s)]
      keys == {key[s] : s \in DOMAIN key}
  IN  [bad |-> bad # {}, nameless |-> nameless # {},
       values |-> [k \in keys |-> ValueOf(part[FirstOf({s \in DOMAIN key : key[s] = k})])]]

NoQuery == [bad |-> FALSE, nameless |-> FALSE, values |-> [k \in {} |-> << >>]]

Asked == LET q == Query(UrlChars[stream[2]]) IN IF q = << >> THEN NoQuery ELSE QueryReference(q)

\* A handler of a request all of whose parameters have one '=' finds exactly
\* the values of the url: the first of several with one name, and, because of
\* the character counted at '&', every parameter but the first one under its
\* name followed by '='.
QueryParamsExact ==
  handler # None /\ ~Asked.nameless =>
    /\ {params[n][1] : n \in DOMAIN params} = DOMAIN Asked.values
    /\ Len(params) = Cardinality(DOMAIN Asked.values)
    /\ got # None => got.value = IF got.name \in DOMAIN Asked.values THEN Asked.values[got.name] ELSE None

\* A query string is refused exactly when a parameter has a second '=': then
\* no handler runs and the client gets 400 in its own version, with an empty
\* body and the Content-Length that says so.  Every other request goes to the
\* resource published first for its method and path, or to the generic handler
\* when there is none.
RoutedExact ==
  /\ ServiceTypeOK
  /\ handler # None =>
       LET wanted == [method |-> MethodOf[stream[1]], path |-> Path(UrlChars[stream[2]])]
       IN  /\ ~Asked.bad
           /\ handler = Generic => \A n \in DOMAIN Resources : Resources[n] # wanted
           /\ handler # Generic => /\ Resources[handler] = wanted
                                   /\ \A n \in 1 .. handler - 1 : Resources[n] # wanted
  /\ sent # None /\ handler = None =>
       /\ Asked.bad
       /\ sent.status = 400 /\ sent.version = stream[3]
       /\ sent.headers = [h \in {"Content-Length"} |-> 0] /\ sent.body = 0

SetsMessage(call) == call[1] \in {"set_status", "set_not_found"}

\* How a request may end the process, and when its client is released instead.
\* The process is aborted only by a parameter without '=' (its key is a null
\* pointer), by a generic handler nobody published, which never runs, or by a
\* handler that sets no status message; a client that is released had none of
\* the three.  The parser dies only as CrashExplained says, and exit is called
\* only for a chunk at a word with the exit byte.
AbortsExact ==
  /\ phase = "aborted" =>
       \/ Asked.nameless
       \/ GenericMissing(handler)
       \/ handler # None /\ \A n \in DOMAIN called : ~SetsMessage(called[n])
  /\ phase = "released" =>
       /\ ~Asked.nameless
       /\ handler # None => \E n \in DOMAIN called : SetsMessage(called[n])
  /\ GenericMissing(handler) => phase = "aborted" /\ called = << >> /\ sent = None
  /\ pc = "crashed" => CrashExplained
  /\ phase = "exited" => fed < Len(stream) /\ stream[fed + 1] \in ExitWords

Bodies == {n \in DOMAIN called : called[n][2] # None}

\* The Content-Length of a response is never more than its body, so that no
\* client waits for bytes that do not come.  It is the length of the body
\* unless a handler appends to the body it set first, and it is missing only
\* where no body was set.
ContentLengthHonest ==
  sent # None =>
    /\ "Content-Length" \in DOMAIN sent.headers <=> (handler = None \/ Bodies # {})
    /\ "Content-Length" \in DOMAIN sent.headers =>
         /\ sent.headers["Content-Length"] <= sent.body
         /\ (\A n \in Bodies : n = FirstOf(Bodies) \/ called[n][2] = 0) =>
              sent.headers["Content-Length"] = sent.body

\* A request that is complete is answered, or the process is down: no early
\* return loses it between the parser and the response.
AnsweredOrDown == phase = "complete" ~> phase \in {"sent", "released", "aborted"}
=============================================================================
