--------------------------- MODULE RequestParser ---------------------------
(***************************************************************************)
(* RST_requestparser_execute (requestparser.c) and the callbacks it drives *)
(* in an RST_Client (rstclient.c), for one connection.  The bytes of the   *)
(* connection arrive in chunks cut anywhere, the end of a line included.   *)
(*                                                                         *)
(* A stream is a sequence of tokens: "CR", "LF", "COLON", and words.  Blanks *)
(* only separate words, and the code skips them.  Cutting inside a word is *)
(* no different from cutting before it: the parser looks for "\r\n" only,  *)
(* and takes a line apart once it is all there.                            *)
(***************************************************************************)
EXTENDS Integers, Sequences

CONSTANTS
  Stream,      \* what a peer may send on the connection
  Methods,     \* the words taken for a method: GET, POST, PUT, DELETE, and, as
               \* strncmp stops with the word, every prefix of them, the
               \* empty one of a line that starts with a blank too
  Versions,    \* the words of the form HTTP/<digit>.<digit>
  NumberOf,    \* word -> the number sscanf("%lld") reads from it
  IntMax,      \* the largest int; RST_min works on ints
  None         \* a null RST_String_builder*

ASSUME ParserAssumption ==
  /\ IntMax \in Nat
  /\ \A w \in DOMAIN NumberOf : NumberOf[w] \in Nat
  /\ \A t \in Stream : t \in Seq(STRING)
  /\ None \notin Seq(STRING)

VARIABLES
  stream, fed,     \* what the peer sends, and how much of it has arrived
  pc,              \* "idle", in "exec", or "crashed"
  \* RST_RequestParser
  state, buf, last_pos, content_length, body_read,
  \* RST_Client and its request
  client,
  completed        \* calls of on_message_complete

parserVars == <<state, buf, last_pos, content_length, body_read>>
vars == <<stream, fed, pc, parserVars, client, completed>>

Word == UNION {{t[i] : i \in DOMAIN t} : t \in Stream}

Client == [url : Seq(Word), field : Seq(Word) \cup {None}, value : Seq(Word) \cup {None},
           last_was_value : BOOLEAN, body : Seq(Word)]

TypeOK ==
  /\ stream \in Stream /\ fed \in 0 .. Len(stream)
  /\ pc \in {"idle", "exec", "crashed"}
  /\ state \in {"req_line", "header", "body", "finished"}
  /\ buf \in Seq(Word)
  /\ last_pos \in 0 .. Len(buf)
  /\ content_length \in Nat /\ body_read \in Nat
  /\ [f \in DOMAIN client \ {"headers"} |-> client[f]] \in Client
  /\ \A k \in DOMAIN client.headers : k \in Seq(Word) /\ client.headers[k] \in Seq(Word)
  /\ completed \in Nat

(***************************************************************************)
(* RST_client_init and RST_requestparser_init.  The state is not assigned; *)
(* it is the zero of fresh pool memory, RST_ps_start, which falls through  *)
(* into RST_ps_req_line.                                                   *)
(***************************************************************************)
NewClient == [url |-> << >>, field |-> None, value |-> None, last_was_value |-> TRUE,
              headers |-> [k \in {} |-> << >>], body |-> << >>]

Init ==
  /\ stream \in Stream /\ fed = 0
  /\ pc = "idle"
  /\ state = "req_line" /\ buf = << >> /\ last_pos = 0
  /\ content_length = 0 /\ body_read = 0
  /\ client = NewClient
  /\ completed = 0

-----------------------------------------------------------------------------
(***************************************************************************)
(* The client's callbacks, as what they make of the client.                *)
(***************************************************************************)

\* RST_map_insert keeps the value of a key that is there.
MapInsert(m, k, v) == [x \in DOMAIN m \cup {k} |-> IF x \in DOMAIN m THEN m[x] ELSE v]

SaveHeader(c) ==
  IF c.field # None /\ c.value # None
    THEN [c EXCEPT !.headers = MapInsert(@, c.field, c.value), !.field = None, !.value = None]
    ELSE c

OnHeaderField(c, at) ==
  LET d == IF c.last_was_value THEN [SaveHeader(c) EXCEPT !.field = << >>] ELSE c
  IN  [d EXCEPT !.field = @ \o at, !.last_was_value = FALSE]

\* Appends to a null string builder when a line without a colon comes first.
ValueCrashes(c) == c.last_was_value /\ c.value = None

OnHeaderValue(c, at) ==
  LET d == IF c.last_was_value THEN c ELSE [c EXCEPT !.value = << >>]
  IN  [d EXCEPT !.value = @ \o at, !.last_was_value = TRUE]

OnUrl(c, at) == [c EXCEPT !.url = @ \o at]
OnBody(c, at) == [c EXCEPT !.body = @ \o at]

-----------------------------------------------------------------------------
(***************************************************************************)
(* RST_requestparser_header for a line that is not empty.                  *)
(***************************************************************************)
Colons(line) == {i \in DOMAIN line : line[i] = "COLON"}
FirstOf(S) == CHOOSE i \in S : \A j \in S : i <= j

Name(line) == SubSeq(line, 1, FirstOf(Colons(line)) - 1)
Value(line) == SubSeq(line, FirstOf(Colons(line)) + 1, Len(line))

\* The second colon makes the function return, behind on_header_field, and so
\* does a value that is not there.
IsPair(line) == \E i \in DOMAIN line : Colons(line) = {i} /\ i < Len(line)

HeaderCrashes(c, line) == Colons(line) = {} /\ ValueCrashes(c)

Header(c, line) ==
  IF Colons(line) = {} THEN OnHeaderValue(c, line)
  ELSE IF IsPair(line) THEN OnHeaderValue(OnHeaderField(c, Name(line)), Value(line))
  ELSE OnHeaderField(c, Name(line))

\* sscanf leaves content_length alone when the value is not a number.
ContentLength(line) ==
  IF IsPair(line) /\ Name(line) = <<"Content-Length">> /\ Value(line)[1] \in DOMAIN NumberOf
    THEN NumberOf[Value(line)[1]]
    ELSE content_length

(***************************************************************************)
(* RST_requestparser_request_line: method, url and version, in this order. *)
(* The url goes to the client before the version is looked at.             *)
(***************************************************************************)
HasUrl(line) == Len(line) >= 3 /\ line[1] \in Methods
GoodRequestLine(line) == HasUrl(line) /\ Len(line) = 3 /\ line[3] \in Versions

-----------------------------------------------------------------------------
(***************************************************************************)
(* RST_requestparser_go_until_eq(parser, "\r\n", &pos), what is before it  *)
(* and what string_builder_slice_inplace leaves.                           *)
(***************************************************************************)
LineEnds == {i \in last_pos + 1 .. Len(buf) - 1 : buf[i] = "CR" /\ buf[i + 1] = "LF"}
Line == SubSeq(buf, 1, FirstOf(LineEnds) - 1 - last_pos)

SliceKeepsLf ==   \* mutant: one byte of the line end is left behind
  buf' = SubSeq(buf, FirstOf(LineEnds) + 1, Len(buf)) /\ last_pos' = 0

Slice == buf' = SubSeq(buf, FirstOf(LineEnds) + 2, Len(buf)) /\ last_pos' = 0

\* One chunk of data is handed to RST_requestparser_execute.
Execute(k) ==
  /\ pc = "idle"
  /\ fed + k <= Len(stream)
  /\ fed' = fed + k
  /\ buf' = buf \o SubSeq(stream, fed + 1, fed + k)
  /\ pc' = "exec"
  /\ UNCHANGED <<stream, state, last_pos, content_length, body_read, client, completed>>

\* No complete line: loop_done.
NeedMore ==
  /\ pc = "exec"
  /\ state \in {"req_line", "header"}
  /\ LineEnds = {}
  /\ pc' = "idle"
  /\ UNCHANGED <<stream, fed, parserVars, client, completed>>

RequestLine ==
  /\ pc = "exec" /\ state = "req_line"
  /\ LineEnds # {}
  /\ GoodRequestLine(Line)
  /\ client' = OnUrl(client, <<Line[2]>>)
  /\ Slice
  /\ state' = "header"
  /\ UNCHANGED <<stream, fed, pc, content_length, body_read, completed>>

\* PARSER_ASSERT returns from execute; the line stays at the front of the
\* buffer and meets the next chunk again.
BadRequestLine ==
  /\ pc = "exec" /\ state = "req_line"
  /\ LineEnds # {}
  /\ ~GoodRequestLine(Line)
  /\ client' = IF HasUrl(Line) THEN OnUrl(client, <<Line[2]>>) ELSE client
  /\ pc' = "idle"
  /\ UNCHANGED <<stream, fed, parserVars, completed>>

HeaderLine ==
  /\ pc = "exec" /\ state = "header"
  /\ LineEnds # {}
  /\ Line # << >> /\ ~HeaderCrashes(client, Line)
  /\ client' = Header(client, Line)
  /\ content_length' = ContentLength(Line)
  /\ Slice
  /\ UNCHANGED <<stream, fed, pc, state, body_read, completed>>

HeaderLineCrash ==
  /\ pc = "exec" /\ state = "header"
  /\ LineEnds # {}
  /\ Line # << >> /\ HeaderCrashes(client, Line)
  /\ pc' = "crashed"
  /\ UNCHANGED <<stream, fed, parserVars, client, completed>>

LastHeader ==
  /\ pc = "exec" /\ state = "header"
  /\ LineEnds # {}
  /\ Line = << >>
  /\ Slice
  /\ state' = "body"
  /\ UNCHANGED <<stream, fed, pc, content_length, body_read, client, completed>>

-----------------------------------------------------------------------------
(***************************************************************************)
(* The body.  Its bytes stay in the buffer; last_pos moves over them.      *)
(***************************************************************************)
ToInt(x) == LET m == x % (2 * (IntMax + 1)) IN IF m > IntMax THEN m - 2 * (IntMax + 1) ELSE m

RST_min(a, b) == IF a < b THEN a ELSE b

NBytesReceived == Len(buf) - last_pos   \* mutant: more than was declared

NBytes == RST_min(ToInt(Len(buf) - last_pos), ToInt(content_length - body_read))

\* A length beyond INT_MAX comes out of RST_min negative, and memcpy takes it
\* for a huge unsigned number.
BodyCrash ==
  /\ pc = "exec" /\ state = "body"
  /\ NBytes < 0
  /\ pc' = "crashed"
  /\ UNCHANGED <<stream, fed, parserVars, client, completed>>

DoneAfterData(nbytes, left) == nbytes > 0 /\ nbytes = left   \* mutant: empty rest forgotten

\* The test behind on_body compares with what is left after these nbytes.
DoneAfter(nbytes, left) == nbytes = left

OnMessageComplete(c) ==
  /\ client' = SaveHeader(c)
  /\ completed' = completed + 1
  /\ state' = "finished"
  /\ pc' = "idle"

\* One turn of the loop with data: more turns follow unless the test holds.
BodyData ==
  /\ pc = "exec" /\ state = "body"
  /\ NBytes > 0
  /\ body_read' = body_read + NBytes
  /\ last_pos' = last_pos + NBytes
  /\ LET c == OnBody(client, SubSeq(buf, last_pos + 1, last_pos + NBytes))
     IN  IF DoneAfter(NBytes, content_length - body_read')
           THEN OnMessageComplete(c)
           ELSE client' = c /\ UNCHANGED <<completed, state, pc>>
  /\ UNCHANGED <<stream, fed, buf, content_length>>

BodyEnd ==
  /\ pc = "exec" /\ state = "body"
  /\ NBytes = 0
  /\ DoneAfter(0, content_length - body_read)
  /\ OnMessageComplete(client)
  /\ UNCHANGED <<stream, fed, buf, last_pos, content_length, body_read>>

\* In every other state of the body, and in RST_ps_finished, for which the
\* switch has no case, a turn of the loop changes nothing: it turns for ever.

-----------------------------------------------------------------------------
Loop ==
  \/ NeedMore \/ RequestLine \/ BadRequestLine
  \/ HeaderLine \/ HeaderLineCrash \/ LastHeader
  \/ BodyCrash \/ BodyData \/ BodyEnd

Next == Loop \/ \E k \in 1 .. Len(stream) : Execute(k)

Spec == Init /\ [][Next]_vars

-----------------------------------------------------------------------------
(***************************************************************************)
(* Properties.  The reference splits the stream itself, not the buffer.    *)
(***************************************************************************)
Ends == {i \in 1 .. fed - 1 : stream[i] = "CR" /\ stream[i + 1] = "LF"}
PrevEnd(i) == CHOOSE j \in Ends : j < i /\ \A k \in Ends : k < i => k <= j

\* The line ends behind the request line and before the empty line.
HeaderEnds == {i \in Ends : /\ \E j \in Ends : j < i
                            /\ \A k \in Ends : k <= i => k - 2 \notin Ends}

LineAt(i) == SubSeq(stream, PrevEnd(i) + 2, i - 1)

\* The headers as the callbacks would build them from the whole lines.
Reference ==
  LET R[i \in 0 .. fed] == IF i = 0 THEN NewClient
                           ELSE IF i \in HeaderEnds THEN Header(R[i - 1], LineAt(i))
                           ELSE R[i - 1]
  IN  R[fed]

\* However the stream is cut into chunks, and wherever a line end is cut in
\* two, the client holds exactly what the complete lines received so far say:
\* no line is lost, taken twice or glued to its neighbour.
ChunkIndependence ==
  pc = "idle" /\ state # "req_line" =>
    LET ref == IF completed > 0 THEN SaveHeader(Reference) ELSE Reference
    IN  /\ client.url = <<stream[2]>>
        /\ client.headers = ref.headers
        /\ client.field = ref.field /\ client.value = ref.value

\* Where the body starts in the stream: behind the first empty line.
BodyStart == FirstOf({i \in 1 .. Len(stream) - 3 :
                        SubSeq(stream, i, i + 3) = <<"CR", "LF", "CR", "LF">>} \cup {Len(stream)}) + 4

\* What the handler is given is the request.  When every header line is a name,
\* one colon and a value, it sees each name with the value of its first line,
\* the last line included, which only on_message_complete saves.  The body is
\* the stream behind the empty line, without gap or repetition and never more
\* than Content-Length.  The request is complete at most once; it is complete
\* with the whole body, or with exactly half of it.
RequestExact ==
  /\ completed > 0 /\ (\A i \in HeaderEnds : IsPair(LineAt(i))) =>
       /\ DOMAIN client.headers = {Name(LineAt(i)) : i \in HeaderEnds}
       /\ \A i \in HeaderEnds :
            (\A j \in HeaderEnds : j < i => Name(LineAt(j)) # Name(LineAt(i))) =>
              client.headers[Name(LineAt(i))] = Value(LineAt(i))
  /\ client.body = SubSeq(stream, BodyStart, BodyStart + body_read - 1)
  /\ body_read <= content_length
  /\ completed <= 1
  /\ completed > 0 => body_read = content_length \/ 2 * body_read = content_length

\* Where the parser dies: at the first line behind the request line, if that
\* has no colon (its value is appended to a null string builder), or in a body
\* of which more bytes are declared or have arrived than an int can count.
CrashExplained ==
  \/ /\ state = "header"
     /\ \E i \in HeaderEnds : Colons(LineAt(i)) = {} /\ \A j \in HeaderEnds : i <= j
  \/ /\ state = "body"
     /\ content_length - body_read > IntMax \/ Len(buf) - last_pos > IntMax

\* All that was received of the body is taken, and some of it is missing.
BodyMissing == state = "body" /\ last_pos = Len(buf) /\ body_read < content_length

\* RST_requestparser_execute comes back to the select loop (or dies) unless it
\* waits, in its loop, for the rest of a body or was called after the end of
\* the message: the headers never keep it, nor a body that is there, nor one
\* of length zero.
ReturnsUnlessStarved == pc = "exec" /\ state # "finished" ~> pc # "exec" \/ BodyMissing
=============================================================================
