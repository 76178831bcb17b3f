--------------------------- MODULE MultipartParser ---------------------------
(***************************************************************************)
(* multipart_parser_execute (multipart_parser.c) fed with a multipart body *)
(* that is cut into chunks anywhere, and the callbacks it makes.  One      *)
(* action per state of its switch; a step handles one byte.  A callback    *)
(* that fails, and a byte that does not belong where it is, end the parse: *)
(* execute returns how far it came, which is less than it was given.       *)
(***************************************************************************)
EXTENDS Integers, Sequences, FiniteSets

CONSTANTS
  Inputs,     \* bodies a peer may send, with what is known of their meaning
  Letters     \* the bytes tolower() takes to a .. z

DataCallbacks == {"header_field", "header_value", "part_data"}

\* What may come behind a callback.  (A name without a colon is dropped, but
\* when a chunk ends in it, it is handed over.)
Follow(cb) ==
  CASE cb = "part_data_begin" -> {"header_field", "headers_complete"}
    [] cb = "header_field" -> {"header_value", "headers_complete"}
    [] cb = "header_value" -> {"header_field", "headers_complete"}
    [] cb = "headers_complete" -> {"part_data"}
    [] cb = "part_data" -> {"part_data_end"}
    [] cb = "part_data_end" -> {"part_data_begin", "body_end"}
    [] cb = "body_end" -> {}

-----------------------------------------------------------------------------
(***************************************************************************)
(* What a well formed body means, whoever wrote it: calls is what its      *)
(* reader deserves, spans where in the body the data of each of them lies; *)
(* the bytes in between are boundaries, colons, blanks and line ends.      *)
(***************************************************************************)
CRLF == <<"CR", "LF">>
Reads(in, n, s) == n + Len(s) <= Len(in.bytes) /\ \A j \in 1 .. Len(s) : in.bytes[n + j] = s[j]

Cb(in, k) == in.calls[k].cb
Lo(in, k) == in.spans[k].from
Hi(in, k) == in.spans[k].to

\* Where what belongs to the first k callbacks ends: a name with its colon, a
\* value with its line.
Behind(in, k) ==
  CASE k = 0 -> 0
    [] k > 0 /\ Cb(in, k) = "header_field" -> Hi(in, k) + 1
    [] k > 0 /\ Cb(in, k) = "header_value" -> Hi(in, k) + 2
    [] OTHER -> Hi(in, k)

\* What stands before the data of the k-th callback.
Lead(in, k) ==
  CASE Cb(in, k) = "part_data_begin" -> IF k = 1 THEN in.boundary \o CRLF ELSE CRLF
    [] Cb(in, k) = "headers_complete" -> CRLF
    [] Cb(in, k) = "part_data_end" -> CRLF \o in.boundary
    [] Cb(in, k) = "body_end" -> <<"-", "-">>
    [] OTHER -> << >>

NameAt(in, k) ==
  /\ \A j \in Lo(in, k) + 1 .. Hi(in, k) : in.bytes[j] \in Letters \cup {"-"}
  /\ Reads(in, Hi(in, k), <<":">>)
  /\ Cb(in, k + 1) = "header_value"

ValueAt(in, k) ==
  /\ \A j \in Behind(in, k - 1) + 1 .. Lo(in, k) : in.bytes[j] = " "
  /\ \A j \in Lo(in, k) + 1 .. Hi(in, k) : in.bytes[j] # "CR"
  /\ in.bytes[Lo(in, k) + 1] # " "
  /\ Reads(in, Hi(in, k), CRLF)

\* No boundary begins in the data of a part.
PartDataAt(in, k) == \A j \in Lo(in, k) .. Hi(in, k) - 1 : ~Reads(in, j, CRLF \o in.boundary)

WellFormed(in) ==
  LET n == Len(in.calls)
  IN  /\ \A j \in 1 .. Len(in.boundary) : in.boundary[j] # "CR"
      /\ n > 0 /\ Cb(in, 1) = "part_data_begin" /\ Cb(in, n) = "body_end"
      /\ \A k \in 1 .. n - 1 : Cb(in, k + 1) \in Follow(Cb(in, k))
      /\ \A k \in 1 .. n :
           /\ Behind(in, k - 1) <= Lo(in, k) /\ Lo(in, k) <= Hi(in, k) /\ Hi(in, k) <= Len(in.bytes)
           /\ in.calls[k].data = SubSeq(in.bytes, Lo(in, k) + 1, Hi(in, k))
           /\ Cb(in, k) \notin DataCallbacks => Lo(in, k) = Hi(in, k)
           /\ Cb(in, k) # "header_value" =>
                Reads(in, Behind(in, k - 1), Lead(in, k)) /\ Lo(in, k) = Behind(in, k - 1) + Len(Lead(in, k))
           /\ Cb(in, k) = "header_field" => NameAt(in, k)
           /\ Cb(in, k) = "header_value" => ValueAt(in, k)
           /\ Cb(in, k) = "part_data" => PartDataAt(in, k)

\* Behind the hyphens of names, and behind the CR of the line of a value.
Fragile(in) ==
  UNION {IF Cb(in, k) = "header_field" THEN {j \in Lo(in, k) + 1 .. Hi(in, k) : in.bytes[j] = "-"}
         ELSE IF Cb(in, k) = "header_value" THEN {Hi(in, k) + 1} ELSE {} : k \in 1 .. Len(in.calls)}

ASSUME MultipartAssumption ==
  /\ Letters \cap {"CR", "LF", "-", ":", " "} = {}
  /\ \A in \in Inputs : /\ in.boundary \in Seq(STRING) \ {<< >>}
                        /\ in.bytes \in Seq(STRING)
                        /\ in.faults \in Nat /\ in.known \in BOOLEAN

\* What is said of a body that is known to be well formed is true.
ASSUME KnownAssumption ==
  \A in \in Inputs : in.known =>
    /\ in.calls \in Seq([cb : STRING, data : Seq(STRING)])
    /\ in.spans \in Seq([from : Nat, to : Nat]) /\ Len(in.spans) = Len(in.calls)
    /\ WellFormed(in)
    /\ in.fragile = Fragile(in)
-----------------------------------------------------------------------------

VARIABLES
  input,      \* the boundary and the body; bounds on cuts and on failing callbacks;
              \* if known, the callbacks deserved, where their data lies in the
              \* body, and the fragile positions
  parser,     \* state, index and lookbehind of struct multipart_parser
  pc,         \* "idle", in the "loop" of multipart_parser_execute, "stopped"
  i, lim,     \* bytes consumed, and the end of the chunk, from the start of the body
  mark,       \* start of the data of the next callback
  ends,       \* where chunks ended so far
  faults,     \* failed callbacks so far
  calls       \* the callbacks so far; pieces of one string put together

vars == <<input, parser, pc, i, lim, mark, ends, faults, calls>>

States == {"s_start", "s_start_boundary", "s_header_field_start", "s_header_field",
           "s_headers_almost_done", "s_header_value_start", "s_header_value",
           "s_header_value_almost_done", "s_part_data_start", "s_part_data",
           "s_part_data_almost_boundary", "s_part_data_boundary", "s_part_data_almost_end",
           "s_part_data_end", "s_part_data_final_hyphen", "s_end"}

multipart_parser_init == [state |-> "s_start", index |-> 0, lookbehind |-> << >>]

Init ==
  /\ input \in Inputs
  /\ parser = multipart_parser_init
  /\ pc = "idle" /\ i = 0 /\ lim = 0 /\ mark = 0
  /\ ends = {} /\ faults = 0 /\ calls = << >>

-----------------------------------------------------------------------------
c == input.bytes[i + 1]
is_last == i = lim - 1
boundary_length == Len(input.boundary)

At(S) == pc = "loop" /\ i < lim /\ parser.state \in S

\* The loop goes on at position n, or execute returns short.
Continue(r, n, mk) ==
  /\ parser' = r /\ i' = n /\ mark' = mk
  /\ UNCHANGED <<input, pc, lim, ends>>

Stop(r) ==
  /\ parser' = r /\ pc' = "stopped"
  /\ UNCHANGED <<input, i, lim, mark, ends>>

Quiet == UNCHANGED <<faults, calls>>
Reject == Stop(parser) /\ Quiet
Step(r) == Continue(r, i + 1, mark) /\ Quiet
Goto(s) == Step([parser EXCEPT !.state = s])

Recorded(cb, data) ==
  LET n == Len(calls)
  IN  IF n > 0 /\ cb \in DataCallbacks /\ calls[n].cb = cb
        THEN [calls EXCEPT ![n].data = @ \o data]
        ELSE Append(calls, [cb |-> cb, data |-> data])

\* A callback is made: the loop goes on as then says, or the callback fails
\* and execute returns with parser r.
Fails(cb, data, r) ==
  /\ faults < input.faults /\ faults' = faults + 1
  /\ calls' = Recorded(cb, data) /\ Stop(r)

Callback(cb, data, then, r) ==
  \/ calls' = Recorded(cb, data) /\ then /\ UNCHANGED faults
  \/ Fails(cb, data, r)

\* EMIT_DATA_CB and NOTIFY_CB before the state changes.
Emit(cb, data, then) == Callback(cb, data, then, parser)
Notify(cb, then) == Callback(cb, << >>, then, parser)

From(mk, n) == SubSeq(input.bytes, mk + 1, n)

-----------------------------------------------------------------------------
ExecuteKeepsMark(n) ==   \* mutant: mark is left where it was
  /\ pc = "idle"
  /\ i + n <= Len(input.bytes)
  /\ i + n < Len(input.bytes) => Cardinality(ends) < input.cuts
  /\ ends' = ends \cup {i + n}
  /\ pc' = "loop" /\ lim' = i + n
  /\ UNCHANGED <<input, parser, i, mark, faults, calls>>

\* A chunk of n bytes; mark starts at its first byte.
Execute(n) ==
  /\ pc = "idle"
  /\ i + n <= Len(input.bytes)
  /\ i + n < Len(input.bytes) => Cardinality(ends) < input.cuts
  /\ ends' = ends \cup {i + n}
  /\ pc' = "loop" /\ lim' = i + n /\ mark' = i
  /\ UNCHANGED <<input, parser, i, faults, calls>>

EndOfChunk ==
  /\ pc = "loop" /\ i = lim
  /\ pc' = "idle"
  /\ UNCHANGED <<input, parser, i, lim, mark, ends, faults, calls>>

\* The boundary line before the first part.
StartBoundary ==
  /\ At({"s_start", "s_start_boundary"})
  /\ LET n == IF parser.state = "s_start" THEN 0 ELSE parser.index
         next == [parser EXCEPT !.state = "s_start_boundary", !.index = n + 1]
         done == [next EXCEPT !.index = 0]
     IN  \/ n < boundary_length /\ c = input.boundary[n + 1] /\ Step(next)
         \/ n = boundary_length /\ c = "CR" /\ Step(next)
         \/ /\ n = boundary_length + 1 /\ c = "LF"
            /\ Callback("part_data_begin", << >>,
                        Continue([done EXCEPT !.state = "s_header_field_start"], i + 1, mark), done)
         \/ /\ c # (input.boundary \o <<"CR", "LF">>)[n + 1]
            /\ Stop([next EXCEPT !.index = n]) /\ Quiet

\* A name.  In s_header_field_start it begins here.
HeaderField ==
  /\ At({"s_header_field_start", "s_header_field"})
  /\ LET mk == IF parser.state = "s_header_field_start" THEN i ELSE mark
         in == [parser EXCEPT !.state = "s_header_field"]
         To(s) == Continue([parser EXCEPT !.state = s], i + 1, mk)
     IN  \/ c = "CR" /\ To("s_headers_almost_done") /\ Quiet
         \/ c = ":" /\ Callback("header_field", From(mk, i), To("s_header_value_start"), in)
         \/ (c = "-" \/ (c \in Letters /\ ~is_last)) /\ To("s_header_field") /\ Quiet
         \/ /\ c \in Letters /\ is_last
            /\ Callback("header_field", From(mk, i + 1), To("s_header_field"), in)
         \/ c \notin Letters \cup {"CR", "-", ":"} /\ Stop(in) /\ Quiet

\* The states in which one byte is right.
Expect == [s_headers_almost_done |-> [byte |-> "LF", next |-> "s_part_data_start"],
           s_header_value_almost_done |-> [byte |-> "LF", next |-> "s_header_field_start"]]

OneByte ==
  /\ At(DOMAIN Expect)
  /\ IF c = Expect[parser.state].byte THEN Goto(Expect[parser.state].next) ELSE Reject

HeaderValueBlank == At({"s_header_value_start"}) /\ c = " " /\ Step(parser)

\* A value.  Its last byte, when the chunk ends with it, is handed over at
\* once: also when it is the CR behind the value, which was handed over in
\* the line before.
HeaderValue ==
  /\ At({"s_header_value_start", "s_header_value"})
  /\ parser.state = "s_header_value_start" => c # " "
  /\ LET mk == IF parser.state = "s_header_value_start" THEN i ELSE mark
         in == [parser EXCEPT !.state = "s_header_value"]
         done == [parser EXCEPT !.state = "s_header_value_almost_done"]
     IN  \/ /\ c = "CR" /\ ~is_last
            /\ Callback("header_value", From(mk, i), Continue(done, i + 1, mk), in)
         \/ /\ c = "CR" /\ is_last
            /\ \/ Fails("header_value", From(mk, i), in)
               \/ Callback("header_value", From(mk, i) \o From(mk, i + 1), Continue(done, i + 1, mk), done)
         \/ c # "CR" /\ ~is_last /\ Continue(in, i + 1, mk) /\ Quiet
         \/ /\ c # "CR" /\ is_last
            /\ Callback("header_value", From(mk, i + 1), Continue(in, i + 1, mk), in)

-----------------------------------------------------------------------------
(***************************************************************************)
(* Part data.  A CR LF and as much of the boundary as has matched are kept *)
(* in lookbehind, and handed over when they turn out to be data.           *)
(***************************************************************************)
PartDataStartSilent ==   \* mutant: headers_complete is not called
  /\ At({"s_part_data_start"})
  /\ Continue([parser EXCEPT !.state = "s_part_data"], i, i)
  /\ Quiet

PartDataStart ==
  /\ At({"s_part_data_start"})
  /\ Notify("headers_complete", Continue([parser EXCEPT !.state = "s_part_data"], i, i))

PartData ==
  /\ At({"s_part_data"})
  /\ \/ /\ c = "CR"
        /\ Emit("part_data", From(mark, i),
                Continue([parser EXCEPT !.state = "s_part_data_almost_boundary", !.lookbehind = <<"CR">>],
                         i + 1, i))
     \/ c # "CR" /\ ~is_last /\ Step(parser)
     \/ c # "CR" /\ is_last /\ Emit("part_data", From(mark, i + 1), Continue(parser, i + 1, mark))

MismatchShort(n) ==   \* mutant: the CR LF before the boundary is not counted
  Emit("part_data", SubSeq(parser.lookbehind, 1, parser.index),
       Continue([parser EXCEPT !.state = "s_part_data"], i, i))

MismatchSkips(n) ==   \* mutant: the byte is not looked at again
  Emit("part_data", Append(SubSeq(parser.lookbehind, 1, n), c),
       Continue([parser EXCEPT !.state = "s_part_data"], i + 1, i + 1))

\* The byte is looked at again as data.
Mismatch(n) ==
  Emit("part_data", SubSeq(parser.lookbehind, 1, n), Continue([parser EXCEPT !.state = "s_part_data"], i, i))

AlmostBoundaryTwoCr ==   \* mutant: lookbehind gets the wrong byte
  /\ At({"s_part_data_almost_boundary"})
  /\ IF c = "LF" THEN Step([parser EXCEPT !.state = "s_part_data_boundary", !.index = 0,
                                          !.lookbehind = <<"CR", "CR">>])
     ELSE Mismatch(1)

AlmostBoundary ==
  /\ At({"s_part_data_almost_boundary"})
  /\ IF c = "LF" THEN Step([parser EXCEPT !.state = "s_part_data_boundary", !.index = 0,
                                          !.lookbehind = <<"CR", "LF">>])
     ELSE Mismatch(1)

DataBoundary ==
  /\ At({"s_part_data_boundary"})
  /\ LET r == [parser EXCEPT !.index = @ + 1, !.lookbehind = Append(SubSeq(@, 1, 2 + parser.index), c)]
     IN  \/ c # input.boundary[parser.index + 1] /\ Mismatch(2 + parser.index)
         \/ c = input.boundary[parser.index + 1] /\ r.index < boundary_length /\ Step(r)
         \/ /\ c = input.boundary[parser.index + 1] /\ r.index = boundary_length
            /\ Callback("part_data_end", << >>,
                        Continue([r EXCEPT !.state = "s_part_data_almost_end"], i + 1, mark), r)

AlmostEnd ==
  /\ At({"s_part_data_almost_end"})
  /\ \/ c = "-" /\ Goto("s_part_data_final_hyphen")
     \/ c = "CR" /\ Goto("s_part_data_end")
     \/ c \notin {"-", "CR"} /\ Reject

FinalHyphen ==
  /\ At({"s_part_data_final_hyphen"})
  /\ IF c = "-" THEN Notify("body_end", Continue([parser EXCEPT !.state = "s_end"], i + 1, mark))
     ELSE Reject

PartDataEnd ==
  /\ At({"s_part_data_end"})
  /\ LET r == [parser EXCEPT !.state = "s_header_field_start"]
     IN  IF c = "LF" THEN Callback("part_data_begin", << >>, Continue(r, i + 1, mark), r) ELSE Reject

\* What follows the last boundary is skipped.
End == At({"s_end"}) /\ Step(parser)

Loop ==
  \/ EndOfChunk \/ StartBoundary \/ HeaderField \/ OneByte \/ HeaderValueBlank \/ HeaderValue
  \/ PartDataStart \/ PartData \/ AlmostBoundary \/ DataBoundary
  \/ AlmostEnd \/ FinalHyphen \/ PartDataEnd \/ End

Next == Loop \/ \E n \in 1 .. Len(input.bytes) : Execute(n)

Spec == Init /\ [][Next]_vars

-----------------------------------------------------------------------------
(***************************************************************************)
(* Properties.                                                             *)
(***************************************************************************)
TypeOK ==
  /\ pc \in {"idle", "loop", "stopped"}
  /\ i \in 0 .. lim /\ lim \in 0 .. Len(input.bytes) /\ mark \in 0 .. i
  /\ ends \subseteq 1 .. lim /\ faults \in 0 .. input.faults
  /\ parser.state \in States
  /\ parser.index \in 0 .. boundary_length + 1
  /\ parser.state = "s_part_data_boundary" => parser.index < boundary_length \/ faults > 0
  /\ \A k \in DOMAIN calls : calls[k].cb \in DataCallbacks \cup
       {"part_data_begin", "headers_complete", "part_data_end", "body_end"}

\* While a boundary may be matching, lookbehind holds the bytes that were taken
\* and not handed over, whatever chunks they came in, and it never holds more
\* than the boundary_length + 9 bytes it has; index stays within the boundary.
LookbehindFaithful ==
  /\ TypeOK
  /\ Len(parser.lookbehind) <= boundary_length + 9
  /\ pc # "stopped" /\ parser.state = "s_part_data_almost_boundary" =>
       parser.lookbehind = From(i - 1, i)
  /\ pc # "stopped" /\ parser.state = "s_part_data_boundary" =>
       SubSeq(parser.lookbehind, 1, 2 + parser.index) = From(i - 2 - parser.index, i)

IsPrefixOf(s, t) == Len(s) <= Len(t) /\ s = SubSeq(t, 1, Len(s))

\* Wherever a body is cut into chunks, its parts come out in order, each with
\* the callbacks of a part, and the data of each part is complete and exact:
\* line ends and beginnings of the boundary inside the data included.
PartsExact ==
  input.known =>
    /\ Len(calls) <= Len(input.calls)
    /\ \A k \in DOMAIN calls :
         /\ calls[k].cb = input.calls[k].cb
         /\ calls[k].cb = "part_data" =>
              /\ IsPrefixOf(calls[k].data, input.calls[k].data)
              /\ k < Len(calls) => calls[k].data = input.calls[k].data

\* Names and values of a part's headers are exact too, unless a chunk ended
\* behind a hyphen of a name, which loses what the chunk had of the name, or
\* behind the CR of a value, which hands the value over a second time.
HeadersExact ==
  input.known /\ ends \cap input.fragile = {} =>
    \A k \in DOMAIN calls :
      /\ IsPrefixOf(calls[k].data, input.calls[k].data)
      /\ k < Len(calls) => calls[k].data = input.calls[k].data

\* A well formed body is parsed to its end whatever the cuts: nothing in it is
\* rejected, no boundary is missed, and body_end is called.
ParsedToTheEnd ==
  input.known =>
    /\ pc = "stopped" => faults > 0
    /\ pc = "idle" /\ i = Len(input.bytes) =>
         parser.state = "s_end" /\ Len(calls) = Len(input.calls)

\* For every body, whatever is wrong with it: a part is begun, its headers
\* complete, its data and its end in this order, no part inside another, and
\* nothing after body_end.
CallbackOrder ==
  /\ calls # << >> => calls[1].cb = "part_data_begin"
  /\ \A k \in 1 .. Len(calls) - 1 : calls[k + 1].cb \in Follow(calls[k].cb)
=============================================================================
