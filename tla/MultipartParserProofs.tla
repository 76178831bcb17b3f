----------------------- MODULE MultipartParserProofs -----------------------
(***************************************************************************)
(* multipart_parser_execute for every boundary, every body, well formed or *)
(* not, and every way to cut it into chunks: what lookbehind holds, and    *)
(* the order of the callbacks; and for every well formed body, that its    *)
(* parts come out complete and exact.                                      *)
(***************************************************************************)
EXTENDS MultipartParser, SequenceTheorems, TLAPS

\* Bytes are strings in this model; the provers have to be told of these two.
Byte == STRING \cup {"CR", "LF"}

Callbacks == DataCallbacks \cup {"part_data_begin", "headers_complete", "part_data_end", "body_end"}
Call == [cb : Callbacks, data : Seq(Byte)]

-----------------------------------------------------------------------------
(***************************************************************************)
(* The order of callbacks                                                  *)
(***************************************************************************)
Ordered(cs) ==
  /\ cs \in Seq(Call)
  /\ cs # << >> => cs[1].cb = "part_data_begin"
  /\ \A k \in 1 .. Len(cs) - 1 : cs[k + 1].cb \in Follow(cs[k].cb)

Last(cs) == IF cs = << >> THEN "none" ELSE cs[Len(cs)].cb

\* cb may be made after the callbacks cs: it is the next one, or one more piece
\* of the same string.
MayFollow(cb, last) ==
  \/ last = "none" /\ cb = "part_data_begin"
  \/ last = cb /\ cb \in DataCallbacks
  \/ last \in Callbacks /\ cb \in Follow(last)

LEMMA RecordedOrdered ==
  ASSUME Ordered(calls), NEW cb \in Callbacks, NEW data \in Seq(Byte), MayFollow(cb, Last(calls))
  PROVE  Ordered(Recorded(cb, data)) /\ Last(Recorded(cb, data)) = cb
<1> DEFINE n == Len(calls)
<1> DEFINE e == [cb |-> cb, data |-> data]
<1>a. e \in Call /\ "none" \notin Callbacks
  BY DEF Call, Callbacks, DataCallbacks
<1>b. n \in Nat /\ calls \in Seq(Call) /\ \A k \in 1 .. n : calls[k] \in Call
  BY DEF Ordered
<1>0. n \in Nat /\ calls \in Seq(Call) /\ e \in Call /\ "none" \notin Callbacks
      /\ \A k \in 1 .. n : calls[k] \in Call
  BY <1>a, <1>b
<1>1. CASE n > 0 /\ cb \in DataCallbacks /\ calls[n].cb = cb
  <2> DEFINE new == [calls EXCEPT ![n].data = @ \o data]
  <2>1. Recorded(cb, data) = new
    BY <1>1 DEF Recorded
  <2>2. calls[n] \in Call /\ calls[n].data \o data \in Seq(Byte)
    BY <1>0, <1>1 DEF Call
  <2>3. [calls[n] EXCEPT !.data = @ \o data] \in Call
    BY <2>2 DEF Call
  <2>4. new \in Seq(Call) /\ Len(new) = n /\ new # << >>
    BY <1>0, <1>1, <2>3
  <2>5. \A k \in 1 .. n : new[k].cb = calls[k].cb
    BY <1>0, <1>1, <2>2 DEF Call
  <2> HIDE DEF new
  <2> QED BY <1>0, <1>1, <2>1, <2>4, <2>5 DEF Ordered, Last
<1>2. CASE ~(n > 0 /\ cb \in DataCallbacks /\ calls[n].cb = cb)
  <2> DEFINE new == Append(calls, e)
  <2>1. Recorded(cb, data) = new
    BY <1>2 DEF Recorded
  <2>2. /\ new \in Seq(Call) /\ Len(new) = n + 1 /\ new # << >>
        /\ \A k \in 1 .. n : new[k] = calls[k]
        /\ new[n + 1] = e
    <3> HIDE DEF e
    <3>1. new \in Seq(Call) /\ Len(new) = n + 1
      BY <1>a, <1>b
    <3>2. new # << >>
      <4>1. Len(new) # 0
        BY <1>b, <3>1
      <4> HIDE DEF new
      <4> QED BY <4>1
    <3>3. \A k \in 1 .. n : new[k] = calls[k]
      BY <1>a, <1>b
    <3>4. new[n + 1] = e
      BY <1>a, <1>b
    <3> QED BY <3>1, <3>2, <3>3, <3>4
  <2> HIDE DEF new
  <2>3. e.cb = cb
    OBVIOUS
  <2> HIDE DEF e
  <2>4. CASE calls = << >>
    <3>1. n = 0 /\ cb = "part_data_begin"
      BY <1>0, <2>4 DEF MayFollow, Last, Callbacks, DataCallbacks
    <3> QED BY <2>1, <2>2, <2>3, <3>1 DEF Ordered, Last
  <2>5. CASE calls # << >>
    <3>1. n > 0 /\ Last(calls) = calls[n].cb
      BY <1>0, <2>5 DEF Last
    <3>2. calls[n].cb \in Callbacks
      <4>1. calls[n] \in Call
        BY <1>b, <3>1
      <4> QED BY <4>1 DEF Call
    <3>3. cb \in Follow(calls[n].cb)
      BY <1>0, <1>2, <3>1, <3>2 DEF MayFollow
    <3>4. \A k \in 1 .. n : new[k + 1].cb \in Follow(new[k].cb)
      <4> SUFFICES ASSUME NEW k \in 1 .. n PROVE new[k + 1].cb \in Follow(new[k].cb)
        OBVIOUS
      <4>1. CASE k = n
        BY <1>0, <2>2, <2>3, <3>1, <3>3, <4>1
      <4>2. CASE k # n
        <5>1. k \in 1 .. n - 1 /\ k + 1 \in 1 .. n
          BY <1>0, <4>2
        <5> QED BY <2>2, <5>1 DEF Ordered
      <4> QED BY <4>1, <4>2
    <3>5. new[1].cb = "part_data_begin"
      BY <1>0, <2>2, <2>5, <3>1 DEF Ordered
    <3> QED BY <1>0, <2>1, <2>2, <2>3, <3>4, <3>5 DEF Ordered, Last
  <2> QED BY <2>4, <2>5
<1> QED BY <1>1, <1>2

-----------------------------------------------------------------------------
(***************************************************************************)
(* The inductive invariant                                                 *)
(***************************************************************************)
Parsers == [state : States, index : 0 .. boundary_length + 1, lookbehind : Seq(Byte)]

Types ==
  /\ input \in Inputs
  /\ parser \in Parsers
  /\ pc \in {"idle", "loop", "stopped"}
  /\ i \in Nat /\ lim \in Nat /\ mark \in Nat
  /\ mark <= i /\ i <= lim /\ lim <= Len(input.bytes)
  /\ pc = "idle" => i = lim
  /\ ends \subseteq 1 .. lim /\ faults \in 0 .. input.faults

\* lookbehind is the input from the CR on; in a parse that goes on, index has
\* not reached the end of the boundary.
Lookbehind ==
  /\ Len(parser.lookbehind) <= boundary_length + 2
  /\ pc # "stopped" /\ parser.state = "s_part_data_almost_boundary" =>
       i >= 1 /\ parser.lookbehind = <<"CR">> /\ input.bytes[i] = "CR"
  /\ pc # "stopped" /\ parser.state = "s_part_data_boundary" =>
       /\ parser.index < boundary_length /\ 2 + parser.index <= i
       /\ Len(parser.lookbehind) = 2 + parser.index
       /\ \A k \in 1 .. 2 + parser.index :
            parser.lookbehind[k] = input.bytes[i - 2 - parser.index + k]
  /\ parser.state = "s_part_data_boundary" => parser.index < boundary_length \/ faults > 0

\* The last callback made when the parser is in state s.
InHeaders == {"part_data_begin", "header_field", "header_value"}
LastIn(s) ==
  CASE s \in {"s_start", "s_start_boundary"} -> {"none"}
    [] s = "s_header_field_start" -> {"part_data_begin", "header_value"}
    [] s \in {"s_header_field", "s_headers_almost_done", "s_part_data_start"} -> InHeaders
    [] s = "s_header_value_start" -> {"header_field"}
    [] s = "s_header_value" -> {"header_field", "header_value"}
    [] s = "s_header_value_almost_done" -> {"header_value"}
    [] s = "s_part_data" -> {"headers_complete", "part_data"}
    [] s \in {"s_part_data_almost_boundary", "s_part_data_boundary"} -> {"part_data"}
    [] s \in {"s_part_data_almost_end", "s_part_data_final_hyphen", "s_part_data_end"} -> {"part_data_end"}
    [] s = "s_end" -> {"body_end"}

Order == Ordered(calls) /\ (pc # "stopped" => Last(calls) \in LastIn(parser.state))

IInv == Types /\ Lookbehind /\ Order

-----------------------------------------------------------------------------
(***************************************************************************)
(* Every step preserves it                                                 *)
(***************************************************************************)
LEMMA InputTyped ==
  ASSUME NEW in \in Inputs
  PROVE  in.boundary \in Seq(Byte) \ {<< >>} /\ in.bytes \in Seq(Byte) /\ in.faults \in Nat
<1>1. in.boundary \in Seq(STRING) \ {<< >>} /\ in.bytes \in Seq(STRING) /\ in.faults \in Nat
  BY MultipartAssumption
<1>2. ASSUME NEW q \in Seq(STRING) PROVE q \in Seq(Byte)
  BY DEF Byte
<1> QED BY <1>1, <1>2

LEMMA Basics ==
  ASSUME Types
  PROVE  /\ boundary_length \in Nat \ {0} /\ input.boundary \in Seq(Byte)
         /\ Len(input.bytes) \in Nat /\ input.bytes \in Seq(Byte) /\ input.faults \in Nat
         /\ parser.state \in States /\ parser.index \in 0 .. boundary_length + 1
         /\ parser.lookbehind \in Seq(Byte) /\ Len(parser.lookbehind) \in Nat
         /\ faults \in Nat
<1>1. input.boundary \in Seq(Byte) \ {<< >>} /\ input.bytes \in Seq(Byte) /\ input.faults \in Nat
  BY InputTyped DEF Types
<1>2. boundary_length \in Nat \ {0}
  BY <1>1 DEF boundary_length
<1> QED BY <1>1, <1>2 DEF Types, Parsers

LEMMA InitEstablishes == Init => IInv
<1> SUFFICES ASSUME Init PROVE IInv
  OBVIOUS
<1>1. /\ input.boundary \in Seq(Byte) \ {<< >>} /\ input.bytes \in Seq(Byte) /\ input.faults \in Nat
      /\ boundary_length \in Nat /\ Len(input.bytes) \in Nat
  <2>1. input.boundary \in Seq(Byte) \ {<< >>} /\ input.bytes \in Seq(Byte) /\ input.faults \in Nat
    BY InputTyped DEF Init
  <2> QED BY <2>1 DEF boundary_length
<1>2. parser \in Parsers
  BY <1>1 DEF Init, multipart_parser_init, Parsers, States
<1>3. Types
  BY <1>1, <1>2 DEF Init, Types
<1>4. Lookbehind
  BY <1>1 DEF Init, Lookbehind, multipart_parser_init
<1>5. Order
  BY DEF Init, Order, Ordered, Last, LastIn, multipart_parser_init
<1> QED BY <1>3, <1>4, <1>5 DEF IInv

Running == pc = "loop" /\ i < lim

\* The loop goes on.
LEMMA Going ==
  ASSUME IInv, Running, UNCHANGED <<input, pc, lim, ends, faults>>,
         parser' \in Parsers, i' \in {i, i + 1}, mark' \in {mark, i},
         Lookbehind', Ordered(calls'), Last(calls') \in LastIn(parser'.state)
  PROVE  IInv'
<1>1. Parsers' = Parsers
  BY DEF Parsers, boundary_length
<1>2. Types'
  BY <1>1 DEF IInv, Types, Running
<1> QED BY <1>2 DEF IInv, Order

\* Execute returns short.
LEMMA Stopping ==
  ASSUME IInv, UNCHANGED <<input, i, mark, lim, ends>>, pc' = "stopped",
         parser' \in Parsers, faults' \in 0 .. input.faults,
         Len(parser'.lookbehind) <= boundary_length + 2,
         parser'.state = "s_part_data_boundary" => parser'.index < boundary_length \/ faults' > 0,
         Ordered(calls')
  PROVE  IInv'
<1>1. Parsers' = Parsers /\ boundary_length' = boundary_length
  BY DEF Parsers, boundary_length
<1>2. Types'
  BY <1>1 DEF IInv, Types
<1>3. Lookbehind'
  BY <1>1 DEF Lookbehind
<1> QED BY <1>2, <1>3 DEF IInv, Order

\* A callback that may follow is made and the parse goes on, or ends.
LEMMA Calling ==
  ASSUME IInv, Running, UNCHANGED <<input, lim, ends>>,
         NEW cb \in Callbacks, NEW data \in Seq(Byte), MayFollow(cb, Last(calls)),
         calls' = Recorded(cb, data), parser' \in Parsers,
         \/ /\ UNCHANGED <<pc, faults>>
            /\ i' \in {i, i + 1} /\ mark' \in {mark, i} /\ Lookbehind'
            /\ cb \in LastIn(parser'.state)
         \/ /\ pc' = "stopped" /\ UNCHANGED <<i, mark>>
            /\ faults < input.faults /\ faults' = faults + 1
            /\ Len(parser'.lookbehind) <= boundary_length + 2
  PROVE  IInv'
<1>1. Ordered(calls') /\ Last(calls') = cb
  BY RecordedOrdered DEF IInv, Order
<1>2. CASE UNCHANGED <<pc, faults>> /\ i' \in {i, i + 1} /\ mark' \in {mark, i} /\ Lookbehind'
           /\ cb \in LastIn(parser'.state)
  BY <1>1, <1>2, Going
<1>3. CASE pc' = "stopped" /\ UNCHANGED <<i, mark>> /\ faults < input.faults /\ faults' = faults + 1
           /\ Len(parser'.lookbehind) <= boundary_length + 2
  <2>1. faults' \in 0 .. input.faults /\ faults' > 0
    BY SMTT(30), <1>3, Basics DEF IInv, Types
  <2> QED BY <1>1, <1>3, <2>1, Stopping
<1> QED BY <1>2, <1>3

\* A step that makes no callback and leaves lookbehind alone.
LEMMA Quietly ==
  ASSUME IInv, Running, Quiet, UNCHANGED <<input, lim, ends>>,
         parser' \in Parsers, parser'.lookbehind = parser.lookbehind,
         parser'.state \notin {"s_part_data_almost_boundary", "s_part_data_boundary"},
         \/ /\ UNCHANGED pc /\ i' \in {i, i + 1} /\ mark' \in {mark, i}
            /\ LastIn(parser.state) \subseteq LastIn(parser'.state)
         \/ pc' = "stopped" /\ UNCHANGED <<i, mark>>
  PROVE  IInv'
<1>0. /\ Ordered(calls) /\ Last(calls) \in LastIn(parser.state) /\ UNCHANGED <<faults, calls>>
      /\ Len(parser.lookbehind) <= boundary_length + 2
  BY DEF IInv, Order, Running, Quiet, Lookbehind
<1>1. CASE UNCHANGED pc /\ i' \in {i, i + 1} /\ mark' \in {mark, i}
           /\ LastIn(parser.state) \subseteq LastIn(parser'.state)
  <2>1. Lookbehind'
    BY <1>0 DEF Lookbehind, boundary_length
  <2> QED BY <1>0, <1>1, <2>1, Going
<1>2. CASE pc' = "stopped" /\ UNCHANGED <<i, mark>>
  <2>1. faults' \in 0 .. input.faults
    BY <1>0 DEF IInv, Types
  <2> QED BY <1>0, <1>2, <2>1, Stopping
<1> QED BY <1>1, <1>2

LEMMA Short == ASSUME NEW S, NEW a \in S, NEW b \in S PROVE <<a>> \in Seq(S) /\ <<a, b>> \in Seq(S)
OBVIOUS

LEMMA LineEnds == <<"CR">> \in Seq(Byte) /\ <<"CR", "LF">> \in Seq(Byte)
<1>1. "CR" \in Byte /\ "LF" \in Byte
  BY DEF Byte
<1> QED BY <1>1, Short

LEMMA ExecutePreserves ==
  ASSUME IInv, NEW n \in 1 .. Len(input.bytes), Execute(n)
  PROVE  IInv'
<1>0. /\ n \in Nat \ {0} /\ i \in Nat /\ lim = i /\ Len(input.bytes) \in Nat
      /\ pc = "idle" /\ pc' = "loop" /\ lim' = i + n /\ mark' = i /\ i + n <= Len(input.bytes)
      /\ ends' = ends \cup {i + n}
      /\ UNCHANGED <<input, parser, i, faults, calls>>
  BY Basics DEF Execute, IInv, Types
<1>1. Parsers' = Parsers
  BY <1>0 DEF Parsers, boundary_length
<1>2. Types'
  BY <1>0, <1>1 DEF IInv, Types
<1>3. Lookbehind'
  BY <1>0 DEF IInv, Lookbehind, boundary_length
<1>4. Order'
  BY <1>0 DEF IInv, Order
<1> QED BY <1>2, <1>3, <1>4 DEF IInv

LEMMA EndOfChunkPreserves ==
  ASSUME IInv, EndOfChunk
  PROVE  IInv'
<1>1. Parsers' = Parsers
  BY DEF EndOfChunk, Parsers, boundary_length
<1>2. Types'
  BY <1>1 DEF EndOfChunk, IInv, Types
<1>3. Lookbehind'
  BY DEF EndOfChunk, IInv, Lookbehind, boundary_length
<1>4. Order'
  BY DEF EndOfChunk, IInv, Order
<1> QED BY <1>2, <1>3, <1>4 DEF IInv

LEMMA ParserWith ==
  ASSUME Types, NEW s \in States, NEW m \in 0 .. boundary_length + 1, NEW l \in Seq(Byte)
  PROVE  /\ [parser EXCEPT !.state = s] \in Parsers
         /\ [parser EXCEPT !.state = s].state = s
         /\ [parser EXCEPT !.state = s].index = parser.index
         /\ [parser EXCEPT !.state = s].lookbehind = parser.lookbehind
         /\ [parser EXCEPT !.state = s, !.index = m] \in Parsers
         /\ [parser EXCEPT !.state = s, !.index = m].state = s
         /\ [parser EXCEPT !.state = s, !.index = m].lookbehind = parser.lookbehind
         /\ [parser EXCEPT !.index = m, !.lookbehind = l] \in Parsers
BY DEF Types, Parsers

LEMMA RunningAt == ASSUME NEW S, At(S) PROVE Running /\ parser.state \in S
BY DEF At, Running

LEMMA LastInTable ==
  /\ LastIn("s_start") = {"none"} /\ LastIn("s_start_boundary") = {"none"}
  /\ LastIn("s_header_field_start") = {"part_data_begin", "header_value"}
  /\ LastIn("s_header_field") = InHeaders /\ LastIn("s_headers_almost_done") = InHeaders
  /\ LastIn("s_part_data_start") = InHeaders
  /\ LastIn("s_header_value_start") = {"header_field"}
  /\ LastIn("s_header_value") = {"header_field", "header_value"}
  /\ LastIn("s_header_value_almost_done") = {"header_value"}
  /\ LastIn("s_part_data") = {"headers_complete", "part_data"}
  /\ LastIn("s_part_data_almost_boundary") = {"part_data"}
  /\ LastIn("s_part_data_boundary") = {"part_data"}
  /\ LastIn("s_part_data_almost_end") = {"part_data_end"}
  /\ LastIn("s_part_data_final_hyphen") = {"part_data_end"}
  /\ LastIn("s_part_data_end") = {"part_data_end"}
  /\ LastIn("s_end") = {"body_end"}
BY DEF LastIn

LEMMA FollowTable ==
  /\ MayFollow("part_data_begin", "none")
  /\ \A last \in InHeaders : MayFollow("header_field", last) /\ MayFollow("headers_complete", last)
  /\ \A last \in {"header_field", "header_value"} : MayFollow("header_value", last)
  /\ \A last \in {"headers_complete", "part_data"} : MayFollow("part_data", last)
  /\ MayFollow("part_data_end", "part_data")
  /\ MayFollow("part_data_begin", "part_data_end") /\ MayFollow("body_end", "part_data_end")
  /\ {"header_field", "header_value", "part_data", "part_data_begin", "headers_complete",
      "part_data_end", "body_end"} = Callbacks
BY DEF MayFollow, Follow, InHeaders, Callbacks, DataCallbacks

LEMMA StartBoundaryPreserves ==
  ASSUME IInv, StartBoundary
  PROVE  IInv'
<1> DEFINE n == IF parser.state = "s_start" THEN 0 ELSE parser.index
<1> DEFINE next == [parser EXCEPT !.state = "s_start_boundary", !.index = n + 1]
<1> DEFINE done == [next EXCEPT !.index = 0]
<1>0. /\ Running /\ Types /\ boundary_length \in Nat /\ n \in 0 .. boundary_length + 1
      /\ LastIn(parser.state) = {"none"} /\ Last(calls) = "none"
      /\ Len(parser.lookbehind) <= boundary_length + 2
  BY RunningAt, Basics, LastInTable DEF StartBoundary, At, IInv, Order, Lookbehind
<1> HIDE DEF n
<1>1. CASE n <= boundary_length /\ Step(next)
  <2>1. next \in Parsers /\ next.state = "s_start_boundary" /\ next.lookbehind = parser.lookbehind
    <3>1. n + 1 \in 0 .. boundary_length + 1 /\ "s_start_boundary" \in States
      BY <1>0, <1>1 DEF States
    <3> QED BY <1>0, <3>1 DEF Types, Parsers
  <2> HIDE DEF next
  <2> QED BY <1>0, <1>1, <2>1, Quietly, LastInTable DEF Step, Continue
<1>2. CASE Callback("part_data_begin", << >>,
                    Continue([done EXCEPT !.state = "s_header_field_start"], i + 1, mark), done)
  <2> DEFINE r == [done EXCEPT !.state = "s_header_field_start"]
  <2>1. /\ done \in Parsers /\ r \in Parsers /\ r.state = "s_header_field_start"
        /\ done.lookbehind = parser.lookbehind /\ r.lookbehind = parser.lookbehind
    <3>1. /\ parser \in [state : States, index : 0 .. boundary_length + 1, lookbehind : Seq(Byte)]
          /\ "s_start_boundary" \in States /\ "s_header_field_start" \in States
          /\ 0 \in 0 .. boundary_length + 1
      BY <1>0 DEF Types, Parsers, States
    <3>2. next \in [state : States, index : Nat, lookbehind : Seq(Byte)]
          /\ next.lookbehind = parser.lookbehind
      <4>1. n + 1 \in Nat
        BY <1>0
      <4>2. parser \in [state : States, index : Nat, lookbehind : Seq(Byte)]
        BY <1>0, <3>1
      <4> QED BY <3>1, <4>1, <4>2
    <3> HIDE DEF next
    <3>3. done \in Parsers /\ done.lookbehind = parser.lookbehind
      BY <3>1, <3>2 DEF Parsers
    <3> HIDE DEF done
    <3> QED BY <3>1, <3>3 DEF Parsers
  <2> HIDE DEF done, r
  <2>2. /\ UNCHANGED <<input, lim, ends>> /\ calls' = Recorded("part_data_begin", << >>)
        /\ \/ parser' = r /\ UNCHANGED <<pc, faults, mark>> /\ i' = i + 1
           \/ /\ parser' = done /\ pc' = "stopped" /\ UNCHANGED <<i, mark>>
              /\ faults < input.faults /\ faults' = faults + 1
    BY <1>2 DEF Callback, Fails, Continue, Stop, r
  <2>3. parser' = r => Lookbehind'
    BY <1>0, <2>1, <2>2 DEF Lookbehind, boundary_length
  <2>4. << >> \in Seq(Byte) /\ "part_data_begin" \in Callbacks /\ MayFollow("part_data_begin", Last(calls))
    BY <1>0, FollowTable
  <2>5. "part_data_begin" \in LastIn(r.state)
    BY <2>1, LastInTable
  <2> QED BY <1>0, <2>1, <2>2, <2>3, <2>4, <2>5, Calling
<1>3. CASE Stop([next EXCEPT !.index = n]) /\ Quiet
  <2>1. /\ [next EXCEPT !.index = n] \in Parsers
        /\ [next EXCEPT !.index = n].state = "s_start_boundary"
        /\ [next EXCEPT !.index = n].lookbehind = parser.lookbehind
    BY <1>0 DEF Types, Parsers, States
  <2> HIDE DEF next
  <2> QED BY <1>0, <1>3, <2>1, Quietly DEF Stop
<1> QED BY <1>0, <1>1, <1>2, <1>3 DEF StartBoundary, n

\* Piece of the body that a callback is given.
LEMMA PieceTyped ==
  ASSUME Types, Running, NEW mk \in {mark, i}, NEW n \in {i, i + 1}
  PROVE  From(mk, n) \in Seq(Byte) /\ c \in Byte
<1>1. /\ input.bytes \in Seq(Byte) /\ Len(input.bytes) \in Nat /\ i \in Nat /\ mk \in Nat
      /\ mk <= i /\ i + 1 <= Len(input.bytes)
  BY Basics DEF Types, Running
<1>2. \A k \in mk + 1 .. n : input.bytes[k] \in Byte
  BY <1>1
<1> QED BY <1>1, <1>2 DEF From, c

\* The frame of an action that makes a callback.
Called(r, n, mk, r2) ==
  /\ UNCHANGED <<input, lim, ends>>
  /\ \/ parser' = r /\ i' = n /\ mark' = mk /\ UNCHANGED <<pc, faults>>
     \/ /\ parser' = r2 /\ pc' = "stopped" /\ UNCHANGED <<i, mark>>
        /\ faults < input.faults /\ faults' = faults + 1

\* Callbacks outside of part data: the parser's state changes and no more.
LEMMA CallingPlain ==
  ASSUME IInv, Running, NEW cb \in Callbacks, NEW data \in Seq(Byte), MayFollow(cb, Last(calls)),
         calls' = Recorded(cb, data),
         NEW s \in States \ {"s_part_data_almost_boundary", "s_part_data_boundary"},
         NEW r2 \in Parsers, r2.lookbehind = parser.lookbehind,
         NEW n \in {i, i + 1}, NEW mk \in {mark, i}, cb \in LastIn(s),
         Called([parser EXCEPT !.state = s], n, mk, r2)
  PROVE  IInv'
<1> DEFINE r == [parser EXCEPT !.state = s]
<1>1. r \in Parsers /\ r.state = s /\ r.lookbehind = parser.lookbehind
  BY DEF IInv, Types, Parsers
<1>2. Len(parser.lookbehind) <= boundary_length + 2
  BY DEF IInv, Lookbehind
<1>3. Called(r, n, mk, r2)
  OBVIOUS
<1> HIDE DEF r
<1>4. parser' = r => Lookbehind'
  BY <1>1, <1>2, <1>3 DEF Lookbehind, boundary_length, Called
<1> QED BY <1>1, <1>2, <1>3, <1>4, Calling DEF Called

LEMMA HeaderFieldPreserves ==
  ASSUME IInv, HeaderField
  PROVE  IInv'
<1> DEFINE mk == IF parser.state = "s_header_field_start" THEN i ELSE mark
<1> DEFINE in == [parser EXCEPT !.state = "s_header_field"]
<1> DEFINE to(x) == [parser EXCEPT !.state = x]
<1>0. /\ Running /\ Types /\ mk \in {mark, i} /\ parser.state \in {"s_header_field_start", "s_header_field"}
      /\ Last(calls) \in LastIn(parser.state) /\ LastIn(parser.state) \subseteq InHeaders
  BY RunningAt, LastInTable DEF HeaderField, At, IInv, Order, InHeaders
<1> HIDE DEF mk
<1>1. \A x \in {"s_headers_almost_done", "s_header_field", "s_header_value_start"} :
        x \in States \ {"s_part_data_almost_boundary", "s_part_data_boundary"}
        /\ to(x) \in Parsers /\ to(x).state = x /\ to(x).lookbehind = parser.lookbehind
  BY <1>0 DEF States, Types, Parsers
<1>2. ASSUME NEW x \in {"s_headers_almost_done", "s_header_field"}, Continue(to(x), i + 1, mk), Quiet
      PROVE  IInv'
  <2> HIDE DEF to
  <2>1. LastIn(x) = InHeaders
    BY LastInTable
  <2> QED BY <1>0, <1>1, <1>2, <2>1, Quietly DEF Continue
<1>3. ASSUME NEW x \in {"s_header_value_start", "s_header_field"}, NEW n \in {i, i + 1},
             Callback("header_field", From(mk, n), Continue(to(x), i + 1, mk), in)
      PROVE  IInv'
  <2>1. From(mk, n) \in Seq(Byte) /\ "header_field" \in Callbacks /\ MayFollow("header_field", Last(calls))
    BY <1>0, PieceTyped, FollowTable
  <2>2. "header_field" \in LastIn(x) /\ "s_header_field" \in States
    BY LastInTable DEF InHeaders, States
  <2>3. Called(to(x), i + 1, mk, in) /\ calls' = Recorded("header_field", From(mk, n))
    BY <1>3 DEF Callback, Continue, Fails, Stop, Called
  <2> QED BY <1>0, <1>1, <2>1, <2>2, <2>3, CallingPlain
<1>4. CASE Stop(in) /\ Quiet
  BY <1>0, <1>1, <1>4, Quietly DEF Stop
<1> QED BY <1>0, <1>2, <1>3, <1>4 DEF HeaderField, mk

LEMMA OneBytePreserves ==
  ASSUME IInv, OneByte
  PROVE  IInv'
<1>0. Running /\ Types /\ parser.state \in {"s_headers_almost_done", "s_header_value_almost_done"}
      /\ parser \in Parsers
  BY RunningAt DEF OneByte, Expect, IInv, At, Types
<1>1. CASE Reject
  BY <1>0, <1>1, Quietly DEF Reject, Stop
<1>2. CASE Goto(Expect[parser.state].next)
  <2> DEFINE x == Expect[parser.state].next
  <2>1. /\ x \in {"s_part_data_start", "s_header_field_start"}
        /\ x = "s_part_data_start" <=> parser.state = "s_headers_almost_done"
    BY <1>0 DEF Expect
  <2> HIDE DEF x
  <2>2. LastIn(parser.state) \subseteq LastIn(x)
    BY <1>0, <2>1, LastInTable
  <2>3. [parser EXCEPT !.state = x] \in Parsers /\ [parser EXCEPT !.state = x].state = x
        /\ [parser EXCEPT !.state = x].lookbehind = parser.lookbehind
    BY <1>0, <2>1 DEF Parsers, States
  <2> QED BY <1>0, <1>2, <2>1, <2>2, <2>3, Quietly DEF Goto, Step, Continue, x
<1> QED BY <1>1, <1>2 DEF OneByte

LEMMA HeaderValueBlankPreserves ==
  ASSUME IInv, HeaderValueBlank
  PROVE  IInv'
<1>0. Running /\ Types /\ parser.state = "s_header_value_start" /\ parser \in Parsers
  BY RunningAt DEF HeaderValueBlank, At, IInv, Types
<1> QED BY <1>0, Quietly DEF HeaderValueBlank, Step, Continue

LEMMA HeaderValuePreserves ==
  ASSUME IInv, HeaderValue
  PROVE  IInv'
<1> DEFINE mk == IF parser.state = "s_header_value_start" THEN i ELSE mark
<1> DEFINE to(x) == [parser EXCEPT !.state = x]
<1> DEFINE in == to("s_header_value")
<1> DEFINE done == to("s_header_value_almost_done")
<1>0. /\ Running /\ Types /\ mk \in {mark, i} /\ parser.state \in {"s_header_value_start", "s_header_value"}
      /\ Last(calls) \in {"header_field", "header_value"}
      /\ LastIn(parser.state) \subseteq LastIn("s_header_value")
  BY RunningAt, LastInTable DEF HeaderValue, At, IInv, Order
<1> HIDE DEF mk
<1>1. \A x \in {"s_header_value", "s_header_value_almost_done"} :
        x \in States \ {"s_part_data_almost_boundary", "s_part_data_boundary"}
        /\ to(x) \in Parsers /\ to(x).state = x /\ to(x).lookbehind = parser.lookbehind
        /\ "header_value" \in LastIn(x)
  BY <1>0, LastInTable DEF States, Types, Parsers
<1>2. From(mk, i) \in Seq(Byte) /\ From(mk, i + 1) \in Seq(Byte)
      /\ From(mk, i) \o From(mk, i + 1) \in Seq(Byte)
      /\ "header_value" \in Callbacks /\ MayFollow("header_value", Last(calls))
  <2>1. From(mk, i) \in Seq(Byte) /\ From(mk, i + 1) \in Seq(Byte)
    BY <1>0, PieceTyped
  <2>2. From(mk, i) \o From(mk, i + 1) \in Seq(Byte)
    BY <2>1
  <2> QED BY <1>0, <2>1, <2>2, FollowTable
<1>3. ASSUME NEW data \in Seq(Byte),
             NEW x \in {"s_header_value", "s_header_value_almost_done"},
             NEW y \in {"s_header_value", "s_header_value_almost_done"},
             Callback("header_value", data, Continue(to(x), i + 1, mk), to(y))
      PROVE  IInv'
  <2>1. Called(to(x), i + 1, mk, to(y)) /\ calls' = Recorded("header_value", data)
    BY <1>3 DEF Callback, Continue, Fails, Stop, Called
  <2>2. /\ x \in States \ {"s_part_data_almost_boundary", "s_part_data_boundary"}
        /\ to(y) \in Parsers /\ to(y).lookbehind = parser.lookbehind /\ "header_value" \in LastIn(x)
    BY <1>1
  <2>3. /\ Running /\ mk \in {mark, i} /\ i + 1 \in {i, i + 1} /\ "header_value" \in Callbacks
        /\ MayFollow("header_value", Last(calls))
    BY <1>0, <1>2
  <2> DEFINE r2 == to(y)
  <2>4. r2 \in Parsers /\ r2.lookbehind = parser.lookbehind /\ Called([parser EXCEPT !.state = x], i + 1, mk, r2)
    BY <2>1, <2>2
  <2> HIDE DEF r2
  <2> QED BY <2>1, <2>2, <2>3, <2>4, CallingPlain
<1>4. CASE Fails("header_value", From(mk, i), in)
  <2>1. Callback("header_value", From(mk, i), Continue(to("s_header_value"), i + 1, mk), to("s_header_value"))
    BY <1>4 DEF Callback
  <2> QED BY <1>2, <1>3, <2>1
<1>5. CASE Continue(in, i + 1, mk) /\ Quiet
  <2> HIDE DEF to
  <2> QED BY <1>0, <1>1, <1>5, Quietly DEF Continue
<1> QED BY <1>2, <1>3, <1>4, <1>5 DEF HeaderValue, mk

LEMMA PartDataStartPreserves ==
  ASSUME IInv, PartDataStart
  PROVE  IInv'
<1>0. /\ Running /\ Types /\ parser \in Parsers /\ parser.state = "s_part_data_start"
      /\ Last(calls) \in InHeaders
  BY RunningAt, LastInTable DEF PartDataStart, At, IInv, Types, Order
<1>1. /\ "headers_complete" \in Callbacks /\ << >> \in Seq(Byte)
      /\ MayFollow("headers_complete", Last(calls)) /\ "headers_complete" \in LastIn("s_part_data")
      /\ "s_part_data" \in States
  BY <1>0, FollowTable, LastInTable DEF States
<1>2. /\ calls' = Recorded("headers_complete", << >>)
      /\ Called([parser EXCEPT !.state = "s_part_data"], i, i, parser)
  BY DEF PartDataStart, Notify, Callback, Continue, Fails, Stop, Called
<1> QED BY <1>0, <1>1, <1>2, CallingPlain

LEMMA PartDataPreserves ==
  ASSUME IInv, PartData
  PROVE  IInv'
<1>0. /\ Running /\ Types /\ parser \in Parsers /\ parser.state = "s_part_data"
      /\ Last(calls) \in {"headers_complete", "part_data"} /\ boundary_length \in Nat \ {0}
      /\ Len(parser.lookbehind) <= boundary_length + 2
  BY RunningAt, LastInTable, Basics DEF PartData, At, IInv, Types, Order, Lookbehind
<1>1. /\ From(mark, i) \in Seq(Byte) /\ From(mark, i + 1) \in Seq(Byte)
      /\ "part_data" \in Callbacks /\ MayFollow("part_data", Last(calls))
  BY <1>0, PieceTyped, FollowTable
<1>2. CASE c = "CR" /\ Emit("part_data", From(mark, i),
                            Continue([parser EXCEPT !.state = "s_part_data_almost_boundary",
                                                    !.lookbehind = <<"CR">>], i + 1, i))
  <2> DEFINE r == [parser EXCEPT !.state = "s_part_data_almost_boundary", !.lookbehind = <<"CR">>]
  <2>1. r \in Parsers /\ r.state = "s_part_data_almost_boundary" /\ r.lookbehind = <<"CR">>
    <3>1. <<"CR">> \in Seq(Byte) /\ "s_part_data_almost_boundary" \in States
      BY LineEnds DEF States
    <3> QED BY <1>0, <3>1 DEF Parsers
  <2>2. Called(r, i + 1, i, parser) /\ calls' = Recorded("part_data", From(mark, i))
    BY <1>2 DEF Emit, Callback, Continue, Fails, Stop, Called
  <2> HIDE DEF r
  <2>3. parser' = r /\ i' = i + 1 => Lookbehind'
    <3> SUFFICES ASSUME parser' = r, i' = i + 1 PROVE Lookbehind'
      OBVIOUS
    <3>1. i \in Nat /\ input' = input /\ boundary_length' = boundary_length /\ input.bytes[i + 1] = "CR"
      BY <1>0, <1>2, <2>2 DEF Called, boundary_length, c, Types
    <3>2. Len(r.lookbehind) = 1
      BY <2>1
    <3> QED BY <1>0, <2>1, <3>1, <3>2 DEF Lookbehind
  <2>4. "part_data" \in LastIn(r.state)
    BY <2>1, LastInTable
  <2> QED BY <1>0, <1>1, <2>1, <2>2, <2>3, <2>4, Calling DEF Called
<1>3. CASE Step(parser)
  BY <1>0, <1>3, Quietly DEF Step, Continue
<1>4. CASE Emit("part_data", From(mark, i + 1), Continue(parser, i + 1, mark))
  <2>1. Called(parser, i + 1, mark, parser) /\ calls' = Recorded("part_data", From(mark, i + 1))
    BY <1>4 DEF Emit, Callback, Continue, Fails, Stop, Called
  <2>2. Lookbehind'
    BY <1>0, <2>1 DEF Lookbehind, boundary_length, Called
  <2>3. "part_data" \in LastIn(parser.state)
    BY <1>0, LastInTable
  <2> QED BY <1>0, <1>1, <2>1, <2>2, <2>3, Calling DEF Called
<1> QED BY <1>2, <1>3, <1>4 DEF PartData

LEMMA MismatchPreserves ==
  ASSUME IInv, At({"s_part_data_almost_boundary", "s_part_data_boundary"}),
         NEW n \in 0 .. Len(parser.lookbehind), Mismatch(n)
  PROVE  IInv'
<1>0. /\ Running /\ Types /\ parser \in Parsers /\ Last(calls) = "part_data"
      /\ parser.lookbehind \in Seq(Byte) /\ Len(parser.lookbehind) \in Nat
  <2>1. parser.state \in {"s_part_data_almost_boundary", "s_part_data_boundary"} /\ Running
    BY RunningAt
  <2>2. Last(calls) \in LastIn(parser.state)
    BY <2>1 DEF IInv, Order, Running
  <2> QED BY <2>1, <2>2, LastInTable, Basics DEF IInv, Types
<1>1. /\ SubSeq(parser.lookbehind, 1, n) \in Seq(Byte) /\ "part_data" \in Callbacks
      /\ MayFollow("part_data", Last(calls)) /\ "part_data" \in LastIn("s_part_data")
      /\ "s_part_data" \in States
  <2>1. SubSeq(parser.lookbehind, 1, n) \in Seq(Byte)
    BY <1>0
  <2> QED BY <1>0, <2>1, FollowTable, LastInTable DEF States
<1>2. /\ calls' = Recorded("part_data", SubSeq(parser.lookbehind, 1, n))
      /\ Called([parser EXCEPT !.state = "s_part_data"], i, i, parser)
  BY DEF Mismatch, Emit, Callback, Continue, Fails, Stop, Called
<1> QED BY <1>0, <1>1, <1>2, CallingPlain

LEMMA AlmostBoundaryPreserves ==
  ASSUME IInv, AlmostBoundary
  PROVE  IInv'
<1>0. /\ Running /\ Types /\ parser \in Parsers /\ parser.state = "s_part_data_almost_boundary"
      /\ Last(calls) = "part_data" /\ Ordered(calls) /\ boundary_length \in Nat \ {0}
      /\ i \in Nat /\ i >= 1 /\ parser.lookbehind = <<"CR">> /\ input.bytes[i] = "CR"
  BY RunningAt, LastInTable, Basics DEF AlmostBoundary, At, IInv, Types, Order, Lookbehind, Running
<1>1. CASE c = "LF" /\ Step([parser EXCEPT !.state = "s_part_data_boundary", !.index = 0,
                                          !.lookbehind = <<"CR", "LF">>])
  <2> DEFINE r == [parser EXCEPT !.state = "s_part_data_boundary", !.index = 0,
                                 !.lookbehind = <<"CR", "LF">>]
  <2>1. r \in Parsers /\ r.state = "s_part_data_boundary" /\ r.index = 0 /\ r.lookbehind = <<"CR", "LF">>
    <3>1. /\ <<"CR", "LF">> \in Seq(Byte) /\ "s_part_data_boundary" \in States
          /\ 0 \in 0 .. boundary_length + 1
      BY <1>0, LineEnds DEF States
    <3> QED BY <1>0, <3>1 DEF Parsers
  <2>2. parser' = r /\ i' = i + 1 /\ mark' = mark /\ UNCHANGED <<input, pc, lim, ends, faults, calls>>
    BY <1>1 DEF Step, Continue, Quiet
  <2> HIDE DEF r
  <2>3. \A k \in 1 .. 2 : r.lookbehind[k] = input.bytes[(i + 1) - 2 - 0 + k]
    <3>1. r.lookbehind[1] = input.bytes[i] /\ r.lookbehind[2] = input.bytes[i + 1]
      BY <1>0, <1>1, <2>1 DEF c
    <3>2. (i + 1) - 2 - 0 + 1 = i /\ (i + 1) - 2 - 0 + 2 = i + 1
      BY <1>0
    <3>3. \A k \in 1 .. 2 : k = 1 \/ k = 2
      OBVIOUS
    <3> QED BY <3>1, <3>2, <3>3
  <2>4. Lookbehind'
    <3>1. Len(r.lookbehind) = 2
      BY <2>1
    <3>2. boundary_length' = boundary_length /\ parser'.index = 0 /\ i' >= 2
      BY <1>0, <2>1, <2>2 DEF boundary_length
    <3>3. \A k \in 1 .. 2 + parser'.index :
            parser'.lookbehind[k] = input'.bytes[i' - 2 - parser'.index + k]
      <4>1. 2 + 0 = 2
        OBVIOUS
      <4> QED BY <2>1, <2>2, <2>3, <4>1
    <3>4. /\ Len(parser'.lookbehind) = 2 /\ 2 <= boundary_length + 2 /\ 0 < boundary_length
          /\ parser'.state = "s_part_data_boundary" /\ 2 + 0 = 2
      BY <1>0, <2>1, <2>2, <3>1
    <3> QED BY <3>2, <3>3, <3>4 DEF Lookbehind
  <2>5. Last(calls') \in LastIn(parser'.state)
    BY <1>0, <2>1, <2>2, LastInTable
  <2> QED BY <1>0, <2>1, <2>2, <2>4, <2>5, Going
<1>2. CASE Mismatch(1)
  <2>1. 1 \in 0 .. Len(parser.lookbehind)
    BY <1>0
  <2> QED BY <1>0, <1>2, <2>1, MismatchPreserves DEF At, Running
<1> QED BY <1>1, <1>2 DEF AlmostBoundary

LEMMA DataBoundaryPreserves ==
  ASSUME IInv, DataBoundary
  PROVE  IInv'
<1> DEFINE l == Append(SubSeq(parser.lookbehind, 1, 2 + parser.index), c)
<1> DEFINE r == [parser EXCEPT !.index = @ + 1, !.lookbehind = Append(SubSeq(@, 1, 2 + parser.index), c)]
<1>0. /\ Running /\ Types /\ parser \in Parsers /\ parser.state = "s_part_data_boundary"
      /\ Last(calls) = "part_data" /\ Ordered(calls) /\ boundary_length \in Nat \ {0}
      /\ i \in Nat /\ c \in Byte
      /\ parser.index \in Nat /\ parser.index < boundary_length /\ 2 + parser.index <= i
      /\ parser.lookbehind \in Seq(Byte) /\ Len(parser.lookbehind) = 2 + parser.index
      /\ \A k \in 1 .. 2 + parser.index :
           parser.lookbehind[k] = input.bytes[i - 2 - parser.index + k]
  <2>1. Running /\ Types /\ parser \in Parsers /\ parser.state = "s_part_data_boundary"
    BY RunningAt DEF DataBoundary, At, IInv, Types
  <2>2. Last(calls) = "part_data" /\ Ordered(calls)
    BY <2>1, LastInTable DEF IInv, Order, Running
  <2> QED BY SMTT(30), <2>1, <2>2, Basics, PieceTyped DEF IInv, Types, Lookbehind, Running
<1>1. /\ l \in Seq(Byte) /\ Len(l) = 3 + parser.index /\ l[3 + parser.index] = c
      /\ \A k \in 1 .. 2 + parser.index : l[k] = parser.lookbehind[k]
  <2>1. SubSeq(parser.lookbehind, 1, 2 + parser.index) = parser.lookbehind
    BY <1>0
  <2> QED BY SMTT(30), <1>0, <2>1
<1>2. r = [parser EXCEPT !.index = parser.index + 1, !.lookbehind = l]
  BY <1>0 DEF Parsers
<1>3. /\ r \in Parsers /\ r.state = "s_part_data_boundary" /\ r.index = parser.index + 1
      /\ r.lookbehind = l
  <2>1. parser.index + 1 \in 0 .. boundary_length + 1
    BY <1>0
  <2> HIDE DEF l
  <2> QED BY <1>0, <1>1, <1>2, <2>1 DEF Parsers
<1> HIDE DEF l, r
<1>4. CASE Mismatch(2 + parser.index)
  <2>1. 2 + parser.index \in 0 .. Len(parser.lookbehind)
    BY <1>0
  <2> QED BY <1>0, <1>4, <2>1, MismatchPreserves DEF At, Running
<1>5. CASE r.index < boundary_length /\ Step(r)
  <2>1. parser' = r /\ i' = i + 1 /\ mark' = mark /\ UNCHANGED <<input, pc, lim, ends, faults, calls>>
    BY <1>5 DEF Step, Continue, Quiet
  <2>2. \A k \in 1 .. 2 + r.index : l[k] = input.bytes[(i + 1) - 2 - r.index + k]
    <3> SUFFICES ASSUME NEW k \in 1 .. 2 + r.index PROVE l[k] = input.bytes[(i + 1) - 2 - r.index + k]
      OBVIOUS
    <3>1. (i + 1) - 2 - r.index + k = i - 2 - parser.index + k
      BY SMTT(30), <1>0, <1>3
    <3>2. CASE k = 3 + parser.index
      <4>1. i - 2 - parser.index + k = i + 1
        BY <1>0, <3>2
      <4> QED BY <1>1, <3>1, <3>2, <4>1 DEF c
    <3>3. CASE k # 3 + parser.index
      <4>1. k \in 1 .. 2 + parser.index
        BY <1>0, <1>3, <3>3
      <4> QED BY <1>0, <1>1, <3>1, <4>1
    <3> QED BY <3>2, <3>3
  <2>3. Lookbehind'
    <3>1. /\ boundary_length' = boundary_length /\ parser'.index < boundary_length
          /\ 2 + parser'.index <= i' /\ Len(parser'.lookbehind) = 2 + parser'.index
          /\ Len(parser'.lookbehind) <= boundary_length + 2
      BY SMTT(30), <1>0, <1>1, <1>3, <1>5, <2>1 DEF boundary_length
    <3>2. \A k \in 1 .. 2 + parser'.index :
            parser'.lookbehind[k] = input'.bytes[i' - 2 - parser'.index + k]
      BY <1>3, <2>1, <2>2
    <3> QED BY <1>3, <2>1, <3>1, <3>2 DEF Lookbehind
  <2>4. Last(calls') \in LastIn(parser'.state)
    BY <1>0, <1>3, <2>1, LastInTable
  <2> QED BY <1>0, <1>3, <2>1, <2>3, <2>4, Going
<1>6. CASE Callback("part_data_end", << >>,
                    Continue([r EXCEPT !.state = "s_part_data_almost_end"], i + 1, mark), r)
  <2> DEFINE r1 == [r EXCEPT !.state = "s_part_data_almost_end"]
  <2>1. r1 \in Parsers /\ r1.state = "s_part_data_almost_end" /\ r1.lookbehind = l
    BY <1>3 DEF Parsers, States
  <2>2. Called(r1, i + 1, mark, r) /\ calls' = Recorded("part_data_end", << >>)
    BY <1>6 DEF Callback, Continue, Fails, Stop, Called
  <2> HIDE DEF r1
  <2>3. Len(l) <= boundary_length + 2
    BY <1>0, <1>1
  <2>4. parser' = r1 => Lookbehind'
    BY <2>1, <2>2, <2>3 DEF Lookbehind, boundary_length, Called
  <2>5. /\ << >> \in Seq(Byte) /\ "part_data_end" \in Callbacks
        /\ MayFollow("part_data_end", Last(calls)) /\ "part_data_end" \in LastIn(r1.state)
    BY <1>0, <2>1, FollowTable, LastInTable
  <2> QED BY <1>0, <1>3, <2>1, <2>2, <2>3, <2>4, <2>5, Calling DEF Called
<1> QED BY <1>4, <1>5, <1>6 DEF DataBoundary, r

\* The states behind a boundary.
LEMMA AfterBoundaryPreserves ==
  ASSUME IInv, AlmostEnd \/ FinalHyphen \/ PartDataEnd \/ End
  PROVE  IInv'
<1> DEFINE to(x) == [parser EXCEPT !.state = x]
<1>0. /\ Running /\ Types /\ parser \in Parsers
      /\ parser.state \in {"s_part_data_almost_end", "s_part_data_final_hyphen", "s_part_data_end", "s_end"}
      /\ Last(calls) \in LastIn(parser.state)
  BY RunningAt DEF AlmostEnd, FinalHyphen, PartDataEnd, End, At, IInv, Types, Order
<1>1. \A x \in {"s_part_data_final_hyphen", "s_part_data_end", "s_header_field_start", "s_end"} :
        x \in States \ {"s_part_data_almost_boundary", "s_part_data_boundary"}
        /\ to(x) \in Parsers /\ to(x).state = x /\ to(x).lookbehind = parser.lookbehind
  BY <1>0 DEF States, Parsers
<1>2. CASE Reject
  BY <1>0, <1>2, Quietly DEF Reject, Stop
<1>3. CASE End
  BY <1>0, <1>3, Quietly DEF End, Step, Continue
<1>4. ASSUME parser.state = "s_part_data_almost_end",
             NEW x \in {"s_part_data_final_hyphen", "s_part_data_end"}, Goto(x)
      PROVE  IInv'
  <2>1. LastIn(parser.state) \subseteq LastIn(x)
    BY <1>4, LastInTable
  <2>2. parser' = to(x)
    BY <1>4 DEF Goto, Step, Continue
  <2> HIDE DEF to
  <2> QED BY <1>0, <1>1, <1>4, <2>1, <2>2, Quietly DEF Goto, Step, Continue
<1>5. ASSUME parser.state # "s_end", NEW cb, NEW x, NEW r2 \in {parser, to(x)},
             \/ cb = "body_end" /\ x = "s_end"
             \/ cb = "part_data_begin" /\ x = "s_header_field_start",
             Callback(cb, << >>, Continue(to(x), i + 1, mark), r2)
      PROVE  IInv'
  <2>1. Last(calls) = "part_data_end"
    BY <1>0, <1>5, LastInTable
  <2>2. /\ << >> \in Seq(Byte) /\ cb \in Callbacks /\ MayFollow(cb, Last(calls)) /\ cb \in LastIn(x)
    BY <1>5, <2>1, FollowTable, LastInTable
  <2>3. Called(to(x), i + 1, mark, r2) /\ calls' = Recorded(cb, << >>)
    BY <1>5 DEF Callback, Continue, Fails, Stop, Called
  <2>4. r2 \in Parsers /\ r2.lookbehind = parser.lookbehind
    BY <1>0, <1>1, <1>5
  <2> QED BY <1>0, <1>1, <1>5, <2>2, <2>3, <2>4, CallingPlain
<1>6. CASE AlmostEnd
  BY <1>2, <1>4, <1>6 DEF AlmostEnd, At
<1>7. CASE FinalHyphen
  BY <1>2, <1>5, <1>7 DEF FinalHyphen, At, Notify
<1>8. CASE PartDataEnd
  BY <1>2, <1>5, <1>8 DEF PartDataEnd, At
<1> QED BY <1>3, <1>6, <1>7, <1>8

LEMMA StepPreserves == IInv /\ [Next]_vars => IInv'
<1> SUFFICES ASSUME IInv, [Next]_vars PROVE IInv'
  OBVIOUS
<1>1. CASE UNCHANGED vars
  <2>0. UNCHANGED <<input, parser, pc, i, lim, mark, ends, faults, calls>>
    BY <1>1 DEF vars
  <2>1. Types'
    BY <2>0 DEF IInv, Types, Parsers, boundary_length
  <2>2. Lookbehind'
    BY <2>0 DEF IInv, Lookbehind, boundary_length
  <2>3. Order'
    BY <2>0 DEF IInv, Order
  <2> QED BY <2>1, <2>2, <2>3 DEF IInv
<1>2. CASE Loop
  BY <1>2, EndOfChunkPreserves, StartBoundaryPreserves, HeaderFieldPreserves, OneBytePreserves,
     HeaderValueBlankPreserves, HeaderValuePreserves, PartDataStartPreserves, PartDataPreserves,
     AlmostBoundaryPreserves, DataBoundaryPreserves, AfterBoundaryPreserves DEF Loop
<1>3. CASE \E n \in 1 .. Len(input.bytes) : Execute(n)
  BY <1>3, ExecutePreserves
<1> QED BY <1>1, <1>2, <1>3 DEF Next

\* The inductive invariant of multipart_parser_execute: index and marks are in
\* range for the state, lookbehind holds what the boundary test took from the
\* stream, and the last callback is one the state can come behind.
THEOREM Invariance == Spec => []IInv
<1> QED BY InitEstablishes, StepPreserves, PTL DEF Spec

-----------------------------------------------------------------------------
(***************************************************************************)
(* Theorems                                                                *)
(***************************************************************************)
LEMMA SliceEquals ==
  ASSUME NEW S, NEW s \in Seq(S), NEW a \in Nat, NEW n \in Nat, a + n <= Len(s),
         NEW q \in Seq(S), Len(q) = n, \A k \in 1 .. n : q[k] = s[a + k]
  PROVE  q = SubSeq(s, a + 1, a + n)
<1> DEFINE t == SubSeq(s, a + 1, a + n)
<1>1. Len(s) \in Nat /\ \A k \in a + 1 .. a + n : s[k] \in S
  BY ElementOfSeq, LenProperties
<1>2. /\ t \in Seq(S) /\ Len(t) = IF a + 1 <= a + n THEN (a + n) - (a + 1) + 1 ELSE 0
      /\ \A k \in 1 .. (a + n) - (a + 1) + 1 : t[k] = s[(a + 1) + k - 1]
  BY <1>1, SubSeqProperties
<1> HIDE DEF t
<1>3. Len(t) = n /\ (a + n) - (a + 1) + 1 = n
  BY <1>2
<1>4. \A k \in 1 .. n : (a + 1) + k - 1 = a + k
  OBVIOUS
<1>5. \A k \in 1 .. n : t[k] = q[k]
  BY <1>2, <1>3, <1>4
<1>6. t = q
  BY <1>2, <1>3, <1>5, SeqEqual
<1> QED BY <1>6 DEF t

LEMMA Faithful == IInv => LookbehindFaithful
<1> SUFFICES ASSUME IInv PROVE LookbehindFaithful
  OBVIOUS
<1>0. /\ Types /\ boundary_length \in Nat \ {0} /\ input.bytes \in Seq(Byte) /\ Len(input.bytes) \in Nat
      /\ parser.state \in States /\ parser.index \in 0 .. boundary_length + 1
      /\ parser.lookbehind \in Seq(Byte) /\ Len(parser.lookbehind) \in Nat
      /\ i \in Nat /\ i <= Len(input.bytes)
  BY Basics DEF IInv, Types
<1>1. TypeOK
  <2>1. \A k \in DOMAIN calls : calls[k].cb \in Callbacks
    <3>1. \A k \in DOMAIN calls : calls[k] \in Call
      BY DEF IInv, Order, Ordered
    <3> QED BY <3>1 DEF Call
  <2>2. /\ i \in 0 .. lim /\ lim \in 0 .. Len(input.bytes) /\ mark \in 0 .. i
    BY <1>0 DEF Types
  <2> QED BY <1>0, <2>1, <2>2 DEF TypeOK, IInv, Types, Lookbehind, Callbacks
<1>2. Len(parser.lookbehind) <= boundary_length + 9
  BY <1>0 DEF IInv, Lookbehind
<1>3. ASSUME pc # "stopped", parser.state = "s_part_data_almost_boundary"
      PROVE  parser.lookbehind = From(i - 1, i)
  <2>1. i >= 1 /\ parser.lookbehind = <<"CR">> /\ input.bytes[i] = "CR"
    BY <1>3 DEF IInv, Lookbehind
  <2>2. i - 1 \in Nat /\ (i - 1) + 1 = i /\ (i - 1) + 1 <= Len(input.bytes) /\ Len(parser.lookbehind) = 1
    BY <1>0, <2>1
  <2>3. \A k \in 1 .. 1 : parser.lookbehind[k] = input.bytes[(i - 1) + k]
    <3>1. parser.lookbehind[1] = input.bytes[i]
      BY <2>1
    <3>2. \A k \in 1 .. 1 : k = 1
      OBVIOUS
    <3> QED BY <2>2, <3>1, <3>2
  <2>4. parser.lookbehind = SubSeq(input.bytes, (i - 1) + 1, (i - 1) + 1)
    BY <1>0, <2>2, <2>3, SliceEquals
  <2> QED BY <2>2, <2>4 DEF From
<1>4. ASSUME pc # "stopped", parser.state = "s_part_data_boundary"
      PROVE  SubSeq(parser.lookbehind, 1, 2 + parser.index) = From(i - 2 - parser.index, i)
  <2> DEFINE n == 2 + parser.index
  <2> DEFINE a == i - 2 - parser.index
  <2>1. /\ n \in Nat /\ a \in Nat /\ a + n = i /\ Len(parser.lookbehind) = n
        /\ \A k \in 1 .. n : parser.lookbehind[k] = input.bytes[a + k]
    BY <1>0, <1>4 DEF IInv, Lookbehind
  <2>2. SubSeq(parser.lookbehind, 1, n) = parser.lookbehind
    BY <1>0, <2>1, SubSeqFull
  <2> HIDE DEF n, a
  <2>3. parser.lookbehind = SubSeq(input.bytes, a + 1, a + n)
    BY <1>0, <2>1, SliceEquals
  <2> QED BY <2>1, <2>2, <2>3 DEF From, n, a
<1> QED BY <1>1, <1>2, <1>3, <1>4 DEF LookbehindFaithful

\* For every boundary and body, and wherever chunks end in it: multipart_parser
\* never writes past the boundary_length + 9 bytes of lookbehind, never reads
\* the boundary past its end, and what it would hand over on a mismatch is the
\* body from the CR on.
THEOREM LookbehindIsFaithful == Spec => []LookbehindFaithful
BY Faithful, Invariance, PTL

\* For every body, however malformed, and every failure of a callback: parts
\* begin, have their headers, their data and their end in this order and
\* never nest, and body_end is the last callback.
THEOREM CallbacksInOrder == Spec => []CallbackOrder
<1>1. IInv => CallbackOrder
  BY DEF IInv, Order, Ordered, CallbackOrder
<1> QED BY <1>1, Invariance, PTL

-----------------------------------------------------------------------------
(***************************************************************************)
(* Well formed bodies: what comes out of them                              *)
(***************************************************************************)
\* The data of callback k has to be exact.
Due(k) == Cb(input, k) = "part_data" \/ ends \cap input.fragile = {}
Exact(k) == calls[k].data = From(Lo(input, k), Hi(input, k))

\* The callback that one more callback cb is or belongs to, and what has been
\* handed over for it.
Reading(cb) == IF cb \in DataCallbacks /\ Last(calls) = cb THEN Len(calls) ELSE Len(calls) + 1
Got(k) == IF k = Len(calls) THEN calls[k].data ELSE << >>

\* All callbacks but the last are complete, and the last one is on its way.
Delivered ==
  /\ Len(calls) <= Len(input.calls)
  /\ \A k \in 1 .. Len(calls) :
       /\ calls[k].cb = Cb(input, k)
       /\ Due(k) =>
            /\ k < Len(calls) => Exact(k)
            /\ \E m \in Lo(input, k) .. Hi(input, k) : calls[k].data = From(Lo(input, k), m)

Done == Len(calls) > 0 /\ Due(Len(calls)) => Exact(Len(calls))

\* A string is being read: what lies before Upto has been handed over.
Upto == IF Running THEN mark ELSE i
Within(cb) ==
  LET k == Reading(cb)
  IN  /\ k <= Len(input.calls) /\ Cb(input, k) = cb
      /\ Lo(input, k) <= i /\ i <= Hi(input, k)
      /\ Due(k) => Lo(input, k) <= Upto /\ Got(k) = From(Lo(input, k), Upto)
      /\ k = Len(calls) + 1 => Done

\* Data that is held back: a CR, LF and as much of the boundary as matches.
Withheld(n) ==
  LET k == Len(calls)
  IN  /\ k \in 1 .. Len(input.calls) /\ Cb(input, k) = "part_data"
      /\ Lo(input, k) <= i - n /\ i - n <= Hi(input, k)
      /\ calls[k].data = From(Lo(input, k), i - n)

Matching ==
  LET k == parser.index
  IN  /\ Reads(input, i - 2 - k, CRLF)
      /\ \A j \in 1 .. k : input.bytes[i - k + j] = input.boundary[j]

\* n bytes behind what belongs to the callbacks so far, all of them complete;
\* and what comes next.
After(n) == Len(calls) > 0 /\ i = Behind(input, Len(calls)) + n /\ Done
Before(cb) == Len(calls) < Len(input.calls) /\ Cb(input, Len(calls) + 1) = cb

Blanks == Behind(input, Len(calls)) <= i /\ i <= Lo(input, Len(calls) + 1) /\ Done
LineEnd == Len(calls) > 0 /\ i = Hi(input, Len(calls)) + 1 /\ Done
Epilogue == Len(calls) = Len(input.calls) /\ Hi(input, Len(calls)) <= i /\ Done

\* The parser is where the callbacks made so far lead it.
Place ==
  LET s == parser.state
  IN  /\ s = "s_start" => Len(calls) = 0 /\ i = 0
      /\ s = "s_start_boundary" => Len(calls) = 0 /\ i = parser.index
      /\ s = "s_header_field_start" => After(0)
      /\ s = "s_header_field" => Within("header_field")
      /\ s = "s_header_value_start" => Before("header_value") /\ Blanks
      /\ s = "s_header_value" => Within("header_value")
      /\ s = "s_header_value_almost_done" => LineEnd
      /\ s = "s_headers_almost_done" => Before("headers_complete") /\ After(1)
      /\ s = "s_part_data_start" => Before("headers_complete") /\ After(2)
      /\ s = "s_part_data" => Within("part_data")
      /\ s = "s_part_data_almost_boundary" => Withheld(1)
      /\ s = "s_part_data_boundary" => Withheld(2 + parser.index) /\ Matching
      /\ s = "s_part_data_almost_end" => After(0)
      /\ s = "s_part_data_final_hyphen" => Before("body_end") /\ After(1)
      /\ s = "s_part_data_end" => Before("part_data_begin") /\ After(1)
      /\ s = "s_end" => Epilogue

Tracked ==
  input.known =>
    /\ Delivered
    /\ pc = "loop" => lim \in ends
    /\ pc = "stopped" => faults > 0
    /\ pc # "stopped" => Place

-----------------------------------------------------------------------------
LEMMA KnownTyped ==
  ASSUME Types, input.known
  PROVE  /\ WellFormed(input) /\ input.fragile = Fragile(input)
         /\ Len(input.calls) \in Nat \ {0} /\ input.bytes \in Seq(Byte) /\ Len(input.bytes) \in Nat
         /\ \A k \in 1 .. Len(input.calls) :
              /\ Lo(input, k) \in Nat /\ Hi(input, k) \in Nat
              /\ Behind(input, k) \in Nat /\ Hi(input, k) <= Behind(input, k)
              /\ input.calls[k].data = From(Lo(input, k), Hi(input, k))
<1>1. /\ input.calls \in Seq([cb : STRING, data : Seq(STRING)])
      /\ input.spans \in Seq([from : Nat, to : Nat]) /\ Len(input.spans) = Len(input.calls)
      /\ WellFormed(input) /\ input.fragile = Fragile(input)
  BY KnownAssumption DEF Types
<1>2. Len(input.calls) \in Nat \ {0}
  BY <1>1 DEF WellFormed
<1>3. input.bytes \in Seq(Byte) /\ Len(input.bytes) \in Nat
  BY Basics
<1>4. ASSUME NEW k \in 1 .. Len(input.calls)
      PROVE  /\ Lo(input, k) \in Nat /\ Hi(input, k) \in Nat
             /\ Behind(input, k) \in Nat /\ Hi(input, k) <= Behind(input, k)
             /\ input.calls[k].data = From(Lo(input, k), Hi(input, k))
  <2>1. input.spans[k] \in [from : Nat, to : Nat]
    <3> DEFINE s == input.spans
    <3>1. s \in Seq([from : Nat, to : Nat]) /\ k \in 1 .. Len(s)
      BY <1>1, <1>4
    <3> HIDE DEF s
    <3>2. s[k] \in [from : Nat, to : Nat]
      BY <3>1, ElementOfSeq
    <3> QED BY <3>2 DEF s
  <2>2. Lo(input, k) \in Nat /\ Hi(input, k) \in Nat
    BY <2>1 DEF Lo, Hi
  <2>3. Behind(input, k) \in Nat /\ Hi(input, k) <= Behind(input, k)
    BY <1>4, <2>2 DEF Behind
  <2>4. input.calls[k].data = From(Lo(input, k), Hi(input, k))
    BY <1>1, <1>4 DEF WellFormed, From
  <2> QED BY <2>2, <2>3, <2>4
<1> QED BY <1>1, <1>2, <1>3, <1>4

\* Pieces of the body put together.
LEMMA Joined ==
  ASSUME Types, NEW a \in Nat, NEW b \in Nat, NEW d \in Nat, a <= b, b <= d, d <= Len(input.bytes)
  PROVE  From(a, b) \o From(b, d) = From(a, d) /\ From(a, a) = << >> /\ From(a, b) \in Seq(Byte)
         /\ Len(From(a, b)) = b - a
<1>1. input.bytes \in Seq(Byte) /\ Len(input.bytes) \in Nat
  BY Basics
<1> DEFINE s == input.bytes
<1>2. \A k \in 1 .. Len(s) : s[k] \in Byte
  BY <1>1
<1> HIDE DEF s
<1>3. s \in Seq(Byte) /\ Len(s) \in Nat /\ d <= Len(s)
  BY <1>1 DEF s
<1>4. /\ SubSeq(s, a + 1, b) \in Seq(Byte) /\ SubSeq(s, b + 1, d) \in Seq(Byte)
      /\ SubSeq(s, a + 1, d) \in Seq(Byte)
      /\ Len(SubSeq(s, a + 1, b)) = b - a /\ Len(SubSeq(s, b + 1, d)) = d - b
      /\ Len(SubSeq(s, a + 1, d)) = d - a
  BY <1>2, <1>3
<1>5. SubSeq(s, a + 1, b) \o SubSeq(s, b + 1, d) = SubSeq(s, a + 1, d)
  BY <1>2, <1>3, <1>4
<1>6. SubSeq(s, a + 1, a) = << >>
  BY <1>3
<1> QED BY <1>4, <1>5, <1>6 DEF From, s

LEMMA NothingYet ==
  ASSUME Types, NEW a \in Nat, a <= Len(input.bytes)
  PROVE  From(a, a) = << >> /\ << >> \o << >> = << >> /\ << >> \in Seq(Byte)
<1>1. From(a, a) = << >>
  BY Joined
<1> QED BY <1>1

\* What Recorded does.
LEMMA RecordedEffect ==
  ASSUME Ordered(calls), NEW cb \in Callbacks, NEW data \in Seq(Byte)
  PROVE  /\ Reading(cb) \in {Len(calls), Len(calls) + 1} /\ Len(calls) \in Nat /\ Reading(cb) > 0
         /\ Len(Recorded(cb, data)) = Reading(cb) /\ Recorded(cb, data) # << >>
         /\ Recorded(cb, data)[Reading(cb)].cb = cb
         /\ Recorded(cb, data)[Reading(cb)].data = Got(Reading(cb)) \o data
         /\ \A j \in 1 .. Reading(cb) - 1 : Recorded(cb, data)[j] = calls[j]
         /\ Reading(cb) = Len(calls) => calls[Reading(cb)].cb = cb
         /\ Got(Reading(cb)) \in Seq(Byte)
<1> DEFINE n == Len(calls)
<1> DEFINE k == Reading(cb)
<1> DEFINE cs == Recorded(cb, data)
<1> DEFINE e == [cb |-> cb, data |-> data]
<1>0. n \in Nat /\ calls \in Seq(Call) /\ "none" \notin Callbacks
      /\ \A j \in 1 .. n : calls[j] \in Call
  BY DEF Ordered, Callbacks, DataCallbacks
<1> SUFFICES /\ k \in {n, n + 1} /\ n \in Nat /\ k > 0
             /\ Len(cs) = k /\ cs # << >>
             /\ cs[k].cb = cb /\ cs[k].data = Got(k) \o data
             /\ \A j \in 1 .. k - 1 : cs[j] = calls[j]
             /\ k = n => calls[k].cb = cb
             /\ Got(k) \in Seq(Byte)
  OBVIOUS
<1>1. CASE n > 0 /\ cb \in DataCallbacks /\ calls[n].cb = cb
  <2>1. k = n /\ Got(k) = calls[n].data
    BY <1>0, <1>1 DEF Reading, Last, Got
  <2>2. cs = [calls EXCEPT ![n].data = @ \o data]
    BY <1>1 DEF Recorded
  <2>3. calls[n] \in Call /\ calls[n].data \in Seq(Byte)
    BY <1>0, <1>1 DEF Call
  <2> DEFINE x == [calls[n] EXCEPT !.data = @ \o data]
  <2>4. x.cb = cb /\ x.data = calls[n].data \o data
    BY <1>1, <2>3 DEF Call
  <2>5. cs = [calls EXCEPT ![n] = x]
    BY <2>2
  <2> HIDE DEF k, cs
  <2>6. DOMAIN calls = 1 .. n
    BY <1>0
  <2> HIDE DEF x
  <2>7. cs[n] = x /\ \A j \in 1 .. n - 1 : cs[j] = calls[j]
    BY <1>0, <1>1, <2>5, <2>6
  <2>8. Len(cs) = n
    BY <1>0, <2>5
  <2>9. cs # << >>
    <3>1. Len(cs) # 0
      BY <1>0, <1>1, <2>8
    <3> QED BY <3>1
  <2> QED BY <1>0, <1>1, <2>1, <2>3, <2>4, <2>7, <2>8, <2>9
<1>2. CASE ~(n > 0 /\ cb \in DataCallbacks /\ calls[n].cb = cb)
  <2>1. k = n + 1
    <3>1. ~(cb \in DataCallbacks /\ Last(calls) = cb)
      BY <1>0, <1>2 DEF Last
    <3> QED BY <3>1 DEF Reading
  <2>2. Got(k) = << >>
    BY <1>0, <2>1 DEF Got
  <2>3. cs = Append(calls, e)
    BY <1>2 DEF Recorded
  <2>4. e \in Call /\ e.cb = cb /\ e.data = data
    BY DEF Call
  <2> HIDE DEF e, k, cs
  <2>5. /\ Len(Append(calls, e)) = n + 1 /\ Append(calls, e)[n + 1] = e
        /\ \A j \in 1 .. n : Append(calls, e)[j] = calls[j]
    BY <1>0, <2>4
  <2>6. << >> \o data = data /\ << >> \in Seq(Byte)
    OBVIOUS
  <2>7. cs # << >>
    <3>1. Len(cs) # 0
      BY <1>0, <2>3, <2>5
    <3> QED BY <3>1
  <2>8. Len(cs) = n + 1 /\ cs[n + 1] = e /\ \A j \in 1 .. n : cs[j] = calls[j]
    BY <2>3, <2>5
  <2> HIDE DEF n
  <2>9. (n + 1) - 1 = n /\ n + 1 > 0 /\ n + 1 # n
    BY <1>0
  <2> QED BY <1>0, <2>1, <2>2, <2>4, <2>6, <2>7, <2>8, <2>9
<1> QED BY <1>1, <1>2

\* A callback is made, and hands over what lies behind the data so far.
LEMMA Handing ==
  ASSUME IInv, input.known, Delivered, UNCHANGED <<input, ends>>,
         NEW cb \in Callbacks, NEW data \in Seq(Byte), calls' = Recorded(cb, data),
         NEW k \in 1 .. Len(input.calls), k = Reading(cb), Cb(input, k) = cb,
         k = Len(calls) + 1 => Done,
         NEW m \in Lo(input, k) .. Hi(input, k),
         Due(k) => Got(k) \o data = From(Lo(input, k), m)
  PROVE  /\ Delivered' /\ Len(calls') = k /\ Last(calls') = cb
         /\ Due(k) => calls'[k].data = From(Lo(input, k), m)
         /\ (Due(k) => m = Hi(input, k)) => Done'
<1>0. /\ Ordered(calls) /\ Types /\ Len(calls) \in Nat /\ Len(input.calls) \in Nat
      /\ Lo(input, k) \in Nat /\ Hi(input, k) \in Nat
  <2>1. Ordered(calls) /\ Types
    BY DEF IInv, Order
  <2>2. Len(calls) \in Nat
    BY <2>1 DEF Ordered
  <2> QED BY <2>1, <2>2, KnownTyped
<1>1. /\ k \in {Len(calls), Len(calls) + 1} /\ k > 0 /\ Len(calls') = k /\ calls' # << >>
      /\ calls'[k].cb = cb /\ calls'[k].data = Got(k) \o data
      /\ \A j \in 1 .. k - 1 : calls'[j] = calls[j]
  <2> DEFINE cs == Recorded(cb, data)
  <2>0. Ordered(calls)
    BY <1>0
  <2>1. /\ k \in {Len(calls), Len(calls) + 1} /\ k > 0 /\ Len(cs) = k /\ cs # << >>
        /\ cs[k].cb = cb /\ cs[k].data = Got(k) \o data
        /\ \A j \in 1 .. k - 1 : cs[j] = calls[j]
    BY ZenonT(40), <2>0, RecordedEffect
  <2> HIDE DEF cs
  <2>2. calls' = cs
    BY DEF cs
  <2> QED BY <2>1, <2>2
<1>2. \A j : (Due(j)' <=> Due(j)) /\ Cb(input, j)' = Cb(input, j)
  BY DEF Due, Cb
<1>3. \A j : Lo(input, j)' = Lo(input, j) /\ Hi(input, j)' = Hi(input, j)
  BY DEF Lo, Hi
<1>4. Last(calls') = cb
  BY <1>1 DEF Last
<1>5. ASSUME NEW j \in 1 .. k PROVE calls'[j].cb = Cb(input, j)
  <2>1. CASE j = k
    BY <1>1, <2>1
  <2>2. CASE j # k
    <3>1. j \in 1 .. k - 1 /\ j \in 1 .. Len(calls)
      BY <1>0, <1>1, <2>2
    <3>2. calls[j].cb = Cb(input, j)
      BY <3>1 DEF Delivered
    <3> QED BY <1>1, <3>1, <3>2
  <2> QED BY <2>1, <2>2
<1>6. ASSUME NEW j \in 1 .. k - 1, Due(j) PROVE calls'[j].data = From(Lo(input, j), Hi(input, j))
  <2>1. j \in 1 .. Len(calls) /\ calls'[j] = calls[j]
    BY <1>0, <1>1
  <2>2. Exact(j)
    <3>1. CASE j < Len(calls)
      BY <1>6, <2>1, <3>1 DEF Delivered
    <3>2. CASE j = Len(calls)
      <4>1. k = Len(calls) + 1
        BY <1>0, <1>1, <3>2
      <4> QED BY <1>0, <1>6, <2>1, <3>2, <4>1 DEF Done
    <3> QED BY <1>0, <2>1, <3>1, <3>2
  <2> QED BY <2>1, <2>2 DEF Exact
<1>7. Due(k) => calls'[k].data = From(Lo(input, k), m)
  BY <1>1
<1>8. ASSUME NEW j, calls'[j].data = From(Lo(input, j), Hi(input, j)) PROVE Exact(j)'
  BY <1>8 DEF Exact, From, Lo, Hi
<1>9. (Due(k) => m = Hi(input, k)) => Done'
  <2>1. Due(k) /\ m = Hi(input, k) => Exact(k)'
    BY <1>7, <1>8
  <2> QED BY <1>1, <1>2, <2>1 DEF Done
<1>10. Delivered'
  <2>1. ASSUME NEW j \in 1 .. k, Due(j)
        PROVE  /\ j < k => Exact(j)'
               /\ \E x \in Lo(input, j) .. Hi(input, j) : calls'[j].data = From(Lo(input, j), x)
    <3>1. CASE j = k
      BY <1>0, <1>7, <2>1, <3>1
    <3>2. CASE j # k
      <4>1. j \in 1 .. k - 1 /\ j \in 1 .. Len(input.calls)
        BY <1>0, <3>2
      <4>2. calls'[j].data = From(Lo(input, j), Hi(input, j))
        BY <1>6, <2>1, <4>1
      <4>3. Lo(input, j) \in Nat /\ Hi(input, j) \in Nat /\ Lo(input, j) <= Hi(input, j)
        BY <1>0, <4>1, KnownTyped DEF WellFormed
      <4>4. Hi(input, j) \in Lo(input, j) .. Hi(input, j)
        BY <4>3
      <4> QED BY <1>8, <4>2, <4>4
    <3> QED BY <3>1, <3>2
  <2>2. k <= Len(input.calls)
    BY <1>0
  <2>3. \A a, b : From(a, b)' = From(a, b)
    BY DEF From
  <2>4. \A j \in 1 .. Len(calls') : calls'[j].cb = Cb(input, j)'
    BY <1>1, <1>2, <1>5
  <2>5. Len(calls') <= Len(input'.calls)
    BY <1>1, <2>2
  <2>6. ASSUME NEW j \in 1 .. Len(calls'), Due(j)'
        PROVE  /\ j < Len(calls') => Exact(j)'
               /\ \E x \in Lo(input, j)' .. Hi(input, j)' : calls'[j].data = From(Lo(input, j), x)'
    <3>1. j \in 1 .. k /\ Due(j)
      BY <1>1, <1>2, <2>6
    <3>2. PICK x \in Lo(input, j) .. Hi(input, j) : calls'[j].data = From(Lo(input, j), x)
      BY <2>1, <3>1
    <3>3. From(Lo(input, j), x)' = From(Lo(input, j), x)
      BY DEF From, Lo
    <3> QED BY <1>1, <1>3, <2>1, <3>1, <3>2, <3>3
  <2> QED BY <2>4, <2>5, <2>6 DEF Delivered
<1> QED BY <1>1, <1>4, <1>7, <1>9, <1>10

-----------------------------------------------------------------------------
(***************************************************************************)
(* What stands in a well formed body                                       *)
(***************************************************************************)
\* What comes behind a callback.
LEMMA Ahead ==
  ASSUME Types, input.known, NEW k \in 1 .. Len(input.calls)
  PROVE  LET Next1(S) == k < Len(input.calls) /\ Cb(input, k + 1) \in S
         IN  /\ Cb(input, k) = "part_data_begin" => Next1({"header_field", "headers_complete"})
             /\ Cb(input, k) = "header_field" => Next1({"header_value"})
             /\ Cb(input, k) = "header_value" => Next1({"header_field", "headers_complete"})
             /\ Cb(input, k) = "headers_complete" => Next1({"part_data"})
             /\ Cb(input, k) = "part_data" => Next1({"part_data_end"})
             /\ Cb(input, k) = "part_data_end" => Next1({"part_data_begin", "body_end"})
             /\ Cb(input, k) = "body_end" => k = Len(input.calls)
<1>1. /\ WellFormed(input) /\ Len(input.calls) \in Nat \ {0}
  BY KnownTyped
<1>2. /\ Cb(input, Len(input.calls)) = "body_end"
      /\ k < Len(input.calls) => Cb(input, k + 1) \in Follow(Cb(input, k))
      /\ Cb(input, k) = "header_field" => Cb(input, k + 1) = "header_value"
  BY <1>1 DEF WellFormed, NameAt
<1>3. k < Len(input.calls) \/ k = Len(input.calls)
  BY <1>1
<1> QED BY <1>1, <1>2, <1>3 DEF Follow

\* Which callbacks carry data, and where the bytes that belong to them end.
LEMMA BehindTable ==
  ASSUME Types, input.known, NEW k \in 1 .. Len(input.calls)
  PROVE  /\ Behind(input, 0) = 0
         /\ Cb(input, k) = "header_field" => Behind(input, k) = Hi(input, k) + 1
         /\ Cb(input, k) = "header_value" => Behind(input, k) = Hi(input, k) + 2
         /\ Cb(input, k) \notin {"header_field", "header_value"} => Behind(input, k) = Hi(input, k)
<1>1. k > 0
  OBVIOUS
<1> QED BY <1>1 DEF Behind

LEMMA BehindTyped ==
  ASSUME Types, input.known, NEW k \in 0 .. Len(input.calls)
  PROVE  Behind(input, k) \in Nat
<1>1. CASE k = 0
  BY <1>1 DEF Behind
<1>2. CASE k # 0
  <2>1. k \in 1 .. Len(input.calls)
    BY <1>2, KnownTyped
  <2> QED BY <2>1, KnownTyped
<1> QED BY <1>1, <1>2

LEMMA ReadsTwo ==
  ASSUME NEW p \in Nat, NEW a, NEW b, Reads(input, p, <<a, b>>)
  PROVE  p + 2 <= Len(input.bytes) /\ input.bytes[p + 1] = a /\ input.bytes[p + 2] = b
<1>1. Len(<<a, b>>) = 2 /\ <<a, b>>[1] = a /\ <<a, b>>[2] = b
  OBVIOUS
<1>2. 1 \in 1 .. 2 /\ 2 \in 1 .. 2
  OBVIOUS
<1> QED BY <1>1, <1>2 DEF Reads

\* Where the data of a callback is.
LEMMA Spot ==
  ASSUME Types, input.known, NEW k \in 1 .. Len(input.calls)
  PROVE  /\ Lo(input, k) \in Nat /\ Hi(input, k) \in Nat /\ Behind(input, k - 1) \in Nat
         /\ Behind(input, k - 1) <= Lo(input, k) /\ Lo(input, k) <= Hi(input, k)
         /\ Hi(input, k) <= Len(input.bytes) /\ Len(input.bytes) \in Nat
         /\ Cb(input, k) \notin DataCallbacks => Lo(input, k) = Hi(input, k)
         /\ Cb(input, k) # "header_value" =>
              /\ Reads(input, Behind(input, k - 1), Lead(input, k))
              /\ Lo(input, k) = Behind(input, k - 1) + Len(Lead(input, k))
<1>1. k - 1 \in 0 .. Len(input.calls)
  BY KnownTyped
<1>2. Behind(input, k - 1) \in Nat
  BY <1>1, BehindTyped
<1> QED BY <1>2, KnownTyped DEF WellFormed

\* Callbacks with nothing before their data.
LEMMA Bare ==
  ASSUME Types, input.known, NEW k \in 1 .. Len(input.calls),
         Cb(input, k) \in {"header_field", "part_data"}
  PROVE  Lo(input, k) = Behind(input, k - 1)
<1>1. Lead(input, k) = << >> /\ Len(<< >>) = 0
  BY DEF Lead
<1>2. Lo(input, k) = Behind(input, k - 1) + Len(Lead(input, k)) /\ Behind(input, k - 1) \in Nat
  BY Spot
<1> QED BY <1>1, <1>2

\* A name: letters and hyphens up to a colon.
LEMMA Name ==
  ASSUME Types, input.known, NEW k \in 1 .. Len(input.calls), Cb(input, k) = "header_field"
  PROVE  /\ Hi(input, k) + 1 <= Len(input.bytes) /\ input.bytes[Hi(input, k) + 1] = ":"
         /\ \A j \in Lo(input, k) + 1 .. Hi(input, k) : input.bytes[j] \in Letters \cup {"-"}
<1>1. NameAt(input, k)
  BY KnownTyped DEF WellFormed
<1>2. Len(<<":">>) = 1 /\ <<":">>[1] = ":" /\ 1 \in 1 .. 1
  OBVIOUS
<1>3. Hi(input, k) + 1 <= Len(input.bytes) /\ input.bytes[Hi(input, k) + 1] = ":"
  BY <1>1, <1>2 DEF NameAt, Reads
<1> QED BY <1>1, <1>3 DEF NameAt

\* A value: blanks, then the value, which does not begin with one, up to a line end.
LEMMA Value ==
  ASSUME Types, input.known, NEW k \in 1 .. Len(input.calls), Cb(input, k) = "header_value"
  PROVE  /\ Hi(input, k) + 2 <= Len(input.bytes)
         /\ input.bytes[Hi(input, k) + 1] = "CR" /\ input.bytes[Hi(input, k) + 2] = "LF"
         /\ \A j \in Lo(input, k) + 1 .. Hi(input, k) : input.bytes[j] # "CR"
<1>1. ValueAt(input, k) /\ Hi(input, k) \in Nat
  BY KnownTyped DEF WellFormed
<1>2. Reads(input, Hi(input, k), <<"CR", "LF">>)
  BY <1>1 DEF ValueAt, CRLF
<1> QED BY <1>1, <1>2, ReadsTwo DEF ValueAt

LEMMA ValueBegins ==
  ASSUME Types, input.known, NEW k \in 1 .. Len(input.calls), Cb(input, k) = "header_value"
  PROVE  /\ \A j \in Behind(input, k - 1) + 1 .. Lo(input, k) : input.bytes[j] = " "
         /\ input.bytes[Lo(input, k) + 1] # " "
<1>1. ValueAt(input, k)
  BY KnownTyped DEF WellFormed
<1> QED BY <1>1 DEF ValueAt

\* The two bytes before a callback without data.
LEMMA TwoBytes ==
  ASSUME Types, input.known, NEW k \in 1 .. Len(input.calls)
  PROVE  LET b == Behind(input, k - 1)
             Two(x, y) == /\ b + 2 = Lo(input, k) /\ Lo(input, k) = Hi(input, k) /\ b + 2 <= Len(input.bytes)
                          /\ input.bytes[b + 1] = x /\ input.bytes[b + 2] = y
         IN  /\ Cb(input, k) = "headers_complete" => Two("CR", "LF")
             /\ Cb(input, k) = "part_data_begin" /\ k # 1 => Two("CR", "LF")
             /\ Cb(input, k) = "body_end" => Two("-", "-")
<1> DEFINE b == Behind(input, k - 1)
<1>1. /\ Cb(input, k) = "headers_complete" => Lead(input, k) = <<"CR", "LF">>
      /\ Cb(input, k) = "part_data_begin" /\ k # 1 => Lead(input, k) = <<"CR", "LF">>
      /\ Cb(input, k) = "body_end" => Lead(input, k) = <<"-", "-">>
  BY DEF Lead, CRLF
<1>2. ASSUME NEW x, NEW y, Lead(input, k) = <<x, y>>,
             Cb(input, k) \in {"headers_complete", "part_data_begin", "body_end"}
      PROVE  /\ b + 2 = Lo(input, k) /\ Lo(input, k) = Hi(input, k) /\ b + 2 <= Len(input.bytes)
             /\ input.bytes[b + 1] = x /\ input.bytes[b + 2] = y
  <2>1. Len(<<x, y>>) = 2
    OBVIOUS
  <2>2. Cb(input, k) \notin DataCallbacks /\ Cb(input, k) # "header_value"
    BY <1>2 DEF DataCallbacks
  <2>3. /\ b \in Nat /\ Lo(input, k) = Hi(input, k)
        /\ Reads(input, b, Lead(input, k)) /\ Lo(input, k) = b + Len(Lead(input, k))
    BY <2>2, Spot
  <2> HIDE DEF b
  <2>4. b + 2 <= Len(input.bytes) /\ input.bytes[b + 1] = x /\ input.bytes[b + 2] = y
    BY <1>2, <2>3, ReadsTwo
  <2> QED BY <1>2, <2>1, <2>3, <2>4
<1> QED BY <1>1, <1>2

\* The boundary that ends the data of a part, and the one before the first part.
LEMMA Boundary ==
  ASSUME Types, input.known, NEW k \in 1 .. Len(input.calls), Cb(input, k) = "part_data_end"
  PROVE  /\ Reads(input, Behind(input, k - 1), CRLF \o input.boundary)
         /\ Lo(input, k) = Hi(input, k) /\ Hi(input, k) = Behind(input, k - 1) + 2 + boundary_length
<1>1. Lead(input, k) = CRLF \o input.boundary
  BY DEF Lead
<1>2. CRLF \in Seq(Byte) /\ Len(CRLF) = 2
  BY LineEnds DEF CRLF
<1>3. Len(CRLF \o input.boundary) = 2 + boundary_length /\ boundary_length \in Nat
  <2> DEFINE s == input.boundary
  <2>1. s \in Seq(Byte) /\ Len(s) \in Nat
    BY Basics DEF boundary_length
  <2> HIDE DEF s
  <2>2. Len(CRLF \o s) = Len(CRLF) + Len(s)
    <3> DEFINE t == CRLF
    <3>1. t \in Seq(Byte)
      BY <1>2
    <3> HIDE DEF t
    <3>2. Len(t \o s) = Len(t) + Len(s)
      BY <2>1, <3>1
    <3> QED BY <3>2 DEF t
  <2> QED BY <1>2, <2>1, <2>2 DEF boundary_length, s
<1>4. Reads(input, Behind(input, k - 1), CRLF \o input.boundary)
      /\ Lo(input, k) = Hi(input, k) /\ Behind(input, k - 1) \in Nat
      /\ Lo(input, k) = Behind(input, k - 1) + Len(CRLF \o input.boundary)
  BY <1>1, Spot DEF DataCallbacks
<1> QED BY <1>3, <1>4

LEMMA FirstBoundary ==
  ASSUME Types, input.known
  PROVE  /\ Cb(input, 1) = "part_data_begin" /\ 1 \in 1 .. Len(input.calls)
         /\ Hi(input, 1) = boundary_length + 2 /\ Lo(input, 1) = Hi(input, 1) /\ Behind(input, 1) = Hi(input, 1)
         /\ \A j \in 1 .. boundary_length + 2 : input.bytes[j] = (input.boundary \o <<"CR", "LF">>)[j]
<1>1. Cb(input, 1) = "part_data_begin" /\ 1 \in 1 .. Len(input.calls)
  BY KnownTyped DEF WellFormed
<1>2. Lead(input, 1) = input.boundary \o <<"CR", "LF">>
  BY <1>1 DEF Lead, CRLF
<1>3. Len(input.boundary \o <<"CR", "LF">>) = boundary_length + 2 /\ boundary_length \in Nat
  BY LineEnds, Basics DEF boundary_length
<1>4. Behind(input, 1 - 1) = 0
  BY DEF Behind
<1>5. Reads(input, 0, input.boundary \o <<"CR", "LF">>) /\ Lo(input, 1) = 0 + (boundary_length + 2)
      /\ Lo(input, 1) = Hi(input, 1)
  BY <1>1, <1>2, <1>3, <1>4, Spot DEF DataCallbacks
<1>6. Behind(input, 1) = Hi(input, 1)
  BY <1>1, BehindTable
<1>7. \A j \in 1 .. boundary_length + 2 : 0 + j = j
  OBVIOUS
<1> QED BY <1>1, <1>3, <1>5, <1>6, <1>7 DEF Reads

-----------------------------------------------------------------------------
(***************************************************************************)
(* Steps in a well formed body                                             *)
(***************************************************************************)
LEMMA Onward ==
  ASSUME Tracked, input.known, Running, UNCHANGED <<input, lim, ends, pc>>, Delivered', Place'
  PROVE  Tracked'
BY DEF Tracked, Running

LEMMA Failed ==
  ASSUME UNCHANGED input, pc' = "stopped", faults' > 0, Delivered'
  PROVE  Tracked'
BY DEF Tracked

\* A callback is made: the parse goes on, or it failed.
LEMMA OnwardOrFailed ==
  ASSUME IInv, Tracked, input.known, Running, Delivered',
         NEW r, NEW n, NEW mk, NEW r2, Called(r, n, mk, r2),
         parser' = r /\ i' = n /\ mark' = mk /\ UNCHANGED <<pc, faults>> => Place'
  PROVE  Tracked'
<1>1. CASE parser' = r /\ i' = n /\ mark' = mk /\ UNCHANGED <<pc, faults>>
  BY <1>1, Onward DEF Called
<1>2. CASE pc' = "stopped" /\ faults' = faults + 1
  <2>1. faults' > 0
    BY <1>2, Basics DEF IInv
  <2> QED BY <1>2, <2>1, Failed DEF Called
<1> QED BY <1>1, <1>2 DEF Called

LEMMA Known ==
  ASSUME IInv, Tracked, input.known, Running
  PROVE  /\ Types /\ Delivered /\ Place /\ lim \in ends
         /\ Len(calls) \in Nat /\ Len(input.calls) \in Nat /\ Len(calls) <= Len(input.calls)
         /\ i \in Nat /\ mark \in Nat /\ lim \in Nat /\ mark <= i /\ i < lim /\ i + 1 <= Len(input.bytes)
         /\ Len(input.bytes) \in Nat
<1>1. Types /\ Delivered /\ Place /\ lim \in ends /\ Ordered(calls)
  BY DEF IInv, Tracked, Running, Order
<1>2. Len(calls) \in Nat
  BY <1>1 DEF Ordered
<1>3. Len(input.calls) \in Nat /\ Len(input.bytes) \in Nat
  BY <1>1, KnownTyped
<1> QED BY <1>1, <1>2, <1>3 DEF Delivered, Types, Running

\* The last callback, as the body has it.
LEMMA LastKnown ==
  ASSUME IInv, Delivered
  PROVE  \/ calls = << >> /\ Len(calls) = 0 /\ Last(calls) = "none"
         \/ Len(calls) \in 1 .. Len(input.calls) /\ Last(calls) = Cb(input, Len(calls))
            /\ calls # << >>
<1>1. calls \in Seq(Call) /\ Len(calls) \in Nat
  BY DEF IInv, Order, Ordered
<1>2. CASE calls = << >>
  BY <1>2 DEF Last
<1>3. CASE calls # << >>
  <2>1. Len(calls) > 0 /\ Len(calls) \in 1 .. Len(calls)
    BY <1>1, <1>3
  <2>2. calls[Len(calls)].cb = Cb(input, Len(calls)) /\ Len(calls) <= Len(input.calls)
    BY <2>1 DEF Delivered
  <2>3. Len(calls) \in 1 .. Len(input.calls)
    <3>1. Len(calls) >= 1 /\ Len(calls) <= Len(input.calls)
      BY <1>1, <2>1, <2>2
    <3> QED BY <1>1, <2>1, <2>2, KnownTyped DEF IInv
  <2> QED BY <1>3, <2>2, <2>3 DEF Last
<1> QED BY <1>2, <1>3

\* Nothing is handed over.
LEMMA Same ==
  ASSUME UNCHANGED <<input, calls>>, ends \subseteq ends'
  PROVE  /\ Delivered => Delivered'
         /\ Done => Done'
         /\ \A k : Due(k)' => Due(k)
         /\ \A cb : Reading(cb)' = Reading(cb)
         /\ \A k : Got(k)' = Got(k)
         /\ \A k : Lo(input, k)' = Lo(input, k) /\ Hi(input, k)' = Hi(input, k)
                   /\ Cb(input, k)' = Cb(input, k)
         /\ \A a, b : From(a, b)' = From(a, b)
<1>1. \A k : Due(k)' => Due(k)
  BY DEF Due, Cb
<1>2. /\ \A k : Lo(input, k)' = Lo(input, k) /\ Hi(input, k)' = Hi(input, k)
                   /\ Cb(input, k)' = Cb(input, k)
      /\ \A a, b : From(a, b)' = From(a, b)
      /\ \A k : Got(k)' = Got(k)
      /\ \A cb : Reading(cb)' = Reading(cb)
  BY DEF Lo, Hi, Cb, From, Got, Reading, Last
<1>3. \A k : Exact(k) => Exact(k)'
  BY DEF Exact, From, Lo, Hi
<1>4. Done => Done'
  BY <1>1, <1>3 DEF Done
<1>5. ASSUME Delivered PROVE Delivered'
  <2>1. ASSUME NEW k \in 1 .. Len(calls'), Due(k)'
        PROVE  \E m \in Lo(input, k)' .. Hi(input, k)' : calls'[k].data = From(Lo(input, k), m)'
    <3>1. PICK m \in Lo(input, k) .. Hi(input, k) : calls[k].data = From(Lo(input, k), m)
      BY <1>1, <1>5, <2>1 DEF Delivered
    <3>2. From(Lo(input, k), m)' = From(Lo(input, k), m)
      BY DEF From, Lo
    <3> QED BY <1>2, <3>1, <3>2
  <2>2. \A k \in 1 .. Len(calls') : calls'[k].cb = Cb(input, k)' /\ (Due(k)' /\ k < Len(calls') => Exact(k)')
    BY <1>1, <1>2, <1>3, <1>5 DEF Delivered
  <2>3. Len(calls') <= Len(input'.calls)
    BY <1>5 DEF Delivered
  <2> QED BY <2>1, <2>2, <2>3 DEF Delivered
<1> QED BY <1>1, <1>2, <1>4, <1>5

-----------------------------------------------------------------------------
(***************************************************************************)
(* Names, values and data of parts come in pieces                          *)
(***************************************************************************)
InString(cb, mk) ==
  LET k == Reading(cb)
  IN  /\ k \in 1 .. Len(input.calls) /\ Cb(input, k) = cb
      /\ Lo(input, k) <= i /\ i <= Hi(input, k)
      /\ Due(k) => Lo(input, k) <= mk /\ Got(k) = From(Lo(input, k), mk)
      /\ k = Len(calls) + 1 => Done

LEMMA WithinNext ==
  ASSUME UNCHANGED <<input, lim, ends, pc>>, Running, NEW cb, NEW k \in 1 .. Len(input.calls),
         Reading(cb)' = k, Cb(input, k) = cb, Lo(input, k) <= i', i' <= Hi(input, k),
         NEW u, i' < lim => u = mark', ~(i' < lim) => u = i',
         Due(k) => Lo(input, k) <= u /\ Got(k)' = From(Lo(input, k), u),
         k = Len(calls') + 1 => Done'
  PROVE  Within(cb)'
<1>1. Upto' = u
  BY DEF Upto, Running
<1>2. Due(k)' <=> Due(k)
  BY DEF Due, Cb
<1>3. Lo(input, k)' = Lo(input, k) /\ Hi(input, k)' = Hi(input, k) /\ Cb(input, k)' = Cb(input, k)
  BY DEF Lo, Hi, Cb
<1>4. From(Lo(input, k), Upto)' = From(Lo(input, k), u)
  BY <1>1, <1>3 DEF From
<1>5. k <= Len(input'.calls)
  BY KnownTyped
<1> QED BY <1>1, <1>2, <1>3, <1>4, <1>5 DEF Within

\* One more byte of a string, and no callback.
LEMMA StringQuiet ==
  ASSUME IInv, Tracked, input.known, Running, NEW cb, NEW mk \in {mark, i}, InString(cb, mk),
         i < Hi(input, Reading(cb)), Quiet, UNCHANGED <<input, lim, ends, pc>>,
         i' = i + 1, mark' = mk, ~is_last \/ ~Due(Reading(cb))
  PROVE  Within(cb)' /\ Delivered'
<1>k. PICK k : k = Reading(cb)
  OBVIOUS
<1>0. /\ i \in Nat /\ mark \in Nat /\ lim \in Nat /\ mark <= i /\ i < lim /\ Delivered
      /\ UNCHANGED <<input, calls>> /\ ends \subseteq ends'
  BY Known DEF Quiet
<1>1. /\ k \in 1 .. Len(input.calls) /\ Cb(input, k) = cb
      /\ Lo(input, k) <= i
      /\ Due(k) => Lo(input, k) <= mk /\ Got(k) = From(Lo(input, k), mk)
      /\ k = Len(calls) + 1 => Done
      /\ Hi(input, k) \in Nat /\ Lo(input, k) \in Nat
  BY <1>k, KnownTyped DEF InString, IInv
<1>2. Delivered' /\ Reading(cb)' = k /\ Got(k)' = Got(k) /\ (k = Len(calls') + 1 => Done')
  BY <1>k, <1>0, <1>1, Same DEF Quiet
<1> DEFINE u == IF i' < lim THEN mark' ELSE i'
<1>3. Due(k) => Lo(input, k) <= u /\ Got(k)' = From(Lo(input, k), u)
  <2>1. Due(k) => u = mk
    BY <1>k, <1>0 DEF is_last
  <2> HIDE DEF u
  <2> QED BY <1>1, <1>2, <2>1
<1>4. Lo(input, k) <= i' /\ i' <= Hi(input, k)
  BY <1>k, <1>0, <1>1
<1>5. (i' < lim => u = mark') /\ (~(i' < lim) => u = i')
  OBVIOUS
<1> HIDE DEF u
<1> QED BY <1>1, <1>2, <1>3, <1>4, <1>5, WithinNext

\* A callback with the bytes of a string up to n.
LEMMA StringPiece ==
  ASSUME IInv, Tracked, input.known, Running, NEW cb \in DataCallbacks, NEW mk \in {mark, i}, InString(cb, mk),
         NEW n \in {i, i + 1}, n <= Hi(input, Reading(cb)), calls' = Recorded(cb, From(mk, n)),
         UNCHANGED <<input, ends>>,
         NEW k, k = Reading(cb)
  PROVE  /\ Delivered' /\ Len(calls') = k /\ Last(calls') = cb /\ Reading(cb)' = k
         /\ Due(k) => Got(k)' = From(Lo(input, k), n)
         /\ n = Hi(input, k) => Done'
<1>0. /\ i \in Nat /\ mark \in Nat /\ mark <= i /\ i + 1 <= Len(input.bytes) /\ Len(input.bytes) \in Nat
      /\ Delivered /\ Types /\ cb \in Callbacks
  BY Known DEF Callbacks
<1>1. /\ k \in 1 .. Len(input.calls) /\ Cb(input, k) = cb
      /\ Lo(input, k) <= i /\ n <= Hi(input, k)
      /\ Due(k) => Lo(input, k) <= mk /\ Got(k) = From(Lo(input, k), mk)
      /\ k = Len(calls) + 1 => Done
      /\ Hi(input, k) \in Nat /\ Lo(input, k) \in Nat
  BY KnownTyped DEF InString, IInv
<1>2. Due(k) => Got(k) \o From(mk, n) = From(Lo(input, k), n)
  <2>1. /\ mk \in Nat /\ n \in Nat /\ mk <= n /\ n <= Len(input.bytes)
    BY <1>0
  <2>2. Due(k) => From(Lo(input, k), mk) \o From(mk, n) = From(Lo(input, k), n)
    <3>1. ASSUME Due(k) PROVE Lo(input, k) \in Nat /\ Lo(input, k) <= mk /\ Types
      BY <1>0, <1>1, <3>1
    <3> QED BY <2>1, <3>1, Joined
  <2> QED BY <1>1, <2>2
<1>3. From(mk, n) \in Seq(Byte)
  BY <1>0, PieceTyped
<1>4. n \in Lo(input, k) .. Hi(input, k)
  BY <1>0, <1>1
<1>5. /\ Delivered' /\ Len(calls') = k /\ Last(calls') = cb
      /\ Due(k) => calls'[k].data = From(Lo(input, k), n)
      /\ (Due(k) => n = Hi(input, k)) => Done'
  BY ZenonT(40), <1>0, <1>1, <1>2, <1>3, <1>4, Handing
<1>6. Reading(cb)' = k
  BY <1>5 DEF Reading
<1>7. Got(k)' = calls'[k].data
  BY <1>5 DEF Got
<1> QED BY <1>5, <1>6, <1>7

\* The same at the end of a chunk: the string goes on in the next.
LEMMA StringChunk ==
  ASSUME IInv, Tracked, input.known, Running, NEW cb \in DataCallbacks, NEW mk \in {mark, i}, InString(cb, mk),
         i < Hi(input, Reading(cb)), calls' = Recorded(cb, From(mk, i + 1)), is_last,
         UNCHANGED <<input, ends>>
  PROVE  /\ Delivered'
         /\ i' = i + 1 /\ mark' = mk /\ UNCHANGED <<pc, lim>> => Within(cb)'
<1>k. PICK k : k = Reading(cb)
  OBVIOUS
<1>0. /\ k \in 1 .. Len(input.calls) /\ Cb(input, k) = cb /\ i \in Nat /\ lim \in Nat
      /\ Lo(input, k) <= i /\ Hi(input, k) \in Nat /\ Lo(input, k) \in Nat
      /\ i + 1 <= Hi(input, k) /\ i + 1 = lim
  BY <1>k, Known, KnownTyped DEF InString, is_last
<1>1. /\ Delivered' /\ Len(calls') = k /\ Reading(cb)' = k
      /\ Due(k) => Got(k)' = From(Lo(input, k), i + 1)
  BY <1>k, <1>0, StringPiece
<1>2. ASSUME i' = i + 1, mark' = mk, UNCHANGED <<pc, lim>> PROVE Within(cb)'
  <2> DEFINE u == IF i' < lim THEN mark' ELSE i'
  <2>1. u = i + 1 /\ Lo(input, k) <= u
    BY <1>0, <1>2
  <2>2. k # Len(calls') + 1
    BY <1>0, <1>1
  <2>3. Due(k) => Lo(input, k) <= u /\ Got(k)' = From(Lo(input, k), u)
    BY <1>1, <2>1
  <2>4. Lo(input, k) <= i' /\ i' <= Hi(input, k)
    BY <1>0, <1>2
  <2>5. (i' < lim => u = mark') /\ (~(i' < lim) => u = i')
    OBVIOUS
  <2> HIDE DEF u
  <2> QED BY <1>0, <1>1, <1>2, <2>2, <2>3, <2>4, <2>5, WithinNext
<1> QED BY <1>1, <1>2

-----------------------------------------------------------------------------
(***************************************************************************)
(* Actions                                                                 *)
(***************************************************************************)
LEMMA PlaceKept ==
  ASSUME Place, parser.state \in States, UNCHANGED <<parser, i, calls>>,
         After(0) => After(0)', After(1) => After(1)', After(2) => After(2)',
         Withheld(1) => Withheld(1)', Withheld(2 + parser.index) => Withheld(2 + parser.index)',
         Before("header_value") => Before("header_value")',
         Before("headers_complete") => Before("headers_complete")',
         Before("body_end") => Before("body_end")', Before("part_data_begin") => Before("part_data_begin")',
         Within("header_field") => Within("header_field")', Within("header_value") => Within("header_value")',
         Within("part_data") => Within("part_data")',
         Matching => Matching', Blanks => Blanks', LineEnd => LineEnd', Epilogue => Epilogue'
  PROVE  Place'
<1>1. CASE parser.state \in {"s_start", "s_start_boundary", "s_header_field_start", "s_header_field"}
  BY <1>1 DEF Place
<1>2. CASE parser.state \in {"s_header_value_start", "s_header_value", "s_header_value_almost_done"}
  BY <1>2 DEF Place
<1>3. CASE parser.state \in {"s_headers_almost_done", "s_part_data_start", "s_part_data", "s_part_data_almost_boundary"}
  BY <1>3 DEF Place
<1>4. CASE parser.state = "s_part_data_boundary"
  BY <1>4 DEF Place
<1>5. CASE parser.state \in {"s_part_data_almost_end", "s_part_data_final_hyphen", "s_part_data_end", "s_end"}
  BY <1>5 DEF Place
<1> QED BY <1>1, <1>2, <1>3, <1>4, <1>5 DEF States

\* Chunks begin and end: what has been handed over and where the parser is do
\* not change.
LEMMA Kept ==
  ASSUME Types, Delivered, Place, UNCHANGED <<input, parser, i, calls>>, ends \subseteq ends', Upto' = Upto
  PROVE  Delivered' /\ Place'
<1>1. /\ Delivered' /\ (Done => Done') /\ \A k : Due(k)' => Due(k)
      /\ \A cb : Reading(cb)' = Reading(cb)
      /\ \A k : Got(k)' = Got(k)
      /\ \A k : Lo(input, k)' = Lo(input, k) /\ Hi(input, k)' = Hi(input, k)
                /\ Cb(input, k)' = Cb(input, k)
      /\ \A a, b : From(a, b)' = From(a, b)
  BY Same
<1>2. ASSUME NEW cb, Within(cb) PROVE Within(cb)'
  <2>1. PICK k : k = Reading(cb)
    OBVIOUS
  <2>2. From(Lo(input, k), Upto)' = From(Lo(input, k), Upto)
    BY DEF From, Lo
  <2> QED BY <1>1, <1>2, <2>1, <2>2 DEF Within
<1>3. ASSUME NEW x PROVE (Withheld(x) => Withheld(x)') /\ (After(x) => After(x)') /\ (Before(x) => Before(x)')
  BY <1>1 DEF Withheld, After, Before, Lo, Hi, Cb, From, Behind
<1>4. /\ Matching => Matching'
      /\ Blanks => Blanks'
      /\ LineEnd => LineEnd'
      /\ Epilogue => Epilogue'
  BY <1>1 DEF Matching, Blanks, LineEnd, Epilogue, Lo, Hi, Cb, Behind, Reads
<1>5. Withheld(2 + parser.index) => Withheld(2 + parser.index)'
  <2>1. PICK x : x = 2 + parser.index
    OBVIOUS
  <2>2. x = 2 + parser'.index
    BY <2>1
  <2> QED BY <1>3, <2>1, <2>2
<1>6. Place'
  <2>1. /\ After(0) => After(0)'
        /\ After(1) => After(1)'
        /\ After(2) => After(2)'
        /\ Withheld(1) => Withheld(1)'
        /\ Before("header_value") => Before("header_value")'
        /\ Before("headers_complete") => Before("headers_complete")'
        /\ Before("body_end") => Before("body_end")'
        /\ Before("part_data_begin") => Before("part_data_begin")'
    BY <1>3
  <2>2. /\ Within("header_field") => Within("header_field")'
        /\ Within("header_value") => Within("header_value")'
        /\ Within("part_data") => Within("part_data")'
    BY <1>2
  <2>3. parser.state \in States
    BY Basics
  <2> QED BY <1>4, <1>5, <2>1, <2>2, <2>3, PlaceKept
<1> QED BY <1>1, <1>6

LEMMA ExecuteTracked ==
  ASSUME IInv, Tracked, input.known, NEW n \in 1 .. Len(input.bytes), Execute(n)
  PROVE  Tracked'
<1>0. /\ pc = "idle" /\ pc' = "loop" /\ lim' = i + n /\ mark' = i /\ ends' = ends \cup {i + n}
      /\ UNCHANGED <<input, parser, i, faults, calls>> /\ i \in Nat /\ Delivered /\ Place
      /\ lim' \in ends' /\ i < lim' /\ Types
  BY DEF Execute, Tracked, IInv, Types
<1>1. Upto' = Upto
  BY <1>0 DEF Upto, Running
<1>2. Delivered' /\ Place'
  BY <1>0, <1>1, Kept
<1> QED BY <1>0, <1>2 DEF Tracked

LEMMA EndOfChunkTracked ==
  ASSUME IInv, Tracked, input.known, EndOfChunk
  PROVE  Tracked'
<1>0. /\ pc = "loop" /\ i = lim /\ pc' = "idle" /\ Delivered /\ Place /\ Types /\ lim \in Nat
      /\ UNCHANGED <<input, parser, i, lim, mark, ends, faults, calls>>
  BY DEF EndOfChunk, Tracked, IInv, Types
<1>1. Upto' = Upto
  BY <1>0 DEF Upto, Running
<1>2. Delivered' /\ Place'
  BY <1>0, <1>1, Kept
<1> QED BY <1>0, <1>2 DEF Tracked

\* A callback without data is made where it belongs.
LEMMA Notified ==
  ASSUME IInv, input.known, Delivered, Done, UNCHANGED <<input, ends>>,
         NEW cb \in Callbacks \ DataCallbacks, Before(cb), calls' = Recorded(cb, << >>)
  PROVE  /\ Delivered' /\ Done' /\ Len(calls') = Len(calls) + 1 /\ Last(calls') = cb
         /\ Len(calls) + 1 \in 1 .. Len(input.calls) /\ Cb(input, Len(calls) + 1) = cb
<1>0. Types /\ Len(calls) \in Nat /\ Len(input.calls) \in Nat
  BY KnownTyped DEF IInv, Order, Ordered
<1>1. PICK k : k = Len(calls) + 1
  OBVIOUS
<1>2. k \in 1 .. Len(input.calls) /\ Cb(input, k) = cb /\ k = Reading(cb)
  BY <1>0, <1>1 DEF Before, Reading
<1>3. /\ Lo(input, k) \in Nat /\ Hi(input, k) \in Nat /\ Lo(input, k) = Hi(input, k)
      /\ Hi(input, k) <= Len(input.bytes)
  BY <1>0, <1>2, Spot
<1>4. PICK m : m = Hi(input, k)
  OBVIOUS
<1>5. /\ m \in Lo(input, k) .. Hi(input, k) /\ << >> \in Seq(Byte)
      /\ Got(k) \o << >> = From(Lo(input, k), m)
  <2>1. From(m, m) = << >> /\ << >> \o << >> = << >> /\ << >> \in Seq(Byte)
    BY <1>0, <1>3, <1>4, NothingYet
  <2>2. Got(k) = << >>
    BY <1>0, <1>1 DEF Got
  <2> QED BY <1>3, <1>4, <2>1, <2>2
<1>6. /\ Delivered' /\ Len(calls') = k /\ Last(calls') = cb
      /\ (Due(k) => m = Hi(input, k)) => Done'
  <2>1. cb \in Callbacks /\ << >> \in Seq(Byte) /\ m \in Lo(input, k) .. Hi(input, k)
    BY <1>5
  <2>2. Due(k) => Got(k) \o << >> = From(Lo(input, k), m)
    BY <1>5
  <2> QED BY ZenonT(40), <1>2, <2>1, <2>2, Handing
<1> QED BY <1>1, <1>2, <1>4, <1>6

LEMMA StartBoundaryTracked ==
  ASSUME IInv, Tracked, input.known, StartBoundary
  PROVE  Tracked'
<1> DEFINE n == IF parser.state = "s_start" THEN 0 ELSE parser.index
<1> DEFINE next == [parser EXCEPT !.state = "s_start_boundary", !.index = n + 1]
<1> DEFINE done == [next EXCEPT !.index = 0]
<1> DEFINE r == [done EXCEPT !.state = "s_header_field_start"]
<1>0. /\ Running /\ parser.state \in {"s_start", "s_start_boundary"}
  BY RunningAt DEF StartBoundary
<1>1. /\ Types /\ Delivered /\ Place /\ Len(calls) \in Nat /\ i \in Nat /\ i + 1 <= Len(input.bytes)
      /\ parser \in Parsers /\ boundary_length \in Nat
  BY <1>0, Known, Basics DEF Types
<1>2. Len(calls) = 0 /\ n = i /\ n \in Nat /\ n \in 0 .. boundary_length + 1
  BY <1>0, <1>1, Basics DEF Place
<1>3. c = (input.boundary \o <<"CR", "LF">>)[n + 1]
  <2>1. n + 1 \in 1 .. boundary_length + 2
    BY <1>1, <1>2
  <2> QED BY <1>1, <1>2, <2>1, FirstBoundary DEF c
<1>4. /\ next.state = "s_start_boundary" /\ next.index = n + 1
      /\ r.state = "s_header_field_start"
  <2>1. parser \in [state : States, index : 0 .. boundary_length + 1, lookbehind : Seq(Byte)]
    BY <1>1 DEF Parsers
  <2> HIDE DEF n
  <2>2. next \in [state : States, index : Nat, lookbehind : Seq(Byte)] /\ next.state = "s_start_boundary" /\ next.index = n + 1
    <3>1. parser \in [state : States, index : Nat, lookbehind : Seq(Byte)] /\ n + 1 \in Nat
          /\ "s_start_boundary" \in States
      BY <1>1, <1>2, <2>1 DEF States
    <3> QED BY <3>1
  <2> HIDE DEF next
  <2> QED BY <2>2
<1> HIDE DEF n, next, done
<1>5. CASE Step(next)
  <2>1. /\ UNCHANGED <<input, calls, ends, lim, pc>> /\ parser' = next /\ i' = i + 1
    BY <1>5 DEF Step, Continue, Quiet
  <2>2. Delivered'
    BY <1>1, <2>1, Same
  <2>3. Place'
    BY <1>2, <1>4, <2>1 DEF Place
  <2> QED BY <1>0, <2>1, <2>2, <2>3, Onward
<1>6. CASE n = boundary_length + 1 /\ Callback("part_data_begin", << >>, Continue(r, i + 1, mark), done)
  <2>1. Called(r, i + 1, mark, done) /\ calls' = Recorded("part_data_begin", << >>)
    BY <1>6 DEF Callback, Continue, Fails, Stop, Called
  <2>2. /\ Cb(input, 1) = "part_data_begin" /\ 1 \in 1 .. Len(input.calls)
        /\ Hi(input, 1) = boundary_length + 2 /\ Behind(input, 1) = Hi(input, 1)
    BY <1>1, FirstBoundary
  <2>3. "part_data_begin" \in Callbacks \ DataCallbacks /\ Done /\ Before("part_data_begin")
    BY <1>2, <2>2 DEF Callbacks, DataCallbacks, Done, Before
  <2>4. UNCHANGED <<input, ends>>
    BY <2>1 DEF Called
  <2>7. Delivered' /\ Len(calls') = 1 /\ Done'
    BY <1>1, <1>2, <2>1, <2>3, <2>4, Notified
  <2>8. ASSUME parser' = r, i' = i + 1 PROVE Place'
    <3>1. Behind(input, 1)' = Behind(input, 1)
      BY <2>1 DEF Called, Behind, Hi, Cb
    <3>2. i' = Behind(input, 1) + 0
      <4>1. Behind(input, 1) = boundary_length + 2 /\ i = boundary_length + 1
        BY <1>2, <1>6, <2>2
      <4> QED BY <1>1, <2>8, <4>1
    <3>3. After(0)'
      BY <2>7, <3>1, <3>2 DEF After
    <3> QED BY <1>4, <2>8, <3>3 DEF Place
  <2> QED BY <1>0, <2>1, <2>7, <2>8, OnwardOrFailed
<1> QED BY <1>2, <1>3, <1>5, <1>6 DEF StartBoundary, n, next, done

\* Behind a callback of a well formed body, no name follows a name and no value
\* a value: what is not being read yet is the next thing.
LEMMA ReadingNext ==
  ASSUME IInv, Tracked, input.known, Running, NEW cb, Last(calls) # cb
  PROVE  Reading(cb) = Len(calls) + 1 /\ Got(Reading(cb)) = << >>
<1>1. Reading(cb) = Len(calls) + 1
  BY DEF Reading
<1>2. Len(calls) \in Nat
  BY Known
<1> QED BY <1>1, <1>2 DEF Got

LEMMA InStringAgain ==
  ASSUME IInv, Tracked, input.known, Running, NEW cb, Within(cb)
  PROVE  InString(cb, mark)
<1>1. Upto = mark
  BY DEF Upto
<1>2. PICK k : k = Reading(cb)
  OBVIOUS
<1>3. k \in {Len(calls), Len(calls) + 1} /\ Len(calls) \in Nat /\ Len(input.calls) \in Nat
  BY <1>2, Known DEF Reading
<1>4. k > 0
  <2>1. CASE k = Len(calls)
    <3>1. Last(calls) = cb /\ cb \in DataCallbacks
      BY <1>2, <1>3, <2>1 DEF Reading
    <3>2. calls # << >>
      BY <3>1 DEF Last, DataCallbacks
    <3>3. Len(calls) # 0
      BY <3>2 DEF IInv, Order, Ordered
    <3> QED BY <1>3, <2>1, <3>3
  <2>2. CASE k = Len(calls) + 1
    BY <1>3, <2>2
  <2> QED BY <1>3, <2>1, <2>2
<1>5. k \in 1 .. Len(input.calls)
  BY <1>2, <1>3, <1>4 DEF Within
<1> QED BY <1>1, <1>2, <1>5 DEF Within, InString

\* A string begins here.
LEMMA InStringFirst ==
  ASSUME IInv, Tracked, input.known, Running, NEW cb \in DataCallbacks, Last(calls) # cb, Before(cb), Done,
         i = Lo(input, Len(calls) + 1)
  PROVE  InString(cb, i)
<1>0. /\ Types /\ Len(calls) \in Nat /\ Len(input.calls) \in Nat /\ i \in Nat /\ i <= Len(input.bytes)
  BY Known
<1>1. PICK k : k = Len(calls) + 1
  OBVIOUS
<1>2. k \in 1 .. Len(input.calls) /\ Cb(input, k) = cb /\ k = Reading(cb) /\ Got(k) = << >>
  BY <1>0, <1>1, ReadingNext DEF Before
<1>3. Lo(input, k) <= Hi(input, k) /\ i = Lo(input, k)
  BY <1>0, <1>1, <1>2, Spot
<1>4. From(i, i) = << >>
  BY <1>0, NothingYet
<1> QED BY <1>0, <1>1, <1>2, <1>3, <1>4 DEF InString

LEMMA AfterNow ==
  ASSUME IInv, Tracked, input.known, Running, After(0)
  PROVE  Done /\ i = Behind(input, Len(calls)) /\ Len(calls) \in 1 .. Len(input.calls)
<1>1. Len(calls) \in 1 .. Len(input.calls)
  BY Known DEF After
<1>2. Behind(input, Len(calls)) \in Nat
  BY <1>1, Known, KnownTyped
<1> QED BY <1>1, <1>2 DEF After

LEMMA HeaderFieldTracked ==
  ASSUME IInv, Tracked, input.known, HeaderField
  PROVE  Tracked'
<1> DEFINE mk == IF parser.state = "s_header_field_start" THEN i ELSE mark
<1> DEFINE in == [parser EXCEPT !.state = "s_header_field"]
<1> DEFINE to(x) == [parser EXCEPT !.state = x]
<1>0. /\ Running /\ Types /\ mk \in {mark, i} /\ parser.state \in {"s_header_field_start", "s_header_field"}
      /\ Last(calls) \in LastIn(parser.state) /\ lim \in ends
      /\ Delivered /\ Place /\ Len(calls) \in Nat /\ i \in Nat /\ lim \in Nat /\ i + 1 <= Len(input.bytes)
      /\ Len(input.calls) \in Nat
  BY RunningAt, Known DEF HeaderField, At, IInv, Order
<1>t. \A x \in {"s_headers_almost_done", "s_header_field", "s_header_value_start"} : to(x).state = x
  BY <1>0 DEF Types, Parsers
<1>l. Letters \cap {"CR", "LF", "-", ":", " "} = {}
  BY MultipartAssumption
<1> HIDE DEF to
<1>1. CASE parser.state = "s_header_field_start" /\ Before("headers_complete")
  <2>1. Len(calls) \in 1 .. Len(input.calls) /\ Len(calls) + 1 \in 1 .. Len(input.calls)
        /\ i = Behind(input, Len(calls)) /\ Done /\ (Len(calls) + 1) - 1 = Len(calls)
    BY <1>0, <1>1, BehindTyped DEF Place, After, Before
  <2>2. c = "CR"
    <3>1. PICK k : k = Len(calls) + 1
      OBVIOUS
    <3>2. k \in 1 .. Len(input.calls) /\ Cb(input, k) = "headers_complete" /\ i = Behind(input, k - 1)
      BY <1>1, <2>1, <3>1 DEF Before
    <3> QED BY <1>0, <3>2, TwoBytes DEF c
  <2>3. Continue(to("s_headers_almost_done"), i + 1, mk) /\ Quiet
    BY <1>l, <2>2 DEF HeaderField, to
  <2>4. /\ UNCHANGED <<input, calls, ends, lim, pc>> /\ i' = i + 1
        /\ parser' = to("s_headers_almost_done")
    BY <2>3 DEF Continue, Quiet
  <2>5. Delivered' /\ Done'
    BY <1>0, <2>1, <2>4, Same
  <2>6. Before("headers_complete")'
    BY <1>1, <2>4 DEF Before, Cb
  <2>7. After(1)'
    BY <2>1, <2>4, <2>5 DEF After, Behind, Hi, Cb
  <2>8. Place'
    BY <1>t, <2>4, <2>6, <2>7 DEF Place
  <2> QED BY <1>0, <2>4, <2>5, <2>8, Onward
<1>2. CASE InString("header_field", mk)
  <2>k. PICK k : k = Reading("header_field")
    OBVIOUS
  <2>1. /\ k \in 1 .. Len(input.calls) /\ Cb(input, k) = "header_field" /\ Lo(input, k) <= i /\ i <= Hi(input, k)
        /\ Lo(input, k) \in Nat /\ Hi(input, k) \in Nat /\ "header_field" \in DataCallbacks
    BY <1>0, <1>2, <2>k, KnownTyped DEF InString, DataCallbacks
  <2>2. /\ i < Hi(input, k) => c \in Letters \cup {"-"}
        /\ i = Hi(input, k) => c = ":"
    <3>1. CASE i < Hi(input, k)
      <4>1. i + 1 \in Lo(input, k) + 1 .. Hi(input, k)
        BY <1>0, <2>1, <3>1
      <4> QED BY <1>0, <2>1, <4>1, <3>1, Name DEF c
    <3>2. CASE i = Hi(input, k)
      BY <1>0, <2>1, <3>2, Name DEF c
    <3> QED BY <1>0, <2>1, <3>1, <3>2
  <2>3. CASE i < Hi(input, k) /\ Continue(to("s_header_field"), i + 1, mk) /\ Quiet /\ (~is_last \/ c = "-")
    <3>1. /\ UNCHANGED <<input, calls, ends, lim, pc>> /\ i' = i + 1 /\ mark' = mk
          /\ parser' = to("s_header_field")
      BY <2>3 DEF Continue, Quiet
    <3>2. ~is_last \/ ~Due(k)
      <4>1. SUFFICES ASSUME is_last PROVE ~Due(k)
        OBVIOUS
      <4>2. lim = i + 1 /\ input.bytes[lim] = "-" /\ lim \in Lo(input, k) + 1 .. Hi(input, k)
        BY <1>0, <2>1, <2>3, <4>1 DEF is_last, c
      <4>3. lim \in Fragile(input)
        BY <2>1, <4>2 DEF Fragile
      <4>4. input.fragile = Fragile(input)
        BY <1>0, KnownTyped
      <4> QED BY <1>0, <2>1, <4>3, <4>4 DEF Due
    <3>3. Within("header_field")' /\ Delivered'
      BY <1>0, <1>2, <2>k, <2>3, <3>1, <3>2, StringQuiet
    <3>4. Place'
      BY <1>t, <3>1, <3>3 DEF Place
    <3> QED BY <1>0, <3>1, <3>3, <3>4, Onward
  <2>4. CASE /\ i < Hi(input, k) /\ is_last
             /\ Callback("header_field", From(mk, i + 1), Continue(to("s_header_field"), i + 1, mk), in)
    <3>1. Called(to("s_header_field"), i + 1, mk, in) /\ calls' = Recorded("header_field", From(mk, i + 1))
      BY <2>4 DEF Callback, Continue, Fails, Stop, Called
    <3>2. /\ Delivered'
          /\ i' = i + 1 /\ mark' = mk /\ UNCHANGED <<pc, lim>> => Within("header_field")'
      BY <1>0, <1>2, <2>k, <2>1, <2>4, <3>1, StringChunk DEF Called
    <3>3. ASSUME parser' = to("s_header_field"), i' = i + 1, mark' = mk, UNCHANGED pc PROVE Place'
      <4>1. Within("header_field")'
        BY <3>1, <3>2, <3>3 DEF Called
      <4> QED BY <1>t, <3>3, <4>1 DEF Place
    <3> QED BY <1>0, <3>1, <3>2, <3>3, OnwardOrFailed
  <2>5. CASE /\ i = Hi(input, k)
             /\ Callback("header_field", From(mk, i), Continue(to("s_header_value_start"), i + 1, mk), in)
    <3>1. Called(to("s_header_value_start"), i + 1, mk, in) /\ calls' = Recorded("header_field", From(mk, i))
      BY <2>5 DEF Callback, Continue, Fails, Stop, Called
    <3>2. Delivered' /\ Len(calls') = k /\ Done'
      BY <1>0, <1>2, <2>k, <2>1, <2>5, <3>1, StringPiece DEF Called
    <3>3. k < Len(input.calls) /\ Cb(input, k + 1) = "header_value" /\ k + 1 \in 1 .. Len(input.calls)
      BY <1>0, <2>1, Ahead
    <3>4. Behind(input, k) = i + 1 /\ i + 1 <= Lo(input, k + 1)
      <4>1. Behind(input, k) <= Lo(input, k + 1)
        <5>1. PICK j : j = k + 1
          OBVIOUS
        <5>2. j - 1 = k /\ j \in 1 .. Len(input.calls)
          BY <2>1, <3>3, <5>1
        <5> QED BY <1>0, <5>1, <5>2, Spot
      <4> QED BY <1>0, <2>1, <2>5, <4>1, BehindTable
    <3>5. ASSUME parser' = to("s_header_value_start"), i' = i + 1 PROVE Place'
      <4>1. Before("header_value")'
        BY <3>1, <3>2, <3>3 DEF Before, Called, Cb
      <4>2. Blanks'
        BY SMTT(30), <1>0, <3>1, <3>2, <3>4, <3>5 DEF Blanks, Called, Behind, Lo, Hi, Cb
      <4> QED BY <1>t, <3>5, <4>1, <4>2 DEF Place
    <3> QED BY <1>0, <3>1, <3>2, <3>5, OnwardOrFailed
  <2>6. \/ c = "CR"
        \/ /\ c = ":"
           /\ Callback("header_field", From(mk, i), Continue(to("s_header_value_start"), i + 1, mk), in)
        \/ /\ c = "-" \/ (c \in Letters /\ ~is_last)
           /\ Continue(to("s_header_field"), i + 1, mk) /\ Quiet
        \/ /\ c \in Letters /\ is_last
           /\ Callback("header_field", From(mk, i + 1), Continue(to("s_header_field"), i + 1, mk), in)
        \/ c \notin Letters \cup {"CR", "-", ":"}
    BY DEF HeaderField, to
  <2> HIDE DEF mk, in
  <2>7. c \in Letters \cup {"-"} => c \notin {"CR", ":"}
    BY <1>l
  <2>8. CASE i < Hi(input, k)
    <3>1. c \notin {"CR", ":"} /\ c \in Letters \cup {"-"}
      BY <2>2, <2>7, <2>8
    <3> QED BY <2>3, <2>4, <2>6, <2>8, <3>1
  <2>9. CASE i = Hi(input, k)
    <3>1. c = ":" /\ c \notin Letters
      BY <1>l, <2>2, <2>9
    <3>2. Callback("header_field", From(mk, i), Continue(to("s_header_value_start"), i + 1, mk), in) => Tracked'
      BY <2>5, <2>9
    <3>3. Callback("header_field", From(mk, i), Continue(to("s_header_value_start"), i + 1, mk), in)
      BY <2>6, <3>1
    <3> QED BY <3>2, <3>3
  <2> QED BY <1>0, <2>1, <2>8, <2>9
<1>3. CASE parser.state = "s_header_field_start" /\ Before("header_field")
  <2>1. Last(calls) # "header_field" /\ "header_field" \in DataCallbacks
    BY <1>0, <1>3, LastInTable DEF DataCallbacks
  <2>2. Done /\ i = Behind(input, Len(calls))
    BY <1>0, <1>3, AfterNow DEF Place
  <2>3. i = Lo(input, Len(calls) + 1)
    <3>1. PICK k : k = Len(calls) + 1
      OBVIOUS
    <3>2. k \in 1 .. Len(input.calls)
      <4>1. Len(calls) < Len(input.calls)
        BY <1>3 DEF Before
      <4> QED BY <1>0, <3>1, <4>1
    <3>3. k - 1 = Len(calls) /\ Cb(input, k) = "header_field"
      BY <1>0, <1>3, <3>1 DEF Before
    <3> QED BY <1>0, <2>2, <3>1, <3>2, <3>3, Bare
  <2>4. InString("header_field", i)
    BY <1>0, <1>3, <2>1, <2>2, <2>3, InStringFirst
  <2> QED BY <1>2, <1>3, <2>4
<1>4. CASE parser.state = "s_header_field"
  <2>1. Within("header_field")
    BY <1>0, <1>4 DEF Place
  <2> QED BY <1>0, <1>2, <1>4, <2>1, InStringAgain
<1>5. parser.state = "s_header_field_start" => Before("headers_complete") \/ Before("header_field")
  <2> SUFFICES ASSUME parser.state = "s_header_field_start"
               PROVE  Before("headers_complete") \/ Before("header_field")
    OBVIOUS
  <2>1. Last(calls) \in {"part_data_begin", "header_value"}
    BY <1>0, LastInTable
  <2>2. Len(calls) \in 1 .. Len(input.calls) /\ Cb(input, Len(calls)) \in {"part_data_begin", "header_value"}
    BY <1>0, <2>1, LastKnown
  <2> QED BY <1>0, <2>2, Ahead DEF Before
<1> QED BY <1>0, <1>1, <1>3, <1>4, <1>5

\* A step to state x that makes no callback.
LEMMA GoneTo ==
  ASSUME IInv, Tracked, input.known, Running, NEW x, Goto(x)
  PROVE  /\ UNCHANGED <<input, calls, ends>> /\ i' = i + 1 /\ parser'.state = x
         /\ Done => Done'
         /\ \A cb : Before(cb) => Before(cb)'
         /\ After(0) => After(1)'
         /\ After(1) => After(2)'
         /\ \A k : Behind(input, k)' = Behind(input, k)
         /\ Place' => Tracked'
<1>0. Types /\ Delivered /\ i \in Nat /\ Len(calls) \in Nat /\ Len(input.calls) \in Nat
  BY Known
<1>1. /\ UNCHANGED <<input, calls, ends, lim, pc>> /\ i' = i + 1 /\ parser' = [parser EXCEPT !.state = x]
  BY DEF Goto, Step, Continue, Quiet
<1>2. parser'.state = x
  BY <1>0, <1>1 DEF Types, Parsers
<1>3. Delivered' /\ (Done => Done')
  BY <1>0, <1>1, Same
<1>4. \A k : Behind(input, k)' = Behind(input, k) /\ Cb(input, k)' = Cb(input, k)
  BY <1>1 DEF Behind, Hi, Cb
<1>5. \A cb : Before(cb) => Before(cb)'
  BY <1>1, <1>4 DEF Before
<1>6. After(0) \/ After(1) => Len(calls) \in 1 .. Len(input.calls) /\ Behind(input, Len(calls)) \in Nat
  BY <1>0, KnownTyped DEF After, Delivered
<1>7. After(0) => After(1)'
  BY <1>0, <1>1, <1>3, <1>4, <1>6 DEF After
<1>8. After(1) => After(2)'
  BY <1>0, <1>1, <1>3, <1>4, <1>6 DEF After
<1>9. Place' => Tracked'
  BY <1>1, <1>3, Onward
<1> QED BY <1>1, <1>2, <1>3, <1>4, <1>5, <1>7, <1>8, <1>9

\* What stands before a callback without data.
LEMMA Coming ==
  ASSUME IInv, Tracked, input.known, Running, NEW cb \in {"headers_complete", "part_data_begin", "body_end"},
         Before(cb), NEW n \in {0, 1, 2}, After(n), NEW k, k = Len(calls) + 1
  PROVE  /\ k \in 1 .. Len(input.calls) /\ Cb(input, k) = cb /\ Done
         /\ n = 0 /\ cb = "body_end" => c = "-"
         /\ n = 0 /\ cb # "body_end" => c = "CR"
         /\ n = 1 /\ cb = "body_end" => c = "-"
         /\ n = 1 /\ cb # "body_end" => c = "LF"
         /\ Hi(input, k) \in Nat /\ i = (Hi(input, k) - 2) + n /\ Behind(input, k) = Hi(input, k)
<1>0. /\ Types /\ Len(calls) \in Nat /\ Len(input.calls) \in Nat /\ i \in Nat
  BY Known
<1>1. k \in 1 .. Len(input.calls) /\ Cb(input, k) = cb /\ k # 1 /\ k - 1 = Len(calls)
      /\ i = Behind(input, k - 1) + n /\ Done
  BY <1>0 DEF Before, After
<1>2. Behind(input, k - 1) \in Nat /\ Hi(input, k) \in Nat
  BY <1>0, <1>1, Spot
<1>3. /\ Behind(input, k - 1) + 2 = Hi(input, k)
      /\ cb = "body_end" => input.bytes[Behind(input, k - 1) + 1] = "-" /\ input.bytes[Behind(input, k - 1) + 2] = "-"
      /\ cb # "body_end" => input.bytes[Behind(input, k - 1) + 1] = "CR" /\ input.bytes[Behind(input, k - 1) + 2] = "LF"
  BY <1>0, <1>1, TwoBytes
<1>4. Behind(input, k) = Hi(input, k)
  BY <1>0, <1>1, BehindTable
<1>5. (n = 0 => i + 1 = Behind(input, k - 1) + 1) /\ (n = 1 => i + 1 = Behind(input, k - 1) + 2)
  BY <1>1, <1>2
<1>6. i = (Hi(input, k) - 2) + n
  BY <1>1, <1>2, <1>3
<1> QED BY <1>1, <1>2, <1>3, <1>4, <1>5, <1>6 DEF c

LEMMA OneByteTracked ==
  ASSUME IInv, Tracked, input.known, OneByte
  PROVE  Tracked'
<1>0. /\ Running /\ Types /\ parser.state \in {"s_headers_almost_done", "s_header_value_almost_done"}
      /\ Last(calls) \in LastIn(parser.state) /\ Place /\ Len(calls) \in Nat /\ i \in Nat
  BY RunningAt, Known DEF OneByte, Expect, At, IInv, Order
<1>1. CASE parser.state = "s_headers_almost_done"
  <2>1. Before("headers_complete") /\ After(1)
    BY <1>0, <1>1 DEF Place
  <2>2. c = "LF"
    <3>1. PICK k : k = Len(calls) + 1
      OBVIOUS
    <3> QED BY <1>0, <2>1, <3>1, Coming
  <2>3. Goto("s_part_data_start")
    BY <1>1, <2>2 DEF OneByte, Expect
  <2>4. /\ Before("headers_complete")' /\ After(2)' /\ parser'.state = "s_part_data_start"
        /\ Place' => Tracked'
    BY <1>0, <2>1, <2>3, GoneTo
  <2>5. Place'
    BY <2>4 DEF Place
  <2> QED BY <2>4, <2>5
<1>2. CASE parser.state = "s_header_value_almost_done"
  <2>1. LineEnd
    BY <1>0, <1>2 DEF Place
  <2>2. PICK k : k = Len(calls)
    OBVIOUS
  <2>3. k \in 1 .. Len(input.calls) /\ Cb(input, k) = "header_value" /\ i = Hi(input, k) + 1 /\ Done
    <3>1. Last(calls) = "header_value"
      BY <1>0, <1>2, LastInTable
    <3> QED BY <1>0, <2>1, <2>2, <3>1, Known, LastKnown DEF LineEnd
  <2>4. c = "LF" /\ Hi(input, k) \in Nat /\ i + 1 = Behind(input, k)
    <3>1. Hi(input, k) \in Nat /\ Behind(input, k) = Hi(input, k) + 2 /\ input.bytes[Hi(input, k) + 2] = "LF"
      BY <1>0, <2>3, Value, KnownTyped, BehindTable
    <3>2. i + 1 = Hi(input, k) + 2
      BY <2>3, <3>1
    <3> QED BY <3>1, <3>2 DEF c
  <2>5. Goto("s_header_field_start")
    BY <1>2, <2>4 DEF OneByte, Expect
  <2>6. /\ UNCHANGED <<input, calls>> /\ i' = i + 1 /\ parser'.state = "s_header_field_start" /\ Done'
        /\ Behind(input, k)' = Behind(input, k) /\ (Place' => Tracked')
    BY <1>0, <2>3, <2>5, GoneTo
  <2>7. After(0)'
    <3>1. i' = Behind(input, Len(calls))' + 0 /\ Len(calls') > 0
      <4>1. Behind(input, Len(calls))' = Behind(input, k)
        BY <2>2, <2>6
      <4>2. i + 1 = Behind(input, k) + 0
        BY <2>4, <2>6, <1>0
      <4> QED BY <2>2, <2>3, <2>6, <4>1, <4>2
    <3> QED BY <2>6, <3>1 DEF After
  <2>8. Place'
    BY <2>6, <2>7 DEF Place
  <2> QED BY <2>6, <2>8
<1> QED BY <1>0, <1>1, <1>2

LEMMA BeforeNow ==
  ASSUME IInv, Tracked, input.known, Running, NEW cb, Before(cb), NEW k, k = Len(calls) + 1
  PROVE  k \in 1 .. Len(input.calls) /\ Cb(input, k) = cb /\ k - 1 = Len(calls)
<1>1. Len(calls) \in Nat /\ Len(input.calls) \in Nat
  BY Known
<1>2. Len(calls) < Len(input.calls) /\ Cb(input, k) = cb
  BY DEF Before
<1>3. k - 1 = Len(calls)
  BY <1>1
<1> QED BY <1>1, <1>2, <1>3

LEMMA HeaderValueBlankTracked ==
  ASSUME IInv, Tracked, input.known, HeaderValueBlank
  PROVE  Tracked'
<1>0. /\ Running /\ Types /\ parser.state = "s_header_value_start"
      /\ Place /\ Delivered /\ Len(calls) \in Nat /\ i \in Nat /\ Len(input.calls) \in Nat
  BY RunningAt, Known DEF HeaderValueBlank, At
<1>c. c = " "
  BY DEF HeaderValueBlank
<1>1. Before("header_value") /\ Blanks
  BY <1>0 DEF Place
<1>2. PICK k : k = Len(calls) + 1
  OBVIOUS
<1>3. k \in 1 .. Len(input.calls) /\ Cb(input, k) = "header_value" /\ k - 1 = Len(calls)
  BY <1>0, <1>1, <1>2, BeforeNow
<1>4. /\ Lo(input, k) \in Nat /\ Behind(input, k - 1) \in Nat
  BY <1>0, <1>3, Spot
<1>d. input.bytes[Lo(input, k) + 1] # " "
  BY <1>0, <1>3, ValueBegins
<1>b. Behind(input, k - 1) <= i /\ i <= Lo(input, k) /\ Done
  BY <1>1, <1>2, <1>3 DEF Blanks
<1>5. Behind(input, k - 1) <= i /\ i < Lo(input, k)
  <2>1. i # Lo(input, k)
    BY <1>c, <1>d DEF c
  <2> QED BY <1>0, <1>b, <1>4, <2>1
<1>6. /\ UNCHANGED <<input, parser, calls, ends, lim, pc>> /\ i' = i + 1
  BY DEF HeaderValueBlank, Step, Continue, Quiet
<1>7. Delivered' /\ Done'
  BY <1>0, <1>1, <1>6, Same DEF Blanks
<1>8. Before("header_value")'
  BY <1>1, <1>6 DEF Before, Cb
<1>9. Blanks'
  <2>1. /\ Behind(input, Len(calls))' = Behind(input, k - 1)
        /\ Lo(input, Len(calls) + 1)' = Lo(input, k)
    BY <1>2, <1>3, <1>6 DEF Behind, Lo, Hi, Cb
  <2>2. Behind(input, k - 1) <= i + 1 /\ i + 1 <= Lo(input, k)
    BY <1>0, <1>4, <1>5
  <2> QED BY <1>6, <1>7, <2>1, <2>2 DEF Blanks
<1>10. Place'
  BY <1>0, <1>6, <1>8, <1>9 DEF Place
<1> QED BY <1>0, <1>6, <1>7, <1>10, Onward

LEMMA HeaderValueTracked ==
  ASSUME IInv, Tracked, input.known, HeaderValue
  PROVE  Tracked'
<1> DEFINE mk == IF parser.state = "s_header_value_start" THEN i ELSE mark
<1> DEFINE to(x) == [parser EXCEPT !.state = x]
<1>0. /\ Running /\ Types /\ mk \in {mark, i} /\ parser.state \in {"s_header_value_start", "s_header_value"}
      /\ Last(calls) \in LastIn(parser.state) /\ lim \in ends
      /\ Delivered /\ Place /\ Len(calls) \in Nat /\ i \in Nat /\ lim \in Nat /\ i + 1 <= Len(input.bytes)
      /\ Len(input.calls) \in Nat
  BY RunningAt, Known DEF HeaderValue, At, IInv, Order
<1>t. \A x \in {"s_header_value", "s_header_value_almost_done"} : to(x).state = x
  BY <1>0 DEF Types, Parsers
<1>c. \/ /\ c = "CR" /\ ~is_last
         /\ Callback("header_value", From(mk, i), Continue(to("s_header_value_almost_done"), i + 1, mk),
                     to("s_header_value"))
      \/ /\ c = "CR" /\ is_last
         /\ \/ Fails("header_value", From(mk, i), to("s_header_value"))
            \/ Callback("header_value", From(mk, i) \o From(mk, i + 1),
                        Continue(to("s_header_value_almost_done"), i + 1, mk), to("s_header_value_almost_done"))
      \/ c # "CR" /\ ~is_last /\ Continue(to("s_header_value"), i + 1, mk) /\ Quiet
      \/ /\ c # "CR" /\ is_last
         /\ Callback("header_value", From(mk, i + 1), Continue(to("s_header_value"), i + 1, mk),
                     to("s_header_value"))
  BY DEF HeaderValue, to
<1> HIDE DEF to, mk
<1>1. ASSUME InString("header_value", mk) PROVE Tracked'
  <2>k. PICK k : k = Reading("header_value")
    OBVIOUS
  <2>1. /\ k \in 1 .. Len(input.calls) /\ Cb(input, k) = "header_value" /\ Lo(input, k) <= i /\ i <= Hi(input, k)
        /\ Lo(input, k) \in Nat /\ Hi(input, k) \in Nat
        /\ "header_value" \in DataCallbacks /\ "header_value" \in Callbacks
        /\ k = Len(calls) + 1 => Done
    BY <1>0, <1>1, <2>k, KnownTyped DEF InString, DataCallbacks, Callbacks
  <2>2. /\ i < Hi(input, k) => c # "CR"
        /\ i = Hi(input, k) => c = "CR"
    <3>1. CASE i < Hi(input, k)
      <4>1. i + 1 \in Lo(input, k) + 1 .. Hi(input, k)
        BY <1>0, <2>1, <3>1
      <4> QED BY <1>0, <2>1, <4>1, <3>1, Value DEF c
    <3>2. CASE i = Hi(input, k)
      BY <1>0, <2>1, <3>2, Value DEF c
    <3> QED BY <1>0, <2>1, <3>1, <3>2
  <2>3. CASE i < Hi(input, k) /\ ~is_last /\ Continue(to("s_header_value"), i + 1, mk) /\ Quiet
    <3>1. /\ UNCHANGED <<input, calls, ends, lim, pc>> /\ i' = i + 1 /\ mark' = mk
          /\ parser' = to("s_header_value")
      BY <2>3 DEF Continue, Quiet
    <3>2. Within("header_value")' /\ Delivered'
      BY <1>0, <1>1, <2>k, <2>3, <3>1, StringQuiet
    <3>3. Place'
      BY <1>t, <3>1, <3>2 DEF Place
    <3> QED BY <1>0, <3>1, <3>2, <3>3, Onward
  <2>4. CASE /\ i < Hi(input, k) /\ is_last
             /\ Callback("header_value", From(mk, i + 1), Continue(to("s_header_value"), i + 1, mk),
                         to("s_header_value"))
    <3>1. Called(to("s_header_value"), i + 1, mk, to("s_header_value"))
          /\ calls' = Recorded("header_value", From(mk, i + 1))
      BY <2>4 DEF Callback, Continue, Fails, Stop, Called
    <3>2. /\ Delivered'
          /\ i' = i + 1 /\ mark' = mk /\ UNCHANGED <<pc, lim>> => Within("header_value")'
      BY <1>0, <1>1, <2>k, <2>1, <2>4, <3>1, StringChunk DEF Called
    <3>3. ASSUME parser' = to("s_header_value"), i' = i + 1, mark' = mk, UNCHANGED pc PROVE Place'
      <4>1. Within("header_value")'
        BY <3>1, <3>2, <3>3 DEF Called
      <4> QED BY <1>t, <3>3, <4>1 DEF Place
    <3> QED BY <1>0, <3>1, <3>2, <3>3, OnwardOrFailed
  \* The line of the value ends here.
  <2>5. ASSUME NEW data, NEW y, Delivered', Len(calls') = k, Done', i = Hi(input, k),
               Callback("header_value", data, Continue(to("s_header_value_almost_done"), i + 1, mk), to(y))
        PROVE  Tracked'
    <3>1. Called(to("s_header_value_almost_done"), i + 1, mk, to(y))
      BY <2>5 DEF Callback, Continue, Fails, Stop, Called
    <3>2. ASSUME parser' = to("s_header_value_almost_done"), i' = i + 1 PROVE Place'
      <4>1. Hi(input, Len(calls))' = Hi(input, k)
        BY <2>5, <3>1 DEF Called, Hi
      <4>2. LineEnd'
        BY <2>1, <2>5, <3>2, <4>1 DEF LineEnd
      <4> QED BY <1>t, <3>2, <4>2 DEF Place
    <3> QED BY <1>0, <2>5, <3>1, <3>2, OnwardOrFailed
  <2>6. ASSUME i = Hi(input, k), calls' = Recorded("header_value", From(mk, i)), UNCHANGED <<input, ends>>
        PROVE  Delivered' /\ Len(calls') = k /\ Done'
    BY <1>0, <1>1, <2>k, <2>1, <2>6, StringPiece
  <2>7. CASE /\ i = Hi(input, k)
             /\ Callback("header_value", From(mk, i), Continue(to("s_header_value_almost_done"), i + 1, mk),
                         to("s_header_value"))
    <3>1. calls' = Recorded("header_value", From(mk, i)) /\ UNCHANGED <<input, ends>>
      BY <2>7 DEF Callback, Continue, Fails, Stop
    <3> QED BY <2>5, <2>6, <2>7, <3>1
  <2>8. CASE i = Hi(input, k) /\ Fails("header_value", From(mk, i), to("s_header_value"))
    <3>1. /\ calls' = Recorded("header_value", From(mk, i)) /\ UNCHANGED <<input, ends>>
          /\ pc' = "stopped" /\ faults' = faults + 1
      BY <2>8 DEF Fails, Stop
    <3>2. faults' > 0
      BY <1>0, <3>1, Basics
    <3> QED BY <2>6, <2>8, <3>1, <3>2, Failed
  <2>9. CASE /\ i = Hi(input, k) /\ is_last
             /\ Callback("header_value", From(mk, i) \o From(mk, i + 1),
                         Continue(to("s_header_value_almost_done"), i + 1, mk), to("s_header_value_almost_done"))
    <3> DEFINE data == From(mk, i) \o From(mk, i + 1)
    <3>1. data \in Seq(Byte)
      <4>1. From(mk, i) \in Seq(Byte) /\ From(mk, i + 1) \in Seq(Byte)
        BY <1>0, PieceTyped
      <4> QED BY <4>1
    <3> HIDE DEF data
    <3>2. calls' = Recorded("header_value", data) /\ UNCHANGED <<input, ends>>
      BY <2>9 DEF Callback, Continue, Fails, Stop, data
    <3>3. ~Due(k)
      <4>1. lim = Hi(input, k) + 1 /\ lim \in Fragile(input)
        <5>1. lim = Hi(input, k) + 1
          BY <1>0, <2>1, <2>9 DEF is_last
        <5> QED BY <2>1, <5>1 DEF Fragile
      <4> QED BY <1>0, <2>1, <4>1, KnownTyped DEF Due
    <3>4. PICK m : m = Hi(input, k) /\ m \in Lo(input, k) .. Hi(input, k)
      BY <1>0, <2>1
    <3>5. Delivered' /\ Len(calls') = k /\ Done'
      BY <1>0, <2>k, <2>1, <3>1, <3>2, <3>3, <3>4, Handing
    <3> QED BY <2>5, <2>9, <3>5
  <2>10. CASE i < Hi(input, k)
    BY <1>c, <2>2, <2>3, <2>4, <2>10
  <2>11. CASE i = Hi(input, k)
    BY <1>c, <2>2, <2>7, <2>8, <2>9, <2>11
  <2> QED BY <1>0, <2>1, <2>10, <2>11
<1>2. CASE parser.state = "s_header_value_start"
  <2>1. Last(calls) # "header_value" /\ "header_value" \in DataCallbacks
    BY <1>0, <1>2, LastInTable DEF DataCallbacks
  <2>2. Before("header_value") /\ Blanks
    BY <1>0, <1>2 DEF Place
  <2>3. PICK k : k = Len(calls) + 1
    OBVIOUS
  <2>4. k \in 1 .. Len(input.calls) /\ Cb(input, k) = "header_value" /\ k - 1 = Len(calls)
    BY <1>0, <2>2, <2>3, BeforeNow
  <2>5. Behind(input, k - 1) <= i /\ i <= Lo(input, k) /\ Done
    BY <2>2, <2>3, <2>4 DEF Blanks
  <2>6. Lo(input, k) \in Nat /\ Behind(input, k - 1) \in Nat
    BY <1>0, <2>4, Spot
  <2>7. i = Lo(input, k)
    <3>1. CASE i < Lo(input, k)
      <4>1. i + 1 \in Behind(input, k - 1) + 1 .. Lo(input, k)
        BY <1>0, <2>5, <2>6, <3>1
      <4>2. \A j \in Behind(input, k - 1) + 1 .. Lo(input, k) : input.bytes[j] = " "
        BY <1>0, <2>4, ValueBegins
      <4>3. c = " "
        BY <4>1, <4>2 DEF c
      <4>4. c # " "
        BY <1>2 DEF HeaderValue
      <4> QED BY <4>3, <4>4
    <3> QED BY <1>0, <2>5, <2>6, <3>1
  <2>8. InString("header_value", i)
    BY <1>0, <2>1, <2>2, <2>3, <2>5, <2>7, InStringFirst
  <2>9. mk = i
    BY <1>2 DEF mk
  <2> QED BY <1>1, <2>8, <2>9
<1>3. CASE parser.state = "s_header_value"
  <2>1. Within("header_value")
    BY <1>0, <1>3 DEF Place
  <2>2. mk = mark
    BY <1>3 DEF mk
  <2> QED BY <1>0, <1>1, <2>1, <2>2, InStringAgain
<1> QED BY <1>0, <1>2, <1>3

LEMMA PartDataStartTracked ==
  ASSUME IInv, Tracked, input.known, PartDataStart
  PROVE  Tracked'
<1> DEFINE r == [parser EXCEPT !.state = "s_part_data"]
<1>0. /\ Running /\ Types /\ parser.state = "s_part_data_start"
      /\ Delivered /\ Place /\ Len(calls) \in Nat /\ i \in Nat /\ i < lim /\ i + 1 <= Len(input.bytes)
      /\ Len(input.calls) \in Nat /\ Len(input.bytes) \in Nat
  BY RunningAt, Known DEF PartDataStart, At
<1>1. r.state = "s_part_data"
  BY <1>0 DEF Types, Parsers
<1>2. Called(r, i, i, parser) /\ calls' = Recorded("headers_complete", << >>)
  BY DEF PartDataStart, Notify, Callback, Continue, Fails, Stop, Called
<1> HIDE DEF r
<1>3. Before("headers_complete") /\ After(2)
  BY <1>0 DEF Place
<1>4. PICK k : k = Len(calls) + 1
  OBVIOUS
<1>5. k \in 1 .. Len(input.calls) /\ Cb(input, k) = "headers_complete" /\ Done
      /\ Hi(input, k) \in Nat /\ i = Hi(input, k) /\ Behind(input, k) = Hi(input, k)
  <2>1. /\ k \in 1 .. Len(input.calls) /\ Cb(input, k) = "headers_complete" /\ Done
        /\ Hi(input, k) \in Nat /\ i = (Hi(input, k) - 2) + 2 /\ Behind(input, k) = Hi(input, k)
    BY <1>0, <1>3, <1>4, Coming
  <2> QED BY <2>1
<1>6. /\ Delivered' /\ Done' /\ Len(calls') = k /\ Last(calls') = "headers_complete"
  <2>1. "headers_complete" \in Callbacks \ DataCallbacks /\ UNCHANGED <<input, ends>>
    BY <1>2 DEF Callbacks, DataCallbacks, Called
  <2>2. Types
    BY <1>0
  <2> QED BY <1>0, <1>2, <1>3, <1>4, <1>5, <2>1, Notified
<1>7. PICK k1 : k1 = k + 1
  OBVIOUS
<1>8. /\ k1 \in 1 .. Len(input.calls) /\ Cb(input, k1) = "part_data" /\ k1 - 1 = k
      /\ Lo(input, k1) = i /\ i <= Hi(input, k1)
  <2>1. k < Len(input.calls) /\ Cb(input, k1) = "part_data"
    BY <1>0, <1>5, <1>7, Ahead
  <2>2. k1 \in 1 .. Len(input.calls) /\ k1 - 1 = k
    BY <1>0, <1>5, <1>7, <2>1
  <2>3. Lo(input, k1) = i
    BY <1>0, <1>5, <2>1, <2>2, Bare
  <2>4. Lo(input, k1) <= Hi(input, k1)
    BY <1>0, <2>2, Spot
  <2> QED BY <2>1, <2>2, <2>3, <2>4
<1>9. ASSUME parser' = r, i' = i, mark' = i, UNCHANGED pc PROVE Place'
  <2>1. Reading("part_data")' = k1
    BY <1>6, <1>7 DEF Reading
  <2>2. Got(k1)' = << >>
    <3>1. k1 # Len(calls')
      BY <1>5, <1>6, <1>7
    <3> QED BY <3>1 DEF Got
  <2>3. From(i, i) = << >>
    BY <1>0, NothingYet
  <2>4. UNCHANGED <<input, lim, ends, pc>>
    BY <1>2, <1>9 DEF Called
  <2>5. Within("part_data")'
    <3>1. PICK u : u = i
      OBVIOUS
    <3>2. Lo(input, k1) <= u /\ Got(k1)' = From(Lo(input, k1), u)
      BY <1>0, <1>8, <2>2, <2>3, <3>1
    <3>3. (i' < lim => u = mark') /\ (~(i' < lim) => u = i') /\ Lo(input, k1) <= i' /\ i' <= Hi(input, k1)
      BY <1>0, <1>8, <1>9, <3>1
    <3> QED BY <1>0, <1>6, <1>8, <2>1, <2>4, <3>2, <3>3, WithinNext
  <2> QED BY <1>1, <1>9, <2>5 DEF Place
<1> QED BY <1>0, <1>2, <1>6, <1>9, OnwardOrFailed

-----------------------------------------------------------------------------
(***************************************************************************)
(* The data of a part                                                      *)
(***************************************************************************)
LEMMA BoundaryBytes ==
  ASSUME Types, NEW p \in Nat
  PROVE  Reads(input, p, CRLF \o input.boundary) <=>
           /\ (p + 2) + boundary_length <= Len(input.bytes)
           /\ input.bytes[p + 1] = "CR" /\ input.bytes[p + 2] = "LF"
           /\ \A j \in 1 .. boundary_length : input.bytes[(p + 2) + j] = input.boundary[j]
<1> DEFINE s == input.boundary
<1> DEFINE t == CRLF \o s
<1>1. s \in Seq(Byte) /\ boundary_length \in Nat /\ Len(s) = boundary_length
  BY Basics DEF boundary_length
<1>2. CRLF \in Seq(Byte) /\ Len(CRLF) = 2 /\ CRLF[1] = "CR" /\ CRLF[2] = "LF"
  BY LineEnds DEF CRLF
<1>3. /\ Len(t) = 2 + boundary_length
      /\ t[1] = "CR" /\ t[2] = "LF"
      /\ \A j \in 1 .. boundary_length : t[2 + j] = s[j]
  <2> HIDE DEF s
  <2>1. PICK u : u = CRLF
    OBVIOUS
  <2>2. u \in Seq(Byte) /\ Len(u) = 2 /\ u[1] = "CR" /\ u[2] = "LF"
    BY <1>2, <2>1
  <2>3. /\ Len(u \o s) = Len(u) + Len(s)
        /\ \A j \in 1 .. Len(u) + Len(s) : (u \o s)[j] = IF j <= Len(u) THEN u[j] ELSE s[j - Len(u)]
    BY <1>1, <2>2, ConcatProperties
  <2> QED BY <1>1, <2>1, <2>2, <2>3
<1> HIDE DEF t
<1>4. p + (2 + boundary_length) = (p + 2) + boundary_length
  BY <1>1
<1>5. ASSUME \A j \in 1 .. 2 + boundary_length : input.bytes[p + j] = t[j]
      PROVE  /\ input.bytes[p + 1] = "CR" /\ input.bytes[p + 2] = "LF"
             /\ \A j \in 1 .. boundary_length : input.bytes[(p + 2) + j] = s[j]
  <2>1. 1 \in 1 .. 2 + boundary_length /\ 2 \in 1 .. 2 + boundary_length
    BY <1>1
  <2>2. ASSUME NEW j \in 1 .. boundary_length PROVE input.bytes[(p + 2) + j] = s[j]
    <3>1. 2 + j \in 1 .. 2 + boundary_length /\ p + (2 + j) = (p + 2) + j
      BY <1>1
    <3>2. input.bytes[p + (2 + j)] = t[2 + j]
      BY <1>5, <3>1
    <3> QED BY <1>3, <3>1, <3>2
  <2> QED BY <1>3, <1>5, <2>1, <2>2
<1>6. ASSUME input.bytes[p + 1] = "CR", input.bytes[p + 2] = "LF",
             \A j \in 1 .. boundary_length : input.bytes[(p + 2) + j] = s[j],
             NEW j \in 1 .. 2 + boundary_length
      PROVE  input.bytes[p + j] = t[j]
  <2>1. CASE j = 1 \/ j = 2
    BY <1>3, <1>6, <2>1
  <2>2. CASE ~(j = 1 \/ j = 2)
    <3>1. PICK m \in 1 .. boundary_length : j = 2 + m
      <4>1. j - 2 \in 1 .. boundary_length /\ j = 2 + (j - 2)
        BY <1>1, <2>2
      <4> QED BY <4>1
    <3>2. p + j = (p + 2) + m
      BY <3>1
    <3> QED BY <1>3, <1>6, <3>1, <3>2
  <2> QED BY <2>1, <2>2
<1>7. Reads(input, p, t) <=> /\ p + (2 + boundary_length) <= Len(input.bytes)
                             /\ \A j \in 1 .. 2 + boundary_length : input.bytes[p + j] = t[j]
  BY <1>3 DEF Reads
<1> QED BY <1>4, <1>5, <1>6, <1>7 DEF t

\* Behind the data of a part the boundary begins, and nowhere in it.
LEMMA DataEnds ==
  ASSUME Types, input.known, NEW k \in 1 .. Len(input.calls), Cb(input, k) = "part_data"
  PROVE  /\ Hi(input, k) + 2 <= Len(input.bytes)
         /\ input.bytes[Hi(input, k) + 1] = "CR" /\ input.bytes[Hi(input, k) + 2] = "LF"
         /\ \A j \in 1 .. boundary_length :
              /\ input.bytes[(Hi(input, k) + 2) + j] = input.boundary[j]
              /\ input.boundary[j] # "CR"
         /\ \A p \in Lo(input, k) .. Hi(input, k) - 1 : ~Reads(input, p, CRLF \o input.boundary)
         /\ k < Len(input.calls) /\ Cb(input, k + 1) = "part_data_end"
         /\ Behind(input, k + 1) = (Hi(input, k) + 2) + boundary_length
<1>1. /\ k < Len(input.calls) /\ Cb(input, k + 1) = "part_data_end"
      /\ Hi(input, k) \in Nat /\ Lo(input, k) \in Nat /\ Behind(input, k) = Hi(input, k)
      /\ Len(input.calls) \in Nat /\ boundary_length \in Nat /\ Len(input.bytes) \in Nat
  BY Ahead, KnownTyped, BehindTable, Basics
<1>2. PICK k1 : k1 = k + 1 /\ k1 \in 1 .. Len(input.calls) /\ k1 - 1 = k
  BY <1>1
<1>3. /\ Reads(input, Hi(input, k), CRLF \o input.boundary)
      /\ Hi(input, k1) = Hi(input, k) + 2 + boundary_length
      /\ Behind(input, k1) = Hi(input, k1)
  BY <1>1, <1>2, Boundary, BehindTable
<1>4. PartDataAt(input, k) /\ \A j \in 1 .. boundary_length : input.boundary[j] # "CR"
  BY KnownTyped DEF WellFormed, boundary_length
<1>5. \A p \in Lo(input, k) .. Hi(input, k) - 1 : ~Reads(input, p, CRLF \o input.boundary)
  BY <1>4 DEF PartDataAt
<1>6. Hi(input, k) + 2 + boundary_length = (Hi(input, k) + 2) + boundary_length
  BY <1>1
<1>7. /\ (Hi(input, k) + 2) + boundary_length <= Len(input.bytes)
      /\ input.bytes[Hi(input, k) + 1] = "CR" /\ input.bytes[Hi(input, k) + 2] = "LF"
      /\ \A j \in 1 .. boundary_length : input.bytes[(Hi(input, k) + 2) + j] = input.boundary[j]
  BY <1>1, <1>3, BoundaryBytes
<1>8. Hi(input, k) + 2 <= Len(input.bytes)
  BY <1>1, <1>7
<1> QED BY <1>1, <1>2, <1>3, <1>4, <1>5, <1>6, <1>7, <1>8

LEMMA WithheldNext ==
  ASSUME UNCHANGED input, NEW n, NEW k \in 1 .. Len(input.calls), Len(calls') = k, Cb(input, k) = "part_data",
         NEW a, i' - n = a, Lo(input, k) <= a, a <= Hi(input, k), calls'[k].data = From(Lo(input, k), a)
  PROVE  Withheld(n)'
<1>1. /\ Lo(input, k)' = Lo(input, k) /\ Hi(input, k)' = Hi(input, k) /\ Cb(input, k)' = Cb(input, k)
      /\ From(Lo(input, k), i - n)' = From(Lo(input, k), a)
  BY DEF Lo, Hi, Cb, From
<1> QED BY <1>1 DEF Withheld

LEMMA PartDataTracked ==
  ASSUME IInv, Tracked, input.known, PartData
  PROVE  Tracked'
<1> DEFINE r == [parser EXCEPT !.state = "s_part_data_almost_boundary", !.lookbehind = <<"CR">>]
<1>0. /\ Running /\ Types /\ parser.state = "s_part_data"
      /\ Delivered /\ Place /\ Len(calls) \in Nat /\ i \in Nat /\ i + 1 <= Len(input.bytes)
      /\ Len(input.calls) \in Nat
  BY RunningAt, Known DEF PartData, At
<1>r. r.state = "s_part_data_almost_boundary"
  BY <1>0 DEF Types, Parsers
<1>c. \/ c = "CR" /\ Emit("part_data", From(mark, i), Continue(r, i + 1, i))
      \/ c # "CR" /\ ~is_last /\ Step(parser)
      \/ c # "CR" /\ is_last /\ Emit("part_data", From(mark, i + 1), Continue(parser, i + 1, mark))
  BY DEF PartData
<1> HIDE DEF r
<1>1. InString("part_data", mark)
  BY <1>0, InStringAgain DEF Place
<1>2. PICK k : k = Reading("part_data")
  OBVIOUS
<1>3. /\ k \in 1 .. Len(input.calls) /\ Cb(input, k) = "part_data" /\ Lo(input, k) <= i /\ i <= Hi(input, k)
      /\ Lo(input, k) \in Nat /\ Hi(input, k) \in Nat /\ "part_data" \in DataCallbacks /\ Due(k)
  BY <1>0, <1>1, <1>2, KnownTyped DEF InString, DataCallbacks, Due
<1>4. c # "CR" => i < Hi(input, k)
  <2>1. i = Hi(input, k) => c = "CR"
    BY <1>0, <1>3, DataEnds DEF c
  <2> QED BY <1>0, <1>3, <2>1
<1>5. CASE Emit("part_data", From(mark, i), Continue(r, i + 1, i))
  <2>1. Called(r, i + 1, i, parser) /\ calls' = Recorded("part_data", From(mark, i))
    BY <1>5 DEF Emit, Callback, Continue, Fails, Stop, Called
  <2>2. Delivered' /\ Len(calls') = k /\ Got(k)' = From(Lo(input, k), i)
    BY <1>0, <1>1, <1>2, <1>3, <2>1, StringPiece DEF Called
  <2>3. ASSUME parser' = r, i' = i + 1 PROVE Place'
    <3>1. PICK a : a = i
      OBVIOUS
    <3>2. calls'[k].data = From(Lo(input, k), a) /\ i' - 1 = a
      BY <1>0, <2>2, <2>3, <3>1 DEF Got
    <3>3. Withheld(1)'
      BY <1>3, <2>1, <2>2, <3>1, <3>2, WithheldNext DEF Called
    <3> QED BY <1>r, <2>3, <3>3 DEF Place
  <2> QED BY <1>0, <2>1, <2>2, <2>3, OnwardOrFailed
<1>6. CASE c # "CR" /\ ~is_last /\ Step(parser)
  <2>1. UNCHANGED <<input, parser, calls, ends, lim, pc>> /\ i' = i + 1 /\ mark' = mark /\ Quiet
    BY <1>6 DEF Step, Continue, Quiet
  <2>2. Within("part_data")' /\ Delivered'
    BY <1>0, <1>1, <1>2, <1>4, <1>6, <2>1, StringQuiet
  <2>3. Place'
    BY <1>0, <2>1, <2>2 DEF Place
  <2> QED BY <1>0, <2>1, <2>2, <2>3, Onward
<1>7. CASE c # "CR" /\ is_last /\ Emit("part_data", From(mark, i + 1), Continue(parser, i + 1, mark))
  <2>1. Called(parser, i + 1, mark, parser) /\ calls' = Recorded("part_data", From(mark, i + 1))
    BY <1>7 DEF Emit, Callback, Continue, Fails, Stop, Called
  <2>2. /\ Delivered'
        /\ i' = i + 1 /\ mark' = mark /\ UNCHANGED <<pc, lim>> => Within("part_data")'
    BY <1>0, <1>1, <1>2, <1>3, <1>4, <1>7, <2>1, StringChunk DEF Called
  <2>3. ASSUME parser' = parser, i' = i + 1, mark' = mark, UNCHANGED pc PROVE Place'
    <3>1. Within("part_data")'
      BY <2>1, <2>2, <2>3 DEF Called
    <3> QED BY <1>0, <2>3, <3>1 DEF Place
  <2> QED BY <1>0, <2>1, <2>2, <2>3, OnwardOrFailed
<1> QED BY <1>c, <1>5, <1>6, <1>7

\* What was held back is data after all.
LEMMA MismatchTracked ==
  ASSUME IInv, Tracked, input.known, Running, NEW n \in Nat, n <= i, Withheld(n),
         SubSeq(parser.lookbehind, 1, n) = From(i - n, i), i <= Hi(input, Len(calls)), Last(calls) = "part_data",
         Mismatch(n)
  PROVE  Tracked'
<1> DEFINE r == [parser EXCEPT !.state = "s_part_data"]
<1>k. PICK k : k = Len(calls)
  OBVIOUS
<1>a. PICK a : a = i - n
  OBVIOUS
<1>0. /\ Types /\ Delivered /\ i \in Nat /\ i < lim /\ i + 1 <= Len(input.bytes) /\ Len(input.bytes) \in Nat
      /\ a \in Nat /\ a <= i /\ lim \in Nat
  BY <1>a, Known
<1>1. /\ k \in 1 .. Len(input.calls) /\ Cb(input, k) = "part_data" /\ Lo(input, k) <= a /\ i <= Hi(input, k)
      /\ calls[k].data = From(Lo(input, k), a) /\ "part_data" \in DataCallbacks /\ "part_data" \in Callbacks
  BY <1>k, <1>a DEF Withheld, DataCallbacks, Callbacks
<1>2. Lo(input, k) \in Nat /\ Hi(input, k) \in Nat /\ k # Len(calls) + 1
  BY <1>0, <1>1, <1>k, KnownTyped
<1>3. Reading("part_data") = k /\ Got(k) = From(Lo(input, k), a)
  BY <1>k, <1>1 DEF Reading, Got
<1>r. r.state = "s_part_data"
  BY <1>0 DEF Types, Parsers
<1>4. Called(r, i, i, parser) /\ calls' = Recorded("part_data", From(a, i))
  BY <1>a DEF Mismatch, Emit, Callback, Continue, Fails, Stop, Called
<1> HIDE DEF r
<1>5. From(Lo(input, k), a) \o From(a, i) = From(Lo(input, k), i) /\ From(a, i) \in Seq(Byte)
  <2>1. PICK l : l = Lo(input, k)
    OBVIOUS
  <2>2. l \in Nat /\ l <= a /\ a \in Nat /\ a <= i /\ i \in Nat /\ i <= Len(input.bytes)
    BY <1>0, <1>1, <1>2, <2>1
  <2>3. From(l, a) \o From(a, i) = From(l, i)
    BY <1>0, <2>2, Joined
  <2>4. From(a, i) \in Seq(Byte)
    <3>1. i <= i
      BY <2>2
    <3> QED BY <1>0, <2>2, <3>1, Joined
  <2> QED BY <2>1, <2>3, <2>4
<1>6. PICK m : m = i /\ m \in Lo(input, k) .. Hi(input, k)
  BY <1>0, <1>1, <1>2
<1>7. /\ Delivered' /\ Len(calls') = k /\ Last(calls') = "part_data"
      /\ Due(k) => calls'[k].data = From(Lo(input, k), i)
  <2>1. UNCHANGED <<input, ends>>
    BY <1>4 DEF Called
  <2>2. Due(k) => Got(k) \o From(a, i) = From(Lo(input, k), m)
    BY <1>3, <1>5, <1>6
  <2> QED BY <1>0, <1>1, <1>2, <1>3, <1>k, <1>4, <1>5, <1>6, <2>1, <2>2, Handing
<1>8. ASSUME parser' = r, i' = i, mark' = i, UNCHANGED pc PROVE Place'
  <2>1. Reading("part_data")' = k
    BY <1>1, <1>7 DEF Reading
  <2>2. Due(k) => Got(k)' = From(Lo(input, k), i)
    BY <1>7 DEF Got
  <2>3. UNCHANGED <<input, lim, ends, pc>>
    BY <1>4, <1>8 DEF Called
  <2>4. Within("part_data")'
    <3>1. PICK u : u = i
      OBVIOUS
    <3>2. Due(k) => Lo(input, k) <= u /\ Got(k)' = From(Lo(input, k), u)
      BY <1>6, <2>2, <3>1, <1>2
    <3>3. (i' < lim => u = mark') /\ (~(i' < lim) => u = i') /\ Lo(input, k) <= i' /\ i' <= Hi(input, k)
      BY <1>0, <1>1, <1>2, <1>8, <3>1
    <3>4. k # Len(calls') + 1
      BY <1>2, <1>7, <1>k
    <3> QED BY <1>1, <2>1, <2>3, <3>2, <3>3, <3>4, WithinNext
  <2> QED BY <1>r, <1>8, <2>4 DEF Place
<1> QED BY <1>4, <1>7, <1>8, OnwardOrFailed

LEMMA AlmostBoundaryTracked ==
  ASSUME IInv, Tracked, input.known, AlmostBoundary
  PROVE  Tracked'
<1> DEFINE r == [parser EXCEPT !.state = "s_part_data_boundary", !.index = 0, !.lookbehind = <<"CR", "LF">>]
<1>0. /\ Running /\ Types /\ parser.state = "s_part_data_almost_boundary"
      /\ Delivered /\ Place /\ Len(calls) \in Nat /\ i \in Nat /\ i + 1 <= Len(input.bytes)
      /\ Last(calls) = "part_data"
      /\ i >= 1 /\ parser.lookbehind = <<"CR">> /\ input.bytes[i] = "CR" /\ pc # "stopped"
  BY RunningAt, LastInTable, Known DEF AlmostBoundary, At, IInv, Order, Lookbehind, Running
<1>r. r.state = "s_part_data_boundary" /\ r.index = 0
  <2>1. 0 \in Nat /\ parser \in [state : States, index : 0 .. boundary_length + 1, lookbehind : Seq(Byte)]
    BY <1>0 DEF Types, Parsers
  <2> QED BY <2>1
<1>c. \/ c = "LF" /\ Step(r)
      \/ c # "LF" /\ Mismatch(1)
  BY DEF AlmostBoundary
<1> HIDE DEF r
<1>1. Withheld(1)
  BY <1>0 DEF Place
<1>2. PICK k : k = Len(calls)
  OBVIOUS
<1>3. PICK a : a = i - 1 /\ a \in Nat /\ i = a + 1
  BY <1>0
<1>4. /\ k \in 1 .. Len(input.calls) /\ Cb(input, k) = "part_data" /\ Lo(input, k) <= a /\ a <= Hi(input, k)
      /\ calls[k].data = From(Lo(input, k), a)
  BY <1>1, <1>2, <1>3 DEF Withheld
<1>5. Lo(input, k) \in Nat /\ Hi(input, k) \in Nat
  BY <1>0, <1>4, KnownTyped
<1>6. CASE c = "LF" /\ Step(r)
  <2>1. UNCHANGED <<input, calls, ends, lim, pc>> /\ i' = i + 1 /\ parser' = r
    BY <1>6 DEF Step, Continue, Quiet
  <2>2. Delivered'
    BY <1>0, <2>1, Same
  <2>3. PICK n : n = 2 + r.index /\ n = 2
    BY <1>r
  <2>4. Withheld(n)'
    <3>1. i' - n = a
      BY <1>0, <1>3, <2>1, <2>3
    <3> QED BY <1>2, <1>4, <2>1, <3>1, WithheldNext
  <2>5. Withheld(2 + parser.index)'
    BY <2>1, <2>3, <2>4
  <2>6. Matching'
    <3>1. Reads(input, a, CRLF)
      <4>1. input.bytes[a + 1] = "CR" /\ input.bytes[a + 2] = "LF" /\ a + 2 <= Len(input.bytes)
        <5>1. a + 1 = i /\ a + 2 = i + 1
          BY <1>0, <1>3
        <5> QED BY <1>0, <1>6, <5>1 DEF c
      <4> QED BY <1>3, <4>1 DEF Reads, CRLF
    <3>2. i' - 2 - parser'.index = a
      BY <1>0, <1>3, <1>r, <2>1
    <3>3. Reads(input, i - 2 - parser.index, CRLF)'
      BY <2>1, <3>1, <3>2 DEF Reads, CRLF
    <3>4. \A j \in 1 .. parser'.index : FALSE
      BY <1>r, <2>1
    <3> QED BY <3>3, <3>4 DEF Matching
  <2>7. Place'
    BY <1>r, <2>1, <2>5, <2>6 DEF Place
  <2> QED BY <1>0, <2>1, <2>2, <2>7, Onward
<1>7. CASE c # "LF" /\ Mismatch(1)
  <2>1. i <= Hi(input, k)
    <3>1. CASE a = Hi(input, k)
      <4>1. input.bytes[Hi(input, k) + 2] = "LF"
        BY <1>0, <1>4, DataEnds
      <4>2. Hi(input, k) + 2 = i + 1
        BY <1>3, <3>1, <1>5
      <4> QED BY <1>7, <4>1, <4>2 DEF c
    <3> QED BY <1>3, <1>4, <1>5, <3>1
  <2>2. SubSeq(parser.lookbehind, 1, 1) = From(i - 1, i)
    <3>1. parser.lookbehind = From(i - 1, i)
      BY <1>0, Faithful DEF LookbehindFaithful
    <3>2. SubSeq(parser.lookbehind, 1, 1) = parser.lookbehind
      <4>1. PICK l : l = parser.lookbehind
        OBVIOUS
      <4>2. l \in Seq(Byte) /\ Len(l) = 1
        BY <1>0, <4>1, Basics
      <4> QED BY <4>1, <4>2
    <3> QED BY <3>1, <3>2
  <2> QED BY <1>0, <1>1, <1>2, <1>7, <2>1, <2>2, MismatchTracked
<1> QED BY <1>c, <1>6, <1>7

\* What matches begins at position p.
LEMMA MatchingFrom ==
  ASSUME Types, NEW p \in Nat, p = i - 2 - parser.index, p + 2 = i - parser.index, Matching
  PROVE  /\ p + 2 <= Len(input.bytes) /\ input.bytes[p + 1] = "CR" /\ input.bytes[p + 2] = "LF"
         /\ \A j \in 1 .. parser.index : input.bytes[(p + 2) + j] = input.boundary[j]
<1>1. Reads(input, p, <<"CR", "LF">>)
  BY DEF Matching, CRLF
<1>2. \A j \in 1 .. parser.index : input.bytes[(p + 2) + j] = input.boundary[j]
  BY DEF Matching
<1> QED BY <1>1, <1>2, ReadsTwo

\* Before the boundary of the part no part of it can match across its CR.
LEMMA MatchingBefore ==
  ASSUME Types, input.known, NEW k \in 1 .. Len(input.calls), Cb(input, k) = "part_data",
         NEW p \in Nat, p < Hi(input, k), NEW x \in 0 .. boundary_length - 1, i = (p + 2) + x,
         input.bytes[p + 2] = "LF", \A j \in 1 .. x : input.bytes[(p + 2) + j] = input.boundary[j]
  PROVE  i <= Hi(input, k)
<1>0. Hi(input, k) \in Nat /\ i \in Nat /\ boundary_length \in Nat
  BY KnownTyped, Basics
<1> SUFFICES ASSUME Hi(input, k) < i PROVE FALSE
  BY <1>0
<1>1. input.bytes[Hi(input, k) + 1] = "CR" /\ \A j \in 1 .. boundary_length : input.boundary[j] # "CR"
  BY DataEnds
<1>2. CASE Hi(input, k) + 1 = p + 2
  BY <1>1, <1>2
<1>3. CASE Hi(input, k) + 1 # p + 2
  <2>1. PICK j \in 1 .. x : Hi(input, k) + 1 = (p + 2) + j
    <3>1. (Hi(input, k) + 1) - (p + 2) \in 1 .. x
      BY <1>0, <1>3
    <3>2. Hi(input, k) + 1 = (p + 2) + ((Hi(input, k) + 1) - (p + 2))
      BY <1>0
    <3> QED BY <3>1, <3>2
  <2>2. input.bytes[Hi(input, k) + 1] = input.boundary[j] /\ j \in 1 .. boundary_length
    BY <1>0, <2>1
  <2> QED BY <1>1, <2>2
<1> QED BY <1>2, <1>3

LEMMA DataBoundaryTracked ==
  ASSUME IInv, Tracked, input.known, DataBoundary
  PROVE  Tracked'
<1> DEFINE r == [parser EXCEPT !.index = @ + 1, !.lookbehind = Append(SubSeq(@, 1, 2 + parser.index), c)]
<1> DEFINE r1 == [r EXCEPT !.state = "s_part_data_almost_end"]
<1>0. /\ Running /\ Types /\ parser.state = "s_part_data_boundary"
      /\ Delivered /\ Place /\ Len(calls) \in Nat /\ i \in Nat /\ i + 1 <= Len(input.bytes)
      /\ Last(calls) = "part_data" /\ Len(input.calls) \in Nat /\ Len(input.bytes) \in Nat
      /\ parser.index < boundary_length /\ 2 + parser.index <= i /\ pc # "stopped"
      /\ parser.index \in Nat /\ boundary_length \in Nat
  BY SMTT(30), RunningAt, LastInTable, Known, Basics DEF DataBoundary, At, IInv, Order, Lookbehind, Running
<1>x. PICK x : x = parser.index /\ x \in 0 .. boundary_length - 1 /\ x \in Nat
  BY <1>0
<1>p. PICK p : p = i - (2 + x) /\ p \in Nat /\ i = (p + 2) + x
  <2>1. i \in Nat /\ x \in Nat /\ 2 + x <= i
    BY <1>0, <1>x
  <2>2. i - (2 + x) \in Nat /\ i = ((i - (2 + x)) + 2) + x
    BY ONLY <2>1
  <2> QED BY <2>2
<1>r. r.state = "s_part_data_boundary" /\ r.index = x + 1 /\ r1.state = "s_part_data_almost_end"
  <2>1. parser \in [state : States, index : Nat, lookbehind : Seq(Byte)] /\ x + 1 \in Nat
    BY SMTT(30), <1>0, <1>x DEF Types, Parsers
  <2>2. PICK l : l = Append(SubSeq(parser.lookbehind, 1, 2 + parser.index), c)
    OBVIOUS
  <2>3. r = [parser EXCEPT !.index = x + 1, !.lookbehind = l]
    BY <1>x, <2>1, <2>2
  <2>4. r.state = "s_part_data_boundary" /\ r.index = x + 1
        /\ r \in [state : {parser.state}, index : Nat, lookbehind : {l}]
    BY <1>0, <2>1, <2>3
  <2> HIDE DEF r
  <2>5. r1.state = "s_part_data_almost_end"
    BY <2>4
  <2> QED BY <2>4, <2>5
<1>c. \/ c # input.boundary[x + 1] /\ Mismatch(2 + parser.index)
      \/ c = input.boundary[x + 1] /\ x + 1 < boundary_length /\ Step(r)
      \/ /\ c = input.boundary[x + 1] /\ x + 1 = boundary_length
         /\ Callback("part_data_end", << >>, Continue(r1, i + 1, mark), r)
  BY <1>x, <1>r DEF DataBoundary
<1> HIDE DEF r, r1
<1>1. PICK n : n = 2 + parser.index /\ n = 2 + x
  BY <1>x
<1>2. Withheld(n) /\ Matching
  BY <1>0, <1>1 DEF Place
<1>3. PICK k : k = Len(calls)
  OBVIOUS
<1>4. i - n = p
  BY <1>1, <1>p, <1>x
<1>5. /\ k \in 1 .. Len(input.calls) /\ Cb(input, k) = "part_data" /\ Lo(input, k) <= p /\ p <= Hi(input, k)
      /\ calls[k].data = From(Lo(input, k), p)
  BY <1>2, <1>3, <1>4 DEF Withheld
<1>6. Lo(input, k) \in Nat /\ Hi(input, k) \in Nat
  BY <1>0, <1>5, KnownTyped
<1>7. /\ p + 2 <= Len(input.bytes) /\ input.bytes[p + 1] = "CR" /\ input.bytes[p + 2] = "LF"
      /\ \A j \in 1 .. x : input.bytes[(p + 2) + j] = input.boundary[j]
  <2>0. p \in Nat /\ x \in Nat /\ i = (p + 2) + x /\ x = parser.index
    BY <1>x, <1>p
  <2>1. p = i - 2 - parser.index
    BY ONLY <2>0
  <2>2. p + 2 = i - parser.index
    BY ONLY <2>0
  <2> QED BY <1>0, <1>x, <1>p, <1>2, <2>1, <2>2, MatchingFrom
<1>8. c = input.bytes[(p + 2) + (x + 1)] /\ i + 1 = (p + 2) + (x + 1)
  <2>1. i + 1 = (p + 2) + (x + 1)
    BY <1>p, <1>x
  <2> QED BY <2>1 DEF c
<1>9. CASE c # input.boundary[x + 1] /\ Mismatch(2 + parser.index)
  <2>1. p # Hi(input, k)
    <3>1. x + 1 \in 1 .. boundary_length
      BY SMTT(30), <1>0, <1>x
    <3>2. input.bytes[(Hi(input, k) + 2) + (x + 1)] = input.boundary[x + 1]
      BY <1>0, <1>5, <3>1, DataEnds
    <3> QED BY <1>8, <1>9, <3>2
  <2>2. p < Hi(input, k)
    BY <1>5, <1>6, <1>p, <2>1
  <2>3. i <= Hi(input, k)
    BY <1>0, <1>x, <1>p, <1>5, <1>7, <2>2, MatchingBefore
  <2>4. SubSeq(parser.lookbehind, 1, n) = From(i - n, i)
    <3>1. SubSeq(parser.lookbehind, 1, 2 + parser.index) = From(i - 2 - parser.index, i)
      BY <1>0, Faithful DEF LookbehindFaithful
    <3>2. i - 2 - parser.index = i - n
      <4>1. i \in Nat /\ x \in Nat /\ n = 2 + x /\ x = parser.index
        BY <1>0, <1>1, <1>x
      <4> QED BY ONLY <4>1
    <3> QED BY <1>1, <3>1, <3>2
  <2>5. n \in Nat /\ n <= i /\ Mismatch(n)
    BY <1>0, <1>1, <1>9
  <2> QED BY <1>0, <1>2, <1>3, <2>3, <2>4, <2>5, MismatchTracked
<1>10. ASSUME c = input.boundary[x + 1], NEW j \in 1 .. x + 1
       PROVE  input.bytes[(p + 2) + j] = input.boundary[j]
  <2>1. CASE j = x + 1
    BY <1>8, <1>10, <2>1
  <2>2. CASE j # x + 1
    <3>1. j \in 1 .. x
      BY <1>x, <2>2
    <3> QED BY <1>7, <3>1
  <2> QED BY <2>1, <2>2
<1>11. CASE c = input.boundary[x + 1] /\ Step(r)
  <2>1. UNCHANGED <<input, calls, ends, lim, pc>> /\ i' = i + 1 /\ parser' = r
    BY <1>11 DEF Step, Continue, Quiet
  <2>2. Delivered'
    BY <1>0, <2>1, Same
  <2>3. PICK m : m = 2 + r.index /\ m = 2 + (x + 1)
    BY <1>r
  <2>4. Withheld(m)'
    <3>1. i' - m = p
      BY <1>8, <2>1, <2>3, <1>p, <1>x
    <3> QED BY <1>3, <1>5, <2>1, <3>1, WithheldNext
  <2>5. Withheld(2 + parser.index)'
    BY <2>1, <2>3, <2>4
  <2>6. Matching'
    <3>1. i' - 2 - parser'.index = p /\ i' - parser'.index = p + 2 /\ parser'.index = x + 1
      BY <1>8, <1>r, <2>1, <1>p, <1>x
    <3>2. Reads(input, p, CRLF)
      BY <1>7 DEF Reads, CRLF
    <3>3. Reads(input, i - 2 - parser.index, CRLF)'
      BY <2>1, <3>1, <3>2 DEF Reads, CRLF
    <3>4. \A j \in 1 .. parser'.index : input'.bytes[i' - parser'.index + j] = input'.boundary[j]
      BY <1>10, <1>11, <2>1, <3>1
    <3> QED BY <3>3, <3>4 DEF Matching
  <2>7. Place'
    BY <1>r, <2>1, <2>5, <2>6 DEF Place
  <2> QED BY <1>0, <2>1, <2>2, <2>7, Onward
<1>12. CASE /\ c = input.boundary[x + 1] /\ x + 1 = boundary_length
            /\ Callback("part_data_end", << >>, Continue(r1, i + 1, mark), r)
  <2>1. Called(r1, i + 1, mark, r) /\ calls' = Recorded("part_data_end", << >>)
    BY <1>12 DEF Callback, Continue, Fails, Stop, Called
  <2>2. Reads(input, p, CRLF \o input.boundary)
    <3>1. (p + 2) + boundary_length <= Len(input.bytes)
      BY <1>0, <1>8, <1>12
    <3>2. \A j \in 1 .. boundary_length : input.bytes[(p + 2) + j] = input.boundary[j]
      BY <1>10, <1>12
    <3> QED BY <1>0, <1>p, <1>7, <3>1, <3>2, BoundaryBytes
  <2>3. p = Hi(input, k)
    <3>1. p \notin Lo(input, k) .. Hi(input, k) - 1
      BY <1>0, <1>5, <2>2, DataEnds
    <3> QED BY <1>5, <1>6, <1>p, <3>1
  <2>4. /\ k < Len(input.calls) /\ Cb(input, k + 1) = "part_data_end"
        /\ Behind(input, k + 1) = (Hi(input, k) + 2) + boundary_length
    BY <1>0, <1>5, DataEnds
  <2>5. Done /\ Before("part_data_end")
    BY <1>3, <1>5, <2>3, <2>4 DEF Done, Exact, Before
  <2>6. PICK k1 : k1 = k + 1
    OBVIOUS
  <2>7. Delivered' /\ Done' /\ Len(calls') = k1
    <3>1. "part_data_end" \in Callbacks \ DataCallbacks /\ UNCHANGED <<input, ends>>
      BY <2>1 DEF Callbacks, DataCallbacks, Called
    <3>2. Delivered' /\ Done' /\ Len(calls') = Len(calls) + 1
      BY <1>0, <2>1, <2>5, <3>1, Notified
    <3> QED BY <1>3, <2>6, <3>2
  <2>8. ASSUME parser' = r1, i' = i + 1 PROVE Place'
    <3>1. i + 1 = Behind(input, k1) + 0 /\ k1 > 0
      BY <1>8, <1>12, <2>3, <2>4, <2>6, <1>5, <1>6, <1>p, <1>0
    <3>2. Behind(input, k1)' = Behind(input, k1)
      BY <2>1 DEF Called, Behind, Hi, Cb
    <3>3. After(0)'
      <4>1. Behind(input, Len(calls))' = Behind(input, k1)
        BY <2>7, <3>2
      <4> QED BY <2>7, <2>8, <3>1, <4>1 DEF After
    <3> QED BY <1>r, <2>8, <3>3 DEF Place
  <2> QED BY <1>0, <2>1, <2>7, <2>8, OnwardOrFailed
<1> QED BY <1>c, <1>9, <1>11, <1>12

\* The second of two bytes before a callback without data.
LEMMA Announced ==
  ASSUME IInv, Tracked, input.known, Running, NEW cb \in {"part_data_begin", "body_end"}, Before(cb), After(1),
         UNCHANGED <<input, ends>>, calls' = Recorded(cb, << >>), NEW k, k = Len(calls) + 1
  PROVE  /\ Delivered' /\ Done' /\ Len(calls') = k /\ k \in 1 .. Len(input.calls) /\ Cb(input, k) = cb
         /\ Hi(input, k) \in Nat /\ i + 1 = Hi(input, k) /\ Behind(input, k) = Hi(input, k)
<1>1. /\ k \in 1 .. Len(input.calls) /\ Cb(input, k) = cb /\ Done
      /\ Hi(input, k) \in Nat /\ i = (Hi(input, k) - 2) + 1 /\ Behind(input, k) = Hi(input, k)
  BY Coming
<1>2. i + 1 = Hi(input, k)
  BY <1>1
<1>3. cb \in Callbacks \ DataCallbacks /\ Delivered
  BY Known DEF Callbacks, DataCallbacks
<1>4. Delivered' /\ Done' /\ Len(calls') = k
  BY <1>1, <1>3, Notified
<1> QED BY <1>1, <1>2, <1>4

\* The states behind a boundary.
LEMMA AlmostEndTracked ==
  ASSUME IInv, Tracked, input.known, AlmostEnd
  PROVE  Tracked'
<1>0. /\ Running /\ Types /\ parser.state = "s_part_data_almost_end" /\ Last(calls) = "part_data_end" /\ Place
      /\ Delivered /\ Len(calls) \in Nat
  BY RunningAt, LastInTable, Known DEF AlmostEnd, At, IInv, Order, Running
<1>1. After(0)
  BY <1>0 DEF Place
<1>2. Before("part_data_begin") \/ Before("body_end")
  <2>1. Len(calls) \in 1 .. Len(input.calls) /\ Cb(input, Len(calls)) = "part_data_end"
    BY <1>0, LastKnown
  <2> QED BY <1>0, <2>1, Ahead DEF Before
<1>3. PICK k : k = Len(calls) + 1
  OBVIOUS
<1>4. CASE Before("part_data_begin")
  <2>1. c = "CR"
    BY <1>0, <1>1, <1>3, <1>4, Coming
  <2>2. Goto("s_part_data_end")
    BY <2>1 DEF AlmostEnd
  <2>3. /\ Before("part_data_begin")' /\ After(1)' /\ parser'.state = "s_part_data_end"
        /\ Place' => Tracked'
    BY <1>0, <1>1, <1>4, <2>2, GoneTo
  <2>4. Place'
    BY <2>3 DEF Place
  <2> QED BY <2>3, <2>4
<1>5. CASE Before("body_end")
  <2>1. c = "-"
    BY <1>0, <1>1, <1>3, <1>5, Coming
  <2>2. Goto("s_part_data_final_hyphen")
    BY <2>1 DEF AlmostEnd
  <2>3. /\ Before("body_end")' /\ After(1)' /\ parser'.state = "s_part_data_final_hyphen"
        /\ Place' => Tracked'
    BY <1>0, <1>1, <1>5, <2>2, GoneTo
  <2>4. Place'
    BY <2>3 DEF Place
  <2> QED BY <2>3, <2>4
<1> QED BY <1>2, <1>4, <1>5

LEMMA FinalHyphenTracked ==
  ASSUME IInv, Tracked, input.known, FinalHyphen
  PROVE  Tracked'
<1> DEFINE r == [parser EXCEPT !.state = "s_end"]
<1>0. /\ Running /\ Types /\ parser.state = "s_part_data_final_hyphen" /\ Place
      /\ Delivered /\ Len(calls) \in Nat /\ i \in Nat
  BY RunningAt, Known DEF FinalHyphen, At
<1>r. r.state = "s_end"
  BY <1>0 DEF Types, Parsers
<1>1. Before("body_end") /\ After(1)
  BY <1>0 DEF Place
<1>2. PICK k : k = Len(calls) + 1
  OBVIOUS
<1>3. c = "-"
  BY <1>0, <1>1, <1>2, Coming
<1>4. Called(r, i + 1, mark, parser) /\ calls' = Recorded("body_end", << >>)
  BY <1>3 DEF FinalHyphen, Notify, Callback, Continue, Fails, Stop, Called
<1> HIDE DEF r
<1>5. /\ Delivered' /\ Done' /\ Len(calls') = k /\ k \in 1 .. Len(input.calls) /\ Cb(input, k) = "body_end"
      /\ Hi(input, k) \in Nat /\ i + 1 = Hi(input, k)
  <2>1. UNCHANGED <<input, ends>>
    BY <1>4 DEF Called
  <2> QED BY <1>0, <1>1, <1>2, <1>4, <2>1, Announced
<1>6. k = Len(input.calls)
  BY <1>0, <1>5, Ahead
<1>7. ASSUME parser' = r, i' = i + 1 PROVE Place'
  <2>1. Hi(input, Len(calls))' = Hi(input, k)
    BY <1>4, <1>5 DEF Called, Hi
  <2>2. Hi(input, k) <= i'
    BY <1>5, <1>7
  <2>3. Epilogue'
    BY <1>4, <1>5, <1>6, <2>1, <2>2 DEF Epilogue, Called
  <2> QED BY <1>r, <1>7, <2>3 DEF Place
<1> QED BY <1>0, <1>4, <1>5, <1>7, OnwardOrFailed

LEMMA PartDataEndTracked ==
  ASSUME IInv, Tracked, input.known, PartDataEnd
  PROVE  Tracked'
<1> DEFINE r == [parser EXCEPT !.state = "s_header_field_start"]
<1>0. /\ Running /\ Types /\ parser.state = "s_part_data_end" /\ Place
      /\ Delivered /\ Len(calls) \in Nat /\ i \in Nat
  BY RunningAt, Known DEF PartDataEnd, At
<1>r. r.state = "s_header_field_start"
  BY <1>0 DEF Types, Parsers
<1>1. Before("part_data_begin") /\ After(1)
  BY <1>0 DEF Place
<1>2. PICK k : k = Len(calls) + 1
  OBVIOUS
<1>3. c = "LF"
  BY <1>0, <1>1, <1>2, Coming
<1>4. Called(r, i + 1, mark, r) /\ calls' = Recorded("part_data_begin", << >>)
  BY <1>3 DEF PartDataEnd, Callback, Continue, Fails, Stop, Called
<1> HIDE DEF r
<1>5. /\ Delivered' /\ Done' /\ Len(calls') = k /\ k \in 1 .. Len(input.calls)
      /\ Hi(input, k) \in Nat /\ i + 1 = Hi(input, k) /\ Behind(input, k) = Hi(input, k)
  <2>1. UNCHANGED <<input, ends>>
    BY <1>4 DEF Called
  <2> QED BY <1>0, <1>1, <1>2, <1>4, <2>1, Announced
<1>6. ASSUME parser' = r, i' = i + 1 PROVE Place'
  <2>1. Behind(input, Len(calls))' = Behind(input, k)
    BY <1>4, <1>5 DEF Called, Behind, Hi, Cb
  <2>2. i' = Behind(input, k) + 0 /\ k > 0
    BY <1>5, <1>6
  <2>3. After(0)'
    BY <1>5, <2>1, <2>2 DEF After
  <2> QED BY <1>r, <1>6, <2>3 DEF Place
<1> QED BY <1>0, <1>4, <1>5, <1>6, OnwardOrFailed

LEMMA EndTracked ==
  ASSUME IInv, Tracked, input.known, End
  PROVE  Tracked'
<1>0. /\ Running /\ Types /\ parser.state = "s_end" /\ Place /\ Delivered /\ i \in Nat
      /\ Len(calls) \in Nat /\ Len(input.calls) \in Nat
  BY RunningAt, Known DEF End, At
<1>1. Epilogue
  BY <1>0 DEF Place
<1>2. UNCHANGED <<input, parser, calls, ends, lim, pc>> /\ i' = i + 1
  BY DEF End, Step, Continue, Quiet
<1>3. Delivered' /\ Done'
  BY <1>0, <1>1, <1>2, Same DEF Epilogue
<1>4. Epilogue'
  <2>1. PICK k : k = Len(calls)
    OBVIOUS
  <2>2. k = Len(input.calls) /\ k \in 1 .. Len(input.calls) /\ Hi(input, k) <= i
    BY <1>0, <1>1, <2>1, KnownTyped DEF Epilogue
  <2>3. Hi(input, k) <= i + 1
    <3>1. Hi(input, k) \in Nat
      BY <1>0, <2>2, KnownTyped
    <3> QED BY <1>0, <2>2, <3>1
  <2>4. Hi(input, Len(calls))' = Hi(input, k)
    BY <1>2, <2>1 DEF Hi
  <2> QED BY <1>2, <1>3, <2>1, <2>2, <2>3, <2>4 DEF Epilogue
<1>5. Place'
  BY <1>0, <1>2, <1>4 DEF Place
<1> QED BY <1>0, <1>2, <1>3, <1>5, Onward

-----------------------------------------------------------------------------
(***************************************************************************)
(* What a well formed body means comes out of it                           *)
(***************************************************************************)
LEMMA InitTracked == Init => Tracked
<1> SUFFICES ASSUME Init, input.known PROVE Tracked
  BY DEF Tracked
<1>1. Types
  BY InitEstablishes DEF IInv
<1>2. Len(calls) = 0 /\ Len(input.calls) \in Nat
  BY <1>1, KnownTyped DEF Init
<1>3. Delivered
  BY <1>2 DEF Delivered
<1>4. Place
  BY <1>2 DEF Init, Place, multipart_parser_init
<1> QED BY <1>3, <1>4 DEF Init, Tracked

LEMMA StepTracked == IInv /\ Tracked /\ [Next]_vars => Tracked'
<1> SUFFICES ASSUME IInv, Tracked, [Next]_vars PROVE Tracked'
  OBVIOUS
<1>0. input' = input
  BY DEF Next, Loop, vars, Execute, EndOfChunk, StartBoundary, HeaderField, OneByte, HeaderValueBlank, HeaderValue,
     PartDataStart, PartData, AlmostBoundary, DataBoundary, AlmostEnd, FinalHyphen, PartDataEnd, End,
     Mismatch, Emit, Notify, Callback, Fails, Reject, Goto, Step, Continue, Stop
<1>1. CASE ~input.known
  BY <1>0, <1>1 DEF Tracked
<1>2. CASE input.known /\ UNCHANGED vars
  <2>1. UNCHANGED <<input, parser, pc, i, lim, mark, ends, faults, calls>>
    BY <1>2 DEF vars
  <2>2. Types /\ Delivered /\ (pc # "stopped" => Place) /\ Upto' = Upto
    BY <1>2, <2>1 DEF IInv, Tracked, Upto, Running
  <2>3. pc # "stopped" => Delivered' /\ Place'
    BY <2>1, <2>2, Kept
  <2>4. Delivered'
    BY <2>1, <2>2, Same
  <2> QED BY <1>2, <2>1, <2>3, <2>4 DEF Tracked
<1>3. CASE input.known /\ Loop
  BY <1>3, EndOfChunkTracked, StartBoundaryTracked, HeaderFieldTracked, OneByteTracked,
     HeaderValueBlankTracked, HeaderValueTracked, PartDataStartTracked, PartDataTracked,
     AlmostBoundaryTracked, DataBoundaryTracked, AlmostEndTracked, FinalHyphenTracked,
     PartDataEndTracked, EndTracked DEF Loop
<1>4. CASE input.known /\ \E n \in 1 .. Len(input.bytes) : Execute(n)
  BY <1>4, ExecuteTracked
<1> QED BY <1>1, <1>2, <1>3, <1>4 DEF Next

\* In a well formed body the parser is, wherever chunks ended so far, at the
\* byte the callbacks so far lead it to, has handed over each string up to
\* where it is or to where it holds data back, and has not been stopped but
\* by a callback that failed.
THEOREM WellFormedTracked == Spec => [](IInv /\ Tracked)
<1>1. Init => IInv /\ Tracked
  BY InitEstablishes, InitTracked
<1>2. IInv /\ Tracked /\ [Next]_vars => (IInv /\ Tracked)'
  BY StepPreserves, StepTracked
<1> QED BY <1>1, <1>2, PTL DEF Spec

\* What has been handed over begins what is due.
LEMMA Prefix ==
  ASSUME Types, input.known, NEW k \in 1 .. Len(input.calls), NEW m \in Lo(input, k) .. Hi(input, k)
  PROVE  IsPrefixOf(From(Lo(input, k), m), input.calls[k].data)
<1> DEFINE s == From(Lo(input, k), m)
<1> DEFINE t == From(m, Hi(input, k))
<1>1. /\ Lo(input, k) \in Nat /\ Hi(input, k) \in Nat /\ m \in Nat /\ Lo(input, k) <= m /\ m <= Hi(input, k)
      /\ Hi(input, k) <= Len(input.bytes) /\ input.calls[k].data = From(Lo(input, k), Hi(input, k))
  BY Spot, KnownTyped
<1>2. s \o t = From(Lo(input, k), Hi(input, k)) /\ s \in Seq(Byte)
  BY <1>1, Joined
<1>3. t \in Seq(Byte)
  <2>1. Hi(input, k) <= Hi(input, k)
    BY <1>1
  <2> QED BY <1>1, <2>1, Joined
<1> HIDE DEF s, t
<1>4. s \o t \in Seq(Byte) /\ Len(s \o t) = Len(s) + Len(t)
      /\ \A j \in 1 .. Len(s) : (s \o t)[j] = s[j]
  <2>1. /\ s \o t \in Seq(Byte) /\ Len(s \o t) = Len(s) + Len(t)
        /\ \A j \in 1 .. Len(s) + Len(t) : (s \o t)[j] = IF j <= Len(s) THEN s[j] ELSE t[j - Len(s)]
    BY <1>2, <1>3, ConcatProperties
  <2>2. Len(s) \in Nat /\ Len(t) \in Nat
    BY <1>2, <1>3
  <2> QED BY <2>1, <2>2
<1>5. Len(s) <= Len(s \o t) /\ Len(s) \in Nat /\ Len(t) \in Nat
  BY <1>2, <1>3, <1>4
<1>6. s = SubSeq(s \o t, 0 + 1, 0 + Len(s))
  <2>1. PICK q : q = s \o t
    OBVIOUS
  <2>2. q \in Seq(Byte) /\ 0 + Len(s) <= Len(q) /\ \A j \in 1 .. Len(s) : s[j] = q[0 + j]
    BY <1>4, <1>5, <2>1
  <2>3. s = SubSeq(q, 0 + 1, 0 + Len(s))
    BY <1>2, <1>5, <2>2, SliceEquals
  <2> QED BY <2>1, <2>3
<1>7. 0 + 1 = 1 /\ 0 + Len(s) = Len(s)
  BY <1>5
<1> QED BY <1>1, <1>2, <1>5, <1>6, <1>7 DEF IsPrefixOf, s

\* A callback whose data has to be exact.
LEMMA DueExact ==
  ASSUME IInv, Tracked, input.known, NEW k \in DOMAIN calls
  PROVE  /\ calls[k].cb = input.calls[k].cb /\ Len(calls) <= Len(input.calls)
         /\ Due(k) => /\ IsPrefixOf(calls[k].data, input.calls[k].data)
                      /\ k < Len(calls) => calls[k].data = input.calls[k].data
<1>1. /\ Types /\ Delivered /\ k \in 1 .. Len(calls) /\ Len(calls) \in Nat /\ Len(input.calls) \in Nat
      /\ Len(calls) <= Len(input.calls)
  <2>1. Types /\ Delivered /\ calls \in Seq(Call)
    BY DEF IInv, Tracked, Order, Ordered
  <2>2. DOMAIN calls = 1 .. Len(calls) /\ Len(calls) \in Nat
    BY <2>1
  <2> QED BY <2>1, <2>2, KnownTyped DEF Delivered
<1>2. k \in 1 .. Len(input.calls)
  BY <1>1
<1>3. calls[k].cb = input.calls[k].cb
  BY <1>1 DEF Delivered, Cb
<1>4. ASSUME Due(k)
      PROVE  /\ IsPrefixOf(calls[k].data, input.calls[k].data)
             /\ k < Len(calls) => calls[k].data = input.calls[k].data
  <2>1. PICK m \in Lo(input, k) .. Hi(input, k) : calls[k].data = From(Lo(input, k), m)
    BY <1>1, <1>4 DEF Delivered
  <2>2. IsPrefixOf(From(Lo(input, k), m), input.calls[k].data)
    BY <1>1, <1>2, Prefix
  <2>3. k < Len(calls) => calls[k].data = From(Lo(input, k), Hi(input, k))
    BY <1>1, <1>4 DEF Delivered, Exact
  <2>4. input.calls[k].data = From(Lo(input, k), Hi(input, k))
    BY <1>1, <1>2, KnownTyped
  <2> QED BY <2>1, <2>2, <2>3, <2>4
<1> QED BY <1>1, <1>3, <1>4

\* For every well formed body, every way to cut it into chunks and every
\* callback that fails: the parts come out of multipart_parser_execute in
\* order, no callback is missing or made twice, and the data of a part is the
\* part's, all of it once the next callback is made.
THEOREM PartsAreExact == Spec => []PartsExact
<1>1. IInv /\ Tracked => PartsExact
  <2> SUFFICES ASSUME IInv, Tracked, input.known
               PROVE  /\ Len(calls) <= Len(input.calls)
                      /\ \A k \in DOMAIN calls :
                           /\ calls[k].cb = input.calls[k].cb
                           /\ calls[k].cb = "part_data" =>
                                /\ IsPrefixOf(calls[k].data, input.calls[k].data)
                                /\ k < Len(calls) => calls[k].data = input.calls[k].data
    BY DEF PartsExact
  <2>1. Len(calls) <= Len(input.calls)
    BY DEF Tracked, Delivered
  <2>2. \A k \in DOMAIN calls : calls[k].cb = input.calls[k].cb
    BY DueExact
  <2>3. \A k \in DOMAIN calls : calls[k].cb = "part_data" => Due(k)
    BY <2>2 DEF Due, Cb
  <2> QED BY <2>1, <2>2, <2>3, DueExact
<1> QED BY <1>1, WellFormedTracked, PTL

\* The same of names and values, when no chunk ended behind a hyphen of a name
\* or behind the CR of a value.
THEOREM HeadersAreExact == Spec => []HeadersExact
<1>1. IInv /\ Tracked => HeadersExact
  <2> SUFFICES ASSUME IInv, Tracked, input.known, ends \cap input.fragile = {}, NEW k \in DOMAIN calls
               PROVE  /\ IsPrefixOf(calls[k].data, input.calls[k].data)
                      /\ k < Len(calls) => calls[k].data = input.calls[k].data
    BY DEF HeadersExact
  <2> QED BY DueExact DEF Due
<1> QED BY <1>1, WellFormedTracked, PTL

LEMMA TwoMore ==
  ASSUME Types, input.known, NEW k \in 1 .. Len(input.calls), k # 1,
         Cb(input, k) \in {"headers_complete", "part_data_begin", "body_end"}
  PROVE  Behind(input, k - 1) \in Nat /\ Behind(input, k - 1) + 2 <= Len(input.bytes)
         /\ Behind(input, k - 1) + 2 = Hi(input, k)
BY Spot, TwoBytes

\* Only in s_end the body may be over.
LEMMA MoreToCome ==
  ASSUME IInv, Tracked, input.known, pc # "stopped", parser.state # "s_end"
  PROVE  i < Len(input.bytes)
<1>0. /\ Types /\ Delivered /\ Place /\ i \in Nat /\ Len(input.bytes) \in Nat /\ Len(calls) \in Nat
      /\ Len(input.calls) \in Nat /\ Last(calls) \in LastIn(parser.state) /\ parser.state \in States
      /\ boundary_length \in Nat \ {0} /\ parser.index \in 0 .. boundary_length + 1
  BY KnownTyped, Basics DEF IInv, Tracked, Types, Order, Ordered
<1>1. CASE parser.state \in {"s_start", "s_start_boundary"}
  <2>1. i <= boundary_length + 1
    BY <1>0, <1>1 DEF Place
  <2>2. Hi(input, 1) = boundary_length + 2 /\ Hi(input, 1) <= Len(input.bytes)
    BY <1>0, FirstBoundary, Spot
  <2> QED BY <1>0, <2>1, <2>2
\* What stands before callback k is not over.
<1>2. ASSUME NEW n \in {0, 1}, After(n),
             NEW cb \in {"headers_complete", "part_data_begin", "body_end"}, Before(cb)
      PROVE  i < Len(input.bytes)
  <2>1. PICK k : k = Len(calls) + 1
    OBVIOUS
  <2>2. k \in 1 .. Len(input.calls) /\ k # 1 /\ Cb(input, k) = cb /\ k - 1 = Len(calls)
    BY <1>0, <1>2, <2>1 DEF After, Before
  <2>3. i = Behind(input, k - 1) + n
    BY <1>2, <2>2 DEF After
  <2> QED BY SMTT(30), <1>0, <2>2, <2>3, TwoMore
<1>3. ASSUME NEW cb \in DataCallbacks, Within(cb) PROVE i < Len(input.bytes)
  <2>1. PICK k : k = Reading(cb)
    OBVIOUS
  <2>2. k \in 1 .. Len(input.calls)
    <3>1. k \in {Len(calls), Len(calls) + 1} /\ k <= Len(input.calls)
      BY <1>3, <2>1 DEF Within, Reading
    <3>2. k # 0
      <4>1. k = Len(calls) => Last(calls) = cb
        BY <1>0, <2>1 DEF Reading
      <4>2. Len(calls) = 0 => Last(calls) = "none"
        BY DEF IInv, Order, Ordered, Last
      <4> QED BY <1>0, <3>1, <4>1, <4>2 DEF DataCallbacks
    <3> QED BY <1>0, <3>1, <3>2
  <2>3. Cb(input, k) = cb /\ i <= Hi(input, k) /\ Hi(input, k) \in Nat
    BY <1>0, <1>3, <2>1, <2>2, KnownTyped DEF Within
  <2>4. Hi(input, k) + 1 <= Len(input.bytes)
    <3>1. CASE cb = "header_field"
      BY <1>0, <2>2, <2>3, <3>1, Name
    <3>2. CASE cb = "header_value"
      <4>1. Hi(input, k) + 2 <= Len(input.bytes)
        BY <1>0, <2>2, <2>3, <3>2, Value
      <4> QED BY <1>0, <2>3, <4>1
    <3>3. CASE cb = "part_data"
      <4>1. Hi(input, k) + 2 <= Len(input.bytes)
        BY <1>0, <2>2, <2>3, <3>3, DataEnds
      <4> QED BY <1>0, <2>3, <4>1
    <3> QED BY <3>1, <3>2, <3>3 DEF DataCallbacks
  <2> QED BY <1>0, <2>3, <2>4
<1>4. CASE parser.state = "s_header_field_start"
  <2>1. Len(calls) \in 1 .. Len(input.calls) /\ Cb(input, Len(calls)) \in {"part_data_begin", "header_value"}
        /\ After(0)
    BY <1>0, <1>4, LastKnown, LastInTable DEF Place
  <2>2. Before("header_field") \/ Before("headers_complete")
    BY <1>0, <2>1, Ahead DEF Before
  <2>3. CASE Before("header_field")
    <3>1. PICK k : k = Len(calls) + 1
      OBVIOUS
    <3>2. k \in 1 .. Len(input.calls) /\ Cb(input, k) = "header_field" /\ k - 1 = Len(calls)
      BY <1>0, <2>3, <3>1 DEF Before
    <3>3. /\ Behind(input, k - 1) \in Nat /\ Behind(input, k - 1) <= Lo(input, k) /\ Lo(input, k) <= Hi(input, k)
          /\ Lo(input, k) \in Nat /\ Hi(input, k) \in Nat /\ Hi(input, k) + 1 <= Len(input.bytes)
      BY <1>0, <3>2, Spot, Name
    <3>4. i = Behind(input, k - 1)
      BY <2>1, <3>2, <3>3 DEF After
    <3> QED BY <1>0, <3>3, <3>4
  <2> QED BY <1>2, <2>1, <2>2, <2>3
<1>5. CASE parser.state \in {"s_headers_almost_done", "s_part_data_final_hyphen", "s_part_data_end"}
  <2>1. \/ Before("headers_complete") /\ After(1)
        \/ Before("body_end") /\ After(1)
        \/ Before("part_data_begin") /\ After(1)
    BY <1>0, <1>5 DEF Place
  <2> QED BY <1>2, <2>1
<1>6. CASE parser.state \in {"s_header_field", "s_header_value", "s_part_data"}
  BY <1>0, <1>3, <1>6 DEF Place, DataCallbacks
<1>7. CASE parser.state = "s_header_value_start"
  <2>1. Before("header_value") /\ Blanks
    BY <1>0, <1>7 DEF Place
  <2>2. PICK k : k = Len(calls) + 1
    OBVIOUS
  <2>3. k \in 1 .. Len(input.calls) /\ Cb(input, k) = "header_value" /\ i <= Lo(input, k)
    BY <1>0, <2>1, <2>2 DEF Before, Blanks
  <2>4. Lo(input, k) \in Nat /\ Hi(input, k) \in Nat /\ Lo(input, k) <= Hi(input, k)
    BY <1>0, <2>3, Spot
  <2>5. Hi(input, k) + 2 <= Len(input.bytes)
    BY <1>0, <2>3, Value
  <2> QED BY <1>0, <2>3, <2>4, <2>5
<1>8. CASE parser.state = "s_header_value_almost_done"
  <2>1. PICK k : k = Len(calls)
    OBVIOUS
  <2>2. k \in 1 .. Len(input.calls) /\ Cb(input, k) = "header_value" /\ i = Hi(input, k) + 1
    BY <1>0, <1>8, <2>1, LastKnown, LastInTable DEF Place, LineEnd
  <2>3. Hi(input, k) \in Nat
    BY <1>0, <2>2, KnownTyped
  <2>4. Hi(input, k) + 2 <= Len(input.bytes)
    BY <1>0, <2>2, Value
  <2> QED BY <1>0, <2>2, <2>3, <2>4
<1>9. CASE parser.state = "s_part_data_start"
  <2>1. Before("headers_complete") /\ After(2)
    BY <1>0, <1>9 DEF Place
  <2>2. PICK k : k = Len(calls) + 1
    OBVIOUS
  <2>3. k \in 1 .. Len(input.calls) /\ k # 1 /\ Cb(input, k) = "headers_complete" /\ k - 1 = Len(calls)
    BY <1>0, <2>1, <2>2 DEF After, Before
  <2>4. i = Hi(input, k)
    <3>1. i = Behind(input, k - 1) + 2
      BY <2>1, <2>3 DEF After
    <3> QED BY <1>0, <2>3, <3>1, TwoMore
  <2>5. PICK k1 : k1 = k + 1
    OBVIOUS
  <2>6. k < Len(input.calls) /\ Cb(input, k1) = "part_data" /\ k1 \in 1 .. Len(input.calls) /\ k1 - 1 = k
    BY <1>0, <2>3, <2>5, Ahead
  <2>7. Behind(input, k1 - 1) <= Lo(input, k1) /\ Lo(input, k1) <= Hi(input, k1)
        /\ Lo(input, k1) \in Nat /\ Hi(input, k1) \in Nat
    BY <1>0, <2>6, Spot
  <2>8. Hi(input, k1) + 2 <= Len(input.bytes)
    BY <1>0, <2>6, DataEnds
  <2>9. Behind(input, k1 - 1) = i
    BY <1>0, <2>3, <2>4, <2>6, BehindTable
  <2> QED BY <1>0, <2>7, <2>8, <2>9
<1>10. ASSUME NEW n \in Nat, Withheld(n), n < 2 + boundary_length PROVE i < Len(input.bytes)
  <2>1. PICK k : k = Len(calls)
    OBVIOUS
  <2>2. k \in 1 .. Len(input.calls) /\ Cb(input, k) = "part_data" /\ i - n <= Hi(input, k)
    BY <1>10, <2>1 DEF Withheld
  <2>3. PICK k1 : k1 = k + 1
    OBVIOUS
  <2>4. /\ Cb(input, k1) = "part_data_end" /\ Behind(input, k1) = (Hi(input, k) + 2) + boundary_length
        /\ k1 \in 1 .. Len(input.calls)
    BY <1>0, <2>2, <2>3, DataEnds
  <2>5. Hi(input, k) \in Nat /\ Hi(input, k1) <= Len(input.bytes) /\ Behind(input, k1) = Hi(input, k1)
    BY <1>0, <2>2, <2>4, Spot, BehindTable
  <2> QED BY <1>0, <1>10, <2>2, <2>4, <2>5
<1>11. CASE parser.state = "s_part_data_almost_boundary"
  <2>1. Withheld(1) /\ 1 < 2 + boundary_length
    BY <1>0, <1>11 DEF Place
  <2> QED BY <1>10, <2>1
<1>12. CASE parser.state = "s_part_data_boundary"
  <2>1. PICK n : n = 2 + parser.index
    OBVIOUS
  <2>2. n \in Nat /\ n < 2 + boundary_length
    BY <1>0, <1>12, <2>1 DEF IInv, Lookbehind
  <2> QED BY <1>0, <1>10, <1>12, <2>1, <2>2 DEF Place
<1>13. CASE parser.state = "s_part_data_almost_end"
  <2>1. Len(calls) \in 1 .. Len(input.calls) /\ Cb(input, Len(calls)) = "part_data_end" /\ After(0)
    BY <1>0, <1>13, LastKnown, LastInTable DEF Place
  <2>2. Before("part_data_begin") \/ Before("body_end")
    BY <1>0, <2>1, Ahead DEF Before
  <2> QED BY <1>2, <2>1, <2>2
<1> QED BY <1>0, <1>1, <1>4, <1>5, <1>6, <1>7, <1>8, <1>9, <1>11, <1>12, <1>13 DEF States

\* For every well formed body and every way to cut it: execute returns short
\* only when a callback failed, and when the body is over the parser is in
\* s_end and has made every callback, body_end the last.
THEOREM WholeBodyParsed == Spec => []ParsedToTheEnd
<1>1. IInv /\ Tracked => ParsedToTheEnd
  <2> SUFFICES ASSUME IInv, Tracked, input.known PROVE ParsedToTheEnd
    BY DEF ParsedToTheEnd
  <2>1. pc = "stopped" => faults > 0
    BY DEF Tracked
  <2>2. ASSUME pc = "idle", i = Len(input.bytes)
        PROVE  parser.state = "s_end" /\ Len(calls) = Len(input.calls)
    <3>1. parser.state = "s_end"
      <4>1. ~(i < Len(input.bytes))
        BY <2>2, KnownTyped DEF IInv
      <4> QED BY <2>2, <4>1, MoreToCome
    <3>2. Epilogue
      BY <2>2, <3>1 DEF Tracked, Place
    <3> QED BY <3>1, <3>2 DEF Epilogue
  <2> QED BY <2>1, <2>2 DEF ParsedToTheEnd
<1> QED BY <1>1, WellFormedTracked, PTL
=============================================================================
