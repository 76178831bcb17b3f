-------------------------- MODULE RestServiceProofs --------------------------
(***************************************************************************)
(* A request from its first byte to its release, for every stream of bytes *)
(* and every way to cut it, for every url, every set of resources and      *)
(* every handler: what the handler is given is the request, it is the      *)
(* handler of the resource asked for, and the response is honest about the *)
(* length of its body.                                                     *)
(***************************************************************************)
EXTENDS RestService, SequenceTheorems, WellFoundedInduction, FunctionTheorems, FiniteSetTheorems, TLAPS

-----------------------------------------------------------------------------
(***************************************************************************)
(* The inductive invariant of the parser.  The reference of the properties *)
(* looks at the part of the stream that was received; these operators look *)
(* at the stream itself, so that more data changes nothing in them.        *)
(***************************************************************************)
LineEnd(s, i) == i \in 1 .. Len(s) - 1 /\ s[i] = "CR" /\ s[i + 1] = "LF"
EmptyLine(s, i) == LineEnd(s, i) /\ LineEnd(s, i - 2)

IsPrev(s, i, j) ==
  /\ j \in 1 .. i - 1 /\ LineEnd(s, j)
  /\ \A k \in 1 .. i - 1 : LineEnd(s, k) => k <= j
Prev(s, i) == CHOOSE j \in 1 .. i - 1 : IsPrev(s, i, j)
LineOf(s, i) == SubSeq(s, Prev(s, i) + 2, i - 1)

\* The header lines that end at q or before.
HeadersTo(s, q) == {i \in 1 .. q : /\ LineEnd(s, i)
                                   /\ \E j \in 1 .. i - 1 : LineEnd(s, j)
                                   /\ \A k \in 1 .. i : ~EmptyLine(s, k)}

\* How much of the stream was cut off the front of the buffer.
Pos == fed - Len(buf)

ClientOK(c) ==
  /\ c = [url |-> c.url, field |-> c.field, value |-> c.value, last_was_value |-> c.last_was_value,
          headers |-> c.headers, body |-> c.body]
  /\ c.url \in Seq(Word) /\ c.body \in Seq(Word) /\ c.last_was_value \in BOOLEAN
  /\ c.field \in Seq(Word) \cup {None} /\ c.value \in Seq(Word) \cup {None}
  /\ c.last_was_value => (c.field = None <=> c.value = None)
  /\ ~c.last_was_value => c.field # None /\ c.value = None
  /\ \A k \in DOMAIN c.headers : k \in Seq(Word) /\ c.headers[k] \in Seq(Word)

Types ==
  /\ stream \in Stream /\ fed \in 0 .. Len(stream)
  /\ pc \in {"idle", "exec", "crashed"}
  /\ state \in {"req_line", "header", "body", "finished"}
  /\ buf \in Seq(Word) /\ Len(buf) <= fed
  /\ last_pos \in 0 .. Len(buf)
  /\ content_length \in Nat /\ body_read \in Nat
  /\ completed = IF state = "finished" THEN 1 ELSE 0
  /\ ClientOK(client)

\* The buffer is the rest of the stream behind the last line end taken.
Position ==
  /\ \A i \in 1 .. Len(buf) : buf[i] = stream[Pos + i]
  /\ last_pos = body_read
  /\ state \in {"req_line", "header"} => body_read = 0
  /\ state = "req_line" => Pos = 0
  /\ state # "req_line" => LineEnd(stream, Pos - 1) /\ \A k \in 1 .. Pos - 2 : ~EmptyLine(stream, k)
  /\ state = "header" => ~LineEnd(stream, Pos - 3)
  /\ state \in {"body", "finished"} => LineEnd(stream, Pos - 3)

\* A request line that is refused stays where it is.
Refused == \E e \in 1 .. fed - 1 : /\ LineEnd(stream, e)
                                   /\ \A k \in 1 .. e - 1 : ~LineEnd(stream, k)
                                   /\ ~GoodRequestLine(SubSeq(stream, 1, e - 1))

Asking ==
  /\ state = "req_line" => client.url = << >> \/ Refused
  /\ state # "req_line" => /\ client.url = <<stream[2]>>
                           /\ Len(stream) >= 3 /\ stream[1] \in Methods /\ stream[3] \in Versions

\* Data is taken from the body in one go: what is left then is a multiple of
\* the range of int, or none.
BodyTaken ==
  /\ client.body = SubSeq(stream, Pos + 1, Pos + body_read)
  /\ body_read <= content_length
  /\ state = "body" => pc # "idle" /\ (body_read > 0 => NBytes <= 0)
  /\ state = "finished" => /\ body_read = content_length \/ 2 * body_read = content_length
                           /\ client.field = None \/ client.value = None

\* The headers with the pair that waits for the next line.
HeadersOf(c) == SaveHeader(c).headers

\* The lines that end at H, all of them pairs, are what c has of headers: each
\* name with the value of its first line.
Taken(c, s, H) ==
  (\A i \in H : IsPair(LineOf(s, i))) =>
    /\ c.last_was_value
    /\ DOMAIN HeadersOf(c) = {Name(LineOf(s, i)) : i \in H}
    /\ \A i \in H :
         (\A j \in H : j < i => Name(LineOf(s, j)) # Name(LineOf(s, i))) =>
           HeadersOf(c)[Name(LineOf(s, i))] = Value(LineOf(s, i))

HeadersTaken == Taken(client, stream, HeadersTo(stream, Pos - 1))

ParserInv == Types /\ Position /\ Asking /\ BodyTaken /\ HeadersTaken

-----------------------------------------------------------------------------
(***************************************************************************)
(* The inductive invariant of the service.                                 *)
(***************************************************************************)
TheQuery == Query(UrlChars[stream[2]])

\* The parameters of q that end at the i-th character or before.
PartsTo(q, i) == {s \in Starts(q) : \E a \in s .. i : q[a] = "&"}

Plain(q, m, n) == \A i \in m .. n : q[i] \notin {"=", "&"}

QueryState(q, w) ==
  /\ w = [i |-> w.i, current_is_value |-> w.current_is_value, started_from |-> w.started_from,
          cur_len |-> w.cur_len, key |-> w.key]
  /\ w.i \in 0 .. Len(q) /\ w.current_is_value \in BOOLEAN
  /\ ~w.current_is_value =>
       /\ w.started_from \in 0 .. w.i /\ w.started_from + 1 \in Starts(q)
       /\ Plain(q, w.started_from + 1, w.i)
       /\ w.cur_len = w.i - w.started_from + (IF w.started_from = 0 THEN 0 ELSE 1)
       /\ w.key = None
  /\ w.current_is_value =>
       /\ w.started_from \in 1 .. w.i /\ q[w.started_from] = "="
       /\ Plain(q, w.started_from + 1, w.i)
       /\ w.cur_len = w.i - w.started_from
       /\ \E s \in Starts(q) :
            /\ s <= w.started_from /\ Plain(q, s, w.started_from - 1)
            /\ w.key = SubSeq(q, s, w.started_from - 1) \o (IF s = 1 THEN << >> ELSE <<"=">>)

KeyAt(q, s) == KeyOf(PartAt(q, s), s)
ValueAt(q, s) == ValueOf(PartAt(q, s))
Named(q, s) == Equals(PartAt(q, s)) # {}

Param == (Seq(STRING) \cup {None}) \X Seq(STRING)

\* ps is what the parameters of q that start at D give.
ParamsRead(q, ps, D) ==
  /\ ps \in Seq(Param)
  /\ \A s \in D : \A i, j \in Equals(PartAt(q, s)) : i = j
  /\ Contains(ps, None) <=> \E s \in D : ~Named(q, s)
  /\ (\A s \in D : Named(q, s)) =>
       /\ {ps[n][1] : n \in DOMAIN ps} = {KeyAt(q, s) : s \in D}
       /\ \A m, n \in DOMAIN ps : ps[m][1] = ps[n][1] => m = n
       /\ \A n \in DOMAIN ps : \E s \in D :
            /\ KeyAt(q, s) = ps[n][1]
            /\ \A t \in D : KeyAt(q, t) = KeyAt(q, s) => s <= t
            /\ ps[n][2] = ValueAt(q, s)

Stages == {"parsing", "complete", "query", "handler", "sent", "released", "aborted", "exited"}

Stage ==
  /\ phase \in Stages
  /\ IF state = "finished" THEN phase # "parsing" ELSE phase \in {"parsing", "exited"}
  /\ state # "req_line" => method = MethodOf[stream[1]] /\ version = stream[3]
  /\ phase \in {"parsing", "complete", "query"} => handler = None /\ sent = None /\ called = << >> /\ got = None
  /\ phase \in {"parsing", "complete"} =>
       /\ params = << >>
       /\ query = [i |-> 0, current_is_value |-> FALSE, started_from |-> 0, cur_len |-> 0, key |-> None]
  /\ phase = "query" => /\ TheQuery # << >> /\ QueryState(TheQuery, query)
                        /\ ParamsRead(TheQuery, params, PartsTo(TheQuery, query.i))
  /\ phase = "handler" => handler # None /\ sent = None
  /\ params \in Seq(Param)
  /\ handler \in DOMAIN Resources \cup {Generic, None}

\* An answer has been given to the connection.
Answered == sent # None \/ phase \in {"sent", "released"}

Wanted == [method |-> MethodOf[stream[1]], path |-> Path(UrlChars[stream[2]])]

Served ==
  handler # None =>
    /\ ~Asked.bad
    /\ handler = Generic => \A n \in DOMAIN Resources : Resources[n] # Wanted
    /\ handler # Generic => Resources[handler] = Wanted /\ \A n \in 1 .. handler - 1 : Resources[n] # Wanted
    /\ Contains(params, None) <=> Asked.nameless
    /\ ~Asked.nameless =>
         /\ {params[n][1] : n \in DOMAIN params} = DOMAIN Asked.values
         /\ \A m, n \in DOMAIN params : params[m][1] = params[n][1] => m = n
         /\ \A n \in DOMAIN params : params[n][2] = Asked.values[params[n][1]]
    /\ got # None /\ ~Asked.nameless =>
         got.value = IF got.name \in DOMAIN Asked.values THEN Asked.values[got.name] ELSE None

\* The status messages of set_error.
BadRequestText == "Bad request"
NotFoundText == "Not found"

BadRequest == [version |-> stream[3], status |-> 400, message |-> BadRequestText,
               headers |-> [h \in {"Content-Length"} |-> 0], body |-> 0]

RefusedQuery ==
  Answered /\ handler = None =>
    /\ Asked.bad /\ sent = BadRequest
    /\ Contains(params, None) <=> Asked.nameless

\* What the calls of a handler have made of its response.
BuiltBy(r, calls) ==
  /\ r = [version |-> r.version, status |-> r.status, message |-> r.message, headers |-> r.headers,
          body |-> r.body]
  /\ r.body \in Nat /\ r.status \in {0, 200, 404}
  /\ r.message = None <=> \A n \in DOMAIN calls : ~SetsMessage(calls[n])
  /\ "Content-Length" \in DOMAIN r.headers <=> \E n \in DOMAIN calls : calls[n][2] # None
  /\ (\A n \in DOMAIN calls : calls[n][2] = None) => r.body = 0
  /\ "Content-Length" \in DOMAIN r.headers =>
       /\ r.headers["Content-Length"] \in 0 .. r.body
       /\ \A f \in DOMAIN calls :
            /\ calls[f][2] # None
            /\ \A n \in DOMAIN calls : calls[n][2] = None \/ n = f \/ (f < n /\ calls[n][2] = 0)
            => r.headers["Content-Length"] = r.body

CallNames == {"set_body", "set_header", "set_status", "set_not_found", "get"}

Responding ==
  /\ called \in Seq(CallNames \X (Nat \cup {None}))
  /\ phase = "handler" => BuiltBy(response, called)
  /\ Answered /\ handler # None => BuiltBy(sent, called) /\ \E n \in DOMAIN called : SetsMessage(called[n])

Aborting ==
  /\ phase = "aborted" =>
       \/ Asked.nameless
       \/ GenericMissing(handler)
       \/ handler # None /\ \A n \in DOMAIN called : ~SetsMessage(called[n])
  /\ phase = "released" => ~Contains(params, None)
  /\ GenericMissing(handler) => phase = "aborted" /\ called = << >> /\ sent = None
  /\ phase = "exited" => fed < Len(stream) /\ stream[fed + 1] \in ExitWords

ServiceInv == ParserInv /\ Stage /\ Served /\ RefusedQuery /\ Responding /\ Aborting

-----------------------------------------------------------------------------
(***************************************************************************)
(* The first of a set of numbers, and lines of a stream.                   *)
(***************************************************************************)
LEMMA FirstExists ==
  ASSUME NEW S, S \subseteq Nat, S # {}
  PROVE  FirstOf(S) \in S /\ \A j \in S : FirstOf(S) <= j
<1>1. PICK m \in S : \A y \in S : ~(<<y, m>> \in OpToRel(<, Nat))
  BY NatLessThanWellFounded, WFMin
<1>2. \A y \in S : y \in Nat /\ m \in Nat /\ ~(y < m)
  BY <1>1, Zenon DEF OpToRel
<1>3. \A y \in S : m <= y
  BY <1>2
<1> QED BY <1>3 DEF FirstOf

LEMMA FirstIs ==
  ASSUME NEW S, S \subseteq Int, NEW m \in S, \A j \in S : m <= j
  PROVE  FirstOf(S) = m
<1>1. FirstOf(S) \in S /\ \A j \in S : FirstOf(S) <= j
  BY DEF FirstOf
<1>2. FirstOf(S) \in Int /\ m \in Int /\ FirstOf(S) <= m /\ m <= FirstOf(S)
  BY <1>1
<1> QED BY <1>2

LEMMA PrevIs ==
  ASSUME NEW s, NEW i \in Int, NEW j, IsPrev(s, i, j)
  PROVE  Prev(s, i) = j
<1>1. IsPrev(s, i, Prev(s, i))
  BY DEF IsPrev, Prev
<1> QED BY <1>1 DEF IsPrev

LEMMA PrevExists ==
  ASSUME NEW s, NEW i \in Int, NEW k \in 1 .. i - 1, LineEnd(s, k)
  PROVE  IsPrev(s, i, Prev(s, i))
<1> DEFINE S == {n \in 1 .. i - 1 : LineEnd(s, i - n)}
<1> DEFINE j == i - FirstOf(S)
<1>0. \A n \in S : n \in 1 .. i - 1 /\ LineEnd(s, i - n)
  OBVIOUS
<1>1. \A m \in 1 .. i - 1 : LineEnd(s, m) => i - m \in S
  <2> TAKE m \in 1 .. i - 1
  <2>1. i - (i - m) = m
    OBVIOUS
  <2> QED BY <2>1
<1>2. FirstOf(S) \in S /\ \A n \in S : FirstOf(S) <= n
  <2>1. S \subseteq Nat /\ S # {}
    <3>1. i - k \in S
      BY <1>1
    <3>2. \A n \in S : n \in Nat
      BY <1>0
    <3> HIDE DEF S
    <3> QED BY <3>1, <3>2
  <2> HIDE DEF S
  <2> QED BY <2>1, FirstExists
<1>3. j \in 1 .. i - 1 /\ LineEnd(s, j) /\ \A m \in 1 .. i - 1 : LineEnd(s, m) => m <= j
  <2> HIDE DEF S
  <2> QED BY <1>0, <1>1, <1>2
<1>4. IsPrev(s, i, j)
  BY <1>3 DEF IsPrev
<1> QED BY <1>4, PrevIs

LEMMA StreamWords ==
  ASSUME NEW s \in Stream
  PROVE  s \in Seq(Word) /\ Len(s) \in Nat /\ \A i \in 1 .. Len(s) : s[i] \in Word
<1>1. s \in Seq(STRING) /\ Len(s) \in Nat /\ DOMAIN s = 1 .. Len(s)
  BY ParserAssumption
<1>2. \A i \in 1 .. Len(s) : s[i] \in {s[j] : j \in DOMAIN s}
  BY <1>1
<1>3. {s[j] : j \in DOMAIN s} \subseteq Word
  BY DEF Word
<1>4. \A i \in 1 .. Len(s) : s[i] \in Word
  BY <1>2, <1>3
<1>5. SubSeq(s, 1, Len(s)) \in Seq(Word)
  BY <1>1, <1>4, SubSeqProperties
<1> QED BY <1>1, <1>4, <1>5, SubSeqFull

LEMMA WordsAreStrings == Seq(Word) \subseteq Seq(STRING) /\ None \notin Seq(Word)
<1>1. ASSUME NEW w \in Word PROVE w \in STRING
  <2>1. PICK s \in Stream : w \in {s[i] : i \in DOMAIN s}
    BY DEF Word
  <2>2. s \in Seq(STRING)
    BY ParserAssumption
  <2> QED BY <2>1, <2>2
<1>2. ASSUME NEW t \in Seq(Word) PROVE t \in Seq(STRING)
  BY <1>1, SeqMonotonic
<1> QED BY <1>2, ParserAssumption

\* A slice of a sequence that holds a part of another is that part of the other.
Holds(s, b, p) == p + Len(b) <= Len(s) /\ \A i \in 1 .. Len(b) : b[i] = s[p + i]

IsSlice(W, s, b, p, m, n) ==
  /\ SubSeq(b, m, n) = SubSeq(s, p + m, p + n)
  /\ SubSeq(b, m, n) \in Seq(W)
  /\ Len(SubSeq(b, m, n)) = IF m <= n THEN n - m + 1 ELSE 0
  /\ \A i \in 1 .. n - m + 1 : SubSeq(b, m, n)[i] = s[p + m + i - 1]

LEMMA SliceIs ==
  ASSUME NEW W, NEW s \in Seq(W), NEW b \in Seq(W), NEW p \in Nat, Holds(s, b, p),
         NEW m \in 1 .. Len(b) + 1, NEW n \in 0 .. Len(b)
  PROVE  IsSlice(W, s, b, p, m, n)
<1>0. /\ p + Len(b) <= Len(s) /\ \A i \in 1 .. Len(b) : b[i] = s[p + i]
      /\ Len(b) \in Nat /\ Len(s) \in Nat /\ \A i \in 1 .. Len(s) : s[i] \in W
  BY DEF Holds
<1>1. \A i \in m .. n : b[i] \in W
  BY <1>0
<1>2. \A i \in p + m .. p + n : s[i] \in W
  BY <1>0
<1>3. /\ SubSeq(b, m, n) \in Seq(W)
      /\ Len(SubSeq(b, m, n)) = IF m <= n THEN n - m + 1 ELSE 0
      /\ \A i \in 1 .. n - m + 1 : SubSeq(b, m, n)[i] = b[m + i - 1]
  BY SMTT(30), <1>0, <1>1, SubSeqProperties
<1>4. /\ SubSeq(s, p + m, p + n) \in Seq(W)
      /\ Len(SubSeq(s, p + m, p + n)) = IF p + m <= p + n THEN (p + n) - (p + m) + 1 ELSE 0
      /\ \A i \in 1 .. (p + n) - (p + m) + 1 : SubSeq(s, p + m, p + n)[i] = s[p + m + i - 1]
  <2>1. p + m \in Int /\ p + n \in Int
    BY <1>0
  <2> QED BY <2>1, <1>2, SubSeqProperties
<1>5. \A i \in 1 .. n - m + 1 : b[m + i - 1] = s[p + m + i - 1]
  <2> TAKE i \in 1 .. n - m + 1
  <2>1. m + i - 1 \in 1 .. Len(b) /\ p + (m + i - 1) = p + m + i - 1
    BY <1>0
  <2> QED BY <1>0, <2>1
<1>6. SubSeq(b, m, n) = SubSeq(s, p + m, p + n)
  <2>1. Len(SubSeq(b, m, n)) = Len(SubSeq(s, p + m, p + n))
    BY <1>0, <1>3, <1>4
  <2>2. \A i \in 1 .. Len(SubSeq(b, m, n)) : SubSeq(b, m, n)[i] = SubSeq(s, p + m, p + n)[i]
    BY <1>0, <1>3, <1>4, <1>5
  <2> QED BY <1>3, <1>4, <2>1, <2>2, SeqEqual
<1> QED BY <1>3, <1>5, <1>6 DEF IsSlice

LEMMA SliceOf ==
  ASSUME NEW W, NEW s \in Seq(W), NEW b \in Seq(W), NEW p \in Nat, p + Len(b) <= Len(s),
         \A i \in 1 .. Len(b) : b[i] = s[p + i],
         NEW m \in 1 .. Len(b) + 1, NEW n \in 0 .. Len(b)
  PROVE  /\ SubSeq(b, m, n) = SubSeq(s, p + m, p + n)
         /\ SubSeq(b, m, n) \in Seq(W)
         /\ Len(SubSeq(b, m, n)) = IF m <= n THEN n - m + 1 ELSE 0
         /\ \A i \in 1 .. n - m + 1 : SubSeq(b, m, n)[i] = s[p + m + i - 1]
<1>1. Holds(s, b, p)
  BY DEF Holds
<1>2. IsSlice(W, s, b, p, m, n)
  BY <1>1, SliceIs
<1> QED BY <1>2 DEF IsSlice

LEMMA SliceOfStream ==
  ASSUME NEW s \in Stream, NEW b \in Seq(Word), NEW p \in Nat, p + Len(b) <= Len(s),
         \A i \in 1 .. Len(b) : b[i] = s[p + i],
         NEW m \in 1 .. Len(b) + 1, NEW n \in 0 .. Len(b)
  PROVE  /\ SubSeq(b, m, n) = SubSeq(s, p + m, p + n)
         /\ SubSeq(b, m, n) \in Seq(Word)
         /\ Len(SubSeq(b, m, n)) = IF m <= n THEN n - m + 1 ELSE 0
         /\ \A i \in 1 .. n - m + 1 : SubSeq(b, m, n)[i] = s[p + m + i - 1]
<1>1. s \in Seq(Word) /\ Holds(s, b, p)
  BY StreamWords DEF Holds
<1>2. IsSlice(Word, s, b, p, m, n)
  BY <1>1, SliceIs
<1> QED BY <1>2 DEF IsSlice

\* RST_requestparser_go_until_eq finds the first line end of the stream behind
\* what was cut off.
LEMMA LineTaken ==
  ASSUME Types, Position, last_pos = 0, LineEnds # {}
  PROVE  \E e \in 1 .. Len(buf) - 1 :
           /\ e = FirstOf(LineEnds)
           /\ LineEnd(stream, Pos + e) /\ \A k \in Pos + 1 .. Pos + e - 1 : ~LineEnd(stream, k)
           /\ Line = SubSeq(stream, Pos + 1, Pos + e - 1)
           /\ Line \in Seq(Word) /\ Len(Line) = e - 1
           /\ \A i \in 1 .. e - 1 : Line[i] = stream[Pos + i]
<1>0. /\ stream \in Stream /\ Len(stream) \in Nat /\ fed \in Nat /\ fed <= Len(stream)
      /\ buf \in Seq(Word) /\ Len(buf) \in Nat /\ Len(buf) <= fed
      /\ Pos \in Nat /\ Pos + Len(buf) = fed
      /\ \A i \in 1 .. Len(buf) : buf[i] = stream[Pos + i]
  BY StreamWords DEF Types, Position, Pos
<1> DEFINE e == FirstOf(LineEnds)
<1>1. e \in LineEnds /\ \A j \in LineEnds : e <= j
  <2>1. LineEnds \subseteq Nat
    BY <1>0 DEF LineEnds
  <2> QED BY <2>1, FirstExists
<1>2. e \in 1 .. Len(buf) - 1 /\ buf[e] = "CR" /\ buf[e + 1] = "LF"
  BY <1>0, <1>1 DEF LineEnds
<1> HIDE DEF e
<1>3. LineEnd(stream, Pos + e)
  <2>0. e \in 1 .. Len(buf) /\ e + 1 \in 1 .. Len(buf) /\ Pos + (e + 1) = Pos + e + 1
    BY <1>0, <1>2
  <2>1. buf[e] = stream[Pos + e] /\ buf[e + 1] = stream[Pos + (e + 1)]
    BY <1>0, <2>0
  <2> QED BY <1>0, <1>2, <2>0, <2>1 DEF LineEnd
<1>4. ASSUME NEW k \in Pos + 1 .. Pos + e - 1, LineEnd(stream, k) PROVE FALSE
  <2>1. k - Pos \in 1 .. e - 1 /\ k - Pos \in 1 .. Len(buf) /\ (k - Pos) + 1 \in 1 .. Len(buf)
    BY <1>0, <1>2
  <2>2. stream[Pos + (k - Pos)] = "CR" /\ stream[Pos + ((k - Pos) + 1)] = "LF"
    <3>1. Pos + (k - Pos) = k /\ Pos + ((k - Pos) + 1) = k + 1
      BY <1>0
    <3> QED BY <1>4, <3>1 DEF LineEnd
  <2>3. buf[k - Pos] = "CR" /\ buf[(k - Pos) + 1] = "LF"
    BY <1>0, <2>1, <2>2
  <2>4. k - Pos \in LineEnds
    BY <1>0, <1>2, <2>1, <2>3 DEF LineEnds
  <2> QED BY <1>1, <1>2, <2>1, <2>4
<1>5. Line = SubSeq(buf, 1, e - 1)
  BY <1>2 DEF Line, e
<1>6. /\ SubSeq(buf, 1, e - 1) = SubSeq(stream, Pos + 1, Pos + (e - 1))
      /\ SubSeq(buf, 1, e - 1) \in Seq(Word)
      /\ Len(SubSeq(buf, 1, e - 1)) = IF 1 <= e - 1 THEN (e - 1) - 1 + 1 ELSE 0
      /\ \A i \in 1 .. (e - 1) - 1 + 1 : SubSeq(buf, 1, e - 1)[i] = stream[Pos + 1 + i - 1]
  <2>1. 1 \in 1 .. Len(buf) + 1 /\ e - 1 \in 0 .. Len(buf) /\ Pos + Len(buf) <= Len(stream)
    BY <1>0, <1>2
  <2>2. /\ stream \in Stream /\ buf \in Seq(Word) /\ Pos \in Nat
        /\ \A i \in 1 .. Len(buf) : buf[i] = stream[Pos + i]
    BY <1>0
  <2> HIDE DEF Pos
  <2> QED BY SMTT(30), <2>1, <2>2, SliceOfStream
<1>7. /\ Line = SubSeq(stream, Pos + 1, Pos + e - 1) /\ Line \in Seq(Word) /\ Len(Line) = e - 1
      /\ \A i \in 1 .. e - 1 : Line[i] = stream[Pos + i]
  BY <1>0, <1>2, <1>5, <1>6
<1> QED BY <1>2, <1>3, <1>4, <1>7 DEF e

\* string_builder_slice_inplace cuts the line and its end off the buffer.
LEMMA SliceCuts ==
  ASSUME Types, Position, NEW e \in 1 .. Len(buf) - 1, e = FirstOf(LineEnds), Slice,
         UNCHANGED <<stream, fed>>
  PROVE  /\ buf' \in Seq(Word) /\ Len(buf') \in Nat /\ Len(buf') <= fed' /\ last_pos' = 0
         /\ Pos' = Pos + e + 1 /\ Pos' \in Nat /\ Pos' <= fed'
         /\ \A i \in 1 .. Len(buf') : buf'[i] = stream'[Pos' + i]
<1>0. /\ stream \in Stream /\ Len(stream) \in Nat /\ fed \in Nat /\ fed <= Len(stream)
      /\ buf \in Seq(Word) /\ Len(buf) \in Nat /\ Len(buf) <= fed
      /\ Pos \in Nat /\ Pos + Len(buf) = fed
      /\ \A i \in 1 .. Len(buf) : buf[i] = stream[Pos + i]
  BY StreamWords DEF Types, Position, Pos
<1>b. Len(stream) \in Nat /\ fed \in Nat /\ Len(buf) \in Nat /\ Pos \in Nat /\ Pos + Len(buf) = fed
      /\ Pos + Len(buf) <= Len(stream) /\ e \in Nat
  BY <1>0
<1> DEFINE m == e + 2
<1>a. m \in 1 .. Len(buf) + 1 /\ m = e + 2
  BY <1>0
<1> HIDE DEF m
<1>1. buf' = SubSeq(buf, m, Len(buf)) /\ last_pos' = 0
  BY DEF Slice, m
<1>2. /\ SubSeq(buf, m, Len(buf)) \in Seq(Word)
      /\ Len(SubSeq(buf, m, Len(buf))) = IF m <= Len(buf) THEN Len(buf) - m + 1 ELSE 0
      /\ \A i \in 1 .. Len(buf) - m + 1 : SubSeq(buf, m, Len(buf))[i] = stream[Pos + m + i - 1]
  <2>1. Len(buf) \in 0 .. Len(buf)
    BY <1>b
  <2>2. SubSeq(buf, m, Len(buf)) = SubSeq(stream, Pos + m, Pos + Len(buf))
      /\ SubSeq(buf, m, Len(buf)) \in Seq(Word)
      /\ Len(SubSeq(buf, m, Len(buf))) = (IF m <= Len(buf) THEN Len(buf) - m + 1 ELSE 0)
      /\ \A i \in 1 .. Len(buf) - m + 1 : SubSeq(buf, m, Len(buf))[i] = stream[Pos + m + i - 1]
    BY ONLY SMTT(30), <1>0, <1>a, <1>b, <2>1, SliceOfStream
  <2> QED BY <2>2
<1>3. Len(buf') = Len(buf) - e - 1
  BY SMTT(30), <1>0, <1>a, <1>1, <1>2
<1>4. Pos' = Pos + e + 1
  BY <1>0, <1>3 DEF Pos
<1>5. ASSUME NEW i \in 1 .. Len(buf') PROVE buf'[i] = stream'[Pos' + i]
  <2>1. i \in 1 .. Len(buf) - m + 1
    BY SMTT(30), <1>0, <1>a, <1>3
  <2>2. Pos + m + i - 1 = Pos' + i
    <3>1. i \in Int
      OBVIOUS
    <3> QED BY ONLY <1>b, <1>a, <1>4, <3>1
  <2> QED BY <1>1, <1>2, <2>1, <2>2
<1>6. Len(buf') \in Nat /\ Len(buf') <= fed' /\ Pos' \in Nat /\ Pos' <= fed'
  BY SMTT(30), <1>0, <1>3, <1>4
<1> QED BY <1>1, <1>2, <1>4, <1>5, <1>6

-----------------------------------------------------------------------------
(***************************************************************************)
(* The client's callbacks.                                                 *)
(***************************************************************************)
MkClient(u, f, v, l, h, b) ==
  [url |-> u, field |-> f, value |-> v, last_was_value |-> l, headers |-> h, body |-> b]

LEMMA SaveHeaderIs ==
  ASSUME NEW c, ClientOK(c)
  PROVE  /\ ClientOK(SaveHeader(c))
         /\ SaveHeader(c).url = c.url /\ SaveHeader(c).body = c.body
         /\ SaveHeader(c).last_was_value = c.last_was_value
         /\ SaveHeader(c).field = None \/ SaveHeader(c).value = None
         /\ c.field = None \/ c.value = None => SaveHeader(c) = c
<1>1. CASE c.field # None /\ c.value # None
  <2> DEFINE h == MapInsert(c.headers, c.field, c.value)
  <2>1. SaveHeader(c) = MkClient(c.url, None, None, c.last_was_value, h, c.body)
    <3>1. c = [url |-> c.url, field |-> c.field, value |-> c.value, last_was_value |-> c.last_was_value,
               headers |-> c.headers, body |-> c.body]
      BY DEF ClientOK
    <3> QED BY <1>1, <3>1 DEF SaveHeader, MkClient
  <2>2. \A k \in DOMAIN h : k \in Seq(Word) /\ h[k] \in Seq(Word)
    <3>1. /\ c.field \in Seq(Word) /\ c.value \in Seq(Word)
          /\ \A k \in DOMAIN c.headers : k \in Seq(Word) /\ c.headers[k] \in Seq(Word)
      BY <1>1 DEF ClientOK
    <3> QED BY <3>1 DEF MapInsert
  <2> HIDE DEF h
  <2>3. c.last_was_value = TRUE
    BY <1>1 DEF ClientOK
  <2>4. ClientOK(MkClient(c.url, None, None, TRUE, h, c.body))
    BY <2>2 DEF ClientOK, MkClient
  <2>5. SaveHeader(c).url = c.url /\ SaveHeader(c).body = c.body
        /\ SaveHeader(c).last_was_value = c.last_was_value /\ SaveHeader(c).field = None
    BY <2>1 DEF MkClient
  <2> QED BY <1>1, <2>1, <2>3, <2>4, <2>5
<1>2. CASE c.field = None \/ c.value = None
  BY <1>2 DEF SaveHeader
<1> QED BY <1>1, <1>2

LEMMA OnHeaderFieldIs ==
  ASSUME NEW c, ClientOK(c), NEW at \in Seq(Word)
  PROVE  /\ ClientOK(OnHeaderField(c, at))
         /\ OnHeaderField(c, at).url = c.url /\ OnHeaderField(c, at).body = c.body
         /\ OnHeaderField(c, at).last_was_value = FALSE
         /\ c.last_was_value => /\ OnHeaderField(c, at).field = at
                                /\ OnHeaderField(c, at).headers = SaveHeader(c).headers
<1>0. None \notin Seq(Word) /\ << >> \in Seq(Word) /\ << >> \o at = at
  BY WordsAreStrings, ConcatEmptySeq
<1>1. CASE c.last_was_value
  <2> DEFINE d == SaveHeader(c)
  <2>1. /\ ClientOK(d) /\ d.url = c.url /\ d.body = c.body /\ d.last_was_value = TRUE
        /\ d.field = None \/ d.value = None
    BY <1>1, SaveHeaderIs DEF ClientOK
  <2>2. OnHeaderField(c, at) = [[d EXCEPT !.field = << >>] EXCEPT !.field = @ \o at, !.last_was_value = FALSE]
    BY <1>1 DEF OnHeaderField
  <2> HIDE DEF d
  <2>3. d = [url |-> d.url, field |-> d.field, value |-> d.value, last_was_value |-> d.last_was_value,
             headers |-> d.headers, body |-> d.body]
    BY <2>1 DEF ClientOK
  <2>4. OnHeaderField(c, at) = MkClient(d.url, at, d.value, FALSE, d.headers, d.body)
    BY <1>0, <2>2, <2>3 DEF MkClient
  <2>5. d.value = None
    BY <2>1 DEF ClientOK
  <2>6. ClientOK(MkClient(d.url, at, d.value, FALSE, d.headers, d.body))
    BY <1>0, <2>1, <2>5 DEF ClientOK, MkClient
  <2> QED BY <2>1, <2>4, <2>6 DEF MkClient, d
<1>2. CASE ~c.last_was_value
  <2>1. c = [url |-> c.url, field |-> c.field, value |-> c.value, last_was_value |-> c.last_was_value,
             headers |-> c.headers, body |-> c.body]
    BY DEF ClientOK
  <2>2. c.field \in Seq(Word) /\ c.field \o at \in Seq(Word) /\ c.value = None
    BY <1>2, ConcatProperties DEF ClientOK
  <2>a. OnHeaderField(c, at) = [c EXCEPT !.field = @ \o at, !.last_was_value = FALSE]
    BY <1>2 DEF OnHeaderField
  <2>3. OnHeaderField(c, at) = MkClient(c.url, c.field \o at, None, FALSE, c.headers, c.body)
    BY <2>1, <2>2, <2>a DEF MkClient
  <2>4. ClientOK(MkClient(c.url, c.field \o at, None, FALSE, c.headers, c.body))
    BY <1>0, <2>2 DEF ClientOK, MkClient
  <2> QED BY <1>2, <2>3, <2>4 DEF MkClient
<1> QED BY <1>1, <1>2

LEMMA OnHeaderValueIs ==
  ASSUME NEW c, ClientOK(c), NEW at \in Seq(Word), ~ValueCrashes(c)
  PROVE  /\ ClientOK(OnHeaderValue(c, at))
         /\ OnHeaderValue(c, at).url = c.url /\ OnHeaderValue(c, at).body = c.body
         /\ OnHeaderValue(c, at).last_was_value = TRUE
         /\ OnHeaderValue(c, at).field = c.field
         /\ OnHeaderValue(c, at).headers = c.headers
         /\ ~c.last_was_value => OnHeaderValue(c, at).value = at
<1>0. None \notin Seq(Word) /\ << >> \in Seq(Word) /\ << >> \o at = at
  BY WordsAreStrings, ConcatEmptySeq
<1>1. c = [url |-> c.url, field |-> c.field, value |-> c.value, last_was_value |-> c.last_was_value,
           headers |-> c.headers, body |-> c.body]
  BY DEF ClientOK
<1> DEFINE v == IF c.last_was_value THEN c.value \o at ELSE at
<1>2. OnHeaderValue(c, at) = MkClient(c.url, c.field, v, TRUE, c.headers, c.body)
  <2>1. CASE c.last_was_value
    <3>1. OnHeaderValue(c, at) = [c EXCEPT !.value = @ \o at, !.last_was_value = TRUE]
      BY <2>1 DEF OnHeaderValue
    <3> QED BY <1>1, <2>1, <3>1 DEF MkClient
  <2>2. CASE ~c.last_was_value
    <3>1. OnHeaderValue(c, at) = [[c EXCEPT !.value = << >>] EXCEPT !.value = @ \o at, !.last_was_value = TRUE]
      BY <2>2 DEF OnHeaderValue
    <3> QED BY <1>0, <1>1, <2>2, <3>1 DEF MkClient
  <2> QED BY <2>1, <2>2
<1>3. v \in Seq(Word) /\ c.field # None /\ v # None
  BY <1>0, ConcatProperties DEF ClientOK, ValueCrashes
<1>4. ~c.last_was_value => v = at
  OBVIOUS
<1> HIDE DEF v
<1>5. ClientOK(MkClient(c.url, c.field, v, TRUE, c.headers, c.body))
  BY <1>3 DEF ClientOK, MkClient
<1> QED BY <1>2, <1>4, <1>5 DEF MkClient

LEMMA NameIs ==
  ASSUME NEW line \in Seq(Word), Colons(line) # {}
  PROVE  Name(line) \in Seq(Word) /\ (IsPair(line) => Value(line) \in Seq(Word) /\ Len(Value(line)) >= 1)
<1> DEFINE f == FirstOf(Colons(line))
<1>1. f \in Colons(line)
  <2>1. Colons(line) \subseteq Nat
    BY DEF Colons
  <2> QED BY <2>1, FirstExists
<1>2. f \in 1 .. Len(line) /\ Len(line) \in Nat /\ \A i \in 1 .. Len(line) : line[i] \in Word
  BY <1>1 DEF Colons
<1>3. IsPair(line) => f < Len(line)
  BY <1>1 DEF IsPair
<1> HIDE DEF f
<1>4. SubSeq(line, 1, f - 1) \in Seq(Word)
  BY <1>2, SubSeqProperties
<1>5. SubSeq(line, f + 1, Len(line)) \in Seq(Word)
      /\ Len(SubSeq(line, f + 1, Len(line))) = IF f + 1 <= Len(line) THEN Len(line) - (f + 1) + 1 ELSE 0
  <2> DEFINE m == f + 1
  <2>1. m \in Int /\ Len(line) \in Int /\ \A i \in m .. Len(line) : line[i] \in Word
    BY <1>2
  <2> HIDE DEF m
  <2>2. SubSeq(line, m, Len(line)) \in Seq(Word)
        /\ Len(SubSeq(line, m, Len(line))) = IF m <= Len(line) THEN Len(line) - m + 1 ELSE 0
    BY <2>1, SubSeqProperties
  <2> QED BY <2>2 DEF m
<1> QED BY <1>2, <1>3, <1>4, <1>5 DEF Name, Value, f

\* What a line makes of the client; a pair saves the pair before it.
LEMMA HeaderIs ==
  ASSUME NEW c, ClientOK(c), NEW line \in Seq(Word), ~HeaderCrashes(c, line)
  PROVE  /\ ClientOK(Header(c, line))
         /\ Header(c, line).url = c.url /\ Header(c, line).body = c.body
         /\ c.last_was_value /\ IsPair(line) =>
              /\ Header(c, line).last_was_value
              /\ HeadersOf(Header(c, line)) = MapInsert(HeadersOf(c), Name(line), Value(line))
<1>0. None \notin Seq(Word)
  BY WordsAreStrings
<1>1. CASE Colons(line) = {}
  <2>1. ~ValueCrashes(c) /\ Header(c, line) = OnHeaderValue(c, line) /\ ~IsPair(line)
    BY <1>1 DEF HeaderCrashes, Header, IsPair
  <2> QED BY <2>1, OnHeaderValueIs
<1>2. CASE Colons(line) # {} /\ ~IsPair(line)
  <2>1. Header(c, line) = OnHeaderField(c, Name(line))
    BY <1>2 DEF Header
  <2>2. Name(line) \in Seq(Word)
    BY <1>2, NameIs
  <2>3. /\ ClientOK(OnHeaderField(c, Name(line)))
        /\ OnHeaderField(c, Name(line)).url = c.url /\ OnHeaderField(c, Name(line)).body = c.body
    BY <2>2, OnHeaderFieldIs
  <2> QED BY <1>2, <2>1, <2>3
<1>3. CASE Colons(line) # {} /\ IsPair(line)
  <2> DEFINE d == OnHeaderField(c, Name(line))
  <2> DEFINE e == OnHeaderValue(d, Value(line))
  <2>1. Header(c, line) = e
    BY <1>3 DEF Header
  <2>2. Name(line) \in Seq(Word) /\ Value(line) \in Seq(Word)
    BY <1>3, NameIs
  <2>3. /\ ClientOK(d) /\ d.url = c.url /\ d.body = c.body /\ d.last_was_value = FALSE
        /\ c.last_was_value => d.field = Name(line) /\ d.headers = HeadersOf(c)
    BY <2>2, OnHeaderFieldIs DEF HeadersOf
  <2>4. ~ValueCrashes(d)
    BY <2>3 DEF ValueCrashes
  <2> HIDE DEF d
  <2>5. /\ ClientOK(e) /\ e.url = d.url /\ e.body = d.body /\ e.last_was_value = TRUE
        /\ e.field = d.field /\ e.headers = d.headers /\ e.value = Value(line)
    BY <2>2, <2>3, <2>4, OnHeaderValueIs
  <2> HIDE DEF e
  <2>6. c.last_was_value => HeadersOf(e) = MapInsert(HeadersOf(c), Name(line), Value(line))
    <3> SUFFICES ASSUME c.last_was_value PROVE HeadersOf(e) = MapInsert(HeadersOf(c), Name(line), Value(line))
      OBVIOUS
    <3>1. e.field = Name(line) /\ e.value = Value(line) /\ e.headers = HeadersOf(c)
          /\ e.field # None /\ e.value # None
      BY <1>0, <2>2, <2>3, <2>5
    <3>2. e = [url |-> e.url, field |-> e.field, value |-> e.value, last_was_value |-> e.last_was_value,
               headers |-> e.headers, body |-> e.body]
      BY <2>5 DEF ClientOK
    <3>3. SaveHeader(e).headers = MapInsert(e.headers, e.field, e.value)
      BY <3>1, <3>2 DEF SaveHeader
    <3> QED BY <3>1, <3>3 DEF HeadersOf
  <2> QED BY <2>1, <2>3, <2>5, <2>6
<1> QED BY <1>1, <1>2, <1>3

LEMMA OnUrlIs ==
  ASSUME NEW c, ClientOK(c), NEW at \in Seq(Word)
  PROVE  /\ ClientOK(OnUrl(c, at)) /\ OnUrl(c, at).url = c.url \o at /\ OnUrl(c, at).body = c.body
         /\ OnUrl(c, at).last_was_value = c.last_was_value /\ HeadersOf(OnUrl(c, at)) = HeadersOf(c)
<1>1. c = [url |-> c.url, field |-> c.field, value |-> c.value, last_was_value |-> c.last_was_value,
           headers |-> c.headers, body |-> c.body]
  BY DEF ClientOK
<1>2. OnUrl(c, at) = MkClient(c.url \o at, c.field, c.value, c.last_was_value, c.headers, c.body)
  <2> DEFINE u == c.url \o at
  <2>1. OnUrl(c, at) = [c EXCEPT !.url = u]
    BY DEF OnUrl
  <2> HIDE DEF u
  <2>2. [c EXCEPT !.url = u] = MkClient(u, c.field, c.value, c.last_was_value, c.headers, c.body)
    BY <1>1 DEF MkClient
  <2> QED BY <2>1, <2>2 DEF u
<1>3. c.url \o at \in Seq(Word)
  BY ConcatProperties DEF ClientOK
<1> DEFINE d == MkClient(c.url \o at, c.field, c.value, c.last_was_value, c.headers, c.body)
<1>4. /\ d.url = c.url \o at /\ d.field = c.field /\ d.value = c.value /\ d.headers = c.headers
      /\ d.body = c.body /\ d.last_was_value = c.last_was_value
      /\ d = [url |-> d.url, field |-> d.field, value |-> d.value, last_was_value |-> d.last_was_value,
              headers |-> d.headers, body |-> d.body]
  BY DEF MkClient
<1> HIDE DEF d
<1>5. ClientOK(d)
  BY <1>3, <1>4 DEF ClientOK
<1>6. HeadersOf(d) = HeadersOf(c)
  <2>1. CASE c.field # None /\ c.value # None
    <3>1. SaveHeader(d).headers = MapInsert(d.headers, d.field, d.value)
      BY <1>4, <2>1 DEF SaveHeader
    <3>2. SaveHeader(c).headers = MapInsert(c.headers, c.field, c.value)
      BY <1>1, <2>1 DEF SaveHeader
    <3> QED BY <1>4, <3>1, <3>2 DEF HeadersOf
  <2>2. CASE ~(c.field # None /\ c.value # None)
    BY <1>4, <2>2 DEF HeadersOf, SaveHeader
  <2> QED BY <2>1, <2>2
<1> QED BY <1>2, <1>4, <1>5, <1>6 DEF d

LEMMA OnBodyIs ==
  ASSUME NEW c, ClientOK(c), NEW at \in Seq(Word)
  PROVE  /\ ClientOK(OnBody(c, at)) /\ OnBody(c, at).url = c.url /\ OnBody(c, at).body = c.body \o at
         /\ OnBody(c, at).last_was_value = c.last_was_value /\ HeadersOf(OnBody(c, at)) = HeadersOf(c)
<1>1. c = [url |-> c.url, field |-> c.field, value |-> c.value, last_was_value |-> c.last_was_value,
           headers |-> c.headers, body |-> c.body]
  BY DEF ClientOK
<1>2. OnBody(c, at) = MkClient(c.url, c.field, c.value, c.last_was_value, c.headers, c.body \o at)
  BY SMTT(30), <1>1 DEF OnBody, MkClient
<1>3. c.body \o at \in Seq(Word)
  BY ConcatProperties DEF ClientOK
<1> DEFINE d == MkClient(c.url, c.field, c.value, c.last_was_value, c.headers, c.body \o at)
<1>4. /\ d.url = c.url /\ d.field = c.field /\ d.value = c.value /\ d.headers = c.headers
      /\ d.body = c.body \o at /\ d.last_was_value = c.last_was_value
      /\ d = [url |-> d.url, field |-> d.field, value |-> d.value, last_was_value |-> d.last_was_value,
              headers |-> d.headers, body |-> d.body]
  BY DEF MkClient
<1> HIDE DEF d
<1>5. ClientOK(d)
  BY <1>3, <1>4 DEF ClientOK
<1>6. HeadersOf(d) = HeadersOf(c)
  <2>1. CASE c.field # None /\ c.value # None
    <3>1. SaveHeader(d).headers = MapInsert(d.headers, d.field, d.value)
      BY <1>4, <2>1 DEF SaveHeader
    <3>2. SaveHeader(c).headers = MapInsert(c.headers, c.field, c.value)
      BY <1>1, <2>1 DEF SaveHeader
    <3> QED BY <1>4, <3>1, <3>2 DEF HeadersOf
  <2>2. CASE ~(c.field # None /\ c.value # None)
    BY <1>4, <2>2 DEF HeadersOf, SaveHeader
  <2> QED BY <2>1, <2>2
<1> QED BY <1>2, <1>4, <1>5, <1>6 DEF d

\* Another client with the same headers, or the same one behind on_message_complete.
LEMMA TakenBySame ==
  ASSUME NEW c, NEW d, NEW s, NEW H, Taken(c, s, H),
         d.last_was_value = c.last_was_value, HeadersOf(d) = HeadersOf(c)
  PROVE  Taken(d, s, H)
BY DEF Taken

\* One more line: the pair before it is saved, a name that is there keeps its value.
LEMMA TakenMore ==
  ASSUME NEW c, NEW d, NEW s, NEW H, NEW i \in Int, H \subseteq Int, \A j \in H : j < i,
         Taken(c, s, H),
         c.last_was_value /\ IsPair(LineOf(s, i)) =>
           d.last_was_value /\ HeadersOf(d) = MapInsert(HeadersOf(c), Name(LineOf(s, i)), Value(LineOf(s, i)))
  PROVE  Taken(d, s, H \cup {i})
<1> DEFINE N(j) == Name(LineOf(s, j))
<1> DEFINE V(j) == Value(LineOf(s, j))
<1> SUFFICES ASSUME \A j \in H \cup {i} : IsPair(LineOf(s, j))
             PROVE  /\ d.last_was_value
                    /\ DOMAIN HeadersOf(d) = {N(j) : j \in H \cup {i}}
                    /\ \A j \in H \cup {i} :
                         (\A k \in H \cup {i} : k < j => N(k) # N(j)) => HeadersOf(d)[N(j)] = V(j)
  BY DEF Taken
<1>1. /\ c.last_was_value
      /\ DOMAIN HeadersOf(c) = {N(j) : j \in H}
      /\ \A j \in H : (\A k \in H : k < j => N(k) # N(j)) => HeadersOf(c)[N(j)] = V(j)
  BY DEF Taken
<1>2. d.last_was_value /\ HeadersOf(d) = MapInsert(HeadersOf(c), N(i), V(i))
  BY <1>1
<1> HIDE DEF N, V
<1> DEFINE g == HeadersOf(c)
<1> DEFINE h == HeadersOf(d)
<1>3. /\ DOMAIN h = DOMAIN g \cup {N(i)}
      /\ \A x \in DOMAIN g : h[x] = g[x]
      /\ N(i) \notin DOMAIN g => h[N(i)] = V(i)
  <2>1. h = MapInsert(g, N(i), V(i))
    BY <1>2
  <2> HIDE DEF g, h
  <2> QED BY ONLY <2>1 DEF MapInsert
<1> HIDE DEF g, h
<1>4. DOMAIN h = {N(j) : j \in H \cup {i}}
  BY <1>1, <1>3 DEF g
<1>5. ASSUME NEW j \in H, \A k \in H \cup {i} : k < j => N(k) # N(j) PROVE h[N(j)] = V(j)
  BY <1>1, <1>3, <1>5 DEF g
<1>6. ASSUME \A k \in H \cup {i} : k < i => N(k) # N(i) PROVE h[N(i)] = V(i)
  <2>1. ASSUME N(i) \in DOMAIN g PROVE FALSE
    <3>1. PICK j \in H : N(i) = N(j)
      BY <1>1, <2>1 DEF g
    <3> QED BY <1>6, <3>1
  <2> QED BY <1>3, <2>1
<1> QED BY <1>2, <1>4, <1>5, <1>6 DEF h

\* RST_min takes all the bytes that are there, or all that are missing, unless
\* there are more than an int can count.
LEMMA BytesTaken ==
  ASSUME NEW a \in Nat, NEW b \in Nat, NEW n, n = RST_min(ToInt(a), ToInt(b)), n > 0
  PROVE  n \in 1 .. a /\ n <= b /\ RST_min(ToInt(a - n), ToInt(b - n)) <= 0
<1> DEFINE M == 2 * (IntMax + 1)
<1>0. IntMax \in Nat /\ M \in Nat /\ M > 0
  BY ParserAssumption
<1>1. \A x \in Nat : /\ ToInt(x) = IF x % M > IntMax THEN (x % M) - M ELSE x % M
  BY DEF ToInt
<1> HIDE DEF M
<1>2. ASSUME NEW x \in Nat PROVE x % M \in 0 .. M - 1 /\ x % M <= x /\ (x - (x % M)) % M = 0
  BY <1>0
<1>3. ASSUME NEW x \in Nat
      PROVE  /\ ToInt(x) \in Int /\ ToInt(x) <= x
             /\ ToInt(x) > 0 => ToInt(x) = x % M /\ (x - ToInt(x)) \in Nat /\ ToInt(x - ToInt(x)) = 0
  <2>1. x % M \in 0 .. M - 1 /\ x % M <= x /\ (x - (x % M)) % M = 0
    BY <1>2
  <2>2. ToInt(x) = IF x % M > IntMax THEN (x % M) - M ELSE x % M
    BY <1>1
  <2>3. ToInt(x) \in Int /\ ToInt(x) <= x
    BY <1>0, <2>1, <2>2
  <2>4. ASSUME ToInt(x) > 0 PROVE ToInt(x) = x % M
    BY <1>0, <2>1, <2>2, <2>4
  <2>5. ASSUME ToInt(x) > 0 PROVE x - ToInt(x) \in Nat /\ ToInt(x - ToInt(x)) = 0
    <3>0. x - ToInt(x) = x - (x % M)
      BY <2>4, <2>5
    <3>1. x - ToInt(x) \in Nat /\ (x - ToInt(x)) % M = 0
      BY <1>0, <2>1, <3>0
    <3>2. ToInt(x - ToInt(x)) = IF (x - ToInt(x)) % M > IntMax THEN ((x - ToInt(x)) % M) - M ELSE (x - ToInt(x)) % M
      BY <3>1, <1>1
    <3> QED BY <1>0, <3>1, <3>2
  <2> QED BY <2>3, <2>4, <2>5
<1>4. ToInt(a) \in Int /\ ToInt(b) \in Int /\ ToInt(a) <= a /\ ToInt(b) <= b
  BY <1>3
<1>5. n \in Int /\ n <= ToInt(a) /\ n <= ToInt(b) /\ (n = ToInt(a) \/ n = ToInt(b))
  BY <1>4 DEF RST_min
<1>6. n \in 1 .. a /\ n <= b /\ a - n \in Nat /\ b - n \in Nat
  BY <1>4, <1>5
<1>7. ToInt(a - n) \in Int /\ ToInt(b - n) \in Int
  BY <1>3, <1>6
<1>8. ToInt(a - n) = 0 \/ ToInt(b - n) = 0
  BY <1>3, <1>5, <1>6
<1> QED BY <1>6, <1>7, <1>8 DEF RST_min

-----------------------------------------------------------------------------
(***************************************************************************)
(* The parser keeps its invariant, an action at a time.                    *)
(***************************************************************************)
LEMMA ParserFacts ==
  ASSUME ParserInv
  PROVE  /\ stream \in Stream /\ Len(stream) \in Nat /\ fed \in Nat /\ fed <= Len(stream)
         /\ buf \in Seq(Word) /\ Len(buf) \in Nat /\ Len(buf) <= fed
         /\ Pos \in Nat /\ Pos <= fed /\ Pos + Len(buf) = fed
         /\ last_pos \in Nat /\ last_pos <= Len(buf) /\ last_pos = body_read
         /\ \A i \in 1 .. Len(buf) : buf[i] = stream[Pos + i]
<1>1. Types /\ Position
  BY DEF ParserInv
<1>2. /\ stream \in Stream /\ Len(stream) \in Nat /\ fed \in Nat /\ fed <= Len(stream)
      /\ buf \in Seq(Word) /\ Len(buf) \in Nat /\ Len(buf) <= fed
      /\ last_pos \in Nat /\ last_pos <= Len(buf)
  BY <1>1, StreamWords DEF Types
<1> QED BY <1>1, <1>2 DEF Position, Pos

LEMMA ParserInit == Init => ParserInv
<1> SUFFICES ASSUME Init PROVE ParserInv
  OBVIOUS
<1> USE DEF Init
<1>1. /\ stream \in Stream /\ Len(stream) \in Nat /\ fed = 0 /\ buf = << >> /\ Len(buf) = 0 /\ << >> \in Seq(Word)
      /\ Pos = 0
  <2>1. << >> \in Seq(Word) /\ Len(<< >>) = 0
    BY EmptySeq
  <2>2. stream \in Stream /\ fed = 0 /\ buf = << >>
    OBVIOUS
  <2> HIDE DEF Init
  <2>3. Len(stream) \in Nat
    BY <2>2, StreamWords
  <2>4. Len(buf) = 0
    BY <2>1, <2>2
  <2>5. fed = 0
    BY <2>2
  <2>6. Pos = 0
    BY ONLY <2>4, <2>5 DEF Pos
  <2> QED BY <2>1, <2>2, <2>3, <2>4, <2>6
<1>2. ClientOK(NewClient) /\ client = NewClient
  <2>1. DOMAIN NewClient.headers = {}
    BY DEF NewClient
  <2> QED BY <1>1, <2>1 DEF ClientOK, NewClient
<1>3. Types
  BY <1>1, <1>2 DEF Types
<1>4. Position
  BY <1>1 DEF Position
<1>5. Asking
  BY DEF Asking, NewClient
<1>6. BodyTaken
  <2>1. SubSeq(stream, 1, 0) = << >>
    BY SubSeqEmpty
  <2> QED BY <1>1, <2>1 DEF BodyTaken, NewClient
<1>7. HeadersTaken
  <2>1. HeadersTo(stream, Pos - 1) = {}
    BY <1>1 DEF HeadersTo
  <2>2. DOMAIN HeadersOf(client) = {} /\ client.last_was_value
    BY DEF HeadersOf, SaveHeader, NewClient
  <2> HIDE DEF Init
  <2> QED BY <2>1, <2>2 DEF HeadersTaken, Taken
<1> QED BY <1>3, <1>4, <1>5, <1>6, <1>7 DEF ParserInv

LEMMA ParserExecute ==
  ASSUME ParserInv, NEW k \in 1 .. Len(stream), Execute(k)
  PROVE  ParserInv' /\ Pos' = Pos
<1> USE DEF ParserInv
<1>0. /\ stream \in Stream /\ Len(stream) \in Nat /\ fed \in Nat /\ fed <= Len(stream)
      /\ buf \in Seq(Word) /\ Len(buf) \in Nat /\ Len(buf) <= fed
      /\ Pos \in Nat /\ Pos <= fed /\ Pos + Len(buf) = fed
      /\ last_pos \in Nat /\ last_pos <= Len(buf) /\ last_pos = body_read
      /\ \A i \in 1 .. Len(buf) : buf[i] = stream[Pos + i]
  BY ParserFacts
<1>1. /\ pc = "idle" /\ fed + k <= Len(stream) /\ fed' = fed + k /\ k \in Nat
      /\ buf' = buf \o SubSeq(stream, fed + 1, fed + k) /\ pc' = "exec"
      /\ UNCHANGED <<stream, state, last_pos, content_length, body_read, client, completed>>
  BY <1>0 DEF Execute
<1> DEFINE new == SubSeq(stream, fed + 1, fed + k)
<1>2. new \in Seq(Word) /\ Len(new) = k /\ \A i \in 1 .. k : new[i] = stream[fed + i]
  <2>1. \A i \in fed + 1 .. fed + k : stream[i] \in Word
    BY <1>0, <1>1, StreamWords
  <2> DEFINE m == fed + 1
  <2> DEFINE n == fed + k
  <2>2. m \in Int /\ n \in Int /\ m <= n /\ n - m + 1 = k /\ \A i \in 1 .. k : m + i - 1 = fed + i
    BY <1>0, <1>1
  <2>3. \A i \in m .. n : stream[i] \in Word
    BY <2>1
  <2> HIDE DEF m, n
  <2>4. /\ SubSeq(stream, m, n) \in Seq(Word)
        /\ Len(SubSeq(stream, m, n)) = IF m <= n THEN n - m + 1 ELSE 0
        /\ \A i \in 1 .. n - m + 1 : SubSeq(stream, m, n)[i] = stream[m + i - 1]
    BY <2>2, <2>3, SubSeqProperties
  <2> QED BY <2>2, <2>4 DEF m, n
<1> HIDE DEF new
<1>3. /\ buf' \in Seq(Word) /\ Len(buf') = Len(buf) + k
      /\ \A i \in 1 .. Len(buf) + k : buf'[i] = IF i <= Len(buf) THEN buf[i] ELSE new[i - Len(buf)]
  BY <1>0, <1>1, <1>2, ConcatProperties DEF new
<1>4. Pos' = Pos /\ Len(buf') \in Nat /\ Len(buf') <= fed'
  BY <1>0, <1>1, <1>3 DEF Pos
<1>5. ASSUME NEW i \in 1 .. Len(buf') PROVE buf'[i] = stream'[Pos' + i]
  <2>1. i \in 1 .. Len(buf) + k /\ i \in Nat
    BY <1>0, <1>3
  <2>2. CASE i <= Len(buf)
    BY <1>0, <1>1, <1>3, <1>4, <2>1, <2>2
  <2>3. CASE ~(i <= Len(buf))
    <3>1. i - Len(buf) \in 1 .. k /\ fed + (i - Len(buf)) = Pos + i
      <4>1. Len(buf) \in Nat /\ Pos \in Nat /\ fed \in Nat /\ Pos + Len(buf) = fed /\ k \in Nat
        BY <1>0, <1>1
      <4> QED BY ONLY <4>1, <2>1, <2>3
    <3> QED BY <1>1, <1>2, <1>3, <1>4, <2>1, <2>3, <3>1
  <2> QED BY <2>2, <2>3
<1>6. Types'
  BY <1>0, <1>1, <1>3, <1>4 DEF Types
<1>7. Position'
  BY <1>1, <1>4, <1>5 DEF Position
<1>8. Asking'
  <2>1. Refused => Refused'
    BY <1>0, <1>1 DEF Refused, GoodRequestLine, HasUrl
  <2> QED BY <1>1, <2>1 DEF Asking
<1>9. BodyTaken'
  BY <1>1, <1>4 DEF BodyTaken
<1>10. HeadersTaken'
  BY <1>1, <1>4 DEF HeadersTaken
<1> QED BY <1>4, <1>6, <1>7, <1>8, <1>9, <1>10

\* Leaving the loop, with or without a crash, changes nothing in the parser.
LEMMA ParserLeaves ==
  ASSUME ParserInv, NeedMore \/ HeaderLineCrash \/ BodyCrash
  PROVE  ParserInv'
<1>1. /\ pc' \in {"idle", "crashed"} /\ (state = "body" => pc' # "idle")
      /\ UNCHANGED <<stream, fed, state, buf, last_pos, content_length, body_read, client, completed>>
  BY DEF NeedMore, HeaderLineCrash, BodyCrash, parserVars
<1>2. Pos' = Pos /\ NBytes' = NBytes
  BY <1>1 DEF Pos, NBytes, RST_min, ToInt
<1>3. Refused' <=> Refused
  BY <1>1 DEF Refused, GoodRequestLine, HasUrl
<1> QED BY <1>1, <1>2, <1>3 DEF ParserInv, Types, Position, Asking, BodyTaken, HeadersTaken

\* PARSER_ASSERT leaves the request line where it is.
LEMMA ParserBadRequestLine ==
  ASSUME ParserInv, BadRequestLine
  PROVE  ParserInv'
<1>0. Types /\ Position /\ stream \in Stream /\ Pos = 0 /\ last_pos = 0 /\ Len(buf) <= fed /\ fed \in Nat
      /\ Len(buf) \in Nat /\ ClientOK(client)
  BY ParserFacts DEF ParserInv, Position, Types, BadRequestLine
<1>1. PICK e \in 1 .. Len(buf) - 1 :
        /\ LineEnd(stream, Pos + e) /\ \A k \in Pos + 1 .. Pos + e - 1 : ~LineEnd(stream, k)
        /\ Line = SubSeq(stream, Pos + 1, Pos + e - 1)
        /\ Line \in Seq(Word) /\ Len(Line) = e - 1
  BY <1>0, LineTaken DEF BadRequestLine
<1>2. Refused
  <2>1. 0 + e = e /\ 0 + 1 = 1 /\ 0 + e - 1 = e - 1 /\ e \in 1 .. fed - 1
    BY <1>0
  <2> QED BY <1>0, <1>1, <2>1 DEF Refused, BadRequestLine
<1>3. /\ state = "req_line" /\ pc' = "idle"
      /\ UNCHANGED <<stream, fed, state, buf, last_pos, content_length, body_read, completed>>
  BY DEF BadRequestLine, parserVars
<1>4. /\ ClientOK(client') /\ client'.body = client.body /\ client'.last_was_value = client.last_was_value
      /\ HeadersOf(client') = HeadersOf(client)
  <2>1. CASE HasUrl(Line)
    <3>1. Line[2] \in Word
      BY SMTT(30), <1>1, <2>1 DEF HasUrl
    <3>2. <<Line[2]>> \in Seq(Word)
      BY <3>1
    <3> QED BY <1>0, <2>1, <3>2, OnUrlIs DEF BadRequestLine
  <2>2. CASE ~HasUrl(Line)
    BY <1>0, <2>2 DEF BadRequestLine
  <2> QED BY <2>1, <2>2
<1>5. Pos' = Pos /\ Refused'
  BY <1>2, <1>3 DEF Pos, Refused, GoodRequestLine, HasUrl
<1>6. Types'
  BY <1>0, <1>3, <1>4 DEF Types
<1>7. Position' /\ Asking' /\ BodyTaken'
  BY <1>3, <1>4, <1>5 DEF ParserInv, Position, Asking, BodyTaken
<1>8. HeadersTaken'
  <2>1. Taken(client', stream, HeadersTo(stream, Pos - 1))
    BY <1>4, TakenBySame DEF ParserInv, HeadersTaken
  <2> QED BY <1>3, <1>5, <2>1 DEF HeadersTaken
<1> QED BY <1>6, <1>7, <1>8 DEF ParserInv

LEMMA ParserRequestLine ==
  ASSUME ParserInv, RequestLine
  PROVE  ParserInv' /\ Pos = 0 /\ HeadersTo(stream, Pos' - 1) = HeadersTo(stream, 0)
<1>0. /\ Types /\ Position /\ stream \in Stream /\ Pos = 0 /\ last_pos = 0 /\ Len(buf) <= fed /\ fed \in Nat
      /\ Len(stream) \in Nat /\ fed <= Len(stream)
      /\ Len(buf) \in Nat /\ ClientOK(client) /\ body_read = 0
  BY ParserFacts DEF ParserInv, Position, Types, RequestLine
<1>1. PICK e \in 1 .. Len(buf) - 1 :
        /\ e = FirstOf(LineEnds)
        /\ LineEnd(stream, Pos + e) /\ \A k \in Pos + 1 .. Pos + e - 1 : ~LineEnd(stream, k)
        /\ Line = SubSeq(stream, Pos + 1, Pos + e - 1)
        /\ Line \in Seq(Word) /\ Len(Line) = e - 1
        /\ \A i \in 1 .. e - 1 : Line[i] = stream[Pos + i]
  BY <1>0, LineTaken DEF RequestLine
<1>2. /\ e \in Nat /\ e = 4 /\ LineEnd(stream, e) /\ (\A k \in 1 .. e - 1 : ~LineEnd(stream, k))
      /\ Line = SubSeq(stream, 1, e - 1)
      /\ Line[1] = stream[1] /\ Line[2] = stream[2] /\ Line[3] = stream[3]
      /\ stream[1] \in Methods /\ stream[3] \in Versions
      /\ Line[2] \in Word
  <2>1. 0 + e = e /\ 0 + 1 = 1 /\ 0 + e - 1 = e - 1 /\ e = 4
    BY <1>1 DEF RequestLine, GoodRequestLine
  <2>2. Line[1] = stream[1] /\ Line[2] = stream[2] /\ Line[3] = stream[3] /\ Line[2] \in Word
    BY <1>0, <1>1, <2>1
  <2> QED BY <1>0, <1>1, <2>1, <2>2 DEF RequestLine, GoodRequestLine, HasUrl
<1>3. client.url = << >>
  <2>1. ASSUME Refused PROVE FALSE
    <3>1. PICK f \in 1 .. fed - 1 : /\ LineEnd(stream, f)
                                   /\ \A k \in 1 .. f - 1 : ~LineEnd(stream, k)
                                   /\ ~GoodRequestLine(SubSeq(stream, 1, f - 1))
      BY <2>1 DEF Refused
    <3>2. f = e
      BY <1>0, <1>2, <3>1
    <3> QED BY <1>2, <3>1, <3>2 DEF RequestLine
  <2> QED BY <2>1 DEF ParserInv, Asking, RequestLine
<1>4. /\ state = "req_line" /\ state' = "header" /\ UNCHANGED <<stream, fed, pc, content_length, body_read, completed>>
  BY DEF RequestLine
<1>5. /\ buf' \in Seq(Word) /\ Len(buf') \in Nat /\ Len(buf') <= fed' /\ last_pos' = 0
      /\ Pos' = e + 1 /\ Pos' \in Nat /\ Pos' <= fed'
      /\ \A i \in 1 .. Len(buf') : buf'[i] = stream'[Pos' + i]
  <2>1. Slice /\ UNCHANGED <<stream, fed>>
    BY DEF RequestLine
  <2> QED BY <1>0, <1>1, <2>1, SliceCuts
<1>6. /\ ClientOK(client') /\ client'.url = <<stream[2]>> /\ client'.body = client.body
      /\ client'.last_was_value = client.last_was_value /\ HeadersOf(client') = HeadersOf(client)
  <2>1. <<Line[2]>> \in Seq(Word)
    BY <1>2
  <2>2. << >> \o <<Line[2]>> = <<Line[2]>>
    BY <2>1, ConcatEmptySeq
  <2> QED BY ZenonT(40), <1>0, <1>2, <1>3, <2>1, <2>2, OnUrlIs DEF RequestLine
<1>7. Types'
  BY <1>0, <1>4, <1>5, <1>6 DEF Types
<1>8. Position'
  <2>1. Pos' - 1 = e /\ Pos' - 2 = e - 1 /\ Pos' - 3 = e - 2 /\ e - 2 \in 1 .. e - 1
    BY <1>2, <1>5
  <2>2. ~LineEnd(stream, Pos' - 3) /\ \A k \in 1 .. Pos' - 2 : ~EmptyLine(stream, k)
    BY <1>2, <2>1 DEF EmptyLine
  <2> QED BY <1>0, <1>2, <1>4, <1>5, <2>1, <2>2 DEF Position
<1>9. Asking'
  BY <1>0, <1>2, <1>4, <1>6 DEF Asking, LineEnd
<1>10. BodyTaken'
  <2>1. Pos' + 0 < Pos' + 1 /\ Pos' + 1 \in Int /\ Pos' + 0 \in Int
    BY <1>5
  <2>2. SubSeq(stream, Pos' + 1, Pos' + 0) = << >>
    BY <2>1, SubSeqEmpty
  <2>3. client.body = << >>
    <3>1. SubSeq(stream, 0 + 1, 0 + 0) = << >>
      BY SubSeqEmpty
    <3> QED BY <1>0, <3>1 DEF ParserInv, BodyTaken
  <2> QED BY <1>0, <1>4, <1>6, <2>2, <2>3 DEF ParserInv, BodyTaken
<1>12. HeadersTo(stream, Pos' - 1) = {}
  <2>1. Pos' - 1 = e
    BY <1>2, <1>5
  <2>2. ASSUME NEW i \in HeadersTo(stream, e) PROVE FALSE
    <3>1. i \in 1 .. e /\ \E j \in 1 .. i - 1 : LineEnd(stream, j)
      BY <2>2 DEF HeadersTo
    <3> QED BY <1>2, <3>1
  <2> QED BY <2>1, <2>2
<1>11. HeadersTaken'
  <2>1. HeadersTo(stream, Pos - 1) = {}
    BY <1>0 DEF HeadersTo
  <2>3. Taken(client', stream, {})
    BY <1>6, <2>1, TakenBySame DEF ParserInv, HeadersTaken
  <2> QED BY <1>4, <1>12, <2>3 DEF HeadersTaken
<1>13. HeadersTo(stream, 0) = {}
  BY DEF HeadersTo
<1> QED BY <1>0, <1>7, <1>8, <1>9, <1>10, <1>11, <1>12, <1>13 DEF ParserInv

\* A line that is not empty, behind the request line, is the next header line.
LEMMA HeaderLineAt ==
  ASSUME ParserInv, state = "header", LineEnds # {}, Line # << >>
  PROVE  \E n \in Nat :
           /\ n = Pos + FirstOf(LineEnds) /\ n <= fed - 1
           /\ Pos > 1 /\ n > Pos + 1 /\ LineEnd(stream, n) /\ ~LineEnd(stream, n - 2)
           /\ \A k \in 1 .. n : ~EmptyLine(stream, k)
           /\ HeadersTo(stream, n) = HeadersTo(stream, Pos - 1) \cup {n}
           /\ LineOf(stream, n) = Line
<1>0. /\ Types /\ Position /\ last_pos = 0 /\ fed \in Nat
      /\ Len(stream) \in Nat /\ fed <= Len(stream) /\ Pos \in Nat
      /\ Len(buf) \in Nat /\ Pos + Len(buf) = fed
  BY ParserFacts DEF ParserInv, Position, Types
<1>1. PICK e \in 1 .. Len(buf) - 1 :
        /\ e = FirstOf(LineEnds)
        /\ LineEnd(stream, Pos + e) /\ \A k \in Pos + 1 .. Pos + e - 1 : ~LineEnd(stream, k)
        /\ Line = SubSeq(stream, Pos + 1, Pos + e - 1)
        /\ Line \in Seq(Word) /\ Len(Line) = e - 1
  BY <1>0, LineTaken
<1>2. e \in Nat /\ e >= 2
  <2>1. Len(Line) # 0
    BY <1>1, EmptySeq
  <2> QED BY <1>1, <2>1
<1>3. /\ LineEnd(stream, Pos - 1) /\ ~LineEnd(stream, Pos) /\ ~LineEnd(stream, Pos - 3) /\ Pos - 1 \in Nat /\ Pos - 1 >= 1
      /\ \A k \in 1 .. Pos - 2 : ~EmptyLine(stream, k)
  <2>1. LineEnd(stream, Pos - 1) /\ ~LineEnd(stream, Pos - 3) /\ \A k \in 1 .. Pos - 2 : ~EmptyLine(stream, k)
    BY <1>0 DEF Position
  <2>2. (Pos - 1) + 1 = Pos
    BY <1>0
  <2> QED BY <1>0, <2>1, <2>2 DEF LineEnd
<1> DEFINE n == Pos + e
<1>7. n \in Nat /\ n > Pos + 1 /\ LineEnd(stream, n)
      /\ (\A k \in Pos + 1 .. n - 1 : ~LineEnd(stream, k)) /\ ~LineEnd(stream, n - 2)
      /\ Line = SubSeq(stream, Pos + 1, n - 1)
  <2>1. n \in Nat /\ n > Pos + 1
    <3>1. Pos \in Nat
      BY <1>0
    <3> QED BY ONLY <3>1, <1>2 DEF n
  <2>2. LineEnd(stream, n) /\ (\A k \in Pos + 1 .. n - 1 : ~LineEnd(stream, k)) /\ Line = SubSeq(stream, Pos + 1, n - 1)
    <3>1. LineEnd(stream, n)
      BY <1>1
    <3>0. Pos + (e - 1) = n - 1
      BY <1>0, <1>2
    <3> HIDE DEF n
    <3>2. \A k \in Pos + 1 .. n - 1 : ~LineEnd(stream, k)
      BY <1>1, <3>0
    <3>3. Line = SubSeq(stream, Pos + 1, n - 1)
      BY <1>1, <3>0
    <3> QED BY <3>1, <3>2, <3>3
  <2> HIDE DEF n
  <2>3. n - 2 = Pos \/ n - 2 \in Pos + 1 .. n - 1
    BY <1>0, <2>1
  <2> QED BY <1>3, <2>1, <2>2, <2>3
<1> HIDE DEF n
<1>8. \A k \in 1 .. n : ~EmptyLine(stream, k)
  <2> TAKE k \in 1 .. n
  <2>1. k \in 1 .. Pos - 2 \/ k = Pos - 1 \/ k = Pos \/ k \in Pos + 1 .. n - 1 \/ k = n
    BY <1>0, <1>7
  <2>2. (Pos - 1) - 2 = Pos - 3
    BY <1>0
  <2> QED BY <1>3, <1>7, <2>1, <2>2 DEF EmptyLine
<1>9. HeadersTo(stream, n) = HeadersTo(stream, Pos - 1) \cup {n}
  <2>1. ASSUME NEW i \in HeadersTo(stream, n) PROVE i \in HeadersTo(stream, Pos - 1) \cup {n}
    <3>1. i \in 1 .. n /\ LineEnd(stream, i)
      BY <2>1 DEF HeadersTo
    <3>2. i \in 1 .. Pos - 1 \/ i = Pos \/ i \in Pos + 1 .. n - 1 \/ i = n
      BY <1>0, <1>7, <3>1
    <3>3. i \in 1 .. Pos - 1 \/ i = n
      BY <1>3, <1>7, <3>1, <3>2
    <3> QED BY <2>1, <3>3 DEF HeadersTo
  <2>2. n \in HeadersTo(stream, n)
    <3>1. Pos - 1 \in 1 .. n - 1 /\ n \in 1 .. n
      BY <1>0, <1>3, <1>7
    <3> QED BY <1>3, <1>7, <1>8, <3>1 DEF HeadersTo
  <2>3. ASSUME NEW i \in HeadersTo(stream, Pos - 1) PROVE i \in HeadersTo(stream, n)
    <3>1. i \in 1 .. n
      BY <1>0, <1>7, <2>3 DEF HeadersTo
    <3> QED BY <2>3, <3>1 DEF HeadersTo
  <2> QED BY <2>1, <2>2, <2>3
<1>10. LineOf(stream, n) = Line
  <2>1. IsPrev(stream, n, Pos - 1)
    <3>1. Pos - 1 \in 1 .. n - 1
      BY <1>0, <1>3, <1>7
    <3>2. ASSUME NEW k \in 1 .. n - 1, LineEnd(stream, k) PROVE k <= Pos - 1
      <4>1. k <= Pos - 1 \/ k = Pos \/ k \in Pos + 1 .. n - 1
        BY <1>0, <1>7
      <4> QED BY <1>3, <1>7, <3>2, <4>1
    <3> QED BY <1>3, <3>1, <3>2 DEF IsPrev
  <2>2. Prev(stream, n) = Pos - 1
    BY <1>7, <2>1, PrevIs
  <2>3. (Pos - 1) + 2 = Pos + 1
    BY <1>0
  <2> QED BY <1>7, <2>2, <2>3 DEF LineOf
<1>11. n = Pos + FirstOf(LineEnds) /\ n <= fed - 1 /\ Pos > 1
  <2>1. n = Pos + e
    BY DEF n
  <2>2. e \in Int /\ e <= Len(buf) - 1
    BY <1>0, <1>1
  <2> QED BY <1>0, <1>1, <1>3, <2>1, <2>2
<1> QED BY <1>7, <1>8, <1>9, <1>10, <1>11

LEMMA ParserHeaderLine ==
  ASSUME ParserInv, HeaderLine
  PROVE  /\ ParserInv' /\ Pos' \in Nat /\ Pos' > Pos + 2 /\ Pos > 1 /\ Line \in Seq(Word)
         /\ HeadersTo(stream, Pos' - 1) = HeadersTo(stream, Pos - 1) \cup {Pos' - 1}
         /\ LineOf(stream, Pos' - 1) = Line
<1>0. /\ Types /\ Position /\ stream \in Stream /\ last_pos = 0 /\ Len(buf) <= fed /\ fed \in Nat
      /\ Len(stream) \in Nat /\ fed <= Len(stream) /\ Pos \in Nat
      /\ Len(buf) \in Nat /\ ClientOK(client) /\ body_read = 0
  BY ParserFacts DEF ParserInv, Position, Types, HeaderLine
<1>1. PICK e \in 1 .. Len(buf) - 1 :
        /\ e = FirstOf(LineEnds)
        /\ LineEnd(stream, Pos + e) /\ \A k \in Pos + 1 .. Pos + e - 1 : ~LineEnd(stream, k)
        /\ Line = SubSeq(stream, Pos + 1, Pos + e - 1)
        /\ Line \in Seq(Word) /\ Len(Line) = e - 1
  BY <1>0, LineTaken DEF HeaderLine
<1>4. /\ state = "header" /\ UNCHANGED <<stream, fed, pc, state, body_read, completed>>
      /\ client' = Header(client, Line) /\ content_length' = ContentLength(Line)
  BY DEF HeaderLine
<1>5. /\ buf' \in Seq(Word) /\ Len(buf') \in Nat /\ Len(buf') <= fed' /\ last_pos' = 0
      /\ Pos' = Pos + e + 1 /\ Pos' \in Nat /\ Pos' <= fed'
      /\ \A i \in 1 .. Len(buf') : buf'[i] = stream'[Pos' + i]
  <2>1. Slice /\ UNCHANGED <<stream, fed>>
    BY DEF HeaderLine
  <2> QED BY <1>0, <1>1, <2>1, SliceCuts
<1>6. /\ ClientOK(client') /\ client'.url = client.url /\ client'.body = client.body
      /\ client.last_was_value /\ IsPair(Line) =>
           client'.last_was_value /\ HeadersOf(client') = MapInsert(HeadersOf(client), Name(Line), Value(Line))
  <2>1. ClientOK(client) /\ Line \in Seq(Word) /\ ~HeaderCrashes(client, Line)
    BY <1>0, <1>1 DEF HeaderLine
  <2>2. client' = Header(client, Line)
    BY <1>4
  <2> QED BY <2>1, <2>2, HeaderIs
<1>7. PICK n \in Nat :
        /\ n = Pos + FirstOf(LineEnds) /\ Pos > 1 /\ n > Pos + 1 /\ LineEnd(stream, n) /\ ~LineEnd(stream, n - 2)
        /\ \A k \in 1 .. n : ~EmptyLine(stream, k)
        /\ HeadersTo(stream, n) = HeadersTo(stream, Pos - 1) \cup {n}
        /\ LineOf(stream, n) = Line
  <2>1. state = "header" /\ LineEnds # {} /\ Line # << >>
    BY DEF HeaderLine
  <2> QED BY <2>1, HeaderLineAt
<1>8. Pos' = n + 1 /\ Pos' - 1 = n
  <2>1. e \in Int /\ n = Pos + e
    BY <1>1, <1>7
  <2> QED BY ONLY <1>0, <1>5, <2>1
<1>9. Types'
  <2>1. content_length' \in Nat
    <3>1. content_length \in Nat
      BY <1>0 DEF Types
    <3> QED BY <1>4, <3>1, ParserAssumption DEF ContentLength
  <2> QED BY <1>0, <1>4, <1>5, <1>6, <2>1 DEF Types
<1>10. Position'
  <2>1. LineEnd(stream, Pos' - 1) /\ ~LineEnd(stream, Pos' - 3) /\ \A k \in 1 .. Pos' - 2 : ~EmptyLine(stream, k)
    <3>1. Pos' - 3 = n - 2 /\ \A k \in 1 .. Pos' - 2 : k \in 1 .. n
      BY <1>8
    <3> QED BY <1>7, <1>8, <3>1
  <2> QED BY <1>0, <1>4, <1>5, <2>1 DEF Position
<1>11. Asking'
  BY <1>4, <1>6 DEF ParserInv, Asking
<1>12. BodyTaken'
  <2>1. Pos' + 0 < Pos' + 1 /\ Pos' + 1 \in Int /\ Pos' + 0 \in Int
    BY <1>5
  <2>2. SubSeq(stream, Pos' + 1, Pos' + 0) = << >>
    BY <2>1, SubSeqEmpty
  <2>3. client.body = << >>
    <3>1. Pos + 0 < Pos + 1 /\ Pos + 1 \in Int /\ Pos + 0 \in Int
      BY <1>0
    <3>2. SubSeq(stream, Pos + 1, Pos + 0) = << >>
      BY <3>1, SubSeqEmpty
    <3> QED BY <1>0, <3>2 DEF ParserInv, BodyTaken
  <2>4. content_length' \in Nat
    BY <1>9 DEF Types
  <2>5. body_read' = 0 /\ state' = "header" /\ client'.body = << >> /\ stream' = stream /\ 0 <= content_length'
    BY <1>0, <1>4, <1>6, <2>3, <2>4
  <2> QED BY <2>2, <2>5 DEF BodyTaken
<1> DEFINE H == HeadersTo(stream, Pos - 1)
<1>13. HeadersTaken'
  <2>3. H \subseteq Int /\ \A j \in H : j < n
    BY <1>0, <1>7 DEF HeadersTo
  <2>4. Taken(client, stream, H)
    BY DEF ParserInv, HeadersTaken
  <2> HIDE DEF H
  <2>5. Taken(client', stream, H \cup {n})
    <3>1. client.last_was_value /\ IsPair(LineOf(stream, n)) =>
            /\ client'.last_was_value
            /\ HeadersOf(client') = MapInsert(HeadersOf(client), Name(LineOf(stream, n)), Value(LineOf(stream, n)))
      BY <1>6, <1>7
    <3>2. n \in Int
      BY <1>7
    <3> QED BY ONLY <2>3, <2>4, <3>1, <3>2, TakenMore
  <2> QED BY <1>4, <1>7, <1>8, <2>5 DEF HeadersTaken, H
<1>16. Pos' > Pos + 2 /\ Pos > 1
  BY <1>0, <1>7, <1>8
<1> HIDE DEF H
<1> QED BY <1>1, <1>5, <1>7, <1>8, <1>9, <1>10, <1>11, <1>12, <1>13, <1>16 DEF ParserInv, H

LEMMA ParserLastHeader ==
  ASSUME ParserInv, LastHeader
  PROVE  /\ ParserInv' /\ Pos' = Pos + 2 /\ Pos > 1
         /\ HeadersTo(stream, Pos' - 1) = HeadersTo(stream, Pos - 1)
<1>0. /\ Types /\ Position /\ stream \in Stream /\ last_pos = 0 /\ Len(buf) <= fed /\ fed \in Nat
      /\ Len(stream) \in Nat /\ fed <= Len(stream) /\ Pos \in Nat
      /\ Len(buf) \in Nat /\ ClientOK(client) /\ body_read = 0
  BY ParserFacts DEF ParserInv, Position, Types, LastHeader
<1>1. PICK e \in 1 .. Len(buf) - 1 :
        /\ e = FirstOf(LineEnds)
        /\ LineEnd(stream, Pos + e)
        /\ Line \in Seq(Word) /\ Len(Line) = e - 1
  BY <1>0, LineTaken DEF LastHeader
<1>2. e = 1
  <2>1. Len(Line) = 0
    BY EmptySeq DEF LastHeader
  <2> QED BY <1>1, <2>1
<1>3. /\ LineEnd(stream, Pos - 1) /\ ~LineEnd(stream, Pos) /\ ~LineEnd(stream, Pos - 3) /\ Pos - 1 \in Nat /\ Pos - 1 >= 1
      /\ \A k \in 1 .. Pos - 2 : ~EmptyLine(stream, k)
  <2>1. LineEnd(stream, Pos - 1) /\ ~LineEnd(stream, Pos - 3) /\ \A k \in 1 .. Pos - 2 : ~EmptyLine(stream, k)
    BY <1>0 DEF Position, LastHeader
  <2>2. (Pos - 1) + 1 = Pos
    BY <1>0
  <2> QED BY <1>0, <2>1, <2>2 DEF LineEnd
<1>4. /\ state = "header" /\ pc = "exec" /\ state' = "body"
      /\ UNCHANGED <<stream, fed, pc, content_length, body_read, client, completed>>
  BY DEF LastHeader
<1>5. /\ buf' \in Seq(Word) /\ Len(buf') \in Nat /\ Len(buf') <= fed' /\ last_pos' = 0
      /\ Pos' = Pos + 2 /\ Pos' \in Nat /\ Pos' <= fed'
      /\ \A i \in 1 .. Len(buf') : buf'[i] = stream'[Pos' + i]
  <2>1. Slice /\ UNCHANGED <<stream, fed>>
    BY DEF LastHeader
  <2>2. Pos + e + 1 = Pos + 2
    BY <1>0, <1>2
  <2> QED BY <1>0, <1>1, <2>1, <2>2, SliceCuts
<1>6. LineEnd(stream, Pos + 1)
  BY <1>1, <1>2
<1>7. \A k \in 1 .. Pos : ~EmptyLine(stream, k)
  <2> TAKE k \in 1 .. Pos
  <2>1. k \in 1 .. Pos - 2 \/ k = Pos - 1 \/ k = Pos
    BY <1>0
  <2>2. (Pos - 1) - 2 = Pos - 3
    BY <1>0
  <2> QED BY <1>3, <2>1, <2>2 DEF EmptyLine
<1>8. Types'
  BY <1>0, <1>4, <1>5 DEF Types
<1>9. Position'
  <2>1. Pos' - 1 = Pos + 1 /\ Pos' - 2 = Pos /\ Pos' - 3 = Pos - 1
    BY <1>0, <1>5
  <2> QED BY <1>0, <1>3, <1>4, <1>5, <1>6, <1>7, <2>1 DEF Position
<1>10. Asking'
  BY <1>4 DEF ParserInv, Asking
<1>11. BodyTaken'
  <2>1. Pos' + 0 < Pos' + 1 /\ Pos' + 1 \in Int /\ Pos' + 0 \in Int
    BY <1>5
  <2>2. SubSeq(stream, Pos' + 1, Pos' + 0) = << >>
    BY <2>1, SubSeqEmpty
  <2>3. client.body = << >>
    <3>1. Pos + 0 < Pos + 1 /\ Pos + 1 \in Int /\ Pos + 0 \in Int
      BY <1>0
    <3>2. SubSeq(stream, Pos + 1, Pos + 0) = << >>
      BY <3>1, SubSeqEmpty
    <3> QED BY <1>0, <3>2 DEF ParserInv, BodyTaken
  <2>4. body_read <= content_length
    BY DEF ParserInv, BodyTaken
  <2>5. /\ body_read' = 0 /\ state' = "body" /\ client'.body = << >> /\ stream' = stream /\ body_read' <= content_length'
        /\ pc' # "idle" /\ ~(body_read' > 0)
    BY <1>0, <1>4, <2>3, <2>4
  <2> QED BY <2>2, <2>5 DEF BodyTaken
<1>12. HeadersTo(stream, Pos' - 1) = HeadersTo(stream, Pos - 1)
  <2>1. Pos' - 1 = Pos + 1 /\ (Pos + 1) - 2 = Pos - 1
    BY <1>0, <1>5
  <2>2. EmptyLine(stream, Pos + 1)
    BY <1>3, <1>6, <2>1 DEF EmptyLine
  <2>3. HeadersTo(stream, Pos + 1) = HeadersTo(stream, Pos - 1)
    <3>1. ASSUME NEW i \in HeadersTo(stream, Pos + 1) PROVE i \in HeadersTo(stream, Pos - 1)
      <4>1. i \in 1 .. Pos + 1 /\ LineEnd(stream, i) /\ ~EmptyLine(stream, i)
        BY <3>1 DEF HeadersTo
      <4>2. i \in 1 .. Pos - 1 \/ i = Pos \/ i = Pos + 1
        BY <1>0, <4>1
      <4>3. i \in 1 .. Pos - 1
        BY <1>3, <2>2, <4>1, <4>2
      <4> QED BY <3>1, <4>3 DEF HeadersTo
    <3>2. ASSUME NEW i \in HeadersTo(stream, Pos - 1) PROVE i \in HeadersTo(stream, Pos + 1)
      <4>1. i \in 1 .. Pos + 1
        BY <1>0, <3>2 DEF HeadersTo
      <4> QED BY <3>2, <4>1 DEF HeadersTo
    <3> QED BY <3>1, <3>2
  <2> QED BY <2>1, <2>3
<1>13. HeadersTaken'
  BY <1>4, <1>12 DEF ParserInv, HeadersTaken
<1>14. Pos > 1
  BY <1>0, <1>3
<1> QED BY <1>5, <1>8, <1>9, <1>10, <1>11, <1>12, <1>13, <1>14 DEF ParserInv

\* on_message_complete saves the pair that was waiting.
LEMMA CompletedIs ==
  ASSUME NEW c, NEW s, NEW H, ClientOK(c), Taken(c, s, H)
  PROVE  /\ ClientOK(SaveHeader(c)) /\ Taken(SaveHeader(c), s, H)
         /\ SaveHeader(c).url = c.url /\ SaveHeader(c).body = c.body
         /\ SaveHeader(c).field = None \/ SaveHeader(c).value = None
<1> DEFINE d == SaveHeader(c)
<1>1. /\ ClientOK(d) /\ d.url = c.url /\ d.body = c.body /\ d.last_was_value = c.last_was_value
      /\ d.field = None \/ d.value = None
  BY SaveHeaderIs
<1>2. HeadersOf(c) = d.headers
  BY DEF HeadersOf
<1> HIDE DEF d
<1>3. SaveHeader(d) = d
  BY <1>1, SaveHeaderIs
<1>4. HeadersOf(d) = HeadersOf(c)
  BY <1>2, <1>3 DEF HeadersOf
<1>5. Taken(d, s, H)
  BY <1>1, <1>4, TakenBySame
<1> QED BY <1>1, <1>5 DEF d

LEMMA ParserBodyEnd ==
  ASSUME ParserInv, BodyEnd
  PROVE  ParserInv'
<1>0. Types /\ Position /\ BodyTaken /\ ClientOK(client) /\ completed = 0
  BY DEF ParserInv, Types, BodyEnd
<1>1. /\ state = "body" /\ state' = "finished" /\ pc' = "idle" /\ completed' = 1 /\ client' = SaveHeader(client)
      /\ UNCHANGED <<stream, fed, buf, last_pos, content_length, body_read>>
  BY <1>0 DEF BodyEnd, OnMessageComplete
<1>2. Pos' = Pos
  BY <1>1 DEF Pos
<1>3. Taken(client, stream, HeadersTo(stream, Pos - 1))
  BY DEF ParserInv, HeadersTaken
<1>4. /\ ClientOK(client') /\ Taken(client', stream, HeadersTo(stream, Pos - 1))
      /\ client'.url = client.url /\ client'.body = client.body
      /\ client'.field = None \/ client'.value = None
  BY <1>0, <1>1, <1>3, CompletedIs
<1>5. body_read = content_length
  <2>1. body_read \in Nat /\ content_length \in Nat
    BY <1>0 DEF Types
  <2> QED BY <2>1 DEF BodyEnd, DoneAfter
<1>6. Types'
  BY <1>0, <1>1, <1>4 DEF Types
<1>7. Position'
  BY <1>0, <1>1, <1>2 DEF Position
<1>8. Asking'
  BY <1>1, <1>4 DEF ParserInv, Asking
<1>9. BodyTaken'
  BY <1>0, <1>1, <1>2, <1>4, <1>5 DEF BodyTaken
<1>10. HeadersTaken'
  BY <1>1, <1>2, <1>4 DEF HeadersTaken
<1> QED BY <1>6, <1>7, <1>8, <1>9, <1>10 DEF ParserInv

LEMMA ParserBodyData ==
  ASSUME ParserInv, BodyData
  PROVE  ParserInv'
<1>0. /\ Types /\ Position /\ BodyTaken /\ ClientOK(client) /\ completed = 0 /\ state = "body"
      /\ content_length \in Nat
  BY DEF ParserInv, Types, BodyData
<1>1. /\ stream \in Stream /\ Len(stream) \in Nat /\ fed \in Nat /\ fed <= Len(stream)
      /\ buf \in Seq(Word) /\ Len(buf) \in Nat /\ Len(buf) <= fed
      /\ Pos \in Nat /\ Pos <= fed /\ Pos + Len(buf) = fed
      /\ last_pos = body_read
      /\ \A i \in 1 .. Len(buf) : buf[i] = stream[Pos + i]
  BY ParserFacts
<1>2. body_read = 0 /\ last_pos = 0
  <2>1. body_read \in Nat
    BY <1>0 DEF Types
  <2>2. ~(body_read > 0)
    <3>1. ASSUME body_read > 0 PROVE FALSE
      <4>1. NBytes <= 0 /\ NBytes > 0
        BY <1>0, <3>1 DEF BodyTaken, BodyData
      <4>2. NBytes \in Int
        <5>1. \A x \in Int : ToInt(x) \in Int
          <6>1. IntMax \in Nat /\ 2 * (IntMax + 1) \in Nat /\ 2 * (IntMax + 1) > 0
            BY ParserAssumption
          <6> QED BY <6>1 DEF ToInt
        <5>2. Len(buf) - last_pos \in Int /\ content_length - body_read \in Int
          BY <1>0, <1>1, <2>1
        <5> QED BY <5>1, <5>2 DEF NBytes, RST_min
      <4> QED BY <4>1, <4>2
    <3> QED BY <3>1
  <2> QED BY <1>1, <2>1, <2>2
<1> DEFINE n == NBytes
<1>3. n = RST_min(ToInt(Len(buf)), ToInt(content_length)) /\ n > 0
  <2>1. Len(buf) - 0 = Len(buf) /\ content_length - 0 = content_length
    BY <1>0, <1>1
  <2> QED BY <1>2, <2>1 DEF NBytes, BodyData
<1>4. n \in 1 .. Len(buf) /\ n <= content_length /\ RST_min(ToInt(Len(buf) - n), ToInt(content_length - n)) <= 0
  <2> HIDE DEF n
  <2> QED BY <1>0, <1>1, <1>3, BytesTaken
<1>5. /\ body_read' = 0 + n /\ last_pos' = 0 + n
      /\ UNCHANGED <<stream, fed, buf, content_length>>
      /\ LET c == OnBody(client, SubSeq(buf, 0 + 1, 0 + n))
         IN  IF DoneAfter(n, content_length - body_read')
               THEN OnMessageComplete(c)
               ELSE client' = c /\ UNCHANGED <<completed, state, pc>>
      /\ pc = "exec"
  BY <1>2 DEF BodyData
<1> DEFINE at == SubSeq(buf, 1, n)
<1> DEFINE c == OnBody(client, at)
<1>6. /\ body_read' = n /\ last_pos' = n
      /\ IF DoneAfter(n, content_length - n) THEN OnMessageComplete(c)
         ELSE client' = c /\ UNCHANGED <<completed, state, pc>>
  <2>1. 0 + n = n /\ 0 + 1 = 1
    BY <1>4
  <2> HIDE DEF n
  <2> QED BY <1>5, <2>1
<1> HIDE DEF n
<1>7. at = SubSeq(stream, Pos + 1, Pos + n) /\ at \in Seq(Word)
  <2>1. 1 \in 1 .. Len(buf) + 1 /\ n \in 0 .. Len(buf) /\ Pos + Len(buf) <= Len(stream)
    BY <1>1, <1>4
  <2>2. SubSeq(buf, 1, n) = SubSeq(stream, Pos + 1, Pos + n) /\ SubSeq(buf, 1, n) \in Seq(Word)
    BY ONLY <1>1, <2>1, SliceOfStream
  <2> QED BY <2>2
<1>8. client.body = << >>
  <2>1. Pos + 0 < Pos + 1 /\ Pos + 1 \in Int /\ Pos + 0 \in Int
    BY <1>1
  <2>2. SubSeq(stream, Pos + 1, Pos + 0) = << >>
    BY <2>1, SubSeqEmpty
  <2> QED BY <1>0, <1>2, <2>2 DEF BodyTaken
<1> HIDE DEF at
<1>9. /\ ClientOK(c) /\ c.url = client.url /\ c.body = at
      /\ Taken(c, stream, HeadersTo(stream, Pos - 1))
  <2>1. << >> \o at = at
    BY <1>7, ConcatEmptySeq
  <2>2. Taken(client, stream, HeadersTo(stream, Pos - 1))
    BY DEF ParserInv, HeadersTaken
  <2>3. /\ ClientOK(c) /\ c.url = client.url /\ c.body = client.body \o at
        /\ c.last_was_value = client.last_was_value /\ HeadersOf(c) = HeadersOf(client)
    BY <1>0, <1>7, OnBodyIs
  <2> HIDE DEF c
  <2> QED BY <1>8, <2>1, <2>2, <2>3, TakenBySame
<1> HIDE DEF c
<1>10. Pos' = Pos /\ n \in Nat
  BY <1>4, <1>5 DEF Pos
<1>11. /\ ClientOK(client') /\ client'.url = client.url /\ client'.body = at
       /\ Taken(client', stream, HeadersTo(stream, Pos - 1))
  <2>1. CASE DoneAfter(n, content_length - n)
    <3>1. client' = SaveHeader(c)
      BY <1>6, <2>1 DEF OnMessageComplete
    <3> QED BY <1>9, <3>1, CompletedIs
  <2>2. CASE ~DoneAfter(n, content_length - n)
    BY <1>6, <1>9, <2>2
  <2> QED BY <2>1, <2>2
<1>12. \/ state' = "finished" /\ pc' = "idle" /\ completed' = 1 /\ 2 * n = content_length
          /\ (client'.field = None \/ client'.value = None)
       \/ state' = "body" /\ pc' = "exec" /\ completed' = 0
  <2>1. CASE DoneAfter(n, content_length - n)
    <3>1. client' = SaveHeader(c) /\ state' = "finished" /\ pc' = "idle" /\ completed' = 1
      BY <1>0, <1>6, <2>1 DEF OnMessageComplete
    <3>2. client'.field = None \/ client'.value = None
      BY <1>9, <3>1, CompletedIs
    <3>3. 2 * n = content_length
      BY <1>0, <1>10, <2>1 DEF DoneAfter
    <3> QED BY <3>1, <3>2, <3>3
  <2>2. CASE ~DoneAfter(n, content_length - n)
    BY <1>0, <1>5, <1>6, <2>2
  <2> QED BY <2>1, <2>2
<1>13. Types'
  BY <1>0, <1>1, <1>4, <1>5, <1>6, <1>10, <1>11, <1>12 DEF Types
<1>14. Position'
  BY <1>0, <1>1, <1>5, <1>6, <1>10, <1>12 DEF Position
<1>15. Asking'
  BY <1>0, <1>5, <1>11, <1>12 DEF ParserInv, Asking
<1>16. BodyTaken'
  <2>1. NBytes' <= 0
    BY <1>4, <1>5, <1>6 DEF NBytes, RST_min, ToInt
  <2> QED BY <1>4, <1>5, <1>6, <1>7, <1>10, <1>11, <1>12, <2>1 DEF BodyTaken
<1>17. HeadersTaken'
  BY <1>5, <1>10, <1>11 DEF HeadersTaken
<1> QED BY <1>13, <1>14, <1>15, <1>16, <1>17 DEF ParserInv

LEMMA ParserStep == ParserInv /\ [Next]_vars => ParserInv'
<1> SUFFICES ASSUME ParserInv, [Next]_vars PROVE ParserInv'
  OBVIOUS
<1>1. CASE \E k \in 1 .. Len(stream) : Execute(k)
  BY <1>1, ParserExecute
<1>2. CASE NeedMore \/ HeaderLineCrash \/ BodyCrash
  BY <1>2, ParserLeaves
<1>3. CASE RequestLine
  BY <1>3, ParserRequestLine
<1>4. CASE BadRequestLine
  BY <1>4, ParserBadRequestLine
<1>5. CASE HeaderLine
  BY <1>5, ParserHeaderLine
<1>6. CASE LastHeader
  BY <1>6, ParserLastHeader
<1>7. CASE BodyData
  BY <1>7, ParserBodyData
<1>8. CASE BodyEnd
  BY <1>8, ParserBodyEnd
<1>9. CASE UNCHANGED vars
  <2>1. UNCHANGED <<stream, fed, pc, state, buf, last_pos, content_length, body_read, client, completed>>
    BY <1>9 DEF vars, parserVars
  <2>2. Pos' = Pos /\ NBytes' = NBytes /\ (Refused' <=> Refused)
    BY <2>1 DEF Pos, NBytes, RST_min, ToInt, Refused, GoodRequestLine, HasUrl
  <2> QED BY <2>1, <2>2 DEF ParserInv, Types, Position, Asking, BodyTaken, HeadersTaken
<1> QED BY <1>1, <1>2, <1>3, <1>4, <1>5, <1>6, <1>7, <1>8, <1>9 DEF Next, Loop

-----------------------------------------------------------------------------
(***************************************************************************)
(* What the handler is given is the request.                               *)
(***************************************************************************)
LEMMA EndsAre ==
  ASSUME ParserInv
  PROVE  Ends = {i \in 1 .. fed - 1 : LineEnd(stream, i)} /\ HeaderEnds = HeadersTo(stream, fed - 1)
<1>0. Len(stream) \in Nat /\ fed \in Nat /\ fed <= Len(stream)
  BY ParserFacts
<1>1. \A i \in 1 .. fed - 1 : i \in 1 .. Len(stream) - 1
  BY <1>0
<1>2. Ends = {i \in 1 .. fed - 1 : LineEnd(stream, i)}
  BY <1>1 DEF Ends, LineEnd
<1>3. \A i : i \in Ends <=> i \in 1 .. fed - 1 /\ LineEnd(stream, i)
  BY <1>2
<1>4. ASSUME NEW i \in HeaderEnds PROVE i \in HeadersTo(stream, fed - 1)
  <2>1. i \in Ends /\ (\E j \in Ends : j < i) /\ \A k \in Ends : k <= i => k - 2 \notin Ends
    BY <1>4 DEF HeaderEnds
  <2>2. i \in 1 .. fed - 1 /\ LineEnd(stream, i)
    BY <1>3, <2>1
  <2>3. \E j \in 1 .. i - 1 : LineEnd(stream, j)
    BY <1>0, <1>3, <2>1, <2>2
  <2>4. ASSUME NEW k \in 1 .. i, EmptyLine(stream, k) PROVE FALSE
    <3>1. LineEnd(stream, k) /\ LineEnd(stream, k - 2) /\ k - 2 \in Int /\ k - 2 >= 1
      BY <1>0, <2>4 DEF EmptyLine, LineEnd
    <3>2. k \in 1 .. fed - 1 /\ k - 2 \in 1 .. fed - 1 /\ k <= i
      BY <1>0, <2>2, <3>1
    <3> QED BY <1>3, <2>1, <3>1, <3>2
  <2> QED BY <2>2, <2>3, <2>4 DEF HeadersTo
<1>5. ASSUME NEW i \in HeadersTo(stream, fed - 1) PROVE i \in HeaderEnds
  <2>1. /\ i \in 1 .. fed - 1 /\ LineEnd(stream, i)
        /\ \E j \in 1 .. i - 1 : LineEnd(stream, j)
        /\ \A k \in 1 .. i : ~EmptyLine(stream, k)
    BY <1>5 DEF HeadersTo
  <2>2. \E j \in Ends : j < i
    BY <1>0, <1>3, <2>1
  <2>3. ASSUME NEW k \in Ends, k <= i, k - 2 \in Ends PROVE FALSE
    <3>1. k \in 1 .. i /\ LineEnd(stream, k) /\ LineEnd(stream, k - 2)
      BY <1>0, <1>3, <2>1, <2>3
    <3> QED BY <2>1, <3>1 DEF EmptyLine
  <2> QED BY <1>3, <2>1, <2>2, <2>3 DEF HeaderEnds
<1> QED BY <1>2, <1>4, <1>5

LEMMA LinesAre ==
  ASSUME ParserInv, NEW i \in HeaderEnds
  PROVE  LineAt(i) = LineOf(stream, i)
<1>0. Len(stream) \in Nat /\ fed \in Nat /\ fed <= Len(stream)
  BY ParserFacts
<1>1. /\ i \in 1 .. fed - 1 /\ \E j \in 1 .. i - 1 : LineEnd(stream, j)
  BY EndsAre DEF HeadersTo
<1>2. IsPrev(stream, i, Prev(stream, i))
  BY <1>0, <1>1, PrevExists
<1> DEFINE p == Prev(stream, i)
<1>3. p \in Ends /\ p < i /\ \A k \in Ends : k < i => k <= p
  <2>1. \A j : j \in Ends <=> j \in 1 .. fed - 1 /\ LineEnd(stream, j)
    BY EndsAre
  <2> HIDE DEF p
  <2>2. p \in 1 .. i - 1 /\ LineEnd(stream, p) /\ \A k \in 1 .. i - 1 : LineEnd(stream, k) => k <= p
    BY <1>2 DEF IsPrev, p
  <2> QED BY <1>0, <1>1, <2>1, <2>2
<1>4. PrevEnd(i) \in Ends /\ PrevEnd(i) < i /\ \A k \in Ends : k < i => k <= PrevEnd(i)
  <2> HIDE DEF p
  <2> QED BY <1>3 DEF PrevEnd
<1>5. PrevEnd(i) = p
  <2>1. PrevEnd(i) \in Int /\ p \in Int
    BY <1>3, <1>4 DEF Ends
  <2> HIDE DEF p
  <2> QED BY <1>3, <1>4, <2>1
<1> QED BY <1>5 DEF LineAt, LineOf

LEMMA BodyStartIs ==
  ASSUME ParserInv
  PROVE  BodyStart \in Int /\ (state \in {"body", "finished"} => BodyStart = Pos + 1)
<1>0. stream \in Stream /\ Len(stream) \in Nat /\ fed \in Nat /\ fed <= Len(stream) /\ Pos \in Nat /\ Pos <= fed
  BY ParserFacts
<1> DEFINE S == {i \in 1 .. Len(stream) - 3 : SubSeq(stream, i, i + 3) = <<"CR", "LF", "CR", "LF">>}
<1> DEFINE T == S \cup {Len(stream)}
<1>1. T \subseteq Nat /\ T # {}
  BY <1>0
<1>2. BodyStart = FirstOf(T) + 4
  BY DEF BodyStart
<1>3. \A i \in 1 .. Len(stream) - 3 : i \in S <=> LineEnd(stream, i) /\ LineEnd(stream, i + 2)
  <2> TAKE i \in 1 .. Len(stream) - 3
  <2> DEFINE n == i + 3
  <2>1. n \in Int /\ i \in Int /\ i <= n /\ n - i + 1 = 4 /\ \A k \in i .. n : stream[k] \in Word
    BY <1>0, StreamWords
  <2> HIDE DEF n
  <2>2. /\ SubSeq(stream, i, n) \in Seq(Word) /\ Len(SubSeq(stream, i, n)) = IF i <= n THEN n - i + 1 ELSE 0
        /\ \A k \in 1 .. n - i + 1 : SubSeq(stream, i, n)[k] = stream[i + k - 1]
    BY <2>1, SubSeqProperties
  <2> DEFINE t == SubSeq(stream, i, n)
  <2>3. t \in Seq(Word) /\ Len(t) = 4 /\ t[1] = stream[i + 1 - 1] /\ t[2] = stream[i + 2 - 1]
        /\ t[3] = stream[i + 3 - 1] /\ t[4] = stream[i + 4 - 1]
    BY <2>1, <2>2
  <2>4. i + 1 - 1 = i /\ i + 2 - 1 = i + 1 /\ i + 3 - 1 = i + 2 /\ i + 4 - 1 = (i + 2) + 1
    OBVIOUS
  <2> HIDE DEF t
  <2>5. t = <<t[1], t[2], t[3], t[4]>>
    BY <2>3
  <2>6. t = <<"CR", "LF", "CR", "LF">> <=> stream[i] = "CR" /\ stream[i + 1] = "LF" /\ stream[i + 2] = "CR" /\ stream[(i + 2) + 1] = "LF"
    <3>1. t = <<"CR", "LF", "CR", "LF">> => t[1] = "CR" /\ t[2] = "LF" /\ t[3] = "CR" /\ t[4] = "LF"
      OBVIOUS
    <3> QED BY <2>3, <2>4, <2>5, <3>1
  <2>7. i \in 1 .. Len(stream) - 1 /\ i + 2 \in 1 .. Len(stream) - 1
    BY <1>0
  <2>8. i \in S <=> t = <<"CR", "LF", "CR", "LF">>
    BY DEF t, n
  <2> QED BY <2>6, <2>7, <2>8 DEF LineEnd
<1> HIDE DEF S
<1>4. BodyStart \in Int
  <2>1. FirstOf(T) \in T
    BY <1>1, FirstExists
  <2> QED BY <1>1, <1>2, <2>1
<1>5. ASSUME state \in {"body", "finished"} PROVE BodyStart = Pos + 1
  <2>1. /\ LineEnd(stream, Pos - 1) /\ LineEnd(stream, Pos - 3)
        /\ \A k \in 1 .. Pos - 2 : ~EmptyLine(stream, k)
    BY <1>5 DEF ParserInv, Position
  <2>2. Pos - 3 \in 1 .. Len(stream) - 3 /\ (Pos - 3) + 2 = Pos - 1
    BY <1>0, <2>1 DEF LineEnd
  <2>3. Pos - 3 \in T
    BY <1>3, <2>1, <2>2
  <2>4. ASSUME NEW j \in T PROVE Pos - 3 <= j
    <3>1. CASE j = Len(stream)
      BY <1>0, <3>1
    <3>2. CASE j \in S
      <4>1. j \in 1 .. Len(stream) - 3
        BY <3>2 DEF S
      <4>2. LineEnd(stream, j) /\ LineEnd(stream, j + 2) /\ (j + 2) - 2 = j
        BY <1>3, <3>2, <4>1
      <4>3. EmptyLine(stream, j + 2)
        BY <4>2 DEF EmptyLine
      <4> QED BY <1>0, <2>1, <4>1, <4>3
    <3> QED BY <3>1, <3>2
  <2> HIDE DEF T
  <2>5. T \subseteq Int
    BY <1>1
  <2>6. FirstOf(T) = Pos - 3
    BY <2>3, <2>4, <2>5, FirstIs
  <2> QED BY <1>0, <1>2, <2>6
<1> QED BY <1>4, <1>5

\* Nothing behind the empty line is taken for a header.
LEMMA NoHeadersBehind ==
  ASSUME ParserInv, state = "finished"
  PROVE  HeadersTo(stream, fed - 1) = HeadersTo(stream, Pos - 1)
<1>0. fed \in Nat /\ Pos \in Nat /\ Pos <= fed
  BY ParserFacts
<1>1. EmptyLine(stream, Pos - 1) /\ Pos - 1 >= 1
  <2>1. LineEnd(stream, Pos - 1) /\ LineEnd(stream, Pos - 3)
    BY DEF ParserInv, Position
  <2>2. (Pos - 1) - 2 = Pos - 3
    BY <1>0
  <2> QED BY <1>0, <2>1, <2>2 DEF EmptyLine, LineEnd
<1>2. ASSUME NEW i \in HeadersTo(stream, fed - 1) PROVE i \in HeadersTo(stream, Pos - 1)
  <2>1. i \in 1 .. fed - 1 /\ \A k \in 1 .. i : ~EmptyLine(stream, k)
    BY <1>2 DEF HeadersTo
  <2>2. i \in 1 .. Pos - 1
    BY <1>0, <1>1, <2>1
  <2> QED BY <1>2, <2>2 DEF HeadersTo
<1>3. ASSUME NEW i \in HeadersTo(stream, Pos - 1) PROVE i \in HeadersTo(stream, fed - 1)
  <2>1. i \in 1 .. fed - 1
    BY <1>0, <1>3 DEF HeadersTo
  <2> QED BY <1>3, <2>1 DEF HeadersTo
<1> QED BY <1>2, <1>3

LEMMA RequestIsExact == ParserInv => RequestExact
<1> SUFFICES ASSUME ParserInv PROVE RequestExact
  OBVIOUS
<1>0. Len(stream) \in Nat /\ fed \in Nat /\ fed <= Len(stream) /\ Pos \in Nat /\ Pos <= fed /\ body_read \in Nat
  BY ParserFacts
<1>1. ASSUME completed > 0, \A i \in HeaderEnds : IsPair(LineAt(i))
      PROVE  /\ DOMAIN client.headers = {Name(LineAt(i)) : i \in HeaderEnds}
             /\ \A i \in HeaderEnds :
                  (\A j \in HeaderEnds : j < i => Name(LineAt(j)) # Name(LineAt(i))) =>
                    client.headers[Name(LineAt(i))] = Value(LineAt(i))
  <2>1. state = "finished"
    BY <1>1 DEF ParserInv, Types
  <2>2. HeadersTo(stream, fed - 1) = HeadersTo(stream, Pos - 1)
    BY <2>1, NoHeadersBehind
  <2>3. Taken(client, stream, HeaderEnds)
    BY <2>2, EndsAre DEF ParserInv, HeadersTaken
  <2>4. HeadersOf(client) = client.headers
    BY <2>1 DEF ParserInv, BodyTaken, HeadersOf, SaveHeader
  <2>5. \A i \in HeaderEnds : LineAt(i) = LineOf(stream, i)
    BY LinesAre
  <2> QED BY <1>1, <2>3, <2>4, <2>5 DEF Taken
<1>2. client.body = SubSeq(stream, BodyStart, BodyStart + body_read - 1)
  <2>1. client.body = SubSeq(stream, Pos + 1, Pos + body_read)
    BY DEF ParserInv, BodyTaken
  <2>2. CASE state \in {"body", "finished"}
    <3>1. BodyStart = Pos + 1
      BY <2>2, BodyStartIs
    <3>2. BodyStart + body_read - 1 = Pos + body_read
      BY <1>0, <3>1
    <3> QED BY <2>1, <3>1, <3>2
  <2>3. CASE state \notin {"body", "finished"}
    <3>1. body_read = 0
      BY <2>3 DEF ParserInv, Types, Position
    <3>2. BodyStart \in Int
      BY BodyStartIs
    <3>3. BodyStart + body_read - 1 \in Int /\ BodyStart + body_read - 1 < BodyStart
      BY <3>1, <3>2
    <3>4. Pos + body_read \in Int /\ Pos + 1 \in Int /\ Pos + body_read < Pos + 1
      BY <1>0, <3>1
    <3>5. SubSeq(stream, BodyStart, BodyStart + body_read - 1) = << >>
      BY <3>2, <3>3, SubSeqEmpty
    <3>6. SubSeq(stream, Pos + 1, Pos + body_read) = << >>
      BY <3>4, SubSeqEmpty
    <3> QED BY <2>1, <3>5, <3>6
  <2> QED BY <2>2, <2>3
<1>3. body_read <= content_length
  BY DEF ParserInv, BodyTaken
<1>4. completed <= 1 /\ (completed > 0 => body_read = content_length \/ 2 * body_read = content_length)
  BY DEF ParserInv, Types, BodyTaken
<1> QED BY <1>1, <1>2, <1>3, <1>4 DEF RequestExact

(***************************************************************************)
(* RST_requestparser_execute and the callbacks of rstclient.c: for every   *)
(* stream and every way to cut it into chunks, the handler sees each name  *)
(* with the value of its first line, the body is the stream behind the     *)
(* empty line, never more than Content-Length, and the request is complete *)
(* at most once, with its whole body or exactly half of it.                *)
(***************************************************************************)
THEOREM ParserGivesRequest == Spec => []RequestExact
<1>1. Init => ParserInv
  BY ParserInit
<1>2. ParserInv /\ [Next]_vars => ParserInv'
  BY ParserStep
<1>3. ParserInv => RequestExact
  BY RequestIsExact
<1> QED BY <1>1, <1>2, <1>3, PTL DEF Spec

-----------------------------------------------------------------------------
(***************************************************************************)
(* However the stream is cut, the client is made by the same lines.        *)
(***************************************************************************)
\* The client after the lines that end at i or before, for the whole stream: the
\* reference of ChunkIndependence, which looks at what has arrived, extended.
ClientAfter(s) ==
  LET R[i \in 0 .. Len(s)] == IF i = 0 THEN NewClient
                              ELSE IF i \in HeadersTo(s, Len(s)) THEN Header(R[i - 1], LineOf(s, i))
                              ELSE R[i - 1]
  IN  R

\* The part of a client that header lines are about.
Bare(c) == MkClient(<< >>, c.field, c.value, c.last_was_value, c.headers, << >>)

\* The lines cut off the buffer have made the client; on return no line is left.
LinesKept ==
  LET r == ClientAfter(stream)[IF Pos = 0 THEN 0 ELSE Pos - 1]
  IN  /\ Bare(client) = IF state = "finished" THEN SaveHeader(r) ELSE r
      /\ pc = "idle" /\ state = "header" => LineEnds = {}

\* A recursion over the lines has a solution, for any lines L that end at H: a
\* solution up to one index extends to the next.
Solution(H, L, n, f) == f = [i \in 0 .. n |-> IF i = 0 THEN NewClient
                                               ELSE IF i \in H THEN Header(f[i - 1], L[i])
                                               ELSE f[i - 1]]

LEMMA RecursionExists ==
  ASSUME NEW H, NEW L, NEW n \in Nat
  PROVE  \E f : Solution(H, L, n, f)
<1> DEFINE Step(i, x) == IF i \in H THEN Header(x, L[i]) ELSE x
           Solves(f, m) == f = [i \in 0 .. m |-> IF i = 0 THEN NewClient ELSE Step(i, f[i - 1])]
           bad == {m \in Nat : ~\E f : Solves(f, m)}
<1> SUFFICES \E f : Solves(f, n)
  BY DEF Solution
<1> HIDE DEF Step
<1>1. Solves([i \in 0 .. 0 |-> NewClient], 0)
  OBVIOUS
<1>2. ASSUME NEW m \in Nat, NEW f, Solves(f, m) PROVE \E g : Solves(g, m + 1)
  <2> DEFINE g == [i \in 0 .. m + 1 |-> IF i = m + 1 THEN Step(m + 1, f[m]) ELSE f[i]]
  <2>1. ASSUME NEW i \in 0 .. m + 1 PROVE g[i] = IF i = 0 THEN NewClient ELSE Step(i, g[i - 1])
    <3>1. CASE i = m + 1
      <4>1. m \in 0 .. m + 1 /\ m # m + 1 /\ i # 0 /\ i - 1 = m
        BY <3>1
      <4> QED BY <3>1, <4>1
    <3>2. CASE i # m + 1
      <4>1. i \in 0 .. m
        BY <3>2
      <4>2. f[i] = IF i = 0 THEN NewClient ELSE Step(i, f[i - 1])
        BY <1>2, <4>1
      <4>3. i # 0 => i - 1 \in 0 .. m + 1 /\ i - 1 # m + 1
        BY <4>1
      <4> QED BY <3>2, <4>2, <4>3
    <3> QED BY <3>1, <3>2
  <2>2. g = [i \in 0 .. m + 1 |-> g[i]]
    OBVIOUS
  <2> HIDE DEF g
  <2>3. Solves(g, m + 1)
    BY <2>1, <2>2
  <2> QED BY <2>3
<1> HIDE DEF Solves
<1>3. ASSUME bad # {} PROVE FALSE
  <2>1. FirstOf(bad) \in bad /\ \A j \in bad : FirstOf(bad) <= j
    BY <1>3, FirstExists
  <2> DEFINE m == FirstOf(bad)
  <2>2. m \in Nat /\ m # 0
    BY <1>1, <2>1
  <2>3. m - 1 \in Nat /\ ~(m <= m - 1) /\ (m - 1) + 1 = m
    BY <2>2
  <2>4. m - 1 \notin bad
    BY <2>1, <2>3
  <2>5. PICK f : Solves(f, m - 1)
    BY <2>3, <2>4
  <2>6. \E g : Solves(g, m)
    BY <1>2, <2>3, <2>5
  <2> QED BY <2>1, <2>6
<1> QED BY <1>3

\* The equations of the recursion.
LEMMA AfterIs ==
  ASSUME NEW s \in Stream
  PROVE  /\ ClientAfter(s)[0] = NewClient
         /\ \A i \in 1 .. Len(s) :
              ClientAfter(s)[i] = IF i \in HeadersTo(s, Len(s)) THEN Header(ClientAfter(s)[i - 1], LineOf(s, i))
                                  ELSE ClientAfter(s)[i - 1]
<1> DEFINE H == HeadersTo(s, Len(s))
           n == Len(s)
           L == [i \in H |-> LineOf(s, i)]
           Body(f) == [i \in 0 .. n |-> IF i = 0 THEN NewClient
                                        ELSE IF i \in H THEN Header(f[i - 1], LineOf(s, i)) ELSE f[i - 1]]
           R == CHOOSE f : f = Body(f)
<1>0. n \in Nat
  BY StreamWords
<1>1. ClientAfter(s) = R
  BY DEF ClientAfter
<1>2. \A i \in H : L[i] = LineOf(s, i)
  OBVIOUS
<1> HIDE DEF n, H, L
<1>3. PICK f : Solution(H, L, n, f)
  BY <1>0, RecursionExists
<1>4. f = Body(f)
  BY <1>2, <1>3 DEF Solution
<1>5. R = Body(R)
  <2> HIDE DEF Body
  <2> QED BY <1>4
<1> HIDE DEF R
<1>6. R[0] = NewClient /\ \A i \in 1 .. n : R[i] = IF i \in H THEN Header(R[i - 1], LineOf(s, i)) ELSE R[i - 1]
  BY <1>0, <1>5
<1> QED BY <1>1, <1>6 DEF n, H

\* Nothing changes where no line ends.
LEMMA AfterSame ==
  ASSUME NEW s \in Stream, NEW a \in Nat, NEW b \in Nat, a <= b, b <= Len(s),
         HeadersTo(s, b) \subseteq HeadersTo(s, a)
  PROVE  ClientAfter(s)[b] = ClientAfter(s)[a]
<1> DEFINE R == ClientAfter(s)
           bad == {i \in a .. b : R[i] # R[a]}
<1>0. Len(s) \in Nat
  BY StreamWords
<1>1. \A i \in 1 .. Len(s) : R[i] = IF i \in HeadersTo(s, Len(s)) THEN Header(R[i - 1], LineOf(s, i)) ELSE R[i - 1]
  BY AfterIs
<1>2. ASSUME NEW i \in a + 1 .. b PROVE i \notin HeadersTo(s, Len(s))
  <2>1. ASSUME i \in HeadersTo(s, Len(s)) PROVE FALSE
    <3>1. i \in 1 .. b /\ i \notin 1 .. a
      BY <1>0
    <3>2. i \in HeadersTo(s, b) /\ i \notin HeadersTo(s, a)
      BY <2>1, <3>1 DEF HeadersTo
    <3> QED BY <3>2
  <2> QED BY <2>1
<1> HIDE DEF R
<1>3. ASSUME bad # {} PROVE FALSE
  <2>1. bad \subseteq Nat
    OBVIOUS
  <2> DEFINE m == FirstOf(bad)
  <2>2. m \in bad /\ \A j \in bad : m <= j
    BY <1>3, <2>1, FirstExists
  <2> HIDE DEF m
  <2>3. m \in a + 1 .. b /\ m - 1 \in a .. b /\ ~(m <= m - 1) /\ m \in 1 .. Len(s)
    BY <1>0, <2>2
  <2>4. R[m - 1] = R[a]
    BY <2>2, <2>3
  <2>5. R[m] = R[m - 1]
    BY <1>1, <1>2, <2>3
  <2> QED BY <2>2, <2>4, <2>5
<1> QED BY <1>3 DEF R

\* One line more.
LEMMA AfterMore ==
  ASSUME NEW s \in Stream, NEW a \in Nat, NEW n \in Nat, a < n, n <= Len(s),
         HeadersTo(s, n) = HeadersTo(s, a) \cup {n}
  PROVE  ClientAfter(s)[n] = Header(ClientAfter(s)[a], LineOf(s, n))
<1>0. Len(s) \in Nat /\ n - 1 \in Nat /\ a <= n - 1 /\ n - 1 <= Len(s) /\ n \in 1 .. Len(s)
  BY StreamWords
<1>1. HeadersTo(s, n - 1) \subseteq HeadersTo(s, a)
  <2>1. \A i \in HeadersTo(s, n - 1) : i \in HeadersTo(s, n) /\ i # n
    BY DEF HeadersTo
  <2> QED BY <2>1
<1>2. ClientAfter(s)[n - 1] = ClientAfter(s)[a]
  BY <1>0, <1>1, AfterSame
<1>3. n \in HeadersTo(s, Len(s))
  <2>1. n \in HeadersTo(s, n)
    OBVIOUS
  <2> QED BY <1>0, <2>1 DEF HeadersTo
<1> QED BY <1>0, <1>2, <1>3, AfterIs

\* The reference of ChunkIndependence is the same recursion, up to what has
\* arrived.
LEMMA ReferenceIsAfter ==
  ASSUME ParserInv, fed > 0
  PROVE  Reference = ClientAfter(stream)[fed - 1]
<1>0. stream \in Stream /\ Len(stream) \in Nat /\ fed \in Nat /\ fed <= Len(stream)
  BY ParserFacts
<1> DEFINE H == HeaderEnds
           L == [i \in H |-> LineAt(i)]
           A == ClientAfter(stream)
           Body(f) == [i \in 0 .. fed |-> IF i = 0 THEN NewClient
                                          ELSE IF i \in H THEN Header(f[i - 1], LineAt(i)) ELSE f[i - 1]]
           R == CHOOSE f : f = Body(f)
<1>1. Reference = R[fed]
  BY DEF Reference
<1>2. \A i \in H : L[i] = LineAt(i) /\ LineAt(i) = LineOf(stream, i)
  BY LinesAre
<1>3. \A i \in 1 .. fed - 1 : i \in H <=> i \in HeadersTo(stream, Len(stream))
  BY <1>0, EndsAre DEF HeadersTo
<1>4. fed \notin H
  BY <1>0, EndsAre DEF HeadersTo
<1>5. A[0] = NewClient
      /\ \A i \in 1 .. Len(stream) :
           A[i] = IF i \in HeadersTo(stream, Len(stream)) THEN Header(A[i - 1], LineOf(stream, i)) ELSE A[i - 1]
  BY <1>0, AfterIs
<1> HIDE DEF H, L, A
<1>6. PICK f : Solution(H, L, fed, f)
  BY <1>0, RecursionExists
<1>7. f = Body(f)
  BY <1>2, <1>6 DEF Solution
<1>8. R = Body(R)
  <2> HIDE DEF Body
  <2> QED BY <1>7
<1> HIDE DEF R
<1>9. /\ R[0] = NewClient
      /\ \A i \in 1 .. fed : R[i] = IF i \in H THEN Header(R[i - 1], LineAt(i)) ELSE R[i - 1]
  BY <1>0, <1>8
<1> DEFINE bad == {i \in 0 .. fed - 1 : R[i] # A[i]}
<1>10. ASSUME bad # {} PROVE FALSE
  <2>1. bad \subseteq Nat
    BY <1>0
  <2> DEFINE m == FirstOf(bad)
  <2>2. m \in bad /\ \A j \in bad : m <= j
    BY <1>10, <2>1, FirstExists
  <2> HIDE DEF m
  <2>3. m \in 1 .. fed - 1 /\ m - 1 \in 0 .. fed - 1 /\ ~(m <= m - 1) /\ m \in 1 .. Len(stream) /\ m \in 1 .. fed
    BY <1>0, <1>5, <1>9, <2>2
  <2>4. R[m - 1] = A[m - 1]
    BY <2>2, <2>3
  <2>5. R[m] = A[m]
    BY <1>2, <1>3, <1>5, <1>9, <2>3, <2>4
  <2> QED BY <2>2, <2>5
<1>11. R[fed] = R[fed - 1] /\ fed - 1 \in 0 .. fed - 1
  BY <1>0, <1>4, <1>9
<1>12. R[fed - 1] = A[fed - 1]
  BY <1>10, <1>11
<1>13. Reference = A[fed - 1]
  BY <1>1, <1>11, <1>12
<1> QED BY <1>13 DEF A

\* The callbacks do with the part of a client that header lines are about what
\* they do with the client.
Whole(c) == c = MkClient(c.url, c.field, c.value, c.last_was_value, c.headers, c.body)

LEMMA BareSave ==
  ASSUME NEW c, Whole(c)
  PROVE  Bare(SaveHeader(c)) = SaveHeader(Bare(c))
<1>1. c = MkClient(c.url, c.field, c.value, c.last_was_value, c.headers, c.body)
  BY DEF Whole
<1> DEFINE b == Bare(c)
           h == MapInsert(c.headers, c.field, c.value)
<1>2. b = MkClient(<< >>, c.field, c.value, c.last_was_value, c.headers, << >>)
      /\ b.field = c.field /\ b.value = c.value /\ b.headers = c.headers
  BY DEF Bare, MkClient
<1>3. CASE c.field # None /\ c.value # None
  <2> HIDE DEF b
  <2>1. SaveHeader(c) = [c EXCEPT !.headers = h, !.field = None, !.value = None]
    BY <1>3 DEF SaveHeader
  <2>2. SaveHeader(b) = [b EXCEPT !.headers = h, !.field = None, !.value = None]
    BY <1>2, <1>3 DEF SaveHeader
  <2> HIDE DEF h
  <2>3. SaveHeader(c) = MkClient(c.url, None, None, c.last_was_value, h, c.body)
    BY <1>1, <2>1 DEF MkClient
  <2>4. SaveHeader(b) = MkClient(<< >>, None, None, c.last_was_value, h, << >>)
    BY <1>2, <2>2 DEF MkClient
  <2>5. Bare(SaveHeader(c)) = MkClient(<< >>, None, None, c.last_was_value, h, << >>)
    BY <2>3 DEF Bare, MkClient
  <2> QED BY <2>4, <2>5 DEF b
<1>4. CASE ~(c.field # None /\ c.value # None)
  <2> HIDE DEF b
  <2>1. SaveHeader(c) = c /\ SaveHeader(b) = b
    BY <1>2, <1>4 DEF SaveHeader
  <2> QED BY <2>1 DEF b
<1> QED BY <1>3, <1>4

LEMMA BareField ==
  ASSUME NEW c, ClientOK(c), NEW at
  PROVE  Bare(OnHeaderField(c, at)) = OnHeaderField(Bare(c), at)
<1> DEFINE d == IF c.last_was_value THEN SaveHeader(c) ELSE c
           e == IF c.last_was_value THEN SaveHeader(Bare(c)) ELSE Bare(c)
           f == (IF c.last_was_value THEN << >> ELSE c.field) \o at
<1>0. Whole(c)
  BY DEF ClientOK, MkClient, Whole
<1>1. ClientOK(d) /\ e = Bare(d)
  BY <1>0, BareSave, SaveHeaderIs
<1>2. Bare(c).last_was_value = c.last_was_value /\ Bare(c).field = c.field
  BY DEF Bare, MkClient
<1>3. d = MkClient(d.url, d.field, d.value, d.last_was_value, d.headers, d.body)
  BY <1>1 DEF ClientOK, MkClient
<1>4. OnHeaderField(c, at) = MkClient(d.url, f, d.value, FALSE, d.headers, d.body)
  <2>1. CASE c.last_was_value
    <3>1. OnHeaderField(c, at) = [[d EXCEPT !.field = << >>] EXCEPT !.field = @ \o at, !.last_was_value = FALSE]
      BY <2>1 DEF OnHeaderField
    <3>2. f = << >> \o at
      BY <2>1
    <3> HIDE DEF d, f
    <3> QED BY <1>3, <3>1, <3>2 DEF MkClient
  <2>2. CASE ~c.last_was_value
    <3>1. OnHeaderField(c, at) = [d EXCEPT !.field = @ \o at, !.last_was_value = FALSE]
      BY <2>2 DEF OnHeaderField
    <3>2. f = d.field \o at
      BY <2>2
    <3> HIDE DEF d, f
    <3> QED BY <1>3, <3>1, <3>2 DEF MkClient
  <2> QED BY <2>1, <2>2
<1>5. OnHeaderField(Bare(c), at) = MkClient(<< >>, f, d.value, FALSE, d.headers, << >>)
  <2>0. e = MkClient(<< >>, d.field, d.value, d.last_was_value, d.headers, << >>)
    BY <1>1 DEF Bare
  <2>1. CASE c.last_was_value
    <3>1. OnHeaderField(Bare(c), at) = [[e EXCEPT !.field = << >>] EXCEPT !.field = @ \o at, !.last_was_value = FALSE]
      BY <1>2, <2>1 DEF OnHeaderField
    <3>2. f = << >> \o at
      BY <2>1
    <3> HIDE DEF d, e, f
    <3> QED BY <2>0, <3>1, <3>2 DEF MkClient
  <2>2. CASE ~c.last_was_value
    <3>1. OnHeaderField(Bare(c), at) = [e EXCEPT !.field = @ \o at, !.last_was_value = FALSE]
      BY <1>2, <2>2 DEF OnHeaderField
    <3>2. f = d.field \o at
      BY <2>2
    <3> HIDE DEF d, e, f
    <3> QED BY <2>0, <3>1, <3>2 DEF MkClient
  <2> QED BY <2>1, <2>2
<1> HIDE DEF d, f
<1>6. Bare(OnHeaderField(c, at)) = MkClient(<< >>, f, d.value, FALSE, d.headers, << >>)
  BY <1>4 DEF Bare, MkClient
<1> QED BY <1>5, <1>6

LEMMA BareValue ==
  ASSUME NEW c, ClientOK(c), NEW at
  PROVE  Bare(OnHeaderValue(c, at)) = OnHeaderValue(Bare(c), at)
<1> DEFINE b == Bare(c)
           v == (IF c.last_was_value THEN c.value ELSE << >>) \o at
<1>1. c = MkClient(c.url, c.field, c.value, c.last_was_value, c.headers, c.body)
  BY DEF ClientOK, MkClient
<1>2. b = MkClient(<< >>, c.field, c.value, c.last_was_value, c.headers, << >>)
      /\ b.last_was_value = c.last_was_value
  BY DEF Bare, MkClient
<1>3. OnHeaderValue(c, at) = MkClient(c.url, c.field, v, TRUE, c.headers, c.body)
  <2>1. CASE c.last_was_value
    <3>1. OnHeaderValue(c, at) = [c EXCEPT !.value = @ \o at, !.last_was_value = TRUE] /\ v = c.value \o at
      BY <2>1 DEF OnHeaderValue
    <3> HIDE DEF v
    <3> QED BY <1>1, <3>1 DEF MkClient
  <2>2. CASE ~c.last_was_value
    <3>1. OnHeaderValue(c, at) = [[c EXCEPT !.value = << >>] EXCEPT !.value = @ \o at, !.last_was_value = TRUE]
          /\ v = << >> \o at
      BY <2>2 DEF OnHeaderValue
    <3> HIDE DEF v
    <3> QED BY <1>1, <3>1 DEF MkClient
  <2> QED BY <2>1, <2>2
<1> HIDE DEF b
<1>4. OnHeaderValue(b, at) = MkClient(<< >>, c.field, v, TRUE, c.headers, << >>)
  <2>1. CASE c.last_was_value
    <3>1. OnHeaderValue(b, at) = [b EXCEPT !.value = @ \o at, !.last_was_value = TRUE] /\ v = c.value \o at
      BY <1>2, <2>1 DEF OnHeaderValue
    <3> HIDE DEF v
    <3> QED BY <1>2, <3>1 DEF MkClient
  <2>2. CASE ~c.last_was_value
    <3>1. OnHeaderValue(b, at) = [[b EXCEPT !.value = << >>] EXCEPT !.value = @ \o at, !.last_was_value = TRUE]
          /\ v = << >> \o at
      BY <1>2, <2>2 DEF OnHeaderValue
    <3> HIDE DEF v
    <3> QED BY <1>2, <3>1 DEF MkClient
  <2> QED BY <2>1, <2>2
<1> HIDE DEF v
<1>5. Bare(OnHeaderValue(c, at)) = MkClient(<< >>, c.field, v, TRUE, c.headers, << >>)
  BY <1>3 DEF Bare, MkClient
<1> QED BY <1>4, <1>5 DEF b

LEMMA BareHeader ==
  ASSUME NEW c, ClientOK(c), NEW line \in Seq(Word)
  PROVE  Bare(Header(c, line)) = Header(Bare(c), line)
<1>1. CASE Colons(line) = {}
  BY <1>1, BareValue DEF Header
<1>2. CASE Colons(line) # {} /\ ~IsPair(line)
  BY <1>2, BareField DEF Header
<1>3. CASE Colons(line) # {} /\ IsPair(line)
  <2>1. ClientOK(OnHeaderField(c, Name(line)))
    BY <1>3, NameIs, OnHeaderFieldIs
  <2>2. /\ Header(c, line) = OnHeaderValue(OnHeaderField(c, Name(line)), Value(line))
        /\ Header(Bare(c), line) = OnHeaderValue(OnHeaderField(Bare(c), Name(line)), Value(line))
    BY <1>3 DEF Header
  <2> QED BY <2>1, <2>2, BareField, BareValue
<1> QED BY <1>1, <1>2, <1>3

LEMMA BareSame ==
  ASSUME NEW c, ClientOK(c), NEW at
  PROVE  Bare(OnUrl(c, at)) = Bare(c) /\ Bare(OnBody(c, at)) = Bare(c) /\ Whole(OnBody(c, at))
<1>1. c = MkClient(c.url, c.field, c.value, c.last_was_value, c.headers, c.body)
  BY DEF ClientOK, MkClient
<1> DEFINE u == c.url \o at
           b == c.body \o at
<1>2. OnUrl(c, at) = [c EXCEPT !.url = u] /\ OnBody(c, at) = [c EXCEPT !.body = b]
  BY DEF OnUrl, OnBody
<1> HIDE DEF u, b
<1>3. OnUrl(c, at) = MkClient(u, c.field, c.value, c.last_was_value, c.headers, c.body)
      /\ OnBody(c, at) = MkClient(c.url, c.field, c.value, c.last_was_value, c.headers, b)
  BY <1>1, <1>2 DEF MkClient
<1> QED BY <1>3 DEF Bare, MkClient, Whole

LEMMA LinesInit == Init => LinesKept
<1> SUFFICES ASSUME Init PROVE LinesKept
  OBVIOUS
<1>1. stream \in Stream /\ client = NewClient /\ state = "req_line"
  BY DEF Init
<1>2. Pos = 0
  <2>1. fed = 0 /\ buf = << >> /\ Len(<< >>) = 0
    BY EmptySeq DEF Init
  <2>2. Len(buf) = 0
    BY <2>1
  <2>3. fed = 0
    BY <2>1
  <2> QED BY ONLY <2>2, <2>3 DEF Pos
<1>3. Bare(NewClient) = NewClient
  BY DEF Bare, MkClient, NewClient
<1> QED BY <1>1, <1>2, <1>3, AfterIs DEF LinesKept

\* A line that is taken is the next line of the stream; chunks and the body
\* change nothing in what the lines have made.
LEMMA LinesStep == ParserInv /\ LinesKept /\ [Next]_vars => LinesKept'
<1> SUFFICES ASSUME ParserInv, LinesKept, [Next]_vars PROVE LinesKept'
  OBVIOUS
<1> DEFINE A == ClientAfter(stream)
           at == IF Pos = 0 THEN 0 ELSE Pos - 1
           r == A[at]
<1>0. /\ stream \in Stream /\ Len(stream) \in Nat /\ fed \in Nat /\ fed <= Len(stream)
      /\ Pos \in Nat /\ Pos <= fed /\ at \in Nat /\ ClientOK(client) /\ stream' = stream
  <2>1. ClientOK(client)
    BY DEF ParserInv, Types
  <2>2. stream' = stream
    BY DEF Next, Loop, Execute, NeedMore, RequestLine, BadRequestLine, HeaderLine, HeaderLineCrash,
           LastHeader, BodyCrash, BodyData, BodyEnd, vars
  <2>3. Pos \in Nat
    BY ParserFacts
  <2> QED BY <2>1, <2>2, <2>3, ParserFacts
<1>1. /\ Bare(client) = IF state = "finished" THEN SaveHeader(r) ELSE r
      /\ pc = "idle" /\ state = "header" => LineEnds = {}
  BY DEF LinesKept
<1> HIDE DEF r, A, at
\* What is left to show when no line was taken.
<1>2. ASSUME Pos' = Pos, Bare(client') = (IF state' = "finished" THEN SaveHeader(r) ELSE r),
             pc' = "idle" /\ state' = "header" => LineEnds' = {}
      PROVE  LinesKept'
  <2>1. ClientAfter(stream')[IF Pos' = 0 THEN 0 ELSE Pos' - 1] = r
    BY <1>0, <1>2 DEF r, A, at
  <2> QED BY <1>2, <2>1 DEF LinesKept
\* And when one was.
<1>3. ASSUME Pos' \in Nat, Pos' > 0, Bare(client') = A[Pos' - 1], pc' # "idle", state' # "finished"
      PROVE  LinesKept'
  <2>1. (IF Pos' = 0 THEN 0 ELSE Pos' - 1) = Pos' - 1
    <3> DEFINE p == Pos'
    <3>1. p \in Nat /\ p > 0
      BY <1>3
    <3> HIDE DEF p
    <3>2. (IF p = 0 THEN 0 ELSE p - 1) = p - 1
      BY <3>1
    <3> QED BY <3>2 DEF p
  <2> QED BY <1>0, <1>3, <2>1 DEF LinesKept, A
<1>4. CASE \E n \in 1 .. Len(stream) : Execute(n)
  <2>1. PICK n \in 1 .. Len(stream) : Execute(n)
    BY <1>4
  <2>2. pc' = "exec" /\ client' = client /\ state' = state
    BY <2>1 DEF Execute
  <2>3. Pos' = Pos
    BY <2>1, ParserExecute
  <2> QED BY <1>1, <1>2, <2>2, <2>3
<1>5. CASE NeedMore \/ HeaderLineCrash \/ BodyCrash \/ UNCHANGED vars
  <2>1. /\ client' = client /\ state' = state /\ buf' = buf /\ fed' = fed /\ last_pos' = last_pos
        /\ pc' = "idle" /\ state' = "header" => pc = "idle" \/ LineEnds = {}
    BY <1>5 DEF NeedMore, HeaderLineCrash, BodyCrash, vars, parserVars
  <2>2. Pos' = Pos /\ LineEnds' = LineEnds
    BY <2>1 DEF Pos, LineEnds
  <2> QED BY <1>1, <1>2, <2>1, <2>2
<1>6. CASE BadRequestLine
  <2>1. /\ state = "req_line" /\ state' = state /\ buf' = buf /\ fed' = fed
        /\ client' = OnUrl(client, <<Line[2]>>) \/ client' = client
    BY <1>6 DEF BadRequestLine, parserVars
  <2>2. Pos' = Pos
    BY <2>1 DEF Pos
  <2>3. Bare(client') = Bare(client)
    BY <1>0, <2>1, BareSame
  <2> QED BY <1>1, <1>2, <2>1, <2>2, <2>3
<1>7. CASE RequestLine
  <2>1. /\ ParserInv' /\ Pos = 0 /\ HeadersTo(stream, Pos' - 1) = HeadersTo(stream, 0)
    BY <1>7, ParserRequestLine
  <2>2. /\ state = "req_line" /\ state' = "header" /\ pc' = "exec" /\ client' = OnUrl(client, <<Line[2]>>)
        /\ fed' = fed
    BY <1>7 DEF RequestLine
  <2>3. Pos' \in Nat /\ Pos' > 0 /\ Pos' <= Len(stream)
    <3>1. LineEnd(stream', Pos' - 1) /\ Len(buf') \in Nat /\ Len(buf') <= fed'
      BY <2>1, <2>2 DEF ParserInv, Position, Types
    <3>2. Pos' \in Nat /\ Pos' <= fed
      BY <1>0, <2>2, <3>1 DEF Pos
    <3>3. Pos' # 0
      BY <3>1 DEF LineEnd
    <3> QED BY <1>0, <3>2, <3>3
  <2>4. A[Pos' - 1] = A[0]
    <3> DEFINE p == Pos'
               n == p - 1
    <3>0. p \in Nat /\ p > 0 /\ p <= Len(stream)
      BY <2>3
    <3> HIDE DEF p
    <3>1. n \in Nat /\ 0 <= n /\ n <= Len(stream)
      BY <1>0, <3>0
    <3>2. HeadersTo(stream, n) \subseteq HeadersTo(stream, 0)
      BY <2>1 DEF p
    <3> HIDE DEF n
    <3>3. A[n] = A[0]
      BY <1>0, <3>1, <3>2, AfterSame DEF A
    <3> QED BY <3>3 DEF n, p
  <2>5. Bare(client') = A[0]
    BY <1>0, <1>1, <2>1, <2>2, BareSame DEF r, at
  <2> QED BY <1>3, <2>2, <2>3, <2>4, <2>5
<1>8. CASE HeaderLine
  <2>1. /\ ParserInv' /\ Pos' \in Nat /\ Pos' > Pos + 2 /\ Pos > 1 /\ Line \in Seq(Word)
        /\ HeadersTo(stream, Pos' - 1) = HeadersTo(stream, Pos - 1) \cup {Pos' - 1}
        /\ LineOf(stream, Pos' - 1) = Line
    BY <1>8, ParserHeaderLine
  <2>2. /\ state = "header" /\ state' = "header" /\ pc' = "exec" /\ client' = Header(client, Line) /\ fed' = fed
    BY <1>8 DEF HeaderLine
  <2>3. Pos' <= Len(stream)
    <3>1. Len(buf') \in Nat /\ Len(buf') <= fed'
      BY <2>1 DEF ParserInv, Types
    <3> QED BY <1>0, <2>2, <3>1 DEF Pos
  <2>4. A[Pos' - 1] = Header(A[Pos - 1], Line)
    <3> DEFINE p == Pos'
               n == p - 1
               a == Pos - 1
    <3>0. p \in Nat /\ p > Pos + 2 /\ p <= Len(stream)
      BY <2>1, <2>3
    <3> HIDE DEF p
    <3>1. n \in Nat /\ a \in Nat /\ a < n /\ n <= Len(stream)
      BY <1>0, <2>1, <3>0
    <3>2. HeadersTo(stream, n) = HeadersTo(stream, a) \cup {n} /\ LineOf(stream, n) = Line
      BY <2>1 DEF p
    <3> HIDE DEF n, a
    <3>3. A[n] = Header(A[a], Line)
      BY <1>0, <3>1, <3>2, AfterMore DEF A
    <3> QED BY <3>3 DEF n, a, p
  <2>5. Bare(client) = A[Pos - 1]
    BY <1>0, <1>1, <2>1, <2>2 DEF r, at
  <2>6. Bare(client') = Header(A[Pos - 1], Line)
    BY <1>0, <2>1, <2>2, <2>5, BareHeader
  <2> QED BY <1>0, <1>3, <2>1, <2>2, <2>4, <2>6
<1>9. CASE LastHeader
  <2>1. /\ Pos' = Pos + 2 /\ Pos > 1 /\ HeadersTo(stream, Pos' - 1) = HeadersTo(stream, Pos - 1) /\ ParserInv'
    BY <1>9, ParserLastHeader
  <2>2. /\ state = "header" /\ state' = "body" /\ pc' = "exec" /\ client' = client /\ fed' = fed
    BY <1>9 DEF LastHeader
  <2>3. Pos' <= Len(stream)
    <3>1. Len(buf') \in Nat /\ Len(buf') <= fed'
      BY <2>1 DEF ParserInv, Types
    <3> QED BY <1>0, <2>2, <3>1 DEF Pos
  <2>4. A[Pos' - 1] = A[Pos - 1]
    <3> DEFINE n == Pos' - 1
               a == Pos - 1
    <3>1. /\ n \in Nat /\ a \in Nat /\ a <= n /\ n <= Len(stream)
      BY <1>0, <2>1, <2>3
    <3>2. HeadersTo(stream, n) \subseteq HeadersTo(stream, a)
      BY <2>1
    <3> HIDE DEF n, a
    <3>3. A[n] = A[a]
      BY <1>0, <3>1, <3>2, AfterSame DEF A
    <3> QED BY <3>3 DEF n, a
  <2>5. Bare(client') = A[Pos - 1]
    BY <1>0, <1>1, <2>1, <2>2 DEF r, at
  <2> QED BY <1>0, <1>3, <2>1, <2>2, <2>4, <2>5
<1>10. CASE BodyData \/ BodyEnd
  <2>1. /\ state = "body" /\ buf' = buf /\ fed' = fed
        /\ \E c \in {client, OnBody(client, SubSeq(buf, last_pos + 1, last_pos + NBytes))} :
             \/ client' = SaveHeader(c) /\ state' = "finished"
             \/ client' = c /\ state' = state
    BY <1>10 DEF BodyData, BodyEnd, OnMessageComplete
  <2>2. PICK c \in {client, OnBody(client, SubSeq(buf, last_pos + 1, last_pos + NBytes))} :
             \/ client' = SaveHeader(c) /\ state' = "finished"
             \/ client' = c /\ state' = state
    BY <2>1
  <2>3. Whole(c) /\ Bare(c) = r
    <3>1. CASE c = client
      <4>1. Whole(client)
        BY <1>0 DEF ClientOK, MkClient, Whole
      <4> QED BY <1>1, <2>1, <3>1, <4>1
    <3>2. CASE c = OnBody(client, SubSeq(buf, last_pos + 1, last_pos + NBytes))
      BY <1>0, <1>1, <2>1, <3>2, BareSame
    <3> QED BY <3>1, <3>2
  <2>4. Pos' = Pos
    BY <2>1 DEF Pos
  <2>5. CASE client' = SaveHeader(c) /\ state' = "finished"
    BY <1>2, <2>3, <2>4, <2>5, BareSave
  <2>6. CASE client' = c /\ state' = state
    BY <1>2, <2>1, <2>3, <2>4, <2>6
  <2> QED BY <2>2, <2>5, <2>6
<1> QED BY <1>4, <1>5, <1>6, <1>7, <1>8, <1>9, <1>10 DEF Next, Loop

\* On return the reference has seen the lines the parser has taken, and no more.
LEMMA LinesGiven == ParserInv /\ LinesKept => ChunkIndependence
<1> SUFFICES ASSUME ParserInv, LinesKept, pc = "idle", state # "req_line"
             PROVE  LET ref == IF completed > 0 THEN SaveHeader(Reference) ELSE Reference
                    IN  /\ client.url = <<stream[2]>>
                        /\ client.headers = ref.headers
                        /\ client.field = ref.field /\ client.value = ref.value
  BY DEF ChunkIndependence
<1>0. /\ stream \in Stream /\ Len(stream) \in Nat /\ fed \in Nat /\ fed <= Len(stream)
      /\ Pos \in Nat /\ Pos <= fed /\ Pos + Len(buf) = fed /\ Len(buf) \in Nat
      /\ \A i \in 1 .. Len(buf) : buf[i] = stream[Pos + i]
  BY ParserFacts
<1>1. LineEnd(stream, Pos - 1) /\ client.url = <<stream[2]>>
  BY DEF ParserInv, Position, Asking
<1>2. Pos > 1 /\ fed > 0 /\ ~LineEnd(stream, Pos)
  <2>1. Pos - 1 \in 1 .. Len(stream) - 1 /\ stream[(Pos - 1) + 1] = "LF" /\ (Pos - 1) + 1 = Pos
    BY <1>0, <1>1 DEF LineEnd
  <2> QED BY <1>0, <2>1 DEF LineEnd
<1>3. state # "body"
  BY DEF ParserInv, BodyTaken
<1>4. HeadersTo(stream, fed - 1) \subseteq HeadersTo(stream, Pos - 1)
  <2>1. CASE state = "finished"
    BY <2>1, NoHeadersBehind
  <2>2. CASE state # "finished"
    <3>1. state = "header" /\ last_pos = 0
      BY <1>3, <2>2 DEF ParserInv, Types, Position
    <3>2. LineEnds = {}
      BY <3>1 DEF LinesKept
    <3>3. ASSUME NEW i \in Pos + 1 .. fed - 1, LineEnd(stream, i) PROVE FALSE
      <4> DEFINE j == i - Pos
      <4>1. j \in 1 .. Len(buf) - 1 /\ j \in 1 .. Len(buf) /\ j + 1 \in 1 .. Len(buf) /\ Pos + j = i /\ Pos + (j + 1) = i + 1
        BY <1>0
      <4>2. buf[j] = "CR" /\ buf[j + 1] = "LF"
        <5> HIDE DEF j
        <5> QED BY <1>0, <3>3, <4>1 DEF LineEnd
      <4>3. j \in LineEnds
        BY <3>1, <4>1, <4>2 DEF LineEnds
      <4> QED BY <3>2, <4>3
    <3>4. ASSUME NEW i \in HeadersTo(stream, fed - 1) PROVE i \in HeadersTo(stream, Pos - 1)
      <4>1. i \in 1 .. fed - 1 /\ LineEnd(stream, i)
        BY <3>4 DEF HeadersTo
      <4>2. i \in 1 .. Pos - 1 \/ i = Pos \/ i \in Pos + 1 .. fed - 1
        BY <1>0, <4>1
      <4>3. i \in 1 .. Pos - 1
        BY <1>2, <3>3, <4>1, <4>2
      <4> QED BY <3>4, <4>3 DEF HeadersTo
    <3> QED BY <3>4
  <2> QED BY <2>1, <2>2
<1>5. Reference = ClientAfter(stream)[Pos - 1]
  <2> DEFINE n == fed - 1
             a == Pos - 1
  <2>1. n \in Nat /\ a \in Nat /\ a <= n /\ n <= Len(stream)
    BY <1>0, <1>2
  <2>2. HeadersTo(stream, n) \subseteq HeadersTo(stream, a)
    BY <1>4
  <2>3. Reference = ClientAfter(stream)[n]
    BY <1>2, ReferenceIsAfter
  <2> HIDE DEF n, a
  <2>4. Reference = ClientAfter(stream)[a]
    BY <1>0, <2>1, <2>2, <2>3, AfterSame
  <2> QED BY <2>4 DEF a
<1>6. Bare(client) = IF state = "finished" THEN SaveHeader(Reference) ELSE Reference
  <2>1. (IF Pos = 0 THEN 0 ELSE Pos - 1) = Pos - 1
    BY <1>0, <1>2
  <2> QED BY <1>5, <2>1 DEF LinesKept
<1>7. completed > 0 <=> state = "finished"
  BY DEF ParserInv, Types
<1> DEFINE ref == IF completed > 0 THEN SaveHeader(Reference) ELSE Reference
<1>8. Bare(client) = ref
  BY <1>6, <1>7
<1> HIDE DEF ref
<1>9. client.headers = ref.headers /\ client.field = ref.field /\ client.value = ref.value
  BY <1>8 DEF Bare, MkClient
<1> QED BY <1>1, <1>9 DEF ref

(***************************************************************************)
(* RST_requestparser_execute: however the stream is cut into chunks, the   *)
(* client holds what the complete lines received so far say, for every     *)
(* stream, lines of every form included.                                   *)
(***************************************************************************)
THEOREM ChunksDoNotMatter == Spec => []ChunkIndependence
<1>1. Init => ParserInv /\ LinesKept
  BY ParserInit, LinesInit
<1>2. ParserInv /\ LinesKept /\ [Next]_vars => (ParserInv /\ LinesKept)'
  BY ParserStep, LinesStep
<1>3. ParserInv /\ LinesKept => ChunkIndependence
  BY LinesGiven
<1> QED BY <1>1, <1>2, <1>3, PTL DEF Spec

-----------------------------------------------------------------------------
(***************************************************************************)
(* Where the parser dies.  A value is appended to a null string builder    *)
(* only as long as no header line was taken.                               *)
(***************************************************************************)
Deaths ==
  /\ state \in {"req_line", "header"} /\ ValueCrashes(client) => HeadersTo(stream, Pos - 1) = {}
  /\ pc = "crashed" => CrashExplained

\* Every line that is taken leaves a name or a value behind.
LEMMA HeaderLeaves ==
  ASSUME NEW c, ClientOK(c), NEW line \in Seq(Word), ~HeaderCrashes(c, line)
  PROVE  ~ValueCrashes(Header(c, line))
<1> DEFINE h == Header(c, line)
<1>1. ClientOK(h)
  BY HeaderIs
<1>2. h.last_was_value => (h.field = None <=> h.value = None)
  BY <1>1 DEF ClientOK
<1>3. ~h.last_was_value \/ h.field # None
  <2>1. CASE Colons(line) = {}
    <3>1. ~ValueCrashes(c) /\ h = OnHeaderValue(c, line)
      BY <2>1 DEF HeaderCrashes, Header
    <3>2. c.field # None
      BY <3>1 DEF ValueCrashes, ClientOK
    <3>3. OnHeaderValue(c, line).field = c.field
      BY <3>1, OnHeaderValueIs
    <3> QED BY <3>1, <3>2, <3>3
  <2>2. CASE Colons(line) # {} /\ ~IsPair(line)
    <3>1. h = OnHeaderField(c, Name(line))
      BY <2>2 DEF Header
    <3>2. Name(line) \in Seq(Word)
      BY <2>2, NameIs
    <3>3. OnHeaderField(c, Name(line)).last_was_value = FALSE
      BY <3>2, OnHeaderFieldIs
    <3> QED BY <3>1, <3>3
  <2>3. CASE Colons(line) # {} /\ IsPair(line)
    <3> DEFINE d == OnHeaderField(c, Name(line))
    <3>1. h = OnHeaderValue(d, Value(line))
      BY <2>3 DEF Header
    <3>2. Name(line) \in Seq(Word) /\ Value(line) \in Seq(Word)
      BY <2>3, NameIs
    <3>3. ClientOK(d) /\ d.last_was_value = FALSE
      BY <3>2, OnHeaderFieldIs
    <3> HIDE DEF d
    <3>4. d.field # None /\ ~ValueCrashes(d)
      BY <3>3 DEF ClientOK, ValueCrashes
    <3>5. OnHeaderValue(d, Value(line)).field = d.field
      BY <3>2, <3>3, <3>4, OnHeaderValueIs
    <3> QED BY <3>1, <3>4, <3>5
  <2> QED BY <2>1, <2>2, <2>3
<1> HIDE DEF h
<1>4. ~ValueCrashes(h)
  BY <1>2, <1>3 DEF ValueCrashes
<1> QED BY <1>4 DEF h

\* A line without a colon that comes first.
LEMMA HeaderCrashIs ==
  ASSUME ParserInv, Deaths, HeaderLineCrash
  PROVE  CrashExplained
<1>0. /\ state = "header" /\ LineEnds # {} /\ Line # << >> /\ last_pos = 0
      /\ Colons(Line) = {} /\ HeadersTo(stream, Pos - 1) = {}
  BY ParserFacts DEF Deaths, ParserInv, Position, HeaderLineCrash, HeaderCrashes
<1>1. PICK n \in Nat :
        /\ n <= fed - 1
        /\ HeadersTo(stream, n) = HeadersTo(stream, Pos - 1) \cup {n}
        /\ LineOf(stream, n) = Line
  BY <1>0, HeaderLineAt
<1>2. fed \in Nat
  BY ParserFacts
<1>3. HeaderEnds = HeadersTo(stream, fed - 1)
  BY EndsAre
<1>4. n \in HeadersTo(stream, n)
  BY <1>1
<1>5. n \in HeaderEnds
  BY <1>1, <1>2, <1>3, <1>4 DEF HeadersTo
<1>6. ASSUME NEW j \in HeaderEnds PROVE n <= j
  <2>1. j \in Int /\ j >= 1
    BY <1>2, <1>3 DEF HeadersTo
  <2>2. CASE j <= n
    <3>1. j \in HeadersTo(stream, n)
      BY <1>1, <1>3, <2>1, <2>2 DEF HeadersTo
    <3>2. j = n
      BY <1>0, <1>1, <3>1
    <3> QED BY <3>2, <1>1
  <2> QED BY <1>1, <2>1, <2>2
<1>7. Colons(LineAt(n)) = {}
  BY <1>0, <1>1, <1>5, LinesAre
<1> QED BY <1>0, <1>5, <1>6, <1>7 DEF CrashExplained

\* A number that an int can count is not taken for a negative one.
LEMMA BodyCrashIs ==
  ASSUME ParserInv, BodyCrash
  PROVE  CrashExplained
<1> DEFINE a == Len(buf) - last_pos
           b == content_length - body_read
<1>1. a \in Nat /\ b \in Nat
  <2>1. Len(buf) \in Nat /\ last_pos \in Nat /\ last_pos <= Len(buf)
    BY ParserFacts
  <2>2. content_length \in Nat /\ body_read \in Nat /\ body_read <= content_length
    BY DEF ParserInv, Types, BodyTaken
  <2> QED BY <2>1, <2>2
<1>2. state = "body" /\ RST_min(ToInt(a), ToInt(b)) < 0
  BY DEF BodyCrash, NBytes
<1> HIDE DEF a, b
<1>3. IntMax \in Nat
  BY ParserAssumption
<1>4. ASSUME NEW x \in Nat, x <= IntMax PROVE ToInt(x) \in Nat
  <2> DEFINE M == 2 * (IntMax + 1)
  <2>1. M \in Nat /\ x \in 0 .. M - 1 /\ M > 0
    BY <1>3, <1>4
  <2>2. ToInt(x) = IF x % M > IntMax THEN (x % M) - M ELSE x % M
    BY DEF ToInt
  <2> HIDE DEF M
  <2>3. x % M = x
    BY <2>1
  <2>4. ToInt(x) = x
    BY <1>3, <1>4, <2>2, <2>3
  <2> QED BY <2>4
<1>5. a > IntMax \/ b > IntMax
  <2> SUFFICES ASSUME a <= IntMax, b <= IntMax PROVE FALSE
    BY <1>1, <1>3
  <2>1. ToInt(a) \in Nat /\ ToInt(b) \in Nat
    BY <1>1, <1>4
  <2> DEFINE x == ToInt(a)
             y == ToInt(b)
  <2>2. x \in Nat /\ y \in Nat /\ RST_min(x, y) < 0
    BY <1>2, <2>1
  <2> HIDE DEF x, y
  <2> QED BY <2>2 DEF RST_min
<1> QED BY <1>2, <1>5 DEF CrashExplained, a, b

LEMMA DeathsInit == Init => Deaths
<1> SUFFICES ASSUME Init PROVE Deaths
  OBVIOUS
<1>1. pc = "idle" /\ fed = 0 /\ buf = << >>
  BY DEF Init
<1>2. Pos = 0
  <2>1. Len(buf) = 0 /\ fed = 0
    BY <1>1, EmptySeq
  <2> QED BY ONLY <2>1 DEF Pos
<1>3. HeadersTo(stream, Pos - 1) = {}
  BY <1>2 DEF HeadersTo
<1> QED BY <1>1, <1>3 DEF Deaths

LEMMA DeathsStep == ParserInv /\ Deaths /\ [Next]_vars => Deaths'
<1> SUFFICES ASSUME ParserInv, Deaths, [Next]_vars PROVE Deaths'
  OBVIOUS
\* What is left to show when no line was taken.
<1>1. ASSUME Pos' = Pos, stream' = stream, state' = state,
             ValueCrashes(client') => ValueCrashes(client), pc' # "crashed"
      PROVE  Deaths'
  BY <1>1 DEF Deaths, ValueCrashes
\* And when the parser died, or is dead.
<1>2. ASSUME UNCHANGED <<stream, fed, state, buf, last_pos, content_length, body_read, client>>,
             pc' = "crashed" => CrashExplained
      PROVE  Deaths'
  <2>1. Pos' = Pos
    BY <1>2 DEF Pos
  <2>2. CrashExplained' <=> CrashExplained
    BY <1>2 DEF CrashExplained, HeaderEnds, Ends, LineAt, PrevEnd
  <2>3. HeadersTo(stream', Pos' - 1) = HeadersTo(stream, Pos - 1)
    BY <1>2, <2>1
  <2> QED BY <1>2, <2>1, <2>2, <2>3 DEF Deaths, ValueCrashes
<1>3. CASE \E k \in 1 .. Len(stream) : Execute(k)
  <2>1. PICK k \in 1 .. Len(stream) : Execute(k)
    BY <1>3
  <2>2. pc' = "exec" /\ UNCHANGED <<stream, state, client>>
    BY <2>1 DEF Execute
  <2>3. Pos' = Pos
    BY <2>1, ParserExecute
  <2> QED BY <1>1, <2>2, <2>3
<1>4. CASE NeedMore
  BY <1>2, <1>4 DEF NeedMore, parserVars
<1>5. CASE HeaderLineCrash
  <2>1. CrashExplained
    BY <1>5, HeaderCrashIs
  <2> QED BY <1>2, <1>5, <2>1 DEF HeaderLineCrash, parserVars
<1>6. CASE BodyCrash
  <2>1. CrashExplained
    BY <1>6, BodyCrashIs
  <2> QED BY <1>2, <1>6, <2>1 DEF BodyCrash, parserVars
<1>7. CASE BadRequestLine
  <2>1. /\ pc' = "idle" /\ UNCHANGED <<stream, fed, state, buf>>
        /\ client' = IF HasUrl(Line) THEN OnUrl(client, <<Line[2]>>) ELSE client
    BY <1>7 DEF BadRequestLine, parserVars
  <2>2. Pos' = Pos
    BY <2>1 DEF Pos
  <2>3. ValueCrashes(client') => ValueCrashes(client)
    BY <2>1 DEF ValueCrashes, OnUrl
  <2> QED BY <1>1, <2>1, <2>2, <2>3
<1>8. CASE RequestLine
  <2>1. HeadersTo(stream, Pos' - 1) = HeadersTo(stream, 0)
    BY <1>8, ParserRequestLine
  <2>2. pc' # "crashed" /\ stream' = stream
    BY <1>8 DEF RequestLine
  <2>3. HeadersTo(stream, 0) = {}
    BY DEF HeadersTo
  <2> QED BY <2>1, <2>2, <2>3 DEF Deaths
<1>9. CASE HeaderLine
  <2>1. pc' # "crashed" /\ client' = Header(client, Line) /\ ~HeaderCrashes(client, Line)
    BY <1>9 DEF HeaderLine
  <2>2. ClientOK(client) /\ Line \in Seq(Word)
    BY <1>9, ParserHeaderLine DEF ParserInv, Types
  <2>3. ~ValueCrashes(client')
    BY <2>1, <2>2, HeaderLeaves
  <2> QED BY <2>1, <2>3 DEF Deaths, ValueCrashes
<1>10. CASE LastHeader
  <2>1. state' = "body" /\ pc' # "crashed"
    BY <1>10 DEF LastHeader
  <2> QED BY <2>1 DEF Deaths
<1>11. CASE BodyData \/ BodyEnd
  <2>1. state' \in {"body", "finished"} /\ pc' # "crashed"
    BY <1>11 DEF BodyData, BodyEnd, OnMessageComplete
  <2> QED BY <2>1 DEF Deaths
<1>12. CASE UNCHANGED vars
  BY <1>2, <1>12 DEF Deaths, vars, parserVars
<1> QED BY <1>3, <1>4, <1>5, <1>6, <1>7, <1>8, <1>9, <1>10, <1>11, <1>12 DEF Next, Loop

-----------------------------------------------------------------------------
(***************************************************************************)
(* The parameters of a query string.                                       *)
(***************************************************************************)
\* The parameter at s reaches to the character before a.
Reaches(q, s, a) ==
  /\ s \in 1 .. Len(q) + 1 /\ a \in s .. Len(q) + 1
  /\ a = Len(q) + 1 \/ q[a] = "&"
  /\ \A n \in s .. a - 1 : q[n] # "&"

LEMMA PartIs ==
  ASSUME NEW q \in Seq(STRING), NEW s, NEW a, Reaches(q, s, a)
  PROVE  /\ PartAt(q, s) = SubSeq(q, s, a - 1) /\ PartAt(q, s) \in Seq(STRING) /\ Len(PartAt(q, s)) = a - s
         /\ \A n \in 1 .. a - s : PartAt(q, s)[n] = q[s + n - 1]
         /\ Equals(PartAt(q, s)) = {n \in 1 .. a - s : q[s + n - 1] = "="}
<1>0. Len(q) \in Nat /\ s \in 1 .. Len(q) + 1 /\ a \in s .. Len(q) + 1 /\ s \in Int /\ a \in Int
  BY DEF Reaches
<1> DEFINE S == {i \in s .. Len(q) : q[i] = "&"} \cup {Len(q) + 1}
<1>1. S \subseteq Int /\ a \in S /\ \A j \in S : a <= j
  <2>1. a \in S
    BY <1>0 DEF Reaches
  <2>2. ASSUME NEW j \in S PROVE a <= j
    BY <1>0 DEF Reaches
  <2>3. S \subseteq Int
    BY <1>0
  <2> QED BY <2>1, <2>2, <2>3
<1>2. FirstOf(S) = a
  <2> HIDE DEF S
  <2> QED BY <1>1, FirstIs
<1>3. PartAt(q, s) = SubSeq(q, s, a - 1)
  BY <1>2 DEF PartAt
<1> HIDE DEF S
<1> DEFINE b == a - 1
<1>4. b \in Int /\ b <= Len(q) /\ b - s + 1 = a - s /\ (s <= b \/ a - s = 0) /\ \A i \in s .. b : q[i] \in STRING
  BY <1>0
<1> HIDE DEF b
<1>5. /\ SubSeq(q, s, b) \in Seq(STRING) /\ Len(SubSeq(q, s, b)) = IF s <= b THEN b - s + 1 ELSE 0
      /\ \A i \in 1 .. b - s + 1 : SubSeq(q, s, b)[i] = q[s + i - 1]
  BY <1>0, <1>4, SubSeqProperties
<1> DEFINE p == PartAt(q, s)
<1>6. p \in Seq(STRING) /\ Len(p) = a - s /\ \A n \in 1 .. a - s : p[n] = q[s + n - 1]
  BY <1>0, <1>3, <1>4, <1>5 DEF b
<1> HIDE DEF p
<1>7. DOMAIN p = 1 .. a - s
  BY <1>6
<1>8. Equals(p) = {n \in 1 .. a - s : q[s + n - 1] = "="}
  BY <1>6, <1>7 DEF Equals
<1> QED BY <1>3, <1>6, <1>8 DEF p

LEMMA StartsAre ==
  ASSUME NEW q \in Seq(STRING)
  PROVE  /\ Starts(q) \subseteq 1 .. Len(q) + 1 /\ 1 \in Starts(q)
         /\ \A s \in Starts(q) : s = 1 \/ (s - 1 \in 1 .. Len(q) /\ q[s - 1] = "&")
         /\ \A n \in 1 .. Len(q) : q[n] = "&" => n + 1 \in Starts(q)
<1>0. Len(q) \in Nat /\ DOMAIN q = 1 .. Len(q)
  OBVIOUS
<1> DEFINE A == {i \in DOMAIN q : q[i] = "&"}
<1>1. \A i : i \in A <=> i \in 1 .. Len(q) /\ q[i] = "&"
  BY <1>0
<1>2. Starts(q) = {1} \cup {n + 1 : n \in A}
  BY DEF Starts
<1> HIDE DEF A
<1>3. ASSUME NEW s \in Starts(q), s # 1 PROVE s \in 1 .. Len(q) + 1 /\ s - 1 \in 1 .. Len(q) /\ q[s - 1] = "&"
  <2>1. PICK n \in A : s = n + 1
    BY <1>2, <1>3
  <2>2. n \in 1 .. Len(q) /\ q[n] = "&" /\ s - 1 = n
    BY <1>1, <2>1
  <2> QED BY <1>0, <2>1, <2>2
<1>4. 1 \in 1 .. Len(q) + 1
  BY <1>0
<1> QED BY <1>1, <1>2, <1>3, <1>4

LEMMA PartReaches ==
  ASSUME NEW q \in Seq(STRING), NEW s \in Starts(q)
  PROVE  \E a : Reaches(q, s, a)
<1>0. Len(q) \in Nat /\ s \in 1 .. Len(q) + 1
  BY StartsAre
<1> DEFINE S == {i \in s .. Len(q) : q[i] = "&"} \cup {Len(q) + 1}
<1>1. S \subseteq Nat /\ S # {} /\ \A i \in S : i \in s .. Len(q) + 1 /\ (i = Len(q) + 1 \/ q[i] = "&")
  BY <1>0
<1>2. \A n \in s .. Len(q) : q[n] = "&" => n \in S
  OBVIOUS
<1> HIDE DEF S
<1>3. FirstOf(S) \in S /\ \A j \in S : FirstOf(S) <= j
  BY <1>1, FirstExists
<1>4. PICK a \in S : \A j \in S : a <= j
  BY <1>3
<1>5. a \in s .. Len(q) + 1 /\ (a = Len(q) + 1 \/ q[a] = "&")
  BY <1>1
<1>6. ASSUME NEW n \in s .. a - 1, q[n] = "&" PROVE FALSE
  <2>1. n \in S /\ n < a
    BY <1>0, <1>2, <1>5, <1>6
  <2>2. a <= n
    BY <1>4, <2>1
  <2> QED BY <1>5, <2>1, <2>2
<1>7. Reaches(q, s, a)
  BY <1>0, <1>5, <1>6 DEF Reaches
<1> QED BY <1>7

\* The parameter the i-th character belongs to, and the ones before it.
Current(q, i, c) == c \in Starts(q) /\ c <= i + 1 /\ \A n \in c .. i : q[n] # "&"

LEMMA CurrentIs ==
  ASSUME NEW q \in Seq(STRING), NEW i \in 0 .. Len(q), NEW c, Current(q, i, c)
  PROVE  /\ c \in 1 .. i + 1
         /\ PartsTo(q, i) = {s \in Starts(q) : s < c}
         /\ i = Len(q) => Starts(q) = PartsTo(q, i) \cup {c}
         /\ i < Len(q) /\ q[i + 1] # "&" => PartsTo(q, i + 1) = PartsTo(q, i)
         /\ i < Len(q) /\ q[i + 1] = "&" => PartsTo(q, i + 1) = PartsTo(q, i) \cup {c}
         /\ i = Len(q) \/ q[i + 1] = "&" => Reaches(q, c, i + 1)
<1>0. Len(q) \in Nat /\ i \in Nat /\ i <= Len(q) /\ c \in Starts(q) /\ c \in 1 .. i + 1 /\ Starts(q) \subseteq Int
      /\ \A s \in Starts(q) : s >= 1 /\ s <= Len(q) + 1
  BY StartsAre DEF Current
<1>1. \A n \in c .. i : q[n] # "&"
  BY DEF Current
<1>2. \A s \in Starts(q) : s = 1 \/ (s - 1 \in 1 .. Len(q) /\ q[s - 1] = "&")
  BY StartsAre
<1>3. ASSUME NEW s \in Starts(q), s < c PROVE s \in PartsTo(q, i)
  <2>1. c - 1 \in s .. i /\ q[c - 1] = "&"
    BY <1>0, <1>2, <1>3
  <2> QED BY <2>1 DEF PartsTo
<1>4. ASSUME NEW s \in PartsTo(q, i) PROVE s \in Starts(q) /\ s < c
  <2>1. PICK a \in s .. i : q[a] = "&"
    BY <1>4 DEF PartsTo
  <2>2. s \in Starts(q) /\ s \in Int
    BY <1>0, <1>4 DEF PartsTo
  <2> QED BY <1>0, <1>1, <2>1, <2>2
<1>5. PartsTo(q, i) = {s \in Starts(q) : s < c}
  BY <1>3, <1>4
<1>6. ASSUME NEW s \in Starts(q), s > c, s <= i + 1 PROVE FALSE
  <2>1. s - 1 \in c .. i /\ q[s - 1] = "&"
    BY <1>0, <1>2, <1>6
  <2> QED BY <1>1, <2>1
<1>7. i = Len(q) => Starts(q) = PartsTo(q, i) \cup {c}
  BY <1>0, <1>5, <1>6
<1>8. ASSUME i < Len(q), q[i + 1] # "&" PROVE PartsTo(q, i + 1) = PartsTo(q, i)
  <2>1. ASSUME NEW s \in Starts(q)
        PROVE  (\E a \in s .. i + 1 : q[a] = "&") <=> (\E a \in s .. i : q[a] = "&")
    <3>1. ASSUME NEW a \in s .. i + 1, q[a] = "&" PROVE a \in s .. i
      BY <1>0, <1>8, <3>1
    <3>2. \A a \in s .. i : a \in s .. i + 1
      BY <1>0
    <3> QED BY <3>1, <3>2
  <2> QED BY <2>1 DEF PartsTo
<1>9. ASSUME i < Len(q), q[i + 1] = "&" PROVE PartsTo(q, i + 1) = PartsTo(q, i) \cup {c}
  <2>1. ASSUME NEW s \in PartsTo(q, i + 1) PROVE s \in PartsTo(q, i) \cup {c}
    <3>1. s \in Starts(q) /\ s <= i + 1
      BY <1>0, <2>1 DEF PartsTo
    <3> QED BY <1>0, <1>3, <1>6, <3>1
  <2>2. ASSUME NEW s \in PartsTo(q, i) \cup {c} PROVE s \in PartsTo(q, i + 1)
    <3>1. s \in Starts(q) /\ i + 1 \in s .. i + 1
      BY <1>0, <1>4, <2>2
    <3> QED BY <1>9, <3>1 DEF PartsTo
  <2> QED BY <2>1, <2>2
<1>10. ASSUME i = Len(q) \/ q[i + 1] = "&" PROVE Reaches(q, c, i + 1)
  <2>1. c \in 1 .. Len(q) + 1
    BY <1>0
  <2>2. i + 1 \in c .. Len(q) + 1 /\ (i + 1 = Len(q) + 1 \/ q[i + 1] = "&")
    BY <1>0, <1>10
  <2>3. (i + 1) - 1 = i
    BY <1>0
  <2> QED BY <1>1, <2>1, <2>2, <2>3 DEF Reaches
<1> QED BY <1>0, <1>5, <1>7, <1>8, <1>9, <1>10

LEMMA QueryCurrent ==
  ASSUME NEW q \in Seq(STRING), NEW w, QueryState(q, w)
  PROVE  \E c : /\ Current(q, w.i, c) /\ c \in Int
                /\ ~w.current_is_value => w.key = None /\ Plain(q, c, w.i)
                /\ w.current_is_value =>
                     /\ w.started_from \in c .. w.i /\ q[w.started_from] = "="
                     /\ Plain(q, c, w.started_from - 1) /\ Plain(q, w.started_from + 1, w.i)
                     /\ w.cur_len = w.i - w.started_from
                     /\ w.key = SubSeq(q, c, w.started_from - 1) \o (IF c = 1 THEN << >> ELSE <<"=">>)
<1>0. Len(q) \in Nat /\ w.i \in Nat /\ w.i <= Len(q) /\ w.current_is_value \in BOOLEAN /\ Starts(q) \subseteq Nat
  BY StartsAre DEF QueryState
<1>1. CASE ~w.current_is_value
  <2> DEFINE c == w.started_from + 1
  <2>1. c \in Starts(q) /\ Plain(q, c, w.i) /\ w.key = None /\ w.started_from \in 0 .. w.i
    BY <1>1 DEF QueryState
  <2>2. c <= w.i + 1 /\ c \in Int
    BY <1>0, <2>1
  <2> HIDE DEF c
  <2>3. Current(q, w.i, c)
    BY <2>1, <2>2 DEF Current, Plain
  <2> QED BY <1>1, <2>1, <2>2, <2>3
<1>2. CASE w.current_is_value
  <2>1. /\ w.started_from \in 1 .. w.i /\ q[w.started_from] = "=" /\ Plain(q, w.started_from + 1, w.i)
        /\ w.cur_len = w.i - w.started_from
    BY <1>2 DEF QueryState
  <2>2. PICK c \in Starts(q) :
           /\ c <= w.started_from /\ Plain(q, c, w.started_from - 1)
           /\ w.key = SubSeq(q, c, w.started_from - 1) \o (IF c = 1 THEN << >> ELSE <<"=">>)
    BY <1>2 DEF QueryState
  <2>3. c \in Nat /\ c <= w.i + 1 /\ w.started_from \in c .. w.i
    BY <1>0, <2>1, <2>2
  <2>4. ASSUME NEW n \in c .. w.i PROVE q[n] # "&"
    <3>1. n \in c .. w.started_from - 1 \/ n = w.started_from \/ n \in w.started_from + 1 .. w.i
      BY <1>0, <2>1, <2>3
    <3> QED BY <2>1, <2>2, <3>1 DEF Plain
  <2>5. Current(q, w.i, c)
    BY <2>3, <2>4 DEF Current
  <2> WITNESS c
  <2> QED BY <1>2, <2>1, <2>2, <2>3, <2>5
<1> QED BY <1>0, <1>1, <1>2

MkQuery(i, v, s, n, k) == [i |-> i, current_is_value |-> v, started_from |-> s, cur_len |-> n, key |-> k]

LEMMA QueryAtEqual ==
  ASSUME NEW q \in Seq(STRING), NEW w, QueryState(q, w), w.i < Len(q), q[w.i + 1] = "=", ~w.current_is_value
  PROVE  QueryState(q, MkQuery(w.i + 1, TRUE, w.i + 1, 0, SubSeq(q, w.started_from + 1, w.started_from + w.cur_len)))
<1> DEFINE i == w.i
<1> DEFINE f == w.started_from
<1> DEFINE k == SubSeq(q, f + 1, f + w.cur_len)
<1>0. /\ Len(q) \in Nat /\ i \in Nat /\ i < Len(q) /\ f \in 0 .. i /\ f + 1 \in Starts(q) /\ Plain(q, f + 1, i)
      /\ w.cur_len = i - f + (IF f = 0 THEN 0 ELSE 1)
  BY DEF QueryState
<1> HIDE DEF i, f
<1>1. k = SubSeq(q, f + 1, i) \o (IF f + 1 = 1 THEN << >> ELSE <<"=">>)
  <2>1. CASE f = 0
    <3>1. f + w.cur_len = i /\ f + 1 = 1
      BY <1>0, <2>1
    <3>2. \A n \in 1 .. i : q[n] \in STRING
      BY <1>0
    <3>3. SubSeq(q, 1, i) \in Seq(STRING)
      BY <1>0, <3>2, SubSeqProperties
    <3>4. SubSeq(q, 1, i) \o << >> = SubSeq(q, 1, i)
      BY <3>3, ConcatEmptySeq
    <3> QED BY <2>1, <3>1, <3>4
  <2>2. CASE f # 0
    <3> DEFINE n == i + 1
    <3> DEFINE m == f + 1
    <3>1. f + w.cur_len = n /\ m # 1 /\ n - 1 = i /\ m \in 1 .. Len(q) /\ n \in m .. Len(q) /\ q[n] = "="
      BY <1>0, <2>2 DEF i
    <3> HIDE DEF m, n
    <3>2. SubSeq(q, m, n) = SubSeq(q, m, n - 1) \o <<q[n]>>
      BY <3>1, SubSeqRecursiveSecond
    <3> QED BY <3>1, <3>2 DEF m
  <2> QED BY <2>1, <2>2
<1> HIDE DEF k
<1> DEFINE v == MkQuery(i + 1, TRUE, i + 1, 0, k)
<1>2. v.i = i + 1 /\ v.current_is_value = TRUE /\ v.started_from = i + 1 /\ v.cur_len = 0 /\ v.key = k
      /\ v = [i |-> v.i, current_is_value |-> v.current_is_value, started_from |-> v.started_from,
              cur_len |-> v.cur_len, key |-> v.key]
  BY DEF MkQuery
<1> HIDE DEF v
<1>3. i + 1 \in 0 .. Len(q) /\ i + 1 \in 1 .. i + 1 /\ 0 = (i + 1) - (i + 1) /\ (i + 1) - 1 = i /\ f + 1 <= i + 1
  BY <1>0
<1>4. Plain(q, (i + 1) + 1, i + 1)
  BY <1>0 DEF Plain
<1>5. q[i + 1] = "="
  BY DEF i
<1>6. QueryState(q, v)
  BY <1>0, <1>1, <1>2, <1>3, <1>4, <1>5 DEF QueryState
<1> QED BY <1>6 DEF v, k, i, f

LEMMA QueryAtOther ==
  ASSUME NEW q \in Seq(STRING), NEW w, QueryState(q, w), w.i < Len(q), q[w.i + 1] \notin {"=", "&"}
  PROVE  QueryState(q, [w EXCEPT !.i = @ + 1, !.cur_len = @ + 1])
<1> DEFINE i == w.i
<1> DEFINE f == w.started_from
<1> DEFINE v == [w EXCEPT !.i = @ + 1, !.cur_len = @ + 1]
<1>0. Len(q) \in Nat /\ i \in Nat /\ i < Len(q) /\ i + 1 \in 0 .. Len(q) /\ w.current_is_value \in BOOLEAN
  BY DEF QueryState
<1>1. v.i = i + 1 /\ v.current_is_value = w.current_is_value /\ v.started_from = f /\ v.cur_len = w.cur_len + 1
      /\ v.key = w.key
      /\ v = [i |-> v.i, current_is_value |-> v.current_is_value, started_from |-> v.started_from,
              cur_len |-> v.cur_len, key |-> v.key]
  <2>1. w = [i |-> w.i, current_is_value |-> w.current_is_value, started_from |-> w.started_from,
             cur_len |-> w.cur_len, key |-> w.key]
    BY DEF QueryState
  <2>2. v = MkQuery(w.i + 1, w.current_is_value, w.started_from, w.cur_len + 1, w.key)
    <3> DEFINE a == w.i + 1
    <3> DEFINE b == w.cur_len + 1
    <3>1. v = [w EXCEPT !.i = a, !.cur_len = b]
      OBVIOUS
    <3> HIDE DEF a, b, v
    <3>2. v = MkQuery(a, w.current_is_value, w.started_from, b, w.key)
      BY <2>1, <3>1 DEF MkQuery
    <3> QED BY <3>2 DEF a, b
  <2> HIDE DEF v
  <2> QED BY <2>2 DEF MkQuery
<1> HIDE DEF v
<1>2. ASSUME NEW m \in Nat, Plain(q, m, i) PROVE Plain(q, m, i + 1)
  <2>1. \A n \in m .. i + 1 : n \in m .. i \/ n = i + 1
    BY <1>0
  <2> QED BY <1>2, <2>1 DEF Plain
<1>3. ASSUME ~w.current_is_value PROVE QueryState(q, v)
  <2>1. /\ f \in 0 .. i /\ f + 1 \in Starts(q) /\ Plain(q, f + 1, i)
        /\ w.cur_len = i - f + (IF f = 0 THEN 0 ELSE 1) /\ w.key = None
    BY <1>3 DEF QueryState
  <2> HIDE DEF i, f
  <2>2. f \in 0 .. i + 1 /\ Plain(q, f + 1, i + 1) /\ w.cur_len + 1 = (i + 1) - f + (IF f = 0 THEN 0 ELSE 1)
    BY <1>0, <1>2, <2>1
  <2> QED BY <1>0, <1>1, <1>3, <2>1, <2>2 DEF QueryState
<1>4. ASSUME w.current_is_value PROVE QueryState(q, v)
  <2>1. /\ f \in 1 .. i /\ q[f] = "=" /\ Plain(q, f + 1, i) /\ w.cur_len = i - f
        /\ \E s \in Starts(q) :
             /\ s <= f /\ Plain(q, s, f - 1)
             /\ w.key = SubSeq(q, s, f - 1) \o (IF s = 1 THEN << >> ELSE <<"=">>)
    BY <1>4 DEF QueryState
  <2> HIDE DEF i, f
  <2>2. f \in 1 .. i + 1 /\ Plain(q, f + 1, i + 1) /\ w.cur_len + 1 = (i + 1) - f
    BY <1>0, <1>2, <2>1
  <2> QED BY <1>0, <1>1, <1>4, <2>1, <2>2 DEF QueryState
<1> QED BY <1>0, <1>3, <1>4 DEF v

LEMMA QueryAtAmpersand ==
  ASSUME NEW q \in Seq(STRING), NEW i \in Nat, i < Len(q), q[i + 1] = "&"
  PROVE  QueryState(q, MkQuery(i + 1, FALSE, i + 1, 1, None))
<1>0. Len(q) \in Nat /\ i + 1 \in 1 .. Len(q) /\ (i + 1) + 1 \in Starts(q)
  <2>1. Len(q) \in Nat /\ i + 1 \in 1 .. Len(q)
    OBVIOUS
  <2> QED BY <2>1, StartsAre
<1> DEFINE v == MkQuery(i + 1, FALSE, i + 1, 1, None)
<1>2. v.i = i + 1 /\ v.current_is_value = FALSE /\ v.started_from = i + 1 /\ v.cur_len = 1 /\ v.key = None
      /\ v = [i |-> v.i, current_is_value |-> v.current_is_value, started_from |-> v.started_from,
              cur_len |-> v.cur_len, key |-> v.key]
  BY DEF MkQuery
<1> HIDE DEF v
<1>3. i + 1 \in 0 .. Len(q) /\ i + 1 \in 0 .. i + 1 /\ 1 = (i + 1) - (i + 1) + (IF i + 1 = 0 THEN 0 ELSE 1)
  BY <1>0
<1>4. Plain(q, (i + 1) + 1, i + 1)
  BY DEF Plain
<1>5. QueryState(q, v)
  BY <1>0, <1>2, <1>3, <1>4 DEF QueryState
<1> QED BY <1>5 DEF v

\* What the parameter that ends at the i-th character says.
LEMMA PartRead ==
  ASSUME NEW q \in Seq(STRING), NEW w, QueryState(q, w), NEW c, Current(q, w.i, c), Reaches(q, c, w.i + 1),
         ~w.current_is_value => Plain(q, c, w.i),
         w.current_is_value =>
           /\ w.started_from \in c .. w.i /\ q[w.started_from] = "="
           /\ Plain(q, c, w.started_from - 1) /\ Plain(q, w.started_from + 1, w.i)
           /\ w.cur_len = w.i - w.started_from
           /\ w.key = SubSeq(q, c, w.started_from - 1) \o (IF c = 1 THEN << >> ELSE <<"=">>)
  PROVE  /\ \A m, n \in Equals(PartAt(q, c)) : m = n
         /\ Named(q, c) <=> w.current_is_value
         /\ w.current_is_value =>
              /\ w.key = KeyAt(q, c) /\ w.key \in Seq(STRING)
              /\ SubSeq(q, w.started_from + 1, w.started_from + w.cur_len) = ValueAt(q, c)
              /\ ValueAt(q, c) \in Seq(STRING)
<1> DEFINE i == w.i
<1> DEFINE f == w.started_from
<1> DEFINE p == PartAt(q, c)
<1>0. /\ Len(q) \in Nat /\ i \in Nat /\ i <= Len(q) /\ c \in 1 .. i + 1 /\ c \in Int /\ w.current_is_value \in BOOLEAN
  BY CurrentIs DEF QueryState
<1>1. /\ p \in Seq(STRING) /\ Len(p) = (i + 1) - c
      /\ \A n \in 1 .. (i + 1) - c : p[n] = q[c + n - 1]
      /\ Equals(p) = {n \in 1 .. (i + 1) - c : q[c + n - 1] = "="}
  BY PartIs
<1> HIDE DEF p
<1>2. CASE ~w.current_is_value
  <2>1. Equals(p) = {}
    <3>1. Plain(q, c, i)
      BY <1>2
    <3>2. \A n \in 1 .. (i + 1) - c : c + n - 1 \in c .. i
      BY <1>0
    <3> QED BY <1>1, <3>1, <3>2 DEF Plain
  <2> QED BY <1>2, <2>1 DEF Named, p
<1>3. CASE w.current_is_value
  <2>1. /\ f \in c .. i /\ q[f] = "=" /\ Plain(q, c, f - 1) /\ Plain(q, f + 1, i) /\ w.cur_len = i - f
        /\ w.key = SubSeq(q, c, f - 1) \o (IF c = 1 THEN << >> ELSE <<"=">>)
    BY <1>3
  <2> HIDE DEF i, f
  <2> DEFINE e == f - c + 1
  <2>2. e \in 1 .. (i + 1) - c /\ e \in Int /\ c + e - 1 = f /\ f \in Int
    BY <1>0, <2>1
  <2>3. Equals(p) = {e}
    <3>1. e \in Equals(p)
      <4> HIDE DEF e
      <4> QED BY <1>1, <2>1, <2>2
    <3>2. ASSUME NEW n \in Equals(p) PROVE n = e
      <4>1. n \in 1 .. (i + 1) - c /\ q[c + n - 1] = "="
        BY <1>1
      <4>2. c + n - 1 \in c .. f - 1 \/ c + n - 1 = f \/ c + n - 1 \in f + 1 .. i
        BY <1>0, <2>1, <4>1
      <4>3. c + n - 1 = f
        BY <2>1, <4>1, <4>2 DEF Plain
      <4> QED BY <1>0, <2>1, <4>1, <4>3
    <3> QED BY <3>1, <3>2
  <2>4. FirstOf(Equals(p)) = e
    <3> HIDE DEF e
    <3>1. Equals(p) \subseteq Int /\ e \in Equals(p) /\ \A j \in Equals(p) : e <= j
      BY <2>2, <2>3
    <3> QED BY <3>1, FirstIs
  <2> DEFINE d == c - 1
  <2>5. /\ d \in Nat /\ d + Len(p) <= Len(q) /\ \A n \in 1 .. Len(p) : p[n] = q[d + n]
    <3>1. \A n \in 1 .. (i + 1) - c : c + n - 1 = (c - 1) + n
      BY <1>0
    <3> QED BY <1>0, <1>1, <3>1
  <2>6. e - 1 \in 0 .. Len(p) /\ e + 1 \in 1 .. Len(p) + 1 /\ Len(p) \in Nat
        /\ d + 1 = c /\ d + (e - 1) = f - 1 /\ d + (e + 1) = f + 1 /\ d + Len(p) = i
    BY <1>0, <1>1, <2>1, <2>2
  <2> HIDE DEF d
  <2>7. SubSeq(p, 1, e - 1) = SubSeq(q, c, f - 1) /\ SubSeq(p, 1, e - 1) \in Seq(STRING)
    <3> DEFINE m == e - 1
    <3>1. m \in 0 .. Len(p) /\ 1 \in 1 .. Len(p) + 1
      BY <2>6
    <3> HIDE DEF m
    <3>2. SubSeq(p, 1, m) = SubSeq(q, d + 1, d + m) /\ SubSeq(p, 1, m) \in Seq(STRING)
      BY <1>1, <2>5, <3>1, SliceOf
    <3> QED BY <2>6, <3>2 DEF m
  <2>8. SubSeq(p, e + 1, Len(p)) = SubSeq(q, f + 1, i) /\ SubSeq(p, e + 1, Len(p)) \in Seq(STRING)
    <3> DEFINE m == e + 1
    <3>1. m \in 1 .. Len(p) + 1 /\ Len(p) \in 0 .. Len(p)
      BY <2>6
    <3> HIDE DEF m
    <3>2. SubSeq(p, m, Len(p)) = SubSeq(q, d + m, d + Len(p)) /\ SubSeq(p, m, Len(p)) \in Seq(STRING)
      BY SMTT(30), <1>1, <2>5, <3>1, SliceOf
    <3> QED BY <2>6, <3>2 DEF m
  <2>9. f + w.cur_len = i
    BY <1>0, <2>1
  <2>10. KeyAt(q, c) = SubSeq(p, 1, e - 1) \o (IF c = 1 THEN << >> ELSE <<"=">>) /\ ValueAt(q, c) = SubSeq(p, e + 1, Len(p))
    BY <2>4 DEF KeyAt, KeyOf, ValueAt, ValueOf, p
  <2>11. w.key = KeyAt(q, c) /\ SubSeq(q, f + 1, f + w.cur_len) = ValueAt(q, c) /\ ValueAt(q, c) \in Seq(STRING)
    BY <2>1, <2>7, <2>8, <2>9, <2>10
  <2>12. w.key \in Seq(STRING)
    <3>1. "=" \in STRING
      <4>1. f \in 1 .. Len(q)
        BY <1>0, <2>1
      <4>2. q[f] \in STRING
        BY <4>1
      <4> QED BY <2>1, <4>2
    <3>2. << >> \in Seq(STRING) /\ <<"=">> \in Seq(STRING)
      BY <3>1
    <3> DEFINE r == IF c = 1 THEN << >> ELSE <<"=">>
    <3> DEFINE t == SubSeq(q, c, f - 1)
    <3>3. r \in Seq(STRING) /\ t \in Seq(STRING) /\ w.key = t \o r
      BY <2>1, <2>7, <3>2
    <3> HIDE DEF r, t
    <3> QED BY <3>3, ConcatProperties
  <2>13. Named(q, c) /\ \A m, n \in Equals(p) : m = n
    BY <2>3 DEF Named, p
  <2> QED BY <1>3, <2>11, <2>12, <2>13 DEF p, f
<1> QED BY <1>0, <1>2, <1>3

\* RST_map_insert of one more parameter.
Inserted(ps, k, v) == IF Contains(ps, k) THEN ps ELSE Append(ps, <<k, v>>)

LEMMA InsertRead ==
  ASSUME NEW q, NEW ps, NEW D, NEW c \in Int, D \subseteq Int, \A s \in D : s < c,
         ParamsRead(q, ps, D), NEW k, NEW v, v \in Seq(STRING), ~FindCrashes(ps, k),
         \A m, n \in Equals(PartAt(q, c)) : m = n,
         Named(q, c) => k = KeyAt(q, c) /\ v = ValueAt(q, c) /\ k \in Seq(STRING),
         ~Named(q, c) => k = None
  PROVE  ParamsRead(q, Inserted(ps, k, v), D \cup {c})
<1>0. ps \in Seq(Param) /\ Len(ps) \in Nat /\ DOMAIN ps = 1 .. Len(ps)
  BY DEF ParamsRead
<1>1. CASE ~Named(q, c)
  <2>1. k = None
    BY <1>1
  <2>2. ps = << >>
    <3>1. ASSUME NEW n \in DOMAIN ps PROVE FALSE
      <4>1. FindCrashes(ps, k)
        BY <2>1, <3>1 DEF FindCrashes
      <4> QED BY <4>1
    <3>2. Len(ps) = 0
      <4>1. ASSUME Len(ps) # 0 PROVE FALSE
        <5>1. 1 \in DOMAIN ps
          BY <1>0, <4>1
        <5> QED BY <3>1, <5>1
      <4> QED BY <4>1
    <3> QED BY <1>0, <3>2, EmptySeq
  <2> DEFINE new == <<<<None, v>>>>
  <2>3. Inserted(ps, k, v) = new
    BY <2>1, <2>2 DEF Inserted, Contains
  <2>4. <<None, v>> \in Param
    BY DEF Param
  <2>5. new \in Seq(Param) /\ DOMAIN new = {1} /\ new[1][1] = None
    BY <2>4
  <2> HIDE DEF new
  <2>6. Contains(new, None)
    BY <2>5 DEF Contains
  <2>7. \A s \in D \cup {c} : \A m, n \in Equals(PartAt(q, s)) : m = n
    BY DEF ParamsRead
  <2> QED BY <1>1, <2>3, <2>5, <2>6, <2>7 DEF ParamsRead
<1>2. CASE Named(q, c)
  <2>1. k = KeyAt(q, c) /\ v = ValueAt(q, c) /\ k \in Seq(STRING) /\ k # None
    BY <1>2, ParserAssumption
  <2>2. \A s \in D \cup {c} : \A m, n \in Equals(PartAt(q, s)) : m = n
    BY DEF ParamsRead
  <2>3. CASE Contains(ps, k)
    <3>1. Inserted(ps, k, v) = ps
      BY <2>3 DEF Inserted
    <3>2. Contains(ps, None) <=> \E s \in D \cup {c} : ~Named(q, s)
      BY <1>2 DEF ParamsRead
    <3>3. ASSUME \A s \in D \cup {c} : Named(q, s)
          PROVE  /\ {ps[n][1] : n \in DOMAIN ps} = {KeyAt(q, s) : s \in D \cup {c}}
                 /\ \A m, n \in DOMAIN ps : ps[m][1] = ps[n][1] => m = n
                 /\ \A n \in DOMAIN ps : \E s \in D \cup {c} :
                      /\ KeyAt(q, s) = ps[n][1]
                      /\ \A t \in D \cup {c} : KeyAt(q, t) = KeyAt(q, s) => s <= t
                      /\ ps[n][2] = ValueAt(q, s)
      <4>1. /\ {ps[n][1] : n \in DOMAIN ps} = {KeyAt(q, s) : s \in D}
            /\ \A m, n \in DOMAIN ps : ps[m][1] = ps[n][1] => m = n
            /\ \A n \in DOMAIN ps : \E s \in D :
                 /\ KeyAt(q, s) = ps[n][1]
                 /\ \A t \in D : KeyAt(q, t) = KeyAt(q, s) => s <= t
                 /\ ps[n][2] = ValueAt(q, s)
        BY <3>3 DEF ParamsRead
      <4>2. k \in {ps[n][1] : n \in DOMAIN ps}
        BY <2>3 DEF Contains
      <4>3. {ps[n][1] : n \in DOMAIN ps} = {KeyAt(q, s) : s \in D \cup {c}}
        <5>1. KeyAt(q, c) \in {KeyAt(q, s) : s \in D}
          BY <2>1, <4>1, <4>2
        <5>2. {KeyAt(q, s) : s \in D \cup {c}} = {KeyAt(q, s) : s \in D}
          BY ONLY <5>1
        <5> QED BY <4>1, <5>2, Zenon
      <4>4. ASSUME NEW n \in DOMAIN ps
            PROVE  \E s \in D \cup {c} :
                      /\ KeyAt(q, s) = ps[n][1]
                      /\ \A t \in D \cup {c} : KeyAt(q, t) = KeyAt(q, s) => s <= t
                      /\ ps[n][2] = ValueAt(q, s)
        <5>1. PICK s \in D : /\ KeyAt(q, s) = ps[n][1]
                             /\ \A t \in D : KeyAt(q, t) = KeyAt(q, s) => s <= t
                             /\ ps[n][2] = ValueAt(q, s)
          BY <4>1
        <5>2. s <= c
          OBVIOUS
        <5> QED BY <5>1, <5>2
      <4> QED BY <4>1, <4>3, <4>4
    <3>4. ParamsRead(q, ps, D \cup {c})
      BY ONLY <1>0, <2>2, <3>2, <3>3, Zenon DEF ParamsRead
    <3> QED BY <3>1, <3>4
  <2>4. CASE ~Contains(ps, k)
    <3> DEFINE e == <<k, v>>
    <3> DEFINE new == Append(ps, e)
    <3> DEFINE l == Len(ps) + 1
    <3>1. Inserted(ps, k, v) = new
      BY <2>4 DEF Inserted
    <3>2. e \in Param /\ e[1] = k /\ e[2] = v
      BY <2>1 DEF Param
    <3> HIDE DEF e
    <3>3. /\ new \in Seq(Param) /\ DOMAIN new = DOMAIN ps \cup {l} /\ l \notin DOMAIN ps
          /\ new[l] = e /\ \A n \in DOMAIN ps : new[n] = ps[n]
      BY <1>0, <3>2
    <3> HIDE DEF new, l
    <3>4. Contains(new, None) <=> \E s \in D \cup {c} : ~Named(q, s)
      <4>1. Contains(new, None) <=> Contains(ps, None)
        BY <2>1, <3>2, <3>3 DEF Contains
      <4> QED BY <1>2, <4>1 DEF ParamsRead
    <3>5. ASSUME \A s \in D \cup {c} : Named(q, s)
          PROVE  /\ {new[n][1] : n \in DOMAIN new} = {KeyAt(q, s) : s \in D \cup {c}}
                 /\ \A m, n \in DOMAIN new : new[m][1] = new[n][1] => m = n
                 /\ \A n \in DOMAIN new : \E s \in D \cup {c} :
                      /\ KeyAt(q, s) = new[n][1]
                      /\ \A t \in D \cup {c} : KeyAt(q, t) = KeyAt(q, s) => s <= t
                      /\ new[n][2] = ValueAt(q, s)
      <4>1. /\ {ps[n][1] : n \in DOMAIN ps} = {KeyAt(q, s) : s \in D}
            /\ \A m, n \in DOMAIN ps : ps[m][1] = ps[n][1] => m = n
            /\ \A n \in DOMAIN ps : \E s \in D :
                 /\ KeyAt(q, s) = ps[n][1]
                 /\ \A t \in D : KeyAt(q, t) = KeyAt(q, s) => s <= t
                 /\ ps[n][2] = ValueAt(q, s)
        BY <3>5 DEF ParamsRead
      <4>2. \A n \in DOMAIN ps : ps[n][1] # k
        BY <2>4 DEF Contains
      <4>3. ASSUME NEW s \in D, KeyAt(q, s) = k PROVE FALSE
        <5>1. k \in {ps[n][1] : n \in DOMAIN ps}
          BY <4>1, <4>3
        <5> QED BY <4>2, <5>1
      <4>4. {new[n][1] : n \in DOMAIN new} = {KeyAt(q, s) : s \in D \cup {c}}
        <5>1. {new[n][1] : n \in DOMAIN new} = {ps[n][1] : n \in DOMAIN ps} \cup {k}
          BY <3>2, <3>3
        <5>2. {KeyAt(q, s) : s \in D \cup {c}} = {KeyAt(q, s) : s \in D} \cup {k}
          BY <2>1
        <5> QED BY <4>1, <5>1, <5>2
      <4>5. \A m, n \in DOMAIN new : new[m][1] = new[n][1] => m = n
        BY <3>2, <3>3, <4>1, <4>2
      <4>6. ASSUME NEW n \in DOMAIN ps
            PROVE  \E s \in D \cup {c} :
                      /\ KeyAt(q, s) = new[n][1]
                      /\ \A t \in D \cup {c} : KeyAt(q, t) = KeyAt(q, s) => s <= t
                      /\ new[n][2] = ValueAt(q, s)
        <5>1. PICK s \in D : /\ KeyAt(q, s) = ps[n][1]
                             /\ \A t \in D : KeyAt(q, t) = KeyAt(q, s) => s <= t
                             /\ ps[n][2] = ValueAt(q, s)
          BY <4>1
        <5>2. s <= c
          OBVIOUS
        <5> QED BY <3>3, <5>1, <5>2
      <4>7. \E s \in D \cup {c} :
                      /\ KeyAt(q, s) = new[l][1]
                      /\ \A t \in D \cup {c} : KeyAt(q, t) = KeyAt(q, s) => s <= t
                      /\ new[l][2] = ValueAt(q, s)
        <5>1. KeyAt(q, c) = new[l][1] /\ new[l][2] = ValueAt(q, c)
          BY <2>1, <3>2, <3>3
        <5>2. \A t \in D \cup {c} : KeyAt(q, t) = KeyAt(q, c) => c <= t
          BY <2>1, <4>3
        <5> QED BY <5>1, <5>2
      <4> QED BY <3>3, <4>4, <4>5, <4>6, <4>7
    <3>6. new \in Seq(Param)
      BY <3>3
    <3>7. ParamsRead(q, new, D \cup {c})
      BY ONLY <2>2, <3>4, <3>5, <3>6, Zenon DEF ParamsRead
    <3> QED BY <3>1, <3>7
  <2> QED BY <2>3, <2>4
<1> QED BY <1>1, <1>2

-----------------------------------------------------------------------------
(***************************************************************************)
(* The parameters read, against the reference.                             *)
(***************************************************************************)
Twice(q, s) == \E i, j \in Equals(PartAt(q, s)) : i # j

LEMMA ReferenceIs ==
  ASSUME NEW q \in Seq(STRING)
  PROVE  /\ QueryReference(q).bad <=> \E s \in Starts(q) : Twice(q, s)
         /\ QueryReference(q).nameless <=>
              \E s \in Starts(q) : ~Named(q, s) /\ \A b \in Starts(q) : Twice(q, b) => s < b
         /\ (\A s \in Starts(q) : Named(q, s)) =>
              /\ DOMAIN QueryReference(q).values = {KeyAt(q, s) : s \in Starts(q)}
              /\ \A s \in Starts(q) :
                   (\A t \in Starts(q) : KeyAt(q, t) = KeyAt(q, s) => s <= t) =>
                     QueryReference(q).values[KeyAt(q, s)] = ValueAt(q, s)
<1> DEFINE part == [s \in Starts(q) |-> PartAt(q, s)]
<1> DEFINE bad == {s \in DOMAIN part : \E i, j \in Equals(part[s]) : i # j}
<1> DEFINE nameless == {s \in DOMAIN part : Equals(part[s]) = {} /\ \A b \in bad : s < b}
<1> DEFINE key == [s \in {t \in DOMAIN part : Equals(part[t]) # {}} |-> KeyOf(part[s], s)]
<1> DEFINE keys == {key[s] : s \in DOMAIN key}
<1> DEFINE values == [k \in keys |-> ValueOf(part[FirstOf({s \in DOMAIN key : key[s] = k})])]
<1>1. QueryReference(q) = [bad |-> bad # {}, nameless |-> nameless # {}, values |-> values]
  BY DEF QueryReference
<1>2. DOMAIN part = Starts(q) /\ \A s \in Starts(q) : part[s] = PartAt(q, s)
  OBVIOUS
<1> HIDE DEF part
<1>3. bad = {s \in Starts(q) : Twice(q, s)}
  BY <1>2 DEF Twice
<1> HIDE DEF bad
<1>4. nameless # {} <=> \E s \in Starts(q) : ~Named(q, s) /\ \A b \in Starts(q) : Twice(q, b) => s < b
  BY <1>2, <1>3 DEF Named
<1> HIDE DEF nameless
<1>5. ASSUME \A s \in Starts(q) : Named(q, s)
      PROVE  /\ DOMAIN values = {KeyAt(q, s) : s \in Starts(q)}
             /\ \A s \in Starts(q) :
                   (\A t \in Starts(q) : KeyAt(q, t) = KeyAt(q, s) => s <= t) => values[KeyAt(q, s)] = ValueAt(q, s)
  <2>1. {t \in DOMAIN part : Equals(part[t]) # {}} = Starts(q)
    BY <1>2, <1>5 DEF Named
  <2>2. DOMAIN key = Starts(q) /\ \A s \in Starts(q) : key[s] = KeyAt(q, s)
    BY <1>2, <2>1 DEF KeyAt
  <2> HIDE DEF key
  <2>3. keys = {KeyAt(q, s) : s \in Starts(q)}
    BY <2>2
  <2>4. DOMAIN values = keys
    OBVIOUS
  <2>5. ASSUME NEW s \in Starts(q), \A t \in Starts(q) : KeyAt(q, t) = KeyAt(q, s) => s <= t
        PROVE  values[KeyAt(q, s)] = ValueAt(q, s)
    <3> DEFINE S == {t \in DOMAIN key : key[t] = KeyAt(q, s)}
    <3>1. S \subseteq Int /\ s \in S /\ \A j \in S : s <= j
      BY <2>2, <2>5, StartsAre
    <3>2. KeyAt(q, s) \in keys
      BY <2>3
    <3>3. values[KeyAt(q, s)] = ValueOf(part[FirstOf(S)])
      BY <3>2
    <3> HIDE DEF S, values
    <3>4. FirstOf(S) = s
      BY <3>1, FirstIs
    <3> QED BY <1>2, <3>3, <3>4 DEF ValueAt
  <2> HIDE DEF values
  <2> QED BY <2>3, <2>4, <2>5
<1> HIDE DEF values
<1>6. /\ QueryReference(q).bad <=> bad # {}
      /\ QueryReference(q).nameless <=> nameless # {}
      /\ QueryReference(q).values = values
  <2> DEFINE x == (bad # {})
  <2> DEFINE y == (nameless # {})
  <2>1. QueryReference(q) = [bad |-> x, nameless |-> y, values |-> values]
    BY <1>1
  <2> HIDE DEF x, y
  <2>2. QueryReference(q).bad = x /\ QueryReference(q).nameless = y /\ QueryReference(q).values = values
    BY ONLY <2>1
  <2> QED BY <2>2 DEF x, y
<1> QED BY <1>3, <1>4, <1>5, <1>6

\* The whole query string was read.
LEMMA AllRead ==
  ASSUME NEW q \in Seq(STRING), NEW ps, ParamsRead(q, ps, Starts(q))
  PROVE  /\ ~QueryReference(q).bad
         /\ Contains(ps, None) <=> QueryReference(q).nameless
         /\ ~QueryReference(q).nameless =>
              /\ {ps[n][1] : n \in DOMAIN ps} = DOMAIN QueryReference(q).values
              /\ \A m, n \in DOMAIN ps : ps[m][1] = ps[n][1] => m = n
              /\ \A n \in DOMAIN ps : ps[n][2] = QueryReference(q).values[ps[n][1]]
<1>1. \A s \in Starts(q) : ~Twice(q, s)
  BY DEF ParamsRead, Twice
<1>2. ~QueryReference(q).bad /\ (QueryReference(q).nameless <=> \E s \in Starts(q) : ~Named(q, s))
  BY <1>1, ReferenceIs
<1>3. Contains(ps, None) <=> \E s \in Starts(q) : ~Named(q, s)
  BY DEF ParamsRead
<1>4. ASSUME ~QueryReference(q).nameless
      PROVE  /\ {ps[n][1] : n \in DOMAIN ps} = DOMAIN QueryReference(q).values
             /\ \A m, n \in DOMAIN ps : ps[m][1] = ps[n][1] => m = n
             /\ \A n \in DOMAIN ps : ps[n][2] = QueryReference(q).values[ps[n][1]]
  <2>1. \A s \in Starts(q) : Named(q, s)
    BY <1>2, <1>4
  <2>2. /\ {ps[n][1] : n \in DOMAIN ps} = {KeyAt(q, s) : s \in Starts(q)}
        /\ \A m, n \in DOMAIN ps : ps[m][1] = ps[n][1] => m = n
        /\ \A n \in DOMAIN ps : \E s \in Starts(q) :
             /\ KeyAt(q, s) = ps[n][1]
             /\ \A t \in Starts(q) : KeyAt(q, t) = KeyAt(q, s) => s <= t
             /\ ps[n][2] = ValueAt(q, s)
    BY <2>1 DEF ParamsRead
  <2>3. /\ DOMAIN QueryReference(q).values = {KeyAt(q, s) : s \in Starts(q)}
        /\ \A s \in Starts(q) :
             (\A t \in Starts(q) : KeyAt(q, t) = KeyAt(q, s) => s <= t) =>
                QueryReference(q).values[KeyAt(q, s)] = ValueAt(q, s)
    BY <2>1, ReferenceIs
  <2>4. ASSUME NEW n \in DOMAIN ps PROVE ps[n][2] = QueryReference(q).values[ps[n][1]]
    <3>1. PICK s \in Starts(q) :
             /\ KeyAt(q, s) = ps[n][1]
             /\ \A t \in Starts(q) : KeyAt(q, t) = KeyAt(q, s) => s <= t
             /\ ps[n][2] = ValueAt(q, s)
      BY <2>2
    <3> QED BY <2>3, <3>1
  <2> QED BY <2>2, <2>3, <2>4
<1> QED BY <1>2, <1>3, <1>4

\* A parameter without '=' among the first ones, none of which has two.
LEMMA NamelessRead ==
  ASSUME NEW q \in Seq(STRING), NEW c \in Int,
         \A s \in Starts(q) : s <= c => ~Twice(q, s),
         NEW n \in Starts(q), n <= c, ~Named(q, n)
  PROVE  QueryReference(q).nameless
<1>1. Starts(q) \subseteq Int
  BY StartsAre
<1>2. \A b \in Starts(q) : Twice(q, b) => n < b
  BY <1>1
<1> QED BY <1>2, ReferenceIs

\* The parameter at c has two '=', and the ones before it were read.
LEMMA BadRead ==
  ASSUME NEW q \in Seq(STRING), NEW c \in Starts(q), Twice(q, c), NEW ps,
         ParamsRead(q, ps, {s \in Starts(q) : s < c})
  PROVE  QueryReference(q).bad /\ (Contains(ps, None) <=> QueryReference(q).nameless)
<1> DEFINE D == {s \in Starts(q) : s < c}
<1>1. Starts(q) \subseteq Int
  BY StartsAre
<1>2. /\ \A s \in D : ~Twice(q, s)
      /\ Contains(ps, None) <=> \E s \in D : ~Named(q, s)
  <2> HIDE DEF D
  <2>1. ParamsRead(q, ps, D)
    BY DEF D
  <2> QED BY <2>1 DEF ParamsRead, Twice
<1>3. QueryReference(q).bad
  BY ReferenceIs
<1>4. ASSUME NEW s \in D, ~Named(q, s) PROVE QueryReference(q).nameless
  <2>1. \A b \in Starts(q) : Twice(q, b) => s < b
    BY <1>1, <1>2
  <2> QED BY <1>4, <2>1, ReferenceIs
<1>5. ASSUME QueryReference(q).nameless PROVE \E s \in D : ~Named(q, s)
  <2>1. PICK s \in Starts(q) : ~Named(q, s) /\ \A b \in Starts(q) : Twice(q, b) => s < b
    BY <1>5, ReferenceIs
  <2> QED BY <2>1
<1> QED BY <1>2, <1>3, <1>4, <1>5

-----------------------------------------------------------------------------
(***************************************************************************)
(* The service around the parser.                                          *)
(***************************************************************************)
LEMMA ServiceParses == [ServiceNext]_allVars => [Next]_vars
<1> SUFFICES ASSUME [ServiceNext]_allVars PROVE [Next]_vars
  OBVIOUS
<1>1. CASE Parse
  BY <1>1 DEF Parse, Next
<1>2. CASE \E k \in 1 .. Len(stream) : Receive(k)
  BY <1>2 DEF Receive, Next
<1>3. CASE MessageComplete
  BY <1>3 DEF MessageComplete
<1>4. CASE ParseQueryString
  BY <1>4, Zenon DEF ParseQueryString, EqualSign, SecondEqual, Ampersand, OtherChar, QueryEnd, InsertCrash
<1>5. CASE Handler
  BY <1>5, Zenon DEF Handler, SetBody, SetHeader, SetStatus, SetNotFound, HandlerCall, GetQueryParam
<1>6. CASE HandlerReturns
  BY <1>6 DEF HandlerReturns
<1>7. CASE DataSent
  BY <1>7 DEF DataSent
<1>8. CASE UNCHANGED allVars
  BY <1>8 DEF allVars
<1>9. CASE ExitByte
  BY <1>9 DEF ExitByte
<1> QED BY <1>1, <1>2, <1>3, <1>4, <1>5, <1>6, <1>7, <1>8, <1>9 DEF ServiceNext

\* Where no handler was chosen, none is missing; and one that is missing is
\* never reached.
LEMMA NoneMissing == ~GenericMissing(None)
<1>1. None \notin Nat
  BY ServiceAssumption, Zenon
<1> QED BY <1>1 DEF GenericMissing, Generic

\* Whether it is missing is settled with the stream.
LEMMA MissingStays ==
  ASSUME stream' = stream
  PROVE  GenericMissing(handler)' = GenericMissing(handler')
BY DEF GenericMissing

LEMMA NotMissing ==
  ASSUME ServiceInv, phase # "aborted"
  PROVE  ~GenericMissing(handler)
BY DEF ServiceInv, Aborting

LEMMA SameStream ==
  ASSUME [ServiceNext]_allVars
  PROVE  /\ stream' = stream /\ Asked' = Asked /\ Wanted' = Wanted /\ TheQuery' = TheQuery
         /\ BadRequest' = BadRequest
<1>1. stream' = stream
  <2>1. [Next]_vars
    BY ServiceParses
  <2> QED BY <2>1 DEF Next, Loop, vars, Execute, NeedMore, RequestLine, BadRequestLine, HeaderLine,
             HeaderLineCrash, LastHeader, BodyCrash, BodyData, BodyEnd
<1> QED BY <1>1 DEF Asked, Wanted, TheQuery, BadRequest

\* The url of a request whose request line was taken.
LEMMA UrlIs ==
  ASSUME ParserInv, state # "req_line"
  PROVE  /\ Url = UrlChars[stream[2]] /\ Q = TheQuery /\ Query(Url) = TheQuery
         /\ TheQuery \in Seq(STRING)
         /\ client.url[1] = stream[2] /\ stream[2] \in Word
         /\ stream[1] \in Methods /\ stream[3] \in Versions
<1>1. /\ client.url = <<stream[2]>> /\ Len(stream) >= 3 /\ stream[1] \in Methods /\ stream[3] \in Versions
  BY DEF ParserInv, Asking
<1>2. stream[2] \in Word
  <2>1. stream \in Stream
    BY ParserFacts
  <2>2. Len(stream) \in Nat /\ \A i \in 1 .. Len(stream) : stream[i] \in Word
    BY <2>1, StreamWords
  <2> QED BY <1>1, <2>2
<1>3. Url = UrlChars[stream[2]]
  BY <1>1 DEF Url
<1> DEFINE u == UrlChars[stream[2]]
<1>4. u \in Seq(STRING)
  BY <1>2, ServiceAssumption, Zenon
<1> HIDE DEF u
<1>5. PLen(u) \in Nat
  <2>1. Len(u) \in Nat
    BY <1>4
  <2>2. Questions(u) \subseteq Nat
    BY <2>1 DEF Questions
  <2> QED BY <2>1, <2>2, FirstExists DEF PLen
<1>6. Query(u) \in Seq(STRING)
  <2> DEFINE m == PLen(u) + 2
  <2>1. m \in 1 .. m /\ m \in Int /\ Len(u) \in Int
    BY <1>4, <1>5
  <2>2. \A i \in m .. Len(u) : u[i] \in STRING
    BY <1>4, <2>1
  <2> HIDE DEF m
  <2>3. SubSeq(u, m, Len(u)) \in Seq(STRING)
    BY <1>4, <2>1, <2>2, SubSeqProperties
  <2> QED BY <2>3 DEF Query, m
<1> QED BY <1>1, <1>2, <1>3, <1>6 DEF u, Q, TheQuery

LEMMA ServiceStarts == ServiceInit => ServiceInv
<1> SUFFICES ASSUME ServiceInit PROVE ServiceInv
  OBVIOUS
<1>1. /\ Init /\ phase = "parsing" /\ handler = None /\ params = << >> /\ sent = None /\ called = << >> /\ got = None
      /\ query = [i |-> 0, current_is_value |-> FALSE, started_from |-> 0, cur_len |-> 0, key |-> None]
  BY DEF ServiceInit
<1>2. ParserInv
  BY <1>1, ParserInit
<1>3. state = "req_line"
  BY <1>1 DEF Init
<1>4. << >> \in Seq(Param) /\ << >> \in Seq(CallNames \X (Nat \cup {None}))
  BY EmptySeq
<1>5. Stage
  BY <1>1, <1>3, <1>4 DEF Stage, Stages
<1>6. Served /\ RefusedQuery /\ Responding /\ Aborting
  BY <1>1, <1>4, NoneMissing DEF Served, RefusedQuery, Responding, Aborting, Answered
<1> QED BY <1>2, <1>5, <1>6 DEF ServiceInv

\* A step of the parser that is none of the service.
LEMMA ServiceUntouched ==
  ASSUME ServiceInv, [ServiceNext]_allVars, UNCHANGED <<method, version, phase, serviceVars>>, state' = state,
         fed' = fed \/ phase # "exited"
  PROVE  ServiceInv'
<1>1. ParserInv'
  <2>1. ParserInv /\ [Next]_vars
    BY ServiceParses DEF ServiceInv
  <2> QED BY <2>1, ParserStep
<1>2. /\ stream' = stream /\ Asked' = Asked /\ Wanted' = Wanted /\ TheQuery' = TheQuery
      /\ BadRequest' = BadRequest
  BY SameStream
<1>3. UNCHANGED <<method, version, phase, query, handler, params, response, sent, called, got, state>>
  BY DEF serviceVars
<1>4. Answered' <=> Answered
  BY <1>3 DEF Answered
<1>5. Stage'
  BY <1>2, <1>3 DEF ServiceInv, Stage
<1>6. Served' /\ RefusedQuery' /\ Responding'
  BY <1>2, <1>3, <1>4 DEF ServiceInv, Served, RefusedQuery, Responding
<1>7. Aborting'
  BY <1>2, <1>3 DEF ServiceInv, Aborting, GenericMissing
<1> QED BY <1>1, <1>5, <1>6, <1>7 DEF ServiceInv

LEMMA RequestLineIs ==
  ASSUME ParserInv, RequestLine
  PROVE  /\ AtRequestLine /\ GoodRequestLine(Line)
         /\ Line[1] = stream[1] /\ Line[1] \in Methods /\ Line[3] = stream[3]
<1>0. Types /\ Position /\ last_pos = 0 /\ Pos = 0 /\ LineEnds # {} /\ GoodRequestLine(Line) /\ pc = "exec" /\ state = "req_line"
  BY ParserFacts DEF ParserInv, Position, Types, RequestLine
<1>1. PICK e \in 1 .. Len(buf) - 1 :
        /\ Line \in Seq(Word) /\ Len(Line) = e - 1
        /\ \A i \in 1 .. e - 1 : Line[i] = stream[Pos + i]
  BY <1>0, LineTaken
<1>2. Len(Line) = 3 /\ Line[1] \in Methods
  BY <1>0 DEF GoodRequestLine, HasUrl
<1>3. 1 \in 1 .. e - 1 /\ 3 \in 1 .. e - 1 /\ 0 + 1 = 1 /\ 0 + 3 = 3
  <2>1. Len(buf) \in Nat
    BY ParserFacts
  <2>2. e \in 1 .. Len(buf) - 1 /\ Len(Line) = e - 1
    BY <1>1
  <2>3. e - 1 = 3
    BY <1>2, <2>2
  <2>4. e \in Int
    BY ONLY <2>1, <2>2
  <2> QED BY ONLY <2>3, <2>4
<1>4. Line[1] = stream[1] /\ Line[3] = stream[3]
  BY <1>0, <1>1, <1>3
<1> QED BY <1>0, <1>2, <1>4 DEF AtRequestLine

LEMMA ServiceParse ==
  ASSUME ServiceInv, Parse
  PROVE  ServiceInv'
<1>0. [ServiceNext]_allVars /\ Loop /\ phase = "parsing" /\ ParserInv /\ Stage
  BY DEF ServiceNext, Parse, ServiceInv
<1>1. ParserInv'
  <2>1. [Next]_vars
    BY <1>0, ServiceParses
  <2> QED BY <1>0, <2>1, ParserStep
<1>2. stream' = stream
  BY <1>0, SameStream
<1>3. state # "finished" /\ completed = 0 /\ completed' = IF state' = "finished" THEN 1 ELSE 0
  BY <1>0, <1>1 DEF Stage, ParserInv, Types
<1>4. /\ phase' = IF state' = "finished" THEN "complete" ELSE "parsing"
      /\ UNCHANGED <<query, handler, params, response, sent, called, got>>
  BY <1>0, <1>3 DEF Parse, serviceVars
<1>5. ASSUME state' # "req_line" PROVE method' = MethodOf[stream[1]] /\ version' = stream[3]
  <2>1. CASE state = "req_line"
    <3>1. RequestLine
      BY <1>0, <1>5, <2>1 DEF Loop, NeedMore, BadRequestLine, HeaderLine, HeaderLineCrash, LastHeader,
         BodyCrash, BodyData, BodyEnd, parserVars
    <3>2. /\ AtRequestLine /\ GoodRequestLine(Line)
          /\ Line[1] = stream[1] /\ Line[1] \in Methods /\ Line[3] = stream[3]
      BY <1>0, <3>1, RequestLineIs
    <3> QED BY <3>2 DEF Parse
  <2>2. CASE state # "req_line"
    <3>1. method' = method /\ version' = version
      BY <2>2 DEF Parse, AtRequestLine
    <3> QED BY <1>0, <2>2, <3>1 DEF Stage
  <2> QED BY <2>1, <2>2
<1>6. /\ handler' = None /\ sent' = None /\ called' = << >> /\ got' = None /\ params' = << >>
      /\ query' = [i |-> 0, current_is_value |-> FALSE, started_from |-> 0, cur_len |-> 0, key |-> None]
      /\ params' \in Seq(Param)
  BY <1>0, <1>4 DEF Stage
<1>7. phase' \in {"parsing", "complete"} /\ (phase' = "parsing" <=> state' # "finished")
  BY <1>4
<1>10. GenericMissing(handler)' = FALSE
  BY <1>2, <1>6, NoneMissing, MissingStays
<1>8. Stage'
  BY <1>2, <1>5, <1>6, <1>7 DEF Stage, Stages
<1>9. Served' /\ RefusedQuery' /\ Responding'
  BY <1>4, <1>6, <1>7 DEF ServiceInv, Served, RefusedQuery, Responding, Answered
<1>11. Aborting'
  BY <1>7, <1>10 DEF Aborting
<1> QED BY <1>1, <1>8, <1>9, <1>11 DEF ServiceInv

LEMMA ServiceReceive ==
  ASSUME ServiceInv, NEW k \in 1 .. Len(stream), Receive(k)
  PROVE  ServiceInv'
<1>1. [ServiceNext]_allVars
  BY DEF ServiceNext
<1>2. UNCHANGED <<method, version, phase, serviceVars>> /\ state' = state /\ phase # "exited"
  BY DEF Receive, Execute
<1> QED BY <1>1, <1>2, ServiceUntouched

LEMMA ServiceExitByte ==
  ASSUME ServiceInv, ExitByte
  PROVE  ServiceInv'
<1>0. /\ ServiceNext /\ ParserInv /\ Stage /\ Served /\ RefusedQuery /\ Responding
      /\ phase \in {"parsing", "sent"} /\ phase' = "exited"
      /\ fed < Len(stream) /\ stream[fed + 1] \in ExitWords
  BY DEF ServiceNext, ServiceInv, ExitByte
<1>1. /\ UNCHANGED <<vars, method, version, query, handler, params, response, sent, called, got>>
      /\ fed' = fed
  BY DEF ExitByte, serviceVars, vars
<1>2. /\ ParserInv' /\ stream' = stream /\ Asked' = Asked /\ Wanted' = Wanted /\ TheQuery' = TheQuery
      /\ BadRequest' = BadRequest /\ state' = state
  <2>1. [Next]_vars /\ state' = state
    BY <1>0, <1>1, ServiceParses DEF vars, parserVars
  <2> QED BY <1>0, <2>1, ParserStep, SameStream
<1>3. Stage'
  BY <1>0, <1>1, <1>2 DEF Stage, Stages
<1>4. Served'
  BY <1>0, <1>1, <1>2 DEF Served
<1>5. Answered' => Answered
  BY <1>0, <1>1 DEF Answered
<1>6. RefusedQuery' /\ Responding'
  BY <1>0, <1>1, <1>2, <1>5 DEF RefusedQuery, Responding
<1>7. GenericMissing(handler)' = FALSE
  BY <1>0, <1>1, <1>2, NotMissing, MissingStays
<1>8. Aborting'
  BY <1>0, <1>1, <1>2, <1>7 DEF Aborting
<1> QED BY <1>2, <1>3, <1>4, <1>6, <1>8 DEF ServiceInv

\* RST_service_find_resource: the first resource with the method and the path.
LEMMA FoundIs ==
  ASSUME ParserInv, Stage, state # "req_line"
  PROVE  /\ RST_service_find_resource \in DOMAIN Resources \cup {Generic} /\ RST_service_find_resource # None
         /\ RST_service_find_resource = Generic => \A n \in DOMAIN Resources : Resources[n] # Wanted
         /\ RST_service_find_resource # Generic =>
              /\ Resources[RST_service_find_resource] = Wanted
              /\ \A n \in 1 .. RST_service_find_resource - 1 : Resources[n] # Wanted
<1>0. DOMAIN Resources = 1 .. Len(Resources) /\ Len(Resources) \in Nat
  <2>1. Resources \in Seq([method : STRING, path : Seq(STRING)])
    BY ServiceAssumption, Zenon
  <2> QED BY <2>1, LenProperties
<1>1. None \notin Nat
  BY ServiceAssumption, Zenon
<1>2. [method |-> method, path |-> Path(Url)] = Wanted
  <2>1. method = MethodOf[stream[1]] /\ Url = UrlChars[stream[2]]
    BY UrlIs DEF Stage
  <2> QED BY <2>1 DEF Wanted
<1>3. \A n : n \in Matching <=> n \in 1 .. Len(Resources) /\ Resources[n] = Wanted
  BY <1>0, <1>2 DEF Matching
<1>4. CASE Matching = {}
  BY <1>0, <1>1, <1>3, <1>4 DEF RST_service_find_resource, Generic
<1>5. CASE Matching # {}
  <2>1. Matching \subseteq Nat
    BY <1>0, <1>3
  <2>2. FirstOf(Matching) \in Matching /\ \A j \in Matching : FirstOf(Matching) <= j
    BY <1>5, <2>1, FirstExists
  <2>3. PICK h \in Matching : h = FirstOf(Matching) /\ \A j \in Matching : h <= j
    BY <2>2
  <2>4. RST_service_find_resource = h
    BY <1>5, <2>3 DEF RST_service_find_resource
  <2>5. h \in 1 .. Len(Resources) /\ Resources[h] = Wanted /\ h # 0
    BY <1>0, <1>3, <2>3
  <2>6. ASSUME NEW n \in 1 .. h - 1, Resources[n] = Wanted PROVE FALSE
    <3>1. n \in 1 .. Len(Resources) /\ n < h
      BY <1>0, <2>5
    <3>2. n \in Matching
      BY <1>3, <2>6, <3>1
    <3>3. h <= n
      BY <2>3, <3>2
    <3> QED BY ONLY <1>0, <2>5, <3>1, <3>3
  <2> QED BY <1>0, <1>1, <2>4, <2>5, <2>6 DEF Generic
<1> QED BY <1>4, <1>5

LEMMA NewResponse == BuiltBy(RST_response_init, << >>)
<1>1. DOMAIN << >> = {}
  OBVIOUS
<1> DEFINE r == RST_response_init
<1>2. /\ r = [version |-> r.version, status |-> r.status, message |-> r.message, headers |-> r.headers,
              body |-> r.body]
      /\ r.body = 0 /\ r.status = 0 /\ r.message = None /\ DOMAIN r.headers = {}
  BY DEF RST_response_init
<1> HIDE DEF r
<1>3. r.body \in Nat /\ r.status \in {0, 200, 404}
  BY <1>2
<1>4. BuiltBy(r, << >>)
  BY <1>1, <1>2, <1>3, Zenon DEF BuiltBy
<1> QED BY <1>4 DEF r

\* The parameters of the request are what the url asks for.
ParamsRight(ps) ==
  /\ ps \in Seq(Param) /\ ~Asked.bad /\ (Contains(ps, None) <=> Asked.nameless)
  /\ ~Asked.nameless =>
       /\ {ps[n][1] : n \in DOMAIN ps} = DOMAIN Asked.values
       /\ \A m, n \in DOMAIN ps : ps[m][1] = ps[n][1] => m = n
       /\ \A n \in DOMAIN ps : ps[n][2] = Asked.values[ps[n][1]]

LEMMA ServiceSchedule ==
  ASSUME ServiceInv, ServiceNext, phase \in {"complete", "query"}, Schedule,
         UNCHANGED <<vars, method, version, query, called, got>>, ParamsRight(params')
  PROVE  ServiceInv'
<1>0. ParserInv /\ Stage /\ state = "finished"
  BY DEF ServiceInv, Stage
<1>1. ParserInv' /\ stream' = stream /\ Asked' = Asked /\ Wanted' = Wanted /\ state' = state
  <2>1. [Next]_vars /\ state' = state
    BY ServiceParses DEF vars, parserVars
  <2> QED BY <1>0, <2>1, ParserStep, SameStream
<1>2. /\ handler' \in DOMAIN Resources \cup {Generic} /\ handler' # None
      /\ handler' = Generic => \A n \in DOMAIN Resources : Resources[n] # Wanted
      /\ handler' # Generic => Resources[handler'] = Wanted /\ \A n \in 1 .. handler' - 1 : Resources[n] # Wanted
  <2>1. handler' = RST_service_find_resource
    BY DEF Schedule
  <2> QED BY <1>0, <2>1, FoundIs
<1>3. /\ response' = RST_response_init /\ sent' = None /\ called' = << >> /\ got' = None
      /\ UNCHANGED <<method, version>>
      /\ phase' = IF GenericMissing(handler') THEN "aborted" ELSE "handler"
  BY <1>0 DEF Schedule, Stage
<1>4. Stage'
  BY <1>0, <1>1, <1>2, <1>3 DEF Stage, Stages, ParamsRight
<1>5. Served'
  BY <1>1, <1>2, <1>3 DEF Served, ParamsRight
<1>6. RefusedQuery' /\ Aborting'
  BY <1>1, <1>2, <1>3, MissingStays, Zenon DEF RefusedQuery, Aborting
<1>7. Responding'
  <2>1. BuiltBy(response', called')
    BY <1>3, NewResponse
  <2>2. ~Answered'
    BY <1>3 DEF Answered
  <2>3. called' \in Seq(CallNames \X (Nat \cup {None}))
    BY <1>3, EmptySeq
  <2> QED BY <2>1, <2>2, <2>3 DEF Responding
<1> QED BY <1>1, <1>4, <1>5, <1>6, <1>7 DEF ServiceInv

\* A step that stays in RST_request_parse_query_string.
LEMMA ServiceInQuery ==
  ASSUME ServiceInv, ServiceNext, phase \in {"complete", "query"}, phase' = "query", TheQuery # << >>,
         UNCHANGED <<vars, method, version, handler, response, sent, called, got>>,
         QueryState(TheQuery, query'), ParamsRead(TheQuery, params', PartsTo(TheQuery, query'.i))
  PROVE  ServiceInv'
<1>0. ParserInv /\ Stage /\ state = "finished" /\ called = << >> /\ Responding
  BY DEF ServiceInv, Stage
<1>1. ParserInv' /\ stream' = stream /\ TheQuery' = TheQuery /\ state' = state
  <2>1. [Next]_vars /\ state' = state
    BY ServiceParses DEF vars, parserVars
  <2> QED BY <1>0, <2>1, ParserStep, SameStream
<1>2. handler' = None /\ sent' = None /\ called' = << >> /\ got' = None /\ UNCHANGED <<method, version>>
  BY <1>0 DEF Stage
<1>3. params' \in Seq(Param)
  BY DEF ParamsRead
<1>4. Stage'
  BY <1>0, <1>1, <1>2, <1>3 DEF Stage, Stages
<1>5. Served' /\ RefusedQuery' /\ Aborting' /\ Responding'
  BY <1>0, <1>1, <1>2, NoneMissing, MissingStays DEF Served, RefusedQuery, Aborting, Responding, Answered
<1> QED BY <1>1, <1>4, <1>5 DEF ServiceInv

LEMMA ServiceMessageComplete ==
  ASSUME ServiceInv, MessageComplete
  PROVE  ServiceInv'
<1>0. /\ ParserInv /\ state = "finished" /\ phase = "complete" /\ params = << >> /\ ServiceNext
      /\ query = [i |-> 0, current_is_value |-> FALSE, started_from |-> 0, cur_len |-> 0, key |-> None]
  BY DEF ServiceInv, Stage, MessageComplete, ServiceNext
<1>1. Query(Url) = TheQuery /\ TheQuery \in Seq(STRING)
  BY <1>0, UrlIs
<1>2. /\ UNCHANGED <<vars, method, version, query, called, got>> /\ params' = << >>
  BY <1>0 DEF MessageComplete
<1>3. CASE TheQuery = << >>
  <2>1. Schedule
    BY <1>1, <1>3 DEF MessageComplete
  <2>2. Asked = NoQuery
    BY <1>3 DEF Asked, TheQuery
  <2>3. ~NoQuery.bad /\ ~NoQuery.nameless /\ DOMAIN NoQuery.values = {}
    BY DEF NoQuery
  <2>4. << >> \in Seq(Param) /\ DOMAIN << >> = {}
    BY EmptySeq
  <2>5. ParamsRight(<< >>)
    BY <2>2, <2>3, <2>4 DEF ParamsRight, Contains
  <2> QED BY <1>0, <1>2, <2>1, <2>5, ServiceSchedule
<1>4. CASE TheQuery # << >>
  <2>1. phase' = "query" /\ UNCHANGED <<handler, response, sent>>
    BY <1>1, <1>4 DEF MessageComplete
  <2> DEFINE q == TheQuery
  <2> DEFINE w == MkQuery(0, FALSE, 0, 0, None)
  <2>2. query' = w
    BY <1>0, <1>2 DEF MkQuery
  <2>3. w.i = 0 /\ w.current_is_value = FALSE /\ w.started_from = 0 /\ w.cur_len = 0 /\ w.key = None
        /\ w = [i |-> w.i, current_is_value |-> w.current_is_value, started_from |-> w.started_from,
                cur_len |-> w.cur_len, key |-> w.key]
    BY DEF MkQuery
  <2>4. q \in Seq(STRING) /\ Len(q) \in Nat /\ 1 \in Starts(q) /\ \A s \in Starts(q) : s \in 1 .. Len(q) + 1
    BY <1>1, StartsAre
  <2> HIDE DEF w, q
  <2>5. Plain(q, 0 + 1, 0)
    BY DEF Plain
  <2>6. QueryState(q, w)
    <3>1. 0 \in 0 .. Len(q) /\ 0 \in 0 .. 0 /\ 0 + 1 \in Starts(q) /\ 0 = 0 - 0 + (IF 0 = 0 THEN 0 ELSE 1)
      BY <2>4
    <3> QED BY ONLY <2>3, <2>5, <3>1 DEF QueryState
  <2>7. PartsTo(q, 0) = {}
    BY <2>4 DEF PartsTo
  <2>8. << >> \in Seq(Param) /\ DOMAIN << >> = {}
    BY EmptySeq
  <2>9. ParamsRead(q, << >>, {})
    BY <2>8 DEF ParamsRead, Contains
  <2>10. QueryState(TheQuery, query') /\ ParamsRead(TheQuery, params', PartsTo(TheQuery, query'.i))
    BY <1>2, <2>2, <2>3, <2>6, <2>7, <2>9 DEF q
  <2> QED BY <1>0, <1>2, <1>4, <2>1, <2>10, ServiceInQuery
<1> QED BY <1>3, <1>4

LEMMA QueryFacts ==
  ASSUME ServiceInv, phase = "query"
  PROVE  /\ ParserInv /\ Stage /\ state = "finished" /\ Q = TheQuery /\ TheQuery # << >> /\ TheQuery \in Seq(STRING)
         /\ QueryState(TheQuery, query) /\ ParamsRead(TheQuery, params, PartsTo(TheQuery, query.i))
         /\ query.i \in 0 .. Len(TheQuery) /\ Len(TheQuery) \in Nat
         /\ Asked = QueryReference(TheQuery)
<1>1. ParserInv /\ Stage /\ state = "finished"
  BY DEF ServiceInv, Stage
<1>2. Q = TheQuery /\ TheQuery \in Seq(STRING)
  BY <1>1, UrlIs
<1>3. /\ TheQuery # << >> /\ QueryState(TheQuery, query)
      /\ ParamsRead(TheQuery, params, PartsTo(TheQuery, query.i))
  BY <1>1 DEF Stage
<1>4. Asked = QueryReference(TheQuery)
  BY <1>3 DEF Asked, TheQuery
<1>5. query.i \in 0 .. Len(TheQuery)
  BY <1>3 DEF QueryState
<1>6. Len(TheQuery) \in Nat
  BY <1>2
<1> QED BY <1>1, <1>2, <1>3, <1>4, <1>5, <1>6

LEMMA ServiceEqualSign ==
  ASSUME ServiceInv, EqualSign
  PROVE  ServiceInv'
<1>1. phase = "query" /\ phase' = "query" /\ ServiceNext /\ params' = params
  BY DEF EqualSign, AtChar, InQuery, ServiceNext, ParseQueryString
<1>2. /\ Q = TheQuery /\ TheQuery # << >> /\ TheQuery \in Seq(STRING)
      /\ QueryState(TheQuery, query) /\ ParamsRead(TheQuery, params, PartsTo(TheQuery, query.i))
      /\ query.i \in 0 .. Len(TheQuery) /\ Len(TheQuery) \in Nat
  BY <1>1, QueryFacts
<1>3. query.i < Len(TheQuery) /\ TheQuery[query.i + 1] = "=" /\ ~query.current_is_value
  BY <1>2 DEF EqualSign, AtChar, InQuery
<1>4. query' = MkQuery(query.i + 1, TRUE, query.i + 1, 0,
                       SubSeq(TheQuery, query.started_from + 1, query.started_from + query.cur_len))
  BY <1>2 DEF EqualSign, MkQuery, Text
<1>5. QueryState(TheQuery, query')
  <2> DEFINE q == TheQuery
  <2>1. /\ q \in Seq(STRING) /\ QueryState(q, query) /\ query.i < Len(q) /\ q[query.i + 1] = "="
        /\ ~query.current_is_value
    BY <1>2, <1>3
  <2> HIDE DEF q
  <2>2. QueryState(q, MkQuery(query.i + 1, TRUE, query.i + 1, 0,
                             SubSeq(q, query.started_from + 1, query.started_from + query.cur_len)))
    BY <2>1, QueryAtEqual
  <2> QED BY <1>4, <2>2 DEF q
<1>6. PartsTo(TheQuery, query.i + 1) = PartsTo(TheQuery, query.i)
  <2>1. PICK c : Current(TheQuery, query.i, c)
    BY <1>2, QueryCurrent
  <2> QED BY <1>2, <1>3, <2>1, CurrentIs
<1>7. query'.i = query.i + 1
  BY <1>4 DEF MkQuery
<1>8. UNCHANGED <<vars, method, version, handler, response, sent, called, got>>
  BY DEF EqualSign
<1> QED BY <1>1, <1>2, <1>5, <1>6, <1>7, <1>8, ServiceInQuery

LEMMA ServiceOtherChar ==
  ASSUME ServiceInv, OtherChar
  PROVE  ServiceInv'
<1>1. phase = "query" /\ phase' = "query" /\ ServiceNext /\ params' = params
  BY DEF OtherChar, AtChar, InQuery, ServiceNext, ParseQueryString
<1>2. /\ Q = TheQuery /\ TheQuery # << >> /\ TheQuery \in Seq(STRING)
      /\ QueryState(TheQuery, query) /\ ParamsRead(TheQuery, params, PartsTo(TheQuery, query.i))
      /\ query.i \in 0 .. Len(TheQuery) /\ Len(TheQuery) \in Nat
  BY <1>1, QueryFacts
<1>3. query.i < Len(TheQuery) /\ TheQuery[query.i + 1] \notin {"=", "&"}
  BY <1>2 DEF OtherChar, AtChar, InQuery
<1>4. query' = [query EXCEPT !.i = @ + 1, !.cur_len = @ + 1]
  BY DEF OtherChar
<1>5. QueryState(TheQuery, query')
  <2> DEFINE q == TheQuery
  <2>1. q \in Seq(STRING) /\ QueryState(q, query) /\ query.i < Len(q) /\ q[query.i + 1] \notin {"=", "&"}
    BY <1>2, <1>3
  <2> HIDE DEF q
  <2>2. QueryState(q, [query EXCEPT !.i = @ + 1, !.cur_len = @ + 1])
    BY <2>1, QueryAtOther, Zenon
  <2> QED BY <1>4, <2>2, Zenon DEF q
<1>6. PartsTo(TheQuery, query.i + 1) = PartsTo(TheQuery, query.i)
  <2>1. PICK c : Current(TheQuery, query.i, c)
    BY <1>2, QueryCurrent
  <2> QED BY <1>2, <1>3, <2>1, CurrentIs
<1>7. query'.i = query.i + 1
  <2>1. query = [i |-> query.i, current_is_value |-> query.current_is_value, started_from |-> query.started_from,
                 cur_len |-> query.cur_len, key |-> query.key]
    BY <1>2 DEF QueryState
  <2> QED BY <1>4, <2>1
<1>8. UNCHANGED <<vars, method, version, handler, response, sent, called, got>>
  BY DEF OtherChar
<1> QED BY <1>1, <1>2, <1>5, <1>6, <1>7, <1>8, ServiceInQuery

\* At '&' and at the end, the parameter being read is complete.
LEMMA PartDone ==
  ASSUME ServiceInv, phase = "query", query.i = Len(TheQuery) \/ TheQuery[query.i + 1] = "&"
  PROVE  \E c : /\ c \in Int /\ Current(TheQuery, query.i, c)
                /\ \A m, n \in Equals(PartAt(TheQuery, c)) : m = n
                /\ Named(TheQuery, c) <=> query.current_is_value
                /\ ~query.current_is_value => query.key = None
                /\ query.current_is_value =>
                     /\ query.key = KeyAt(TheQuery, c) /\ query.key \in Seq(STRING)
                     /\ Text = ValueAt(TheQuery, c) /\ ValueAt(TheQuery, c) \in Seq(STRING)
<1> DEFINE q == TheQuery
<1> DEFINE w == query
<1>1. Q = q /\ q \in Seq(STRING) /\ QueryState(q, w) /\ w.i \in 0 .. Len(q) /\ (w.i = Len(q) \/ q[w.i + 1] = "&")
  BY QueryFacts
<1>2. Text = SubSeq(q, w.started_from + 1, w.started_from + w.cur_len)
  BY <1>1 DEF Text
<1> HIDE DEF q, w
<1>3. PICK c : /\ Current(q, w.i, c) /\ c \in Int
               /\ ~w.current_is_value => w.key = None /\ Plain(q, c, w.i)
               /\ w.current_is_value =>
                    /\ w.started_from \in c .. w.i /\ q[w.started_from] = "="
                    /\ Plain(q, c, w.started_from - 1) /\ Plain(q, w.started_from + 1, w.i)
                    /\ w.cur_len = w.i - w.started_from
                    /\ w.key = SubSeq(q, c, w.started_from - 1) \o (IF c = 1 THEN << >> ELSE <<"=">>)
  BY <1>1, QueryCurrent
<1>4. Reaches(q, c, w.i + 1)
  BY <1>1, <1>3, CurrentIs
<1>5. /\ \A m, n \in Equals(PartAt(q, c)) : m = n
      /\ Named(q, c) <=> w.current_is_value
      /\ w.current_is_value =>
           /\ w.key = KeyAt(q, c) /\ w.key \in Seq(STRING)
           /\ SubSeq(q, w.started_from + 1, w.started_from + w.cur_len) = ValueAt(q, c)
           /\ ValueAt(q, c) \in Seq(STRING)
  BY <1>1, <1>3, <1>4, PartRead
<1>6. /\ c \in Int /\ Current(q, w.i, c) /\ (~w.current_is_value => w.key = None)
      /\ w.current_is_value => Text = ValueAt(q, c)
  BY <1>2, <1>3, <1>5
<1> WITNESS c
<1> QED BY <1>5, <1>6 DEF q, w

\* RST_map_insert of the parameter that ends here.
LEMMA ParamInserted ==
  ASSUME ServiceInv, phase = "query", query.i = Len(TheQuery) \/ TheQuery[query.i + 1] = "&", InsertParam
  PROVE  /\ query.i = Len(TheQuery) => ParamsRead(TheQuery, params', Starts(TheQuery))
         /\ query.i < Len(TheQuery) => ParamsRead(TheQuery, params', PartsTo(TheQuery, query.i + 1))
<1> DEFINE q == TheQuery
<1> DEFINE i == query.i
<1> DEFINE D == PartsTo(q, i)
<1> DEFINE v == IF query.current_is_value THEN Text ELSE << >>
<1>1. /\ q \in Seq(STRING) /\ i \in 0 .. Len(q) /\ QueryState(q, query) /\ ParamsRead(q, params, D)
      /\ Len(q) \in Nat
  BY QueryFacts
<1>2. PICK c : /\ c \in Int /\ Current(q, i, c)
               /\ \A m, n \in Equals(PartAt(q, c)) : m = n
               /\ Named(q, c) <=> query.current_is_value
               /\ ~query.current_is_value => query.key = None
               /\ query.current_is_value =>
                    /\ query.key = KeyAt(q, c) /\ query.key \in Seq(STRING)
                    /\ Text = ValueAt(q, c) /\ ValueAt(q, c) \in Seq(STRING)
  BY PartDone
<1>3. ~FindCrashes(params, query.key) /\ params' = Inserted(params, query.key, v)
  BY DEF InsertParam, Inserted
<1>4. v \in Seq(STRING) /\ (Named(q, c) => v = ValueAt(q, c))
  <2>1. CASE query.current_is_value
    BY <1>2, <2>1
  <2>2. CASE ~query.current_is_value
    <3>1. << >> \in Seq(STRING) /\ ~Named(q, c) /\ v = << >>
      BY <1>2, <2>2, EmptySeq
    <3> QED BY <3>1
  <2> QED BY <2>1, <2>2
<1> HIDE DEF v, i
<1>5. /\ D = {s \in Starts(q) : s < c} /\ Starts(q) \subseteq Int
      /\ i = Len(q) => Starts(q) = D \cup {c}
      /\ i < Len(q) /\ q[i + 1] = "&" => PartsTo(q, i + 1) = D \cup {c}
  BY <1>1, <1>2, CurrentIs, StartsAre
<1> HIDE DEF D, q
<1>6. ParamsRead(q, params', D \cup {c})
  <2>1. D \subseteq Int /\ \A s \in D : s < c
    BY <1>5
  <2>2. /\ Named(q, c) => query.key = KeyAt(q, c) /\ v = ValueAt(q, c) /\ query.key \in Seq(STRING)
        /\ ~Named(q, c) => query.key = None
        /\ \A m, n \in Equals(PartAt(q, c)) : m = n
    BY <1>2, <1>4
  <2>3. ParamsRead(q, Inserted(params, query.key, v), D \cup {c})
    BY <1>1, <1>2, <1>3, <1>4, <2>1, <2>2, InsertRead
  <2> QED BY <1>3, <2>3
<1>7. i = Len(q) => ParamsRead(q, params', Starts(q))
  BY <1>5, <1>6
<1>8. i < Len(q) => ParamsRead(q, params', PartsTo(q, i + 1))
  <2>1. i < Len(q) => q[i + 1] = "&"
    BY <1>1 DEF q, i
  <2> QED BY <1>5, <1>6, <2>1
<1> QED BY <1>7, <1>8 DEF q, i

LEMMA ServiceAmpersand ==
  ASSUME ServiceInv, Ampersand
  PROVE  ServiceInv'
<1>1. phase = "query" /\ phase' = "query" /\ ServiceNext /\ InsertParam
  BY DEF Ampersand, AtChar, InQuery, ServiceNext, ParseQueryString
<1>2. /\ Q = TheQuery /\ TheQuery # << >> /\ TheQuery \in Seq(STRING)
      /\ query.i \in 0 .. Len(TheQuery) /\ Len(TheQuery) \in Nat
  BY <1>1, QueryFacts
<1>3. query.i < Len(TheQuery) /\ TheQuery[query.i + 1] = "&"
  BY <1>2 DEF Ampersand, AtChar, InQuery
<1>4. query' = MkQuery(query.i + 1, FALSE, query.i + 1, 1, None)
  BY DEF Ampersand, AfterAmpersand, MkQuery
<1>5. QueryState(TheQuery, query')
  <2>1. query.i \in Nat
    BY <1>2
  <2>2. QueryState(TheQuery, MkQuery(query.i + 1, FALSE, query.i + 1, 1, None))
    BY <1>2, <1>3, <2>1, QueryAtAmpersand
  <2> QED BY <1>4, <2>2
<1>6. ParamsRead(TheQuery, params', PartsTo(TheQuery, query.i + 1))
  BY <1>1, <1>3, ParamInserted
<1>7. query'.i = query.i + 1
  BY <1>4 DEF MkQuery
<1>8. UNCHANGED <<vars, method, version, handler, response, sent, called, got>>
  BY DEF Ampersand
<1> QED BY <1>1, <1>2, <1>5, <1>6, <1>7, <1>8, ServiceInQuery

LEMMA ServiceQueryEnd ==
  ASSUME ServiceInv, QueryEnd
  PROVE  ServiceInv'
<1>1. phase = "query" /\ ServiceNext /\ InsertParam /\ Schedule
  BY DEF QueryEnd, AtEnd, ServiceNext, ParseQueryString
<1>2. Q = TheQuery /\ TheQuery \in Seq(STRING) /\ Asked = QueryReference(TheQuery)
  BY <1>1, QueryFacts
<1>3. query.i = Len(TheQuery)
  BY <1>2 DEF QueryEnd, AtEnd
<1>4. ParamsRead(TheQuery, params', Starts(TheQuery))
  BY <1>1, <1>3, ParamInserted
<1>5. ParamsRight(params')
  BY <1>2, <1>4, AllRead DEF ParamsRight, ParamsRead
<1>6. UNCHANGED <<vars, method, version, query, called, got>>
  BY DEF QueryEnd
<1> QED BY <1>1, <1>5, <1>6, ServiceSchedule

MkResponse(v, s, m, h, b) == [version |-> v, status |-> s, message |-> m, headers |-> h, body |-> b]

IsResponse(r) == r = MkResponse(r.version, r.status, r.message, r.headers, r.body)

LEMMA SetHeaderIs ==
  ASSUME NEW r, IsResponse(r), NEW n, NEW x
  PROVE  set_header(r, n, x) = MkResponse(r.version, r.status, r.message, MapInsert(r.headers, n, x), r.body)
<1> DEFINE h == MapInsert(r.headers, n, x)
<1>1. set_header(r, n, x) = [r EXCEPT !.headers = h]
  BY DEF set_header
<1> HIDE DEF h
<1>2. set_header(r, n, x) = MkResponse(r.version, r.status, r.message, h, r.body)
  BY <1>1 DEF IsResponse, MkResponse
<1> QED BY <1>2 DEF h

LEMMA SetBodyIs ==
  ASSUME NEW r, IsResponse(r), NEW l
  PROVE  set_body_n(r, l) = MkResponse(r.version, r.status, r.message,
                                       MapInsert(r.headers, "Content-Length", r.body + l), r.body + l)
<1> DEFINE b == r.body + l
<1> DEFINE s == [r EXCEPT !.body = b]
<1>1. set_body_n(r, l) = set_header(s, "Content-Length", s.body)
  BY DEF set_body_n
<1>2. s = MkResponse(r.version, r.status, r.message, r.headers, b)
  <2> HIDE DEF b
  <2> QED BY DEF IsResponse, MkResponse
<1> HIDE DEF b, s
<1>3. /\ s.version = r.version /\ s.status = r.status /\ s.message = r.message /\ s.headers = r.headers /\ s.body = b
      /\ IsResponse(s)
  BY <1>2 DEF MkResponse, IsResponse
<1>4. set_header(s, "Content-Length", b) =
        MkResponse(r.version, r.status, r.message, MapInsert(r.headers, "Content-Length", b), b)
  BY <1>3, SetHeaderIs
<1> QED BY <1>1, <1>3, <1>4 DEF b

LEMMA SetErrorIs ==
  ASSUME NEW r, IsResponse(r), r.body \in Nat, NEW st, NEW m
  PROVE  set_error(r, st, m) = MkResponse(version, st, m, MapInsert(r.headers, "Content-Length", r.body), r.body)
<1> DEFINE s == [set_status_message([r EXCEPT !.status = st], m) EXCEPT !.version = version]
<1>1. set_error(r, st, m) = set_body_n(s, 0)
  BY DEF set_error
<1>2. s = MkResponse(version, st, m, r.headers, r.body)
  <2> DEFINE x == [r EXCEPT !.status = st]
  <2> DEFINE y == [x EXCEPT !.message = m]
  <2>1. x = MkResponse(r.version, st, r.message, r.headers, r.body)
    BY DEF IsResponse, MkResponse
  <2>2. s = [y EXCEPT !.version = version]
    BY DEF set_status_message
  <2> HIDE DEF x
  <2>3. y = MkResponse(r.version, st, m, r.headers, r.body)
    BY <2>1 DEF MkResponse
  <2> HIDE DEF y
  <2> QED BY <2>2, <2>3 DEF MkResponse
<1> HIDE DEF s
<1>3. /\ s.version = version /\ s.status = st /\ s.message = m /\ s.headers = r.headers /\ s.body = r.body
      /\ IsResponse(s) /\ s.body + 0 = r.body
  BY <1>2 DEF MkResponse, IsResponse
<1>4. set_body_n(s, 0) = MkResponse(s.version, s.status, s.message,
                                    MapInsert(s.headers, "Content-Length", s.body + 0), s.body + 0)
  BY <1>3, SetBodyIs
<1> QED BY <1>1, <1>3, <1>4

LEMMA SecondEqualIs ==
  ASSUME SecondEqual
  PROVE  /\ AtChar("=") /\ query.current_is_value
         /\ phase' = "sent" /\ sent' = set_error(RST_response_init, 400, BadRequestText)
         /\ UNCHANGED <<vars, method, version, query, handler, params, called, got>>
BY Zenon DEF SecondEqual, Respond, BadRequestText

LEMMA ServiceSecondEqual ==
  ASSUME ServiceInv, SecondEqual
  PROVE  ServiceInv'
<1> DEFINE q == TheQuery
<1> DEFINE i == query.i
<1>1. phase = "query" /\ ServiceNext
  BY SecondEqualIs, Zenon DEF AtChar, InQuery, ServiceNext, ParseQueryString
<1>2. /\ Q = TheQuery /\ q \in Seq(STRING) /\ Asked = QueryReference(q) /\ i \in 0 .. Len(q) /\ Len(q) \in Nat
      /\ ParserInv /\ Stage /\ state = "finished" /\ QueryState(q, query) /\ ParamsRead(q, params, PartsTo(q, i))
  BY <1>1, QueryFacts
<1>3. i < Len(q) /\ q[i + 1] = "=" /\ query.current_is_value
  BY <1>2, SecondEqualIs DEF AtChar, InQuery
<1>4. PICK c : Current(q, i, c) /\ c \in Int /\ query.started_from \in c .. i /\ q[query.started_from] = "="
  BY <1>2, <1>3, QueryCurrent
<1>5. c \in Starts(q) /\ c \in 1 .. i + 1 /\ PartsTo(q, i) = {s \in Starts(q) : s < c} /\ \A n \in c .. i : q[n] # "&"
  BY <1>2, <1>4, CurrentIs DEF Current
<1> HIDE DEF i, q
<1>6. Twice(q, c)
  <2>1. PICK a : Reaches(q, c, a)
    BY <1>2, <1>5, PartReaches
  <2>2. a \in c .. Len(q) + 1 /\ (a = Len(q) + 1 \/ q[a] = "&") /\ a \in Int
    BY <1>2, <1>5, <2>1 DEF Reaches
  <2>3. a > i + 1
    <3>1. CASE a = Len(q) + 1
      BY <1>2, <1>3, <3>1
    <3>2. CASE q[a] = "&"
      <4>1. a \notin c .. i /\ a # i + 1
        BY <1>3, <1>5, <3>2
      <4> QED BY ONLY <1>2, <1>4, <2>2, <4>1
    <3> QED BY <2>2, <3>1, <3>2
  <2>4. Equals(PartAt(q, c)) = {n \in 1 .. a - c : q[c + n - 1] = "="}
    BY <1>2, <2>1, PartIs
  <2> DEFINE f == query.started_from
  <2> DEFINE x == (f - c) + 1
  <2> DEFINE y == (i - c) + 2
  <2>5. x \in 1 .. a - c /\ y \in 1 .. a - c /\ x # y /\ c + x - 1 = f /\ c + y - 1 = i + 1
    <3>1. f \in c .. i /\ i \in Int /\ c \in Int /\ a \in Int /\ c <= i + 1
      BY <1>2, <1>4, <1>5, <2>2
    <3> HIDE DEF f
    <3> QED BY ONLY <2>3, <3>1
  <2> HIDE DEF x, y
  <2>6. x \in Equals(PartAt(q, c)) /\ y \in Equals(PartAt(q, c))
    BY <1>3, <1>4, <2>4, <2>5 DEF f
  <2> QED BY <2>5, <2>6 DEF Twice
<1>7. Asked.bad /\ (Contains(params, None) <=> Asked.nameless)
  <2>1. ParamsRead(q, params, {s \in Starts(q) : s < c})
    BY <1>2, <1>5
  <2> QED BY <1>2, <1>5, <1>6, <2>1, BadRead
<1>8. /\ phase' = "sent" /\ sent' = set_error(RST_response_init, 400, BadRequestText)
      /\ UNCHANGED <<vars, method, version, query, handler, params, called, got>>
  BY SecondEqualIs
<1>9. sent' = BadRequest
  <2> DEFINE r == RST_response_init
  <2>1. IsResponse(r) /\ r.body = 0 /\ r.headers = [h \in {} |-> 0]
    BY DEF RST_response_init, IsResponse, MkResponse
  <2> HIDE DEF r
  <2>2. set_error(r, 400, BadRequestText) =
          MkResponse(version, 400, BadRequestText, MapInsert(r.headers, "Content-Length", r.body), r.body)
    BY <2>1, SetErrorIs
  <2>3. MapInsert(r.headers, "Content-Length", 0) = [h \in {"Content-Length"} |-> 0]
    BY <2>1 DEF MapInsert
  <2>4. version = stream[3]
    BY <1>2 DEF Stage
  <2>5. sent' = MkResponse(stream[3], 400, BadRequestText, [h \in {"Content-Length"} |-> 0], 0)
    BY <1>8, <2>1, <2>2, <2>3, <2>4 DEF r
  <2> QED BY <2>5 DEF BadRequest, MkResponse
<1>10. ParserInv' /\ Asked' = Asked /\ BadRequest' = BadRequest /\ state' = state /\ stream' = stream
  <2>1. [Next]_vars /\ state' = state
    BY <1>1, <1>8, ServiceParses DEF vars, parserVars
  <2> QED BY <1>1, <1>2, <2>1, ParserStep, SameStream
<1>11. /\ handler' = None /\ called' = << >> /\ UNCHANGED <<method, version, params>> /\ params \in Seq(Param)
  BY <1>1, <1>2, <1>8 DEF Stage
<1>12. Stage'
  BY <1>2, <1>8, <1>10, <1>11 DEF Stage, Stages
<1>13. Served' /\ Aborting'
  BY <1>8, <1>10, <1>11, NoneMissing, MissingStays DEF Served, Aborting
<1>14. RefusedQuery'
  BY <1>7, <1>9, <1>10, <1>11 DEF RefusedQuery, Contains
<1>15. Responding'
  <2>1. called' \in Seq(CallNames \X (Nat \cup {None}))
    BY <1>11, EmptySeq
  <2> QED BY <1>8, <1>11, <2>1 DEF Responding
<1> QED BY <1>10, <1>12, <1>13, <1>14, <1>15 DEF ServiceInv

LEMMA ServiceInsertCrash ==
  ASSUME ServiceInv, InsertCrash
  PROVE  ServiceInv'
<1> DEFINE q == TheQuery
<1> DEFINE i == query.i
<1>1. phase = "query" /\ ServiceNext
  BY DEF InsertCrash, AtChar, InQuery, AtEnd, ServiceNext, ParseQueryString
<1>2. /\ Q = TheQuery /\ q \in Seq(STRING) /\ Asked = QueryReference(q) /\ i \in 0 .. Len(q) /\ Len(q) \in Nat
      /\ ParserInv /\ Stage /\ state = "finished" /\ ParamsRead(q, params, PartsTo(q, i))
  BY <1>1, QueryFacts
<1>3. i = Len(q) \/ q[i + 1] = "&"
  BY <1>2 DEF InsertCrash, AtChar, AtEnd
<1>4. PICK c : /\ c \in Int /\ Current(q, i, c)
               /\ \A m, n \in Equals(PartAt(q, c)) : m = n
               /\ Named(q, c) <=> query.current_is_value
               /\ ~query.current_is_value => query.key = None
               /\ query.current_is_value => query.key \in Seq(STRING)
  BY <1>1, <1>3, PartDone
<1>5. c \in Starts(q) /\ PartsTo(q, i) = {s \in Starts(q) : s < c} /\ Starts(q) \subseteq Int
  <2>1. Starts(q) \subseteq Int
    BY <1>2, StartsAre
  <2>2. PartsTo(q, i) = {s \in Starts(q) : s < c}
    BY <1>2, <1>4, CurrentIs
  <2> QED BY <1>4, <2>1, <2>2 DEF Current
<1> HIDE DEF i, q
<1>6. Asked.nameless
  <2>1. \A s \in Starts(q) : s <= c => ~Twice(q, s)
    <3>1. ASSUME NEW s \in Starts(q), s < c PROVE ~Twice(q, s)
      BY <1>2, <1>5, <3>1 DEF ParamsRead, Twice
    <3>2. ~Twice(q, c)
      BY <1>4 DEF Twice
    <3> QED BY <1>4, <1>5, <3>1, <3>2
  <2>2. \E n \in Starts(q) : n <= c /\ ~Named(q, n)
    <3>1. CASE query.key = None
      <4>1. ~query.current_is_value
        BY <1>4, <3>1, ParserAssumption
      <4>2. ~Named(q, c) /\ c <= c
        BY <1>4, <4>1
      <4> QED BY <1>5, <4>2
    <3>2. CASE query.key # None
      <4>1. Contains(params, None)
        BY <3>2 DEF InsertCrash, FindCrashes, Contains
      <4>2. PICK s \in PartsTo(q, i) : ~Named(q, s)
        BY <1>2, <4>1 DEF ParamsRead
      <4>3. s \in Starts(q) /\ s <= c
        BY <1>4, <1>5
      <4> QED BY <4>2, <4>3
    <3> QED BY <3>1, <3>2
  <2> QED BY <1>2, <1>4, <2>1, <2>2, NamelessRead
<1>7. /\ phase' = "aborted" /\ UNCHANGED <<vars, method, version, query, handler, params, sent, called, got>>
  BY DEF InsertCrash, Abort
<1>8. ParserInv' /\ Asked' = Asked /\ state' = state /\ stream' = stream
  <2>1. [Next]_vars /\ state' = state
    BY <1>1, <1>7, ServiceParses DEF vars, parserVars
  <2> QED BY <1>1, <1>2, <2>1, ParserStep, SameStream
<1>9. /\ handler' = None /\ called' = << >> /\ sent' = None /\ UNCHANGED <<method, version, params>> /\ params \in Seq(Param)
  BY <1>1, <1>2, <1>7 DEF Stage
<1>10. Stage'
  BY <1>2, <1>7, <1>8, <1>9 DEF Stage, Stages
<1>11. Served' /\ Aborting' /\ RefusedQuery'
  BY <1>6, <1>7, <1>8, <1>9, NoneMissing, MissingStays DEF Served, Aborting, RefusedQuery, Answered
<1>12. Responding'
  <2>1. called' \in Seq(CallNames \X (Nat \cup {None}))
    BY <1>9, EmptySeq
  <2> QED BY <1>7, <1>9, <2>1 DEF Responding
<1> QED BY <1>8, <1>10, <1>11, <1>12 DEF ServiceInv

-----------------------------------------------------------------------------
(***************************************************************************)
(* The handler and its response.                                           *)
(***************************************************************************)
\* What a call makes of the response r: with a body of length l, or without.
Makes(r, name, l, t) ==
  /\ IsResponse(t) /\ t.status \in {0, 200, 404}
  /\ IF SetsMessage(<<name, l>>) THEN t.message # None ELSE t.message = r.message
  /\ l = None => /\ t.body = r.body
                 /\ "Content-Length" \in DOMAIN t.headers <=> "Content-Length" \in DOMAIN r.headers
                 /\ "Content-Length" \in DOMAIN r.headers =>
                      t.headers["Content-Length"] = r.headers["Content-Length"]
  /\ l # None => /\ t.body = r.body + l
                 /\ t.headers = MapInsert(r.headers, "Content-Length", t.body)

LEMMA BuiltMore ==
  ASSUME NEW calls \in Seq(CallNames \X (Nat \cup {None})), NEW r, BuiltBy(r, calls),
         NEW name \in CallNames, NEW l \in Nat \cup {None}, NEW t, Makes(r, name, l, t)
  PROVE  BuiltBy(t, Append(calls, <<name, l>>))
<1> DEFINE e == <<name, l>>
<1> DEFINE new == Append(calls, e)
<1> DEFINE z == Len(calls) + 1
<1>0. /\ DOMAIN new = DOMAIN calls \cup {z} /\ DOMAIN calls = 1 .. Len(calls) /\ Len(calls) \in Nat
      /\ new[z] = e /\ \A n \in DOMAIN calls : new[n] = calls[n]
  <2>1. e \in CallNames \X (Nat \cup {None})
    OBVIOUS
  <2> HIDE DEF e
  <2> QED BY <2>1
<1>1. e[2] = l /\ \A n \in DOMAIN calls : n < z /\ calls[n][2] \in Nat \cup {None}
  BY <1>0
<1>2. z \notin DOMAIN calls
  BY <1>0
<1> HIDE DEF new, z
<1> DEFINE h == t.headers
<1> DEFINE g == r.headers
<1> DEFINE k == "Content-Length"
<1>3. /\ r.body \in Nat
      /\ r.message = None <=> \A n \in DOMAIN calls : ~SetsMessage(calls[n])
      /\ k \in DOMAIN g <=> \E n \in DOMAIN calls : calls[n][2] # None
      /\ (\A n \in DOMAIN calls : calls[n][2] = None) => r.body = 0
      /\ k \in DOMAIN g =>
           /\ g[k] \in 0 .. r.body
           /\ \A f \in DOMAIN calls :
                /\ calls[f][2] # None
                /\ \A n \in DOMAIN calls : calls[n][2] = None \/ n = f \/ (f < n /\ calls[n][2] = 0)
                => g[k] = r.body
  BY DEF BuiltBy
<1>4. t.message = None <=> \A n \in DOMAIN new : ~SetsMessage(new[n])
  <2>1. (SetsMessage(e) => t.message # None) /\ (~SetsMessage(e) => t.message = r.message)
    BY DEF Makes
  <2> HIDE DEF e
  <2>2. (\A n \in DOMAIN new : ~SetsMessage(new[n])) <=> (\A n \in DOMAIN calls : ~SetsMessage(calls[n])) /\ ~SetsMessage(e)
    <3>1. ASSUME \A n \in DOMAIN new : ~SetsMessage(new[n])
          PROVE  (\A n \in DOMAIN calls : ~SetsMessage(calls[n])) /\ ~SetsMessage(e)
      <4>1. ~SetsMessage(new[z])
        BY <1>0, <3>1
      <4>2. ASSUME NEW n \in DOMAIN calls PROVE ~SetsMessage(calls[n])
        <5>1. ~SetsMessage(new[n]) /\ new[n] = calls[n]
          BY <1>0, <3>1
        <5> QED BY <5>1
      <4> QED BY <1>0, <4>1, <4>2
    <3>2. ASSUME \A n \in DOMAIN calls : ~SetsMessage(calls[n]), ~SetsMessage(e), NEW n \in DOMAIN new
          PROVE  ~SetsMessage(new[n])
      <4>1. CASE n = z
        BY <1>0, <3>2, <4>1
      <4>2. CASE n \in DOMAIN calls
        <5>1. ~SetsMessage(calls[n]) /\ new[n] = calls[n]
          BY <1>0, <3>2, <4>2
        <5> QED BY <5>1
      <4> QED BY <1>0, <4>1, <4>2
    <3> QED BY <3>1, <3>2
  <2> QED BY <1>3, <2>1, <2>2, Zenon
<1> HIDE DEF e
<1>5. ASSUME l = None
      PROVE  /\ t.body \in Nat
             /\ k \in DOMAIN h <=> \E n \in DOMAIN new : new[n][2] # None
             /\ (\A n \in DOMAIN new : new[n][2] = None) => t.body = 0
             /\ k \in DOMAIN h =>
                  /\ h[k] \in 0 .. t.body
                  /\ \A f \in DOMAIN new :
                       /\ new[f][2] # None
                       /\ \A n \in DOMAIN new : new[n][2] = None \/ n = f \/ (f < n /\ new[n][2] = 0)
                       => h[k] = t.body
  <2>1. t.body = r.body /\ (k \in DOMAIN h <=> k \in DOMAIN g) /\ (k \in DOMAIN g => h[k] = g[k])
    BY <1>5 DEF Makes
  <2>2. new[z][2] = None
    BY <1>0, <1>1, <1>5
  <2> HIDE DEF h, g, k
  <2>3. (\E n \in DOMAIN new : new[n][2] # None) <=> \E n \in DOMAIN calls : calls[n][2] # None
    BY <1>0, <2>2
  <2>4. ASSUME k \in DOMAIN h, NEW f \in DOMAIN new, new[f][2] # None,
               \A n \in DOMAIN new : new[n][2] = None \/ n = f \/ (f < n /\ new[n][2] = 0)
        PROVE  h[k] = t.body
    <3>1. f \in DOMAIN calls /\ calls[f][2] # None
      BY <1>0, <2>2, <2>4
    <3>2. \A n \in DOMAIN calls : calls[n][2] = None \/ n = f \/ (f < n /\ calls[n][2] = 0)
      BY <1>0, <2>4
    <3> QED BY <1>3, <2>1, <2>4, <3>1, <3>2
  <2> QED BY <1>3, <2>1, <2>3, <2>4
<1>6. ASSUME l # None
      PROVE  /\ t.body \in Nat
             /\ k \in DOMAIN h <=> \E n \in DOMAIN new : new[n][2] # None
             /\ (\A n \in DOMAIN new : new[n][2] = None) => t.body = 0
             /\ k \in DOMAIN h =>
                  /\ h[k] \in 0 .. t.body
                  /\ \A f \in DOMAIN new :
                       /\ new[f][2] # None
                       /\ \A n \in DOMAIN new : new[n][2] = None \/ n = f \/ (f < n /\ new[n][2] = 0)
                       => h[k] = t.body
  <2>1. t.body = r.body + l /\ l \in Nat /\ t.body \in Nat /\ h = MapInsert(g, k, t.body)
    BY <1>3, <1>6 DEF Makes
  <2>2. new[z][2] = l /\ z \in DOMAIN new
    BY <1>0, <1>1
  <2> HIDE DEF h, g, k
  <2>3. k \in DOMAIN h /\ h[k] = IF k \in DOMAIN g THEN g[k] ELSE t.body
    BY <2>1 DEF MapInsert
  <2>4. h[k] \in 0 .. t.body
    <3>1. CASE k \in DOMAIN g
      <4>1. g[k] \in 0 .. r.body
        BY <1>3, <3>1
      <4> QED BY ONLY <1>3, <2>1, <2>3, <3>1, <4>1
    <3>2. CASE k \notin DOMAIN g
      BY <2>1, <2>3, <3>2
    <3> QED BY <3>1, <3>2
  <2>5. ASSUME NEW f \in DOMAIN new, new[f][2] # None,
               \A n \in DOMAIN new : new[n][2] = None \/ n = f \/ (f < n /\ new[n][2] = 0)
        PROVE  h[k] = t.body
    <3>1. CASE f = z
      <4>1. ASSUME NEW n \in DOMAIN calls, calls[n][2] # None PROVE FALSE
        <5>1. n # z /\ n < z /\ n \in Int /\ z \in Int
          BY <1>0, <1>1, <1>2 DEF z
        <5>2. n = z \/ z < n
          BY <1>0, <2>5, <3>1, <4>1
        <5> QED BY ONLY <5>1, <5>2
      <4> QED BY <1>3, <2>3, <4>1
    <3>2. CASE f # z
      <4>1. f \in DOMAIN calls /\ calls[f][2] # None
        BY <1>0, <2>5, <3>2
      <4>2. \A n \in DOMAIN calls : calls[n][2] = None \/ n = f \/ (f < n /\ calls[n][2] = 0)
        BY <1>0, <2>5
      <4>3. l = 0
        BY <1>6, <2>2, <2>5, <3>2
      <4>4. k \in DOMAIN g /\ g[k] = r.body
        BY <1>3, <4>1, <4>2
      <4>5. t.body = r.body
        BY <1>3, <2>1, <4>3
      <4> QED BY <2>3, <4>4, <4>5
    <3> QED BY <3>1, <3>2
  <2>6. ~\A n \in DOMAIN new : new[n][2] = None
    BY <1>6, <2>2
  <2> QED BY <2>1, <2>3, <2>4, <2>5, <2>6
<1>7. /\ t.body \in Nat
      /\ k \in DOMAIN h <=> \E n \in DOMAIN new : new[n][2] # None
      /\ (\A n \in DOMAIN new : new[n][2] = None) => t.body = 0
      /\ k \in DOMAIN h =>
           /\ h[k] \in 0 .. t.body
           /\ \A f \in DOMAIN new :
                /\ new[f][2] # None
                /\ \A n \in DOMAIN new : new[n][2] = None \/ n = f \/ (f < n /\ new[n][2] = 0)
                => h[k] = t.body
  BY <1>5, <1>6
<1>8. /\ t = [version |-> t.version, status |-> t.status, message |-> t.message, headers |-> t.headers,
              body |-> t.body]
  BY DEF Makes, IsResponse, MkResponse
<1>9. t.status \in {0, 200, 404}
  BY DEF Makes
<1>10. BuiltBy(t, new)
  BY ONLY <1>4, <1>7, <1>8, <1>9, Zenon DEF BuiltBy
<1> QED BY <1>10 DEF new, e

\* A step of the handler on its response.
LEMMA ServiceHandlerCall ==
  ASSUME ServiceInv, ServiceNext, NEW name \in CallNames, NEW l \in Nat \cup {None}, NEW t,
         HandlerCall(name, l, t), BuiltBy(t, Append(called, <<name, l>>))
  PROVE  ServiceInv'
<1>0. ParserInv /\ Stage /\ Served /\ phase = "handler" /\ called \in Seq(CallNames \X (Nat \cup {None}))
  BY DEF ServiceInv, HandlerCall, Responding
<1>1. /\ called' = Append(called, <<name, l>>) /\ response' = t
      /\ UNCHANGED <<vars, method, version, phase, query, handler, params, sent, got>>
  BY DEF HandlerCall
<1>2. ParserInv' /\ stream' = stream /\ Asked' = Asked /\ Wanted' = Wanted /\ TheQuery' = TheQuery /\ state' = state
  <2>1. [Next]_vars /\ state' = state
    BY <1>1, ServiceParses DEF vars, parserVars
  <2> QED BY <1>0, <2>1, ParserStep, SameStream
<1>3. handler # None /\ sent = None
  BY <1>0 DEF Stage
<1>4. Stage'
  BY <1>0, <1>1, <1>2 DEF Stage
<1>5. Served'
  BY <1>0, <1>1, <1>2 DEF Served
<1>8. GenericMissing(handler)' = FALSE
  BY <1>0, <1>1, <1>2, NotMissing, MissingStays
<1>6. RefusedQuery' /\ Aborting'
  BY <1>0, <1>1, <1>3, <1>8 DEF RefusedQuery, Aborting
<1>7. Responding'
  <2>1. <<name, l>> \in CallNames \X (Nat \cup {None})
    OBVIOUS
  <2>2. called' \in Seq(CallNames \X (Nat \cup {None}))
    BY <1>0, <1>1, <2>1, AppendProperties
  <2>3. BuiltBy(response', called') /\ ~Answered'
    BY <1>0, <1>1, <1>3 DEF Answered
  <2> QED BY <2>2, <2>3 DEF Responding
<1> QED BY <1>2, <1>4, <1>5, <1>6, <1>7 DEF ServiceInv

LEMMA HandlerFacts ==
  ASSUME ServiceInv, phase = "handler"
  PROVE  /\ BuiltBy(response, called) /\ IsResponse(response) /\ response.body \in Nat
         /\ response.status \in {0, 200, 404}
         /\ called \in Seq(CallNames \X (Nat \cup {None}))
         /\ None \notin Nat
<1>1. BuiltBy(response, called) /\ called \in Seq(CallNames \X (Nat \cup {None}))
  BY DEF ServiceInv, Responding
<1>2. None \notin Nat
  BY ServiceAssumption, Zenon
<1>3. IsResponse(response)
  BY <1>1, Zenon DEF BuiltBy, IsResponse, MkResponse
<1> QED BY <1>1, <1>2, <1>3 DEF BuiltBy

LEMMA ServiceSetBody ==
  ASSUME ServiceInv, NEW len \in 0 .. 2, SetBody(len)
  PROVE  ServiceInv'
<1> DEFINE t == set_body_n(response, len)
<1>1. HandlerCall("set_body", len, t) /\ ServiceNext /\ phase = "handler"
  BY Zenon DEF SetBody, HandlerCall, ServiceNext, Handler
<1>2. /\ BuiltBy(response, called) /\ IsResponse(response) /\ response.body \in Nat
      /\ response.status \in {0, 200, 404} /\ called \in Seq(CallNames \X (Nat \cup {None})) /\ None \notin Nat
  BY <1>1, HandlerFacts
<1>3. t = MkResponse(response.version, response.status, response.message,
                     MapInsert(response.headers, "Content-Length", response.body + len), response.body + len)
  BY <1>2, SetBodyIs
<1> HIDE DEF t
<1>4. /\ IsResponse(t) /\ t.status = response.status /\ t.message = response.message /\ t.body = response.body + len
      /\ t.headers = MapInsert(response.headers, "Content-Length", t.body)
  <2> DEFINE h == MapInsert(response.headers, "Content-Length", response.body + len)
  <2> DEFINE b == response.body + len
  <2>1. t = MkResponse(response.version, response.status, response.message, h, b)
    BY <1>3
  <2> HIDE DEF h, b
  <2>2. IsResponse(t) /\ t.status = response.status /\ t.message = response.message /\ t.body = b /\ t.headers = h
    BY <2>1 DEF IsResponse, MkResponse
  <2> QED BY <2>2 DEF h, b
<1>5. len \in Nat /\ len # None /\ "set_body" \in CallNames /\ ~SetsMessage(<<"set_body", len>>)
  BY <1>2 DEF CallNames, SetsMessage
<1>6. BuiltBy(t, Append(called, <<"set_body", len>>))
  <2>1. Makes(response, "set_body", len, t)
    BY <1>2, <1>4, <1>5 DEF Makes
  <2> QED BY <1>2, <1>5, <2>1, BuiltMore
<1> QED BY <1>1, <1>5, <1>6, ServiceHandlerCall DEF t

LEMMA ServiceSetHeader ==
  ASSUME ServiceInv, NEW name \in HeaderNames, SetHeader(name, Len(called))
  PROVE  ServiceInv'
<1> DEFINE v == Len(called)
<1> DEFINE t == set_header(response, name, v)
<1>1. HandlerCall("set_header", None, t) /\ ServiceNext /\ phase = "handler"
  BY Zenon DEF SetHeader, HandlerCall, ServiceNext, Handler
<1>2. /\ BuiltBy(response, called) /\ IsResponse(response) /\ response.body \in Nat
      /\ response.status \in {0, 200, 404} /\ called \in Seq(CallNames \X (Nat \cup {None})) /\ None \notin Nat
  BY <1>1, HandlerFacts
<1>3. t = MkResponse(response.version, response.status, response.message,
                     MapInsert(response.headers, name, v), response.body)
  BY <1>2, SetHeaderIs
<1> HIDE DEF t, v
<1>4. /\ IsResponse(t) /\ t.status = response.status /\ t.message = response.message /\ t.body = response.body
      /\ t.headers = MapInsert(response.headers, name, v)
  <2> DEFINE h == MapInsert(response.headers, name, v)
  <2>1. t = MkResponse(response.version, response.status, response.message, h, response.body)
    BY <1>3
  <2> HIDE DEF h
  <2>2. IsResponse(t) /\ t.status = response.status /\ t.message = response.message /\ t.body = response.body
        /\ t.headers = h
    BY <2>1 DEF IsResponse, MkResponse
  <2> QED BY <2>2 DEF h
<1>5. name # "Content-Length"
  BY ServiceAssumption, Zenon
<1>6. "set_header" \in CallNames /\ ~SetsMessage(<<"set_header", None>>)
  BY DEF CallNames, SetsMessage
<1>7. BuiltBy(t, Append(called, <<"set_header", None>>))
  <2> DEFINE k == "Content-Length"
  <2>1. k \in DOMAIN t.headers <=> k \in DOMAIN response.headers
    BY <1>4, <1>5 DEF MapInsert
  <2>2. k \in DOMAIN response.headers => t.headers[k] = response.headers[k]
    BY <1>4 DEF MapInsert
  <2>3. Makes(response, "set_header", None, t)
    BY <1>2, <1>4, <1>6, <2>1, <2>2 DEF Makes
  <2> QED BY <1>2, <1>6, <2>3, BuiltMore
<1> QED BY <1>1, <1>6, <1>7, ServiceHandlerCall DEF t

LEMMA ServiceSetStatus ==
  ASSUME ServiceInv, SetStatus
  PROVE  ServiceInv'
<1> DEFINE x == [response EXCEPT !.status = 200]
<1> DEFINE t == set_status_message(x, "OK")
<1>1. HandlerCall("set_status", None, t) /\ ServiceNext /\ phase = "handler"
  BY Zenon DEF SetStatus, HandlerCall, ServiceNext, Handler
<1>2. /\ BuiltBy(response, called) /\ IsResponse(response) /\ response.body \in Nat
      /\ response.status \in {0, 200, 404} /\ called \in Seq(CallNames \X (Nat \cup {None})) /\ None \notin Nat
  BY <1>1, HandlerFacts
<1>3. t = MkResponse(response.version, 200, "OK", response.headers, response.body)
  <2>1. x = MkResponse(response.version, 200, response.message, response.headers, response.body)
    BY <1>2 DEF IsResponse, MkResponse
  <2> HIDE DEF x
  <2> QED BY <2>1 DEF set_status_message, MkResponse
<1> HIDE DEF t
<1>4. IsResponse(t) /\ t.status = 200 /\ t.message = "OK" /\ t.body = response.body /\ t.headers = response.headers
  BY <1>3 DEF IsResponse, MkResponse
<1>5. "OK" # None
  BY ServiceAssumption, Zenon
<1>6. "set_status" \in CallNames /\ SetsMessage(<<"set_status", None>>)
  BY DEF CallNames, SetsMessage
<1>7. BuiltBy(t, Append(called, <<"set_status", None>>))
  <2>1. Makes(response, "set_status", None, t)
    BY <1>4, <1>5, <1>6 DEF Makes
  <2> QED BY <1>2, <1>6, <2>1, BuiltMore
<1> QED BY <1>1, <1>6, <1>7, ServiceHandlerCall DEF t

LEMMA ServiceSetNotFound ==
  ASSUME ServiceInv, SetNotFound
  PROVE  ServiceInv'
<1> DEFINE t == set_error(response, 404, NotFoundText)
<1>1. HandlerCall("set_not_found", 0, t) /\ ServiceNext /\ phase = "handler"
  BY Zenon DEF SetNotFound, HandlerCall, ServiceNext, Handler, NotFoundText
<1>2. /\ BuiltBy(response, called) /\ IsResponse(response) /\ response.body \in Nat
      /\ response.status \in {0, 200, 404} /\ called \in Seq(CallNames \X (Nat \cup {None})) /\ None \notin Nat
  BY <1>1, HandlerFacts
<1>3. t = MkResponse(version, 404, NotFoundText, MapInsert(response.headers, "Content-Length", response.body), response.body)
  BY <1>2, SetErrorIs
<1> HIDE DEF t
<1>4. /\ IsResponse(t) /\ t.status = 404 /\ t.message = NotFoundText /\ t.body = response.body
      /\ t.headers = MapInsert(response.headers, "Content-Length", t.body)
  <2> DEFINE h == MapInsert(response.headers, "Content-Length", response.body)
  <2>1. t = MkResponse(version, 404, NotFoundText, h, response.body)
    BY <1>3
  <2> HIDE DEF h
  <2>2. IsResponse(t) /\ t.status = 404 /\ t.message = NotFoundText /\ t.body = response.body /\ t.headers = h
    BY <2>1 DEF IsResponse, MkResponse
  <2> QED BY <2>2 DEF h
<1>5. NotFoundText # None
  BY ServiceAssumption, Zenon DEF NotFoundText
<1>6. 0 \in Nat /\ 0 # None /\ "set_not_found" \in CallNames /\ SetsMessage(<<"set_not_found", 0>>)
  BY <1>2 DEF CallNames, SetsMessage
<1>7. BuiltBy(t, Append(called, <<"set_not_found", 0>>))
  <2>1. t.body = response.body + 0
    BY <1>2, <1>4
  <2>2. Makes(response, "set_not_found", 0, t)
    BY <1>4, <1>5, <1>6, <2>1 DEF Makes
  <2> QED BY <1>2, <1>6, <2>2, BuiltMore
<1> QED BY <1>1, <1>6, <1>7, ServiceHandlerCall DEF t

LEMMA ServiceGetQueryParam ==
  ASSUME ServiceInv, NEW name \in ParamNames, GetQueryParam(name)
  PROVE  ServiceInv'
<1>0. ServiceNext /\ ParserInv /\ Stage /\ Served /\ Responding
  BY Zenon DEF ServiceNext, Handler, ServiceInv
<1>1. /\ phase = "handler" /\ called' = Append(called, <<"get", None>>)
      /\ UNCHANGED <<vars, method, version, query, handler, params, response, sent>>
  BY DEF GetQueryParam
<1>2. /\ BuiltBy(response, called) /\ IsResponse(response) /\ response.body \in Nat
      /\ response.status \in {0, 200, 404} /\ called \in Seq(CallNames \X (Nat \cup {None}))
  BY <1>1, HandlerFacts
<1>3. ParserInv' /\ stream' = stream /\ Asked' = Asked /\ Wanted' = Wanted /\ TheQuery' = TheQuery /\ state' = state
  <2>1. [Next]_vars /\ state' = state
    BY <1>0, <1>1, ServiceParses DEF vars, parserVars
  <2> QED BY <1>0, <2>1, ParserStep, SameStream
<1>4. handler # None /\ sent = None
  BY <1>0, <1>1 DEF Stage
<1>5. BuiltBy(response', called') /\ called' \in Seq(CallNames \X (Nat \cup {None}))
  <2>1. "get" \in CallNames /\ ~SetsMessage(<<"get", None>>)
    BY DEF CallNames, SetsMessage
  <2>2. Makes(response, "get", None, response)
    BY <1>2, <2>1 DEF Makes
  <2>3. BuiltBy(response, Append(called, <<"get", None>>))
    BY <1>2, <2>1, <2>2, BuiltMore
  <2>4. <<"get", None>> \in CallNames \X (Nat \cup {None})
    BY <2>1
  <2> QED BY <1>1, <1>2, <2>3, <2>4, AppendProperties
<1>6. name # None
  <2>1. name \in Seq(STRING)
    BY ServiceAssumption, Zenon
  <2> QED BY <2>1, ParserAssumption
<1>7. ASSUME FindCrashes(params, name) PROVE phase' = "aborted" /\ got' = got /\ Asked.nameless
  <2>1. Contains(params, None)
    BY <1>6, <1>7 DEF FindCrashes, Contains
  <2> QED BY <1>0, <1>4, <1>7, <2>1 DEF GetQueryParam, Served
<1>8. ASSUME ~FindCrashes(params, name)
      PROVE  /\ phase' = phase
             /\ got' # None /\ ~Asked.nameless =>
                  got'.value = IF got'.name \in DOMAIN Asked.values THEN Asked.values[got'.name] ELSE None
  <2> DEFINE v == IF Contains(params, name)
                    THEN params[CHOOSE n \in DOMAIN params : params[n][1] = name][2]
                    ELSE None
  <2>1. phase' = phase /\ got' = [name |-> name, value |-> v]
    BY <1>8 DEF GetQueryParam
  <2>2. ASSUME ~Asked.nameless PROVE v = IF name \in DOMAIN Asked.values THEN Asked.values[name] ELSE None
    <3>1. /\ {params[n][1] : n \in DOMAIN params} = DOMAIN Asked.values
          /\ \A n \in DOMAIN params : params[n][2] = Asked.values[params[n][1]]
      BY <1>0, <1>4, <2>2 DEF Served
    <3>2. Contains(params, name) <=> name \in DOMAIN Asked.values
      BY <3>1 DEF Contains
    <3>3. ASSUME Contains(params, name) PROVE v = Asked.values[name]
      <4> DEFINE m == CHOOSE n \in DOMAIN params : params[n][1] = name
      <4>1. m \in DOMAIN params /\ params[m][1] = name
        BY <3>3 DEF Contains
      <4>2. v = params[m][2]
        BY <3>3
      <4> HIDE DEF m, v
      <4> QED BY <3>1, <4>1, <4>2
    <3>4. ASSUME ~Contains(params, name) PROVE v = None
      BY <3>4
    <3> HIDE DEF v
    <3> QED BY <3>2, <3>3, <3>4
  <2> HIDE DEF v
  <2>3. got'.name = name /\ got'.value = v
    BY <2>1
  <2> QED BY <2>1, <2>2, <2>3
<1>9. phase' \in {"handler", "aborted"} /\ (phase' = "aborted" => Asked.nameless)
  BY <1>1, <1>7, <1>8
<1>10. Stage'
  BY <1>0, <1>1, <1>3, <1>4, <1>9 DEF Stage, Stages
<1>11. got' # None /\ ~Asked.nameless =>
         got'.value = IF got'.name \in DOMAIN Asked.values THEN Asked.values[got'.name] ELSE None
  BY <1>7, <1>8
<1>12. Served'
  BY <1>0, <1>1, <1>3, <1>4, <1>11 DEF Served
<1>15. GenericMissing(handler)' = FALSE
  BY <1>1, <1>3, NotMissing, MissingStays
<1>13. RefusedQuery' /\ Aborting'
  BY <1>1, <1>3, <1>4, <1>9, <1>15 DEF RefusedQuery, Aborting
<1>14. Responding'
  BY <1>1, <1>4, <1>5, <1>9 DEF Responding, Answered
<1> QED BY <1>3, <1>10, <1>12, <1>13, <1>14 DEF ServiceInv

LEMMA ServiceHandlerReturns ==
  ASSUME ServiceInv, HandlerReturns
  PROVE  ServiceInv'
<1>0. ServiceNext /\ ParserInv /\ Stage /\ Served /\ Responding /\ phase = "handler"
  BY DEF ServiceNext, ServiceInv, HandlerReturns
<1>1. /\ BuiltBy(response, called)
      /\ response.message = None <=> \A n \in DOMAIN called : ~SetsMessage(called[n])
  BY <1>0, HandlerFacts DEF BuiltBy
<1>2. /\ UNCHANGED <<vars, method, version, query, called, got, handler, params>>
      /\ response.message = None => phase' = "aborted" /\ sent' = sent
      /\ response.message # None => phase' = "sent" /\ sent' = response
  BY DEF HandlerReturns, Abort, Respond
<1>3. ParserInv' /\ stream' = stream /\ Asked' = Asked /\ Wanted' = Wanted /\ TheQuery' = TheQuery /\ state' = state
  <2>1. [Next]_vars /\ state' = state
    BY <1>0, <1>2, ServiceParses DEF vars, parserVars
  <2> QED BY <1>0, <2>1, ParserStep, SameStream
<1>4. handler # None /\ sent = None
  BY <1>0 DEF Stage
<1>5. phase' \in {"aborted", "sent"}
  BY <1>2
<1>6. Stage'
  BY <1>0, <1>2, <1>3, <1>5 DEF Stage, Stages
<1>7. Served'
  BY <1>0, <1>2, <1>3 DEF Served
<1>10. GenericMissing(handler)' = FALSE
  BY <1>0, <1>2, <1>3, NotMissing, MissingStays
<1>8. RefusedQuery' /\ Aborting'
  BY <1>1, <1>2, <1>4, <1>5, <1>10 DEF RefusedQuery, Aborting
<1>9. Responding'
  BY <1>0, <1>1, <1>2, <1>4, <1>5 DEF Responding, Answered
<1> QED BY <1>3, <1>6, <1>7, <1>8, <1>9 DEF ServiceInv

LEMMA ServiceDataSent ==
  ASSUME ServiceInv, DataSent
  PROVE  ServiceInv'
<1>0. /\ ServiceNext /\ ParserInv /\ Stage /\ Served /\ RefusedQuery /\ Responding /\ Answered /\ phase = "sent"
  BY DEF ServiceNext, ServiceInv, DataSent, Answered
<1>1. /\ phase' = IF Contains(params, None) THEN "aborted" ELSE "released"
      /\ UNCHANGED <<vars, method, version, query, handler, params, response, sent, called, got>>
  BY DEF DataSent, serviceVars
<1>2. /\ ParserInv' /\ stream' = stream /\ Asked' = Asked /\ Wanted' = Wanted /\ TheQuery' = TheQuery
      /\ BadRequest' = BadRequest /\ state' = state
  <2>1. [Next]_vars /\ state' = state
    BY <1>0, <1>1, ServiceParses DEF vars, parserVars
  <2> QED BY <1>0, <2>1, ParserStep, SameStream
<1>3. Contains(params, None) <=> Asked.nameless
  BY <1>0 DEF Served, RefusedQuery
<1>4. phase' \in {"aborted", "released"}
  BY <1>1
<1>5. Stage'
  BY <1>0, <1>1, <1>2, <1>4 DEF Stage, Stages
<1>6. Served'
  BY <1>0, <1>1, <1>2 DEF Served
<1>7. RefusedQuery'
  BY <1>0, <1>1, <1>2 DEF RefusedQuery
<1>8. Responding'
  BY <1>0, <1>1, <1>4 DEF Responding
<1>10. GenericMissing(handler)' = FALSE
  BY <1>0, <1>1, <1>2, NotMissing, MissingStays
<1>9. Aborting'
  BY <1>1, <1>2, <1>3, <1>4, <1>10 DEF Aborting
<1> QED BY <1>2, <1>5, <1>6, <1>7, <1>8, <1>9 DEF ServiceInv

LEMMA ServiceStep == ServiceInv /\ [ServiceNext]_allVars => ServiceInv'
<1> SUFFICES ASSUME ServiceInv, [ServiceNext]_allVars PROVE ServiceInv'
  OBVIOUS
<1>1. CASE Parse
  BY <1>1, ServiceParse
<1>2. CASE \E k \in 1 .. Len(stream) : Receive(k)
  BY <1>2, ServiceReceive
<1>3. CASE MessageComplete
  BY <1>3, ServiceMessageComplete
<1>4. CASE ParseQueryString
  BY <1>4, ServiceEqualSign, ServiceSecondEqual, ServiceAmpersand, ServiceOtherChar, ServiceQueryEnd,
     ServiceInsertCrash DEF ParseQueryString
<1>5. CASE \E len \in 0 .. 2 : SetBody(len)
  BY <1>5, ServiceSetBody
<1>6. CASE \E name \in HeaderNames : SetHeader(name, Len(called))
  BY <1>6, ServiceSetHeader
<1>7. CASE SetStatus \/ SetNotFound
  BY <1>7, ServiceSetStatus, ServiceSetNotFound
<1>8. CASE \E name \in ParamNames : GetQueryParam(name)
  BY <1>8, ServiceGetQueryParam
<1>9. CASE HandlerReturns
  BY <1>9, ServiceHandlerReturns
<1>10. CASE DataSent
  BY <1>10, ServiceDataSent
<1>11. CASE UNCHANGED allVars
  <2>1. UNCHANGED <<method, version, phase, serviceVars>> /\ state' = state /\ fed' = fed
    BY <1>11 DEF allVars, vars, parserVars
  <2> QED BY <2>1, ServiceUntouched
<1>12. CASE ExitByte
  BY <1>12, ServiceExitByte
<1> QED BY <1>1, <1>2, <1>3, <1>4, <1>5, <1>6, <1>7, <1>8, <1>9, <1>10, <1>11, <1>12 DEF ServiceNext, Handler

-----------------------------------------------------------------------------
(***************************************************************************)
(* What the invariant says of a request.                                   *)
(***************************************************************************)
LEMMA ParserTypes == ParserInv => TypeOK
<1> SUFFICES ASSUME ParserInv PROVE TypeOK
  OBVIOUS
<1>1. Types
  BY DEF ParserInv
<1>2. ClientOK(client)
  BY <1>1 DEF Types
<1>3. [f \in DOMAIN client \ {"headers"} |-> client[f]] \in Client
  <2> DEFINE c == client
  <2>1. /\ c = [url |-> c.url, field |-> c.field, value |-> c.value, last_was_value |-> c.last_was_value,
                headers |-> c.headers, body |-> c.body]
        /\ c.url \in Seq(Word) /\ c.body \in Seq(Word) /\ c.last_was_value \in BOOLEAN
        /\ c.field \in Seq(Word) \cup {None} /\ c.value \in Seq(Word) \cup {None}
    BY <1>2 DEF ClientOK
  <2> HIDE DEF c
  <2>2. DOMAIN c = {"url", "field", "value", "last_was_value", "headers", "body"}
    BY <2>1
  <2>3. DOMAIN c \ {"headers"} = {"url", "field", "value", "last_was_value", "body"}
    BY <2>2
  <2>4. [f \in DOMAIN c \ {"headers"} |-> c[f]] =
          [url |-> c.url, field |-> c.field, value |-> c.value, last_was_value |-> c.last_was_value, body |-> c.body]
    BY <2>3
  <2>5. [url |-> c.url, field |-> c.field, value |-> c.value, last_was_value |-> c.last_was_value, body |-> c.body]
          \in Client
    BY <2>1 DEF Client
  <2> QED BY <2>4, <2>5 DEF c
<1>4. \A k \in DOMAIN client.headers : k \in Seq(Word) /\ client.headers[k] \in Seq(Word)
  BY <1>2 DEF ClientOK
<1>5. completed \in Nat
  BY <1>1 DEF Types
<1> QED BY <1>1, <1>3, <1>4, <1>5 DEF Types, TypeOK

\* What was given to the connection.
LEMMA SentIs ==
  ASSUME ServiceInv, sent # None
  PROVE  /\ handler = None => Asked.bad /\ sent = BadRequest
         /\ handler # None => BuiltBy(sent, called)
         /\ sent.body \in Nat /\ sent.status \in {0, 200, 400, 404}
<1>1. Answered
  BY DEF Answered
<1>2. CASE handler = None
  <2>1. Asked.bad /\ sent = BadRequest
    BY <1>1, <1>2 DEF ServiceInv, RefusedQuery
  <2>2. BadRequest.body = 0 /\ BadRequest.status = 400
    BY DEF BadRequest
  <2> QED BY <1>2, <2>1, <2>2
<1>3. CASE handler # None
  <2>1. BuiltBy(sent, called)
    BY <1>1, <1>3 DEF ServiceInv, Responding
  <2> QED BY <1>3, <2>1 DEF BuiltBy
<1> QED BY <1>2, <1>3

LEMMA RoutedIs == ServiceInv => RoutedExact
<1> SUFFICES ASSUME ServiceInv PROVE RoutedExact
  OBVIOUS
<1>1. ServiceTypeOK
  <2>1. TypeOK
    BY ParserTypes DEF ServiceInv
  <2>2. phase \in {"parsing", "complete", "query", "handler", "sent", "released", "aborted", "exited"}
    BY DEF ServiceInv, Stage, Stages
  <2>3. \A n \in DOMAIN params : params[n][1] = None \/ params[n][1] \in Seq(STRING)
    <3>1. params \in Seq(Param)
      BY DEF ServiceInv, Stage
    <3>2. \A n \in DOMAIN params : params[n] \in Param
      BY <3>1
    <3> QED BY <3>2 DEF Param
  <2>4. handler \in DOMAIN Resources \cup {Generic, None}
    BY DEF ServiceInv, Stage
  <2>5. sent = None \/ (sent.body \in Nat /\ sent.status \in {0, 200, 400, 404})
    BY SentIs
  <2> QED BY <2>1, <2>2, <2>3, <2>4, <2>5 DEF ServiceTypeOK
<1>2. ASSUME handler # None
      PROVE  /\ ~Asked.bad
             /\ handler = Generic => \A n \in DOMAIN Resources : Resources[n] # Wanted
             /\ handler # Generic => /\ Resources[handler] = Wanted
                                     /\ \A n \in 1 .. handler - 1 : Resources[n] # Wanted
  BY <1>2 DEF ServiceInv, Served
<1>3. ASSUME sent # None, handler = None
      PROVE  /\ Asked.bad
             /\ sent.status = 400 /\ sent.version = stream[3]
             /\ sent.headers = [h \in {"Content-Length"} |-> 0] /\ sent.body = 0
  <2>1. Asked.bad /\ sent = BadRequest
    BY <1>3, SentIs
  <2> QED BY <2>1 DEF BadRequest
<1> QED BY <1>1, <1>2, <1>3, Zenon DEF RoutedExact, Wanted

LEMMA AbortsAre == ServiceInv /\ Deaths => AbortsExact
<1> SUFFICES ASSUME ServiceInv, Deaths PROVE AbortsExact
  OBVIOUS
<1>1. ASSUME phase = "released"
      PROVE  ~Asked.nameless /\ (handler # None => \E n \in DOMAIN called : SetsMessage(called[n]))
  <2>1. Answered /\ ~Contains(params, None)
    BY <1>1 DEF ServiceInv, Answered, Aborting
  <2> QED BY <2>1 DEF ServiceInv, Served, RefusedQuery, Responding
<1>2. /\ phase = "aborted" =>
           \/ Asked.nameless
           \/ GenericMissing(handler)
           \/ handler # None /\ \A n \in DOMAIN called : ~SetsMessage(called[n])
      /\ GenericMissing(handler) => phase = "aborted" /\ called = << >> /\ sent = None
      /\ phase = "exited" => fed < Len(stream) /\ stream[fed + 1] \in ExitWords
  BY DEF ServiceInv, Aborting
<1>3. pc = "crashed" => CrashExplained
  BY DEF Deaths
<1> QED BY <1>1, <1>2, <1>3 DEF AbortsExact

LEMMA LengthIs == ServiceInv => ContentLengthHonest
<1> SUFFICES ASSUME ServiceInv, sent # None
             PROVE  /\ "Content-Length" \in DOMAIN sent.headers <=> (handler = None \/ Bodies # {})
                    /\ "Content-Length" \in DOMAIN sent.headers =>
                         /\ sent.headers["Content-Length"] <= sent.body
                         /\ (\A n \in Bodies : n = FirstOf(Bodies) \/ called[n][2] = 0) =>
                              sent.headers["Content-Length"] = sent.body
  BY DEF ContentLengthHonest
<1>1. CASE handler = None
  <2>1. sent = BadRequest
    BY <1>1, SentIs
  <2>2. "Content-Length" \in DOMAIN sent.headers /\ sent.headers["Content-Length"] = 0 /\ sent.body = 0
    BY <2>1 DEF BadRequest
  <2> QED BY <1>1, <2>2
<1>2. CASE handler # None
  <2> DEFINE k == "Content-Length"
  <2> DEFINE h == sent.headers
  <2>1. /\ sent.body \in Nat
        /\ k \in DOMAIN h <=> \E n \in DOMAIN called : called[n][2] # None
        /\ k \in DOMAIN h =>
             /\ h[k] \in 0 .. sent.body
             /\ \A f \in DOMAIN called :
                  /\ called[f][2] # None
                  /\ \A n \in DOMAIN called : called[n][2] = None \/ n = f \/ (f < n /\ called[n][2] = 0)
                  => h[k] = sent.body
    BY <1>2, SentIs DEF BuiltBy
  <2> HIDE DEF k, h
  <2>2. k \in DOMAIN h <=> Bodies # {}
    BY <2>1 DEF Bodies
  <2>3. ASSUME k \in DOMAIN h, \A n \in Bodies : n = FirstOf(Bodies) \/ called[n][2] = 0 PROVE h[k] = sent.body
    <3> DEFINE f == FirstOf(Bodies)
    <3>1. DOMAIN called \subseteq Nat
      <4>1. called \in Seq(CallNames \X (Nat \cup {None}))
        BY DEF ServiceInv, Responding
      <4>2. DOMAIN called = 1 .. Len(called) /\ Len(called) \in Nat
        BY <4>1, LenProperties
      <4> QED BY <4>2
    <3>2. Bodies \subseteq Nat
      BY <3>1 DEF Bodies
    <3>3. f \in Bodies /\ \A j \in Bodies : f <= j
      BY <2>2, <2>3, <3>2, FirstExists
    <3>4. \A n \in Bodies : n = f \/ called[n][2] = 0
      BY <2>3
    <3> HIDE DEF f
    <3>5. f \in DOMAIN called /\ called[f][2] # None
      BY <3>3 DEF Bodies
    <3>6. ASSUME NEW n \in DOMAIN called, called[n][2] # None PROVE n = f \/ (f < n /\ called[n][2] = 0)
      <4>1. n \in Bodies
        BY <3>6 DEF Bodies
      <4>2. f \in Nat /\ n \in Nat /\ f <= n /\ (n = f \/ called[n][2] = 0)
        BY <3>2, <3>3, <3>4, <4>1
      <4> QED BY <4>2
    <3> QED BY <2>1, <2>3, <3>5, <3>6
  <2>4. k \in DOMAIN h => h[k] <= sent.body
    BY <2>1
  <2> QED BY <1>2, <2>2, <2>3, <2>4 DEF k, h
<1> QED BY <1>1, <1>2

LEMMA ParamsAre == ServiceInv => QueryParamsExact
<1> SUFFICES ASSUME ServiceInv, handler # None, ~Asked.nameless
             PROVE  /\ {params[n][1] : n \in DOMAIN params} = DOMAIN Asked.values
                    /\ Len(params) = Cardinality(DOMAIN Asked.values)
                    /\ got # None => got.value = IF got.name \in DOMAIN Asked.values THEN Asked.values[got.name] ELSE None
  BY DEF QueryParamsExact
<1> DEFINE T == DOMAIN Asked.values
<1>1. /\ {params[n][1] : n \in DOMAIN params} = T
      /\ \A m, n \in DOMAIN params : params[m][1] = params[n][1] => m = n
      /\ got # None => got.value = IF got.name \in T THEN Asked.values[got.name] ELSE None
  BY DEF ServiceInv, Served
<1>2. DOMAIN params = 1 .. Len(params) /\ Len(params) \in Nat
  <2>1. params \in Seq(Param)
    BY DEF ServiceInv, Stage
  <2> QED BY <2>1, LenProperties
<1> DEFINE N == 1 .. Len(params)
<1> DEFINE F == [n \in N |-> params[n][1]]
<1> HIDE DEF T
<1>3. F \in Bijection(N, T)
  <2>1. F \in [N -> T] /\ \A m, n \in N : F[m] = F[n] => m = n
    BY <1>1, <1>2
  <2>2. \A t \in T : \E n \in N : F[n] = t
    BY <1>1, <1>2
  <2> HIDE DEF F, N
  <2> QED BY <2>1, <2>2, Fun_IsBij
<1>4. ExistsBijection(1 .. Len(params), T)
  BY <1>3 DEF ExistsBijection
<1>5. Cardinality(T) = Len(params)
  BY <1>2, <1>4, FS_CountingElements
<1> QED BY <1>1, <1>5 DEF T

-----------------------------------------------------------------------------
(***************************************************************************)
(* The inductive invariant: ServiceInit implies it, and every step of the  *)
(* parser, of RST_client_parser_on_message_complete, of                    *)
(* RST_request_parse_query_string, of the handler and of the release keeps *)
(* it.                                                                     *)
(***************************************************************************)
THEOREM Invariance == ServiceSpec => []ServiceInv
<1>1. ServiceInit => ServiceInv
  BY ServiceStarts
<1>2. ServiceInv /\ [ServiceNext]_allVars => ServiceInv'
  BY ServiceStep
<1> QED BY <1>1, <1>2, PTL DEF ServiceSpec

(***************************************************************************)
(* The composition does nothing to the parser that the parser alone could  *)
(* not do: the callbacks, the handler and the release of service.c and     *)
(* rstclient.c leave RST_RequestParser alone.                              *)
(***************************************************************************)
THEOREM ServiceKeepsParser == ServiceSpec => Spec
<1>1. ServiceInit => Init
  BY DEF ServiceInit
<1>2. [ServiceNext]_allVars => [Next]_vars
  BY ServiceParses
<1> QED BY <1>1, <1>2, PTL DEF ServiceSpec, Spec

(***************************************************************************)
(* So the request a handler of the service is given is the request that    *)
(* was sent, whatever the handlers do.                                     *)
(***************************************************************************)
THEOREM ServiceGivesRequest == ServiceSpec => []RequestExact
BY ServiceKeepsParser, ParserGivesRequest, PTL

(***************************************************************************)
(* And within the service, too, the cuts of the stream do not matter.      *)
(***************************************************************************)
THEOREM ServiceChunks == ServiceSpec => []ChunkIndependence
BY ServiceKeepsParser, ChunksDoNotMatter, PTL

(***************************************************************************)
(* RST_service_find_resource and RST_request_parse_query_string: for every *)
(* url and every list of resources, a query string is refused exactly when *)
(* a parameter has a second '=', with 400, the version of the request and  *)
(* an honest Content-Length; every other request goes to the resource      *)
(* published first for its method and path, or to the generic handler.     *)
(***************************************************************************)
THEOREM RequestsRouted == ServiceSpec => []RoutedExact
BY Invariance, RoutedIs, PTL

(***************************************************************************)
(* RST_request_parse_query_string and RST_request_get_query_param: for     *)
(* every query string without a nameless parameter, the map holds exactly  *)
(* the parameters of the url, each once and with its first value, under    *)
(* the names the fall-through at '&' gives them.                           *)
(***************************************************************************)
THEOREM ParametersExact == ServiceSpec => []QueryParamsExact
BY Invariance, ParamsAre, PTL

(***************************************************************************)
(* How a request ends the process, for every stream, every list of         *)
(* resources and every handler.  The process is aborted only by a null     *)
(* parameter key (RST_cstr_comparator, RST_free), by the call of a generic *)
(* handler that was never published (scheduled_generic_handle), or by a    *)
(* null status message (RST_free); the parser dies only at a first header  *)
(* line without a colon or in a body beyond an int; exit is called only    *)
(* for the exit byte.  A client is released only if every parameter had a  *)
(* name and its handler, if it had one, was there and set a status message. *)
(***************************************************************************)
THEOREM AbortsExplained == ServiceSpec => []AbortsExact
<1>1. Spec => []Deaths
  <2>1. ParserInv /\ Deaths /\ [Next]_vars => (ParserInv /\ Deaths)'
    BY ParserStep, DeathsStep
  <2> QED BY ParserInit, DeathsInit, <2>1, PTL DEF Spec
<1> QED BY <1>1, ServiceKeepsParser, Invariance, AbortsAre, PTL

(***************************************************************************)
(* RST_response_set_body_n and RST_map_insert, which keeps the first       *)
(* Content-Length: for every sequence of calls of a handler, the length    *)
(* that is sent never exceeds the body, and it is the length of the body   *)
(* unless the handler appended to a body it had set.                       *)
(***************************************************************************)
THEOREM LengthNeverExceedsBody == ServiceSpec => []ContentLengthHonest
BY Invariance, LengthIs, PTL
=============================================================================
