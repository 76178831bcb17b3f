------------------------ MODULE ClientRegistryProofs ------------------------
(***************************************************************************)
(* The arrays of the select loop are the sets TcpServer takes them for:    *)
(* proofs for any descriptors and any history of the loop.                 *)
(***************************************************************************)
EXTENDS ClientRegistry, TLAPS, WellFoundedInduction

\* RST_vector_push_back appends, and leaves the rest as it is, also when it has
\* to grow.
LEMMA PushBackAppends ==
  ASSUME NEW E, NEW v, IsVector(v, E), NEW x \in E
  PROVE  /\ IsVector(VectorPushBack(v, x), E)
         /\ VectorPushBack(v, x).size = v.size + 1
         /\ \A j \in Slots(v) : VectorPushBack(v, x).data[j] = v.data[j]
         /\ VectorPushBack(v, x).data[v.size] = x
<1> DEFINE u == IF v.size = v.capacity THEN Grown(v) ELSE v
<1>1. IsVector(u, E) /\ u.size = v.size /\ u.size < u.capacity
      /\ \A j \in Slots(v) : u.data[j] = v.data[j]
  <2>1. CASE v.size = v.capacity
    <3> DEFINE d == [j \in 0 .. 2 * v.capacity - 1 |-> IF j < v.capacity THEN v.data[j] ELSE Null]
    <3>1. u = Array(d, v.size, 2 * v.capacity)
      BY <2>1 DEF Grown
    <3>2. \A j \in 0 .. 2 * v.capacity - 1 : d[j] \in E \cup {Null}
      BY DEF IsVector
    <3>3. d \in [0 .. 2 * v.capacity - 1 -> E \cup {Null}]
      BY <3>2
    <3>4. \A j \in Slots(v) : d[j] = v.data[j]
      BY <2>1 DEF Slots, IsVector
    <3> HIDE DEF d, u
    <3> QED BY <2>1, <3>1, <3>3, <3>4 DEF IsVector, Array
  <2>2. CASE v.size # v.capacity
    BY <2>2 DEF IsVector, Slots
  <2> QED BY <2>1, <2>2
<1>2. VectorPushBack(v, x) = Array([u.data EXCEPT ![u.size] = x], u.size + 1, u.capacity)
  BY DEF VectorPushBack, Put
<1> HIDE DEF u
<1> QED BY <1>1, <1>2 DEF IsVector, Slots, Array

\* RST_vector_erase closes the gap and keeps the order.
LEMMA EraseShifts ==
  ASSUME NEW E, NEW v, IsVector(v, E), NEW m \in Slots(v)
  PROVE  /\ IsVector(VectorErase(v, m), E)
         /\ VectorErase(v, m).size = v.size - 1
         /\ \A j \in 0 .. v.size - 2 :
              VectorErase(v, m).data[j] = IF j < m THEN v.data[j] ELSE v.data[j + 1]
<1>1. Shifted(v, m) \in [0 .. v.capacity - 1 -> E \cup {Null}]
  <2>1. \A j \in 0 .. v.capacity - 1 :
          (IF j \in m .. v.size - 2 THEN v.data[j + 1] ELSE v.data[j]) \in E \cup {Null}
    BY SMTT(30) DEF IsVector, Slots
  <2> QED BY <2>1 DEF Shifted
<1> QED BY <1>1 DEF IsVector, Slots, VectorErase, Array, Shifted

\* RST_set_contains tells whether an element is in the array.
LEMMA ContainsMeans ==
  ASSUME NEW v, Elements(v) \subseteq Socket, NEW x \in Socket
  PROVE  /\ Matches(v, x) = {j \in Slots(v) : v.data[j] = x}
         /\ SetContains(v, x) <=> x \in Elements(v)
<1>1. \A j \in Slots(v) : v.data[j] \in Nat /\ x \in Nat
  BY RegistryAssumption DEF Elements
<1>2. \A a, b \in Nat : RST_int_comparator(a, b) = 0 <=> a = b
  BY DEF RST_int_comparator
<1>3. Matches(v, x) = {j \in Slots(v) : v.data[j] = x}
  BY <1>1, <1>2 DEF Matches
<1> QED BY <1>3 DEF SetContains, Elements

\* RST_set_insert adds one element to the set.
LEMMA InsertAdds ==
  ASSUME NEW v, IsVector(v, Socket), NoRepeats(v), Elements(v) \subseteq Socket, NEW x \in Socket
  PROVE  /\ IsVector(SetInsert(v, x), Socket)
         /\ NoRepeats(SetInsert(v, x))
         /\ Elements(SetInsert(v, x)) = Elements(v) \cup {x}
<1>1. CASE x \in Elements(v)
  BY <1>1, ContainsMeans DEF SetInsert
<1>2. CASE x \notin Elements(v)
  <2> DEFINE w == VectorPushBack(v, x)
  <2>1. SetInsert(v, x) = w
    BY <1>2, ContainsMeans DEF SetInsert
  <2>2. /\ IsVector(w, Socket) /\ w.size = v.size + 1
        /\ \A j \in Slots(v) : w.data[j] = v.data[j]
        /\ w.data[v.size] = x
    BY PushBackAppends
  <2>3. v.size \in Nat
    BY DEF IsVector
  <2> HIDE DEF w
  <2>4. \A j : j \in Slots(w) <=> j \in Slots(v) \/ j = v.size
    BY <2>2, <2>3 DEF Slots
  <2>5. Elements(w) = Elements(v) \cup {x}
    BY <2>2, <2>4 DEF Elements
  <2>6. NoRepeats(w)
    BY <1>2, <2>2, <2>4 DEF NoRepeats, Elements
  <2> QED BY <2>1, <2>2, <2>5, <2>6
<1> QED BY <1>1, <1>2

\* RST_set_erase takes one element out of the set, and no other.
LEMMA EraseRemoves ==
  ASSUME NEW v, IsVector(v, Socket), NoRepeats(v), Elements(v) \subseteq Socket, NEW x \in Socket
  PROVE  /\ IsVector(SetErase(v, x), Socket)
         /\ NoRepeats(SetErase(v, x))
         /\ Elements(SetErase(v, x)) = Elements(v) \ {x}
<1>1. CASE x \notin Elements(v)
  BY <1>1, ContainsMeans DEF SetErase
<1>2. CASE x \in Elements(v)
  <2>1. PICK m \in Slots(v) : v.data[m] = x
    BY <1>2 DEF Elements
  <2>2. Matches(v, x) = {m}
    BY <2>1, ContainsMeans DEF NoRepeats
  <2>3. (CHOOSE j \in Matches(v, x) : \A l \in Matches(v, x) : j <= l) = m
    BY <2>2 DEF Slots
  <2> DEFINE w == VectorErase(v, m)
  <2>4. SetErase(v, x) = w
    BY <1>2, <2>3, ContainsMeans DEF SetErase
  <2>5. /\ IsVector(w, Socket) /\ w.size = v.size - 1
        /\ \A j \in 0 .. v.size - 2 : w.data[j] = IF j < m THEN v.data[j] ELSE v.data[j + 1]
    BY EraseShifts
  <2>6. v.size \in Nat /\ m \in 0 .. v.size - 1
    BY DEF IsVector, Slots
  <2> HIDE DEF w
  <2>7. Slots(w) = 0 .. v.size - 2
    BY <2>5, <2>6 DEF Slots
  <2>8. NoRepeats(w)
    <3> SUFFICES ASSUME NEW i \in 0 .. v.size - 2, NEW j \in 0 .. v.size - 2, w.data[i] = w.data[j]
                 PROVE  i = j
      BY <2>7 DEF NoRepeats
    <3>1. \A a, b \in 0 .. v.size - 1 : v.data[a] = v.data[b] => a = b
      BY DEF NoRepeats, Slots
    <3> QED BY <2>5, <2>6, <3>1
  <2>9. Elements(w) = Elements(v) \ {x}
    <3>1. ASSUME NEW y \in Elements(w) PROVE y \in Elements(v) \ {x}
      <4>1. PICK j \in 0 .. v.size - 2 : y = w.data[j]
        BY <2>7 DEF Elements
      <4>2. \A a, b \in 0 .. v.size - 1 : v.data[a] = v.data[b] => a = b
        BY DEF NoRepeats, Slots
      <4>3. CASE j < m
        <5>1. j \in 0 .. v.size - 1 /\ j # m
          BY <2>6, <4>3
        <5> QED BY <2>1, <2>5, <2>6, <4>1, <4>2, <4>3, <5>1 DEF Elements, Slots
      <4>4. CASE ~(j < m)
        <5>1. j + 1 \in 0 .. v.size - 1 /\ j + 1 # m
          BY <2>6, <4>4
        <5> QED BY <2>1, <2>5, <2>6, <4>1, <4>2, <4>4, <5>1 DEF Elements, Slots
      <4> QED BY <4>3, <4>4
    <3>2. ASSUME NEW y \in Elements(v) \ {x} PROVE y \in Elements(w)
      <4>1. PICK j \in 0 .. v.size - 1 : y = v.data[j]
        BY DEF Elements, Slots
      <4>2. j # m
        BY <2>1, <4>1
      <4>3. CASE j < m
        <5>1. j \in 0 .. v.size - 2 /\ w.data[j] = y
          BY <2>5, <2>6, <4>1, <4>3
        <5> QED BY <5>1, <2>7 DEF Elements
      <4>4. CASE j > m
        <5>1. j - 1 \in 0 .. v.size - 2 /\ w.data[j - 1] = y
          BY <2>5, <2>6, <4>1, <4>4
        <5> QED BY <5>1, <2>7 DEF Elements
      <4> QED BY <2>6, <4>1, <4>2, <4>3, <4>4
    <3> QED BY <3>1, <3>2
  <2> QED BY <2>4, <2>5, <2>8, <2>9
<1> QED BY <1>1, <1>2

\* A non-empty set of natural numbers has a least element.
LEMMA LeastOf ==
  ASSUME NEW S, S \subseteq Nat, S # {}
  PROVE  \E m \in S : \A y \in S : m <= y
<1>1. PICK m \in S : \A y \in S : ~(<<y, m>> \in OpToRel(<, Nat))
  BY NatLessThanWellFounded, WFMin
<1>2. \A y \in S : y \in Nat /\ m \in Nat /\ ~(y < m)
  BY <1>1, Zenon DEF OpToRel
<1> QED BY <1>2

\* RST_set_max_element returns the largest element of the array: after j turns
\* of its loop, the largest of the first j + 1 elements.
LEMMA MaxElementIs ==
  ASSUME NEW v, IsVector(v, Socket), Elements(v) \subseteq Socket, v.size > 0
  PROVE  /\ SetMaxElement(v) \in Elements(v)
         /\ \A e \in Elements(v) : e <= SetMaxElement(v)
<1> DEFINE d == v.data
           n == v.size
           S == 0 .. n - 1
           Largest(x, j) == /\ \E i \in 0 .. j : x = d[i]
                            /\ \A i \in 0 .. j : d[i] <= x
           M == [j \in S |-> CHOOSE x \in Nat : Largest(x, j)]
           Body(f) == [j \in S |-> IF j = 0 THEN d[0]
                         ELSE IF RST_int_comparator(d[j], f[j - 1]) > 0 THEN d[j] ELSE f[j - 1]]
           best == CHOOSE f : f = Body(f)
<1>1. n \in Nat \ {0} /\ \A i \in S : d[i] \in Nat
  <2>1. n \in Nat \ {0}
    BY DEF IsVector
  <2>2. \A i \in S : d[i] \in Socket
    BY DEF Elements, Slots
  <2> QED BY <2>1, <2>2, RegistryAssumption
<1>2. SetMaxElement(v) = best[n - 1]
  BY DEF SetMaxElement, Slots
<1>3. Elements(v) = {d[i] : i \in S}
  BY DEF Elements, Slots
<1> HIDE DEF d, n
<1>4. Largest(d[0], 0)
  BY <1>1
<1>5. ASSUME NEW j \in S, j # 0, NEW x \in Nat, Largest(x, j - 1)
      PROVE  Largest(IF RST_int_comparator(d[j], x) > 0 THEN d[j] ELSE x, j)
  <2>1. \A i : i \in 0 .. j <=> i \in 0 .. j - 1 \/ i = j
    BY <1>1
  <2>2. d[j] \in Nat /\ \A i \in 0 .. j - 1 : d[i] \in Nat
    BY <1>1
  <2>3. RST_int_comparator(d[j], x) > 0 <=> d[j] > x
    BY <2>2 DEF RST_int_comparator
  <2> QED BY <1>5, <2>1, <2>2, <2>3
<1>6. \A j \in S : \E x \in Nat : Largest(x, j)
  <2> DEFINE bad == {j \in S : ~\E x \in Nat : Largest(x, j)}
  <2> SUFFICES ASSUME bad # {} PROVE FALSE
    OBVIOUS
  <2>1. PICK j \in bad : \A y \in bad : j <= y
    <3>1. bad \subseteq Nat
      BY <1>1
    <3> HIDE DEF bad
    <3> QED BY <3>1, LeastOf
  <2>2. j # 0
    BY <1>1, <1>4
  <2>3. PICK x \in Nat : Largest(x, j - 1)
    <3>1. j - 1 \in S /\ ~(j <= j - 1)
      BY <1>1, <2>2
    <3> HIDE DEF Largest
    <3> QED BY <2>1, <3>1
  <2>4. (IF RST_int_comparator(d[j], x) > 0 THEN d[j] ELSE x) \in Nat
    BY <1>1, <2>1
  <2> HIDE DEF Largest
  <2> QED BY <1>5, <2>1, <2>2, <2>3, <2>4
<1>7. \A j \in S : M[j] \in Nat /\ Largest(M[j], j)
  <2> HIDE DEF Largest
  <2> QED BY <1>6
<1>8. \A j \in S, x, y \in Nat : Largest(x, j) /\ Largest(y, j) => x = y
  <2> TAKE j \in S, x \in Nat, y \in Nat
  <2> HAVE Largest(x, j) /\ Largest(y, j)
  <2>1. x <= y /\ y <= x
    OBVIOUS
  <2> QED BY <2>1
<1>9. M = Body(M)
  <2> SUFFICES ASSUME NEW j \in S
               PROVE  M[j] = IF j = 0 THEN d[0]
                             ELSE IF RST_int_comparator(d[j], M[j - 1]) > 0 THEN d[j] ELSE M[j - 1]
    <3>1. M = [j \in S |-> M[j]]
      OBVIOUS
    <3> HIDE DEF M
    <3> QED BY <3>1
  <2> HIDE DEF M, Largest
  <2>1. CASE j = 0
    BY <1>1, <1>4, <1>7, <1>8, <2>1
  <2>2. CASE j # 0
    <3>1. j - 1 \in S
      BY <1>1, <2>2
    <3>2. Largest(IF RST_int_comparator(d[j], M[j - 1]) > 0 THEN d[j] ELSE M[j - 1], j)
      BY <1>5, <1>7, <2>2, <3>1
    <3>3. (IF RST_int_comparator(d[j], M[j - 1]) > 0 THEN d[j] ELSE M[j - 1]) \in Nat
      BY <1>1, <1>7, <3>1
    <3> QED BY <1>7, <1>8, <2>2, <3>2, <3>3
  <2> QED BY <2>1, <2>2
<1>10. best = Body(best)
  <2> HIDE DEF M, Body
  <2> QED BY <1>9
<1> HIDE DEF M, best, Largest
<1>11. \A j \in S : best[j] \in Nat /\ Largest(best[j], j)
  <2> DEFINE bad == {j \in S : ~(best[j] \in Nat /\ Largest(best[j], j))}
  <2> SUFFICES ASSUME bad # {} PROVE FALSE
    OBVIOUS
  <2>1. PICK j \in bad : \A y \in bad : j <= y
    <3>1. bad \subseteq Nat
      BY <1>1
    <3> HIDE DEF bad
    <3> QED BY <3>1, LeastOf
  <2>2. best[j] = IF j = 0 THEN d[0]
                  ELSE IF RST_int_comparator(d[j], best[j - 1]) > 0 THEN d[j] ELSE best[j - 1]
    BY <1>10, <2>1
  <2>3. j # 0
    BY <1>1, <1>4, <2>1, <2>2
  <2>4. j - 1 \in S /\ best[j - 1] \in Nat /\ Largest(best[j - 1], j - 1)
    BY <1>1, <2>1, <2>3
  <2>5. best[j] \in Nat
    BY <1>1, <2>1, <2>2, <2>3, <2>4
  <2> QED BY <1>5, <2>1, <2>2, <2>3, <2>4, <2>5
<1>12. n - 1 \in S
  BY <1>1
<1> QED BY <1>2, <1>3, <1>11, <1>12 DEF Largest

-----------------------------------------------------------------------------
(***************************************************************************)
(* The inductive invariant                                                 *)
(***************************************************************************)
Passed == {clients.data[j] : j \in 0 .. k - 1}

\* What the iterators have passed is what the loops have dealt with.
Progress ==
  /\ pc = "fill" => k <= clients.size /\ readset = Passed \cup {SERV_SOCK}
  /\ pc = "select" => /\ readset = opened \cup {SERV_SOCK}
                      /\ mx \in readset /\ \A s \in readset : s <= mx
  /\ pc = "scan" => k <= clients.size /\ visited = Passed

IInv == TypeOK /\ ClientsAreOpen /\ Progress /\ EachHadItsTurn /\ ClosedOnce

LEMMA InitEstablishes == Init => IInv
<1> SUFFICES ASSUME Init PROVE IInv
  OBVIOUS
<1>1. IsVector(VectorInit, Socket) /\ Slots(VectorInit) = {} /\ VectorInit.size = 0
  BY DEF IsVector, VectorInit, Array, Slots
<1>2. TypeOK
  BY <1>1 DEF Init, TypeOK
<1>3. ClientsAreOpen
  BY <1>1 DEF Init, ClientsAreOpen, NoRepeats, Elements
<1>4. Progress
  BY <1>1 DEF Init, Progress, Passed
<1> QED BY <1>2, <1>3, <1>4 DEF IInv, Init, EachHadItsTurn, ClosedOnce

LEMMA SlotFacts ==
  ASSUME IInv
  PROVE  /\ clients.size \in Nat /\ finished_clients.size \in Nat
         /\ \A j \in 0 .. clients.size - 1 : clients.data[j] \in opened
         /\ Elements(clients) = opened /\ NoRepeats(clients) /\ opened \subseteq Socket
BY DEF IInv, TypeOK, IsVector, ClientsAreOpen, Elements, Slots

LEMMA FillPreserves ==
  ASSUME IInv, FdSet \/ Select
  PROVE  IInv'
<1>1. CASE FdSet
  <2>1. k \in 0 .. clients.size - 1 /\ k' = k + 1
    BY <1>1, SlotFacts DEF FdSet, AtEnd, IteratorNext, IInv, TypeOK
  <2>2. Passed' = Passed \cup {clients.data[k]}
    <3>1. \A j : j \in 0 .. k' - 1 <=> j \in 0 .. k - 1 \/ j = k
      BY <2>1
    <3> QED BY <1>1, <3>1 DEF Passed, FdSet
  <2>3. Progress'
    BY <1>1, <2>1, <2>2, SlotFacts DEF FdSet, Progress, IInv
  <2>4. TypeOK'
    BY <1>1, <2>1, SlotFacts DEF FdSet, TypeOK, IInv
  <2> QED BY <1>1, <2>3, <2>4 DEF FdSet, IInv, ClientsAreOpen, EachHadItsTurn, ClosedOnce
<1>2. CASE Select
  <2>1. k = clients.size
    BY <1>2, SlotFacts DEF Select, AtEnd, IInv, TypeOK, Progress
  <2>2. Passed = opened
    BY <2>1, SlotFacts DEF Passed, Elements, Slots
  <2>3. readset = opened \cup {SERV_SOCK}
    BY <1>2, <2>2 DEF Select, Progress, IInv
  <2>4. mx' \in readset /\ \A s \in readset : s <= mx'
    <3>1. CASE SetEmpty(clients)
      <4>1. opened = {} /\ mx' = SERV_SOCK
        BY <1>2, <3>1, SlotFacts DEF Select, SetEmpty, Elements, Slots
      <4> QED BY <2>3, <4>1, RegistryAssumption
    <3>2. CASE ~SetEmpty(clients)
      <4> DEFINE m == SetMaxElement(clients)
      <4>1. mx' = RST_max(SERV_SOCK, m)
        BY <1>2, <3>2 DEF Select
      <4>2. m \in opened /\ \A e \in opened : e <= m
        <5>1. IsVector(clients, Socket) /\ clients.size > 0
          BY <3>2, SlotFacts DEF IInv, TypeOK, SetEmpty
        <5> QED BY <5>1, SlotFacts, MaxElementIs
      <4>3. \A e \in opened \cup {SERV_SOCK} : e \in Nat
        BY SlotFacts, RegistryAssumption
      <4> HIDE DEF m
      <4> QED BY <2>3, <4>1, <4>2, <4>3 DEF RST_max
    <3> QED BY <3>1, <3>2
  <2>5. Progress'
    BY <1>2, <2>3, <2>4 DEF Select, Progress
  <2>6. TypeOK'
    BY <1>2, <2>4 DEF Select, TypeOK, IInv
  <2> QED BY <1>2, <2>5, <2>6 DEF Select, IInv, ClientsAreOpen, EachHadItsTurn, ClosedOnce
<1> QED BY <1>1, <1>2

LEMMA AcceptPreserves ==
  ASSUME IInv, AcceptClient \/ AcceptNone
  PROVE  IInv'
<1>1. /\ IsVector(clients', Socket) /\ NoRepeats(clients') /\ Elements(clients') = opened'
      /\ opened' \subseteq Socket
  <2>1. CASE AcceptNone
    BY <2>1, SlotFacts DEF AcceptNone, IInv, TypeOK
  <2>2. CASE AcceptClient
    <3>1. PICK s \in Socket \ opened : opened' = opened \cup {s} /\ clients' = SetInsert(clients, s)
      BY <2>2 DEF AcceptClient
    <3>2. IsVector(clients, Socket)
      BY DEF IInv, TypeOK
    <3> QED BY <3>1, <3>2, SlotFacts, InsertAdds
  <2> QED BY <2>1, <2>2
<1>2. StartScan
  BY DEF AcceptClient, AcceptNone
<1>3. IsVector(finished_clients', Socket) /\ finished_clients'.size = 0
  <2>1. IsVector(finished_clients, Socket) /\ finished_clients.size \in Nat
    BY SlotFacts DEF IInv, TypeOK
  <2>2. CASE finished_clients.size > 0
    BY <1>2, <2>1, <2>2 DEF StartScan, ClearFinished, VectorClear, Array, IsVector
  <2>3. CASE ~(finished_clients.size > 0)
    BY <1>2, <2>1, <2>3 DEF StartScan, ClearFinished
  <2> QED BY <2>2, <2>3
<1>4. Slots(finished_clients') = {}
  BY <1>3 DEF Slots
<1>5. clients'.size \in Nat
  BY <1>1 DEF IsVector
<1>6. TypeOK'
  BY <1>1, <1>2, <1>3 DEF StartScan, TypeOK, IInv
<1>7. Progress'
  BY <1>2, <1>5 DEF StartScan, Progress, Passed
<1>8. ClosedOnce'
  BY <1>2, <1>4 DEF StartScan, ClosedOnce, NoRepeats, Elements
<1> QED BY <1>1, <1>2, <1>6, <1>7, <1>8 DEF StartScan, IInv, ClientsAreOpen, EachHadItsTurn

LEMMA ScanPreserves ==
  ASSUME IInv, Turn \/ EndScan
  PROVE  IInv'
<1>1. CASE Turn
  <2> DEFINE s == clients.data[k]
  <2>1. k \in 0 .. clients.size - 1 /\ k' = k + 1 /\ s \in opened
    BY <1>1, SlotFacts DEF Turn, AtEnd, IteratorNext, IInv, TypeOK
  <2>2. Passed' = Passed \cup {s}
    <3>1. \A j : j \in 0 .. k' - 1 <=> j \in 0 .. k - 1 \/ j = k
      BY <2>1
    <3> QED BY <1>1, <3>1 DEF Passed, Turn
  <2>3. s \notin visited
    BY <1>1, <2>1, SlotFacts DEF Turn, IInv, Progress, Passed, NoRepeats, Slots
  <2>4. Progress'
    BY <1>1, <2>1, <2>2, SlotFacts DEF Turn, Progress, IInv
  <2>5. /\ IsVector(finished_clients', Socket) /\ NoRepeats(finished_clients')
        /\ Elements(finished_clients') \subseteq Elements(finished_clients) \cup {s}
    <3>1. IsVector(finished_clients, Socket) /\ NoRepeats(finished_clients) /\ s \in Socket
          /\ s \notin Elements(finished_clients)
      BY <1>1, <2>1, <2>3 DEF Turn, IInv, TypeOK, ClosedOnce
    <3>2. CASE UNCHANGED finished_clients
      BY <3>1, <3>2
    <3>3. CASE finished_clients' = VectorPushBack(finished_clients, s)
      <4> DEFINE f == finished_clients
                 w == VectorPushBack(finished_clients, s)
      <4>1. /\ IsVector(w, Socket) /\ w.size = f.size + 1
            /\ \A j \in Slots(f) : w.data[j] = f.data[j]
            /\ w.data[f.size] = s
        BY <3>1, PushBackAppends
      <4>2. \A j : j \in Slots(w) <=> j \in Slots(f) \/ j = f.size
        BY <4>1, SlotFacts DEF Slots
      <4> HIDE DEF w
      <4>3. NoRepeats(w)
        BY <3>1, <4>1, <4>2 DEF NoRepeats, Elements
      <4>4. Elements(w) \subseteq Elements(f) \cup {s}
        BY <4>1, <4>2 DEF Elements
      <4>5. finished_clients' = w
        BY <3>3 DEF w
      <4> QED BY <4>1, <4>3, <4>4, <4>5
    <3> QED BY <1>1, <3>2, <3>3 DEF Turn
  <2>6. TypeOK'
    BY <1>1, <2>1, <2>5, SlotFacts DEF Turn, TypeOK, IInv
  <2>7. ClosedOnce'
    BY <1>1, <2>1, <2>5 DEF Turn, ClosedOnce, IInv
  <2> QED BY <1>1, <2>4, <2>6, <2>7 DEF Turn, IInv, ClientsAreOpen, EachHadItsTurn
<1>2. CASE EndScan
  <2>1. k = clients.size
    BY <1>2, SlotFacts DEF EndScan, AtEnd, IInv, TypeOK, Progress
  <2>2. visited = opened
    BY <1>2, <2>1, SlotFacts DEF EndScan, IInv, Progress, Passed, Elements, Slots
  <2>3. ClosedOnce'
    BY <1>2 DEF EndScan, IInv, ClosedOnce, Elements, Slots
  <2> QED BY <1>2, <2>2, <2>3 DEF EndScan, IInv, TypeOK, Progress, ClientsAreOpen, EachHadItsTurn
<1> QED BY <1>1, <1>2

LEMMA ReleasePreserves ==
  ASSUME IInv, Release \/ NextIteration
  PROVE  IInv'
<1>1. CASE Release
  <2> DEFINE s == finished_clients.data[k]
  <2>1. k \in 0 .. finished_clients.size - 1 /\ k' = k + 1
    BY <1>1, SlotFacts DEF Release, AtEnd, IInv, TypeOK
  <2>2. s \in opened
    BY <1>1, <2>1 DEF Release, IInv, ClosedOnce
  <2>3. /\ IsVector(clients', Socket) /\ NoRepeats(clients') /\ Elements(clients') = opened'
    <3>1. IsVector(clients, Socket)
      BY DEF IInv, TypeOK
    <3> QED BY <1>1, <2>2, <3>1, SlotFacts, EraseRemoves DEF Release
  <2>4. ClosedOnce'
    <3>1. \A j \in k' .. finished_clients.size - 1 :
            finished_clients.data[j] \in opened /\ finished_clients.data[j] # s
      BY <1>1, <2>1 DEF Release, IInv, ClosedOnce, NoRepeats, Slots
    <3> QED BY <1>1, <3>1 DEF Release, IInv, ClosedOnce
  <2>5. TypeOK'
    BY <1>1, <2>1, <2>3 DEF Release, IInv, TypeOK
  <2> QED BY <1>1, <2>3, <2>4, <2>5 DEF Release, IInv, Progress, ClientsAreOpen, EachHadItsTurn
<1>2. CASE NextIteration
  <2>1. Progress'
    BY <1>2, SlotFacts DEF NextIteration, Progress, Passed
  <2> QED BY <1>2, <2>1 DEF NextIteration, IInv, TypeOK, ClientsAreOpen, EachHadItsTurn, ClosedOnce
<1> QED BY <1>1, <1>2

\* The arrays, the iterations over them and the descriptors stay in step.
THEOREM RegistryInvariant == Spec => []IInv
<1>1. ASSUME IInv, [Next]_vars PROVE IInv'
  <2>1. CASE UNCHANGED vars
    BY <1>1, <2>1 DEF vars, IInv, TypeOK, ClientsAreOpen, Progress, Passed, EachHadItsTurn, ClosedOnce
  <2>2. CASE Next
    BY <1>1, <2>2, FillPreserves, AcceptPreserves, ScanPreserves, ReleasePreserves DEF Next
  <2> QED BY <1>1, <2>1, <2>2
<1> QED BY <1>1, InitEstablishes, PTL DEF Spec

\* The slots of clients in use hold the open descriptors, each once, after any
\* history of accepts and releases (RST_set_insert, RST_set_erase).
THEOREM ClientsAlwaysOpen == Spec => []ClientsAreOpen
BY RegistryInvariant, PTL DEF IInv

\* select() is given every client, and a first argument that is the largest of
\* the descriptors it is given (RST_set_max_element, RST_max).
THEOREM SelectAlwaysSeesAll == Spec => []SelectSeesAll
<1>1. IInv => SelectSeesAll
  BY DEF IInv, Progress, SelectSeesAll
<1> QED BY <1>1, RegistryInvariant, PTL

\* Every client has its turn in the scan before anything is closed.
THEOREM EachAlwaysHadItsTurn == Spec => []EachHadItsTurn
BY RegistryInvariant, PTL DEF IInv

\* RST_selecttcpserver_release_clients closes a descriptor once and only while
\* it is open.
THEOREM AlwaysClosedOnce == Spec => []ClosedOnce
BY RegistryInvariant, PTL DEF IInv
=============================================================================
