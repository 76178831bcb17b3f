---------------------------- MODULE RstMapProofs ----------------------------
(***************************************************************************)
(* RST_Map keeps keys and values in pairs, destroys every object once and  *)
(* implements MapContract, for any keys and any number of calls.           *)
(***************************************************************************)
EXTENDS RstMap, TLAPS

-----------------------------------------------------------------------------
(***************************************************************************)
(* Lemmas on the array                                                     *)
(***************************************************************************)
Cells == KeyCells \cup ValueCells

\* The loops of RST_Map go by two.
LEMMA EvenFacts ==
  /\ Even(0)
  /\ \A k \in Nat : /\ Even(k + 1) <=> ~Even(k)
                    /\ Even(k + 2) <=> Even(k)
  /\ \A j, k \in Nat : Even(j) /\ Even(k) /\ j < k => j + 1 < k /\ j + 2 <= k
BY DEF Even

LEMMA CellFacts ==
  ASSUME NEW x, NEW n
  PROVE  /\ KeyCell(x, n).is = "key" /\ KeyCell(x, n).key = x /\ KeyCell(x, n).n = n
         /\ ValueCell(n).is = "value" /\ ValueCell(n).n = n
BY DEF KeyCell, ValueCell

LEMMA CellKinds ==
  /\ \A c \in KeyCells : c.is = "key" /\ c.key \in Key /\ c.n \in 1 .. MaxInsert
                         /\ c = KeyCell(c.key, c.n)
  /\ \A c \in ValueCells : c.is = "value" /\ c.n \in 1 .. MaxInsert /\ c = ValueCell(c.n)
  /\ \A x \in Key, n \in 1 .. MaxInsert : KeyCell(x, n) \in KeyCells
  /\ \A n \in 1 .. MaxInsert : ValueCell(n) \in ValueCells
BY DEF KeyCells, ValueCells, KeyCell, ValueCell

\* RST_vector_push_back appends, also when it has to grow.
LEMMA PushBackAppends ==
  ASSUME NEW E, NEW w, IsVector(w, E), NEW x \in E
  PROVE  /\ IsVector(VectorPushBack(w, x), E)
         /\ VectorPushBack(w, x).size = w.size + 1
         /\ \A j \in Slots(w) : VectorPushBack(w, x).data[j] = w.data[j]
         /\ VectorPushBack(w, x).data[w.size] = x
<1> DEFINE u == IF w.size = w.capacity THEN Grown(w) ELSE w
<1>1. /\ IsVector(u, E) /\ u.size = w.size /\ u.size < u.capacity
      /\ \A j \in Slots(w) : u.data[j] = w.data[j]
  <2>1. CASE w.size = w.capacity
    <3> DEFINE d == [j \in 0 .. 2 * w.capacity - 1 |-> IF j < w.capacity THEN w.data[j] ELSE Null]
    <3>1. u = Array(d, w.size, 2 * w.capacity)
      BY <2>1 DEF Grown
    <3>2. \A j \in 0 .. 2 * w.capacity - 1 : d[j] \in E \cup {Null}
      BY DEF IsVector
    <3>3. d \in [0 .. 2 * w.capacity - 1 -> E \cup {Null}]
      BY <3>2
    <3>4. \A j \in Slots(w) : d[j] = w.data[j]
      BY <2>1 DEF Slots, IsVector
    <3> HIDE DEF d, u
    <3> QED BY <2>1, <3>1, <3>3, <3>4 DEF IsVector, Array
  <2>2. CASE w.size # w.capacity
    BY <2>2 DEF IsVector, Slots
  <2> QED BY <2>1, <2>2
<1>2. VectorPushBack(w, x) = Array([u.data EXCEPT ![u.size] = x], u.size + 1, u.capacity)
  BY DEF VectorPushBack, Put
<1> HIDE DEF u
<1> QED BY <1>1, <1>2 DEF IsVector, Slots, Array

\* RST_vector_erase closes the gap and keeps the order.
LEMMA EraseShifts ==
  ASSUME NEW E, NEW w, IsVector(w, E), NEW m \in Slots(w)
  PROVE  /\ IsVector(VectorErase(w, m), E)
         /\ VectorErase(w, m).size = w.size - 1
         /\ \A j \in 0 .. w.size - 2 :
              VectorErase(w, m).data[j] = IF j < m THEN w.data[j] ELSE w.data[j + 1]
<1>1. Shifted(w, m) \in [0 .. w.capacity - 1 -> E \cup {Null}]
  <2>1. \A j \in 0 .. w.capacity - 1 :
          (IF j \in m .. w.size - 2 THEN w.data[j + 1] ELSE w.data[j]) \in E \cup {Null}
    BY SMTT(30) DEF IsVector, Slots
  <2> QED BY <2>1 DEF Shifted
<1> QED BY <1>1 DEF IsVector, Slots, VectorErase, Array, Shifted

\* The two calls of RST_map_insert add a pair at the end.
LEMMA PairPushed ==
  ASSUME NEW w, IsVector(w, Cells), NEW a \in Cells, NEW b \in Cells,
         NEW u, u = VectorPushBack(VectorPushBack(w, a), b)
  PROVE  /\ IsVector(u, Cells) /\ u.size = w.size + 2
         /\ \A j \in Slots(w) : u.data[j] = w.data[j]
         /\ u.data[w.size] = a /\ u.data[w.size + 1] = b
<1> DEFINE t == VectorPushBack(w, a)
<1>1. /\ IsVector(t, Cells) /\ t.size = w.size + 1
      /\ \A j \in Slots(w) : t.data[j] = w.data[j]
      /\ t.data[w.size] = a
  BY PushBackAppends
<1> HIDE DEF t
<1>2. /\ IsVector(u, Cells) /\ u.size = t.size + 1
      /\ \A j \in Slots(t) : u.data[j] = t.data[j]
      /\ u.data[t.size] = b
  <2>1. u = VectorPushBack(t, b)
    BY DEF t
  <2> QED BY <1>1, <2>1, PushBackAppends
<1>3. w.size \in Nat
  BY DEF IsVector
<1> QED BY <1>1, <1>2, <1>3 DEF Slots

\* The two calls of RST_map_erase with the same index take out neighbours.
LEMMA PairTakenOut ==
  ASSUME NEW w, IsVector(w, Cells), NEW m \in Nat, m + 1 < w.size,
         NEW u, u = VectorErase(VectorErase(w, m), m)
  PROVE  /\ VectorErase(w, m).data[m] = w.data[m + 1]
         /\ IsVector(u, Cells) /\ u.size = w.size - 2
         /\ \A j \in Slots(u) : u.data[j] = IF j < m THEN w.data[j] ELSE w.data[j + 2]
<1> DEFINE t == VectorErase(w, m)
<1>0. w.size \in Nat /\ m \in Slots(w)
  BY DEF IsVector, Slots
<1>1. /\ IsVector(t, Cells) /\ t.size = w.size - 1
      /\ \A j \in 0 .. w.size - 2 : t.data[j] = IF j < m THEN w.data[j] ELSE w.data[j + 1]
  BY <1>0, EraseShifts
<1> HIDE DEF t
<1>2. /\ IsVector(u, Cells) /\ u.size = t.size - 1
      /\ \A j \in 0 .. t.size - 2 : u.data[j] = IF j < m THEN t.data[j] ELSE t.data[j + 1]
  <2>1. u = VectorErase(t, m) /\ m \in Slots(t)
    BY <1>0, <1>1 DEF t, Slots
  <2> QED BY <1>1, <2>1, EraseShifts
<1>3. t.data[m] = w.data[m + 1]
  BY <1>0, <1>1
<1>4. ASSUME NEW j \in Slots(u) PROVE u.data[j] = IF j < m THEN w.data[j] ELSE w.data[j + 2]
  <2>1. j \in 0 .. t.size - 2 /\ j \in 0 .. w.size - 2 /\ j + 1 \in 0 .. w.size - 2
    BY <1>0, <1>1, <1>2, <1>4 DEF Slots
  <2>2. (j + 1) + 1 = j + 2
    BY <2>1
  <2>3. CASE j < m
    BY <1>1, <1>2, <2>1, <2>3
  <2>4. CASE ~(j < m)
    <3>1. u.data[j] = t.data[j + 1] /\ ~(j + 1 < m)
      BY <1>2, <2>1, <2>4
    <3> QED BY <1>1, <2>1, <2>2, <2>4, <3>1
  <2> QED BY <2>3, <2>4
<1> QED BY <1>0, <1>1, <1>2, <1>3, <1>4 DEF t

-----------------------------------------------------------------------------
(***************************************************************************)
(* The inductive invariant                                                 *)
(***************************************************************************)
\* The part of PairsAligned that is about the array alone.
Paired(w) ==
  /\ IsVector(w, Cells)
  /\ Even(w.size)
  /\ \A k \in Slots(w) : w.data[k] \in IF Even(k) THEN KeyCells ELSE ValueCells
  /\ \A k \in Slots(w) : Even(k) => w.data[k + 1] = ValueCell(w.data[k].n)
  /\ \A j, k \in Slots(w) : Even(j) /\ Even(k) /\ w.data[j].key = w.data[k].key => j = k

\* The objects of a pair come from one call of RST_map_insert, at most the n-th.
Numbered(w, n) ==
  /\ \A k \in Slots(w) : w.data[k].n <= n
  /\ \A j, k \in Slots(w) : Even(j) /\ Even(k) /\ w.data[j].n = w.data[k].n => j = k

Calls == 1 .. Len(destroyed)
Unfinished == pc # "closing" /\ pc # "closed"
Owned(k) == ~Even(k) \/ owns_keys

\* What destructors were called with: objects of earlier insertions, none of
\* them twice, none still in the array, and once RST_map_release runs exactly
\* the owned objects it has passed.
Destruction ==
  /\ \A j \in Calls : destroyed[j].n <= inserts
  /\ \A j, k \in Calls : destroyed[j] = destroyed[k] => j = k
  /\ Unfinished => \A j \in Calls, k \in Slots(v) : destroyed[j] # v.data[k]
  /\ ~Unfinished =>
       \A k \in Slots(v) : (k < i /\ Owned(k)) <=> \E j \in Calls : destroyed[j] = v.data[k]
  /\ pc = "closed" => i >= v.size

\* How far the loops are: RST_map_erase has left no match behind, the iterator
\* has produced the keys it has passed.
Progress ==
  /\ Even(i)
  /\ pc = "erasing" => \A k \in Slots(v) : Even(k) /\ k < i => v.data[k].key # arg
  /\ pc = "listing" =>
       {seen[j] : j \in 1 .. Len(seen)} = {v.data[k].key : k \in {j \in Slots(v) : Even(j) /\ j < i}}

IInv == TypeOK /\ Paired(v) /\ Numbered(v, inserts) /\ Destruction /\ Progress

LEMMA Basics ==
  ASSUME TypeOK
  PROVE  /\ v.size \in Nat /\ i \in Nat /\ inserts \in Nat /\ Len(destroyed) \in Nat
         /\ IsVector(v, Cells)
BY MapAssumption DEF TypeOK, IsVector, Cells

\* Two slots never point to the same object.
LEMMA CellsDistinct ==
  ASSUME NEW w, Paired(w), NEW n, Numbered(w, n),
         NEW j \in Slots(w), NEW k \in Slots(w), w.data[j] = w.data[k]
  PROVE  j = k
<1>0. w.size \in Nat /\ j \in Nat /\ k \in Nat
  BY DEF Paired, IsVector, Slots
<1>1. Even(j) <=> Even(k)
  BY CellKinds DEF Paired
<1>2. CASE Even(j)
  BY <1>1, <1>2 DEF Numbered
<1>3. CASE ~Even(j)
  <2>1. \A m \in Slots(w) : ~Even(m) =>
          /\ m - 1 \in Slots(w) /\ Even(m - 1)
          /\ w.data[m].n = w.data[m - 1].n
    <3> SUFFICES ASSUME NEW m \in Slots(w), ~Even(m)
                 PROVE  m - 1 \in Slots(w) /\ Even(m - 1) /\ w.data[m].n = w.data[m - 1].n
      OBVIOUS
    <3>1. m \in Nat /\ m # 0
      BY <1>0, EvenFacts DEF Slots
    <3>2. m - 1 \in Slots(w) /\ m - 1 \in Nat /\ (m - 1) + 1 = m
      BY <1>0, <3>1 DEF Slots
    <3>3. Even(m - 1)
      BY <3>2, EvenFacts
    <3>4. w.data[m] = ValueCell(w.data[m - 1].n)
      BY <3>2, <3>3 DEF Paired
    <3> QED BY <3>2, <3>3, <3>4, CellFacts
  <2>2. j - 1 = k - 1
    BY <1>1, <1>3, <2>1 DEF Numbered
  <2> QED BY <1>0, <2>2
<1> QED BY <1>2, <1>3

LEMMA InitEstablishes == Init => IInv
<1> SUFFICES ASSUME Init PROVE IInv
  OBVIOUS
<1>1. IsVector(VectorInit, Cells) /\ Slots(VectorInit) = {} /\ VectorInit.size = 0
  BY DEF IsVector, VectorInit, Array, Slots
<1>2. TypeOK
  BY <1>1, MapAssumption DEF Init, TypeOK, Cells
<1>3. Paired(v) /\ Numbered(v, inserts)
  BY <1>1, EvenFacts DEF Init, Paired, Numbered
<1>4. Destruction
  BY DEF Init, Destruction, Calls, Unfinished
<1>5. Progress
  BY EvenFacts DEF Init, Progress
<1> QED BY <1>2, <1>3, <1>4, <1>5 DEF IInv

-----------------------------------------------------------------------------
(***************************************************************************)
(* What an insertion and an erasure do to the pairs                        *)
(***************************************************************************)
LEMMA InsertKeepsPairs ==
  ASSUME NEW w, Paired(w), NEW m \in Nat, Numbered(w, m), m < MaxInsert, NEW x \in Key,
         \A k \in Slots(w) : Even(k) => w.data[k].key # x,
         NEW u, u = VectorPushBack(VectorPushBack(w, KeyCell(x, m + 1)), ValueCell(m + 1))
  PROVE  /\ Paired(u) /\ Numbered(u, m + 1)
         /\ u.size = w.size + 2
         /\ \A j \in Slots(w) : u.data[j] = w.data[j]
         /\ u.data[w.size] = KeyCell(x, m + 1) /\ u.data[w.size + 1] = ValueCell(m + 1)
<1>0. m + 1 \in 1 .. MaxInsert /\ w.size \in Nat
  BY MapAssumption DEF Paired, IsVector
<1>1. KeyCell(x, m + 1) \in KeyCells /\ ValueCell(m + 1) \in ValueCells
  BY <1>0, CellKinds
<1>2. /\ IsVector(u, Cells) /\ u.size = w.size + 2
      /\ \A j \in Slots(w) : u.data[j] = w.data[j]
      /\ u.data[w.size] = KeyCell(x, m + 1) /\ u.data[w.size + 1] = ValueCell(m + 1)
  <2>1. KeyCell(x, m + 1) \in Cells /\ ValueCell(m + 1) \in Cells /\ IsVector(w, Cells)
    BY <1>1 DEF Cells, Paired
  <2> HIDE DEF Cells
  <2> QED BY <2>1, PairPushed
<1>3. \A j : j \in Slots(u) <=> j \in Slots(w) \/ j = w.size \/ j = w.size + 1
  BY <1>0, <1>2 DEF Slots
<1>4. Even(w.size) /\ ~Even(w.size + 1) /\ Even(u.size)
  BY <1>0, <1>2, EvenFacts DEF Paired
<1>5. \A k \in Slots(u) : u.data[k] \in IF Even(k) THEN KeyCells ELSE ValueCells
  BY <1>1, <1>2, <1>3, <1>4 DEF Paired
<1>6. \A k \in Slots(w) : Even(k) => k + 1 \in Slots(w)
  <2> SUFFICES ASSUME NEW k \in Slots(w), Even(k) PROVE k + 1 \in Slots(w)
    OBVIOUS
  <2>1. k \in Nat /\ k < w.size
    BY <1>0 DEF Slots
  <2>2. k + 1 < w.size
    BY <1>0, <1>4, <2>1, EvenFacts
  <2> QED BY <1>0, <2>1, <2>2 DEF Slots
<1>7. \A k \in Slots(u) : Even(k) => u.data[k + 1] = ValueCell(u.data[k].n)
  BY <1>2, <1>3, <1>4, <1>6, CellFacts DEF Paired
<1>8. u.data[w.size].key = x /\ u.data[w.size].n = m + 1 /\ u.data[w.size + 1].n = m + 1
  BY <1>2, CellFacts
<1>9. \A j, k \in Slots(u) : Even(j) /\ Even(k) /\ u.data[j].key = u.data[k].key => j = k
  BY <1>2, <1>3, <1>4, <1>8 DEF Paired
<1>10. \A k \in Slots(w) : w.data[k].n \in Nat /\ w.data[k].n <= m
  BY CellKinds, MapAssumption DEF Paired, Numbered
<1>11. Numbered(u, m + 1)
  <2>1. \A k \in Slots(u) : u.data[k].n <= m + 1
    BY <1>2, <1>3, <1>8, <1>10
  <2>2. \A k \in Slots(w) : u.data[k].n # m + 1
    BY <1>2, <1>10
  <2>3. \A j, k \in Slots(u) : Even(j) /\ Even(k) /\ u.data[j].n = u.data[k].n => j = k
    BY <1>2, <1>3, <1>4, <1>8, <2>2 DEF Numbered
  <2> QED BY <2>1, <2>3 DEF Numbered
<1> QED BY <1>2, <1>4, <1>5, <1>7, <1>9, <1>11 DEF Paired

\* The slot of the old array a slot of the new one was.
Before(m, j) == IF j < m THEN j ELSE j + 2

LEMMA EraseKeepsPairs ==
  ASSUME NEW w, Paired(w), NEW n, Numbered(w, n), NEW m \in Slots(w), Even(m),
         NEW u, u = VectorErase(VectorErase(w, m), m)
  PROVE  /\ VectorErase(w, m).data[m] = w.data[m + 1]
         /\ Paired(u) /\ Numbered(u, n) /\ u.size = w.size - 2
         /\ \A j \in Slots(u) : /\ Before(m, j) \in Slots(w) \ {m, m + 1}
                                /\ Even(Before(m, j)) <=> Even(j)
                                /\ u.data[j] = w.data[Before(m, j)]
<1>0. w.size \in Nat /\ m \in Nat /\ m < w.size
  BY DEF Paired, IsVector, Slots
<1>1. m + 1 < w.size
  BY <1>0, EvenFacts DEF Paired
<1>2. /\ VectorErase(w, m).data[m] = w.data[m + 1]
      /\ IsVector(u, Cells) /\ u.size = w.size - 2
      /\ \A j \in Slots(u) : u.data[j] = IF j < m THEN w.data[j] ELSE w.data[j + 2]
  BY <1>0, <1>1, PairTakenOut DEF Paired
<1>3. \A j \in Slots(u) : j \in Nat /\ Before(m, j) \in Slots(w) \ {m, m + 1}
  BY <1>0, <1>1, <1>2 DEF Slots, Before
<1>4. \A j \in Slots(u) : Even(Before(m, j)) <=> Even(j)
  BY <1>3, EvenFacts DEF Before
<1>5. \A j \in Slots(u) : u.data[j] = w.data[Before(m, j)]
  BY <1>2 DEF Before
<1>6. \A j, k \in Slots(u) : Before(m, j) = Before(m, k) => j = k
  BY <1>0, <1>3 DEF Before
<1>7. Even(u.size)
  <2>1. u.size \in Nat /\ u.size + 2 = w.size
    BY <1>0, <1>1, <1>2
  <2> QED BY <2>1, EvenFacts DEF Paired
<1>8. \A k \in Slots(u) : Even(k) => k + 1 \in Slots(u) /\ Before(m, k + 1) = Before(m, k) + 1
  <2> SUFFICES ASSUME NEW k \in Slots(u), Even(k)
               PROVE  k + 1 \in Slots(u) /\ Before(m, k + 1) = Before(m, k) + 1
    OBVIOUS
  <2>1. k \in Nat /\ k < u.size /\ u.size \in Nat
    BY <1>0, <1>1, <1>2, <1>3 DEF Slots
  <2>2. k + 1 < u.size
    BY <1>7, <2>1, EvenFacts
  <2>3. k < m => k + 1 < m
    BY <1>0, <2>1, EvenFacts
  <2> QED BY <1>0, <2>1, <2>2, <2>3 DEF Slots, Before
<1>9. \A k \in Slots(u) : u.data[k] \in IF Even(k) THEN KeyCells ELSE ValueCells
  BY <1>3, <1>4, <1>5 DEF Paired
<1>10. \A k \in Slots(u) : Even(k) => u.data[k + 1] = ValueCell(u.data[k].n)
  BY <1>3, <1>4, <1>5, <1>8 DEF Paired
<1>11. \A j, k \in Slots(u) : Even(j) /\ Even(k) /\ u.data[j].key = u.data[k].key => j = k
  BY <1>3, <1>4, <1>5, <1>6 DEF Paired
<1>12. Numbered(u, n)
  BY <1>3, <1>4, <1>5, <1>6 DEF Numbered
<1> QED BY <1>2, <1>3, <1>4, <1>5, <1>7, <1>9, <1>10, <1>11, <1>12 DEF Paired
-----------------------------------------------------------------------------
(***************************************************************************)
(* Each operation preserves the invariant                                  *)
(***************************************************************************)
\* A match of RST_map_find and RST_map_contains is the only slot of its key.
LEMMA MatchFacts ==
  ASSUME Paired(v), NEW x
  PROVE  /\ MapContains(x) <=> \E k \in Slots(v) : Even(k) /\ v.data[k].key = x
         /\ \A k \in Slots(v) : Even(k) /\ v.data[k].key = x => FirstMatch(x) = k
<1>1. ASSUME NEW k \in Slots(v), Even(k), v.data[k].key = x PROVE FirstMatch(x) = k
  <2>1. Matches(x) = {k}
    BY <1>1 DEF Matches, Paired
  <2>2. k \in Int
    BY DEF Slots
  <2> QED BY <2>1, <2>2 DEF FirstMatch
<1> QED BY <1>1 DEF MapContains, Matches

LEMMA InsertPreserves ==
  ASSUME IInv, NEW x \in Key, MapInsert(x)
  PROVE  IInv'
<1> USE DEF IInv
<1>0. /\ v.size \in Nat /\ inserts \in Nat /\ inserts' = inserts + 1 /\ inserts < MaxInsert
      /\ inserts' \in 0 .. MaxInsert /\ pc = "open" /\ MaxInsert \in Nat
  BY Basics, MapAssumption DEF MapInsert
<1>1. CASE MapContains(x)
  <2>1. v' = v
    BY <1>1 DEF MapInsert, Inserted
  <2>2. TypeOK'
    BY <1>0, <2>1 DEF TypeOK, MapInsert
  <2>3. \A k \in Slots(v) : v.data[k].n \in Nat
    BY MapAssumption, CellKinds DEF Paired
  <2>4. Paired(v') /\ Numbered(v', inserts')
    BY <1>0, <2>1, <2>3 DEF Numbered
  <2>5. \A j \in Calls : destroyed[j] \in Cells /\ destroyed[j].n \in Nat
    BY MapAssumption, CellKinds DEF TypeOK, Calls, Cells
  <2>6. Destruction'
    BY <1>0, <2>1, <2>5 DEF Destruction, Calls, Unfinished, MapInsert
  <2>7. Progress'
    BY <1>0, <2>1 DEF Progress, MapInsert
  <2> QED BY <2>2, <2>4, <2>6, <2>7
<1>2. CASE ~MapContains(x)
  <2>1. /\ Paired(v') /\ Numbered(v', inserts + 1)
        /\ v'.size = v.size + 2
        /\ \A j \in Slots(v) : v'.data[j] = v.data[j]
        /\ v'.data[v.size] = KeyCell(x, inserts + 1) /\ v'.data[v.size + 1] = ValueCell(inserts + 1)
    <3>1. v' = VectorPushBack(VectorPushBack(v, KeyCell(x, inserts + 1)), ValueCell(inserts + 1))
      BY <1>0, <1>2 DEF MapInsert, Inserted
    <3>2. \A k \in Slots(v) : Even(k) => v.data[k].key # x
      BY <1>2, MatchFacts
    <3> QED BY <1>0, <3>1, <3>2, InsertKeepsPairs
  <2>2. TypeOK'
    BY <1>0, <2>1 DEF TypeOK, MapInsert, Paired, Cells
  <2>3. \A j \in Calls : destroyed[j].n \in Nat /\ destroyed[j].n <= inserts
    BY MapAssumption, CellKinds DEF TypeOK, Calls, Cells, Destruction
  <2>4. v'.data[v.size].n = inserts + 1 /\ v'.data[v.size + 1].n = inserts + 1
    BY <2>1, CellFacts
  <2>5. \A k \in Slots(v') : k \in Slots(v) \/ k = v.size \/ k = v.size + 1
    BY <1>0, <2>1 DEF Slots
  <2>6. \A j \in Calls, k \in Slots(v') : destroyed[j] # v'.data[k]
    BY <1>0, <2>1, <2>3, <2>4, <2>5 DEF Destruction, Unfinished
  <2>7. Destruction'
    <3>1. destroyed' = destroyed /\ inserts' = inserts + 1 /\ pc' = pc /\ pc = "open"
      BY DEF MapInsert
    <3>2. Calls' = Calls /\ Unfinished' /\ pc' # "closed"
      BY <3>1 DEF Calls, Unfinished
    <3>3. \A j \in Calls : destroyed[j].n <= inserts + 1
      BY <1>0, <2>3
    <3>4. \A j, k \in Calls : destroyed[j] = destroyed[k] => j = k
      BY DEF Destruction
    <3> QED BY <2>6, <3>1, <3>2, <3>3, <3>4 DEF Destruction
  <2>8. Progress'
    BY <1>0 DEF Progress, MapInsert
  <2> QED BY <1>0, <2>1, <2>2, <2>7, <2>8
<1> QED BY <1>1, <1>2

LEMMA FindPreserves ==
  ASSUME IInv, NEW x \in Key, MapFind(x)
  PROVE  IInv'
<1>1. found' \in ValueCells \cup {Null}
  <2>1. CASE ~MapContains(x)
    BY <2>1 DEF MapFind
  <2>2. CASE MapContains(x)
    <3>1. PICK k \in Slots(v) : Even(k) /\ v.data[k].key = x
      BY <2>2, MatchFacts DEF IInv
    <3>2. found' = v.data[k + 1]
      BY <2>2, <3>1, MatchFacts DEF MapFind, IInv
    <3> QED BY <3>1, <3>2, CellKinds DEF IInv, Paired
  <2> QED BY <2>1, <2>2
<1> QED BY <1>1 DEF MapFind, IInv, TypeOK, Destruction, Calls, Unfinished, Owned, Progress

\* RST_map_erase, the iterator and RST_map_release start with index 0 and an
\* array they have not touched.
LEMMA BeginPreserves ==
  ASSUME IInv, (\E x \in Key : MapErase(x)) \/ MapBegin \/ MapRelease
  PROVE  IInv'
<1>0. /\ pc = "open" /\ i' = 0 /\ pc' \in {"erasing", "listing", "closing"}
      /\ arg' \in Key /\ UNCHANGED <<v, found, destroyed, inserts, owns_keys>>
      /\ seen' \in Seq(Key) /\ (pc' = "listing" => seen' = <<>>)
  <2>1. arg \in Key /\ seen \in Seq(Key) /\ <<>> \in Seq(Key)
    BY DEF IInv, TypeOK
  <2>2. CASE \E x \in Key : MapErase(x)
    BY <2>1, <2>2 DEF MapErase, Enter
  <2>3. CASE MapBegin
    BY <2>1, <2>3 DEF MapBegin, Enter
  <2>4. CASE MapRelease
    BY <2>1, <2>4 DEF MapRelease, Enter
  <2> QED BY <2>2, <2>3, <2>4
<1>1. TypeOK'
  BY <1>0 DEF IInv, TypeOK
<1>2. \A k \in Slots(v) : ~(k < 0)
  BY DEF Slots
<1>3. Destruction'
  BY <1>0, <1>2 DEF IInv, Destruction, Calls, Unfinished, Owned
<1>4. Progress'
  <2>1. pc' = "listing" => {seen'[j] : j \in 1 .. Len(seen')} = {}
    BY <1>0
  <2> QED BY <1>0, <1>2, <2>1, EvenFacts DEF Progress
<1> QED BY <1>0, <1>1, <1>3, <1>4 DEF IInv

LEMMA ReturnPreserves ==
  ASSUME IInv, EraseReturn \/ ListReturn \/ ReleaseReturn
  PROVE  IInv'
<1>0. /\ i >= v.size /\ UNCHANGED <<v, i, arg, found, seen, destroyed, inserts, owns_keys>>
      /\ \/ pc \in {"erasing", "listing"} /\ pc' = "open"
         \/ pc = "closing" /\ pc' = "closed"
  BY DEF EraseReturn, ListReturn, ReleaseReturn, Leave
<1>1. TypeOK'
  BY <1>0 DEF IInv, TypeOK
<1>2. Destruction'
  BY <1>0 DEF IInv, Destruction, Calls, Unfinished, Owned
<1>3. Progress'
  BY <1>0 DEF IInv, Progress
<1> QED BY <1>0, <1>1, <1>2, <1>3 DEF IInv

\* The index of a turn is that of a key with its value behind it.
LEMMA TurnFacts ==
  ASSUME IInv, i < v.size
  PROVE  /\ i \in Slots(v) /\ i + 1 \in Slots(v) /\ Even(i) /\ ~Even(i + 1) /\ Even(i + 2)
         /\ i + 2 \in Nat /\ v.size \in Nat /\ i \in Nat
         /\ v.data[i] \in KeyCells /\ v.data[i].key \in Key
         /\ v.data[i + 1] \in ValueCells /\ v.data[i + 1] = ValueCell(v.data[i].n)
         /\ v.data[i].n <= inserts /\ v.data[i + 1].n <= inserts
<1>1. i \in Nat /\ v.size \in Nat /\ Even(i) /\ Even(v.size)
  BY Basics DEF IInv, Progress, Paired
<1>2. i + 1 < v.size /\ ~Even(i + 1) /\ Even(i + 2)
  BY <1>1, EvenFacts
<1>3. i \in Slots(v) /\ i + 1 \in Slots(v)
  BY <1>1, <1>2 DEF Slots
<1> QED BY <1>1, <1>2, <1>3, CellKinds DEF IInv, Paired, Numbered

LEMMA EraseTurnPreserves ==
  ASSUME IInv, EraseTurn
  PROVE  IInv'
<1>0. /\ pc = "erasing" /\ pc' = pc /\ i < v.size /\ i' = i + 2
      /\ UNCHANGED <<arg, found, seen, inserts, owns_keys>>
  BY DEF EraseTurn, Loop
<1>1. CASE v.data[i].key = arg
  <2>1. /\ VectorErase(v, i).data[i] = v.data[i + 1]
        /\ Paired(v') /\ Numbered(v', inserts) /\ v'.size = v.size - 2
        /\ \A j \in Slots(v') : /\ Before(i, j) \in Slots(v) \ {i, i + 1}
                                /\ Even(Before(i, j)) <=> Even(j)
                                /\ v'.data[j] = v.data[Before(i, j)]
    <3>1. v' = VectorErase(VectorErase(v, i), i)
      BY <1>1 DEF EraseTurn, PairErased
    <3>2. i \in Slots(v) /\ Even(i)
      BY <1>0, TurnFacts
    <3> QED BY <3>1, <3>2, EraseKeepsPairs DEF IInv
  <2>2. destroyed' = Append(destroyed, v.data[i + 1])
    BY <1>1, <2>1 DEF EraseTurn, ValueToDestroy
  <2>3. v.data[i + 1] \in Cells /\ destroyed \in Seq(Cells)
    BY <1>0, TurnFacts DEF Cells, IInv, TypeOK
  <2>4. /\ destroyed' \in Seq(Cells) /\ Len(destroyed) \in Nat /\ Len(destroyed') = Len(destroyed) + 1
        /\ \A j \in Calls : destroyed'[j] = destroyed[j]
        /\ destroyed'[Len(destroyed) + 1] = v.data[i + 1]
    BY <2>2, <2>3 DEF Calls
  <2>5. \A j \in Calls' : j \in Calls \/ j = Len(destroyed) + 1
    BY <2>4 DEF Calls
  <2>6. \A j \in Calls, k \in Slots(v) : destroyed[j] # v.data[k]
    BY <1>0 DEF IInv, Destruction, Unfinished
  <2>7. TypeOK'
    BY <1>0, <2>1, <2>4, TurnFacts DEF IInv, TypeOK, Paired, Cells
  <2>8. Destruction'
    <3>1. \A j \in Calls' : destroyed'[j].n <= inserts'
      BY <1>0, <2>4, <2>5, TurnFacts DEF IInv, Destruction
    <3>2. \A j, k \in Calls' : destroyed'[j] = destroyed'[k] => j = k
      BY <1>0, <2>4, <2>5, <2>6, TurnFacts DEF IInv, Destruction
    <3>3. \A j \in Calls', k \in Slots(v') : destroyed'[j] # v'.data[k]
      <4> SUFFICES ASSUME NEW j \in Calls', NEW k \in Slots(v'), destroyed'[j] = v'.data[k]
                   PROVE  FALSE
        OBVIOUS
      <4>1. PICK l \in Slots(v) \ {i, i + 1} : v'.data[k] = v.data[l]
        BY <2>1
      <4>2. v.data[i + 1] # v.data[l]
        BY <1>0, <4>1, TurnFacts, CellsDistinct DEF IInv
      <4> QED BY <2>4, <2>5, <2>6, <4>1, <4>2
    <3> QED BY <1>0, <3>1, <3>2, <3>3 DEF Destruction, Unfinished
  <2>9. Progress'
    <3>1. ASSUME NEW k \in Slots(v'), Even(k), k < i' PROVE v'.data[k].key # arg'
      <4>1. Before(i, k) \in Slots(v) \ {i, i + 1} /\ Even(Before(i, k))
            /\ v'.data[k] = v.data[Before(i, k)]
        BY <2>1, <3>1
      <4> QED BY <1>0, <1>1, <4>1, TurnFacts DEF IInv, Paired
    <3> QED BY <1>0, <3>1, TurnFacts DEF Progress
  <2> QED BY <1>0, <2>1, <2>7, <2>8, <2>9 DEF IInv
<1>2. CASE v.data[i].key # arg
  <2>1. UNCHANGED <<destroyed, v>>
    BY <1>2 DEF EraseTurn
  <2>2. TypeOK'
    BY <1>0, <2>1, TurnFacts DEF IInv, TypeOK
  <2>3. Destruction'
    BY <1>0, <2>1 DEF IInv, Destruction, Calls, Unfinished
  <2>4. Progress'
    <3>1. ASSUME NEW k \in Slots(v), Even(k), k < i + 2 PROVE v.data[k].key # arg
      <4>1. k \in Nat /\ (k < i \/ k = i \/ k = i + 1)
        BY <1>0, <3>1, TurnFacts DEF Slots
      <4> QED BY <1>0, <1>2, <3>1, <4>1, TurnFacts DEF IInv, Progress
    <3> QED BY <1>0, <2>1, <3>1, TurnFacts DEF Progress
  <2> QED BY <1>0, <2>1, <2>2, <2>3, <2>4 DEF IInv
<1> QED BY <1>1, <1>2

KeysBelow(w, m) == {w.data[k].key : k \in {j \in Slots(w) : Even(j) /\ j < m}}

\* A turn of the loops that go by two deals with one more key.
LEMMA OneMoreKey ==
  ASSUME IInv, i < v.size
  PROVE  KeysBelow(v, i + 2) = KeysBelow(v, i) \cup {v.data[i].key}
<1>1. \A k : k \in {j \in Slots(v) : Even(j) /\ j < i + 2}
             <=> k \in {j \in Slots(v) : Even(j) /\ j < i} \/ k = i
  <2>1. \A k \in Slots(v) : k < i + 2 <=> k < i \/ k = i \/ k = i + 1
    BY TurnFacts DEF Slots
  <2> QED BY <2>1, TurnFacts
<1> QED BY <1>1 DEF KeysBelow

LEMMA ListTurnPreserves ==
  ASSUME IInv, ListTurn
  PROVE  IInv'
<1>0. /\ pc = "listing" /\ pc' = pc /\ i < v.size /\ i' = i + 2
      /\ seen' = Append(seen, v.data[i].key)
      /\ UNCHANGED <<v, arg, found, destroyed, inserts, owns_keys>>
  BY DEF ListTurn, Loop, IteratorValue
<1>1. seen \in Seq(Key) /\ v.data[i].key \in Key
  BY <1>0, TurnFacts DEF IInv, TypeOK
<1>2. /\ seen' \in Seq(Key)
      /\ {seen'[j] : j \in 1 .. Len(seen')} = {seen[j] : j \in 1 .. Len(seen)} \cup {v.data[i].key}
  BY <1>0, <1>1
<1>3. TypeOK'
  BY <1>0, <1>2, TurnFacts DEF IInv, TypeOK
<1>4. Destruction'
  BY <1>0 DEF IInv, Destruction, Calls, Unfinished
<1>5. Progress'
  <2>1. {seen[j] : j \in 1 .. Len(seen)} = KeysBelow(v, i)
    BY <1>0 DEF IInv, Progress, KeysBelow
  <2>2. {seen'[j] : j \in 1 .. Len(seen')} = KeysBelow(v', i')
    BY <1>0, <1>2, <2>1, OneMoreKey
  <2> QED BY <1>0, <2>2, TurnFacts DEF Progress, KeysBelow
<1> QED BY <1>0, <1>3, <1>4, <1>5 DEF IInv

LEMMA ReleaseTurnPreserves ==
  ASSUME IInv, ReleaseTurn
  PROVE  IInv'
<1>0. /\ pc = "closing" /\ pc' = pc /\ i < v.size /\ i' = i + 2
      /\ destroyed' = destroyed \o PairDestroyed
      /\ UNCHANGED <<v, arg, found, seen, inserts, owns_keys>>
  BY DEF ReleaseTurn, Loop
<1> DEFINE n == Len(destroyed)
<1> DEFINE first == IF owns_keys THEN v.data[i] ELSE v.data[i + 1]
<1>1. /\ destroyed \in Seq(Cells) /\ n \in Nat
      /\ v.data[i] \in Cells /\ v.data[i + 1] \in Cells
  BY <1>0, TurnFacts DEF IInv, TypeOK, Cells
<1>2. /\ destroyed' \in Seq(Cells)
      /\ Len(destroyed') = IF owns_keys THEN n + 2 ELSE n + 1
      /\ \A j \in Calls : destroyed'[j] = destroyed[j]
      /\ destroyed'[n + 1] = first
      /\ owns_keys => destroyed'[n + 2] = v.data[i + 1]
  <2>1. CASE owns_keys
    <3>1. destroyed' = destroyed \o <<v.data[i], v.data[i + 1]>>
      BY <1>0, <2>1 DEF PairDestroyed
    <3> QED BY <1>1, <2>1, <3>1 DEF Calls
  <2>2. CASE ~owns_keys
    <3>1. destroyed' = destroyed \o <<v.data[i + 1]>>
      BY <1>0, <2>2 DEF PairDestroyed
    <3> QED BY <1>1, <2>2, <3>1 DEF Calls
  <2> QED BY <2>1, <2>2
<1>3. \A j : j \in Calls' <=> j \in Calls \/ j = n + 1 \/ (owns_keys /\ j = n + 2)
  BY <1>1, <1>2 DEF Calls
<1>4. \A j \in Calls : destroyed[j] # v.data[i] /\ destroyed[j] # v.data[i + 1]
  <2>1. ~(i < i) /\ ~(i + 1 < i)
    BY <1>0, TurnFacts
  <2> QED BY <1>0, <2>1, TurnFacts DEF IInv, Destruction, Unfinished
<1>5. v.data[i] # v.data[i + 1]
  BY <1>0, TurnFacts, CellKinds
<1> HIDE DEF first
<1>6. first \in {v.data[i], v.data[i + 1]} /\ (owns_keys => first = v.data[i])
      /\ (~owns_keys => first = v.data[i + 1])
  BY DEF first
<1> HIDE DEF n
<1>7. \A j \in Calls : j # n + 1 /\ j # n + 2
  BY <1>1 DEF Calls, n
<1>8. TypeOK'
  BY <1>0, <1>2, TurnFacts DEF IInv, TypeOK, Cells
<1>9. Destruction'
  <2>1. \A j \in Calls' : destroyed'[j].n <= inserts'
    BY ZenonT(40), <1>0, <1>2, <1>3, <1>6, TurnFacts DEF IInv, Destruction
  <2>2. \A j, k \in Calls' : destroyed'[j] = destroyed'[k] => j = k
    BY <1>2, <1>3, <1>4, <1>5, <1>6 DEF IInv, Destruction
  <2>3. ASSUME NEW k \in Slots(v)
        PROVE  (k < i + 2 /\ Owned(k)) <=> \E j \in Calls' : destroyed'[j] = v.data[k]
    <3>1. \A l \in {i, i + 1} : v.data[k] = v.data[l] => k = l
      BY <1>0, TurnFacts, CellsDistinct DEF IInv
    <3>2. (\E j \in Calls' : destroyed'[j] = v.data[k])
          <=> \/ \E j \in Calls : destroyed[j] = v.data[k]
              \/ k = i + 1
              \/ k = i /\ owns_keys
      BY <1>2, <1>3, <1>6, <3>1
    <3>3. (\E j \in Calls : destroyed[j] = v.data[k]) <=> k < i /\ Owned(k)
      BY <1>0 DEF IInv, Destruction, Unfinished
    <3>4. k < i + 2 <=> k < i \/ k = i \/ k = i + 1
      BY <1>0, TurnFacts DEF Slots
    <3>5. Owned(i + 1) /\ (Owned(i) <=> owns_keys)
      BY <1>0, TurnFacts DEF Owned
    <3> QED BY <3>2, <3>3, <3>4, <3>5
  <2> QED BY <1>0, <2>1, <2>2, <2>3 DEF Destruction, Unfinished, Owned
<1>10. Progress'
  BY <1>0, TurnFacts DEF Progress
<1> QED BY <1>0, <1>8, <1>9, <1>10 DEF IInv

LEMMA StepPreserves == IInv /\ [Next]_vars => IInv'
<1> SUFFICES ASSUME IInv, [Next]_vars PROVE IInv'
  OBVIOUS
<1>1. CASE UNCHANGED vars
  <2>0. UNCHANGED <<v, owns_keys, pc, i, arg, found, seen, destroyed, inserts>>
    BY <1>1 DEF vars
  <2>1. TypeOK' /\ Paired(v') /\ Numbered(v', inserts')
    BY <2>0 DEF IInv, TypeOK
  <2>2. Destruction'
    BY <2>0 DEF IInv, Destruction, Calls, Unfinished, Owned
  <2>3. Progress'
    BY <2>0 DEF IInv, Progress
  <2> QED BY <2>1, <2>2, <2>3 DEF IInv
<1>2. CASE Next
  <2>1. CASE \E x \in Key : MapInsert(x)
    BY <2>1, InsertPreserves
  <2>2. CASE \E x \in Key : MapFind(x)
    BY <2>2, FindPreserves
  <2>3. CASE (\E x \in Key : MapErase(x)) \/ MapBegin \/ MapRelease
    BY <2>3, BeginPreserves
  <2>4. CASE EraseTurn \/ ListTurn \/ ReleaseTurn
    BY <2>4, EraseTurnPreserves, ListTurnPreserves, ReleaseTurnPreserves
  <2>5. CASE EraseReturn \/ ListReturn \/ ReleaseReturn
    BY <2>5, ReturnPreserves
  <2> QED BY <1>2, <2>1, <2>2, <2>3, <2>4, <2>5 DEF Next
<1> QED BY <1>1, <1>2

\* The inductive invariant of RST_Map: pairs are aligned, objects carry the
\* numbers of their insertions, destructors have run for what is gone, and the
\* loops of erase, iteration and release are where their index says.
THEOREM Invariance == Spec => []IInv
<1> QED BY InitEstablishes, StepPreserves, PTL DEF Spec

\* Whatever was inserted and erased, keys are in even slots with their values
\* behind them and no key is there twice, so both calls of RST_vector_erase in
\* RST_map_erase pass their assertion.
THEOREM PairsStayAligned == Spec => []PairsAligned
<1>1. IInv => PairsAligned
  BY DEF IInv, Paired, PairsAligned
<1> QED BY <1>1, Invariance, PTL

\* No destructor of RST_map_erase or RST_map_release runs twice for an object,
\* none runs for one that is still in use, and a released map has destroyed all
\* it owned.
THEOREM NoDestructorTwice == Spec => []DestroyedOnce
<1>1. IInv => DestroyedOnce
  <2> SUFFICES ASSUME IInv PROVE DestroyedOnce
    OBVIOUS
  <2>1. \A k \in Slots(v) : pc = "closed" => k < i
    BY Basics DEF IInv, Destruction, Slots
  <2> QED BY <2>1 DEF IInv, Destruction, DestroyedOnce, Calls, Unfinished, Owned, Elements
<1> QED BY <1>1, Invariance, PTL

-----------------------------------------------------------------------------
(***************************************************************************)
(* RST_Map implements MapContract                                          *)
(***************************************************************************)
KeysOf(w) == {w.data[k].key : k \in {j \in Slots(w) : Even(j)}}
MatchesOf(w, x) == {k \in Slots(w) : Even(k) /\ w.data[k].key = x}
SlotOf(w, x) == CHOOSE k \in MatchesOf(w, x) : \A j \in MatchesOf(w, x) : k <= j
MapOf(w) == [x \in KeysOf(w) |-> w.data[SlotOf(w, x) + 1]]
DeadIn(d) == {d[j] : j \in 1 .. Len(d)} \cap ValueCells
ListedIn(s) == {s[j] : j \in 1 .. Len(s)}

\* The function that an array of pairs is.
LEMMA MapFacts ==
  ASSUME NEW w, Paired(w)
  PROVE  /\ DOMAIN MapOf(w) = KeysOf(w)
         /\ KeysOf(w) \subseteq Key
         /\ \A k \in Slots(w) : Even(k) => /\ w.data[k].key \in KeysOf(w)
                                           /\ MapOf(w)[w.data[k].key] = w.data[k + 1]
         /\ \A x \in KeysOf(w) : \E k \in Slots(w) : Even(k) /\ w.data[k].key = x
<1>1. ASSUME NEW k \in Slots(w), Even(k) PROVE SlotOf(w, w.data[k].key) = k
  <2>1. MatchesOf(w, w.data[k].key) = {k}
    BY <1>1 DEF MatchesOf, Paired
  <2>2. k \in Int
    BY DEF Slots
  <2> QED BY <2>1, <2>2 DEF SlotOf
<1>2. \A x \in KeysOf(w) : \E k \in Slots(w) : Even(k) /\ w.data[k].key = x
  BY DEF KeysOf
<1>3. KeysOf(w) \subseteq Key
  BY <1>2, CellKinds DEF Paired
<1>4. \A k \in Slots(w) : Even(k) => w.data[k].key \in KeysOf(w)
  BY DEF KeysOf
<1> QED BY <1>1, <1>2, <1>3, <1>4 DEF MapOf

\* Functions that are equal as sets of pairs.
LEMMA MapsEqual ==
  ASSUME NEW w, Paired(w), NEW D, NEW f, f = [x \in D |-> f[x]], KeysOf(w) = D,
         \A k \in Slots(w) : Even(k) => f[w.data[k].key] = w.data[k + 1]
  PROVE  MapOf(w) = f
<1>1. \A x \in D : MapOf(w)[x] = f[x]
  BY MapFacts
<1>2. MapOf(w) = [x \in D |-> MapOf(w)[x]]
  BY DEF MapOf
<1> QED BY <1>1, <1>2

LEMMA InsertIsInsert ==
  ASSUME IInv, NEW x \in Key, MapInsert(x)
  PROVE  \E y \in ValueCells :
           MapOf(v') = IF x \in DOMAIN MapOf(v) THEN MapOf(v)
                       ELSE [z \in DOMAIN MapOf(v) \cup {x} |-> IF z = x THEN y ELSE MapOf(v)[z]]
<1>0. inserts + 1 \in 1 .. MaxInsert /\ inserts \in Nat /\ inserts < MaxInsert /\ v.size \in Nat
      /\ Paired(v) /\ Numbered(v, inserts)
  BY Basics, MapAssumption DEF IInv, MapInsert
<1> DEFINE y == ValueCell(inserts + 1)
<1>1. y \in ValueCells
  BY <1>0, CellKinds
<1>2. x \in DOMAIN MapOf(v) <=> MapContains(x)
  BY <1>0, MapFacts, MatchFacts
<1>3. CASE MapContains(x)
  BY <1>1, <1>2, <1>3 DEF MapInsert, Inserted
<1>4. CASE ~MapContains(x)
  <2> DEFINE f == [z \in DOMAIN MapOf(v) \cup {x} |-> IF z = x THEN y ELSE MapOf(v)[z]]
  <2>1. /\ Paired(v')
        /\ v'.size = v.size + 2
        /\ \A j \in Slots(v) : v'.data[j] = v.data[j]
        /\ v'.data[v.size] = KeyCell(x, inserts + 1) /\ v'.data[v.size + 1] = y
    <3>1. v' = VectorPushBack(VectorPushBack(v, KeyCell(x, inserts + 1)), ValueCell(inserts + 1))
      BY <1>0, <1>4 DEF MapInsert, Inserted
    <3>2. \A k \in Slots(v) : Even(k) => v.data[k].key # x
      BY <1>0, <1>4, MatchFacts
    <3> QED BY <1>0, <3>1, <3>2, InsertKeepsPairs
  <2> HIDE DEF y
  <2>2. v'.data[v.size].key = x
    BY <2>1, CellFacts
  <2>3. /\ \A j : j \in Slots(v') <=> j \in Slots(v) \/ j = v.size \/ j = v.size + 1
        /\ Even(v.size) /\ ~Even(v.size + 1)
    BY <1>0, <2>1, EvenFacts DEF Slots, Paired
  <2>4. KeysOf(v') = KeysOf(v) \cup {x}
    BY <2>1, <2>2, <2>3 DEF KeysOf
  <2>5. \A k \in Slots(v) : Even(k) => k + 1 \in Slots(v)
    <3> SUFFICES ASSUME NEW k \in Slots(v), Even(k) PROVE k + 1 \in Slots(v)
      OBVIOUS
    <3>1. k \in Nat /\ k < v.size
      BY <1>0 DEF Slots
    <3>2. k + 1 < v.size
      BY <1>0, <2>3, <3>1, EvenFacts
    <3> QED BY <1>0, <3>1, <3>2 DEF Slots
  <2>6. DOMAIN MapOf(v) = KeysOf(v) /\ x \notin KeysOf(v)
    BY <1>0, <1>2, <1>4, MapFacts
  <2>7. \A k \in Slots(v') : Even(k) => f[v'.data[k].key] = v'.data[k + 1]
    <3> SUFFICES ASSUME NEW k \in Slots(v'), Even(k) PROVE f[v'.data[k].key] = v'.data[k + 1]
      OBVIOUS
    <3>1. CASE k \in Slots(v)
      <4>1. v.data[k].key \in KeysOf(v) /\ MapOf(v)[v.data[k].key] = v.data[k + 1]
        BY <1>0, <3>1, MapFacts
      <4> QED BY <2>1, <2>5, <2>6, <3>1, <4>1
    <3>2. CASE k = v.size
      BY <2>1, <2>2, <3>2
    <3> QED BY <2>3, <3>1, <3>2
  <2>8. MapOf(v') = f
    <3>1. f = [z \in KeysOf(v') |-> f[z]]
      BY <2>4, <2>6
    <3> HIDE DEF f
    <3> QED BY <2>1, <2>7, <3>1, MapsEqual
  <2> QED BY <1>1, <1>2, <1>4, <2>8
<1> QED BY <1>3, <1>4

LEMMA EraseTurnIsErase ==
  ASSUME IInv, EraseTurn, v.data[i].key = arg
  PROVE  /\ arg \in DOMAIN MapOf(v)
         /\ MapOf(v') = [x \in DOMAIN MapOf(v) \ {arg} |-> MapOf(v)[x]]
         /\ DeadIn(destroyed') = DeadIn(destroyed) \cup {MapOf(v)[arg]}
<1>0. Paired(v) /\ Numbered(v, inserts) /\ i < v.size /\ i \in Slots(v) /\ Even(i)
      /\ v.data[i + 1] \in ValueCells /\ i \in Nat /\ v.size \in Nat
  BY TurnFacts DEF IInv, EraseTurn, Loop
<1>1. DOMAIN MapOf(v) = KeysOf(v) /\ arg \in KeysOf(v) /\ MapOf(v)[arg] = v.data[i + 1]
  BY <1>0, MapFacts
<1>2. /\ VectorErase(v, i).data[i] = v.data[i + 1]
      /\ Paired(v') /\ v'.size = v.size - 2
      /\ \A j \in Slots(v') : /\ Before(i, j) \in Slots(v) \ {i, i + 1}
                              /\ Even(Before(i, j)) <=> Even(j)
                              /\ v'.data[j] = v.data[Before(i, j)]
  <2>1. v' = VectorErase(VectorErase(v, i), i)
    BY DEF EraseTurn, PairErased
  <2> QED BY <1>0, <2>1, EraseKeepsPairs
<1>3. \A k \in Slots(v) : Even(k) /\ k # i =>
        \E j \in Slots(v') : Even(j) /\ Before(i, j) = k
  <2> SUFFICES ASSUME NEW k \in Slots(v), Even(k), k # i
               PROVE  \E j \in Slots(v') : Even(j) /\ Before(i, j) = k
    OBVIOUS
  <2>1. k \in Nat /\ k < v.size /\ Even(v.size)
    BY <1>0 DEF Slots, Paired
  <2>2. CASE k < i
    <3>1. i + 2 <= v.size /\ k + 2 <= i
      BY <1>0, <2>1, <2>2, EvenFacts
    <3>2. k \in Slots(v') /\ Before(i, k) = k
      BY <1>0, <1>2, <2>1, <2>2, <3>1 DEF Slots, Before
    <3> QED BY <3>2
  <2>3. CASE i < k
    <3>1. i + 2 <= k
      BY <1>0, <2>1, <2>3, EvenFacts
    <3>2. k - 2 \in Slots(v') /\ k - 2 \in Nat /\ Before(i, k - 2) = k /\ (k - 2) + 2 = k
      BY <1>0, <1>2, <2>1, <3>1 DEF Slots, Before
    <3>3. Even(k - 2)
      BY <3>2, EvenFacts
    <3> QED BY <3>2, <3>3
  <2> QED BY <1>0, <2>1, <2>2, <2>3
<1>4. KeysOf(v') = KeysOf(v) \ {arg}
  <2>1. ASSUME NEW x \in KeysOf(v') PROVE x \in KeysOf(v) \ {arg}
    <3>1. PICK j \in Slots(v') : Even(j) /\ v'.data[j].key = x
      BY DEF KeysOf
    <3> QED BY ZenonT(40), <1>0, <1>2, <3>1 DEF KeysOf, Paired
  <2>2. ASSUME NEW x \in KeysOf(v) \ {arg} PROVE x \in KeysOf(v')
    <3>1. PICK k \in Slots(v) : Even(k) /\ v.data[k].key = x
      BY DEF KeysOf
    <3>2. PICK j \in Slots(v') : Even(j) /\ Before(i, j) = k
      BY <1>3, <3>1
    <3> QED BY <1>2, <3>1, <3>2 DEF KeysOf
  <2> QED BY <2>1, <2>2
<1> DEFINE f == [x \in DOMAIN MapOf(v) \ {arg} |-> MapOf(v)[x]]
<1>5. \A k \in Slots(v') : Even(k) => f[v'.data[k].key] = v'.data[k + 1]
  <2> SUFFICES ASSUME NEW k \in Slots(v'), Even(k) PROVE f[v'.data[k].key] = v'.data[k + 1]
    OBVIOUS
  <2>1. v'.data[k].key \in KeysOf(v')
    BY <1>2, MapFacts
  <2>2. v'.data[k] = v.data[Before(i, k)] /\ Even(Before(i, k)) /\ Before(i, k) \in Slots(v)
    BY <1>2
  <2>3. v'.data[k + 1] = ValueCell(v'.data[k].n)
    BY <1>2 DEF Paired
  <2>4. v.data[Before(i, k) + 1] = ValueCell(v.data[Before(i, k)].n)
    BY <1>0, <2>2 DEF Paired
  <2>5. MapOf(v)[v'.data[k].key] = v.data[Before(i, k) + 1]
    BY <1>0, <2>2, MapFacts
  <2> QED BY <1>1, <1>4, <2>1, <2>2, <2>3, <2>4, <2>5
<1>6. MapOf(v') = f
  <2>1. f = [x \in KeysOf(v') |-> f[x]]
    BY <1>1, <1>4
  <2> HIDE DEF f
  <2> QED BY <1>2, <1>5, <2>1, MapsEqual
<1>7. DeadIn(destroyed') = DeadIn(destroyed) \cup {v.data[i + 1]}
  <2>1. destroyed' = Append(destroyed, v.data[i + 1]) /\ destroyed \in Seq(Cells)
        /\ v.data[i + 1] \in Cells
    BY <1>0, <1>2 DEF EraseTurn, ValueToDestroy, IInv, TypeOK, Cells
  <2>2. {destroyed'[j] : j \in 1 .. Len(destroyed')}
        = {destroyed[j] : j \in 1 .. Len(destroyed)} \cup {v.data[i + 1]}
    BY <2>1
  <2> QED BY <1>0, <2>2 DEF DeadIn
<1> QED BY <1>1, <1>6, <1>7

LEMMA ReleaseTurnIsClose ==
  ASSUME IInv, ReleaseTurn
  PROVE  /\ v.data[i].key \in DOMAIN MapOf(v) /\ v.data[i].key \in Key
         /\ MapOf(v)[v.data[i].key] \notin DeadIn(destroyed)
         /\ DeadIn(destroyed') = DeadIn(destroyed) \cup {MapOf(v)[v.data[i].key]}
<1>0. /\ pc = "closing" /\ i < v.size /\ destroyed' = destroyed \o PairDestroyed
      /\ Paired(v) /\ destroyed \in Seq(Cells)
  BY DEF ReleaseTurn, Loop, IInv, TypeOK, Cells
<1>1. /\ v.data[i].key \in DOMAIN MapOf(v) /\ v.data[i].key \in Key
      /\ MapOf(v)[v.data[i].key] = v.data[i + 1]
  BY <1>0, TurnFacts, MapFacts
<1>2. v.data[i + 1] \notin DeadIn(destroyed)
  <2>1. ~(i + 1 < i)
    BY <1>0, TurnFacts
  <2> QED BY <1>0, <2>1, TurnFacts DEF IInv, Destruction, Unfinished, Calls, DeadIn
<1>3. /\ v.data[i] \in KeyCells /\ v.data[i] \notin ValueCells /\ v.data[i + 1] \in ValueCells
      /\ v.data[i] \in Cells /\ v.data[i + 1] \in Cells
  BY <1>0, TurnFacts, CellKinds DEF Cells
<1> DEFINE all(d) == {d[j] : j \in 1 .. Len(d)}
<1>4. CASE owns_keys
  <2>1. destroyed' = destroyed \o <<v.data[i], v.data[i + 1]>>
    BY <1>0, <1>4 DEF PairDestroyed
  <2>2. /\ Len(destroyed') = Len(destroyed) + 2 /\ Len(destroyed) \in Nat
        /\ \A j \in 1 .. Len(destroyed) : destroyed'[j] = destroyed[j]
        /\ destroyed'[Len(destroyed) + 1] = v.data[i]
        /\ destroyed'[Len(destroyed) + 2] = v.data[i + 1]
    BY <1>0, <1>3, <2>1
  <2>3. \A j : j \in 1 .. Len(destroyed') <=> \/ j \in 1 .. Len(destroyed)
                                             \/ j = Len(destroyed) + 1 \/ j = Len(destroyed) + 2
    BY <2>2
  <2>4. all(destroyed') = all(destroyed) \cup {v.data[i], v.data[i + 1]}
    BY <2>2, <2>3
  <2> QED BY <1>1, <1>2, <1>3, <2>4 DEF DeadIn
<1>5. CASE ~owns_keys
  <2>1. destroyed' = destroyed \o <<v.data[i + 1]>>
    BY <1>0, <1>5 DEF PairDestroyed
  <2>2. /\ Len(destroyed') = Len(destroyed) + 1 /\ Len(destroyed) \in Nat
        /\ \A j \in 1 .. Len(destroyed) : destroyed'[j] = destroyed[j]
        /\ destroyed'[Len(destroyed) + 1] = v.data[i + 1]
    BY <1>0, <1>3, <2>1
  <2>3. \A j : j \in 1 .. Len(destroyed') <=> j \in 1 .. Len(destroyed) \/ j = Len(destroyed) + 1
    BY <2>2
  <2>4. all(destroyed') = all(destroyed) \cup {v.data[i + 1]}
    BY <2>2, <2>3
  <2> QED BY <1>1, <1>2, <1>3, <2>4 DEF DeadIn
<1> QED BY <1>4, <1>5

\* The refinement mapping in terms of the operators above.
LEMMA Mapping ==
  /\ [x \in KeysHeld |-> v.data[FirstMatch(x) + 1]] = MapOf(v)
  /\ [x \in KeysHeld |-> v.data[FirstMatch(x) + 1]]' = MapOf(v')
  /\ {seen[j] : j \in 1 .. Len(seen)} = ListedIn(seen)
  /\ Dead = DeadIn(destroyed) /\ Dead' = DeadIn(destroyed')
BY DEF MapOf, KeysOf, KeysHeld, SlotOf, MatchesOf, FirstMatch, Matches, Dead, DeadIn, ListedIn

LEMMA StepImplements ==
  IInv /\ [Next]_vars => [Contract!Next]_(Contract!vars)
<1> SUFFICES ASSUME IInv, [Next]_vars PROVE [Contract!Next]_(Contract!vars)
  OBVIOUS
<1>0. Paired(v) /\ DOMAIN MapOf(v) = KeysOf(v) /\ KeysOf(v) \subseteq Key
  BY MapFacts DEF IInv
<1>1. CASE UNCHANGED vars
  <2>1. UNCHANGED Contract!vars
    BY <1>1, Mapping DEF vars, Contract!vars
  <2> QED BY <2>1
<1>2. ASSUME NEW x \in Key, MapInsert(x) PROVE Contract!Next
  <2>1. PICK y \in ValueCells :
          MapOf(v') = IF x \in DOMAIN MapOf(v) THEN MapOf(v)
                      ELSE [z \in DOMAIN MapOf(v) \cup {x} |-> IF z = x THEN y ELSE MapOf(v)[z]]
    BY <1>2, InsertIsInsert
  <2>2. Contract!Insert(x, y)
    BY <1>2, <2>1, Mapping DEF MapInsert, Contract!Insert
  <2> QED BY <2>2 DEF Contract!Next
<1>3. ASSUME NEW x \in Key, MapFind(x) PROVE Contract!Next
  <2>1. MapContains(x) <=> x \in KeysOf(v)
    BY <1>0, MatchFacts, MapFacts
  <2>2. MapContains(x) => MapOf(v)[x] = v.data[FirstMatch(x) + 1]
    BY <1>0, MatchFacts, MapFacts
  <2>3. Contract!Find(x)
    BY <1>0, <1>3, <2>1, <2>2, Mapping DEF MapFind, Contract!Find
  <2> QED BY <2>3 DEF Contract!Next
<1>4. ASSUME NEW x \in Key, MapErase(x) PROVE Contract!Next
  <2>1. Contract!EraseBegin(x)
    BY <1>4, Mapping DEF MapErase, Enter, Contract!EraseBegin, Contract!Goes
  <2> QED BY <2>1 DEF Contract!Next
<1>5. CASE EraseTurn
  <2>1. CASE v.data[i].key = arg
    <3>1. Contract!EraseEntry
      BY <1>5, <2>1, EraseTurnIsErase, Mapping
         DEF EraseTurn, Loop, Contract!EraseEntry, Contract!Goes
    <3> QED BY <3>1 DEF Contract!Next
  <2>2. CASE v.data[i].key # arg
    <3>1. UNCHANGED Contract!vars
      BY <1>5, <2>2, Mapping DEF EraseTurn, Loop, Contract!vars
    <3> QED BY <3>1
  <2> QED BY <2>1, <2>2
<1>6. CASE EraseReturn
  <2>1. arg \notin KeysOf(v)
    <3>1. \A k \in Slots(v) : k < i
      BY <1>6, Basics DEF IInv, EraseReturn, Leave, Slots
    <3> QED BY <1>6, <3>1 DEF IInv, EraseReturn, Leave, Progress, KeysOf
  <2>2. Contract!EraseEnd
    BY <1>0, <1>6, <2>1, Mapping DEF EraseReturn, Leave, Contract!EraseEnd, Contract!Goes
  <2> QED BY <2>2 DEF Contract!Next
<1>7. CASE MapBegin
  <2>1. {seen'[j] : j \in 1 .. Len(seen')} = {}
    BY <1>7 DEF MapBegin
  <2>2. Contract!ListBegin
    BY <1>7, <2>1, Mapping DEF MapBegin, Enter, Contract!ListBegin, Contract!Goes
  <2> QED BY <2>2 DEF Contract!Next
<1>8. CASE ListTurn
  <2>0. /\ pc = "listing" /\ pc' = pc /\ i < v.size
        /\ seen' = Append(seen, v.data[i].key) /\ seen \in Seq(Key)
        /\ UNCHANGED <<v, arg, found, destroyed>>
    BY <1>8 DEF ListTurn, Loop, IteratorValue, IInv, TypeOK
  <2>1. PICK x \in Key : x = v.data[i].key /\ x \in KeysOf(v)
    BY <1>0, <2>0, TurnFacts, MapFacts
  <2>2. {seen'[j] : j \in 1 .. Len(seen')} = {seen[j] : j \in 1 .. Len(seen)} \cup {x}
    BY <2>0, <2>1
  <2>3. x \notin {seen[j] : j \in 1 .. Len(seen)}
    <3>1. {seen[j] : j \in 1 .. Len(seen)} = KeysBelow(v, i)
      BY <2>0 DEF IInv, Progress, KeysBelow
    <3>2. \A k \in Slots(v) : Even(k) /\ k < i => v.data[k].key # x
      BY <1>0, <2>0, <2>1, TurnFacts DEF Paired
    <3> QED BY <3>1, <3>2 DEF KeysBelow
  <2>4. Contract!ListEntry(x)
    BY <1>0, <2>0, <2>1, <2>2, <2>3, Mapping DEF Contract!ListEntry, Contract!Goes
  <2> QED BY <2>4 DEF Contract!Next
<1>9. CASE ListReturn
  <2>1. {seen[j] : j \in 1 .. Len(seen)} = KeysOf(v)
    <3>1. \A k \in Slots(v) : k < i
      BY <1>9, Basics DEF IInv, ListReturn, Leave, Slots
    <3>2. {seen[j] : j \in 1 .. Len(seen)} = KeysBelow(v, i)
      BY <1>9 DEF IInv, ListReturn, Leave, Progress, KeysBelow
    <3> QED BY <3>1, <3>2 DEF KeysBelow, KeysOf
  <2>2. Contract!ListEnd
    BY <1>0, <1>9, <2>1, Mapping DEF ListReturn, Leave, Contract!ListEnd, Contract!Goes
  <2> QED BY <2>2 DEF Contract!Next
<1>10. CASE MapRelease
  <2>1. Contract!CloseBegin
    BY <1>10, Mapping DEF MapRelease, Enter, Contract!CloseBegin, Contract!Goes
  <2> QED BY <2>1 DEF Contract!Next
<1>11. CASE ReleaseTurn
  <2>1. Contract!CloseEntry(v.data[i].key)
    BY <1>11, ReleaseTurnIsClose, Mapping
       DEF ReleaseTurn, Loop, Contract!CloseEntry, Contract!Goes
  <2> QED BY <1>11, <2>1, ReleaseTurnIsClose DEF Contract!Next
<1>12. CASE ReleaseReturn
  <2>1. ASSUME NEW x \in KeysOf(v) PROVE MapOf(v)[x] \in DeadIn(destroyed)
    <3>1. PICK k \in Slots(v) : Even(k) /\ v.data[k].key = x
      BY <1>0, MapFacts
    <3>2. k \in Nat /\ v.size \in Nat /\ k < v.size /\ Even(v.size) /\ i \in Nat /\ i >= v.size
      BY <1>0, <1>12, Basics DEF IInv, ReleaseReturn, Leave, Slots, Paired
    <3>3. k + 1 < v.size /\ ~Even(k + 1)
      BY <3>1, <3>2, EvenFacts
    <3>4. k + 1 \in Slots(v) /\ k + 1 < i
      BY <3>2, <3>3 DEF Slots
    <3>5. \E j \in Calls : destroyed[j] = v.data[k + 1]
      BY <1>12, <3>3, <3>4 DEF IInv, Destruction, Unfinished, ReleaseReturn, Leave, Owned
    <3>6. v.data[k + 1] \in ValueCells /\ MapOf(v)[x] = v.data[k + 1]
      BY <1>0, <3>1, <3>3, <3>4, MapFacts DEF Paired
    <3> QED BY <3>5, <3>6 DEF Calls, DeadIn
  <2>2. Contract!CloseEnd
    BY <1>0, <1>12, <2>1, Mapping DEF ReleaseReturn, Leave, Contract!CloseEnd, Contract!Goes
  <2> QED BY <2>2 DEF Contract!Next
<1>13. ASSUME Next PROVE [Contract!Next]_(Contract!vars)
  BY <1>2, <1>3, <1>4, <1>5, <1>6, <1>7, <1>8, <1>9, <1>10, <1>11, <1>12, <1>13 DEF Next
<1> QED BY <1>1, <1>13

LEMMA InitImplements == Init => Contract!Init
<1> SUFFICES ASSUME Init PROVE Contract!Init
  OBVIOUS
<1>1. Slots(v) = {}
  BY DEF Init, VectorInit, Array, Slots
<1>2. KeysHeld = {} /\ Dead = {} /\ {seen[j] : j \in 1 .. Len(seen)} = {}
  BY <1>1 DEF Init, KeysHeld, Dead
<1>3. [x \in KeysHeld |-> v.data[FirstMatch(x) + 1]] = [x \in {} |-> Null]
  BY <1>2
<1> QED BY <1>2, <1>3 DEF Init, Contract!Init

\* The array of RST_Map, with loops that go by two and an erase that moves what
\* the index has yet to pass, implements the map of MapContract.
THEOREM MapRefinement == Spec => ImplementsMap
<1>1. Init => Contract!Init
  BY InitImplements
<1>2. IInv /\ [Next]_vars => [Contract!Next]_(Contract!vars)
  BY StepImplements
<1> QED BY <1>1, <1>2, Invariance, PTL DEF Spec, ImplementsMap, Contract!Spec
=============================================================================
