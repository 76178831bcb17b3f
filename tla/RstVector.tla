----------------------------- MODULE RstVector -----------------------------
(***************************************************************************)
(* RST_Vector (rstutil.c), the array under RST_Set and RST_Map: data has   *)
(* capacity slots, the first size of them in use.  RST_alloc hands out     *)
(* zeroed memory, so slots never written hold Null.                        *)
(***************************************************************************)
EXTENDS Integers

CONSTANT Null

IsVector(v, Elem) ==
  /\ v.capacity \in Nat \ {0} /\ v.size \in 0 .. v.capacity
  /\ v.data \in [0 .. v.capacity - 1 -> Elem \cup {Null}]

Slots(v) == 0 .. v.size - 1
Elements(v) == {v.data[k] : k \in Slots(v)}
NoRepeats(v) == \A j, k \in Slots(v) : v.data[j] = v.data[k] => j = k

Array(data, size, capacity) == [data |-> data, size |-> size, capacity |-> capacity]

VectorInit == Array([k \in 0 .. 1 |-> Null], 0, 2)

\* RST_realloc keeps the contents.
Grown(v) ==
  Array([k \in 0 .. 2 * v.capacity - 1 |-> IF k < v.capacity THEN v.data[k] ELSE Null],
        v.size, 2 * v.capacity)

Put(v, x) == Array([v.data EXCEPT ![v.size] = x], v.size + 1, v.capacity)

VectorPushBack(v, x) == Put(IF v.size = v.capacity THEN Grown(v) ELSE v, x)

\* The elements from first on move down by one.
Shifted(v, first) ==
  [j \in 0 .. v.capacity - 1 |-> IF j \in first .. v.size - 2 THEN v.data[j + 1] ELSE v.data[j]]

VectorEraseLeavesGap(v, k) == Array(Shifted(v, k + 1), v.size - 1, v.capacity)   \* mutant: the loop starts at k + 1
\* Callers give the index of a match; for the second call of RST_map_erase the
\* assertion k < size is stated in PairsAligned.
VectorErase(v, k) == Array(Shifted(v, k), v.size - 1, v.capacity)

\* finished_clients has no destructor; the memory is kept.
VectorClear(v) == Array(v.data, 0, v.capacity)
=============================================================================
