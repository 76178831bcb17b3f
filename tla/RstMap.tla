------------------------------- MODULE RstMap -------------------------------
(***************************************************************************)
(* RST_Map (rstutil.c): keys in the even slots of an RST_Vector, each with *)
(* its value behind it.  Loops over the array are stepped through, so that *)
(* what an iteration leaves behind and where the next one goes on is seen. *)
(*                                                                         *)
(* A map may have a key destructor; all maps of the library have one for   *)
(* values.  Maps from sockets (service->clients,      *)
(* writers_data) do not own keys and are erased from; maps of strings      *)
(* (headers, query_params) own them and are only filled, read and          *)
(* released.                                                               *)
(***************************************************************************)
EXTENDS RstVector, Sequences

CONSTANTS
  Key,         \* what comparators tell apart: sockets, or the texts of strings
  MaxInsert    \* bound: calls of RST_map_insert

ASSUME MapAssumption == MaxInsert \in Nat

\* What the slots point to; n tells the objects of different calls apart.
KeyCell(x, n) == [is |-> "key", key |-> x, n |-> n]
ValueCell(n) == [is |-> "value", n |-> n]
KeyCells == {KeyCell(x, n) : x \in Key, n \in 1 .. MaxInsert}
ValueCells == {ValueCell(n) : n \in 1 .. MaxInsert}

VARIABLES
  v,           \* the array
  owns_keys,   \* key_destructor is not null
  pc,          \* the operation going on
  i,           \* its index
  arg,         \* the key RST_map_erase was called with
  found,       \* what the last RST_map_find gave
  seen,        \* keys the iterator has produced, in order
  destroyed,   \* arguments of the destructor calls, in order
  inserts      \* calls of RST_map_insert

vars == <<v, owns_keys, pc, i, arg, found, seen, destroyed, inserts>>

TypeOK ==
  /\ IsVector(v, KeyCells \cup ValueCells)
  /\ owns_keys \in BOOLEAN
  /\ pc \in {"open", "erasing", "listing", "closing", "closed"}
  /\ i \in Nat
  /\ arg \in Key
  /\ found \in ValueCells \cup {Null}
  /\ seen \in Seq(Key)
  /\ destroyed \in Seq(KeyCells \cup ValueCells)
  /\ inserts \in 0 .. MaxInsert

\* RST_map_init
Init ==
  /\ v = VectorInit /\ owns_keys \in BOOLEAN
  /\ pc = "open" /\ i = 0
  /\ arg \in Key
  /\ found = Null
  /\ seen = <<>> /\ destroyed = <<>>
  /\ inserts = 0

\* The slots with a key equal to x, for the loops that go by two.
Even(k) == k % 2 = 0
Matches(x) == {k \in Slots(v) : Even(k) /\ v.data[k].key = x}
FirstMatch(x) == CHOOSE k \in Matches(x) : \A j \in Matches(x) : k <= j
MapContains(x) == Matches(x) # {}

Enter(name) == pc = "open" /\ pc' = name /\ i' = 0
Leave(name, to) == pc = name /\ i >= v.size /\ pc' = to /\ UNCHANGED i
Loop(name) == pc = name /\ i < v.size /\ i' = i + 2 /\ UNCHANGED pc

-----------------------------------------------------------------------------
InsertOverwrites(x, n) ==   \* mutant: a second value replaces the first
  IF MapContains(x) THEN [v EXCEPT !.data[FirstMatch(x) + 1] = ValueCell(n)]
  ELSE VectorPushBack(VectorPushBack(v, KeyCell(x, n)), ValueCell(n))
\* A key that is there already keeps its value; the new key and value are
\* dropped without a destructor call.
Inserted(x, n) ==
  IF MapContains(x) THEN v
  ELSE VectorPushBack(VectorPushBack(v, KeyCell(x, n)), ValueCell(n))

MapInsert(x) ==
  /\ pc = "open" /\ inserts < MaxInsert
  /\ inserts' = inserts + 1
  /\ v' = Inserted(x, inserts')
  /\ UNCHANGED <<pc, i, arg, found, seen, destroyed, owns_keys>>

MapFind(x) ==
  /\ pc = "open"
  /\ found' = IF MapContains(x) THEN v.data[FirstMatch(x) + 1] ELSE Null
  /\ UNCHANGED <<v, pc, i, arg, seen, destroyed, inserts, owns_keys>>

-----------------------------------------------------------------------------
(***************************************************************************)
(* RST_map_erase: one turn of the loop removes the key, and with it out of *)
(* the way its value has the same index.  A key destructor would be given  *)
(* the address of the slot and not the key; no map that has one is erased  *)
(* from.                                                                   *)
(***************************************************************************)
MapErase(x) ==
  /\ ~owns_keys
  /\ Enter("erasing")
  /\ arg' = x
  /\ UNCHANGED <<v, found, seen, destroyed, inserts, owns_keys>>

PairErasedNext(w) == VectorErase(VectorErase(w, i), i + 1)   \* mutant: the value is looked for at i + 1
PairErased(w) == VectorErase(VectorErase(w, i), i)

ValueToDestroyOld(w) == w.data[i + 1]   \* mutant: the value's index before the key went
ValueToDestroy(w) == w.data[i]

EraseTurn ==
  /\ Loop("erasing")
  /\ IF v.data[i].key = arg
       THEN /\ destroyed' = Append(destroyed, ValueToDestroy(VectorErase(v, i)))
            /\ v' = PairErased(v)
       ELSE UNCHANGED <<destroyed, v>>
  /\ UNCHANGED <<arg, found, seen, inserts, owns_keys>>

EraseReturn ==
  /\ Leave("erasing", "open")
  /\ UNCHANGED <<v, arg, found, seen, destroyed, inserts, owns_keys>>

-----------------------------------------------------------------------------
(***************************************************************************)
(* RST_MapIterator, as RST_response_to_string uses it.                     *)
(***************************************************************************)
MapBegin ==
  /\ Enter("listing")
  /\ seen' = <<>>
  /\ UNCHANGED <<v, arg, found, destroyed, inserts, owns_keys>>

IteratorValue == v.data[i].key

ListTurn ==
  /\ Loop("listing")
  /\ seen' = Append(seen, IteratorValue)
  /\ UNCHANGED <<v, arg, found, destroyed, inserts, owns_keys>>

ListReturn ==
  /\ Leave("listing", "open")
  /\ UNCHANGED <<v, arg, found, seen, destroyed, inserts, owns_keys>>

-----------------------------------------------------------------------------
(***************************************************************************)
(* RST_map_release                                                         *)
(***************************************************************************)
MapRelease ==
  /\ Enter("closing")
  /\ UNCHANGED <<v, arg, found, seen, destroyed, inserts, owns_keys>>

PairDestroyed == IF owns_keys THEN <<v.data[i], v.data[i + 1]>> ELSE <<v.data[i + 1]>>

ReleaseTurn ==
  /\ Loop("closing")
  /\ destroyed' = destroyed \o PairDestroyed
  /\ UNCHANGED <<v, arg, found, seen, inserts, owns_keys>>

ReleaseReturn ==
  /\ Leave("closing", "closed")
  /\ UNCHANGED <<v, arg, found, seen, destroyed, inserts, owns_keys>>

Next ==
  \/ \E x \in Key : MapInsert(x) \/ MapFind(x) \/ MapErase(x)
  \/ EraseTurn \/ EraseReturn
  \/ MapBegin \/ ListTurn \/ ListReturn
  \/ MapRelease \/ ReleaseTurn \/ ReleaseReturn

Spec == Init /\ [][Next]_vars

-----------------------------------------------------------------------------
(***************************************************************************)
(* Properties                                                              *)
(***************************************************************************)
\* Keys stay in even slots and values in odd ones, no key is there twice and
\* no value without its key, after any insertions and erasures; so the loops
\* that go by two read keys, a match has a value behind it, and the second
\* RST_vector_erase of RST_map_erase passes its assertion.  The array never
\* outgrows what was allocated.
PairsAligned ==
  /\ TypeOK
  /\ Even(v.size)
  /\ \A k \in Slots(v) : v.data[k] \in IF Even(k) THEN KeyCells ELSE ValueCells
  /\ \A k \in Slots(v) : Even(k) => v.data[k + 1] = ValueCell(v.data[k].n)
  /\ \A j, k \in Slots(v) : Even(j) /\ Even(k) /\ v.data[j].key = v.data[k].key => j = k

\* A destructor never runs twice for an object, and while the map is in use
\* none has run for an object it still points to.  RST_map_release destroys all
\* the map owns: every value that is in it and, if it has a key destructor,
\* every key.
DestroyedOnce ==
  /\ \A j, k \in 1 .. Len(destroyed) : destroyed[j] = destroyed[k] => j = k
  /\ pc # "closing" /\ pc # "closed" =>
       \A j \in 1 .. Len(destroyed) : destroyed[j] \notin Elements(v)
  /\ pc = "closed" =>
       \A k \in Slots(v) :
         ~Even(k) \/ owns_keys => \E j \in 1 .. Len(destroyed) : destroyed[j] = v.data[k]

KeysHeld == {v.data[k].key : k \in {j \in Slots(v) : Even(j)}}
Dead == {destroyed[j] : j \in 1 .. Len(destroyed)} \cap ValueCells

Contract ==
  INSTANCE MapContract WITH
    Value <- ValueCells, NotFound <- Null,
    map <- [x \in KeysHeld |-> v.data[FirstMatch(x) + 1]],
    phase <- pc,
    listed <- {seen[j] : j \in 1 .. Len(seen)},
    dead <- Dead

\* Seen from outside, the array is the map of MapContract: a look-up returns
\* the value inserted first, an erase takes out its key and nothing else
\* although its loop goes on with an index that skips a pair, and an iteration
\* over the headers of a response meets each of them once.
ImplementsMap == Contract!Spec
=============================================================================
