---------------------------- MODULE MapContract ----------------------------
(***************************************************************************)
(* What RST_Map promises: a partial function from keys to values whose     *)
(* first entry for a key stays, a look-up that finds exactly what is       *)
(* there, an erase after which the key is gone, a listing that is over     *)
(* only when every entry was listed once, and a destructor that runs when  *)
(* an entry goes.  It says nothing of arrays or indices.                   *)
(***************************************************************************)
CONSTANTS Key, Value, NotFound

VARIABLES
  map,      \* a function on a subset of Key
  phase,    \* "open", "erasing", "listing", "closing", "closed"
  arg,      \* the key being erased
  found,    \* the result of the last look-up
  listed,   \* keys the listing has produced
  dead      \* values whose destructor has run

vars == <<map, phase, arg, found, listed, dead>>

Init ==
  /\ map = [k \in {} |-> NotFound]
  /\ phase = "open"
  /\ arg \in Key
  /\ found = NotFound
  /\ listed = {} /\ dead = {}

Insert(k, x) ==
  /\ phase = "open"
  /\ map' = IF k \in DOMAIN map THEN map
            ELSE [j \in DOMAIN map \cup {k} |-> IF j = k THEN x ELSE map[j]]
  /\ UNCHANGED <<phase, arg, found, listed, dead>>

Find(k) ==
  /\ phase = "open"
  /\ found' = IF k \in DOMAIN map THEN map[k] ELSE NotFound
  /\ UNCHANGED <<map, phase, arg, listed, dead>>

Goes(from, to) == phase = from /\ phase' = to

EraseBegin(k) ==
  /\ Goes("open", "erasing") /\ arg' = k
  /\ UNCHANGED <<map, found, listed, dead>>

EraseEntry ==
  /\ Goes("erasing", "erasing") /\ arg \in DOMAIN map
  /\ map' = [k \in DOMAIN map \ {arg} |-> map[k]]
  /\ dead' = dead \cup {map[arg]}
  /\ UNCHANGED <<arg, found, listed>>

EraseEnd ==
  /\ Goes("erasing", "open") /\ arg \notin DOMAIN map
  /\ UNCHANGED <<map, arg, found, listed, dead>>

ListBegin ==
  /\ Goes("open", "listing") /\ listed' = {}
  /\ UNCHANGED <<map, arg, found, dead>>

ListEntry(k) ==
  /\ Goes("listing", "listing") /\ k \in DOMAIN map \ listed
  /\ listed' = listed \cup {k}
  /\ UNCHANGED <<map, arg, found, dead>>

ListEnd ==
  /\ Goes("listing", "open") /\ listed = DOMAIN map
  /\ UNCHANGED <<map, arg, found, listed, dead>>

CloseBegin ==
  /\ Goes("open", "closing")
  /\ UNCHANGED <<map, arg, found, listed, dead>>

CloseEntry(k) ==
  /\ Goes("closing", "closing") /\ k \in DOMAIN map /\ map[k] \notin dead
  /\ dead' = dead \cup {map[k]}
  /\ UNCHANGED <<map, arg, found, listed>>

CloseEnd ==
  /\ Goes("closing", "closed") /\ \A k \in DOMAIN map : map[k] \in dead
  /\ UNCHANGED <<map, arg, found, listed, dead>>

Next ==
  \/ \E k \in Key :
       \/ \E x \in Value : Insert(k, x)
       \/ Find(k) \/ EraseBegin(k) \/ ListEntry(k) \/ CloseEntry(k)
  \/ EraseEntry \/ EraseEnd \/ ListBegin \/ ListEnd \/ CloseBegin \/ CloseEnd

Spec == Init /\ [][Next]_vars
=============================================================================
