---------------------------- MODULE GarbagePool ----------------------------
(***************************************************************************)
(* The allocator behind RST_alloc, RST_realloc and RST_free (rstutil.c):   *)
(* blocks are cut off one buffer, four guard bytes after each, and never   *)
(* reused; three tables record address, size and state.  An address is an  *)
(* offset in gpool.buf.  The program is the string builders and vectors    *)
(* that keep their data in the blocks and only ever grow them.             *)
(***************************************************************************)
EXTENDS Integers, Sequences

CONSTANTS
  Size,       \* sizes the program asks for
  Byte,       \* what it writes
  TableLen,   \* length of allocations_sizes and allocations_is_free (500000)
  BufLen      \* bound: length of buf (300 MB), which nothing checks

GFILL == 90   \* 'Z'
Guard == 4

ASSUME PoolAssumption ==
  /\ Size \subseteq Nat
  /\ Byte \subseteq Nat
  /\ TableLen \in Nat
  /\ BufLen \in Nat /\ BufLen >= Guard

Cell == 0 .. BufLen - 1
Row == 0 .. TableLen - 1

VARIABLES
  buf,
  allocations,           \* one row more than the other tables is used here
  allocations_sizes,
  allocations_is_free,
  allocations_count,
  free_buf_ptr,
  held,                  \* what the program wrote into each block it holds
  aborted                \* an assertion failed

tables == <<allocations, allocations_sizes>>
vars == <<buf, tables, allocations_is_free, allocations_count, free_buf_ptr, held, aborted>>

TypeOK ==
  /\ buf \in [Cell -> Nat]
  /\ allocations \in [0 .. TableLen -> Nat]
  /\ allocations_sizes \in [Row -> Nat]
  /\ allocations_is_free \in [Row -> {0, 1}]
  /\ allocations_count \in Nat
  /\ free_buf_ptr \in 0 .. BufLen
  /\ DOMAIN held \subseteq Cell
  /\ \A a \in DOMAIN held : held[a] \in Seq(Nat)
  /\ aborted \in BOOLEAN

\* RST_debug_init; the rest of gpool is static and zero.
Init ==
  /\ buf = [k \in Cell |-> IF k < Guard THEN GFILL ELSE 0]
  /\ allocations = [i \in 0 .. TableLen |-> 0]
  /\ allocations_sizes = [i \in Row |-> 0]
  /\ allocations_is_free = [i \in Row |-> 0]
  /\ allocations_count = 0
  /\ free_buf_ptr = Guard
  /\ held = [a \in {} |-> <<>>]
  /\ aborted = FALSE

\* RST_garbagepool_assert_ptr_allocated: the last row with this address, or -1.
Rows(a) == {i \in 0 .. allocations_count - 1 : allocations[i] = a}
Found(a) ==
  IF Rows(a) = {} THEN -1 ELSE CHOOSE i \in Rows(a) : \A j \in Rows(a) : j <= i

-----------------------------------------------------------------------------
(***************************************************************************)
(* RST_garbagepool_alloc                                                   *)
(***************************************************************************)
GuardLen == Guard

\* The program writes text into the new block; the pool puts guards from end on.
FillBlock(text, end) ==
  buf' = [k \in Cell |->
            IF k \in end .. end + GuardLen - 1 THEN GFILL
            ELSE IF k \in free_buf_ptr .. free_buf_ptr + Len(text) - 1
              THEN text[k - free_buf_ptr + 1]
            ELSE buf[k]]

EnterRow(size) ==
  /\ allocations_count < TableLen
  /\ allocations' = [allocations EXCEPT ![allocations_count] = free_buf_ptr]
  /\ allocations_sizes' = [allocations_sizes EXCEPT ![allocations_count] = size]
  /\ allocations_count' = allocations_count + 1
  /\ free_buf_ptr' = free_buf_ptr + size + GuardLen

Fits(size) == free_buf_ptr + size + Guard <= BufLen

\* The program holds the block at free_buf_ptr, with this text, in place of old.
Holds(old, text) ==
  held' = [a \in (DOMAIN held \ old) \cup {free_buf_ptr} |->
             IF a = free_buf_ptr THEN text ELSE held[a]]

Alloc(size, b) ==
  LET text == [k \in 1 .. size |-> b]
  IN  /\ ~aborted /\ Fits(size)
      /\ EnterRow(size)
      /\ allocations_is_free' = [allocations_is_free EXCEPT ![allocations_count] = 0]
      /\ FillBlock(text, free_buf_ptr + size)
      /\ Holds({}, text)
      /\ UNCHANGED aborted

\* With the tables full, allocations_sizes[count] is allocations_count itself
\* and allocations_is_free[count] is free_buf_ptr, the fields behind them.  The
\* compiled code reads the count again after the first store or kept it in a
\* register, and in that case reads free_buf_ptr again or kept it.
AllocOverrun(size, b) ==
  LET text == [k \in 1 .. size |-> b]
  IN  /\ ~aborted /\ Fits(size)
      /\ allocations_count = TableLen
      /\ \/ /\ size < TableLen
            /\ allocations' = [allocations EXCEPT ![size] = free_buf_ptr]
            /\ allocations_is_free' = [allocations_is_free EXCEPT ![size] = 0]
            /\ allocations_count' = size + 1
            /\ free_buf_ptr' = free_buf_ptr + size + GuardLen
            /\ FillBlock(text, free_buf_ptr + size)
         \/ \E base \in {0, free_buf_ptr} :
              /\ allocations' = [allocations EXCEPT ![TableLen] = free_buf_ptr]
              /\ allocations_count' = TableLen + 1
              /\ free_buf_ptr' = base + size + GuardLen
              /\ FillBlock(text, base + size)
              /\ UNCHANGED allocations_is_free
      /\ Holds({}, text)
      /\ UNCHANGED <<allocations_sizes, aborted>>

-----------------------------------------------------------------------------
(***************************************************************************)
(* RST_garbagepool_realloc: a new block with the bytes of the old one.  The *)
(* program asks for no less than it has and writes the bytes added.        *)
(***************************************************************************)
CopiedShort(a, size, b) ==   \* mutant: the last byte is not copied
  [k \in 1 .. size |-> IF k < allocations_sizes[Found(a)] THEN buf[a + k - 1] ELSE b]

Copied(a, size, b) ==
  [k \in 1 .. size |-> IF k <= allocations_sizes[Found(a)] THEN buf[a + k - 1] ELSE b]

Grown(a, size, b) ==
  [k \in 1 .. size |-> IF k <= Len(held[a]) THEN held[a][k] ELSE b]

ReallocFreesNew(a, size, b) ==   \* mutant: the new block is marked free
  /\ ~aborted /\ Fits(size) /\ size >= Len(held[a])
  /\ Found(a) # -1
  /\ EnterRow(size)
  /\ allocations_is_free' = [allocations_is_free EXCEPT ![allocations_count] = 1]
  /\ FillBlock(Copied(a, size, b), free_buf_ptr + size)
  /\ Holds({a}, Grown(a, size, b))
  /\ UNCHANGED aborted

Realloc(a, size, b) ==
  /\ ~aborted /\ Fits(size) /\ size >= Len(held[a])
  /\ Found(a) # -1
  /\ EnterRow(size)
  /\ allocations_is_free' =
       [allocations_is_free EXCEPT ![allocations_count] = 0, ![Found(a)] = 1]
  /\ FillBlock(Copied(a, size, b), free_buf_ptr + size)
  /\ Holds({a}, Grown(a, size, b))
  /\ UNCHANGED aborted

(***************************************************************************)
(* RST_garbagepool_free                                                    *)
(***************************************************************************)
Free(a) ==
  /\ ~aborted
  /\ Found(a) \in Row /\ allocations_is_free[Found(a)] = 0
  /\ allocations_is_free' = [allocations_is_free EXCEPT ![Found(a)] = 1]
  /\ held' = [x \in DOMAIN held \ {a} |-> held[x]]
  /\ UNCHANGED <<buf, tables, allocations_count, free_buf_ptr, aborted>>

\* assert(found != -1 && !gpool.allocations_is_free[found])
FreeAsserts(a) ==
  /\ ~aborted
  /\ Found(a) = -1 \/ (Found(a) \in Row /\ allocations_is_free[Found(a)] = 1)
  /\ aborted' = TRUE
  /\ UNCHANGED <<buf, tables, allocations_is_free, allocations_count, free_buf_ptr, held>>

-----------------------------------------------------------------------------
UseBlock(a) ==
  \/ \E size \in Size, b \in Byte : Realloc(a, size, b)
  \/ Free(a)

WithinTables ==
  \/ \E size \in Size, b \in Byte : Alloc(size, b)
  \/ \E a \in DOMAIN held : UseBlock(a)

Beyond ==
  \/ \E size \in Size, b \in Byte : AllocOverrun(size, b)
  \/ \E a \in DOMAIN held : FreeAsserts(a)

\* Spec: as long as the tables are long enough; FullSpec: without end.
Spec == Init /\ [][WithinTables]_vars
FullSpec == Init /\ [][WithinTables \/ Beyond]_vars

-----------------------------------------------------------------------------
(***************************************************************************)
(* Properties.                                                             *)
(***************************************************************************)

\* No block overlaps another or its guards: every block the program holds
\* keeps what was written into it, through other allocations, frees and the
\* copy in realloc, and the guard bytes around it stay.
BlocksIntact ==
  \A a \in DOMAIN held :
    /\ \A k \in 1 .. Len(held[a]) : buf[a + k - 1] = held[a][k]
    /\ \A k \in 0 .. Guard - 1 : buf[a + Len(held[a]) + k] = GFILL /\ buf[a - 1 - k] = GFILL

\* The search by address finds the row of the block, so the assertions of
\* realloc and free hold for every pointer the program holds; what realloc
\* copies is the size of that block.
PointersFound ==
  \A a \in DOMAIN held :
    /\ Found(a) # -1
    /\ allocations_is_free[Found(a)] = 0
    /\ allocations_sizes[Found(a)] = Len(held[a])

\* The assertion of RST_garbagepool_free holds for blocks the program holds.
FreeAssertion == ~aborted
=============================================================================
