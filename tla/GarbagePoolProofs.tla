------------------------- MODULE GarbagePoolProofs -------------------------
(***************************************************************************)
(* Proofs about GarbagePool for every set of sizes and every table length. *)
(***************************************************************************)
EXTENDS GarbagePool, SequenceTheorems, TLAPS

\* The rows used so far lie one after the other, with guards between them.
RowsApart ==
  /\ allocations_count <= TableLen
  /\ free_buf_ptr >= Guard
  /\ \A i \in 0 .. allocations_count - 1 :
       /\ allocations[i] >= Guard
       /\ allocations[i] + allocations_sizes[i] + Guard <= free_buf_ptr
  /\ \A i, j \in 0 .. allocations_count - 1 :
       i < j => allocations[i] + allocations_sizes[i] + Guard <= allocations[j]

\* Every block held is the block of a row in use.
RowOf(a, i) ==
  /\ i \in 0 .. allocations_count - 1
  /\ allocations[i] = a
  /\ allocations_is_free[i] = 0
  /\ allocations_sizes[i] = Len(held[a])
HeldRows == \A a \in DOMAIN held : \E i \in Row : RowOf(a, i)

\* The bytes the next block is cut off behind are guards.
LastGuard == \A k \in 0 .. Guard - 1 : buf[free_buf_ptr - 1 - k] = GFILL

\* The inductive invariant.
IInv == TypeOK /\ ~aborted /\ RowsApart /\ HeldRows /\ LastGuard /\ BlocksIntact

\* The search returns the only row with that address.
LEMMA FoundIsRow ==
  ASSUME TypeOK, RowsApart, NEW a, NEW i \in Row, RowOf(a, i)
  PROVE  Found(a) = i
<1>1. Rows(a) = {i}
  <2>1. i \in Rows(a)
    BY DEF RowOf, Rows
  <2>2. ASSUME NEW j \in Rows(a) PROVE j = i
    <3>1. j \in 0 .. allocations_count - 1 /\ allocations[j] = a
      BY <2>2 DEF Rows
    <3>2. i \in 0 .. allocations_count - 1 /\ allocations[i] = a
      BY DEF RowOf
    <3>3. allocations_count \in Nat /\ allocations_count <= TableLen
      BY DEF TypeOK, RowsApart
    <3>4. i \in Row /\ j \in Row /\ i \in 0 .. TableLen
      BY <3>1, <3>3, PoolAssumption DEF Row
    <3>5. allocations_sizes[i] \in Nat /\ allocations_sizes[j] \in Nat /\ a \in Nat
      BY <3>2, <3>4 DEF TypeOK
    <3>6. /\ i < j => a + allocations_sizes[i] + 4 <= a
          /\ j < i => a + allocations_sizes[j] + 4 <= a
      BY <3>1, <3>2 DEF RowsApart, Guard
    <3>7. QED BY <3>1, <3>2, <3>3, <3>5, <3>6
  <2>3. QED BY <2>1, <2>2
<1>2. i <= i
  BY PoolAssumption DEF Row
<1>3. QED BY <1>1, <1>2 DEF Found

-----------------------------------------------------------------------------
\* A new block behind all others, in a new row, with the program holding it in
\* place of the blocks old.
LEMMA NewBlock ==
  ASSUME IInv, NEW size \in Nat, NEW text \in Seq(Nat), Len(text) = size,
         NEW old \in SUBSET DOMAIN held,
         Fits(size), EnterRow(size), FillBlock(text, free_buf_ptr + size), Holds(old, text),
         allocations_is_free' \in [Row -> {0, 1}],
         allocations_is_free'[allocations_count] = 0,
         \A i \in 0 .. allocations_count - 1 :
           allocations_is_free'[i] = allocations_is_free[i] \/ allocations[i] \in old,
         UNCHANGED aborted
  PROVE  IInv'
<1> DEFINE p == free_buf_ptr
           c == allocations_count
<1>0. /\ p \in Nat /\ c \in Nat /\ TableLen \in Nat /\ BufLen \in Nat
      /\ p + size + 4 <= BufLen /\ c < TableLen /\ p >= 4
      /\ c' = c + 1 /\ p' = p + size + 4
      /\ allocations' = [allocations EXCEPT ![c] = p]
      /\ allocations_sizes' = [allocations_sizes EXCEPT ![c] = size]
  BY PoolAssumption DEF IInv, TypeOK, RowsApart, Fits, EnterRow, GuardLen, Guard
<1>1. \A k \in Cell : /\ k < p => buf'[k] = buf[k]
                      /\ k \in p .. p + size - 1 => buf'[k] = text[k - p + 1]
                      /\ k \in p + size .. p + size + 3 => buf'[k] = GFILL
  BY <1>0 DEF FillBlock, GuardLen, Guard, Cell
<1>2. \A i \in 0 .. c - 1 : /\ allocations'[i] = allocations[i]
                            /\ allocations_sizes'[i] = allocations_sizes[i]
                            /\ allocations[i] \in Nat /\ allocations_sizes[i] \in Nat
                            /\ i \in Row
  BY SMTT(30), <1>0 DEF IInv, TypeOK, Row
<1>3. allocations'[c] = p /\ allocations_sizes'[c] = size /\ c \in Row
  BY <1>0 DEF IInv, TypeOK, Row
<1>4. /\ DOMAIN held' = (DOMAIN held \ old) \cup {p}
      /\ held'[p] = text
      /\ \A a \in DOMAIN held \ old : a # p => held'[a] = held[a]
  BY DEF Holds
<1>5. TypeOK'
  <2>1. buf' \in [Cell -> Nat]
    <3>1. \A k \in p .. p + size - 1 : text[k - p + 1] \in Nat
      BY <1>0
    <3>2. QED BY <1>0, <3>1 DEF FillBlock, GuardLen, Guard, GFILL, IInv, TypeOK
  <2>2. allocations' \in [0 .. TableLen -> Nat] /\ allocations_sizes' \in [Row -> Nat]
    BY <1>0 DEF IInv, TypeOK, Row
  <2>3. DOMAIN held' \subseteq Cell
    BY <1>0, <1>4 DEF IInv, TypeOK, Cell
  <2>4. \A a \in DOMAIN held' : held'[a] \in Seq(Nat)
    BY <1>4 DEF IInv, TypeOK
  <2>5. allocations_count' \in Nat /\ free_buf_ptr' \in 0 .. BufLen /\ aborted' \in BOOLEAN
    BY <1>0 DEF IInv, TypeOK
  <2>6. QED BY <2>1, <2>2, <2>3, <2>4, <2>5 DEF TypeOK
<1>6. RowsApart'
  <2>1. \A i \in 0 .. c - 1 : allocations[i] >= 4 /\ allocations[i] + allocations_sizes[i] + 4 <= p
    BY DEF IInv, RowsApart, Guard
  <2>2. \A i \in 0 .. c : /\ allocations'[i] >= 4
                          /\ allocations'[i] + allocations_sizes'[i] + 4 <= p'
    BY SMTT(30), <1>0, <1>2, <1>3, <2>1
  <2>3. \A i, j \in 0 .. c : i < j => allocations'[i] + allocations_sizes'[i] + 4 <= allocations'[j]
    <3> SUFFICES ASSUME NEW i \in 0 .. c, NEW j \in 0 .. c, i < j
                 PROVE  allocations'[i] + allocations_sizes'[i] + 4 <= allocations'[j]
      OBVIOUS
    <3>1. i \in 0 .. c - 1
      BY <1>0
    <3>2. CASE j = c
      BY <1>2, <1>3, <2>1, <3>1, <3>2
    <3>3. CASE j # c
      <4>1. j \in 0 .. c - 1
        BY <1>0, <3>3
      <4>2. allocations[i] + allocations_sizes[i] + 4 <= allocations[j]
        BY <3>1, <4>1 DEF IInv, RowsApart, Guard
      <4>3. QED BY <1>2, <3>1, <4>1, <4>2
    <3>4. QED BY <3>2, <3>3
  <2>4. c' <= TableLen /\ p' >= 4 /\ c' - 1 = c
    BY <1>0
  <2>5. QED BY <2>2, <2>3, <2>4 DEF RowsApart, Guard
<1>7. HeldRows'
  <2> SUFFICES ASSUME NEW a \in DOMAIN held' PROVE \E i \in Row : RowOf(a, i)'
    BY DEF HeldRows
  <2>1. CASE a = p
    <3>1. /\ c \in 0 .. allocations_count' - 1 /\ allocations'[c] = a
          /\ allocations_is_free'[c] = 0 /\ allocations_sizes'[c] = Len(held'[a])
      BY <1>0, <1>3, <1>4, <2>1
    <3>2. QED BY <1>3, <3>1 DEF RowOf
  <2>2. CASE a # p
    <3>1. a \in DOMAIN held \ old /\ held'[a] = held[a]
      BY <1>4, <2>2
    <3>2. PICK i \in Row : RowOf(a, i)
      BY <3>1 DEF IInv, HeldRows
    <3>3. i \in 0 .. c - 1 /\ i \in 0 .. c' - 1
      BY <1>0, <3>2 DEF RowOf
    <3>4. allocations_is_free'[i] = 0
      BY <3>1, <3>2, <3>3 DEF RowOf
    <3>5. RowOf(a, i)'
      BY <1>2, <3>1, <3>2, <3>3, <3>4 DEF RowOf
    <3>6. QED BY <3>5
  <2>3. QED BY <2>1, <2>2
<1>8. LastGuard'
  <2> SUFFICES ASSUME NEW k \in 0 .. 3 PROVE buf'[p' - 1 - k] = GFILL
    BY DEF LastGuard, Guard
  <2>1. p' - 1 - k \in p + size .. p + size + 3 /\ p' - 1 - k \in Cell
    BY <1>0 DEF Cell
  <2>2. QED BY <1>1, <2>1
<1>9. BlocksIntact'
  <2> SUFFICES ASSUME NEW a \in DOMAIN held'
               PROVE  /\ \A k \in 1 .. Len(held'[a]) : buf'[a + k - 1] = held'[a][k]
                      /\ \A k \in 0 .. 3 : /\ buf'[a + Len(held'[a]) + k] = GFILL
                                           /\ buf'[a - 1 - k] = GFILL
    BY DEF BlocksIntact, Guard
  <2>1. CASE a = p
    <3>1. held'[a] = text /\ Len(held'[a]) = size
      BY <1>4, <2>1
    <3>2. ASSUME NEW k \in 1 .. size PROVE buf'[a + k - 1] = text[k]
      <4>1. p + k - 1 \in p .. p + size - 1 /\ p + k - 1 \in Cell /\ (p + k - 1) - p + 1 = k
        BY <1>0 DEF Cell
      <4>2. QED BY <1>1, <2>1, <4>1
    <3>3. ASSUME NEW k \in 0 .. 3
          PROVE  buf'[p + size + k] = GFILL /\ buf'[p - 1 - k] = GFILL
      <4>1. p + size + k \in p + size .. p + size + 3 /\ p + size + k \in Cell
        BY <1>0 DEF Cell
      <4>2. p - 1 - k \in Cell /\ p - 1 - k < p
        BY <1>0 DEF Cell
      <4>3. buf[p - 1 - k] = GFILL
        BY DEF IInv, LastGuard, Guard
      <4>4. QED BY <1>1, <4>1, <4>2, <4>3
    <3>4. QED BY <2>1, <3>1, <3>2, <3>3
  <2>2. CASE a # p
    <3>1. a \in DOMAIN held /\ a \notin old /\ held'[a] = held[a]
      BY <1>4, <2>2
    <3>2. PICK i \in Row : RowOf(a, i)
      BY <3>1 DEF IInv, HeldRows
    <3>3. /\ Len(held[a]) \in Nat /\ a \in Nat /\ a >= 4
          /\ a + Len(held[a]) + 4 <= p
      BY <1>2, <3>2 DEF IInv, RowsApart, RowOf, Guard
    <3> DEFINE n == Len(held[a])
    <3>4. ASSUME NEW k \in 1 .. n PROVE buf'[a + k - 1] = held[a][k]
      <4>1. a + k - 1 \in Cell /\ a + k - 1 < p
        <5>1. p \in Nat /\ BufLen \in Nat /\ p <= BufLen
          BY <1>0
        <5>2. n \in Nat /\ a \in Nat /\ a >= 4 /\ a + n + 4 <= p
          BY <3>3
        <5> HIDE DEF n, p
        <5>3. a + k - 1 \in Nat /\ a + k - 1 < p /\ a + k - 1 < BufLen
          BY <5>1, <5>2
        <5> QED BY <5>1, <5>3 DEF Cell
      <4>2. buf[a + k - 1] = held[a][k]
        BY <3>1 DEF IInv, BlocksIntact
      <4>3. QED BY <1>1, <4>1, <4>2
    <3>5. ASSUME NEW k \in 0 .. 3 PROVE buf'[a + n + k] = GFILL /\ buf'[a - 1 - k] = GFILL
      <4>1. /\ a + n + k \in Cell /\ a + n + k < p
            /\ a - 1 - k \in Cell /\ a - 1 - k < p
        <5>1. p \in Nat /\ BufLen \in Nat /\ p <= BufLen
          BY <1>0
        <5>2. n \in Nat /\ a \in Nat /\ a >= 4 /\ a + n + 4 <= p
          BY <3>3
        <5> HIDE DEF n, p
        <5>3. a + n + k \in Cell /\ a + n + k < p
          BY <5>1, <5>2 DEF Cell
        <5>4. a - 1 - k \in Cell /\ a - 1 - k < p
          BY <5>1, <5>2 DEF Cell
        <5>5. QED BY <5>3, <5>4
      <4>2. buf[a + n + k] = GFILL /\ buf[a - 1 - k] = GFILL
        <5>1. k \in 0 .. Guard - 1
          BY DEF Guard
        <5>2. QED BY <3>1, <5>1 DEF IInv, BlocksIntact
      <4>3. QED BY <1>1, <4>1, <4>2
    <3>6. QED BY <3>1, <3>4, <3>5
  <2>3. QED BY <2>1, <2>2
<1>10. QED BY <1>5, <1>6, <1>7, <1>8, <1>9 DEF IInv

-----------------------------------------------------------------------------
\* RST_alloc.
LEMMA AllocKeepsIInv ==
  ASSUME IInv, NEW size \in Size, NEW b \in Byte, Alloc(size, b)
  PROVE  IInv'
<1> DEFINE text == [k \in 1 .. size |-> b]
<1>1. size \in Nat /\ b \in Nat
  BY PoolAssumption
<1>2. text \in Seq(Nat) /\ Len(text) = size
  BY <1>1
<1>3. /\ Fits(size) /\ EnterRow(size) /\ FillBlock(text, free_buf_ptr + size)
      /\ Holds({}, text) /\ UNCHANGED aborted
      /\ allocations_is_free' = [allocations_is_free EXCEPT ![allocations_count] = 0]
  BY DEF Alloc
<1>4. /\ allocations_count \in Row
      /\ \A i \in 0 .. allocations_count - 1 : i \in Row /\ i # allocations_count
  BY <1>3, PoolAssumption DEF EnterRow, IInv, TypeOK, Row
<1>5. /\ allocations_is_free' \in [Row -> {0, 1}]
      /\ allocations_is_free'[allocations_count] = 0
      /\ \A i \in 0 .. allocations_count - 1 : allocations_is_free'[i] = allocations_is_free[i]
  BY <1>3, <1>4 DEF IInv, TypeOK
<1> HIDE DEF text
<1>6. QED BY <1>1, <1>2, <1>3, <1>5, NewBlock

\* RST_realloc: the bytes copied are the bytes the program wrote.
LEMMA ReallocKeepsIInv ==
  ASSUME IInv, NEW a \in DOMAIN held, NEW size \in Size, NEW b \in Byte, Realloc(a, size, b)
  PROVE  IInv'
<1> DEFINE text == Grown(a, size, b)
<1>1. size \in Nat /\ b \in Nat
  BY PoolAssumption
<1>2. PICK i \in Row : RowOf(a, i)
  BY DEF IInv, HeldRows
<1>3. Found(a) = i
  BY <1>2, FoundIsRow DEF IInv
<1>4. held[a] \in Seq(Nat) /\ Len(held[a]) \in Nat
  BY DEF IInv, TypeOK
<1>5. text \in Seq(Nat) /\ Len(text) = size
  <2>1. \A k \in 1 .. size : (IF k <= Len(held[a]) THEN held[a][k] ELSE b) \in Nat
    BY <1>1, <1>4
  <2>2. QED BY <1>1, <2>1 DEF Grown
<1>6. Copied(a, size, b) = text
  <2>1. allocations_sizes[i] = Len(held[a])
    BY <1>2 DEF RowOf
  <2>2. \A k \in 1 .. Len(held[a]) : buf[a + k - 1] = held[a][k]
    BY DEF IInv, BlocksIntact
  <2>3. ASSUME NEW k \in 1 .. size
        PROVE  (IF k <= allocations_sizes[i] THEN buf[a + k - 1] ELSE b)
                 = (IF k <= Len(held[a]) THEN held[a][k] ELSE b)
    BY <1>1, <1>4, <2>1, <2>2
  <2>4. QED BY <1>3, <2>3 DEF Copied, Grown
<1>7. /\ Fits(size) /\ EnterRow(size) /\ FillBlock(text, free_buf_ptr + size)
      /\ Holds({a}, text) /\ UNCHANGED aborted
      /\ allocations_is_free' =
           [allocations_is_free EXCEPT ![allocations_count] = 0, ![i] = 1]
  BY <1>3, <1>6 DEF Realloc
<1>8. /\ allocations_count \in Row /\ i # allocations_count /\ allocations[i] = a
      /\ \A j \in 0 .. allocations_count - 1 : j \in Row /\ j # allocations_count
  BY SMTT(30), <1>2, <1>7, PoolAssumption DEF EnterRow, IInv, TypeOK, Row, RowOf
<1>9. /\ allocations_is_free' \in [Row -> {0, 1}]
      /\ allocations_is_free'[allocations_count] = 0
      /\ \A j \in 0 .. allocations_count - 1 :
           allocations_is_free'[j] = allocations_is_free[j] \/ allocations[j] \in {a}
  BY <1>7, <1>8 DEF IInv, TypeOK
<1>10. {a} \in SUBSET DOMAIN held
  OBVIOUS
<1> HIDE DEF text
<1>11. QED BY <1>1, <1>5, <1>7, <1>9, <1>10, NewBlock

\* RST_free: the rows of the other blocks stay in use.
LEMMA FreeKeepsIInv ==
  ASSUME IInv, NEW a \in DOMAIN held, Free(a)
  PROVE  IInv'
<1>1. PICK i \in Row : RowOf(a, i)
  BY DEF IInv, HeldRows
<1>2. Found(a) = i
  BY <1>1, FoundIsRow DEF IInv
<1>3. /\ allocations_is_free' = [allocations_is_free EXCEPT ![i] = 1]
      /\ held' = [x \in DOMAIN held \ {a} |-> held[x]]
      /\ UNCHANGED <<buf, tables, allocations_count, free_buf_ptr, aborted>>
  BY <1>2 DEF Free
<1>4. DOMAIN held' = DOMAIN held \ {a} /\ \A x \in DOMAIN held' : held'[x] = held[x]
  BY <1>3
<1>5. TypeOK'
  BY <1>3, <1>4 DEF IInv, TypeOK, tables
<1>6. RowsApart' /\ LastGuard' /\ ~aborted'
  BY <1>3 DEF IInv, RowsApart, LastGuard, tables
<1>7. BlocksIntact'
  BY <1>3, <1>4 DEF IInv, BlocksIntact
<1>8. HeldRows'
  <2> SUFFICES ASSUME NEW x \in DOMAIN held' PROVE \E j \in Row : RowOf(x, j)'
    BY DEF HeldRows
  <2>1. x \in DOMAIN held /\ x # a /\ held'[x] = held[x]
    BY <1>4
  <2>2. PICK j \in Row : RowOf(x, j)
    BY <2>1 DEF IInv, HeldRows
  <2>3. j # i /\ allocations_is_free'[j] = 0
    BY <1>1, <1>3, <2>1, <2>2 DEF RowOf, IInv, TypeOK
  <2>4. RowOf(x, j)'
    BY <1>3, <2>1, <2>2, <2>3 DEF RowOf, tables
  <2>5. QED BY <2>4
<1>9. QED BY <1>5, <1>6, <1>7, <1>8 DEF IInv

\* RST_debug_init: the guards in front of the first block, and no row.
LEMMA InitEstablishesIInv == Init => IInv
<1> SUFFICES ASSUME Init PROVE IInv
  OBVIOUS
<1>1. TypeOK
  <2>1. /\ buf \in [Cell -> Nat] /\ allocations \in [0 .. TableLen -> Nat]
        /\ allocations_sizes \in [Row -> Nat] /\ allocations_is_free \in [Row -> {0, 1}]
        /\ allocations_count \in Nat
    BY DEF Init, GFILL
  <2>2. free_buf_ptr \in 0 .. BufLen
    BY PoolAssumption DEF Init, Guard
  <2>3. DOMAIN held = {}
    BY DEF Init
  <2>4. aborted \in BOOLEAN
    BY Zenon DEF Init
  <2>5. QED BY <2>1, <2>2, <2>3, <2>4 DEF TypeOK
<1>2. RowsApart
  BY PoolAssumption DEF Init, RowsApart, Guard
<1>3. HeldRows /\ BlocksIntact /\ ~aborted
  BY DEF Init, HeldRows, BlocksIntact
<1>4. LastGuard
  BY PoolAssumption DEF Init, LastGuard, Guard, Cell
<1>5. QED BY <1>1, <1>2, <1>3, <1>4 DEF IInv

-----------------------------------------------------------------------------
\* The inductive invariant holds as long as the tables are long enough.
THEOREM PoolInvariant == Spec => []IInv
<1>1. IInv /\ [WithinTables]_vars => IInv'
  <2> SUFFICES ASSUME IInv, [WithinTables]_vars PROVE IInv'
    OBVIOUS
  <2>1. CASE WithinTables
    BY <2>1, AllocKeepsIInv, ReallocKeepsIInv, FreeKeepsIInv DEF WithinTables, UseBlock
  <2>2. CASE UNCHANGED vars
    BY <2>2 DEF vars, tables, IInv, TypeOK, RowsApart, HeldRows, RowOf, LastGuard, BlocksIntact
  <2>3. QED BY <2>1, <2>2
<1>2. QED BY <1>1, InitEstablishesIInv, PTL DEF Spec

\* The variables of the pool keep their types.
THEOREM PoolTypeCorrect == Spec => []TypeOK
<1>1. IInv => TypeOK
  BY DEF IInv
<1>2. QED BY <1>1, PoolInvariant, PTL

\* Blocks never overlap: what the program wrote stays, the copies of realloc
\* included, whatever sizes are asked for in whatever order.
THEOREM BlocksAlwaysIntact == Spec => []BlocksIntact
<1>1. IInv => BlocksIntact
  BY DEF IInv
<1>2. QED BY <1>1, PoolInvariant, PTL

\* Every pointer the program holds passes the assertions of realloc and free.
THEOREM PointersAlwaysFound == Spec => []PointersFound
<1>1. IInv => PointersFound
  <2> SUFFICES ASSUME IInv, NEW a \in DOMAIN held
               PROVE  /\ Found(a) # -1
                      /\ allocations_is_free[Found(a)] = 0
                      /\ allocations_sizes[Found(a)] = Len(held[a])
    BY DEF PointersFound
  <2>1. PICK i \in Row : RowOf(a, i)
    BY DEF IInv, HeldRows
  <2>2. Found(a) = i
    BY <2>1, FoundIsRow DEF IInv
  <2>3. QED BY <2>1, <2>2, PoolAssumption DEF RowOf, Row
<1>2. QED BY <1>1, PoolInvariant, PTL
=============================================================================
