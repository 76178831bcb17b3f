-------------------------- MODULE ThreadPoolProofs --------------------------
(***************************************************************************)
(* Proofs about ThreadPool for every number of threads and jobs.           *)
(***************************************************************************)
EXTENDS ThreadPool, FiniteSetTheorems, TLAPS

\* The threads whose program counter is in Q.
At(f, Q) == {u \in Thread : f[u] \in Q}

\* How moving one thread changes the number of threads at some place.
LEMMA MoveCounts ==
  ASSUME NEW f, NEW t \in Thread, NEW q, NEW Q, NEW g,
         f = [u \in Thread |-> f[u]], g = [f EXCEPT ![t] = q]
  PROVE  /\ Cardinality(At(f, Q)) \in Nat
         /\ f[t] \in Q /\ q \in Q => Cardinality(At(g, Q)) = Cardinality(At(f, Q))
         /\ f[t] \notin Q /\ q \notin Q => Cardinality(At(g, Q)) = Cardinality(At(f, Q))
         /\ f[t] \notin Q /\ q \in Q => Cardinality(At(g, Q)) = Cardinality(At(f, Q)) + 1
         /\ f[t] \in Q /\ q \notin Q => Cardinality(At(g, Q)) = Cardinality(At(f, Q)) - 1
<1>1. IsFiniteSet(At(f, Q))
  BY PoolAssumption, FS_Subset DEF At
<1>2. Cardinality(At(f, Q)) \in Nat
  BY <1>1, FS_CardinalityType
<1>3. ASSUME f[t] \in Q <=> q \in Q PROVE At(g, Q) = At(f, Q)
  BY <1>3 DEF At
<1>4. ASSUME f[t] \notin Q, q \in Q PROVE At(g, Q) = At(f, Q) \cup {t} /\ t \notin At(f, Q)
  BY <1>4 DEF At
<1>5. ASSUME f[t] \in Q, q \notin Q PROVE At(g, Q) = At(f, Q) \ {t} /\ t \in At(f, Q)
  BY <1>5 DEF At
<1>6. ASSUME f[t] \notin Q, q \in Q
      PROVE  Cardinality(At(g, Q)) = Cardinality(At(f, Q)) + 1
  BY <1>1, <1>4, <1>6, FS_AddElement
<1>7. ASSUME f[t] \in Q, q \notin Q
      PROVE  Cardinality(At(g, Q)) = Cardinality(At(f, Q)) - 1
  BY <1>1, <1>5, <1>7, FS_RemoveElement
<1>8. QED BY <1>2, <1>3, <1>6, <1>7

-----------------------------------------------------------------------------
\* The caller is inside thpool_destroy exactly when keepalive is cleared.
CallerState ==
  /\ keepalive <=> cpc \in {"idle", "add"}
  /\ cpc = "add" => added < MaxJobs

\* The inductive invariant.
IInv == TypeOK /\ CallerState /\ JobsInOrder /\ PermitsMatchJobs /\ ReadyCount

TPC == {"off", "loop", "wait", "blocked", "woken", "check", "run", "done"}
Permitted == {"woken", "check"}
Ready == {"wait", "blocked", "woken"}

\* A new pool: no job, no permit, and no thread has counted itself ready.
LEMMA InitEstablishesIInv == Init => IInv
<1> SUFFICES ASSUME Init PROVE IInv
  OBVIOUS
<1>1. TypeOK
  <2>1. prev \in [Job -> Job \cup {None}] /\ next \in [Job -> Job \cup {None}]
        /\ job \in [Thread -> Job \cup {None}] /\ head \in Job \cup {None}
        /\ tail \in Job \cup {None}
    BY DEF Init
  <2>2. tpc \in [Thread -> {"off", "loop", "wait", "blocked", "woken", "check", "run", "done"}]
    BY DEF Init
  <2>3. added \in 0 .. MaxJobs /\ taken \in 0 .. MaxJobs
    BY PoolAssumption DEF Init
  <2>4. keepalive \in BOOLEAN /\ sem_valid \in BOOLEAN /\ exited \in BOOLEAN
    BY Zenon DEF Init
  <2>5. readyThreadsN \in Int /\ jobsN \in Nat /\ sem \in Nat /\ posts \in Nat
        /\ cpc \in {"idle", "add", "post", "destroy_sem", "join", "freed"}
    BY DEF Init
  <2>6. QED BY <2>1, <2>2, <2>3, <2>4, <2>5 DEF TypeOK
<1>2. JobsInOrder /\ CallerState
  BY DEF Init, JobsInOrder, CallerState
<1>3. {t \in Thread : tpc[t] \in {"woken", "check"}} = {}
      /\ {t \in Thread : tpc[t] \in {"wait", "blocked", "woken"}} = {}
  BY DEF Init
<1>4. PermitsMatchJobs /\ ReadyCount
  BY <1>3, FS_EmptySet DEF Init, PermitsMatchJobs, ReadyCount
<1>5. QED BY <1>1, <1>2, <1>4 DEF IInv

\* Steps that leave the queue and its counters alone keep the list.
LEMMA QueueUnchanged ==
  ASSUME JobsInOrder, UNCHANGED <<queueVars, added, taken>>, cpc' # "freed" => cpc # "freed"
  PROVE  JobsInOrder'
BY DEF JobsInOrder, queueVars

\* jobqueue_add keeps the list in the order of the calls.
LEMMA AddKeepsOrder ==
  ASSUME TypeOK, JobsInOrder, cpc = "add", added < MaxJobs, JobqueueAdd(added + 1),
         added' = added + 1, taken' = taken
  PROVE  JobsInOrder'
<1> USE PoolAssumption DEF TypeOK, JobsInOrder, JobqueueAdd, Job
<1>1. jobsN' = added' - taken' /\ jobsN' > 0
  OBVIOUS
<1>2. head' = added' /\ tail' = taken' + 1 /\ prev'[added'] = None
  OBVIOUS
<1>3. ASSUME NEW j \in taken' + 1 .. added' - 1
      PROVE  prev'[j] = j + 1 /\ next'[j + 1] = j
  <2>1. CASE j = added
    BY <2>1
  <2>2. CASE j # added
    <3>1. j \in taken + 1 .. added - 1 /\ j \in Job /\ j + 1 \in Job
      BY <2>2
    <3>2. j # head /\ j # added + 1 /\ j + 1 # added + 1
      BY <2>2, <3>1
    <3>3. prev'[j] = prev[j] /\ next'[j + 1] = next[j + 1]
      BY <3>1, <3>2
    <3>4. QED BY <3>1, <3>3
  <2>3. QED BY <2>1, <2>2
<1>4. QED BY <1>1, <1>2, <1>3

\* jobqueue_removelast takes the oldest job off the list.
LEMMA RemoveKeepsOrder ==
  ASSUME TypeOK, JobsInOrder, cpc # "freed", JobqueueRemoveLast, taken' = taken + 1,
         added' = added
  PROVE  JobsInOrder' /\ taken' \in 0 .. MaxJobs
<1> USE PoolAssumption DEF TypeOK, JobsInOrder, Job
<1>1. CASE jobsN = 1
  BY <1>1 DEF JobqueueRemoveLast
<1>2. CASE jobsN > 1
  <2>1. /\ tail = taken + 1 /\ prev[tail] = taken + 2 /\ taken + 2 \in Job
        /\ tail' = taken' + 1 /\ head' = added /\ prev' = prev
        /\ next' = [next EXCEPT ![taken + 2] = None] /\ jobsN' = jobsN - 1
    BY <1>2 DEF JobqueueRemoveLast
  <2>2. \A j \in taken' + 1 .. added' - 1 : prev'[j] = j + 1 /\ next'[j + 1] = j
    BY <1>2, <2>1
  <2>3. QED BY <1>2, <2>1, <2>2
<1>3. QED BY <1>1, <1>2 DEF JobqueueRemoveLast

-----------------------------------------------------------------------------
\* One thread moves: what becomes of the two counts.
LEMMA ThreadMoves ==
  ASSUME IInv, NEW t \in Thread, NEW from, NEW to, Goes(t, from, to),
         to \in {"off", "loop", "wait", "blocked", "woken", "check", "run", "done"}
  PROVE  /\ tpc' \in [Thread -> {"off", "loop", "wait", "blocked", "woken", "check", "run", "done"}]
         /\ Cardinality(At(tpc', Ready)) = Cardinality(At(tpc, Ready))
              + (IF from \notin Ready /\ to \in Ready THEN 1 ELSE 0)
              - (IF from \in Ready /\ to \notin Ready THEN 1 ELSE 0)
         /\ Cardinality(At(tpc', Permitted)) = Cardinality(At(tpc, Permitted))
              + (IF from \notin Permitted /\ to \in Permitted THEN 1 ELSE 0)
              - (IF from \in Permitted /\ to \notin Permitted THEN 1 ELSE 0)
         /\ Cardinality(At(tpc, Ready)) \in Nat
         /\ Cardinality(At(tpc, Permitted)) \in Nat
         /\ to # "blocked" => Blocked' \subseteq Blocked
<1>1. tpc' = [tpc EXCEPT ![t] = to] /\ tpc[t] = from /\ tpc = [u \in Thread |-> tpc[u]]
  BY DEF Goes, IInv, TypeOK
<1>2. tpc' \in [Thread -> {"off", "loop", "wait", "blocked", "woken", "check", "run", "done"}]
  BY <1>1 DEF IInv, TypeOK
<1>3. to # "blocked" => Blocked' \subseteq Blocked
  BY <1>1, <1>2 DEF Blocked
<1>4. /\ Cardinality(At(tpc', Ready)) = Cardinality(At(tpc, Ready))
              + (IF from \notin Ready /\ to \in Ready THEN 1 ELSE 0)
              - (IF from \in Ready /\ to \notin Ready THEN 1 ELSE 0)
      /\ Cardinality(At(tpc, Ready)) \in Nat
  BY <1>1, MoveCounts
<1>5. /\ Cardinality(At(tpc', Permitted)) = Cardinality(At(tpc, Permitted))
              + (IF from \notin Permitted /\ to \in Permitted THEN 1 ELSE 0)
              - (IF from \in Permitted /\ to \notin Permitted THEN 1 ELSE 0)
      /\ Cardinality(At(tpc, Permitted)) \in Nat
  BY <1>1, MoveCounts
<1>6. QED BY <1>2, <1>3, <1>4, <1>5

\* The two counting invariants in terms of At.
LEMMA CountsAt ==
  /\ ReadyCount <=> readyThreadsN = Cardinality(At(tpc, Ready))
  /\ PermitsMatchJobs <=> /\ keepalive => sem + Cardinality(At(tpc, Permitted)) = jobsN
                          /\ sem > 0 => Blocked = {}
BY DEF ReadyCount, PermitsMatchJobs, At, Ready, Permitted

LEMMA CountsAtPrimed ==
  /\ ReadyCount' <=> readyThreadsN' = Cardinality(At(tpc', Ready))
  /\ PermitsMatchJobs' <=> /\ keepalive' => sem' + Cardinality(At(tpc', Permitted)) = jobsN'
                           /\ sem' > 0 => Blocked' = {}
BY DEF ReadyCount, PermitsMatchJobs, At, Ready, Permitted

-----------------------------------------------------------------------------
(***************************************************************************)
(* The steps of a worker thread.                                           *)
(***************************************************************************)

\* A step of one thread that touches neither queue nor semaphore and counts
\* itself in readyThreadsN as it should.
LEMMA ThreadStep ==
  ASSUME IInv, NEW t \in Thread, NEW from \in TPC, NEW to \in TPC,
         to # "blocked", Goes(t, from, to),
         keepalive => (from \in Permitted <=> to \in Permitted),
         readyThreadsN' = readyThreadsN
              + (IF from \notin Ready /\ to \in Ready THEN 1 ELSE 0)
              - (IF from \in Ready /\ to \notin Ready THEN 1 ELSE 0),
         UNCHANGED <<keepalive, queueVars, sem, sem_valid, cpc, posts, added, taken>>,
         exited' \in BOOLEAN,
         job' \in [Thread -> Job \cup {None}]
  PROVE  IInv'
<1>1. /\ tpc' \in [Thread -> {"off", "loop", "wait", "blocked", "woken", "check", "run", "done"}]
      /\ Cardinality(At(tpc', Ready)) = Cardinality(At(tpc, Ready))
              + (IF from \notin Ready /\ to \in Ready THEN 1 ELSE 0)
              - (IF from \in Ready /\ to \notin Ready THEN 1 ELSE 0)
      /\ keepalive => Cardinality(At(tpc', Permitted)) = Cardinality(At(tpc, Permitted))
      /\ Cardinality(At(tpc, Ready)) \in Nat
      /\ Cardinality(At(tpc, Permitted)) \in Nat
      /\ Blocked' \subseteq Blocked
  BY ThreadMoves DEF TPC
<1>2. TypeOK'
  <2>1. readyThreadsN' \in Int
    BY DEF IInv, TypeOK
  <2>2. QED BY <1>1, <2>1 DEF IInv, TypeOK, queueVars
<1>3. CallerState'
  BY DEF IInv, CallerState
<1>4. JobsInOrder'
  BY QueueUnchanged DEF IInv
<1>5. ReadyCount'
  BY <1>1, CountsAt, CountsAtPrimed DEF IInv
<1>6. PermitsMatchJobs'
  BY <1>1, CountsAt, CountsAtPrimed DEF IInv, queueVars
<1>7. QED BY <1>2, <1>3, <1>4, <1>5, <1>6 DEF IInv

\* BecomeReady, LeaveLoop, Woken, ExitThread, FinishJob and SemWaitFails.
LEMMA WorkerMovesOn ==
  ASSUME IInv, NEW t \in Thread,
         BecomeReady(t) \/ LeaveLoop(t) \/ SemWaitFails(t) \/ Woken(t) \/ ExitThread(t)
           \/ FinishJob(t)
  PROVE  IInv'
<1> USE DEF TPC, Permitted, Ready
<1>0. /\ readyThreadsN \in Int /\ job \in [Thread -> Job \cup {None}] /\ exited \in BOOLEAN
      /\ [job EXCEPT ![t] = None] \in [Thread -> Job \cup {None}]
  BY DEF IInv, TypeOK
<1>1. CASE BecomeReady(t)
  <2>1. readyThreadsN' = readyThreadsN + 1 - 0
    BY <1>0, <1>1 DEF BecomeReady
  <2>2. QED BY <1>0, <1>1, <2>1, ThreadStep DEF BecomeReady
<1>2. CASE LeaveLoop(t)
  <2>1. readyThreadsN' = readyThreadsN + 0 - 0
    BY <1>0, <1>2 DEF LeaveLoop
  <2>2. QED BY <1>0, <1>2, <2>1, ThreadStep DEF LeaveLoop
<1>3. CASE SemWaitFails(t)
  <2>1. readyThreadsN' = readyThreadsN + 0 - 0 /\ exited' \in BOOLEAN
    BY <1>0, <1>3 DEF SemWaitFails
  <2>2. QED BY <1>0, <1>3, <2>1, ThreadStep DEF SemWaitFails
<1>4. CASE Woken(t)
  <2>1. readyThreadsN' = readyThreadsN + 0 - 1
    BY <1>0, <1>4 DEF Woken
  <2>2. QED BY <1>0, <1>4, <2>1, ThreadStep DEF Woken
<1>5. CASE ExitThread(t)
  <2>1. readyThreadsN' = readyThreadsN + 0 - 0
    BY <1>0, <1>5 DEF ExitThread
  <2>2. QED BY <1>0, <1>5, <2>1, ThreadStep DEF ExitThread
<1>6. CASE FinishJob(t)
  <2>1. readyThreadsN' = readyThreadsN + 0 - 0
    BY <1>0, <1>6 DEF FinishJob
  <2>2. QED BY <1>0, <1>6, <2>1, ThreadStep DEF FinishJob
<1>7. QED BY <1>1, <1>2, <1>3, <1>4, <1>5, <1>6

\* sem_wait: the unit the thread takes from the semaphore is a permit it holds.
LEMMA SemWaitKeepsIInv ==
  ASSUME IInv, NEW t \in Thread, SemWait(t)
  PROVE  IInv'
<1>0. /\ UNCHANGED <<keepalive, readyThreadsN, queueVars, sem_valid, job, cpc, posts,
                     added, taken, exited>>
      /\ sem \in Nat /\ (keepalive => sem + Cardinality(At(tpc, Permitted)) = jobsN)
      /\ (sem > 0 => Blocked = {}) /\ readyThreadsN = Cardinality(At(tpc, Ready))
  BY CountsAt DEF SemWait, IInv, TypeOK
<1>1. /\ tpc' \in [Thread -> {"off", "loop", "wait", "blocked", "woken", "check", "run", "done"}]
      /\ Cardinality(At(tpc', Ready)) = Cardinality(At(tpc, Ready))
      /\ sem' \in Nat /\ Cardinality(At(tpc, Permitted)) \in Nat
      /\ sem' + Cardinality(At(tpc', Permitted)) = sem + Cardinality(At(tpc, Permitted))
      /\ sem' > 0 => Blocked' = {}
  <2>1. CASE sem > 0 /\ Goes(t, "wait", "woken") /\ sem' = sem - 1
    <3>1. /\ tpc' \in [Thread -> {"off", "loop", "wait", "blocked", "woken", "check", "run", "done"}]
          /\ Cardinality(At(tpc', Ready)) = Cardinality(At(tpc, Ready)) + 0 - 0
          /\ Cardinality(At(tpc', Permitted)) = Cardinality(At(tpc, Permitted)) + 1 - 0
          /\ Cardinality(At(tpc, Ready)) \in Nat /\ Cardinality(At(tpc, Permitted)) \in Nat
          /\ Blocked' \subseteq Blocked
      BY <2>1, ThreadMoves DEF Ready, Permitted
    <3>2. QED BY <1>0, <2>1, <3>1
  <2>2. CASE sem = 0 /\ Goes(t, "wait", "blocked") /\ UNCHANGED sem
    <3>1. /\ tpc' \in [Thread -> {"off", "loop", "wait", "blocked", "woken", "check", "run", "done"}]
          /\ Cardinality(At(tpc', Ready)) = Cardinality(At(tpc, Ready)) + 0 - 0
          /\ Cardinality(At(tpc', Permitted)) = Cardinality(At(tpc, Permitted)) + 0 - 0
          /\ Cardinality(At(tpc, Ready)) \in Nat /\ Cardinality(At(tpc, Permitted)) \in Nat
      BY <2>2, ThreadMoves DEF Ready, Permitted
    <3>2. QED BY <1>0, <2>2, <3>1
  <2>3. QED BY <2>1, <2>2 DEF SemWait
<1>2. TypeOK'
  BY <1>0, <1>1 DEF IInv, TypeOK, queueVars
<1>3. CallerState' /\ JobsInOrder'
  BY <1>0, QueueUnchanged DEF IInv, CallerState
<1>4. PermitsMatchJobs' /\ ReadyCount'
  BY <1>0, <1>1, CountsAtPrimed DEF queueVars
<1>5. QED BY <1>2, <1>3, <1>4 DEF IInv

\* The thread gives up its permit for the oldest job.
LEMMA TakeJobKeepsIInv ==
  ASSUME IInv, NEW t \in Thread, TakeJob(t)
  PROVE  IInv'
<1>0. /\ UNCHANGED <<keepalive, readyThreadsN, sem, sem_valid, cpc, posts, added, exited>>
      /\ keepalive /\ cpc # "freed" /\ taken' = taken + 1 /\ JobqueueRemoveLast
      /\ job' = [job EXCEPT ![t] = tail]
  BY DEF TakeJob, IInv, CallerState
<1>1. JobsInOrder' /\ taken' \in 0 .. MaxJobs
  BY <1>0, RemoveKeepsOrder DEF IInv
<1>2. /\ tpc' \in [Thread -> {"off", "loop", "wait", "blocked", "woken", "check", "run", "done"}]
      /\ Cardinality(At(tpc', Ready)) = Cardinality(At(tpc, Ready)) + 0 - 0
      /\ Cardinality(At(tpc', Permitted)) = Cardinality(At(tpc, Permitted)) + 0 - 1
      /\ Cardinality(At(tpc, Ready)) \in Nat /\ Cardinality(At(tpc, Permitted)) \in Nat
      /\ Blocked' \subseteq Blocked
  <2>1. Goes(t, "check", "run")
    BY DEF TakeJob
  <2>2. QED BY <2>1, ThreadMoves DEF Ready, Permitted
<1>3. TypeOK'
  <2>1. jobsN' \in Nat /\ jobsN' = jobsN - 1
    BY <1>0 DEF IInv, TypeOK, JobqueueRemoveLast
  <2>2. /\ head' \in Job \cup {None} /\ tail' \in Job \cup {None}
        /\ prev' \in [Job -> Job \cup {None}] /\ next' \in [Job -> Job \cup {None}]
    <3>1. CASE jobsN = 1
      BY <1>0, <3>1 DEF IInv, TypeOK, JobqueueRemoveLast
    <3>2. CASE jobsN > 1
      <4>1. tail = taken + 1 /\ tail \in Job
        BY <1>0, <3>2, PoolAssumption DEF IInv, TypeOK, JobsInOrder, Job
      <4>2. prev[tail] \in Job \cup {None}
        BY <4>1 DEF IInv, TypeOK
      <4>3. QED BY <1>0, <3>2, <4>2 DEF IInv, TypeOK, JobqueueRemoveLast
    <3>3. QED BY <1>0, <3>1, <3>2 DEF JobqueueRemoveLast
  <2>3. job' \in [Thread -> Job \cup {None}]
    BY <1>0 DEF IInv, TypeOK
  <2>4. QED BY <1>0, <1>1, <1>2, <2>1, <2>2, <2>3 DEF IInv, TypeOK
<1>4. CallerState'
  BY <1>0 DEF IInv, CallerState
<1>5. PermitsMatchJobs' /\ ReadyCount'
  <2>1. jobsN' = jobsN - 1 /\ jobsN \in Nat /\ sem \in Nat /\ readyThreadsN \in Int
    BY <1>0 DEF IInv, TypeOK, JobqueueRemoveLast
  <2>2. /\ readyThreadsN = Cardinality(At(tpc, Ready))
        /\ sem + Cardinality(At(tpc, Permitted)) = jobsN /\ (sem > 0 => Blocked = {})
    BY <1>0, CountsAt DEF IInv
  <2>3. QED BY <1>0, <1>2, <2>1, <2>2, CountsAtPrimed
<1>6. QED BY <1>1, <1>3, <1>4, <1>5 DEF IInv

\* A worker thread keeps the invariant.
LEMMA WorkerKeepsIInv ==
  ASSUME IInv, NEW t \in Thread, Worker(t)
  PROVE  IInv'
BY WorkerMovesOn, SemWaitKeepsIInv, TakeJobKeepsIInv DEF Worker

-----------------------------------------------------------------------------
(***************************************************************************)
(* The steps of the caller.                                                *)
(***************************************************************************)

\* sem_post makes one permit, held by a thread it wakes or kept by the semaphore.
LEMMA SemPostCounts ==
  ASSUME IInv, SemPost
  PROVE  /\ tpc' \in [Thread -> {"off", "loop", "wait", "blocked", "woken", "check", "run", "done"}]
         /\ sem \in Nat /\ sem' \in Nat
         /\ Cardinality(At(tpc', Ready)) = Cardinality(At(tpc, Ready))
         /\ Cardinality(At(tpc, Permitted)) \in Nat /\ Cardinality(At(tpc', Permitted)) \in Nat
         /\ sem' + Cardinality(At(tpc', Permitted)) = sem + Cardinality(At(tpc, Permitted)) + 1
         /\ sem' > 0 => Blocked' = {}
<1>0. /\ sem \in Nat /\ (sem > 0 => Blocked = {}) /\ tpc = [u \in Thread |-> tpc[u]]
      /\ tpc \in [Thread -> {"off", "loop", "wait", "blocked", "woken", "check", "run", "done"}]
  BY DEF IInv, TypeOK, PermitsMatchJobs
<1>1. CASE Blocked = {} /\ sem' = sem + 1 /\ UNCHANGED tpc
  <2>1. IsFiniteSet(At(tpc, Permitted))
    BY PoolAssumption, FS_Subset DEF At
  <2>2. Cardinality(At(tpc, Permitted)) \in Nat
    BY <2>1, FS_CardinalityType
  <2>3. Blocked' = Blocked
    BY <1>1 DEF Blocked
  <2>4. QED BY <1>0, <1>1, <2>2, <2>3
<1>2. CASE /\ \E t \in Blocked : tpc' = [tpc EXCEPT ![t] = "woken"]
           /\ UNCHANGED sem
  <2>1. PICK t \in Blocked : tpc' = [tpc EXCEPT ![t] = "woken"]
    BY <1>2
  <2>2. t \in Thread /\ tpc[t] = "blocked" /\ sem = 0 /\ sem' = 0
    BY <1>0, <1>2 DEF Blocked
  <2>3. /\ Cardinality(At(tpc', Ready)) = Cardinality(At(tpc, Ready))
        /\ Cardinality(At(tpc, Permitted)) \in Nat
        /\ Cardinality(At(tpc', Permitted)) = Cardinality(At(tpc, Permitted)) + 1
    BY <1>0, <2>1, <2>2, MoveCounts DEF Ready, Permitted
  <2>4. tpc' \in [Thread -> {"off", "loop", "wait", "blocked", "woken", "check", "run", "done"}]
    BY <1>0, <2>1, <2>2
  <2>5. QED BY <2>2, <2>3, <2>4
<1>3. QED BY <1>1, <1>2 DEF SemPost

\* thpool_add_work before the queue: at most a thread is created.
LEMMA AddWorkKeepsIInv ==
  ASSUME IInv, AddWork
  PROVE  IInv'
<1>0. /\ UNCHANGED <<keepalive, readyThreadsN, queueVars, sem, sem_valid, job, posts,
                     added, taken, exited>>
      /\ cpc = "idle" /\ cpc' = "add" /\ added < MaxJobs
  BY DEF AddWork
<1>1. /\ tpc' \in [Thread -> {"off", "loop", "wait", "blocked", "woken", "check", "run", "done"}]
      /\ Cardinality(At(tpc', Ready)) = Cardinality(At(tpc, Ready))
      /\ Cardinality(At(tpc', Permitted)) = Cardinality(At(tpc, Permitted))
      /\ Blocked' \subseteq Blocked
  <2>0. tpc \in [Thread -> {"off", "loop", "wait", "blocked", "woken", "check", "run", "done"}]
        /\ tpc = [u \in Thread |-> tpc[u]]
    BY DEF IInv, TypeOK
  <2>1. CASE \E t \in Thread \ threads : tpc' = [tpc EXCEPT ![t] = "loop"]
    <3>1. PICK t \in Thread \ threads : tpc' = [tpc EXCEPT ![t] = "loop"]
      BY <2>1
    <3>2. t \in Thread /\ tpc[t] = "off"
      BY DEF threads
    <3>3. /\ Cardinality(At(tpc', Ready)) = Cardinality(At(tpc, Ready))
          /\ Cardinality(At(tpc', Permitted)) = Cardinality(At(tpc, Permitted))
      BY <2>0, <3>1, <3>2, MoveCounts DEF Ready, Permitted
    <3>4. /\ tpc' \in [Thread -> {"off", "loop", "wait", "blocked", "woken", "check", "run", "done"}]
          /\ Blocked' \subseteq Blocked
      BY <2>0, <3>1, <3>2 DEF Blocked
    <3>5. QED BY <3>3, <3>4
  <2>2. CASE UNCHANGED tpc
    BY <2>0, <2>2 DEF Blocked
  <2>3. QED BY <2>1, <2>2 DEF AddWork
<1>2. TypeOK'
  BY <1>0, <1>1 DEF IInv, TypeOK, queueVars
<1>3. CallerState' /\ JobsInOrder'
  BY <1>0, QueueUnchanged DEF IInv, CallerState
<1>4. PermitsMatchJobs' /\ ReadyCount'
  BY <1>0, <1>1, CountsAt, CountsAtPrimed DEF IInv, queueVars
<1>5. QED BY <1>2, <1>3, <1>4 DEF IInv

\* The job and its permit come together.
LEMMA EnqueueKeepsIInv ==
  ASSUME IInv, Enqueue
  PROVE  IInv'
<1>0. /\ UNCHANGED <<keepalive, readyThreadsN, sem_valid, job, posts, taken, exited>>
      /\ cpc = "add" /\ cpc' = "idle" /\ added < MaxJobs /\ added' = added + 1
      /\ JobqueueAdd(added + 1) /\ SemPost /\ keepalive
  BY DEF Enqueue, IInv, CallerState
<1>1. JobsInOrder'
  BY <1>0, AddKeepsOrder DEF IInv
<1>2. /\ jobsN' = jobsN + 1 /\ jobsN \in Nat /\ added' \in 0 .. MaxJobs /\ added + 1 \in Job
  BY <1>0, PoolAssumption DEF JobqueueAdd, IInv, TypeOK, Job
<1>3. TypeOK'
  <2>1. /\ head' \in Job \cup {None} /\ tail' \in Job \cup {None}
        /\ prev' \in [Job -> Job \cup {None}] /\ next' \in [Job -> Job \cup {None}]
    BY <1>0, <1>2 DEF JobqueueAdd, IInv, TypeOK
  <2>2. QED BY <1>0, <1>2, <2>1, SemPostCounts DEF IInv, TypeOK
<1>4. CallerState'
  BY <1>0 DEF IInv, CallerState
<1>5. PermitsMatchJobs' /\ ReadyCount'
  BY <1>0, <1>2, SemPostCounts, CountsAt, CountsAtPrimed DEF IInv
<1>6. QED BY <1>1, <1>3, <1>4, <1>5 DEF IInv

\* thpool_destroy: its first step clears keepalive, and permits no longer stand
\* for jobs.
LEMMA DestroyCallKeepsIInv ==
  ASSUME IInv, DestroyCall
  PROVE  IInv'
<1>1. CASE Destroy \/ PostsDone \/ SemDestroy
  <2>0. /\ UNCHANGED <<readyThreadsN, queueVars, sem, tpc, job, posts, added, taken, exited>>
        /\ cpc' \in {"post", "destroy_sem", "join"} /\ cpc \in {"idle", "post", "destroy_sem"}
    BY <1>1 DEF Destroy, PostsDone, SemDestroy
  <2>1. /\ keepalive' = FALSE \/ (keepalive' = keepalive /\ cpc # "idle")
        /\ sem_valid' = FALSE \/ sem_valid' = sem_valid
    BY <1>1 DEF Destroy, PostsDone, SemDestroy
  <2>2. keepalive' = FALSE
    <3>1. CASE keepalive' = FALSE
      BY <3>1
    <3>2. CASE keepalive' = keepalive /\ cpc # "idle"
      <4>1. ~ keepalive /\ keepalive \in BOOLEAN
        BY <2>0, <3>2 DEF IInv, CallerState, TypeOK
      <4>2. QED BY <3>2, <4>1, Zenon
    <3>3. QED BY <2>1, <3>1, <3>2
  <2>3. TypeOK'
    <3>1. keepalive' \in BOOLEAN /\ sem_valid' \in BOOLEAN
      BY <2>1, <2>2, Zenon DEF IInv, TypeOK
    <3>2. QED BY <2>0, <3>1 DEF IInv, TypeOK, queueVars
  <2>4. JobsInOrder' /\ CallerState'
    BY <2>0, <2>2, QueueUnchanged DEF IInv, CallerState
  <2>5. PermitsMatchJobs' /\ ReadyCount'
    BY <2>0, <2>2 DEF IInv, PermitsMatchJobs, ReadyCount, Blocked
  <2>6. QED BY <2>3, <2>4, <2>5 DEF IInv
<1>2. CASE PostOne
  <2>0. /\ UNCHANGED <<keepalive, readyThreadsN, queueVars, sem_valid, job, cpc, added,
                       taken, exited>>
        /\ cpc = "post" /\ posts' = posts + 1 /\ SemPost /\ ~keepalive
    BY <1>2 DEF PostOne, IInv, CallerState
  <2>1. TypeOK'
    BY <2>0, SemPostCounts DEF IInv, TypeOK, queueVars
  <2>2. JobsInOrder' /\ CallerState'
    BY <2>0, QueueUnchanged DEF IInv, CallerState
  <2>3. PermitsMatchJobs' /\ ReadyCount'
    BY <2>0, SemPostCounts, CountsAt, CountsAtPrimed DEF IInv
  <2>4. QED BY <2>1, <2>2, <2>3 DEF IInv
<1>3. CASE JoinAndFree
  <2>0. /\ UNCHANGED <<keepalive, readyThreadsN, prev, next, sem, sem_valid, tpc, job, posts,
                       added, taken, exited>>
        /\ cpc = "join" /\ cpc' = "freed" /\ ~keepalive
        /\ head' = None /\ tail' = None /\ jobsN' = 0
    BY <1>3 DEF JoinAndFree, IInv, CallerState
  <2>1. TypeOK'
    BY <2>0 DEF IInv, TypeOK
  <2>2. JobsInOrder' /\ CallerState'
    BY <2>0 DEF JobsInOrder, CallerState
  <2>3. PermitsMatchJobs' /\ ReadyCount'
    BY <2>0 DEF IInv, PermitsMatchJobs, ReadyCount, Blocked
  <2>4. QED BY <2>1, <2>2, <2>3 DEF IInv
<1>4. QED BY <1>1, <1>2, <1>3 DEF DestroyCall

-----------------------------------------------------------------------------
\* The inductive invariant holds in every state of the pool.
THEOREM PoolInvariant == Spec => []IInv
<1>1. IInv /\ [Next]_vars => IInv'
  <2> SUFFICES ASSUME IInv, [Next]_vars PROVE IInv'
    OBVIOUS
  <2>1. CASE Next
    BY <2>1, WorkerKeepsIInv, AddWorkKeepsIInv, EnqueueKeepsIInv, DestroyCallKeepsIInv
       DEF Next, AddCall
  <2>2. CASE UNCHANGED vars
    BY <2>2 DEF vars, queueVars, IInv, TypeOK, CallerState, JobsInOrder, PermitsMatchJobs,
                ReadyCount, Blocked
  <2>3. QED BY <2>1, <2>2
<1>2. QED BY <1>1, InitEstablishesIInv, PTL DEF Spec

\* The variables keep their types, whatever the number of threads and jobs.
THEOREM PoolTypeCorrect == Spec => []TypeOK
<1>1. IInv => TypeOK
  BY DEF IInv
<1>2. QED BY <1>1, PoolInvariant, PTL

\* The linked list holds exactly the jobs added and not taken, in the order of
\* the calls of thpool_add_work.
THEOREM JobsAlwaysInOrder == Spec => []JobsInOrder
<1>1. IInv => JobsInOrder
  BY DEF IInv
<1>2. QED BY <1>1, PoolInvariant, PTL

\* Until the pool is destroyed every permit stands for a job: the unchecked
\* pointer from thpool_jobqueue_peek is never null.
THEOREM PermitsAlwaysMatch == Spec => []PermitsMatchJobs
<1>1. IInv => PermitsMatchJobs
  BY DEF IInv
<1>2. QED BY <1>1, PoolInvariant, PTL

\* readyThreadsN never drifts from the number of threads it counts.
THEOREM ReadyAlwaysCounted == Spec => []ReadyCount
<1>1. IInv => ReadyCount
  BY DEF IInv
<1>2. QED BY <1>1, PoolInvariant, PTL
=============================================================================
