----------------------------- MODULE ThreadPool -----------------------------
(***************************************************************************)
(* The thread pool the TCP server creates (C-Thread-Pool's thpool.c, with  *)
(* the repository's additions: readyThreadsN and threads created on        *)
(* demand).  One caller adds work and may at last destroy the pool, as     *)
(* main.c of the pool does; the worker threads run thpool_thread_do.       *)
(* A section between a lock and its unlock is one step.                    *)
(***************************************************************************)
EXTENDS Integers, FiniteSets

CONSTANTS
  Thread,       \* thread identities pthread_create can hand out
  InitThread,   \* the threads thpool_init creates
  None,         \* a null pointer
  MaxJobs       \* bound: jobs the caller adds

ASSUME PoolAssumption ==
  /\ IsFiniteSet(Thread)
  /\ InitThread \subseteq Thread /\ InitThread # {}
  /\ MaxJobs \in Nat
  /\ None \notin Nat

\* A job is named by its place in the order of thpool_add_work.
Job == 1 .. MaxJobs

VARIABLES
  keepalive,            \* thpool_keepalive
  readyThreadsN,
  head, tail, jobsN,    \* thpool_jobqueue
  prev, next,           \* the links of the jobs
  sem, sem_valid,       \* queueSem: its value, and whether it is not destroyed
  tpc,                  \* what each thread is about to do
  job,                  \* job_p of each thread
  cpc,                  \* what the caller is about to do
  posts,                \* t of the sem_post loop in thpool_destroy
  added, taken,         \* jobs put into and got out of the queue
  exited                \* exit(1) was called

queueVars == <<head, tail, jobsN, prev, next>>
vars == <<keepalive, readyThreadsN, queueVars, sem, sem_valid, tpc, job, cpc, posts,
          added, taken, exited>>

TypeOK ==
  /\ keepalive \in BOOLEAN /\ sem_valid \in BOOLEAN /\ exited \in BOOLEAN
  /\ readyThreadsN \in Int /\ jobsN \in Nat /\ sem \in Nat /\ posts \in Nat
  /\ added \in 0 .. MaxJobs /\ taken \in 0 .. MaxJobs
  /\ head \in Job \cup {None} /\ tail \in Job \cup {None}
  /\ prev \in [Job -> Job \cup {None}] /\ next \in [Job -> Job \cup {None}]
  /\ tpc \in [Thread -> {"off", "loop", "wait", "blocked", "woken", "check", "run", "done"}]
  /\ job \in [Thread -> Job \cup {None}]
  /\ cpc \in {"idle", "add", "post", "destroy_sem", "join", "freed"}

\* thpool_init and thpool_jobqueue_init.
Init ==
  /\ keepalive = TRUE
  /\ readyThreadsN = 0
  /\ head = None /\ tail = None /\ jobsN = 0
  /\ prev = [j \in Job |-> None] /\ next = [j \in Job |-> None]
  /\ sem = 0 /\ sem_valid = TRUE
  /\ tpc = [t \in Thread |-> IF t \in InitThread THEN "loop" ELSE "off"]
  /\ job = [t \in Thread |-> None]
  /\ cpc = "idle"
  /\ posts = 0
  /\ added = 0 /\ taken = 0
  /\ exited = FALSE

threads == {t \in Thread : tpc[t] # "off"}
Blocked == {t \in Thread : tpc[t] = "blocked"}

Goes(t, from, to) ==
  /\ ~exited
  /\ tpc[t] = from
  /\ tpc' = [tpc EXCEPT ![t] = to]

\* sem_post: a thread that waits gets the unit, or the value grows.
SemPost ==
  \/ /\ Blocked = {}
     /\ sem' = sem + 1
     /\ UNCHANGED tpc
  \/ /\ \E t \in Blocked : tpc' = [tpc EXCEPT ![t] = "woken"]
     /\ UNCHANGED sem

-----------------------------------------------------------------------------
(***************************************************************************)
(* The job queue: added at the head, taken at the tail.                    *)
(***************************************************************************)
JobqueueAddNoBackLink(j) ==   \* mutant: oldFirstJob->prev is not set
  /\ head' = j
  /\ tail' = IF jobsN = 0 THEN j ELSE tail
  /\ prev' = [prev EXCEPT ![j] = None]
  /\ next' = [next EXCEPT ![j] = IF jobsN = 0 THEN None ELSE head]
  /\ jobsN' = jobsN + 1

JobqueueAdd(j) ==
  /\ head' = j
  /\ tail' = IF jobsN = 0 THEN j ELSE tail
  /\ prev' = [i \in Job |-> IF i = j THEN None
                            ELSE IF jobsN # 0 /\ i = head THEN j ELSE prev[i]]
  /\ next' = [next EXCEPT ![j] = IF jobsN = 0 THEN None ELSE head]
  /\ jobsN' = jobsN + 1

JobqueueRemoveLast ==
  /\ \/ /\ jobsN = 1
        /\ head' = None /\ tail' = None
        /\ UNCHANGED next
     \/ /\ jobsN > 1
        /\ next' = [next EXCEPT ![prev[tail]] = None]
        /\ tail' = prev[tail]
        /\ UNCHANGED head
  /\ jobsN' = jobsN - 1
  /\ UNCHANGED prev

-----------------------------------------------------------------------------
(***************************************************************************)
(* thpool_thread_do                                                        *)
(***************************************************************************)
BecomeReady(t) ==
  /\ keepalive
  /\ Goes(t, "loop", "wait")
  /\ readyThreadsN' = readyThreadsN + 1
  /\ UNCHANGED <<keepalive, queueVars, sem, sem_valid, job, cpc, posts, added, taken, exited>>

LeaveLoop(t) ==
  /\ ~keepalive
  /\ Goes(t, "loop", "done")
  /\ UNCHANGED <<keepalive, readyThreadsN, queueVars, sem, sem_valid, job, cpc, posts,
                 added, taken, exited>>

\* sem_wait takes a unit or blocks.  After sem_destroy that is one of its outcomes.
SemWait(t) ==
  /\ \/ sem > 0 /\ Goes(t, "wait", "woken") /\ sem' = sem - 1
     \/ sem = 0 /\ Goes(t, "wait", "blocked") /\ UNCHANGED sem
  /\ UNCHANGED <<keepalive, readyThreadsN, queueVars, sem_valid, job, cpc, posts,
                 added, taken, exited>>

\* The other outcome of sem_wait on a destroyed semaphore: an error, and exit(1).
SemWaitFails(t) ==
  /\ ~sem_valid
  /\ Goes(t, "wait", "wait")
  /\ exited' = TRUE
  /\ UNCHANGED <<keepalive, readyThreadsN, queueVars, sem, sem_valid, job, cpc, posts,
                 added, taken>>

Woken(t) ==
  /\ Goes(t, "woken", "check")
  /\ readyThreadsN' = readyThreadsN - 1
  /\ UNCHANGED <<keepalive, queueVars, sem, sem_valid, job, cpc, posts, added, taken, exited>>

\* thpool_jobqueue_peek and _removelast.
TakeJob(t) ==
  /\ keepalive
  /\ Goes(t, "check", "run")
  /\ job' = [job EXCEPT ![t] = tail]
  /\ JobqueueRemoveLast
  /\ taken' = taken + 1
  /\ UNCHANGED <<keepalive, readyThreadsN, sem, sem_valid, cpc, posts, added, exited>>

ExitThread(t) ==
  /\ ~keepalive
  /\ Goes(t, "check", "done")
  /\ UNCHANGED <<keepalive, readyThreadsN, queueVars, sem, sem_valid, job, cpc, posts,
                 added, taken, exited>>

FinishJob(t) ==
  /\ Goes(t, "run", "loop")
  /\ job' = [job EXCEPT ![t] = None]
  /\ UNCHANGED <<keepalive, readyThreadsN, queueVars, sem, sem_valid, cpc, posts,
                 added, taken, exited>>

-----------------------------------------------------------------------------
(***************************************************************************)
(* thpool_add_work: first a thread when none is ready, then the job.       *)
(***************************************************************************)
AddWork ==
  /\ ~exited /\ cpc = "idle"
  /\ added < MaxJobs
  /\ \/ readyThreadsN = 0 /\ \E t \in Thread \ threads : tpc' = [tpc EXCEPT ![t] = "loop"]
     \/ readyThreadsN > 0 /\ UNCHANGED tpc
  /\ cpc' = "add"
  /\ UNCHANGED <<keepalive, readyThreadsN, queueVars, sem, sem_valid, job, posts,
                 added, taken, exited>>

EnqueueNoPost ==   \* mutant: sem_post forgotten
  /\ ~exited /\ cpc = "add"
  /\ JobqueueAdd(added + 1)
  /\ added' = added + 1
  /\ cpc' = "idle"
  /\ UNCHANGED <<keepalive, readyThreadsN, sem, sem_valid, tpc, job, posts, taken, exited>>

Enqueue ==
  /\ ~exited /\ cpc = "add"
  /\ JobqueueAdd(added + 1)
  /\ SemPost
  /\ added' = added + 1
  /\ cpc' = "idle"
  /\ UNCHANGED <<keepalive, readyThreadsN, sem_valid, job, posts, taken, exited>>

-----------------------------------------------------------------------------
(***************************************************************************)
(* thpool_destroy                                                          *)
(***************************************************************************)
DestroyKeepsAlive ==   \* mutant: thpool_keepalive is not cleared first
  /\ ~exited /\ cpc = "idle"
  /\ cpc' = "post"
  /\ UNCHANGED <<keepalive, readyThreadsN, queueVars, sem, sem_valid, tpc, job, posts, added,
                 taken, exited>>

Destroy ==
  /\ ~exited /\ cpc = "idle"
  /\ keepalive' = FALSE
  /\ cpc' = "post"
  /\ UNCHANGED <<readyThreadsN, queueVars, sem, sem_valid, tpc, job, posts, added, taken, exited>>

PostOne ==
  /\ ~exited /\ cpc = "post"
  /\ posts < Cardinality(threads)
  /\ SemPost
  /\ posts' = posts + 1
  /\ UNCHANGED <<keepalive, readyThreadsN, queueVars, sem_valid, job, cpc, added, taken, exited>>

PostsDoneEarly ==   \* mutant: one post too few
  /\ ~exited /\ cpc = "post"
  /\ posts + 1 = Cardinality(threads)
  /\ cpc' = "destroy_sem"
  /\ UNCHANGED <<keepalive, readyThreadsN, queueVars, sem, sem_valid, tpc, job, posts,
                 added, taken, exited>>

PostsDone ==
  /\ ~exited /\ cpc = "post"
  /\ posts = Cardinality(threads)
  /\ cpc' = "destroy_sem"
  /\ UNCHANGED <<keepalive, readyThreadsN, queueVars, sem, sem_valid, tpc, job, posts,
                 added, taken, exited>>

SemDestroy ==
  /\ ~exited /\ cpc = "destroy_sem"
  /\ sem_valid' = FALSE
  /\ cpc' = "join"
  /\ UNCHANGED <<keepalive, readyThreadsN, queueVars, sem, tpc, job, posts, added, taken, exited>>

\* All threads joined: thpool_jobqueue_empty and the frees.
JoinAndFree ==
  /\ ~exited /\ cpc = "join"
  /\ \A t \in threads : tpc[t] = "done"
  /\ head' = None /\ tail' = None /\ jobsN' = 0
  /\ cpc' = "freed"
  /\ UNCHANGED <<keepalive, readyThreadsN, prev, next, sem, sem_valid, tpc, job, posts,
                 added, taken, exited>>

-----------------------------------------------------------------------------
Worker(t) ==
  \/ BecomeReady(t) \/ LeaveLoop(t) \/ SemWait(t) \/ SemWaitFails(t)
  \/ Woken(t) \/ TakeJob(t) \/ ExitThread(t) \/ FinishJob(t)

AddCall == AddWork \/ Enqueue
DestroyCall == Destroy \/ PostOne \/ PostsDone \/ SemDestroy \/ JoinAndFree

Next == (\E t \in Thread : Worker(t)) \/ AddCall \/ DestroyCall

Spec == Init /\ [][Next]_vars

\* Every thread is scheduled and jobs return; a call that was entered goes on.
\* The caller need not call again.
Fairness ==
  /\ \A t \in Thread : WF_vars(Worker(t))
  /\ WF_vars(Enqueue)
  /\ WF_vars(PostOne \/ PostsDone \/ SemDestroy \/ JoinAndFree)

FairSpec == Spec /\ Fairness

-----------------------------------------------------------------------------
(***************************************************************************)
(* Properties.                                                             *)
(***************************************************************************)

\* The doubly linked list is the queue of the jobs not taken yet, oldest at
\* the tail: what a thread takes is always the oldest, once (jobqueue_add,
\* _peek, _removelast).
JobsInOrder ==
  cpc # "freed" =>
    /\ jobsN = added - taken
    /\ jobsN = 0 => head = None /\ tail = None
    /\ jobsN > 0 => head = added /\ tail = taken + 1 /\ prev[added] = None
    /\ \A j \in taken + 1 .. added - 1 : prev[j] = j + 1 /\ next[j + 1] = j

\* A thread that holds a permit finds a job, so the pointer from
\* thpool_jobqueue_peek, which is followed unchecked, is never null; and no
\* thread blocks while a permit is free.
PermitsMatchJobs ==
  /\ keepalive => sem + Cardinality({t \in Thread : tpc[t] \in {"woken", "check"}}) = jobsN
  /\ sem > 0 => Blocked = {}

\* readyThreadsN, on which add_work decides whether to create a thread, counts
\* the threads between their two updates, the woken ones included.
ReadyCount ==
  readyThreadsN = Cardinality({t \in Thread : tpc[t] \in {"wait", "blocked", "woken"}})

\* thpool_destroy lets active threads finish what they are doing.
ActiveJobsFinish == exited => \A t \in Thread : tpc[t] # "run"

\* Every job is run in the end, unless the pool is destroyed.
JobsRun == \A j \in Job : added >= j ~> (taken >= j \/ ~keepalive)

\* thpool_destroy comes to an end.
DestroyEnds == ~keepalive ~> (cpc = "freed" \/ exited)
=============================================================================
