--------------------------- MODULE ClientRegistry ---------------------------
(***************************************************************************)
(* The registries of the select loop (tcpserver.c) down to their arrays:   *)
(* clients, an RST_Set, and finished_clients, an RST_Vector.  TcpServer    *)
(* takes both for sets; this module shows that the loop's iterations,      *)
(* insertions and removals on the arrays do what it does with the sets.    *)
(* What a client's turn does is a free choice: it is released or not.      *)
(***************************************************************************)
EXTENDS RstVector

CONSTANTS
  Socket,      \* descriptors of clients
  SERV_SOCK    \* the listening descriptor

ASSUME RegistryAssumption == Socket \subseteq Nat /\ SERV_SOCK \in Nat \ Socket

VARIABLES
  pc,                 \* where the loop is
  clients, finished_clients,
  k,                  \* the index of the iteration going on
  readset, mx,        \* what select() is given
  visited,            \* clients that had their turn in this scan
  opened              \* the kernel's view: descriptors accepted and not closed

vars == <<pc, clients, finished_clients, k, readset, mx, visited, opened>>

TypeOK ==
  /\ pc \in {"fill", "select", "scan", "release"}
  /\ IsVector(clients, Socket) /\ IsVector(finished_clients, Socket)
  /\ k \in Nat
  /\ readset \subseteq Socket \cup {SERV_SOCK}
  /\ mx \in Socket \cup {SERV_SOCK}
  /\ visited \subseteq Socket
  /\ opened \subseteq Socket

Init ==
  /\ pc = "fill"
  /\ clients = VectorInit /\ finished_clients = VectorInit
  /\ k = 0
  /\ readset = {SERV_SOCK} /\ mx = SERV_SOCK
  /\ visited = {} /\ opened = {}

-----------------------------------------------------------------------------
(***************************************************************************)
(* RST_Set                                                                 *)
(***************************************************************************)
RST_int_comparator(a, b) == a - b

Matches(s, x) == {j \in Slots(s) : RST_int_comparator(s.data[j], x) = 0}
SetContains(s, x) == Matches(s, x) # {}
SetInsert(s, x) == IF SetContains(s, x) THEN s ELSE VectorPushBack(s, x)

\* The loop returns at the first match.
SetErase(s, x) ==
  IF SetContains(s, x)
    THEN VectorErase(s, CHOOSE j \in Matches(s, x) : \A m \in Matches(s, x) : j <= m)
    ELSE s

SetMaxElementLast(s) == s.data[s.size - 1]   \* mutant: the comparison is lost
SetMaxElement(s) ==
  LET best[j \in Slots(s)] ==
        IF j = 0 THEN s.data[0]
        ELSE IF RST_int_comparator(s.data[j], best[j - 1]) > 0 THEN s.data[j] ELSE best[j - 1]
  IN  best[s.size - 1]

SetEmpty(s) == s.size = 0
RST_max(a, b) == IF a > b THEN a ELSE b

\* RST_set_end: the iterator looks at the size of the moment.
AtEnd(s) == k >= s.size

IteratorNextTwice == k + 2   \* mutant: the body of the loop moves it as well
IteratorNext == k + 1

-----------------------------------------------------------------------------
(***************************************************************************)
(* RST_selecttcpserver_server_loop                                         *)
(***************************************************************************)
\* One turn of the loop that puts the clients into readset.
FdSet ==
  /\ pc = "fill" /\ ~AtEnd(clients)
  /\ readset' = readset \cup {clients.data[k]}
  /\ k' = IteratorNext
  /\ UNCHANGED <<pc, clients, finished_clients, mx, visited, opened>>

\* The first argument of select().
Select ==
  /\ pc = "fill" /\ AtEnd(clients)
  /\ mx' = IF SetEmpty(clients) THEN SERV_SOCK ELSE RST_max(SERV_SOCK, SetMaxElement(clients))
  /\ pc' = "select"
  /\ UNCHANGED <<clients, finished_clients, k, readset, visited, opened>>

ClearFinishedNever == UNCHANGED finished_clients   \* mutant: RST_vector_clear is lost
\* finished_clients is cleared an iteration late, after the accept.
ClearFinished ==
  finished_clients' = IF finished_clients.size > 0 THEN VectorClear(finished_clients)
                                                   ELSE finished_clients

StartScan ==
  /\ pc = "select"
  /\ ClearFinished
  /\ k' = 0 /\ visited' = {}
  /\ pc' = "scan"
  /\ UNCHANGED <<readset, mx>>

\* accept() returns any descriptor that is not open.
AcceptClient ==
  /\ \E s \in Socket \ opened :
       /\ opened' = opened \cup {s}
       /\ clients' = SetInsert(clients, s)
  /\ StartScan

AcceptNone ==
  /\ UNCHANGED <<opened, clients>>
  /\ StartScan

\* A client's turn, after which it may be on the list of those to close.
Turn ==
  /\ pc = "scan" /\ ~AtEnd(clients)
  /\ visited' = visited \cup {clients.data[k]}
  /\ \/ finished_clients' = VectorPushBack(finished_clients, clients.data[k])
     \/ UNCHANGED finished_clients
  /\ k' = IteratorNext
  /\ UNCHANGED <<pc, clients, readset, mx, opened>>

EndScan ==
  /\ pc = "scan" /\ AtEnd(clients)
  /\ pc' = "release" /\ k' = 0
  /\ UNCHANGED <<clients, finished_clients, readset, mx, visited, opened>>

\* RST_selecttcpserver_release_clients, one turn: close() and RST_set_erase.
Release ==
  /\ pc = "release" /\ ~AtEnd(finished_clients)
  /\ opened' = opened \ {finished_clients.data[k]}
  /\ clients' = SetErase(clients, finished_clients.data[k])
  /\ k' = k + 1
  /\ UNCHANGED <<pc, finished_clients, readset, mx, visited>>

\* The top of the loop: FD_ZERO and FD_SET of the listening socket.
NextIteration ==
  /\ pc = "release" /\ AtEnd(finished_clients)
  /\ pc' = "fill" /\ k' = 0
  /\ readset' = {SERV_SOCK}
  /\ UNCHANGED <<clients, finished_clients, mx, visited, opened>>

Next ==
  \/ FdSet \/ Select \/ AcceptClient \/ AcceptNone
  \/ Turn \/ EndScan \/ Release \/ NextIteration

Spec == Init /\ [][Next]_vars

-----------------------------------------------------------------------------
(***************************************************************************)
(* Properties                                                              *)
(***************************************************************************)
\* RST_Set is a set: whatever was inserted and erased, in whatever order, the
\* slots in use hold the open descriptors, each once, and nothing else.
ClientsAreOpen == NoRepeats(clients) /\ Elements(clients) = opened

\* select() is asked about every client: all of them are in readset, and the
\* first argument, the largest descriptor, reaches them (RST_set_max_element).
\* The arrays they are collected from never outgrow what was allocated.
SelectSeesAll ==
  /\ TypeOK
  /\ pc = "select" =>
       /\ readset = opened \cup {SERV_SOCK}
       /\ \A s \in readset : s <= mx
       /\ mx \in readset

\* The scan gives every client a turn, the one just accepted included, before
\* anything is closed: the clients that are gone by then had theirs too.
EachHadItsTurn == pc = "release" => opened \subseteq visited

\* close() is called once for every client released, and never for a
\* descriptor that was closed before: finished_clients, which still holds the
\* sockets of the last iteration while the next one accepts, is emptied
\* before it is used again.
ClosedOnce ==
  /\ pc \in {"scan", "release"} => NoRepeats(finished_clients)
  /\ pc = "scan" => Elements(finished_clients) \subseteq opened \cap visited
  /\ pc = "release" => {finished_clients.data[j] : j \in k .. finished_clients.size - 1} \subseteq opened
=============================================================================
