-------------------------- MODULE TcpServerProofs --------------------------
(***************************************************************************)
(* Proofs about TcpServer for every set of descriptors and every value of  *)
(* the bounds.  The properties that TLC checks are, taken together, an     *)
(* inductive invariant of the select loop.                                 *)
(***************************************************************************)
EXTENDS TcpServer, TLAPS

\* The inductive invariant: each part needs the others, see the README.
IInv == TypeOK /\ RegistriesAgree /\ WritersRegistered /\ ScanOrder /\ ResponseIntegrity

USE DEF Halted, AllSent, Advance, OnDataSent, EraseWriter, ReleaseClient

\* The server's first state, with its empty registries, satisfies it.
LEMMA InitEstablishesIInv == Init => IInv
<1> SUFFICES ASSUME Init PROVE IInv
  OBVIOUS
<1>1. TypeOK
  BY SocketAssumption DEF Init, TypeOK
<1>2. RegistriesAgree /\ WritersRegistered
  BY DEF Init, RegistriesAgree, WritersRegistered
<1>3. ScanOrder /\ ResponseIntegrity
  BY DEF Init, ScanOrder, ResponseIntegrity, Unvisited
<1>4. QED
  BY <1>1, <1>2, <1>3 DEF IInv

-----------------------------------------------------------------------------
\* What send() can return, for the amounts the loop asks it to send: -1 only on
\* a connection that was reset or has no room, and else between 1 and n units.
LEMMA SendResultsRange ==
  ASSUME TypeOK, NEW s \in Socket, NEW n \in Int, NEW k \in SendResults(s, n)
  PROVE  /\ k \in Int
         /\ k = -1 \/ (k \in 1 .. n /\ net[s] # "reset")
         /\ k = -1 => net[s] = "reset" \/ sndq[s] >= SndBuf
BY BoundAssumption DEF SendResults, TypeOK

\* select(): the two ways it can return.
LEMMA SelectPreserves == ASSUME IInv, SelectReturns \/ SelectFails PROVE IInv'
<1> USE DEF serverVars, serviceVars, kernelVars, boundVars
<1>1. CASE SelectReturns
  <2> USE <1>1 DEF SelectReturns
  <2>1. TypeOK'
    BY DEF IInv, TypeOK, ReadReady, WriteReady
  <2>2. RegistriesAgree' /\ WritersRegistered' /\ ResponseIntegrity'
    BY DEF IInv, RegistriesAgree, WritersRegistered, ResponseIntegrity
  <2>3. ScanOrder'
    BY DEF IInv, ScanOrder, Unvisited, WriteReady, Writable
  <2>4. QED BY <2>1, <2>2, <2>3 DEF IInv
<1>2. CASE SelectFails
  <2> USE <1>2 DEF SelectFails
  <2>1. TypeOK'
    BY DEF IInv, TypeOK
  <2>2. RegistriesAgree' /\ WritersRegistered' /\ ResponseIntegrity'
    BY DEF IInv, RegistriesAgree, WritersRegistered, ResponseIntegrity
  <2>3. ScanOrder'
    BY DEF IInv, ScanOrder, Unvisited, Writable
  <2>4. QED BY <2>1, <2>2, <2>3 DEF IInv
<1>3. QED BY <1>1, <1>2

\* accept() and the start of the scan.  A descriptor that is handed out again
\* was closed, so no registry has anything left of its previous connection.
LEMMA AcceptPreserves ==
  ASSUME IInv, AcceptFails \/ NoAccept \/ \E s \in Socket : AcceptClient(s)
  PROVE  IInv'
<1> USE DEF serverVars, serviceVars, kernelVars, boundVars, StartScan
<1>1. CASE AcceptFails
  <2> USE <1>1 DEF AcceptFails
  <2>1. TypeOK'
    BY DEF IInv, TypeOK
  <2>2. RegistriesAgree' /\ WritersRegistered' /\ ResponseIntegrity'
    BY DEF IInv, RegistriesAgree, WritersRegistered, ResponseIntegrity
  <2>3. ScanOrder'
    BY DEF IInv, ScanOrder, Unvisited, Writable
  <2>4. QED BY <2>1, <2>2, <2>3 DEF IInv
<1>2. CASE NoAccept
  <2> USE <1>2 DEF NoAccept
  <2>1. TypeOK'
    BY DEF IInv, TypeOK
  <2>2. RegistriesAgree' /\ WritersRegistered' /\ ResponseIntegrity'
    BY DEF IInv, RegistriesAgree, WritersRegistered, ResponseIntegrity, ScanOrder, TypeOK
  <2>3. ScanOrder'
    BY DEF IInv, ScanOrder, Unvisited, Writable
  <2>4. QED BY <2>1, <2>2, <2>3 DEF IInv
<1>3. ASSUME NEW s \in Socket, AcceptClient(s) PROVE IInv'
  <2> USE <1>3 DEF AcceptClient
  <2>0. /\ s \notin clients /\ s \notin writing_sockets
        /\ service_clients[s] = "none" /\ writers_data[s] = None
        /\ ServiceInsert(s) = "reading"
    BY DEF IInv, RegistriesAgree, WritersRegistered, ServiceInsert
  <2>1. TypeOK'
    BY <2>0 DEF IInv, TypeOK
  <2>2. RegistriesAgree'
    BY <2>0 DEF IInv, TypeOK, RegistriesAgree, ScanOrder
  <2>3. WritersRegistered'
    BY <2>0 DEF IInv, TypeOK, WritersRegistered
  <2>4. ScanOrder'
    <3>1. \A c \in Unvisited' \cap writeset' : c # s
      BY <2>0 DEF IInv, ScanOrder, Unvisited, WritersRegistered, TypeOK
    <3>2. QED
      BY <2>0, <3>1 DEF IInv, TypeOK, ScanOrder, Unvisited, Writable
  <2>5. ResponseIntegrity'
    BY <2>0 DEF IInv, TypeOK, ResponseIntegrity, ScanOrder
  <2>6. QED BY <2>1, <2>2, <2>3, <2>4, <2>5 DEF IInv
<1>4. QED BY <1>1, <1>2, <1>3

-----------------------------------------------------------------------------
\* A client's reading turn.  Only ReadComplete changes more than the input
\* queue and the loop's locals.
LEMMA ReadPreserves == ASSUME IInv, NEW s \in Socket, Read(s) PROVE IInv'
<1> USE DEF serverVars, serviceVars, kernelVars, boundVars, Visit
<1>1. ASSUME NEW next \in {"write"} \cup Halted, Visit(s, next), UNCHANGED serviceVars,
             rcvq' \in [Socket -> Nat]
      PROVE  IInv'
  <2>1. TypeOK'
    BY <1>1 DEF IInv, TypeOK
  <2>2. RegistriesAgree' /\ ResponseIntegrity'
    BY <1>1 DEF IInv, RegistriesAgree, ResponseIntegrity
  <2>3. WritersRegistered'
    BY <1>1 DEF IInv, WritersRegistered
  <2>4. ScanOrder'
    BY <1>1 DEF IInv, TypeOK, ScanOrder, Unvisited, Writable
  <2>5. QED BY <2>1, <2>2, <2>3, <2>4 DEF IInv
<1>2. ASSUME NEW next, ReadData(s, next) PROVE rcvq' \in [Socket -> Nat]
  BY <1>2 DEF ReadData, IInv, TypeOK
<1>3. CASE ReadNothing(s) \/ ReadEof(s) \/ ReadError(s)
  BY <1>1, <1>3 DEF ReadNothing, ReadEof, ReadError, IInv, TypeOK
<1>4. CASE ReadExitByte(s) \/ ReadPartial(s) \/ ReadSpins(s) \/ ReadCrashes(s)
  <2>1. PICK next \in {"write"} \cup Halted : ReadData(s, next) /\ UNCHANGED serviceVars
    BY <1>4 DEF ReadExitByte, ReadPartial, ReadSpins, ReadCrashes
  <2>2. Visit(s, next) /\ rcvq' \in [Socket -> Nat]
    BY <1>2, <2>1 DEF ReadData
  <2>3. QED BY <1>1, <2>1, <2>2
<1>5. CASE ReadComplete(s)
  <2> USE <1>5 DEF ReadComplete, ReadData
  <2>0. s \in clients \ finished_clients /\ s \notin writing_sockets
    BY DEF IInv, ScanOrder, WritersRegistered
  <2>1. TypeOK'
    BY <1>2 DEF IInv, TypeOK
  <2>2. RegistriesAgree'
    BY DEF IInv, TypeOK, RegistriesAgree
  <2>3. WritersRegistered'
    BY <2>0 DEF IInv, TypeOK, WritersRegistered
  <2>4. ScanOrder'
    BY <2>0 DEF IInv, TypeOK, ScanOrder, Unvisited, Writable
  <2>5. ResponseIntegrity'
    BY DEF IInv, ResponseIntegrity
  <2>6. QED BY <2>1, <2>2, <2>3, <2>4, <2>5 DEF IInv
<1>6. QED BY <1>3, <1>4, <1>5 DEF Read

\* The handler's answer: nothing was ever sent on this connection, so the
\* whole buffer is free and send() takes at least one unit, or says -1 because
\* of a reset.
LEMMA RespondPreserves == ASSUME IInv, NEW n \in 1 .. MaxResponse, Respond(n) PROVE IInv'
<1> USE DEF serverVars, serviceVars, kernelVars, boundVars
<1> USE BoundAssumption
<1>0. /\ sock \in Socket /\ sock \in clients \ (finished_clients \cup todo)
      /\ sock \notin writing_sockets
      /\ writers_data[sock] = None
      /\ response_len[sock] = 0 /\ delivered[sock] = 0 /\ sndq[sock] = 0
  BY DEF Respond, IInv, TypeOK, ScanOrder, ResponseIntegrity, WritersRegistered
<1>1. PICK k \in SendResults(sock, n) :
        /\ KernelTakes(sock, k)
        /\ writers_data' = [writers_data EXCEPT ![sock] = [buf |-> k, len |-> n - k]]
  BY <1>0 DEF Respond, IInv, TypeOK
<1>2. k \in Int /\ (k = -1 \/ k \in 1 .. n) /\ (k = -1 => net[sock] = "reset")
  BY <1>0, <1>1, SendResultsRange DEF IInv
<1>3. TypeOK'
  BY <1>0, <1>1, <1>2 DEF Respond, KernelTakes, IInv, TypeOK
<1>4. RegistriesAgree'
  BY DEF Respond, IInv, RegistriesAgree
<1>5. WritersRegistered'
  BY <1>0, <1>1, <1>2, SocketAssumption DEF Respond, IInv, TypeOK, WritersRegistered
<1>6. ScanOrder'
  BY <1>0, <1>1 DEF Respond, KernelTakes, IInv, TypeOK, ScanOrder, Unvisited, Writable
<1>7. ResponseIntegrity'
  BY <1>0, <1>1, <1>2 DEF Respond, KernelTakes, IInv, TypeOK, ResponseIntegrity
<1>8. QED BY <1>3, <1>4, <1>5, <1>6, <1>7 DEF IInv

-----------------------------------------------------------------------------
\* A client's writing turn.  A socket that select() reported has its
\* WriterData, so what handle_client_write dereferences is there.
LEMMA WritePreserves == ASSUME IInv, WriteNothing \/ WriteMore \/ WriteDone PROVE IInv'
<1> USE DEF serverVars, serviceVars, kernelVars, boundVars
<1>1. CASE WriteNothing
  <2> USE <1>1 DEF WriteNothing
  <2>1. TypeOK'
    BY DEF IInv, TypeOK
  <2>2. RegistriesAgree' /\ WritersRegistered' /\ ResponseIntegrity'
    BY DEF IInv, RegistriesAgree, WritersRegistered, ResponseIntegrity
  <2>3. ScanOrder'
    BY DEF IInv, ScanOrder, Unvisited, Writable
  <2>4. QED BY <2>1, <2>2, <2>3 DEF IInv
<1>2. ASSUME pc = "write", WriteTurn
      PROVE  /\ sock \in Socket /\ sock \in clients \ (finished_clients \cup todo)
             /\ sock \in writing_sockets
             /\ writers_data[sock] \in [buf : Int, len : Int]
             /\ net[sock] = "reset" \/ sndq[sock] < SndBuf
  <2>1. sock \in clients \ (finished_clients \cup todo) /\ sock \in Socket
    BY <1>2 DEF IInv, TypeOK, ScanOrder
  <2>2. sock \in writing_sockets /\ sock \in Unvisited \cap writeset
    BY <1>2, <2>1 DEF WriteTurn, Unvisited
  <2>3. Writable(sock)
    BY <2>2 DEF IInv, ScanOrder
  <2>4. QED BY <2>1, <2>2, <2>3 DEF IInv, TypeOK, WritersRegistered, Writable
<1>3. CASE WriteMore
  <2> USE <1>3 DEF WriteMore
  <2> DEFINE wd == writers_data[sock]
  <2>1. PICK k \in SendResults(sock, wd.len) :
          /\ KernelTakes(sock, k)
          /\ writers_data' = [writers_data EXCEPT ![sock] =
                                [buf |-> wd.buf + k, len |-> wd.len - k]]
    BY <1>2 DEF IInv, TypeOK
  <2>2. k \in Int /\ (k = -1 \/ (k \in 1 .. wd.len /\ net[sock] # "reset"))
        /\ (k = -1 => net[sock] = "reset")
    BY <1>2, <2>1, SendResultsRange, BoundAssumption DEF IInv, TypeOK
  <2>3. TypeOK'
    BY <1>2, <2>1, <2>2 DEF KernelTakes, IInv, TypeOK
  <2>4. RegistriesAgree'
    BY DEF IInv, RegistriesAgree
  <2>5. WritersRegistered'
    BY <1>2, <2>1, <2>2, SocketAssumption DEF IInv, TypeOK, WritersRegistered
  <2>6. ScanOrder'
    BY <1>2, <2>1 DEF KernelTakes, IInv, TypeOK, ScanOrder, Unvisited, Writable
  <2>7. ResponseIntegrity'
    BY <1>2, <2>1, <2>2 DEF KernelTakes, IInv, TypeOK, ResponseIntegrity
  <2>8. QED BY <2>3, <2>4, <2>5, <2>6, <2>7 DEF IInv
<1>4. CASE WriteDone
  <2> USE <1>4 DEF WriteDone
  <2>1. TypeOK'
    BY <1>2 DEF IInv, TypeOK
  <2>2. RegistriesAgree'
    BY <1>2 DEF IInv, TypeOK, RegistriesAgree
  <2>3. WritersRegistered'
    BY <1>2 DEF IInv, TypeOK, WritersRegistered
  <2>4. ScanOrder'
    BY <1>2 DEF IInv, TypeOK, ScanOrder, Unvisited, Writable
  <2>5. ResponseIntegrity'
    BY <1>2, BoundAssumption DEF IInv, TypeOK, ResponseIntegrity
  <2>6. QED BY <2>1, <2>2, <2>3, <2>4, <2>5 DEF IInv
<1>5. QED BY <1>1, <1>3, <1>4

\* A process that dies in send() or in on_data_sent leaves everything as it was.
LEMMA DeathPreserves == ASSUME IInv, SendKilled \/ WriteDoneCrashes PROVE IInv'
<1> USE DEF serverVars, serviceVars, kernelVars, boundVars
<1>1. /\ pc' = "crashed" /\ pc \in {"respond", "write"}
      /\ UNCHANGED <<serverVars, serviceVars, sock, todo, serv_ready, readset, writeset,
                     kernelVars, delivered, boundVars>>
  BY DEF SendKilled, WriteDoneCrashes
<1>2. TypeOK'
  BY <1>1 DEF IInv, TypeOK
<1>3. RegistriesAgree' /\ ResponseIntegrity'
  BY <1>1 DEF IInv, RegistriesAgree, ResponseIntegrity
<1>4. WritersRegistered'
  BY <1>1 DEF IInv, WritersRegistered
<1>5. ScanOrder'
  BY <1>1 DEF IInv, ScanOrder, Unvisited, Writable
<1>6. QED BY <1>2, <1>3, <1>4, <1>5 DEF IInv

\* release_clients closes what this iteration finished, and nothing else.
LEMMA ReleasePreserves == ASSUME IInv, ReleaseClients PROVE IInv'
<1> USE DEF serverVars, serviceVars, kernelVars, boundVars, ReleaseClients
<1>1. TypeOK'
  BY DEF IInv, TypeOK
<1>2. RegistriesAgree'
  BY DEF IInv, TypeOK, RegistriesAgree
<1>3. WritersRegistered'
  BY DEF IInv, TypeOK, WritersRegistered
<1>4. ScanOrder'
  BY DEF IInv, TypeOK, ScanOrder, Unvisited
<1>5. ResponseIntegrity'
  BY DEF IInv, TypeOK, ResponseIntegrity
<1>6. QED BY <1>1, <1>2, <1>3, <1>4, <1>5 DEF IInv

\* Peers move the kernel's sockets between any two steps of the loop: they
\* never close a descriptor, fill a send buffer or leave the reset state.
LEMMA PeerPreserves == ASSUME IInv, Peer PROVE IInv'
<1> USE DEF serverVars, serviceVars, loopVars, kernelVars, boundVars, PeerFrame
<1>1. TypeOK'
  BY DEF IInv, TypeOK, Peer, PeerConnects, PeerAborts, PeerSends, PeerReads,
         PeerCloses, PeerResets
<1>2. \A s \in Socket :
        /\ net'[s] = "closed" <=> net[s] = "closed"
        /\ net[s] = "reset" => net'[s] = "reset"
        /\ sndq'[s] <= sndq[s]
  BY DEF IInv, TypeOK, Peer, PeerConnects, PeerAborts, PeerSends, PeerReads,
         PeerCloses, PeerResets
<1>3. UNCHANGED <<serverVars, serviceVars, loopVars, delivered>>
  BY DEF Peer, PeerConnects, PeerAborts, PeerSends, PeerReads, PeerCloses, PeerResets
<1>4. RegistriesAgree' /\ WritersRegistered'
  BY <1>2, <1>3 DEF IInv, RegistriesAgree, WritersRegistered
<1>5. ScanOrder'
  BY <1>1, <1>2, <1>3, BoundAssumption DEF IInv, TypeOK, ScanOrder, Unvisited, Writable
<1>6. ResponseIntegrity'
  BY <1>1, <1>2, <1>3 DEF IInv, TypeOK, ResponseIntegrity
<1>7. QED BY <1>1, <1>4, <1>5, <1>6 DEF IInv

\* Every step of the server and of the peers preserves the invariant.
LEMMA NextPreservesIInv == IInv /\ [Next]_vars => IInv'
<1> SUFFICES ASSUME IInv, [Next]_vars PROVE IInv'
  OBVIOUS
<1>1. CASE Server
  BY <1>1, SelectPreserves, DeathPreserves, AcceptPreserves, ReadPreserves, RespondPreserves,
     WritePreserves, ReleasePreserves DEF Server
<1>2. CASE Peer
  BY <1>2, PeerPreserves
<1>3. CASE UNCHANGED vars
  BY <1>3 DEF vars, serverVars, serviceVars, loopVars, kernelVars, boundVars,
     IInv, TypeOK, RegistriesAgree, WritersRegistered, ScanOrder, Unvisited, Writable,
     ResponseIntegrity
<1>4. QED BY <1>1, <1>2, <1>3 DEF Next

-----------------------------------------------------------------------------
\* The select loop keeps its registries, writers and responses in step for any
\* number of descriptors, connections, chunks and response units.
THEOREM InvariantHolds == Spec => []IInv
BY InitEstablishesIInv, NextPreservesIInv, PTL DEF Spec

\* The variables of the loop, the service and the kernel keep their types.
THEOREM TypeCorrect == Spec => []TypeOK
BY InvariantHolds, PTL DEF IInv

\* No open connection is without its RST_Client, and the loop's set names no
\* closed descriptor, at any moment of any iteration.
THEOREM RegistriesAlwaysAgree == Spec => []RegistriesAgree
BY InvariantHolds, PTL DEF IInv

\* handle_client_write always finds the WriterData it follows.
THEOREM WritersAlwaysRegistered == Spec => []WritersRegistered
BY InvariantHolds, PTL DEF IInv

\* The snapshot that select() returned is still good at every client's turn.
THEOREM ScanAlwaysInOrder == Spec => []ScanOrder
BY InvariantHolds, PTL DEF IInv

\* Nothing of a response is lost or sent twice on a connection that lives, and
\* nothing is left to send on one that is about to be closed.
THEOREM ResponsesIntact == Spec => []ResponseIntegrity
BY InvariantHolds, PTL DEF IInv

-----------------------------------------------------------------------------
\* A client that closed before its request was complete is never released: no
\* branch of handle_client_read or handle_client_write applies to it.
THEOREM AbandonedStays == Spec => AbandonedForever
<1>1. ASSUME IInv, [Next]_vars, NEW s \in Socket, Abandoned(s)
      PROVE  Abandoned(s)' \/ net'[s] = "reset"
  <2> USE <1>1 DEF Abandoned, serverVars, serviceVars, loopVars, kernelVars, boundVars
  <2>0. s \notin finished_clients /\ s \notin writing_sockets /\ (pc = "respond" => sock # s)
    BY DEF IInv, RegistriesAgree, WritersRegistered
  <2>1. CASE SelectReturns \/ SelectFails \/ SendKilled \/ WriteDoneCrashes
    BY <2>1 DEF SelectReturns, SelectFails, SendKilled, WriteDoneCrashes
  <2>2. CASE AcceptFails \/ NoAccept \/ \E c \in Socket : AcceptClient(c)
    BY <2>2 DEF AcceptFails, NoAccept, AcceptClient, StartScan, IInv, TypeOK
  <2>3. CASE \E c \in Socket : Read(c)
    BY <2>3 DEF Read, ReadNothing, ReadEof, ReadError, ReadExitByte, ReadPartial,
       ReadComplete, ReadSpins, ReadCrashes, ReadData, Visit, IInv, TypeOK
  <2>4. CASE \E n \in 1 .. MaxResponse : Respond(n)
    BY <2>4 DEF Respond
  <2>5. CASE WriteNothing \/ WriteMore \/ WriteDone
    BY <2>0, <2>5 DEF WriteNothing, WriteMore, WriteDone, WriteTurn, IInv, TypeOK
  <2>6. CASE ReleaseClients
    BY <2>0, <2>6 DEF ReleaseClients, IInv, TypeOK
  <2>7. CASE Peer
    BY <2>7 DEF Peer, PeerConnects, PeerAborts, PeerSends, PeerReads, PeerCloses,
       PeerResets, PeerFrame, IInv, TypeOK
  <2>8. CASE UNCHANGED vars
    BY <2>8 DEF vars
  <2>9. QED
    BY <2>1, <2>2, <2>3, <2>4, <2>5, <2>6, <2>7, <2>8 DEF Next, Server
<1>2. IInv /\ [Next]_vars =>
        [\A s \in Socket : Abandoned(s) => Abandoned(s)' \/ net'[s] = "reset"]_vars
  BY <1>1
<1>3. QED BY <1>2, InvariantHolds, PTL DEF Spec, AbandonedForever

-----------------------------------------------------------------------------
(***************************************************************************)
(* The refinement.  A step of the loop maps to a step of the contract for  *)
(* the socket it works on, or to a stutter.                                *)
(***************************************************************************)

\* accept() opens a connection.
LEMMA OpenRefines ==
  ASSUME IInv, NEW s \in Socket, AcceptClient(s) PROVE Contract!Open(s)
BY DEF AcceptClient, StartScan, Contract!Open, IInv, TypeOK,
       upBar, phaseBar, totalBar, sentBar

\* The handler's response is the one answer of its connection.
LEMMA AnswerRefines ==
  ASSUME IInv, NEW n \in 1 .. MaxResponse, Respond(n) PROVE Contract!Answer(sock)
<1> USE BoundAssumption DEF serverVars, serviceVars, kernelVars, boundVars
<1>1. /\ sock \in Socket /\ net[sock] # "closed"
      /\ response_len[sock] = 0 /\ delivered[sock] = 0 /\ sndq[sock] = 0
  BY DEF Respond, IInv, TypeOK, RegistriesAgree, ScanOrder, ResponseIntegrity
<1>2. PICK k \in SendResults(sock, n) : KernelTakes(sock, k)
  BY DEF Respond
<1>3. k \in Int /\ (k = -1 \/ k \in 1 .. n)
  BY <1>1, <1>2, SendResultsRange DEF IInv
<1> DEFINE j == IF k > 0 THEN delivered[sock] + k ELSE delivered[sock]
<1>4. j \in 0 .. n
  <2>1. n \in Nat
    OBVIOUS
  <2>2. QED BY <1>1, <1>3, <2>1
<1>5. delivered' = [delivered EXCEPT ![sock] = j]
  BY <1>2 DEF KernelTakes
<1> HIDE DEF j
<1>6. upBar /\ upBar'
  BY DEF Respond, upBar
<1>7. phaseBar[sock] = "reading" /\ phaseBar' = [phaseBar EXCEPT ![sock] = "answering"]
  <2>1. /\ net' = net /\ response_len' = [response_len EXCEPT ![sock] = n] /\ n # 0
        /\ response_len \in [Socket -> Nat]
    BY DEF Respond, IInv, TypeOK
  <2>2. phaseBar[sock] = "reading"
    BY <1>1 DEF phaseBar
  <2>3. phaseBar' = [s \in Socket |-> IF s = sock THEN "answering" ELSE phaseBar[s]]
    BY <1>1, <2>1 DEF phaseBar
  <2>4. phaseBar = [s \in Socket |-> phaseBar[s]]
    BY DEF phaseBar
  <2>5. QED BY <1>1, <2>2, <2>3, <2>4
<1>8. totalBar' = [totalBar EXCEPT ![sock] = n]
  BY <1>1 DEF Respond, IInv, TypeOK, totalBar
<1>9. sentBar' = [sentBar EXCEPT ![sock] = j]
  BY <1>1, <1>5 DEF Respond, IInv, TypeOK, sentBar
<1>10. QED BY <1>4, <1>6, <1>7, <1>8, <1>9 DEF Contract!Answer

\* handle_client_write sends on, or stutters when send() said -1.
LEMMA TransmitRefines ==
  ASSUME IInv, WriteMore PROVE Contract!Transmit(sock) \/ UNCHANGED Contract!vars
<1> USE BoundAssumption DEF serverVars, serviceVars, kernelVars, boundVars
<1> DEFINE wd == writers_data[sock]
<1>1. /\ sock \in Socket /\ sock \in clients /\ sock \in writing_sockets
      /\ net[sock] # "closed" /\ wd.len > 0 /\ wd \in [buf : Int, len : Int]
  BY DEF WriteMore, WriteTurn, IInv, TypeOK, RegistriesAgree, WritersRegistered, ScanOrder
<1>2. PICK k \in SendResults(sock, wd.len) : KernelTakes(sock, k)
  BY DEF WriteMore
<1>3. k \in Int /\ (k = -1 \/ (k \in 1 .. wd.len /\ net[sock] # "reset"))
  BY <1>1, <1>2, SendResultsRange DEF IInv
<1>4. upBar /\ upBar'
  BY DEF WriteMore, upBar
<1>5. phaseBar[sock] = "answering" /\ phaseBar' = phaseBar /\ totalBar' = totalBar
  BY <1>1 DEF WriteMore, IInv, TypeOK, ResponseIntegrity, phaseBar, totalBar
<1>6. CASE k = -1
  <2>1. sentBar' = sentBar
    BY <1>2, <1>6 DEF WriteMore, KernelTakes, IInv, TypeOK, sentBar
  <2>2. QED BY <1>4, <1>5, <2>1 DEF Contract!vars
<1>7. CASE k \in 1 .. wd.len /\ net[sock] # "reset"
  <2>1. k \in 1 .. totalBar[sock] - sentBar[sock]
    BY <1>1, <1>7 DEF IInv, TypeOK, ResponseIntegrity, totalBar, sentBar
  <2>2. sentBar' = [sentBar EXCEPT ![sock] = @ + k]
    <3>1. net' = net /\ delivered \in [Socket -> Nat]
      BY DEF WriteMore, IInv, TypeOK
    <3>2. delivered' = [delivered EXCEPT ![sock] = delivered[sock] + k]
      <4>1. delivered' = [delivered EXCEPT ![sock] = IF k > 0 THEN delivered[sock] + k
                                                     ELSE delivered[sock]]
        BY <1>2 DEF KernelTakes
      <4>2. k > 0
        BY <1>1, <1>3, <1>7
      <4>3. QED BY <4>1, <4>2
    <3>3. QED BY <1>1, <3>1, <3>2 DEF sentBar
  <2>3. QED BY <1>4, <1>5, <2>1, <2>2 DEF Contract!Transmit
<1>8. QED BY <1>3, <1>6, <1>7

\* release_clients closes connections whose whole answer is out.
LEMMA CloseRefines ==
  ASSUME IInv, ReleaseClients PROVE Contract!Close(finished_clients \cap clients)
<1> USE DEF serverVars, serviceVars, kernelVars, boundVars, ReleaseClients
<1>1. upBar /\ upBar'
  BY DEF upBar
<1>2. ASSUME NEW s \in finished_clients \cap clients
      PROVE  phaseBar[s] = "answering" /\ sentBar[s] = totalBar[s]
  BY DEF IInv, TypeOK, RegistriesAgree, ResponseIntegrity, phaseBar, sentBar, totalBar
<1>3. \A s \in Socket : s \in clients <=> net[s] # "closed"
  BY DEF IInv, RegistriesAgree
<1>4. phaseBar' = [s \in Socket |-> IF s \in finished_clients \cap clients THEN "free"
                                   ELSE phaseBar[s]]
  BY <1>3 DEF IInv, TypeOK, phaseBar
<1>5. totalBar' = [s \in Socket |-> IF s \in finished_clients \cap clients THEN 0
                                   ELSE totalBar[s]]
  BY <1>3 DEF IInv, TypeOK, totalBar
<1>6. sentBar' = [s \in Socket |-> IF s \in finished_clients \cap clients THEN 0
                                  ELSE sentBar[s]]
  BY <1>3 DEF IInv, TypeOK, sentBar
<1>7. QED BY <1>1, <1>2, <1>4, <1>5, <1>6 DEF Contract!Close

\* A step that leaves descriptors open or closed as they were and neither
\* builds nor sends anything is a stutter, or takes the server down.
LEMMA QuietRefines ==
  ASSUME IInv, response_len' = response_len, delivered' = delivered,
         net' \in [Socket -> {"closed", "open", "eof", "reset"}],
         \A s \in Socket : net'[s] = "closed" <=> net[s] = "closed",
         pc \notin Halted \/ pc' = pc
  PROVE  Contract!GoesDown \/ UNCHANGED Contract!vars
<1>1. phaseBar' = phaseBar /\ totalBar' = totalBar /\ sentBar' = sentBar
  BY DEF IInv, TypeOK, phaseBar, totalBar, sentBar
<1>2. CASE pc \notin Halted /\ pc' \in Halted
  <2>1. upBar = TRUE /\ upBar' = FALSE
    BY <1>2 DEF upBar
  <2>2. QED BY <1>1, <2>1 DEF Contract!GoesDown
<1>3. CASE pc' = pc \/ (pc \notin Halted /\ pc' \notin Halted)
  <2>1. upBar' = upBar
    BY <1>3 DEF upBar
  <2>2. QED BY <1>1, <2>1 DEF Contract!vars
<1>4. QED BY <1>2, <1>3

\* The compiled select loop implements the contract of the service.
THEOREM LoopImplementsContract == Spec => ImplementsContract
<1>1. Init => Contract!Init
  BY DEF Init, Contract!Init, upBar, phaseBar, totalBar, sentBar
<1>2. IInv /\ [Next]_vars => [Contract!Next]_(Contract!vars)
  <2> SUFFICES ASSUME IInv, [Next]_vars PROVE Contract!Next \/ UNCHANGED Contract!vars
    OBVIOUS
  <2> USE DEF serverVars, serviceVars, loopVars, kernelVars, boundVars
  <2>0. net \in [Socket -> {"closed", "open", "eof", "reset"}] /\ sock \in Socket \cup {SERV_SOCK}
    BY DEF IInv, TypeOK
  <2>1. CASE SelectReturns \/ SelectFails \/ AcceptFails \/ NoAccept
    <3>1. Contract!GoesDown \/ UNCHANGED Contract!vars
      BY <2>0, <2>1, QuietRefines
         DEF SelectReturns, SelectFails, AcceptFails, NoAccept, StartScan
    <3>2. QED BY <3>1 DEF Contract!Next
  <2>2. CASE \E s \in Socket : AcceptClient(s)
    BY <2>2, OpenRefines DEF Contract!Next
  <2>3. CASE \E s \in Socket : Read(s)
    <3>1. Contract!GoesDown \/ UNCHANGED Contract!vars
      BY <2>0, <2>3, QuietRefines
         DEF Read, ReadNothing, ReadEof, ReadError, ReadExitByte, ReadPartial,
             ReadComplete, ReadSpins, ReadCrashes, ReadData, Visit
    <3>2. QED BY <3>1 DEF Contract!Next
  <2>4. CASE \E n \in 1 .. MaxResponse : Respond(n)
    <3>1. sock \in Socket
      BY <2>4 DEF Respond, IInv, TypeOK, ScanOrder
    <3>2. QED BY <2>4, <3>1, AnswerRefines DEF Contract!Next
  <2>5. CASE WriteNothing \/ WriteDone \/ WriteDoneCrashes \/ SendKilled
    <3>1. Contract!GoesDown \/ UNCHANGED Contract!vars
      BY <2>0, <2>5, QuietRefines DEF WriteNothing, WriteDone, WriteDoneCrashes, SendKilled
    <3>2. QED BY <3>1 DEF Contract!Next
  <2>6. CASE WriteMore
    <3>1. sock \in Socket
      BY <2>6 DEF WriteMore, IInv, TypeOK, ScanOrder
    <3>2. QED BY <2>6, <3>1, TransmitRefines DEF Contract!Next
  <2>7. CASE ReleaseClients
    <3>1. finished_clients \cap clients \in SUBSET Socket
      BY DEF IInv, TypeOK
    <3>2. QED BY <2>7, <3>1, CloseRefines DEF Contract!Next
  <2>8. CASE Peer
    <3>1. \A s \in Socket : net'[s] = "closed" <=> net[s] = "closed"
      BY <2>0, <2>8 DEF Peer, PeerConnects, PeerAborts, PeerSends, PeerReads, PeerCloses,
         PeerResets
    <3>2. /\ net' \in [Socket -> {"closed", "open", "eof", "reset"}]
          /\ response_len' = response_len /\ delivered' = delivered /\ pc' = pc
      BY <2>0, <2>8 DEF Peer, PeerConnects, PeerAborts, PeerSends, PeerReads, PeerCloses,
         PeerResets, PeerFrame
    <3>3. Contract!GoesDown \/ UNCHANGED Contract!vars
      BY <3>1, <3>2, QuietRefines
    <3>4. QED BY <3>3 DEF Contract!Next
  <2>9. CASE UNCHANGED vars
    <3>1. Contract!GoesDown \/ UNCHANGED Contract!vars
      BY <2>0, <2>9, QuietRefines DEF vars
    <3>2. QED BY <3>1 DEF Contract!Next
  <2>10. QED
    BY <2>1, <2>2, <2>3, <2>4, <2>5, <2>6, <2>7, <2>8, <2>9 DEF Next, Server
<1>3. QED
  BY <1>1, <1>2, InvariantHolds, PTL DEF Spec, Contract!Spec, ImplementsContract
=============================================================================
