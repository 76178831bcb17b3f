----------------------------- MODULE TcpServer -----------------------------
(***************************************************************************)
(* The select() loop of librestserver (tcpserver.c, the THREAD_FOR_HANDLER *)
(* half, which is the one that is compiled) together with the callbacks    *)
(* the service hangs on it (service.c) and the life of an RST_Client       *)
(* (rstclient.c).  With NO_THREADING, as rstclient.c defines it, a request *)
(* handler runs inside the loop, so there is one server thread; the        *)
(* interleaving is between that thread and the peers, whose packets move   *)
(* the kernel's sockets between any two system calls of the loop.          *)
(*                                                                         *)
(* What a chunk of data makes the request parser do is chosen freely here  *)
(* (Read... actions); module RequestParser models it.                      *)
(***************************************************************************)
EXTENDS Integers

CONSTANTS
  Socket,        \* descriptors accept() can return
  SERV_SOCK,     \* the listening descriptor
  None,          \* no entry in a map
  Backlog,       \* listen(serv_sock, max_connections)
  SndBuf,        \* room in a socket's send buffer, in units of response data
  MaxResponse,   \* bound: units in the longest response
  MaxConn,       \* bound: connections opened by all peers together
  MaxChunk       \* bound: chunks a peer sends on one connection

ASSUME SocketAssumption ==
  /\ Socket \subseteq Nat
  /\ SERV_SOCK \in Nat \ Socket
  /\ None \notin [buf : Int, len : Int]

ASSUME BoundAssumption ==
  /\ Backlog \in Nat \ {0}
  /\ SndBuf \in Nat \ {0}
  /\ MaxResponse \in Nat \ {0}
  /\ MaxConn \in Nat
  /\ MaxChunk \in Nat

VARIABLES
  \* RST_SelectTcpServer.  RST_Set and RST_Vector are used as sets: the loop
  \* visits every element once, in an order nothing depends on.
  clients,           \* accepted sockets
  finished_clients,  \* sockets to close at the end of this iteration
  writing_sockets,   \* sockets with a response under way
  writers_data,      \* socket -> WriterData [buf, len], buf as an offset
  \* RST_Service.clients, socket -> RST_Client, and what the loop needs of it
  service_clients,   \* "none", or the parser's phase: "reading", "finished"
  response_len,      \* length of client->response_buffer, 0 before there is one
  \* locals of RST_selecttcpserver_server_loop
  pc,                \* where the loop is
  sock,              \* the socket whose loop body is being executed
  todo,              \* clients the scan has still to visit
  serv_ready,        \* FD_ISSET(serv_sock, &readset)
  readset, writeset, \* the client sockets select() left in the two sets
  \* the kernel
  backlog,           \* connections waiting for accept()
  net,               \* descriptor: "closed", "open", "eof" or "reset"
  rcvq,              \* chunks received and not yet read
  sndq,              \* units sent and not yet taken by the peer
  \* history and bounds
  delivered,         \* units of the response the kernel has accepted
  conns,             \* connections opened so far
  chunks             \* chunks sent so far on the connection

serverVars  == <<clients, finished_clients, writing_sockets, writers_data>>
serviceVars == <<service_clients, response_len>>
loopVars    == <<pc, sock, todo, serv_ready, readset, writeset>>
kernelVars  == <<backlog, net, rcvq, sndq>>
boundVars   == <<conns, chunks>>
vars == <<serverVars, serviceVars, loopVars, kernelVars, delivered, boundVars>>

\* Where the loop can end: it returned; it never comes back from the parser;
\* recv()'s assertion failed; the process died in a handler, in the service's
\* callbacks or by a signal; it called exit(0).
Halted == {"stopped", "spinning", "aborted", "crashed", "exited"}

TypeOK ==
  /\ clients \in SUBSET Socket
  /\ finished_clients \in SUBSET Socket
  /\ writing_sockets \in SUBSET Socket
  /\ writers_data \in [Socket -> [buf : Int, len : Int] \cup {None}]
  /\ service_clients \in [Socket -> {"none", "reading", "finished"}]
  /\ response_len \in [Socket -> Nat]
  /\ pc \in {"select", "accept", "scan", "respond", "write"} \cup Halted
  /\ sock \in Socket \cup {SERV_SOCK}
  /\ todo \in SUBSET Socket
  /\ serv_ready \in BOOLEAN
  /\ readset \in SUBSET Socket
  /\ writeset \in SUBSET Socket
  /\ backlog \in Nat
  /\ net \in [Socket -> {"closed", "open", "eof", "reset"}]
  /\ rcvq \in [Socket -> Nat]
  /\ sndq \in [Socket -> Nat]
  /\ delivered \in [Socket -> Nat]
  /\ conns \in Nat
  /\ chunks \in [Socket -> Nat]

(***************************************************************************)
(* RST_selecttcpserver_init and _start: empty registries, a listening      *)
(* socket.                                                                 *)
(***************************************************************************)
Init ==
  /\ clients = {}
  /\ finished_clients = {}
  /\ writing_sockets = {}
  /\ writers_data = [s \in Socket |-> None]
  /\ service_clients = [s \in Socket |-> "none"]
  /\ response_len = [s \in Socket |-> 0]
  /\ pc = "select"
  /\ sock = SERV_SOCK
  /\ todo = {}
  /\ serv_ready = FALSE
  /\ readset = {}
  /\ writeset = {}
  /\ backlog = 0
  /\ net = [s \in Socket |-> "closed"]
  /\ rcvq = [s \in Socket |-> 0]
  /\ sndq = [s \in Socket |-> 0]
  /\ delivered = [s \in Socket |-> 0]
  /\ conns = 0
  /\ chunks = [s \in Socket |-> 0]

-----------------------------------------------------------------------------
(***************************************************************************)
(* select().  Only descriptors up to mx are looked at; a watched           *)
(* descriptor that is not open makes the call fail with EBADF.             *)
(***************************************************************************)
Watched(s) == s <= SERV_SOCK \/ \E c \in clients : s <= c

Readable(s) == rcvq[s] > 0 \/ net[s] \in {"eof", "reset"}
Writable(s) == sndq[s] < SndBuf \/ net[s] = "reset"

ReadReady  == {s \in clients : Watched(s) /\ Readable(s)}
WriteReady == {s \in writing_sockets : Watched(s) /\ Writable(s)}

BadDescriptor == \E s \in clients \cup writing_sockets : Watched(s) /\ net[s] = "closed"

SelectReturns ==
  /\ pc = "select"
  /\ ~BadDescriptor
  /\ backlog > 0 \/ ReadReady # {} \/ WriteReady # {}
  /\ serv_ready' = (backlog > 0)
  /\ readset' = ReadReady
  /\ writeset' = WriteReady
  /\ pc' = "accept"
  /\ UNCHANGED <<serverVars, serviceVars, sock, todo, kernelVars, delivered, boundVars>>

\* Nothing became ready within 120 seconds, or the call failed: both make
\* RST_ERROR return from the loop, and the server is gone.
SelectFails ==
  /\ pc = "select"
  /\ BadDescriptor \/ (backlog = 0 /\ ReadReady = {} /\ WriteReady = {})
  /\ pc' = "stopped"
  /\ UNCHANGED <<serverVars, serviceVars, sock, todo, serv_ready, readset, writeset,
                 kernelVars, delivered, boundVars>>

-----------------------------------------------------------------------------
(***************************************************************************)
(* accept(), one connection per iteration, and then the start of the scan: *)
(* the finished list of the previous iteration is cleared.                 *)
(***************************************************************************)
StartScanKeepsFinished(cs) ==   \* mutant: RST_vector_clear forgotten
  /\ UNCHANGED finished_clients
  /\ todo' = cs
  /\ pc' = "scan"

StartScan(cs) ==
  /\ finished_clients' = {}
  /\ todo' = cs
  /\ pc' = "scan"

\* RST_map_insert keeps the entry that is there.
ServiceInsert(s) == IF service_clients[s] = "none" THEN "reading" ELSE service_clients[s]

AcceptClient(s) ==
  /\ pc = "accept"
  /\ serv_ready
  /\ backlog > 0
  /\ net[s] = "closed"
  /\ backlog' = backlog - 1
  /\ net' = [net EXCEPT ![s] = "open"]
  /\ rcvq' = [rcvq EXCEPT ![s] = 0]
  /\ sndq' = [sndq EXCEPT ![s] = 0]
  /\ delivered' = [delivered EXCEPT ![s] = 0]
  /\ chunks' = [chunks EXCEPT ![s] = 0]
  /\ clients' = clients \cup {s}
  /\ service_clients' = [service_clients EXCEPT ![s] = ServiceInsert(s)]
  /\ response_len' = [response_len EXCEPT ![s] = 0]
  /\ StartScan(clients')
  /\ UNCHANGED <<writing_sockets, writers_data, sock, serv_ready, readset, writeset, conns>>

\* The connection went away between select() and accept(), or there is no
\* descriptor left: RST_ERROR again ends the loop.
AcceptFails ==
  /\ pc = "accept"
  /\ serv_ready
  /\ backlog = 0 \/ \A s \in Socket : net[s] # "closed"
  /\ pc' = "stopped"
  /\ UNCHANGED <<serverVars, serviceVars, sock, todo, serv_ready, readset, writeset,
                 kernelVars, delivered, boundVars>>

NoAccept ==
  /\ pc = "accept"
  /\ ~serv_ready
  /\ StartScan(clients)
  /\ UNCHANGED <<clients, writing_sockets, writers_data, serviceVars, sock, serv_ready,
                 readset, writeset, kernelVars, delivered, boundVars>>

-----------------------------------------------------------------------------
(***************************************************************************)
(* RST_selecttcpserver_handle_client_read for the next client s.  It       *)
(* always reports 0, so the assertion behind it never sees a release.      *)
(***************************************************************************)
Visit(s, next) ==
  /\ pc = "scan"
  /\ s \in todo
  /\ todo' = todo \ {s}
  /\ sock' = s
  /\ pc' = next
  /\ UNCHANGED <<serverVars, serv_ready, readset, writeset, backlog, net, sndq,
                 delivered, boundVars>>

ReadNothing(s) ==
  /\ s \notin readset
  /\ Visit(s, "write")
  /\ UNCHANGED <<serviceVars, rcvq>>

ReadEofReleases(s) ==   \* mutant: end of file reported as a release
  /\ pc = "scan" /\ s \in todo /\ s \in readset
  /\ rcvq[s] = 0 /\ net[s] = "eof"
  /\ finished_clients' = finished_clients \cup {s}
  /\ todo' = todo \ {s}
  /\ UNCHANGED <<clients, writing_sockets, writers_data, serviceVars, pc, sock, serv_ready,
                 readset, writeset, kernelVars, delivered, boundVars>>

\* recv() returned 0: the peer has closed its side.  Nothing is released.
ReadEof(s) ==
  /\ s \in readset
  /\ rcvq[s] = 0 /\ net[s] = "eof"
  /\ Visit(s, "write")
  /\ UNCHANGED <<serviceVars, rcvq>>

\* recv() returned -1: assert(bytes_read >= 0) fails.
ReadError(s) ==
  /\ s \in readset
  /\ net[s] = "reset"
  /\ Visit(s, "aborted")
  /\ UNCHANGED <<serviceVars, rcvq>>

\* recv() returned data, handed to RST_service_on_data_received.
ReadData(s, next) ==
  /\ s \in readset
  /\ rcvq[s] > 0 /\ net[s] # "reset"
  /\ rcvq' = [rcvq EXCEPT ![s] = @ - 1]
  /\ Visit(s, next)

\* The first byte of the chunk is 0x7C: exit(0).
ReadExitByte(s) ==
  /\ service_clients[s] # "none"
  /\ ReadData(s, "exited")
  /\ UNCHANGED serviceVars

\* The parser wants more, or has met a bad request line and dropped out.
ReadPartial(s) ==
  /\ service_clients[s] = "reading"
  /\ ReadData(s, "write")
  /\ UNCHANGED serviceVars

\* The parser calls on_message_complete, which runs the request handler.
ReadComplete(s) ==
  /\ service_clients[s] = "reading"
  /\ ReadData(s, "respond")
  /\ service_clients' = [service_clients EXCEPT ![s] = "finished"]
  /\ UNCHANGED response_len

\* The parser's loop never ends: a body that is not all there, or data after
\* a finished message, for which the switch over the states has no case.
ReadSpins(s) ==
  /\ service_clients[s] \in {"reading", "finished"}
  /\ ReadData(s, "spinning")
  /\ UNCHANGED serviceVars

\* A null pointer is followed or an assertion fails on the way: no RST_Client
\* for the socket, a header value before any header field, a parameter without
\* "=" among several, a generic handler that was never published, or a response
\* that has no status message.
ReadCrashes(s) ==
  /\ service_clients[s] # "finished"
  /\ ReadData(s, "crashed")
  /\ UNCHANGED serviceVars

-----------------------------------------------------------------------------
(***************************************************************************)
(* send() on a non-blocking socket: what it can return for n units.        *)
(***************************************************************************)
SendResults(s, n) ==
  IF net[s] = "reset" \/ sndq[s] >= SndBuf
    THEN {-1}
    ELSE {k \in 1 .. n : k <= SndBuf - sndq[s]}

KernelTakes(s, k) ==
  /\ sndq' = [sndq EXCEPT ![s] = IF k > 0 THEN @ + k ELSE @]
  /\ delivered' = [delivered EXCEPT ![s] = IF k > 0 THEN @ + k ELSE @]

\* RST_client_send_sb_async: RST_selecttcpserver_send of the n units of the
\* response buffer.  RST_map_insert keeps an entry that is there.
Respond(n) ==
  /\ pc = "respond"
  /\ response_len' = [response_len EXCEPT ![sock] = n]
  /\ writing_sockets' = writing_sockets \cup {sock}
  /\ \E sentnow \in SendResults(sock, n) :
       /\ KernelTakes(sock, sentnow)
       /\ writers_data' = [writers_data EXCEPT ![sock] =
                             IF @ = None THEN [buf |-> sentnow, len |-> n - sentnow]
                                         ELSE @]
  /\ pc' = "write"
  /\ UNCHANGED <<clients, finished_clients, service_clients, sock, todo, serv_ready,
                 readset, writeset, backlog, net, rcvq, boundVars>>

-----------------------------------------------------------------------------
(***************************************************************************)
(* RST_selecttcpserver_handle_client_write for the client just read from.  *)
(***************************************************************************)
WriteTurn == sock \in writeset /\ sock \in writing_sockets

AllSentButOne == writers_data[sock].len <= 1   \* mutant: off by one

AllSent == writers_data[sock].len <= 0

AdvanceLenOnly(wd, k) == [buf |-> wd.buf, len |-> wd.len - k]   \* mutant: same data again

Advance(wd, k) == [buf |-> wd.buf + k, len |-> wd.len - k]

WriteNothing ==
  /\ pc = "write"
  /\ ~WriteTurn
  /\ pc' = "scan"
  /\ UNCHANGED <<serverVars, serviceVars, sock, todo, serv_ready, readset, writeset,
                 kernelVars, delivered, boundVars>>

WriteMore ==
  /\ pc = "write"
  /\ WriteTurn
  /\ ~AllSent
  /\ \E sentnow \in SendResults(sock, writers_data[sock].len) :
       /\ KernelTakes(sock, sentnow)
       /\ writers_data' = [writers_data EXCEPT ![sock] =
                             Advance(@, sentnow)]
  /\ pc' = "scan"
  /\ UNCHANGED <<clients, finished_clients, writing_sockets, serviceVars, sock, todo,
                 serv_ready, readset, writeset, backlog, net, rcvq, boundVars>>

\* A reset is reported once, by -1; a further send() raises SIGPIPE, and so does
\* the first when the peer had closed its side before.  Nothing ignores the
\* signal, and the process dies.
SendKilled ==
  /\ pc = "respond" \/ (pc = "write" /\ WriteTurn /\ ~AllSent)
  /\ net[sock] = "reset"
  /\ pc' = "crashed"
  /\ UNCHANGED <<serverVars, serviceVars, sock, todo, serv_ready, readset, writeset,
                 kernelVars, delivered, boundVars>>

OnDataSentKeepsClient == UNCHANGED service_clients   \* mutant: no RST_map_erase

\* RST_service_on_data_sent; upgrade_websocket is never set, so it reports 1.
OnDataSent == service_clients' = [service_clients EXCEPT ![sock] = "none"]

EraseWriterKeepsData ==   \* mutant: writers_data not erased
  /\ writing_sockets' = writing_sockets \ {sock}
  /\ UNCHANGED writers_data

EraseWriter ==
  /\ writing_sockets' = writing_sockets \ {sock}
  /\ writers_data' = [writers_data EXCEPT ![sock] = None]

ReleaseClientForgotten == UNCHANGED finished_clients   \* mutant

\* RST_selecttcpserver_release_client
ReleaseClient == finished_clients' = finished_clients \cup {sock}

\* All sent: the service drops the client, the loop drops the writer and
\* marks the socket for closing.
WriteDone ==
  /\ pc = "write"
  /\ WriteTurn
  /\ AllSent
  /\ OnDataSent
  /\ EraseWriter
  /\ ReleaseClient
  /\ pc' = "scan"
  /\ UNCHANGED <<clients, response_len, sock, todo, serv_ready, readset, writeset,
                 kernelVars, delivered, boundVars>>

\* on_data_sent releases the client, and RST_free's assertion fails for a
\* parameter of the request that has no name.
WriteDoneCrashes ==
  /\ pc = "write"
  /\ WriteTurn
  /\ AllSent
  /\ pc' = "crashed"
  /\ UNCHANGED <<serverVars, serviceVars, sock, todo, serv_ready, readset, writeset,
                 kernelVars, delivered, boundVars>>

\* RST_selecttcpserver_release_clients, and back to the top of the loop.
ReleaseClients ==
  /\ pc = "scan"
  /\ todo = {}
  /\ net' = [s \in Socket |-> IF s \in finished_clients THEN "closed" ELSE net[s]]
  /\ rcvq' = [s \in Socket |-> IF s \in finished_clients THEN 0 ELSE rcvq[s]]
  /\ sndq' = [s \in Socket |-> IF s \in finished_clients THEN 0 ELSE sndq[s]]
  /\ clients' = clients \ finished_clients
  /\ pc' = "select"
  /\ UNCHANGED <<finished_clients, writing_sockets, writers_data, serviceVars, sock,
                 todo, serv_ready, readset, writeset, backlog, delivered, boundVars>>

-----------------------------------------------------------------------------
(***************************************************************************)
(* The peers and the network.                                              *)
(***************************************************************************)
PeerFrame == UNCHANGED <<serverVars, serviceVars, loopVars, delivered>>

PeerConnects ==
  /\ backlog < Backlog
  /\ conns < MaxConn
  /\ backlog' = backlog + 1
  /\ conns' = conns + 1
  /\ PeerFrame /\ UNCHANGED <<net, rcvq, sndq, chunks>>

\* A connection is torn down before the server accepts it.
PeerAborts ==
  /\ backlog > 0
  /\ backlog' = backlog - 1
  /\ PeerFrame /\ UNCHANGED <<net, rcvq, sndq, boundVars>>

PeerSends(s) ==
  /\ net[s] = "open"
  /\ chunks[s] < MaxChunk
  /\ rcvq' = [rcvq EXCEPT ![s] = @ + 1]
  /\ chunks' = [chunks EXCEPT ![s] = @ + 1]
  /\ PeerFrame /\ UNCHANGED <<backlog, net, sndq, conns>>

PeerReads(s) ==
  /\ net[s] \in {"open", "eof"}
  /\ \E k \in 1 .. sndq[s] : sndq' = [sndq EXCEPT ![s] = @ - k]
  /\ PeerFrame /\ UNCHANGED <<backlog, net, rcvq, boundVars>>

PeerCloses(s) ==
  /\ net[s] = "open"
  /\ net' = [net EXCEPT ![s] = "eof"]
  /\ PeerFrame /\ UNCHANGED <<backlog, rcvq, sndq, boundVars>>

PeerResets(s) ==
  /\ net[s] \in {"open", "eof"}
  /\ net' = [net EXCEPT ![s] = "reset"]
  /\ PeerFrame /\ UNCHANGED <<backlog, rcvq, sndq, boundVars>>

-----------------------------------------------------------------------------
Read(s) ==
  \/ ReadNothing(s) \/ ReadEof(s) \/ ReadError(s)
  \/ ReadExitByte(s) \/ ReadPartial(s) \/ ReadComplete(s) \/ ReadSpins(s)
  \/ ReadCrashes(s)

Server ==
  \/ SelectReturns \/ SelectFails
  \/ \E s \in Socket : AcceptClient(s)
  \/ AcceptFails \/ NoAccept
  \/ \E s \in Socket : Read(s)
  \/ \E n \in 1 .. MaxResponse : Respond(n)
  \/ SendKilled
  \/ WriteNothing \/ WriteMore \/ WriteDone \/ WriteDoneCrashes
  \/ ReleaseClients

Peer ==
  \/ PeerConnects \/ PeerAborts
  \/ \E s \in Socket : \/ PeerSends(s) \/ PeerReads(s)
                       \/ PeerCloses(s) \/ PeerResets(s)

Next == Server \/ Peer

Spec == Init /\ [][Next]_vars

\* The loop is an ordinary thread that keeps running, and a peer that has not
\* given up takes what was sent to it.  Nothing else is owed by the peers.
Fairness ==
  /\ WF_vars(Server)
  /\ \A s \in Socket : WF_vars(PeerReads(s))

FairSpec == Spec /\ Fairness
-----------------------------------------------------------------------------
(***************************************************************************)
(* Properties.                                                             *)
(***************************************************************************)

\* The three registries of a connection agree: the loop watches exactly the
\* descriptors that are open, and the service has an RST_Client for each of
\* them that is not about to be closed.  on_data_received uses what it finds
\* in service->clients without looking at RST_map_find's result, and select()
\* fails for good on a descriptor that was closed behind its back.
RegistriesAgree ==
  \A s \in Socket :
    /\ s \in clients <=> net[s] # "closed"
    /\ service_clients[s] # "none" <=> s \in clients \ finished_clients

\* A socket is in writing_sockets exactly when writers_data has its
\* WriterData, which handle_client_write follows unchecked, and then its
\* client is there for on_data_sent to release; a finished request is always
\* on its way out, unless the process died sending.
WritersRegistered ==
  \A s \in Socket :
    /\ s \in writing_sockets <=> writers_data[s] # None
    /\ s \in writing_sockets \/ (pc = "respond" /\ sock = s) => service_clients[s] = "finished"
    /\ service_clients[s] = "finished" =>
         s \in writing_sockets \/ (pc \in {"respond", "crashed"} /\ sock = s)

\* The clients whose turn in this iteration is not over.
Unvisited ==
  {s \in clients : \/ pc = "accept"
                   \/ pc \in {"scan", "respond", "write"} /\ s \in todo
                   \/ pc \in {"respond", "write"} /\ s = sock}

\* The fd sets are a snapshot: between select() and a client's turn peers move
\* and the loop accepts, reads and responds.  Still a client has one turn per
\* iteration, none after it was marked for closing, finished_clients names no
\* live descriptor when select() or accept() is called, and a socket that
\* select() found writable has its writer and its room when its turn comes.
ScanOrder ==
  /\ pc \in {"select", "accept"} => clients \cap finished_clients = {}
  /\ pc \in {"scan", "respond", "write"} => todo \subseteq clients \ finished_clients
  /\ pc \in {"respond", "write"} => sock \in clients \ (finished_clients \cup todo)
  /\ pc = "respond" => sock \notin writing_sockets
  /\ pc = "accept" => writeset \subseteq writing_sockets
  /\ \A s \in Unvisited \cap writeset : s \in writing_sockets /\ Writable(s)

\* WriterData counts what is left of the response and points just behind what
\* the kernel took; when the connection was reset, send()'s -1 moves it back,
\* never forward.  A socket marked for closing has nothing left to send.
ResponseIntegrity ==
  \A s \in clients :
    /\ s \in writing_sockets =>
         /\ response_len[s] \in 1 .. MaxResponse
         /\ writers_data[s].buf + writers_data[s].len = response_len[s]
         /\ writers_data[s].buf <= delivered[s]
         /\ delivered[s] <= response_len[s]
         /\ net[s] # "reset" => writers_data[s].buf = delivered[s]
    /\ s \in finished_clients => response_len[s] > 0 /\ delivered[s] = response_len[s]
    /\ s \notin writing_sockets \cup finished_clients =>
         response_len[s] = 0 /\ delivered[s] = 0 /\ sndq[s] = 0

\* The recv() assertion of handle_client_read, as the code states it.
RecvAssertion == pc # "aborted"

\* A peer that closes before its request is complete: nothing the program
\* does gives the descriptor back or takes it out of the loop's sets.
Abandoned(s) ==
  /\ net[s] = "eof" /\ rcvq[s] = 0
  /\ s \in clients
  /\ service_clients[s] = "reading"

AbandonedForever == [][\A s \in Socket : Abandoned(s) => Abandoned(s)' \/ net'[s] = "reset"]_vars

\* Once a request is complete its connection is closed by the server, however
\* slowly the peer drains the response and whatever the other peers do, unless
\* the server goes down first (send, handle_client_write, release_clients).
AnsweredEventually ==
  \A s \in Socket :
    service_clients[s] = "finished" ~> (net[s] = "closed" \/ pc \in Halted)

\* What the server promises of each connection, whatever the interleaving,
\* and how its state appears there.
upBar    == pc \notin Halted
phaseBar == [s \in Socket |-> IF net[s] = "closed" THEN "free"
                              ELSE IF response_len[s] = 0 THEN "reading" ELSE "answering"]
totalBar == [s \in Socket |-> IF net[s] = "closed" THEN 0 ELSE response_len[s]]
sentBar  == [s \in Socket |-> IF net[s] = "closed" THEN 0 ELSE delivered[s]]

Contract == INSTANCE ServerContract
              WITH up <- upBar, phase <- phaseBar, total <- totalBar, sent <- sentBar

\* The select loop implements the contract: one answer per connection, sent
\* in order, and no connection closed by the server before all of its answer
\* is out (tcpserver.c's finished_clients, writing_sockets and writers_data).
ImplementsContract == Contract!Spec
=============================================================================
