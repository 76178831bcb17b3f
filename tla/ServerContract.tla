--------------------------- MODULE ServerContract ---------------------------
(***************************************************************************)
(* What librestserver promises of every connection, without its loop, its  *)
(* registries or the kernel: a connection is read from until a request is  *)
(* complete, gets one response, and is closed by the server only after the *)
(* whole response was handed to the network.  The server may go down at    *)
(* any point; then nothing happens any more.                               *)
(***************************************************************************)
EXTENDS Naturals

CONSTANTS
  Socket,       \* connections are named by their descriptors
  MaxResponse   \* bound: units in the longest response

VARIABLES
  up,      \* the server runs
  phase,   \* "free", "reading" or "answering"
  total,   \* length of the response
  sent     \* how much of it is out

vars == <<up, phase, total, sent>>

Init ==
  /\ up = TRUE
  /\ phase = [s \in Socket |-> "free"]
  /\ total = [s \in Socket |-> 0]
  /\ sent = [s \in Socket |-> 0]

Open(s) ==
  /\ up /\ phase[s] = "free"
  /\ phase' = [phase EXCEPT ![s] = "reading"]
  /\ UNCHANGED <<up, total, sent>>

\* The response exists, and a first part of it may be out at once.
Answer(s) ==
  /\ up /\ phase[s] = "reading"
  /\ phase' = [phase EXCEPT ![s] = "answering"]
  /\ \E n \in 1 .. MaxResponse : \E k \in 0 .. n :
       /\ total' = [total EXCEPT ![s] = n]
       /\ sent' = [sent EXCEPT ![s] = k]
  /\ UNCHANGED up

Transmit(s) ==
  /\ up /\ phase[s] = "answering"
  /\ \E k \in 1 .. total[s] - sent[s] : sent' = [sent EXCEPT ![s] = @ + k]
  /\ UNCHANGED <<up, phase, total>>

Close(S) ==
  /\ up
  /\ \A s \in S : phase[s] = "answering" /\ sent[s] = total[s]
  /\ phase' = [s \in Socket |-> IF s \in S THEN "free" ELSE phase[s]]
  /\ total' = [s \in Socket |-> IF s \in S THEN 0 ELSE total[s]]
  /\ sent' = [s \in Socket |-> IF s \in S THEN 0 ELSE sent[s]]
  /\ UNCHANGED up

GoesDown ==
  /\ up
  /\ up' = FALSE
  /\ UNCHANGED <<phase, total, sent>>

Next ==
  \/ \E s \in Socket : Open(s) \/ Answer(s) \/ Transmit(s)
  \/ \E S \in SUBSET Socket : Close(S)
  \/ GoesDown

Spec == Init /\ [][Next]_vars
=============================================================================
