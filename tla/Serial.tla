-------------------------------- MODULE Serial --------------------------------
(***************************************************************************)
(* The transport of a program, whichever backend is linked in: one that    *)
(* polls (PolledSerial) or one that races a request against the clock      *)
(* (AsyncSerial).  Both stand on the same line, tell the caller the same   *)
(* things and implement Transport; what only one of them has stays at rest *)
(* while the other one is linked in.                                       *)
(***************************************************************************)
EXTENDS SerialLine

CONSTANTS
  Polling,    (* the targets of PolledSerial                               *)
  Racing,     (* the targets of AsyncSerial                                *)
  Nodes       (* as in PolledSerial                                        *)

ASSUME SerialAssumption ==
  RBUF \in Nat /\ MaxBytes \in Nat /\ MaxCap \in Nat /\ MaxLen \in Nat /\ Nodes \in Nat

VARIABLES
  target, pc, cap, out, expired, status,            (* of both             *)
  path, probed, files, fifo, owns, len, done, avail,  (* of PolledSerial   *)
  held, open, call, request                         (* of AsyncSerial      *)

P == INSTANCE PolledSerial WITH Targets <- Polling
A == INSTANCE AsyncSerial WITH Targets <- Racing

polledOnly == <<path, probed, files, fifo, owns, len, done, avail>>
asyncOnly == <<held, open, call, request>>
vars == <<lineVars, got, target, pc, cap, out, expired, status, polledOnly,
          asyncOnly>>

Polls == target \in Polling

Init ==
  \/ /\ P!Init
     /\ held = {} /\ open = FALSE /\ call = "none" /\ request = A!NoRequest
  \/ /\ A!Init
     /\ path = "none" /\ probed = 0 /\ files = 0 /\ fifo = "none" /\ owns = FALSE
     /\ len = 0 /\ done = 0 /\ avail = 0

Polled(step) == Polls /\ step /\ UNCHANGED asyncOnly
Raced(step) == ~ Polls /\ step /\ UNCHANGED polledOnly

Next == Polled(P!Next) \/ Raced(A!Next)

(* That of the backend that is linked in.                                  *)
Fairness ==
  /\ WF_vars(Polled(P!CallStep))
  /\ WF_vars(Polled(P!DeadlinePasses))
  /\ WF_vars(Raced(A!CallStep))
  /\ WF_vars(Raced(A!DeadlinePasses))
  /\ WF_vars(Raced(request.aborted /\ A!RequestFails))
  /\ WF_vars(Raced(A!ReadCompletes))
Spec == Init /\ [][Next]_vars /\ Fairness

------------------------------------------------------------------------------
(* Every variable has its type; PolledSerial's, or AsyncSerial's.          *)
TypeOK == IF Polls THEN P!TypeOK ELSE A!TypeOK

(* No driver works on a request the caller has left behind:                *)
(* A!BufferReleased.                                                       *)
BufferReleased == ~ Polls => A!BufferReleased

(* The Amiga's drain, which has no deadline, asks for bytes the driver has *)
(* and there is room for: A!DrainNeverWaits.                               *)
DrainNeverWaits == ~ Polls => A!DrainNeverWaits

(* Open and close give back all they acquired, in an order in which each   *)
(* thing outlives what needs it (A!NothingLeaks); an open transport has    *)
(* the one node, socket or FIFO it was given, others none, and only a FIFO *)
(* of its own making is removed (P!OneHandle).                             *)
NothingLeaks == IF Polls THEN P!OneHandle ELSE A!NothingLeaks

(* The seam's contract: whichever backend is linked in, and whatever comes *)
(* between the steps of a call, no byte is delivered twice, out of order   *)
(* or past out_cap, none transmitted outside a write, WP_OK is for all of  *)
(* it, and nothing is lost - but by a read of AsyncSerial that times out.  *)
Link == INSTANCE Transport WITH
  MayLose <- IF Polls THEN 0 ELSE MaxCap,
  waiting <- out \o buffered,
  call <- IF Polls THEN P!Doing ELSE A!Doing,
  room <- cap,
  left <- IF Polls THEN len - done ELSE A!Unsent
KeepsContract == Link!Spec

(* "Timeouts never hang the UI" (transport_atari.c): every call returns,   *)
(* whatever peer and transmitter do; only host's write(2) waits for the    *)
(* peer.                                                                   *)
CallReturns == P!CallReturns
==============================================================================
