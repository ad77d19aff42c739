----------------------------- MODULE AsyncSerial -----------------------------
(***************************************************************************)
(* The serial transports that race an asynchronous request against the     *)
(* clock: backends/amiga/transport_amiga.c (SendIO, CheckIO, AbortIO and   *)
(* WaitIO on one IOExtSer) and backends/mac/transport_mac.c (PBReadAsync,  *)
(* ioResult, KillIO on a parameter block in the caller's stack frame).     *)
(*                                                                         *)
(* The driver works on the request in its own time: it may complete it     *)
(* between the caller's look at it, the look at the clock and the abort.   *)
(* While a request is pending the driver may write to the caller's buffer. *)
(***************************************************************************)
EXTENDS SerialLine

CONSTANT Targets    (* which of "amiga", "mac" are looked at               *)

VARIABLES
  target,     (* the backend that is linked in                             *)
  held,       (* what the transport owns: memory, port, request, drivers   *)
  open,       (* the caller has a transport                                *)
  call,       (* "none", "open", "close", "read" or "write"                *)
  pc,         (* where in it the caller is                                 *)
  cap,        (* out_cap of the read going on                              *)
  request,    (* the one IORequest or parameter block                      *)
  out,        (* bytes the driver has put into the caller's buffer         *)
  expired,    (* plat_ticks_ms() >= deadline                               *)
  status

openVars == <<target, held, open>>
vars == <<lineVars, got, openVars, call, pc, cap, request, out, expired, status>>

NoRequest == [op |-> "none", want |-> 0, moved |-> 0, state |-> "none",
              aborted |-> FALSE, failed |-> FALSE]
Asking(op, n) == [NoRequest EXCEPT !.op = op, !.want = n, !.state = "pending"]
Pending == request.state = "pending"

Init ==
  /\ LineInit
  /\ target \in Targets
  /\ held = {} /\ open = FALSE
  /\ call = "none" /\ pc = "idle" /\ cap = 0
  /\ request = NoRequest /\ out = <<>> /\ expired = FALSE /\ status = "none"

Goto(label) == pc' = label
Return(s) ==
  /\ pc' = "idle" /\ call' = "none" /\ status' = s
  /\ cap' = 0 /\ out' = <<>> /\ expired' = FALSE

------------------------------------------------------------------------------
(* Open and close.                                                         *)

Acquiring == IF target = "amiga" THEN <<"mem", "port", "ioreq", "device">>
             ELSE <<"mem", "in", "out">>
Releasing == IF target = "amiga" THEN <<"device", "ioreq", "port", "mem">>
             ELSE <<"in", "out", "mem">>

FirstOf(order, S) ==
  order[CHOOSE i \in DOMAIN order :
          order[i] \in S /\ \A j \in 1 .. i - 1 : order[j] \notin S]

(* The endpoint does not parse, or names another kind of link.             *)
OpenRefused ==
  /\ pc = "idle" /\ ~ open
  /\ status' \in {"UNSUPPORTED", "ERR"}
  /\ UNCHANGED <<lineVars, got, openVars, call, pc, cap, request, out, expired>>

Open ==
  /\ pc = "idle" /\ ~ open
  /\ call' = "open" /\ Goto("opening")
  /\ UNCHANGED <<lineVars, got, openVars, cap, request, out, expired, status>>

(* A variant of Acquire that returns without giving anything back.         *)
AcquireOrBail ==
  /\ pc = "opening" /\ held # ToSet(Acquiring)
  /\ \/ /\ held' = held \cup {FirstOf(Acquiring, ToSet(Acquiring) \ held)}
        /\ UNCHANGED <<call, pc, cap, out, expired, status>>
     \/ Return("ERR") /\ UNCHANGED held
  /\ UNCHANGED <<lineVars, got, target, open, request>>

(* The next thing open needs is there, or everything so far is given back. *)
Acquire ==
  /\ pc = "opening" /\ held # ToSet(Acquiring)
  /\ \/ /\ held' = held \cup {FirstOf(Acquiring, ToSet(Acquiring) \ held)}
        /\ UNCHANGED pc
     \/ Goto("closing") /\ UNCHANGED held
  /\ UNCHANGED <<lineVars, got, target, open, call, cap, request, out, expired,
                 status>>

Opened ==
  /\ pc = "opening" /\ held = ToSet(Acquiring)
  /\ open' = TRUE /\ Return("OK")
  /\ UNCHANGED <<lineVars, got, target, held, request>>

Close ==
  /\ pc = "idle" /\ open
  /\ call' = "close" /\ Goto("closing")
  /\ UNCHANGED <<lineVars, got, openVars, cap, request, out, expired, status>>

(* close_transport: whatever is there, in its order.                       *)
Release ==
  /\ pc = "closing" /\ held # {}
  /\ held' = held \ {FirstOf(Releasing, held)}
  /\ UNCHANGED <<lineVars, got, target, open, call, pc, cap, request, out,
                 expired, status>>

Closed ==
  /\ pc = "closing" /\ held = {}
  /\ open' = FALSE
  /\ IF call = "close" THEN Return("none")
     ELSE \E s \in {"ERR", "NOMEM"} : Return(s)
  /\ UNCHANGED <<lineVars, got, target, held, request>>

------------------------------------------------------------------------------
(* Starting a transfer.                                                    *)

NothingToDo ==
  /\ pc = "idle" /\ open
  /\ status' = "OK"
  /\ UNCHANGED <<lineVars, got, openVars, call, pc, cap, request, out, expired>>

Submit(op, n) ==
  /\ pc = "idle" /\ open
  /\ call' = op /\ request' = Asking(op, n) /\ Goto("poll")
  /\ expired' = FALSE
  /\ UNCHANGED <<lineVars, got, openVars, out, status>>

(* The Amiga asks for the first byte, the Mac for all there is room for.   *)
AmigaRead(c) == target = "amiga" /\ cap' = c /\ Submit("read", 1)
MacRead(c) == target = "mac" /\ cap' = c /\ Submit("read", c)

AmigaWrite(n) == target = "amiga" /\ UNCHANGED cap /\ Submit("write", n)
MacWrite(n) == target = "mac" /\ UNCHANGED cap /\ Submit("write", n)

------------------------------------------------------------------------------
(* The loop.                                                               *)

(* CheckIO, or a look at ioResult.                                         *)
Poll ==
  /\ pc = "poll"
  /\ Goto(IF Pending THEN "clock" ELSE "finish")
  /\ UNCHANGED <<lineVars, got, openVars, call, cap, request, out, expired,
                 status>>

(* A variant of LookAtClock that does not abort, one of GiveUp that does   *)
(* not wait.                                                               *)
LookWithoutAbort ==
  /\ pc = "clock"
  /\ Goto(IF expired THEN "abort" ELSE "poll")
  /\ UNCHANGED <<lineVars, got, openVars, call, cap, request, out, expired,
                 status>>
GiveUpAtOnce ==
  /\ pc = "abort"
  /\ Return("TIMEOUT")
  /\ UNCHANGED <<lineVars, got, openVars, request>>

(* On a late answer AbortIO and KillIO do nothing.                         *)
LookAtClock ==
  /\ pc = "clock"
  /\ \/ ~ expired /\ Goto("poll") /\ UNCHANGED request
     \/ /\ expired /\ Goto("abort")
        /\ request' = [request EXCEPT !.aborted = Pending]
  /\ UNCHANGED <<lineVars, got, openVars, call, cap, out, expired, status>>

(* WaitIO, or the second loop on ioResult, then WP_TIMEOUT.                *)
GiveUp ==
  /\ pc = "abort" /\ ~ Pending
  /\ request' = NoRequest /\ Return("TIMEOUT")
  /\ UNCHANGED <<lineVars, got, openVars>>

(* The request is done in time.  A read on the Amiga goes on to see what   *)
(* else has come in.                                                       *)
FinishFailed ==
  /\ pc = "finish" /\ request.failed
  /\ request' = NoRequest /\ Return("ERR")
  /\ UNCHANGED <<lineVars, got, openVars>>

FinishWrite ==
  /\ pc = "finish" /\ call = "write" /\ ~ request.failed
  /\ request' = NoRequest /\ Return("OK")
  /\ UNCHANGED <<lineVars, got, openVars>>

MacFinishRead ==
  /\ pc = "finish" /\ call = "read" /\ target = "mac" /\ ~ request.failed
  /\ got' = got \o out
  /\ request' = NoRequest /\ Return("OK")
  /\ UNCHANGED <<lineVars, openVars>>

AmigaFirstByte ==
  /\ pc = "finish" /\ call = "read" /\ target = "amiga" /\ ~ request.failed
  /\ request' = NoRequest /\ Goto("query")
  /\ UNCHANGED <<lineVars, got, openVars, call, cap, out, expired, status>>

Least(a, b) == IF a <= b THEN a ELSE b

(* Variants of Extra: not clipped to out_cap; not asked of the driver.     *)
ExtraUnclipped(actual, room) == actual
ExtraUnasked(actual, room) == room

(* How much of what SDCMD_QUERY reports the drain asks for.                *)
Extra(actual, room) == Least(actual, room)

(* SDCMD_QUERY may fail; then the one byte is all.                         *)
AmigaQuery ==
  /\ pc = "query"
  /\ LET extra == Extra(Len(buffered), cap - 1) IN
     \/ /\ extra > 0
        /\ request' = Asking("read", extra) /\ Goto("drain")
        /\ UNCHANGED <<got, call, cap, out, expired, status>>
     \/ got' = got \o out /\ Return("OK") /\ UNCHANGED request
  /\ UNCHANGED <<lineVars, openVars>>

(* A variant of AmigaDrained that never counts the second read's bytes.    *)
DrainedUncounted ==
  /\ pc = "drain" /\ ~ Pending
  /\ got' = got \o SubSeq(out, 1, 1)
  /\ request' = NoRequest /\ Return("OK")
  /\ UNCHANGED <<lineVars, openVars>>

(* DoIO of the second CMD_READ: it waits for the request to be done, and   *)
(* for nothing else.                                                       *)
AmigaDrained ==
  /\ pc = "drain" /\ ~ Pending
  /\ got' = got \o out
  /\ request' = NoRequest /\ Return("OK")
  /\ UNCHANGED <<lineVars, openVars>>

------------------------------------------------------------------------------
(* The driver.                                                             *)

(***************************************************************************)
(* serial.device completes a CMD_READ with all the bytes it asks for; the  *)
(* Serial Driver completes a read with what there is (the comment in       *)
(* transport_mac.c).                                                       *)
(***************************************************************************)
ReadCompletes ==
  /\ Pending /\ request.op = "read"
  /\ LET n == Least(request.want, Len(buffered)) IN
       /\ n >= IF target = "amiga" THEN request.want ELSE 1
       /\ out' = out \o Oldest(n) /\ TakeOldest(n)
  /\ request' = [request EXCEPT !.state = "done"]
  /\ UNCHANGED <<coming, got, openVars, call, pc, cap, expired, status>>

Transmits ==
  /\ Pending /\ request.op = "write" /\ request.moved < request.want
  /\ request' = [request EXCEPT !.moved = @ + 1]
  /\ UNCHANGED <<lineVars, got, openVars, call, pc, cap, out, expired, status>>

WriteCompletes ==
  /\ Pending /\ request.op = "write" /\ request.moved = request.want
  /\ request' = [request EXCEPT !.state = "done"]
  /\ UNCHANGED <<lineVars, got, openVars, call, pc, cap, out, expired, status>>

(* A line error, or the abort taking effect.                               *)
RequestFails ==
  /\ Pending
  /\ request' = [request EXCEPT !.state = "done", !.failed = TRUE]
  /\ UNCHANGED <<lineVars, got, openVars, call, pc, cap, out, expired, status>>

LineStep ==
  /\ Arrive
  /\ UNCHANGED <<got, openVars, call, pc, cap, request, out, expired, status>>

DeadlinePasses ==
  /\ pc \in {"poll", "clock"} /\ ~ expired
  /\ expired' = TRUE
  /\ UNCHANGED <<lineVars, got, openVars, call, pc, cap, request, out, status>>

------------------------------------------------------------------------------

CallStep ==
  \/ Acquire \/ Opened \/ Release \/ Closed
  \/ Poll \/ LookAtClock \/ GiveUp
  \/ FinishFailed \/ FinishWrite \/ MacFinishRead
  \/ AmigaFirstByte \/ AmigaQuery \/ AmigaDrained

DriverStep == ReadCompletes \/ Transmits \/ WriteCompletes \/ RequestFails

Next ==
  \/ OpenRefused \/ Open \/ Close \/ NothingToDo
  \/ \E c \in 1 .. MaxCap : AmigaRead(c) \/ MacRead(c)
  \/ \E n \in 1 .. MaxLen : AmigaWrite(n) \/ MacWrite(n)
  \/ CallStep
  \/ DriverStep
  \/ LineStep
  \/ DeadlinePasses

(***************************************************************************)
(* The caller's thread runs and the clock advances.  Of the driver it is   *)
(* assumed that an aborted request is given up, and that a read of bytes   *)
(* it already has completes; a peer that stays silent, or a transmitter    *)
(* that is stuck, is not excluded.                                         *)
(***************************************************************************)
Fairness ==
  /\ WF_vars(CallStep)
  /\ WF_vars(DeadlinePasses)
  /\ WF_vars(request.aborted /\ RequestFails)
  /\ WF_vars(ReadCompletes)
Spec == Init /\ [][Next]_vars /\ Fairness

------------------------------------------------------------------------------
(***************************************************************************)
(* Every variable has its type.                                            *)
(***************************************************************************)
TypeOK ==
  /\ LineTypeOK
  /\ target \in Targets
  /\ held \subseteq ToSet(Acquiring) /\ open \in BOOLEAN
  /\ call \in {"none", "open", "close", "read", "write"}
  /\ pc \in {"idle", "opening", "closing", "poll", "clock", "abort", "finish",
            "query", "drain"}
  /\ cap \in 0 .. MaxCap /\ out \in Seq(1 .. MaxBytes) /\ Len(out) <= cap
  /\ request \in [op : {"none", "read", "write"}, want : Nat, moved : 0 .. MaxLen,
                  state : {"none", "pending", "done"}, aborted : BOOLEAN,
                  failed : BOOLEAN]
  /\ expired \in BOOLEAN
  /\ status \in {"none", "OK", "TIMEOUT", "ERR", "NOMEM", "UNSUPPORTED"}

(***************************************************************************)
(* The driver never works on a request the caller has left behind: outside *)
(* a transfer nothing is pending, so no late answer lands in a buffer or a *)
(* stack frame that is no longer there, and the one IORequest is never     *)
(* submitted twice.                                                        *)
(***************************************************************************)
BufferReleased == pc \in {"idle", "opening", "closing", "query"} => ~ Pending

(***************************************************************************)
(* The drain after the first byte runs without a deadline: it only asks    *)
(* for bytes the driver has already, and stays inside out_cap.             *)
(***************************************************************************)
DrainNeverWaits ==
  pc = "drain" =>
    /\ Pending => request.want <= Len(buffered)
    /\ Len(out) + (IF Pending THEN request.want ELSE 0) <= cap

(***************************************************************************)
(* An open that fails half way, and a close, give everything back, and     *)
(* nothing is given back before what still needs it: the device before its *)
(* request, the request before its port, the handle's memory last.         *)
(***************************************************************************)
Needs(r) ==
  CASE r = "device" -> {"mem", "ioreq"}
    [] r = "ioreq"  -> {"mem", "port"}
    [] r = "mem"    -> {}
    [] OTHER        -> {"mem"}
NothingLeaks ==
  /\ pc = "idle" => held = IF open THEN ToSet(Acquiring) ELSE {}
  /\ \A r \in held : Needs(r) \subseteq held

(* What a caller is doing, for Serial's contract.                          *)
Doing == IF call \in {"read", "write"} THEN call ELSE "idle"
Unsent == IF call = "write" THEN request.want - request.moved ELSE 0

(***************************************************************************)
(* platform.h: WP_TIMEOUT "if none arrived in time", and transport_amiga.c *)
(* of the abort: "no race window between the CheckIO check and the AbortIO *)
(* call".  A read that answers WP_TIMEOUT has taken nothing off the line.  *)
(***************************************************************************)
TimeoutTookNothing ==
  [][ call = "read" /\ status' = "TIMEOUT" /\ pc' = "idle" /\ pc # "idle"
        => out = <<>> ]_vars
==============================================================================
