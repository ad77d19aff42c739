---------------------------- MODULE PolledSerial -----------------------------
(***************************************************************************)
(* The transports that poll: backends/atari/transport_atari.c, over the    *)
(* BIOS ("tos") or over a MiNT device node ("node"), backends/dos/         *)
(* transport_dos.c over INT 14h ("dos"), and backends/host/                *)
(* transport_host.c over poll(2) and a FIFO or a socket ("host"); in       *)
(* atari/transport_gem4xe.c there is no link to open ("gem4xe").  Each     *)
(* call is made of separate steps - ask the driver, look at the clock -    *)
(* between which bytes come in, the transmitter fills and drains, and time *)
(* passes.                                                                 *)
(*                                                                         *)
(* The clock is what the loops see of it: whether the deadline has been    *)
(* reached.  How plat_ticks_ms and u32 arithmetic answer that is Deadline. *)
(***************************************************************************)
EXTENDS SerialLine

CONSTANTS
  Targets,    (* which of "atari", "dos", "host", "gem4xe" are looked at   *)
  Nodes       (* device nodes atari's open may probe, addresses of a host  *)

VARIABLES
  target,     (* the backend that is linked in                             *)
  path,       (* "none" while closed; else "tos", "node", "dos" or "host"  *)
  probed,     (* candidates open has tried                                 *)
  files,      (* handles or descriptors the transport has open             *)
  fifo,       (* the FIFO a host endpoint names: "none", "theirs" or "ours"*)
  owns,       (* created, then owns_fifo                                   *)
  pc,         (* where in a call the caller is; "idle" outside of one      *)
  cap, len,   (* out_cap of the read, len of the write going on            *)
  done,       (* i, done: bytes of the write the driver has taken          *)
  avail,      (* what Finstat answered, at most out_cap                    *)
  out,        (* bytes stored through the caller's pointer                 *)
  expired,    (* plat_ticks_ms() >= deadline                               *)
  status

callVars == <<cap, len, done, avail, out, expired>>
fifoVars == <<fifo, owns>>
openVars == <<target, path, probed, files, fifoVars>>
vars == <<lineVars, got, openVars, pc, callVars, status>>

Init ==
  /\ LineInit
  /\ target \in Targets
  /\ path = "none" /\ probed = 0 /\ files = 0
  /\ fifo \in IF target = "host" THEN {"none", "theirs"} ELSE {"none"}
  /\ owns = FALSE
  /\ pc = "idle" /\ cap = 0 /\ len = 0 /\ done = 0 /\ avail = 0 /\ out = <<>>
  /\ expired = FALSE /\ status = "none"

Goto(label) == pc' = label
Return(s) ==
  /\ pc' = "idle" /\ status' = s
  /\ cap' = 0 /\ len' = 0 /\ done' = 0 /\ avail' = 0 /\ out' = <<>>
  /\ expired' = FALSE

------------------------------------------------------------------------------
(* Open and close.                                                         *)

(* An endpoint that does not parse, or no memory for the handle; gem4xe    *)
(* has no link at all.                                                     *)
OpenFails ==
  /\ pc = "idle" /\ path = "none"
  /\ status' \in IF target = "gem4xe" THEN {"UNSUPPORTED"}
                  ELSE {"UNSUPPORTED", "ERR", "NOMEM"}
  /\ UNCHANGED <<lineVars, got, openVars, pc, callVars>>

DosOpen ==
  /\ pc = "idle" /\ path = "none" /\ target = "dos"
  /\ path' = "dos" /\ status' = "OK"
  /\ UNCHANGED <<lineVars, got, target, fifoVars, probed, files, pc, callVars>>

AtariOpen ==
  /\ pc = "idle" /\ path = "none" /\ target = "atari"
  /\ probed' = 0 /\ Goto("probe")
  /\ UNCHANGED <<lineVars, got, target, fifoVars, path, files, callVars, status>>

(* open_serial_node: Fopen of the next candidate.                          *)
OpenNode ==
  /\ pc = "probe" /\ probed < Nodes
  /\ probed' = probed + 1
  /\ \/ UNCHANGED <<files, pc>>
     \/ files' = files + 1 /\ Goto("ioctl")
  /\ UNCHANGED <<lineVars, got, target, fifoVars, path, callVars, status>>

(* A variant of AskNode that forgets the Fclose.                           *)
AskNodeLeaky ==
  /\ pc = "ioctl"
  /\ \/ path' = "node" /\ Goto("idle") /\ status' = "OK"
     \/ Goto("probe") /\ UNCHANGED <<path, status>>
  /\ UNCHANGED <<lineVars, got, target, fifoVars, probed, files, callVars>>

(* TIOCMGET tells a serial driver from anything else that opens, which is  *)
(* closed again.                                                           *)
AskNode ==
  /\ pc = "ioctl"
  /\ \/ path' = "node" /\ Goto("idle") /\ status' = "OK" /\ UNCHANGED files
     \/ files' = files - 1 /\ Goto("probe") /\ UNCHANGED <<path, status>>
  /\ UNCHANGED <<lineVars, got, target, fifoVars, probed, callVars>>

(* No candidate left: the BIOS path.                                       *)
NoNode ==
  /\ pc = "probe" /\ probed = Nodes
  /\ path' = "tos" /\ Goto("idle") /\ status' = "OK"
  /\ UNCHANGED <<lineVars, got, target, fifoVars, probed, files, callVars>>

(* A variant of HostPipe that takes a FIFO it has found for its own.       *)
HostPipeGreedy ==
  /\ pc = "idle" /\ path = "none" /\ target = "host"
  /\ owns' = TRUE /\ fifo' = IF fifo = "none" THEN "ours" ELSE fifo
  /\ files' = files + 1 /\ Goto("alloc")
  /\ UNCHANGED <<lineVars, got, target, path, probed, callVars, status>>

(* open_pipe: mkfifo, unless there is one; then open, which may fail and   *)
(* leaves the new FIFO behind.                                             *)
HostPipe ==
  /\ pc = "idle" /\ path = "none" /\ target = "host"
  /\ fifo' = IF fifo = "none" THEN "ours" ELSE fifo
  /\ \/ files' = files + 1 /\ owns' = (fifo = "none") /\ Goto("alloc") /\ UNCHANGED status
     \/ status' = "ERR" /\ UNCHANGED <<files, owns, pc>>
  /\ UNCHANGED <<lineVars, got, target, path, probed, callVars>>

(* open_tcp, once a name has been looked up.                               *)
HostTcp ==
  /\ pc = "idle" /\ path = "none" /\ target = "host"
  /\ probed' = 0 /\ Goto("dial")
  /\ UNCHANGED <<lineVars, got, target, fifoVars, path, files, callVars, status>>

(* A socket for the next address, if there is one.                         *)
HostDial ==
  /\ pc = "dial"
  /\ \/ /\ probed < Nodes /\ probed' = probed + 1 /\ UNCHANGED status
        /\ \/ UNCHANGED <<files, pc>>
           \/ files' = files + 1 /\ Goto("connect")
     \/ /\ probed = Nodes /\ UNCHANGED <<probed, files>>
        /\ Goto("idle") /\ status' = "ERR"
  /\ UNCHANGED <<lineVars, got, target, fifoVars, path, callVars>>

(* connect, and poll for its outcome until the timeout.                    *)
HostConnect ==
  /\ pc = "connect"
  /\ \/ Goto("alloc") /\ UNCHANGED files
     \/ files' = files - 1 /\ Goto("dial")
  /\ UNCHANGED <<lineVars, got, target, fifoVars, path, probed, callVars, status>>

(* mem_alloc for the handle; without it the descriptor is closed, and only *)
(* the descriptor.                                                         *)
HostAlloc ==
  /\ pc = "alloc" /\ Goto("idle")
  /\ \/ path' = "host" /\ status' = "OK" /\ UNCHANGED <<files, owns>>
     \/ files' = files - 1 /\ owns' = FALSE /\ status' = "NOMEM" /\ UNCHANGED path
  /\ UNCHANGED <<lineVars, got, target, fifo, probed, callVars>>

Close ==
  /\ pc = "idle" /\ path # "none"
  /\ files' = IF path \in {"node", "host"} THEN files - 1 ELSE files
  /\ fifo' = IF owns THEN "none" ELSE fifo
  /\ owns' = FALSE /\ path' = "none" /\ status' = "none"
  /\ UNCHANGED <<lineVars, got, target, probed, pc, callVars>>

------------------------------------------------------------------------------
(* plat_transport_read.                                                    *)

(* A read into no room, or a write of nothing.  host waits for a byte all  *)
(* the same before it finds no room for it, and fails.                     *)
NothingToDo ==
  /\ pc = "idle" /\ path # "none"
  /\ status' = "OK"
  /\ UNCHANGED <<lineVars, got, openVars, pc, callVars>>

StartRead(c) ==
  /\ pc = "idle" /\ path # "none"
  /\ cap' = c /\ expired' = FALSE /\ Goto("rpoll")
  /\ UNCHANGED <<lineVars, got, openVars, len, done, avail, out, status>>

(* A variant of AtMost that does not clip to out_cap.                      *)
Unclipped(n, limit) == n
AtMost(n, limit) == IF n > limit THEN limit ELSE n

(* Bconstat, Finstat or AH=03h: is a byte there?                           *)
PollInput ==
  /\ pc = "rpoll" /\ path # "host"
  /\ Goto(IF buffered = <<>> THEN "rclock" ELSE "drain")
  /\ avail' = IF path = "node" THEN AtMost(Len(buffered), cap) ELSE 0
  /\ UNCHANGED <<lineVars, got, openVars, cap, len, done, out, expired, status>>

(* Finstat fails: the node is broken.                                      *)
NodeBroken ==
  /\ pc = "rpoll" /\ path = "node"
  /\ Return("ERR")
  /\ UNCHANGED <<lineVars, got, openVars>>

ReadClock ==
  /\ pc = "rclock"
  /\ \/ expired /\ Return("TIMEOUT")
     \/ ~ expired /\ Goto("rpoll") /\ UNCHANGED <<callVars, status>>
  /\ UNCHANGED <<lineVars, got, openVars>>

(* A variant of DrainByte that does not look at out_cap.                   *)
DrainPastRoom ==
  /\ pc = "drain" /\ path \notin {"node", "host"} /\ buffered # <<>>
  /\ out' = out \o Oldest(1) /\ TakeOldest(1)
  /\ UNCHANGED <<coming, got, openVars, pc, cap, len, done, avail, expired, status>>

(* Bconin, or AH=02h: one byte per turn, as long as there are any.         *)
DrainByte ==
  /\ pc = "drain" /\ path \notin {"node", "host"}
  /\ Len(out) < cap /\ buffered # <<>>
  /\ out' = out \o Oldest(1) /\ TakeOldest(1)
  /\ UNCHANGED <<coming, got, openVars, pc, cap, len, done, avail, expired, status>>

Drained ==
  /\ pc = "drain" /\ path \notin {"node", "host"}
  /\ Len(out) = cap \/ buffered = <<>>
  /\ got' = got \o out /\ Return("OK")
  /\ UNCHANGED <<lineVars, openVars>>

(* Fread of what Finstat said was there, and no more than out_cap.         *)
ReadNode ==
  /\ pc = "drain" /\ path = "node"
  /\ \/ /\ got' = got \o Oldest(avail) /\ TakeOldest(avail)
        /\ Return("OK") /\ UNCHANGED coming
     \/ Return("ERR") /\ UNCHANGED <<lineVars, got>>
  /\ UNCHANGED openVars

(* poll waits for bytes until the deadline.                                *)
HostPollIn ==
  /\ pc = "rpoll" /\ path = "host"
  /\ \/ buffered # <<>> /\ Goto("drain") /\ UNCHANGED <<callVars, status>>
     \/ expired /\ Return("TIMEOUT")
  /\ UNCHANGED <<lineVars, got, openVars>>

(* read, which a peer that has closed its end makes empty.                 *)
HostRead ==
  /\ pc = "drain" /\ path = "host"
  /\ \/ /\ cap > 0
        /\ LET n == AtMost(Len(buffered), cap)
           IN  got' = got \o Oldest(n) /\ TakeOldest(n)
        /\ Return("OK") /\ UNCHANGED coming
     \/ Return("ERR") /\ UNCHANGED <<lineVars, got>>
  /\ UNCHANGED openVars

------------------------------------------------------------------------------
(* plat_transport_write.                                                   *)

StartWrite(n) ==
  /\ pc = "idle" /\ path # "none"
  /\ len' = n /\ done' = 0 /\ expired' = FALSE /\ Goto("wpoll")
  /\ UNCHANGED <<lineVars, got, openVars, cap, avail, out, status>>

WriteDone ==
  /\ pc = "wpoll" /\ done = len
  /\ Return("OK")
  /\ UNCHANGED <<lineVars, got, openVars>>

(* A variant of PollOutput that sets the deadline anew on every turn.      *)
PollOutputRefreshing ==
  /\ pc = "wpoll" /\ path # "host" /\ done < len
  /\ Goto("wclock") /\ expired' = FALSE
  /\ UNCHANGED <<lineVars, got, openVars, cap, len, done, avail, out, status>>

(* Bcostat or AH=03h say no, or Fwrite takes nothing.                      *)
PollOutput ==
  /\ pc = "wpoll" /\ path # "host" /\ done < len
  /\ Goto("wclock")
  /\ UNCHANGED <<lineVars, got, openVars, callVars, status>>

WriteClock ==
  /\ pc = "wclock"
  /\ \/ expired /\ Return("TIMEOUT")
     \/ ~ expired /\ Goto("wpoll") /\ UNCHANGED <<callVars, status>>
  /\ UNCHANGED <<lineVars, got, openVars>>

(* Bconout, AH=01h or Fwrite takes bytes; the next ones get a new deadline.*)
WriteSome(n) ==
  /\ pc = "wpoll" /\ path # "host" /\ done + n <= len
  /\ path # "node" => n = 1
  /\ done' = done + n /\ expired' = FALSE
  /\ UNCHANGED <<lineVars, got, openVars, pc, cap, len, avail, out, status>>

(* AH=01h answers 80h, or Fwrite fails.                                    *)
WriteBroken ==
  /\ pc = "wpoll" /\ path \in {"node", "dos"} /\ done < len
  /\ Return("ERR")
  /\ UNCHANGED <<lineVars, got, openVars>>

(* poll waits for room, anew for what write has left over.                 *)
HostPollOut ==
  /\ pc = "wpoll" /\ path = "host" /\ done < len
  /\ \/ Goto("hwrite") /\ UNCHANGED <<callVars, status>>
     \/ expired /\ Return("TIMEOUT")
  /\ UNCHANGED <<lineVars, got, openVars>>

(* The descriptor is in blocking mode: write waits for room for more than  *)
(* the one byte poll has promised, as long as it takes.                    *)
HostWrite(n) ==
  /\ pc = "hwrite" /\ done + n <= len
  /\ done' = done + n /\ expired' = FALSE /\ Goto("wpoll")
  /\ UNCHANGED <<lineVars, got, openVars, cap, len, avail, out, status>>

(* POLLHUP or POLLERR, looked at before POLLIN, or write fails.            *)
HostHangsUp ==
  /\ path = "host" /\ pc \in {"rpoll", "wpoll", "hwrite"}
  /\ pc = "wpoll" => done < len
  /\ Return("ERR")
  /\ UNCHANGED <<lineVars, got, openVars>>

------------------------------------------------------------------------------

LineStep ==
  Arrive /\ UNCHANGED <<got, openVars, pc, callVars, status>>

DeadlinePasses ==
  /\ pc \in {"rpoll", "rclock", "wpoll", "wclock"} /\ ~ expired
  /\ expired' = TRUE
  /\ UNCHANGED <<lineVars, got, openVars, pc, cap, len, done, avail, out,
                 status>>

(* The steps a call takes once it has begun.                               *)
CallStep ==
  \/ OpenNode \/ AskNode \/ NoNode
  \/ HostDial \/ HostConnect \/ HostAlloc \/ HostPollIn \/ HostRead \/ HostPollOut
  \/ PollInput \/ NodeBroken \/ ReadClock \/ DrainByte \/ Drained \/ ReadNode
  \/ WriteDone \/ PollOutput \/ WriteClock \/ WriteBroken
  \/ \E n \in 1 .. MaxLen : WriteSome(n)

Next ==
  \/ OpenFails \/ DosOpen \/ AtariOpen \/ HostPipe \/ HostTcp \/ Close \/ NothingToDo
  \/ \E c \in 0 .. MaxCap : (c > 0 \/ path = "host") /\ StartRead(c)
  \/ \E n \in 1 .. MaxLen : StartWrite(n)
  \/ CallStep
  \/ LineStep
  \/ DeadlinePasses
  \/ HostHangsUp
  \/ \E n \in 1 .. MaxLen : HostWrite(n)

(***************************************************************************)
(* The caller's thread runs and the clock advances; nothing is assumed of  *)
(* the peer or of the transmitter.                                         *)
(***************************************************************************)
Fairness == WF_vars(CallStep) /\ WF_vars(DeadlinePasses)
Spec == Init /\ [][Next]_vars /\ Fairness

------------------------------------------------------------------------------
(***************************************************************************)
(* Every variable has its type.                                            *)
(***************************************************************************)
TypeOK ==
  /\ LineTypeOK
  /\ target \in Targets /\ path \in {"none", "tos", "node", "dos", "host"}
  /\ probed \in 0 .. Nodes /\ files \in 0 .. 1
  /\ fifo \in {"none", "theirs", "ours"} /\ owns \in BOOLEAN
  /\ pc \in {"idle", "probe", "ioctl", "dial", "connect", "alloc",
            "rpoll", "rclock", "drain", "wpoll", "wclock", "hwrite"}
  /\ cap \in 0 .. MaxCap /\ len \in 0 .. MaxLen /\ done \in 0 .. len
  /\ avail \in 0 .. cap
  /\ out \in Seq(1 .. MaxBytes) /\ Len(out) <= cap
  /\ expired \in BOOLEAN
  /\ status \in {"none", "OK", "TIMEOUT", "ERR", "NOMEM", "UNSUPPORTED"}

(* What a caller is doing, for Serial's contract.                          *)
Doing ==
  CASE pc \in {"rpoll", "rclock", "drain"} -> "read"
    [] pc \in {"wpoll", "wclock", "hwrite"} -> "write"
    [] OTHER -> "idle"

(***************************************************************************)
(* "Timeouts never hang the UI" (transport_atari.c): every call returns,   *)
(* whatever the peer and the transmitter do - a write because each byte it *)
(* gets rid of brings it closer to its end.  Only host's write(2), once    *)
(* poll(2) has seen room for something, waits for the peer.                *)
(***************************************************************************)
CallReturns ==
  pc \notin {"idle", "hwrite"} ~> pc \in {"idle", "hwrite"}

(***************************************************************************)
(* However many nodes or addresses open, answer or refuse, an open         *)
(* transport over a node or a descriptor has exactly one of them, every    *)
(* other one has none; and whatever failed before, the FIFO that close     *)
(* removes is one this program has made.                                   *)
(***************************************************************************)
OneHandle ==
  /\ pc = "idle" => files = IF path \in {"node", "host"} THEN 1 ELSE 0
  /\ owns => fifo = "ours" /\ files = 1
==============================================================================
