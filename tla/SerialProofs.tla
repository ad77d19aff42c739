---------------------------- MODULE SerialProofs -----------------------------
(***************************************************************************)
(* Theorems about Serial, for every set of targets, every size of driver   *)
(* buffer, every out_cap, every length of write and every number of nodes. *)
(***************************************************************************)
EXTENDS Serial, SequenceTheorems, TLAPS

(* The driver's n oldest bytes, and what is left of its buffer.            *)
LEMMA Split ==
  ASSUME NEW S, NEW s \in Seq(S), NEW n \in 0..Len(s)
  PROVE  /\ SubSeq(s, 1, n) \in Seq(S) /\ Len(SubSeq(s, 1, n)) = n
         /\ SubSeq(s, n + 1, Len(s)) \in Seq(S)
         /\ Len(SubSeq(s, n + 1, Len(s))) = Len(s) - n
  <1>1. Len(s) \in Nat /\ \A i \in 1..Len(s) : s[i] \in S
    BY LenProperties
  <1>2. \A i \in 1..n : s[i] \in S
    BY <1>1
  <1>3. \A i \in n + 1..Len(s) : s[i] \in S
    BY <1>1
  <1>4. n \in Int /\ n + 1 \in Int /\ Len(s) \in Int /\ 1 \in Int
    BY <1>1
  <1>5. /\ SubSeq(s, 1, n) \in Seq(S)
        /\ Len(SubSeq(s, 1, n)) = IF 1 <= n THEN n - 1 + 1 ELSE 0
    BY <1>2, <1>4, SubSeqProperties
  <1>6. /\ SubSeq(s, n + 1, Len(s)) \in Seq(S)
        /\ Len(SubSeq(s, n + 1, Len(s))) =
             IF n + 1 <= Len(s) THEN Len(s) - (n + 1) + 1 ELSE 0
    BY <1>3, <1>4, SubSeqProperties
  <1> QED BY <1>1, <1>5, <1>6

(* What a read leaves on the line when it takes the n oldest bytes.        *)
Delivers(n) ==
  /\ got' = got \o SubSeq(buffered, 1, n)
  /\ buffered' = SubSeq(buffered, n + 1, Len(buffered))

(* A read that takes them keeps the types of what it moves.                *)
LEMMA Delivered ==
  ASSUME buffered \in Seq(1..MaxBytes), got \in Seq(1..MaxBytes), Len(buffered) <= RBUF,
         NEW n \in 0..Len(buffered), Delivers(n)
  PROVE  /\ got' \in Seq(1..MaxBytes)
         /\ buffered' \in Seq(1..MaxBytes) /\ Len(buffered') <= RBUF
  <1>1. Len(buffered) \in Nat
    BY LenProperties
  <1>2. Len(buffered) - n <= RBUF
    BY <1>1, SerialAssumption
  <1> QED BY <1>1, <1>2, Split, ConcatProperties DEF Delivers

------------------------------------------------------------------------------
(* The transports that poll.                                               *)

Openings == {"probe", "ioctl", "dial", "connect", "alloc"}
Transfers == {"rpoll", "rclock", "drain", "wpoll", "wclock", "hwrite"}

(* A handle is open in exactly the places that close or keep it; a FIFO is *)
(* owned only by the handle that will remove it.                           *)
PHandles ==
  /\ pc \in Openings => path = "none"
  /\ pc \in Transfers => path # "none"
  /\ files = IF pc \in {"ioctl", "connect", "alloc"} \/ path \in {"node", "host"}
             THEN 1 ELSE 0
  /\ owns => fifo = "ours" /\ (pc = "alloc" \/ path = "host")

(* Outside a transfer nothing is on its way to the caller's buffer, and    *)
(* what Finstat has promised the driver still has.                         *)
PBuffers ==
  /\ pc \notin Transfers => out = <<>> /\ avail = 0
  /\ pc = "drain" /\ path = "node" => avail <= Len(buffered)

PInv == P!TypeOK /\ PHandles /\ PBuffers

(* Nothing is open at first.                                               *)
LEMMA PInit == P!Init => PInv
  <1> SUFFICES ASSUME P!Init PROVE PInv
    OBVIOUS
  <1>1. <<>> \in Seq(1..MaxBytes) /\ Len(<<>>) = 0
    BY EmptySeq
  <1>2. owns \in BOOLEAN /\ (owns => fifo = "ours" /\ (pc = "alloc" \/ path = "host"))
    BY DEF P!Init
  <1>3. fifo \in {"none", "theirs", "ours"}
    BY DEF P!Init
  <1>4. P!LineTypeOK
    BY <1>1, SerialAssumption DEF P!Init, P!LineInit, P!LineTypeOK
  <1>5. P!TypeOK
    <2>1. /\ pc = "idle" /\ status = "none" /\ path = "none" /\ target \in Polling
          /\ expired = FALSE /\ out = <<>>
      BY DEF P!Init
    <2>2. cap = 0 /\ len = 0 /\ done = 0 /\ avail = 0 /\ probed = 0 /\ files = 0
      BY DEF P!Init
    <2>3. expired \in BOOLEAN
      BY <2>1
    <2>4. /\ cap \in 0..MaxCap /\ len \in 0..MaxLen /\ done \in 0..len /\ avail \in 0..cap
          /\ probed \in 0..Nodes /\ files \in 0..1
      BY <2>2, SerialAssumption
    <2>5. out \in Seq(1..MaxBytes) /\ Len(out) <= cap
      BY <1>1, <2>1, <2>2
    <2> QED BY <1>2, <1>3, <1>4, <2>1, <2>3, <2>4, <2>5 DEF P!TypeOK
  <1>6. PHandles /\ PBuffers
    BY <1>2 DEF P!Init, PHandles, PBuffers, Openings, Transfers
  <1> QED BY <1>5, <1>6 DEF PInv

(* Opening and closing, and what opening tries on its way.                 *)
LEMMA POpens ==
  ASSUME PInv,
         \/ P!OpenFails \/ P!DosOpen \/ P!AtariOpen \/ P!HostPipe \/ P!HostTcp \/ P!Close
         \/ P!NothingToDo \/ P!OpenNode \/ P!AskNode \/ P!NoNode
         \/ P!HostDial \/ P!HostConnect \/ P!HostAlloc
  PROVE  PInv'
  <1> USE SerialAssumption DEF PInv, P!TypeOK, P!LineTypeOK, PHandles, PBuffers, Openings,
          Transfers, P!openVars, P!lineVars, P!callVars, P!fifoVars, P!Goto
  <1>1. CASE P!OpenFails
    BY <1>1 DEF P!OpenFails
  <1>2. CASE P!DosOpen
    BY <1>2 DEF P!DosOpen
  <1>3. CASE P!AtariOpen
    BY <1>3 DEF P!AtariOpen
  <1>4. CASE P!HostPipe
    <2>1. owns' \in BOOLEAN /\ fifo' \in {"none", "theirs", "ours"}
      BY <1>4 DEF P!HostPipe
    <2>2. PHandles'
      BY <1>4 DEF P!HostPipe
    <2> QED BY <1>4, <2>1, <2>2 DEF P!HostPipe
  <1>5. CASE P!HostTcp
    BY <1>5 DEF P!HostTcp
  <1>6. CASE P!Close
    <2>1. pc = "idle" /\ files' = 0 /\ path' = "none" /\ owns' = FALSE
      BY <1>6 DEF P!Close
    <2>2. PHandles'
      BY <1>6, <2>1 DEF P!Close
    <2>3. fifo' \in {"none", "theirs", "ours"}
      BY <1>6 DEF P!Close
    <2>4. owns' \in BOOLEAN
      BY <2>1
    <2> HIDE DEF PHandles
    <2> QED BY <1>6, <2>1, <2>2, <2>3, <2>4 DEF P!Close
  <1>7. CASE P!NothingToDo
    BY <1>7 DEF P!NothingToDo
  <1>8. CASE P!OpenNode
    BY <1>8 DEF P!OpenNode
  <1>9. CASE P!AskNode
    BY <1>9 DEF P!AskNode
  <1>10. CASE P!NoNode
    BY <1>10 DEF P!NoNode
  <1>11. CASE P!HostDial
    BY <1>11 DEF P!HostDial
  <1>12. CASE P!HostConnect
    BY <1>12 DEF P!HostConnect
  <1>13. CASE P!HostAlloc
    <2>1. pc = "alloc" /\ files = 1 /\ path = "none"
      BY <1>13 DEF P!HostAlloc
    <2>2. CASE path' = "host" /\ status' = "OK" /\ UNCHANGED <<files, owns>>
      BY <1>13, <2>1, <2>2 DEF P!HostAlloc
    <2>3. CASE files' = files - 1 /\ owns' = FALSE /\ status' = "NOMEM" /\ UNCHANGED path
      <3>1. owns' \in BOOLEAN
        BY <2>3
      <3>2. PHandles'
        BY <1>13, <2>1, <2>3 DEF P!HostAlloc
      <3> HIDE DEF PHandles
      <3> QED BY <1>13, <2>1, <2>3, <3>1, <3>2 DEF P!HostAlloc
    <2> QED BY <1>13, <2>2, <2>3 DEF P!HostAlloc
  <1> QED
    BY <1>1, <1>2, <1>3, <1>4, <1>5, <1>6, <1>7, <1>8, <1>9, <1>10, <1>11, <1>12, <1>13

(* A call in progress leaves the handles alone.                            *)
LEMMA PHandlesKept ==
  ASSUME PHandles, UNCHANGED P!openVars, path # "none",
         pc \in Transfers \cup {"idle"}, pc' \in Transfers \cup {"idle"}
  PROVE  PHandles'
  BY DEF PHandles, Openings, Transfers, P!openVars, P!fifoVars

(* A call that returns.                                                    *)
LEMMA PReturns ==
  ASSUME PInv, pc \in Transfers, UNCHANGED P!openVars, P!LineTypeOK',
         NEW s \in {"OK", "TIMEOUT", "ERR"}, P!Return(s)
  PROVE  PInv'
  <1>1. /\ pc' = "idle" /\ status' = s /\ out' = <<>> /\ expired' = FALSE
        /\ cap' = 0 /\ len' = 0 /\ done' = 0 /\ avail' = 0
    BY DEF P!Return
  <1>2. /\ target' = target /\ path' = path /\ probed' = probed /\ files' = files
        /\ fifo' = fifo /\ owns' = owns
    BY DEF P!openVars, P!fifoVars
  <1>3. /\ cap' \in 0..MaxCap /\ len' \in 0..MaxLen /\ done' \in 0..len' /\ avail' \in 0..cap'
    BY <1>1, SerialAssumption
  <1>4. out' \in Seq(1..MaxBytes) /\ Len(out') <= cap'
    BY <1>1, EmptySeq
  <1>5. P!TypeOK'
    <2>1. expired' \in BOOLEAN
      BY <1>1
    <2> QED BY <1>1, <1>2, <1>3, <1>4, <2>1 DEF PInv, P!TypeOK
  <1>6. PHandles'
    BY <1>1, PHandlesKept DEF PInv, PHandles
  <1>7. PBuffers'
    BY <1>1 DEF PBuffers, Transfers
  <1> QED BY <1>5, <1>6, <1>7 DEF PInv

(* A call that begins or goes on, and takes nothing off the line.          *)
LEMMA PGoesOn ==
  ASSUME PInv, path # "none", pc \in Transfers \cup {"idle"}, pc' \in Transfers,
         UNCHANGED P!openVars, UNCHANGED <<coming, buffered, got, out, status>>,
         cap' \in 0..MaxCap, pc # "idle" => cap' = cap,
         len' \in 0..MaxLen, done' \in 0..len', avail' \in 0..cap', expired' \in BOOLEAN,
         pc' = "drain" /\ path = "node" => avail' <= Len(buffered)
  PROVE  PInv'
  <1>1. /\ target' = target /\ path' = path /\ probed' = probed /\ files' = files
        /\ fifo' = fifo /\ owns' = owns
    BY DEF P!openVars, P!fifoVars
  <1>2. P!LineTypeOK'
    BY DEF PInv, P!TypeOK, P!LineTypeOK
  <1>3. out' \in Seq(1..MaxBytes) /\ Len(out') <= cap'
    <2>1. CASE pc = "idle"
      BY <2>1, EmptySeq DEF PInv, PBuffers, Transfers
    <2>2. CASE pc # "idle"
      BY <2>2 DEF PInv, P!TypeOK
    <2> QED BY <2>1, <2>2
  <1>4. P!TypeOK'
    <2>1. pc' \in {"idle", "probe", "ioctl", "dial", "connect", "alloc",
                  "rpoll", "rclock", "drain", "wpoll", "wclock", "hwrite"}
      BY DEF Transfers
    <2> QED BY <1>1, <1>2, <1>3, <2>1 DEF PInv, P!TypeOK
  <1>5. PHandles'
    BY PHandlesKept DEF PInv
  <1>6. PBuffers'
    BY <1>1 DEF PBuffers
  <1> QED BY <1>4, <1>5, <1>6 DEF PInv

(* Reading.                                                                *)
LEMMA PReads ==
  ASSUME PInv,
         \/ \E c \in 0..MaxCap : P!StartRead(c)
         \/ P!PollInput \/ P!NodeBroken \/ P!ReadClock \/ P!DrainByte \/ P!Drained
         \/ P!ReadNode \/ P!HostPollIn \/ P!HostRead
  PROVE  PInv'
  <1> USE DEF P!lineVars, P!callVars, P!Goto, Transfers
  <1>0. /\ buffered \in Seq(1..MaxBytes) /\ Len(buffered) <= RBUF /\ Len(buffered) \in Nat
        /\ got \in Seq(1..MaxBytes) /\ out \in Seq(1..MaxBytes) /\ Len(out) \in Nat
        /\ coming \in 1..MaxBytes + 1 /\ P!LineTypeOK
        /\ cap \in 0..MaxCap /\ len \in 0..MaxLen /\ done \in 0..len /\ avail \in 0..cap
        /\ expired \in BOOLEAN
    BY LenProperties DEF PInv, P!TypeOK, P!LineTypeOK
  <1>01. pc \in Transfers => path # "none"
    BY DEF PInv, PHandles
  <1>1. ASSUME NEW c \in 0..MaxCap, P!StartRead(c) PROVE PInv'
    <2>1. avail = 0
      BY <1>1 DEF P!StartRead, PInv, PBuffers
    <2>2. avail' \in 0..c
      BY <1>1, <2>1 DEF P!StartRead
    <2>3. expired' \in BOOLEAN
      BY <1>1 DEF P!StartRead
    <2> QED BY <1>0, <1>1, <2>2, <2>3, PGoesOn DEF P!StartRead
  <1>2. CASE P!PollInput
    <2>1. avail' \in 0..cap /\ (path = "node" => avail' <= Len(buffered))
      BY <1>0, <1>2 DEF P!PollInput, P!AtMost
    <2> QED BY <1>0, <1>01, <1>2, <2>1, PGoesOn DEF P!PollInput
  <1>3. CASE P!NodeBroken
    BY <1>0, <1>3, PReturns DEF P!NodeBroken, P!LineTypeOK
  <1>4. CASE P!ReadClock
    <2>1. CASE P!Return("TIMEOUT")
      BY <1>0, <1>4, <2>1, PReturns DEF P!ReadClock, P!LineTypeOK
    <2>2. CASE P!Goto("rpoll") /\ UNCHANGED <<P!callVars, status>>
      BY <1>0, <1>01, <1>4, <2>2, PGoesOn DEF P!ReadClock
    <2> QED BY <1>4, <2>1, <2>2 DEF P!ReadClock
  <1>5. CASE P!DrainByte
    <2>1. Len(buffered) \in Nat \ {0} /\ 1 \in 0..Len(buffered)
      BY <1>0, <1>5, EmptySeq DEF P!DrainByte
    <2>2. /\ SubSeq(buffered, 1, 1) \in Seq(1..MaxBytes) /\ Len(SubSeq(buffered, 1, 1)) = 1
          /\ buffered' \in Seq(1..MaxBytes) /\ Len(buffered') = Len(buffered) - 1
      <3>1. buffered \in Seq(1..MaxBytes) /\ buffered' = SubSeq(buffered, 1 + 1, Len(buffered))
        BY <1>0, <1>5 DEF P!DrainByte, P!TakeOldest
      <3> QED BY <2>1, <3>1, Split
    <2>3. out' \in Seq(1..MaxBytes) /\ Len(out') = Len(out) + 1
      BY <1>0, <1>5, <2>2, ConcatProperties DEF P!DrainByte, P!Oldest
    <2>4. /\ pc = "drain" /\ pc' = "drain" /\ path # "node" /\ path # "none" /\ path' = path
          /\ Len(out) < cap
      BY <1>01, <1>5 DEF P!DrainByte, P!openVars
    <2>5. P!LineTypeOK'
      <3>1. Len(buffered') <= RBUF
        BY <1>0, <2>2, SerialAssumption
      <3>2. coming' = coming /\ got' = got
        BY <1>5 DEF P!DrainByte
      <3> QED BY <1>0, <2>2, <3>1, <3>2 DEF P!LineTypeOK
    <2>6. P!TypeOK'
      BY <1>0, <1>5, <2>3, <2>4, <2>5 DEF P!DrainByte, P!openVars, P!fifoVars, PInv, P!TypeOK
    <2>7. PHandles'
      BY <1>5, <2>4, PHandlesKept DEF P!DrainByte, PInv
    <2> QED BY <2>4, <2>6, <2>7 DEF PInv, PBuffers
  <1>6. CASE P!Drained
    <2>1. got' \in Seq(1..MaxBytes)
      BY <1>0, <1>6, ConcatProperties DEF P!Drained
    <2> QED BY <1>0, <1>6, <2>1, PReturns DEF P!Drained, P!LineTypeOK
  <1>7. CASE P!ReadNode
    <2>1. CASE Delivers(avail) /\ P!Return("OK") /\ UNCHANGED coming
      <3>1. avail \in 0..Len(buffered)
        BY <1>0, <1>7 DEF P!ReadNode, PInv, PBuffers
      <3> QED BY <1>0, <1>7, <2>1, <3>1, Delivered, PReturns DEF P!ReadNode, P!LineTypeOK
    <2>2. CASE P!Return("ERR") /\ UNCHANGED <<coming, buffered, got>>
      BY <1>0, <1>7, <2>2, PReturns DEF P!ReadNode, P!LineTypeOK
    <2> QED BY <1>7, <2>1, <2>2 DEF P!ReadNode, Delivers, P!Oldest, P!TakeOldest
  <1>8. CASE P!HostPollIn
    <2>1. CASE P!Return("TIMEOUT")
      BY <1>0, <1>8, <2>1, PReturns DEF P!HostPollIn, P!LineTypeOK
    <2>2. CASE P!Goto("drain") /\ UNCHANGED <<P!callVars, status>>
      BY <1>0, <1>8, <2>2, PGoesOn DEF P!HostPollIn
    <2> QED BY <1>8, <2>1, <2>2 DEF P!HostPollIn
  <1>9. CASE P!HostRead
    <2> DEFINE n == P!AtMost(Len(buffered), cap)
    <2>1. n \in 0..Len(buffered)
      BY <1>0 DEF P!AtMost
    <2> HIDE DEF n
    <2>2. CASE Delivers(n) /\ P!Return("OK") /\ UNCHANGED coming
      BY <1>0, <1>9, <2>1, <2>2, Delivered, PReturns DEF P!HostRead, P!LineTypeOK
    <2>3. CASE P!Return("ERR") /\ UNCHANGED <<coming, buffered, got>>
      BY <1>0, <1>9, <2>3, PReturns DEF P!HostRead, P!LineTypeOK
    <2> QED BY <1>9, <2>2, <2>3 DEF P!HostRead, Delivers, P!Oldest, P!TakeOldest, n
  <1> QED
    BY <1>1, <1>2, <1>3, <1>4, <1>5, <1>6, <1>7, <1>8, <1>9

(* Writing.                                                                *)
LEMMA PWrites ==
  ASSUME PInv,
         \/ \E n \in 1..MaxLen : P!StartWrite(n) \/ P!WriteSome(n) \/ P!HostWrite(n)
         \/ P!WriteDone \/ P!PollOutput \/ P!WriteClock \/ P!WriteBroken
         \/ P!HostPollOut \/ P!HostHangsUp
  PROVE  PInv'
  <1> USE DEF P!lineVars, P!callVars, P!Goto, Transfers
  <1>0. /\ cap \in 0..MaxCap /\ len \in 0..MaxLen /\ done \in 0..len /\ avail \in 0..cap
        /\ expired \in BOOLEAN /\ P!LineTypeOK
    BY DEF PInv, P!TypeOK
  <1>01. pc \in Transfers => path # "none"
    BY DEF PInv, PHandles
  <1>1. ASSUME NEW n \in 1..MaxLen, P!StartWrite(n) PROVE PInv'
    <2>1. done' \in 0..len' /\ len' \in 0..MaxLen
      BY <1>1, SerialAssumption DEF P!StartWrite
    <2>2. expired' \in BOOLEAN
      BY <1>1 DEF P!StartWrite
    <2> QED BY <1>0, <1>1, <2>1, <2>2, PGoesOn DEF P!StartWrite
  <1>2. ASSUME NEW n \in 1..MaxLen, P!WriteSome(n) PROVE PInv'
    <2>1. done' \in 0..len'
      BY <1>0, <1>2 DEF P!WriteSome
    <2>2. expired' \in BOOLEAN
      BY <1>2 DEF P!WriteSome
    <2> QED BY <1>0, <1>01, <1>2, <2>1, <2>2, PGoesOn DEF P!WriteSome
  <1>3. ASSUME NEW n \in 1..MaxLen, P!HostWrite(n) PROVE PInv'
    <2>1. done' \in 0..len'
      BY <1>0, <1>3 DEF P!HostWrite
    <2>2. expired' \in BOOLEAN
      BY <1>3 DEF P!HostWrite
    <2> QED BY <1>0, <1>01, <1>3, <2>1, <2>2, PGoesOn DEF P!HostWrite
  <1>4. CASE P!WriteDone
    BY <1>0, <1>4, PReturns DEF P!WriteDone, P!LineTypeOK
  <1>5. CASE P!PollOutput
    BY <1>0, <1>01, <1>5, PGoesOn DEF P!PollOutput
  <1>6. CASE P!WriteClock
    <2>1. CASE P!Return("TIMEOUT")
      BY <1>0, <1>6, <2>1, PReturns DEF P!WriteClock, P!LineTypeOK
    <2>2. CASE P!Goto("wpoll") /\ UNCHANGED <<P!callVars, status>>
      BY <1>0, <1>01, <1>6, <2>2, PGoesOn DEF P!WriteClock
    <2> QED BY <1>6, <2>1, <2>2 DEF P!WriteClock
  <1>7. CASE P!WriteBroken
    BY <1>0, <1>7, PReturns DEF P!WriteBroken, P!LineTypeOK
  <1>8. CASE P!HostPollOut
    <2>1. CASE P!Return("TIMEOUT")
      BY <1>0, <1>8, <2>1, PReturns DEF P!HostPollOut, P!LineTypeOK
    <2>2. CASE P!Goto("hwrite") /\ UNCHANGED <<P!callVars, status>>
      BY <1>0, <1>01, <1>8, <2>2, PGoesOn DEF P!HostPollOut
    <2> QED BY <1>8, <2>1, <2>2 DEF P!HostPollOut
  <1>9. CASE P!HostHangsUp
    BY <1>0, <1>9, PReturns DEF P!HostHangsUp, P!LineTypeOK
  <1> QED
    BY <1>1, <1>2, <1>3, <1>4, <1>5, <1>6, <1>7, <1>8, <1>9

(* A byte comes in, or is dropped.                                         *)
LEMMA Arrives ==
  ASSUME P!LineTypeOK, P!Arrive, UNCHANGED got
  PROVE  P!LineTypeOK' /\ Len(buffered) <= Len(buffered')
  <1>1. coming \in 1..MaxBytes /\ Len(buffered) \in Nat
    BY SerialAssumption, LenProperties DEF P!Arrive, P!LineTypeOK
  <1>2. /\ Append(buffered, coming) \in Seq(1..MaxBytes)
        /\ Len(Append(buffered, coming)) = Len(buffered) + 1
    BY <1>1, AppendProperties DEF P!LineTypeOK
  <1>3. coming' \in 1..MaxBytes + 1 /\ got' = got
    BY <1>1, SerialAssumption DEF P!Arrive
  <1>4. CASE Len(buffered) < RBUF
    <2>1. buffered' = Append(buffered, coming)
      BY <1>4 DEF P!Arrive
    <2>2. Len(buffered') <= RBUF /\ Len(buffered) <= Len(buffered')
      BY <1>1, <1>2, <1>4, <2>1, SerialAssumption
    <2> QED BY <1>2, <1>3, <2>1, <2>2 DEF P!LineTypeOK
  <1>5. CASE ~ (Len(buffered) < RBUF)
    <2>1. buffered' = buffered
      BY <1>5 DEF P!Arrive
    <2> QED BY <1>1, <1>3, <2>1 DEF P!LineTypeOK
  <1> QED BY <1>4, <1>5

(* Every step of a polled transport keeps its invariant.                   *)
LEMMA PNext == PInv /\ P!Next => PInv'
  <1> SUFFICES ASSUME PInv, P!Next PROVE PInv'
    OBVIOUS
  <1>1. CASE P!LineStep
    <2>1. P!LineTypeOK' /\ Len(buffered) <= Len(buffered') /\ Len(buffered) \in Nat
          /\ Len(buffered') \in Nat
      BY <1>1, Arrives, LenProperties DEF P!LineStep, PInv, P!TypeOK, P!LineTypeOK
    <2>2. P!TypeOK'
      BY <1>1, <2>1 DEF P!LineStep, PInv, P!TypeOK, P!openVars, P!callVars, P!fifoVars
    <2>3. PHandles'
      BY <1>1 DEF P!LineStep, PInv, PHandles, P!openVars, P!fifoVars
    <2>4. PBuffers'
      BY <1>1, <2>1 DEF P!LineStep, PInv, P!TypeOK, PBuffers, P!openVars, P!callVars
    <2> QED BY <2>2, <2>3, <2>4 DEF PInv
  <1>2. CASE P!DeadlinePasses
    <2>1. expired' \in BOOLEAN
      BY <1>2 DEF P!DeadlinePasses
    <2>2. P!TypeOK' /\ PHandles' /\ PBuffers'
      BY <1>2, <2>1 DEF P!DeadlinePasses, PInv, P!TypeOK, P!LineTypeOK, PHandles, PBuffers,
        P!openVars, P!lineVars, P!fifoVars
    <2> QED BY <2>2 DEF PInv
  <1> QED BY <1>1, <1>2, POpens, PReads, PWrites DEF P!Next, P!CallStep

------------------------------------------------------------------------------
(* The transports that race a request against the clock.                   *)

Racings == {"poll", "clock", "abort", "finish", "query", "drain"}
Whole == IF target = "amiga" THEN {"mem", "port", "ioreq", "device"} ELSE {"mem", "in", "out"}
Closed(things) == \A r \in things : A!Needs(r) \subseteq things

(* What is held, while opening and closing as well.                        *)
AHeld ==
  /\ Closed(held)
  /\ pc = "idle" => held = IF open THEN Whole ELSE {}
  /\ pc = "opening" => ~ open
  /\ pc \in Racings => open /\ held = Whole

Working == request.state = "pending"
Asked == IF Working /\ request.op = "read" THEN request.want ELSE 0

(* Where no request can be pending; and what is stored already fits the    *)
(* caller's buffer together with what is asked for: on the Amiga a single  *)
(* byte until the drain, which asks for what the driver has.               *)
ARequest ==
  /\ pc \notin {"poll", "clock", "abort", "drain"} => ~ Working
  /\ pc \notin Racings => out = <<>>
  /\ pc \in {"query", "drain"} => target = "amiga"
  /\ request.op = "write" => request.want <= MaxLen
  /\ Len(out) + Asked <= cap
  /\ target = "amiga" /\ pc # "drain" => Len(out) + Asked <= 1
  /\ pc = "drain" => request.op = "read" /\ (Working => request.want <= Len(buffered))

AInv == A!TypeOK /\ AHeld /\ ARequest

(* The first of an order that is in a set.                                 *)
LEMMA FirstOfIs ==
  ASSUME NEW order, NEW n \in Nat, DOMAIN order = 1..n, NEW S, NEW i \in 1..n,
         order[i] \in S, \A j \in 1..i - 1 : order[j] \notin S
  PROVE  A!FirstOf(order, S) = order[i]
  <1> DEFINE Is(k) == order[k] \in S /\ \A j \in 1..k - 1 : order[j] \notin S
  <1>1. Is(i)
    OBVIOUS
  <1>2. ASSUME NEW k \in 1..n, Is(k) PROVE k = i
    <2>1. ~ (k < i)
      BY <1>2
    <2>2. ~ (i < k)
      BY <1>2
    <2> QED BY <2>1, <2>2
  <1>3. (CHOOSE k \in 1..n : Is(k)) = i
    <2> HIDE DEF Is
    <2> QED BY <1>1, <1>2
  <1> QED BY <1>3 DEF A!FirstOf

(* The same, place by place.                                               *)
LEMMA FirstOfFew ==
  ASSUME NEW order, NEW n \in {3, 4}, DOMAIN order = 1..n, NEW S
  PROVE  /\ order[1] \in S => A!FirstOf(order, S) = order[1]
         /\ order[1] \notin S /\ order[2] \in S => A!FirstOf(order, S) = order[2]
         /\ order[1] \notin S /\ order[2] \notin S /\ order[3] \in S =>
              A!FirstOf(order, S) = order[3]
         /\ n = 4 /\ order[1] \notin S /\ order[2] \notin S /\ order[3] \notin S
              /\ order[4] \in S => A!FirstOf(order, S) = order[4]
  <1>1. ASSUME NEW i \in 1..n, order[i] \in S, \A j \in 1..i - 1 : order[j] \notin S
        PROVE  A!FirstOf(order, S) = order[i]
    <2>1. n \in Nat
      OBVIOUS
    <2> QED BY <1>1, <2>1, FirstOfIs
  <1>2. 1 \in 1..n /\ 1..1 - 1 = {} /\ 2 \in 1..n /\ 1..2 - 1 = {1}
        /\ 3 \in 1..n /\ 1..3 - 1 = {1, 2} /\ (n = 4 => 4 \in 1..n) /\ 1..4 - 1 = {1, 2, 3}
    OBVIOUS
  <1>3. ASSUME order[1] \in S PROVE A!FirstOf(order, S) = order[1]
    BY <1>1, <1>2, <1>3
  <1>4. ASSUME order[1] \notin S, order[2] \in S PROVE A!FirstOf(order, S) = order[2]
    BY <1>1, <1>2, <1>4
  <1>5. ASSUME order[1] \notin S, order[2] \notin S, order[3] \in S
        PROVE  A!FirstOf(order, S) = order[3]
    BY <1>1, <1>2, <1>5
  <1>6. ASSUME n = 4, order[1] \notin S, order[2] \notin S, order[3] \notin S, order[4] \in S
        PROVE  A!FirstOf(order, S) = order[4]
    BY <1>1, <1>2, <1>6
  <1> QED BY <1>3, <1>4, <1>5, <1>6

(* What open acquires.                                                     *)
LEMMA AcquiresAll == A!ToSet(A!Acquiring) = Whole
  <1>1. CASE target = "amiga"
    <2>1. A!Acquiring = <<"mem", "port", "ioreq", "device">>
      BY <1>1 DEF A!Acquiring
    <2> QED BY <1>1, <2>1 DEF A!ToSet, Whole
  <1>2. CASE target # "amiga"
    <2>1. A!Acquiring = <<"mem", "in", "out">>
      BY <1>2 DEF A!Acquiring
    <2> QED BY <1>2, <2>1 DEF A!ToSet, Whole
  <1> QED BY <1>1, <1>2

(* The next thing that open acquires needs only what it has already.       *)
LEMMA AcquireNext ==
  ASSUME held \subseteq Whole, held # Whole, Closed(held),
         NEW r, r = A!FirstOf(A!Acquiring, Whole \ held)
  PROVE  r \in Whole /\ Closed(held \cup {r})
  <1> DEFINE missing == Whole \ held
  <1>0. r = A!FirstOf(A!Acquiring, missing)
    OBVIOUS
  <1>1. CASE target = "amiga"
    <2> DEFINE order == <<"mem", "port", "ioreq", "device">>
    <2>1. A!Acquiring = order /\ DOMAIN order = 1..4 /\ 4 \in {3, 4}
          /\ order[1] = "mem" /\ order[2] = "port" /\ order[3] = "ioreq" /\ order[4] = "device"
      BY <1>1 DEF A!Acquiring
    <2> HIDE DEF order
    <2>6. \A x \in {"mem", "port", "ioreq", "device"} : x \in missing <=> x \notin held
      BY <1>1 DEF Whole
    <2> HIDE DEF missing
    <2>2. CASE "mem" \notin held
      <3>1. r = order[1]
        BY <1>0, <2>1, <2>6, <2>2, FirstOfFew
      <3> QED BY <1>1, <2>1, <3>1 DEF Whole, Closed, A!Needs
    <2>3. CASE "mem" \in held /\ "port" \notin held
      <3>1. r = order[2]
        BY <1>0, <2>1, <2>6, <2>3, FirstOfFew
      <3> QED BY <1>1, <2>1, <2>3, <3>1 DEF Whole, Closed, A!Needs
    <2>4. CASE "mem" \in held /\ "port" \in held /\ "ioreq" \notin held
      <3>1. r = order[3]
        BY <1>0, <2>1, <2>6, <2>4, FirstOfFew
      <3> QED BY <1>1, <2>1, <2>4, <3>1 DEF Whole, Closed, A!Needs
    <2>5. CASE "mem" \in held /\ "port" \in held /\ "ioreq" \in held /\ "device" \notin held
      <3>1. r = order[4]
        BY <1>0, <2>1, <2>6, <2>5, FirstOfFew
      <3> QED BY <1>1, <2>1, <2>5, <3>1 DEF Whole, Closed, A!Needs
    <2> QED BY <1>1, <2>2, <2>3, <2>4, <2>5 DEF Whole
  <1>2. CASE target # "amiga"
    <2> DEFINE order == <<"mem", "in", "out">>
    <2>1. A!Acquiring = order /\ DOMAIN order = 1..3 /\ 3 \in {3, 4}
          /\ order[1] = "mem" /\ order[2] = "in" /\ order[3] = "out"
      BY <1>2 DEF A!Acquiring
    <2> HIDE DEF order
    <2>6. \A x \in {"mem", "in", "out"} : x \in missing <=> x \notin held
      BY <1>2 DEF Whole
    <2> HIDE DEF missing
    <2>2. CASE "mem" \notin held
      <3>1. r = order[1]
        BY <1>0, <2>1, <2>6, <2>2, FirstOfFew
      <3> QED BY <1>2, <2>1, <3>1 DEF Whole, Closed, A!Needs
    <2>3. CASE "mem" \in held /\ "in" \notin held
      <3>1. r = order[2]
        BY <1>0, <2>1, <2>6, <2>3, FirstOfFew
      <3> QED BY <1>2, <2>1, <2>3, <3>1 DEF Whole, Closed, A!Needs
    <2>4. CASE "mem" \in held /\ "in" \in held /\ "out" \notin held
      <3>1. r = order[3]
        BY <1>0, <2>1, <2>6, <2>4, FirstOfFew
      <3> QED BY <1>2, <2>1, <2>4, <3>1 DEF Whole, Closed, A!Needs
    <2> QED BY <1>2, <2>2, <2>3, <2>4 DEF Whole
  <1> QED BY <1>1, <1>2

(* The next thing that is released is one that nothing else needs.         *)
LEMMA ReleaseNext ==
  ASSUME held \subseteq Whole, held # {}, Closed(held),
         NEW r, r = A!FirstOf(A!Releasing, held)
  PROVE  Closed(held \ {r})
  <1>1. CASE target = "amiga"
    <2> DEFINE order == <<"device", "ioreq", "port", "mem">>
    <2>1. A!Releasing = order /\ DOMAIN order = 1..4 /\ 4 \in {3, 4}
          /\ order[1] = "device" /\ order[2] = "ioreq" /\ order[3] = "port" /\ order[4] = "mem"
      BY <1>1 DEF A!Releasing
    <2> HIDE DEF order
    <2>2. CASE "device" \in held
      <3>1. r = order[1]
        BY <2>1, <2>2, FirstOfFew
      <3> QED BY <1>1, <2>1, <3>1 DEF Whole, Closed, A!Needs
    <2>3. CASE "device" \notin held /\ "ioreq" \in held
      <3>1. r = order[2]
        BY <2>1, <2>3, FirstOfFew
      <3> QED BY <1>1, <2>1, <2>3, <3>1 DEF Whole, Closed, A!Needs
    <2>4. CASE "device" \notin held /\ "ioreq" \notin held /\ "port" \in held
      <3>1. r = order[3]
        BY <2>1, <2>4, FirstOfFew
      <3> QED BY <1>1, <2>1, <2>4, <3>1 DEF Whole, Closed, A!Needs
    <2>5. CASE held = {"mem"}
      <3>1. r = order[4]
        BY <2>1, <2>5, FirstOfFew
      <3> QED BY <2>1, <2>5, <3>1 DEF Closed
    <2> QED BY <1>1, <2>2, <2>3, <2>4, <2>5 DEF Whole
  <1>2. CASE target # "amiga"
    <2> DEFINE order == <<"in", "out", "mem">>
    <2>1. A!Releasing = order /\ DOMAIN order = 1..3 /\ 3 \in {3, 4}
          /\ order[1] = "in" /\ order[2] = "out" /\ order[3] = "mem"
      BY <1>2 DEF A!Releasing
    <2> HIDE DEF order
    <2>2. CASE "in" \in held
      <3>1. r = order[1]
        BY <2>1, <2>2, FirstOfFew
      <3> QED BY <1>2, <2>1, <3>1 DEF Whole, Closed, A!Needs
    <2>3. CASE "in" \notin held /\ "out" \in held
      <3>1. r = order[2]
        BY <2>1, <2>3, FirstOfFew
      <3> QED BY <1>2, <2>1, <2>3, <3>1 DEF Whole, Closed, A!Needs
    <2>4. CASE held = {"mem"}
      <3>1. r = order[3]
        BY <2>1, <2>4, FirstOfFew
      <3> QED BY <2>1, <2>4, <3>1 DEF Closed
    <2> QED BY <1>2, <2>2, <2>3, <2>4 DEF Whole
  <1> QED BY <1>1, <1>2

(* Nothing is held or asked for at first.                                  *)
LEMMA AInit == A!Init => AInv
  <1> SUFFICES ASSUME A!Init PROVE AInv
    OBVIOUS
  <1>1. /\ coming = 1 /\ buffered = <<>> /\ got = <<>> /\ target \in Racing
        /\ held = {} /\ open = FALSE /\ call = "none" /\ pc = "idle" /\ cap = 0
        /\ request = A!NoRequest /\ out = <<>> /\ expired = FALSE /\ status = "none"
    BY DEF A!Init, A!LineInit
  <1>2. <<>> \in Seq(1..MaxBytes) /\ Len(<<>>) = 0
    BY EmptySeq
  <1>3. A!LineTypeOK
    BY <1>1, <1>2, SerialAssumption DEF A!LineTypeOK
  <1>4. /\ request \in [op : {"none", "read", "write"}, want : Nat, moved : 0..MaxLen,
                       state : {"none", "pending", "done"}, aborted : BOOLEAN,
                       failed : BOOLEAN]
        /\ request.state = "none" /\ request.op = "none"
    BY <1>1, SerialAssumption DEF A!NoRequest
  <1>5. A!TypeOK
    <2>1. open \in BOOLEAN /\ expired \in BOOLEAN
      BY <1>1
    <2>2. cap \in 0..MaxCap /\ Len(out) <= cap /\ out \in Seq(1..MaxBytes)
      BY <1>1, <1>2, SerialAssumption
    <2> QED BY <1>1, <1>3, <1>4, <2>1, <2>2 DEF A!TypeOK
  <1>6. AHeld
    BY <1>1 DEF AHeld, Closed, Racings
  <1>7. ARequest
    BY <1>1, <1>2, <1>4 DEF ARequest, Working, Asked, Racings
  <1> QED BY <1>5, <1>6, <1>7 DEF AInv

Requests == [op : {"none", "read", "write"}, want : Nat, moved : 0..MaxLen,
             state : {"none", "pending", "done"}, aborted : BOOLEAN, failed : BOOLEAN]

(* The requests that are made, and the one that is none.                   *)
LEMMA RequestsMade ==
  /\ A!NoRequest \in Requests /\ A!NoRequest.state = "none" /\ A!NoRequest.op = "none"
  /\ \A op \in {"read", "write"}, n \in Nat :
       /\ A!Asking(op, n) \in Requests /\ A!Asking(op, n).state = "pending"
       /\ A!Asking(op, n).op = op /\ A!Asking(op, n).want = n
  <1>1. 0 \in Nat /\ 0 \in 0..MaxLen
    BY SerialAssumption
  <1>2. /\ A!NoRequest \in Requests /\ A!NoRequest.state = "none" /\ A!NoRequest.op = "none"
    BY <1>1 DEF A!NoRequest, Requests
  <1>3. ASSUME NEW op \in {"read", "write"}, NEW n \in Nat
        PROVE  /\ A!Asking(op, n) \in Requests /\ A!Asking(op, n).state = "pending"
               /\ A!Asking(op, n).op = op /\ A!Asking(op, n).want = n
    <2> DEFINE none == A!NoRequest
               r1 == [none EXCEPT !.op = op]
               r2 == [r1 EXCEPT !.want = n]
               r3 == [r2 EXCEPT !.state = "pending"]
    <2>1. r3 = A!Asking(op, n)
      BY DEF A!Asking
    <2>2. none \in Requests
      BY <1>2
    <2> HIDE DEF none
    <2>3. r1 \in Requests /\ r1.op = op
      BY <2>2 DEF Requests
    <2> HIDE DEF r1
    <2>4. r2 \in Requests /\ r2.op = op /\ r2.want = n
      BY <2>3 DEF Requests
    <2> HIDE DEF r2
    <2>5. r3 \in Requests /\ r3.op = op /\ r3.want = n /\ r3.state = "pending"
      BY <2>4 DEF Requests
    <2> QED BY <2>1, <2>5
  <1> QED BY <1>2, <1>3

(* Opening and closing.                                                    *)
LEMMA AOpens ==
  ASSUME AInv,
         \/ A!OpenRefused \/ A!Open \/ A!Close \/ A!NothingToDo
         \/ A!Acquire \/ A!Opened \/ A!Release \/ A!Closed
  PROVE  AInv'
  <1> USE DEF A!Goto
  <1>0. /\ A!LineTypeOK /\ held \subseteq Whole /\ Closed(held) /\ request \in Requests
        /\ out = <<>> /\ ~ Working /\ pc \in {"idle", "opening", "closing"}
    <2>1. pc \in {"idle", "opening", "closing"}
      BY DEF A!OpenRefused, A!Open, A!Close, A!NothingToDo, A!Acquire, A!Opened, A!Release,
        A!Closed
    <2> QED BY <2>1, AcquiresAll DEF AInv, A!TypeOK, AHeld, ARequest, Racings, Requests
  <1>1. UNCHANGED <<coming, buffered, got, target, request>>
    BY DEF A!OpenRefused, A!Open, A!Close, A!NothingToDo, A!Acquire, A!Opened, A!Release,
      A!Closed, A!lineVars, A!openVars
  <1>2. /\ pc' \in {"idle", "opening", "closing"} /\ call' \in {"none", "open", "close", "read", "write"}
        /\ status' \in {"none", "OK", "TIMEOUT", "ERR", "NOMEM", "UNSUPPORTED"}
        /\ out' = <<>> /\ cap' \in {cap, 0} /\ expired' \in BOOLEAN
    <2> USE DEF A!Return, AInv, A!TypeOK
    <2>1. CASE A!OpenRefused \/ A!NothingToDo
      BY <1>0, <2>1 DEF A!OpenRefused, A!NothingToDo
    <2>2. CASE A!Open \/ A!Close
      BY <1>0, <2>2 DEF A!Open, A!Close
    <2>3. CASE A!Acquire
      BY <1>0, <2>3 DEF A!Acquire
    <2>4. CASE A!Release
      BY <1>0, <2>4 DEF A!Release
    <2>5. CASE A!Opened
      <3>1. expired' = FALSE
        BY <2>5 DEF A!Opened
      <3> QED BY <1>0, <2>5, <3>1 DEF A!Opened
    <2>6. CASE A!Closed
      <3>1. expired' = FALSE
        BY <2>6 DEF A!Closed
      <3>2. PICK s \in {"none", "ERR", "NOMEM"} : A!Return(s)
        BY <2>6 DEF A!Closed
      <3>3. expired' \in BOOLEAN
        BY <3>1
      <3> QED BY <1>0, <3>2, <3>3
    <2> QED BY <2>1, <2>2, <2>3, <2>4, <2>5, <2>6
  <1>3. held' \subseteq Whole /\ open' \in BOOLEAN /\ AHeld'
    <2> USE DEF AHeld, Closed, Whole, Racings
    <2>1. CASE A!OpenRefused \/ A!Open \/ A!Close \/ A!NothingToDo
      <3>1. open' = open /\ held' = held /\ (pc' = pc \/ (pc' = "opening" /\ ~ open) \/ pc' = "closing")
        BY <2>1 DEF A!OpenRefused, A!Open, A!Close, A!NothingToDo, A!openVars
      <3>2. Closed(held)'
        BY <1>0, <3>1
      <3>3. (pc' = "idle" => pc = "idle") /\ (pc' = "opening" => ~ open) /\ pc' \notin Racings
        BY <1>0, <3>1 DEF AInv
      <3> QED BY <1>0, <1>1, <3>1, <3>2, <3>3 DEF AInv, A!TypeOK
    <2>2. CASE A!Acquire
      <3>1. pc = "opening" /\ held # Whole /\ ~ open /\ open' = open /\ pc' \in {"opening", "closing"}
        BY <2>2, AcquiresAll DEF A!Acquire, AInv
      <3>2. CASE UNCHANGED held
        BY <1>0, <1>1, <3>1, <3>2 DEF AInv, A!TypeOK
      <3>3. CASE held' # held
        <4>1. held' = held \cup {A!FirstOf(A!Acquiring, Whole \ held)}
          <5> HIDE DEF Whole
          <5> QED BY <2>2, <3>3, AcquiresAll DEF A!Acquire
        <4>2. held' \subseteq Whole /\ Closed(held')
          <5> HIDE DEF Whole, Closed
          <5> QED BY <1>0, <3>1, <4>1, AcquireNext
        <4> QED BY <1>1, <3>1, <4>2 DEF AInv, A!TypeOK
      <3> QED BY <3>2, <3>3
    <2>3. CASE A!Opened
      <3>1. held = Whole /\ held' = held /\ open' = TRUE /\ pc' = "idle"
        BY <2>3, AcquiresAll DEF A!Opened, A!Return
      <3>2. open' \in BOOLEAN
        BY <3>1
      <3> QED BY <1>0, <1>1, <3>1, <3>2
    <2>4. CASE A!Release
      <3>1. pc = "closing" /\ pc' = "closing" /\ open' = open /\ held # {}
            /\ held' = held \ {A!FirstOf(A!Releasing, held)}
        BY <2>4 DEF A!Release
      <3>2. held' \subseteq Whole /\ Closed(held')
        <4> HIDE DEF Whole, Closed
        <4> QED BY <1>0, <3>1, ReleaseNext
      <3> QED BY <1>1, <3>1, <3>2 DEF AInv, A!TypeOK
    <2>5. CASE A!Closed
      <3>1. held = {} /\ held' = {} /\ open' = FALSE /\ pc' = "idle"
        BY <2>5 DEF A!Closed, A!Return
      <3>2. open' \in BOOLEAN
        BY <3>1
      <3> QED BY <1>1, <3>1, <3>2
    <2> QED BY <2>1, <2>2, <2>3, <2>4, <2>5
  <1>4. cap' \in 0..MaxCap /\ out' \in Seq(1..MaxBytes) /\ Len(out') = 0
    BY <1>2, SerialAssumption, EmptySeq DEF AInv, A!TypeOK
  <1>5. A!TypeOK'
    <2>1. A!ToSet(A!Acquiring)' = Whole /\ A!LineTypeOK' /\ request' \in Requests
      BY <1>0, <1>1, AcquiresAll DEF A!Acquiring, A!ToSet, A!LineTypeOK
    <2>2. target' \in Racing
      BY <1>1 DEF AInv, A!TypeOK
    <2> QED BY <1>2, <1>3, <1>4, <2>1, <2>2 DEF A!TypeOK, Requests
  <1>6. ARequest'
    BY <1>0, <1>1, <1>2, <1>4 DEF ARequest, Working, Asked, Racings, AInv
  <1> QED BY <1>3, <1>5, <1>6 DEF AInv

(* A transfer leaves alone what is held.                                   *)
LEMMA AHeldKept ==
  ASSUME AHeld, UNCHANGED A!openVars, pc \in Racings \/ (pc = "idle" /\ open),
         pc' \in Racings \cup {"idle"}
  PROVE  AHeld'
  <1>1. held = Whole /\ open
    BY DEF AHeld
  <1>2. held' = held /\ open' = open /\ Whole' = Whole
    BY DEF A!openVars, Whole
  <1>3. Closed(held)'
    BY <1>2 DEF AHeld, Closed
  <1>4. pc' # "opening"
    BY DEF Racings
  <1> QED BY <1>1, <1>2, <1>3, <1>4 DEF AHeld

(* The type of the state, from the parts that a transfer's step changes.   *)
LEMMA ATyped ==
  ASSUME A!TypeOK, UNCHANGED A!openVars, A!LineTypeOK', request' \in Requests,
         call' \in {"none", "open", "close", "read", "write"},
         pc' \in Racings \cup {"idle", "opening", "closing"}, cap' \in 0..MaxCap,
         out' \in Seq(1..MaxBytes), Len(out') <= cap', expired' \in BOOLEAN,
         status' \in {"none", "OK", "TIMEOUT", "ERR", "NOMEM", "UNSUPPORTED"}
  PROVE  A!TypeOK'
  <1>1. target' = target /\ held' = held /\ open' = open
    BY DEF A!openVars
  <1>2. held' \subseteq A!ToSet(A!Acquiring)'
    BY <1>1 DEF A!TypeOK, A!ToSet, A!Acquiring
  <1>3. pc' \in {"idle", "opening", "closing", "poll", "clock", "abort", "finish", "query", "drain"}
    BY DEF Racings
  <1> QED BY <1>1, <1>2, <1>3 DEF A!TypeOK, Requests

(* A call that returns, its request done with.                             *)
LEMMA AReturns ==
  ASSUME AInv, pc \in Racings, UNCHANGED A!openVars, A!LineTypeOK',
         request' \in Requests, request'.state # "pending",
         request'.op = "write" => request'.want <= MaxLen,
         NEW s \in {"OK", "TIMEOUT", "ERR"}, A!Return(s)
  PROVE  AInv'
  <1>1. /\ pc' = "idle" /\ call' = "none" /\ status' = s /\ cap' = 0 /\ out' = <<>>
        /\ expired' = FALSE
    BY DEF A!Return
  <1>2. out' \in Seq(1..MaxBytes) /\ Len(out') = 0 /\ cap' \in 0..MaxCap
    BY <1>1, EmptySeq, SerialAssumption
  <1>3. expired' \in BOOLEAN
    BY <1>1
  <1>4. A!TypeOK'
    BY <1>1, <1>2, <1>3, ATyped DEF AInv
  <1>5. AHeld'
    BY <1>1, AHeldKept DEF AInv
  <1>6. ARequest'
    BY <1>1, <1>2 DEF ARequest, Working, Asked, Racings
  <1> QED BY <1>4, <1>5, <1>6 DEF AInv

(* A transfer that goes on with what it has.                               *)
LEMMA AGoesOn ==
  ASSUME AInv, pc \in Racings, pc' \in Racings, UNCHANGED A!openVars,
         UNCHANGED <<coming, buffered, got, call, cap, out, status>>,
         request' \in Requests, expired' \in BOOLEAN, ARequest'
  PROVE  AInv'
  <1>1. A!LineTypeOK'
    BY DEF AInv, A!TypeOK, A!LineTypeOK
  <1>2. A!TypeOK'
    BY <1>1, ATyped DEF AInv, A!TypeOK
  <1>3. AHeld'
    BY AHeldKept DEF AInv
  <1> QED BY <1>2, <1>3 DEF AInv

(* A transfer that begins.                                                 *)
LEMMA ASubmits ==
  ASSUME AInv, NEW op \in {"read", "write"}, NEW n \in Nat, A!Submit(op, n),
         cap' \in 0..MaxCap,
         op = "write" => n <= MaxLen,
         op = "read" => n <= cap' /\ (target = "amiga" => n <= 1)
  PROVE  AInv'
  <1>1. /\ pc = "idle" /\ open /\ call' = op /\ request' = A!Asking(op, n) /\ pc' = "poll"
        /\ expired' = FALSE /\ UNCHANGED <<coming, buffered, got, out, status>>
        /\ UNCHANGED A!openVars /\ target' = target
    BY DEF A!Submit, A!Goto, A!lineVars, A!openVars
  <1>2. out = <<>> /\ Len(out) = 0 /\ out \in Seq(1..MaxBytes)
    BY <1>1, EmptySeq DEF AInv, ARequest, Racings
  <1>3. /\ request' \in Requests /\ request'.state = "pending" /\ request'.op = op
        /\ request'.want = n
    BY <1>1, RequestsMade
  <1>4. A!LineTypeOK' /\ expired' \in BOOLEAN /\ Len(out') = 0 /\ out' \in Seq(1..MaxBytes)
    BY <1>1, <1>2 DEF AInv, A!TypeOK, A!LineTypeOK
  <1>5. A!TypeOK'
    <2>1. call' \in {"none", "open", "close", "read", "write"} /\ pc' \in Racings
          /\ status' \in {"none", "OK", "TIMEOUT", "ERR", "NOMEM", "UNSUPPORTED"}
          /\ Len(out') <= cap'
      BY <1>1, <1>4 DEF AInv, A!TypeOK, Racings
    <2> QED BY <1>1, <1>3, <1>4, <2>1, ATyped DEF AInv
  <1>6. AHeld'
    BY <1>1, AHeldKept DEF AInv, Racings
  <1>7. ARequest'
    BY <1>1, <1>3, <1>4 DEF ARequest, Working, Asked, Racings
  <1> QED BY <1>5, <1>6, <1>7 DEF AInv

(* The calls that begin a transfer.                                        *)
LEMMA AStarts ==
  ASSUME AInv,
         \/ \E c \in 1..MaxCap : A!AmigaRead(c) \/ A!MacRead(c)
         \/ \E n \in 1..MaxLen : A!AmigaWrite(n) \/ A!MacWrite(n)
  PROVE  AInv'
  <1>1. ASSUME NEW c \in 1..MaxCap, A!AmigaRead(c) PROVE AInv'
    <2>1. cap' = c /\ A!Submit("read", 1) /\ 1 <= cap' /\ 1 \in Nat /\ cap' \in 0..MaxCap
      BY <1>1, SerialAssumption DEF A!AmigaRead
    <2> QED BY <2>1, ASubmits
  <1>2. ASSUME NEW c \in 1..MaxCap, A!MacRead(c) PROVE AInv'
    <2>1. cap' = c /\ A!Submit("read", c) /\ c \in Nat /\ cap' \in 0..MaxCap /\ target # "amiga"
      BY <1>2, SerialAssumption DEF A!MacRead
    <2> QED BY <2>1, ASubmits
  <1>3. ASSUME NEW n \in 1..MaxLen, A!AmigaWrite(n) \/ A!MacWrite(n) PROVE AInv'
    <2>1. A!Submit("write", n) /\ n \in Nat /\ n <= MaxLen /\ cap' \in 0..MaxCap
      BY <1>3, SerialAssumption DEF A!AmigaWrite, A!MacWrite, AInv, A!TypeOK
    <2> QED BY <2>1, ASubmits
  <1> QED BY <1>1, <1>2, <1>3

(* A pending request is marked: aborted, done, failed, or further on.      *)
LEMMA RequestsMarked ==
  ASSUME request \in Requests
  PROVE  /\ \A b \in BOOLEAN :
              LET r == [request EXCEPT !.aborted = b]
              IN  r \in Requests /\ r.op = request.op /\ r.want = request.want /\ r.state = request.state
         /\ LET r == [request EXCEPT !.state = "done"]
            IN  r \in Requests /\ r.op = request.op /\ r.want = request.want /\ r.state = "done"
         /\ LET r == [request EXCEPT !.state = "done", !.failed = TRUE]
            IN  r \in Requests /\ r.op = request.op /\ r.want = request.want /\ r.state = "done"
         /\ \A m \in 0..MaxLen :
              LET r == [request EXCEPT !.moved = m]
              IN  r \in Requests /\ r.op = request.op /\ r.want = request.want /\ r.state = request.state
  <1>1. ASSUME NEW b \in BOOLEAN
        PROVE  LET r == [request EXCEPT !.aborted = b]
               IN  r \in Requests /\ r.op = request.op /\ r.want = request.want /\ r.state = request.state
    BY DEF Requests
  <1>2. LET r == [request EXCEPT !.state = "done"]
        IN  r \in Requests /\ r.op = request.op /\ r.want = request.want /\ r.state = "done"
    BY DEF Requests
  <1>3. LET r == [request EXCEPT !.state = "done", !.failed = TRUE]
        IN  r \in Requests /\ r.op = request.op /\ r.want = request.want /\ r.state = "done"
    BY DEF Requests
  <1>4. ASSUME NEW m \in 0..MaxLen
        PROVE  LET r == [request EXCEPT !.moved = m]
               IN  r \in Requests /\ r.op = request.op /\ r.want = request.want /\ r.state = request.state
    BY DEF Requests
  <1> QED BY <1>1, <1>2, <1>3, <1>4

(* The caller's steps of a transfer.                                       *)
LEMMA AGetsOn ==
  ASSUME AInv,
         \/ A!Poll \/ A!LookAtClock \/ A!GiveUp \/ A!FinishFailed \/ A!FinishWrite
         \/ A!MacFinishRead \/ A!AmigaFirstByte \/ A!AmigaQuery \/ A!AmigaDrained
  PROVE  AInv'
  <1> USE DEF A!Goto, A!lineVars, Racings
  <1>0. /\ A!LineTypeOK /\ request \in Requests /\ expired \in BOOLEAN /\ Len(buffered) \in Nat
        /\ out \in Seq(1..MaxBytes) /\ Len(out) \in Nat /\ got \in Seq(1..MaxBytes)
        /\ cap \in 0..MaxCap /\ ARequest
    BY LenProperties DEF AInv, A!TypeOK, A!LineTypeOK, Requests
  <1>1. CASE A!Poll
    <2>1. ARequest'
      BY <1>0, <1>1 DEF A!Poll, A!Pending, A!openVars, ARequest, Working, Asked
    <2> QED BY <1>0, <1>1, <2>1, AGoesOn DEF A!Poll
  <1>2. CASE A!LookAtClock
    <2>1. CASE pc' = "poll" /\ UNCHANGED request
      <3>1. ARequest'
        BY <1>0, <1>2, <2>1 DEF A!LookAtClock, A!openVars, ARequest, Working, Asked
      <3> QED BY <1>0, <1>2, <2>1, <3>1, AGoesOn DEF A!LookAtClock
    <2>2. CASE pc' = "abort" /\ request' = [request EXCEPT !.aborted = A!Pending]
      <3>1. /\ request' \in Requests /\ request'.op = request.op
            /\ request'.want = request.want /\ request'.state = request.state
        BY <1>0, <2>2, RequestsMarked DEF A!Pending
      <3>2. ARequest'
        BY <1>0, <1>2, <2>2, <3>1 DEF A!LookAtClock, A!openVars, ARequest, Working, Asked
      <3> QED BY <1>0, <1>2, <2>2, <3>1, <3>2, AGoesOn DEF A!LookAtClock
    <2> QED BY <1>2, <2>1, <2>2 DEF A!LookAtClock
  <1>3. CASE A!GiveUp \/ A!FinishFailed \/ A!FinishWrite
    <2>1. A!LineTypeOK' /\ UNCHANGED A!openVars /\ request' = A!NoRequest /\ pc \in Racings
      BY <1>0, <1>3 DEF A!GiveUp, A!FinishFailed, A!FinishWrite, A!LineTypeOK
    <2>2. A!Return("TIMEOUT") \/ A!Return("ERR") \/ A!Return("OK")
      BY <1>3 DEF A!GiveUp, A!FinishFailed, A!FinishWrite
    <2> QED BY <2>1, <2>2, RequestsMade, AReturns
  <1>4. CASE A!MacFinishRead \/ A!AmigaDrained
    <2>1. got' \in Seq(1..MaxBytes)
      BY <1>0, <1>4, ConcatProperties DEF A!MacFinishRead, A!AmigaDrained
    <2>2. A!LineTypeOK' /\ UNCHANGED A!openVars /\ request' = A!NoRequest /\ pc \in Racings
          /\ A!Return("OK")
      BY <1>0, <1>4, <2>1 DEF A!MacFinishRead, A!AmigaDrained, A!LineTypeOK
    <2> QED BY <2>2, RequestsMade, AReturns
  <1>5. CASE A!AmigaFirstByte
    <2>1. ARequest'
      BY <1>0, <1>5, RequestsMade DEF A!AmigaFirstByte, A!openVars, ARequest, Working, Asked
    <2> QED BY <1>0, <1>5, <2>1, RequestsMade, AGoesOn DEF A!AmigaFirstByte
  <1>6. CASE A!AmigaQuery
    <2> DEFINE extra == A!Extra(Len(buffered), cap - 1)
    <2>1. pc = "query" /\ ~ Working /\ Len(out) <= 1 /\ UNCHANGED <<coming, buffered>>
          /\ UNCHANGED A!openVars /\ target = "amiga" /\ target' = target /\ out' \in {out, <<>>}
      BY <1>0, <1>6 DEF A!AmigaQuery, ARequest, Working, Asked, A!openVars, A!Return
    <2>2. CASE extra > 0 /\ request' = A!Asking("read", extra) /\ pc' = "drain"
               /\ UNCHANGED <<got, call, cap, out, expired, status>>
      <3>1. extra \in Nat /\ extra <= Len(buffered) /\ extra <= cap - 1
        BY <1>0, <2>2 DEF A!Extra, A!Least
      <3> HIDE DEF extra
      <3>2. /\ request' \in Requests /\ request'.state = "pending" /\ request'.op = "read"
            /\ request'.want = extra
        BY <2>2, <3>1, RequestsMade
      <3>3. Len(out') + extra <= cap'
        BY <1>0, <2>1, <2>2, <3>1
      <3>4. ARequest'
        BY <2>1, <2>2, <3>1, <3>2, <3>3 DEF ARequest, Working, Asked
      <3> QED BY <1>0, <2>1, <2>2, <3>2, <3>4, AGoesOn
    <2>3. CASE got' = got \o out /\ A!Return("OK") /\ UNCHANGED request
      <3>1. got' \in Seq(1..MaxBytes)
        BY <1>0, <2>3, ConcatProperties
      <3>2. A!LineTypeOK'
        BY <1>0, <2>1, <3>1 DEF A!LineTypeOK
      <3>3. request' \in Requests /\ request'.state # "pending"
            /\ (request'.op = "write" => request'.want <= MaxLen)
        BY <1>0, <2>1, <2>3 DEF ARequest, Working
      <3> QED BY <2>1, <2>3, <3>2, <3>3, AReturns
    <2> QED BY <1>6, <2>2, <2>3 DEF A!AmigaQuery
  <1> QED BY <1>1, <1>2, <1>3, <1>4, <1>5, <1>6

(* The driver's steps.                                                     *)
LEMMA ADrives ==
  ASSUME AInv, A!DriverStep
  PROVE  AInv'
  <1>0. /\ A!LineTypeOK /\ request \in Requests /\ expired \in BOOLEAN /\ Len(buffered) \in Nat
        /\ buffered \in Seq(1..MaxBytes) /\ Len(buffered) <= RBUF
        /\ out \in Seq(1..MaxBytes) /\ Len(out) \in Nat /\ request.want \in Nat
        /\ request.moved \in 0..MaxLen /\ cap \in 0..MaxCap /\ ARequest
    BY LenProperties DEF AInv, A!TypeOK, A!LineTypeOK, Requests
  <1>1. request.state = "pending" /\ pc \in Racings
    BY <1>0 DEF A!DriverStep, A!ReadCompletes, A!Transmits, A!WriteCompletes, A!RequestFails,
      A!Pending, ARequest, Working, Racings
  <1>2. UNCHANGED A!openVars /\ UNCHANGED <<coming, got, call, pc, cap, expired, status>>
        /\ target' = target
    BY DEF A!DriverStep, A!ReadCompletes, A!Transmits, A!WriteCompletes, A!RequestFails,
      A!openVars, A!lineVars
  <1>3. ASSUME UNCHANGED <<buffered, out>>, request' \in Requests, request'.op = request.op,
               request'.want = request.want, request'.state \in {"pending", "done"}
        PROVE  AInv'
    <2>1. ARequest'
      BY <1>0, <1>1, <1>2, <1>3 DEF ARequest, Working, Asked
    <2> QED BY <1>0, <1>1, <1>2, <1>3, <2>1, AGoesOn
  <1>4. CASE A!Transmits
    <2>1. request.moved + 1 \in 0..MaxLen
      BY <1>0, <1>1, <1>4, SerialAssumption DEF A!Transmits, ARequest
    <2>2. request' = [request EXCEPT !.moved = request.moved + 1] /\ UNCHANGED <<buffered, out>>
      BY <1>4 DEF A!Transmits, A!lineVars
    <2> QED BY <1>0, <1>1, <1>3, <2>1, <2>2, RequestsMarked
  <1>5. CASE A!WriteCompletes \/ A!RequestFails
    <2>1. UNCHANGED <<buffered, out>>
      BY <1>5 DEF A!WriteCompletes, A!RequestFails, A!lineVars
    <2>2. \/ request' = [request EXCEPT !.state = "done"]
          \/ request' = [request EXCEPT !.state = "done", !.failed = TRUE]
      BY <1>5 DEF A!WriteCompletes, A!RequestFails
    <2> QED BY <1>0, <1>3, <2>1, <2>2, RequestsMarked
  <1>6. CASE A!ReadCompletes
    <2> DEFINE n == A!Least(request.want, Len(buffered))
    <2>1. n \in 0..Len(buffered) /\ n <= request.want
      BY <1>0 DEF A!Least
    <2>2. /\ request.op = "read" /\ request' = [request EXCEPT !.state = "done"]
          /\ out' = out \o SubSeq(buffered, 1, n)
          /\ buffered' = SubSeq(buffered, n + 1, Len(buffered))
      BY <1>6 DEF A!ReadCompletes, A!Oldest, A!TakeOldest
    <2> HIDE DEF n
    <2>3. /\ request' \in Requests /\ request'.op = "read" /\ request'.want = request.want
          /\ request'.state = "done"
      BY <1>0, <2>2, RequestsMarked
    <2>4. /\ SubSeq(buffered, 1, n) \in Seq(1..MaxBytes) /\ Len(SubSeq(buffered, 1, n)) = n
          /\ buffered' \in Seq(1..MaxBytes) /\ Len(buffered') = Len(buffered) - n
      <3>1. buffered \in Seq(1..MaxBytes)
        BY <1>0
      <3> QED BY <2>1, <2>2, <3>1, Split
    <2>5. out' \in Seq(1..MaxBytes) /\ Len(out') = Len(out) + n
      BY <1>0, <2>2, <2>4, ConcatProperties
    <2>6. Len(buffered') <= RBUF
      BY <1>0, <2>1, <2>4, SerialAssumption
    <2>7. A!LineTypeOK'
      BY <1>0, <1>2, <2>4, <2>6 DEF A!LineTypeOK
    <2>8. /\ Len(out') <= cap'
          /\ target' = "amiga" /\ pc' # "drain" => Len(out') <= 1
      BY <1>0, <1>1, <1>2, <2>1, <2>2, <2>5 DEF ARequest, Working, Asked
    <2>9. Len(out') \in Nat /\ cap' \in 0..MaxCap
      BY <1>0, <1>2, <2>1, <2>5
    <2>10. ARequest'
      BY <1>0, <1>1, <1>2, <2>3, <2>8, <2>9 DEF ARequest, Working, Asked
    <2>11. A!TypeOK'
      BY <1>0, <1>1, <1>2, <2>3, <2>5, <2>7, <2>8, ATyped DEF AInv, A!TypeOK
    <2>12. AHeld'
      BY <1>1, <1>2, AHeldKept DEF AInv
    <2> QED BY <2>10, <2>11, <2>12 DEF AInv
  <1> QED BY <1>4, <1>5, <1>6 DEF A!DriverStep

(* Every step of an asynchronous transport keeps its invariant.            *)
LEMMA ANext == AInv /\ A!Next => AInv'
  <1> SUFFICES ASSUME AInv, A!Next PROVE AInv'
    OBVIOUS
  <1>1. CASE A!LineStep
    <2>1. P!LineTypeOK /\ P!Arrive /\ UNCHANGED got /\ UNCHANGED A!openVars
          /\ UNCHANGED <<call, pc, cap, request, out, expired, status>> /\ target' = target
      BY <1>1 DEF A!LineStep, A!Arrive, P!Arrive, AInv, A!TypeOK, A!LineTypeOK, P!LineTypeOK, A!openVars
    <2>2. A!LineTypeOK' /\ Len(buffered) <= Len(buffered')
      BY <2>1, Arrives DEF A!LineTypeOK, P!LineTypeOK
    <2>3. A!TypeOK'
      <3>1. pc' \in Racings \cup {"idle", "opening", "closing"} /\ request' \in Requests
        BY <2>1 DEF AInv, A!TypeOK, Racings, Requests
      <3> QED BY <2>1, <2>2, <3>1, ATyped DEF AInv, A!TypeOK
    <2>4. AHeld'
      BY <2>1 DEF AInv, AHeld, Closed, Whole, A!openVars
    <2>5. Len(buffered) \in Nat /\ Len(buffered') \in Nat /\ request.want \in Nat
      BY <2>1, <2>2, LenProperties DEF AInv, A!TypeOK, A!LineTypeOK
    <2>6. ARequest'
      BY <2>1, <2>2, <2>5 DEF AInv, ARequest, Working, Asked
    <2> QED BY <2>3, <2>4, <2>6 DEF AInv
  <1>2. CASE A!DeadlinePasses
    <2>1. /\ expired' \in BOOLEAN /\ pc \in Racings /\ pc' \in Racings /\ UNCHANGED A!openVars
          /\ UNCHANGED <<coming, buffered, got, call, pc, cap, request, out, status>>
          /\ target' = target
      BY <1>2 DEF A!DeadlinePasses, A!openVars, A!lineVars, Racings
    <2>2. ARequest' /\ request' \in Requests
      BY <2>1 DEF AInv, A!TypeOK, Requests, ARequest, Working, Asked
    <2> QED BY <2>1, <2>2, AGoesOn
  <1> QED BY <1>1, <1>2, AOpens, AStarts, AGetsOn, ADrives DEF A!Next, A!CallStep

------------------------------------------------------------------------------
(* The transport that is linked in.                                        *)

IInv == IF Polls THEN PInv ELSE AInv

(* Whichever transport is linked in, nothing is open or asked for at first.*)
LEMMA InitIInv == Init => IInv
  <1>1. CASE P!Init
    BY <1>1, PInit DEF P!Init, Polls, IInv
  <1>2. ASSUME A!Init, path = "none", probed = 0, files = 0, fifo = "none", owns = FALSE,
               len = 0, done = 0, avail = 0
        PROVE  IInv
    <2>1. CASE Polls
      <3>1. P!Init
        BY <1>2, <2>1 DEF A!Init, A!LineInit, P!Init, P!LineInit, Polls
      <3> QED BY <2>1, <3>1, PInit DEF IInv
    <2>2. CASE ~ Polls
      BY <1>2, <2>2, AInit DEF IInv
    <2> QED BY <2>1, <2>2
  <1> QED BY <1>1, <1>2 DEF Init

(* No step changes the backend that is linked in.                          *)
LEMMA StaysLinked == Polled(P!Next) \/ Raced(A!Next) => target' = target
  <1>1. CASE Polled(P!Next)
    BY <1>1 DEF Polled, P!Next, P!CallStep, P!OpenFails, P!DosOpen, P!AtariOpen, P!HostPipe,
      P!HostTcp, P!Close, P!NothingToDo, P!StartRead, P!StartWrite, P!OpenNode, P!AskNode,
      P!NoNode, P!HostDial, P!HostConnect, P!HostAlloc, P!HostPollIn, P!HostRead,
      P!HostPollOut, P!PollInput, P!NodeBroken, P!ReadClock, P!DrainByte, P!Drained,
      P!ReadNode, P!WriteDone, P!PollOutput, P!WriteClock, P!WriteBroken, P!WriteSome,
      P!LineStep, P!DeadlinePasses, P!HostHangsUp, P!HostWrite, P!openVars
  <1>2. CASE Raced(A!Next)
    BY <1>2 DEF Raced, A!Next, A!CallStep, A!DriverStep, A!OpenRefused, A!Open, A!Close,
      A!NothingToDo, A!AmigaRead, A!MacRead, A!AmigaWrite, A!MacWrite, A!Submit, A!Acquire,
      A!Opened, A!Release, A!Closed, A!Poll, A!LookAtClock, A!GiveUp, A!FinishFailed,
      A!FinishWrite, A!MacFinishRead, A!AmigaFirstByte, A!AmigaQuery, A!AmigaDrained,
      A!ReadCompletes, A!Transmits, A!WriteCompletes, A!RequestFails, A!LineStep,
      A!DeadlinePasses, A!openVars
  <1> QED BY <1>1, <1>2

(* Its steps keep its invariant, and the other one stays at rest.          *)
LEMMA NextIInv == IInv /\ [Next]_vars => IInv'
  <1> SUFFICES ASSUME IInv, [Next]_vars PROVE IInv'
    OBVIOUS
  <1>1. CASE Polled(P!Next)
    <2>1. PInv' /\ Polls
      BY <1>1, PNext DEF Polled, IInv
    <2>2. target' = target
      BY <1>1, StaysLinked
    <2> QED BY <2>1, <2>2 DEF IInv, Polls
  <1>2. CASE Raced(A!Next)
    <2>1. AInv' /\ ~ Polls
      BY <1>2, ANext DEF Raced, IInv
    <2>2. target' = target
      BY <1>2, StaysLinked
    <2> QED BY <2>1, <2>2 DEF IInv, Polls
  <1>3. CASE UNCHANGED vars
    <2>1. UNCHANGED <<coming, buffered, got, target, pc, cap, out, expired, status>>
          /\ UNCHANGED <<path, probed, files, fifo, owns, len, done, avail>>
          /\ UNCHANGED <<held, open, call, request>>
      BY <1>3 DEF vars, lineVars, polledOnly, asyncOnly
    <2>2. CASE Polls
      <3>1. PInv
        BY <2>2 DEF IInv
      <3>2. PInv'
        BY <2>1, <3>1 DEF PInv, P!TypeOK, P!LineTypeOK, PHandles, PBuffers
      <3> QED BY <2>1, <2>2, <3>2 DEF IInv, Polls
    <2>3. CASE ~ Polls
      <3>1. AInv
        BY <2>3 DEF IInv
      <3>2. A!TypeOK' /\ AHeld'
        BY <2>1, <3>1 DEF AInv, A!TypeOK, A!LineTypeOK, A!ToSet, A!Acquiring, AHeld, Closed, Whole
      <3>3. ARequest'
        BY <2>1, <3>1 DEF AInv, ARequest, Working, Asked
      <3> QED BY <2>1, <2>3, <3>2, <3>3 DEF IInv, AInv, Polls
    <2> QED BY <2>2, <2>3
  <1> QED BY <1>1, <1>2, <1>3 DEF Next

(* The invariant is always true.                                           *)
LEMMA AlwaysIInv == Spec => []IInv
  BY InitIInv, NextIInv, PTL DEF Spec

(***************************************************************************)
(* Every variable of the transport that is linked in has its type: no byte *)
(* is stored past out_cap, and no counter leaves its range.                *)
(***************************************************************************)
THEOREM SerialTypeOK == Spec => []TypeOK
  <1>1. IInv => TypeOK
    BY DEF IInv, PInv, AInv, TypeOK
  <1> QED BY <1>1, AlwaysIInv, PTL

(***************************************************************************)
(* transport_amiga.c and transport_mac.c: whenever a request completes,    *)
(* when a call has returned the driver no longer works on it, and the one  *)
(* request is never submitted twice.                                       *)
(***************************************************************************)
THEOREM RequestsGivenBack == Spec => []BufferReleased
  <1>1. IInv => BufferReleased
    BY DEF IInv, AInv, ARequest, Working, BufferReleased, A!BufferReleased, A!Pending
  <1> QED BY <1>1, AlwaysIInv, PTL

(***************************************************************************)
(* transport_amiga.c: the second CMD_READ, which has no deadline, asks for *)
(* bytes that the driver has and that the caller's buffer has room for.    *)
(***************************************************************************)
THEOREM DrainsAtOnce == Spec => []DrainNeverWaits
  <1>1. IInv => DrainNeverWaits
    <2> SUFFICES ASSUME AInv, ~ Polls, pc = "drain" PROVE A!DrainNeverWaits
      BY DEF IInv, DrainNeverWaits, A!DrainNeverWaits
    <2> QED BY DEF AInv, ARequest, Working, Asked, A!DrainNeverWaits, A!Pending
  <1> QED BY <1>1, AlwaysIInv, PTL

(***************************************************************************)
(* plat_transport_open and plat_transport_close of six backends: whatever  *)
(* fails, everything acquired is given back, each thing after what needs   *)
(* it; an open transport has exactly its own handle; and only a FIFO of    *)
(* its own making is removed.                                              *)
(***************************************************************************)
THEOREM LinksClosed == Spec => []NothingLeaks
  <1>1. IInv => NothingLeaks
    <2>1. ASSUME PInv PROVE P!OneHandle
      BY <2>1 DEF PInv, PHandles, Openings, Transfers, P!OneHandle
    <2>2. ASSUME AInv PROVE A!NothingLeaks
      BY <2>2, AcquiresAll DEF AInv, AHeld, Closed, A!NothingLeaks
    <2> QED BY <2>1, <2>2 DEF IInv, NothingLeaks
  <1> QED BY <1>1, AlwaysIInv, PTL

------------------------------------------------------------------------------
(***************************************************************************)
(* The contract of the seam.  What Transport sees of the transport that is *)
(* linked in, and one lemma for each of its steps.                         *)
(***************************************************************************)
Waiting == out \o buffered
Calling == IF Polls THEN P!Doing ELSE A!Doing
Left == IF Polls THEN len - done ELSE A!Unsent
MayLose == IF Polls THEN 0 ELSE MaxCap

(* What Transport does not see is a stutter.                               *)
LEMMA LinkStays ==
  ASSUME UNCHANGED <<coming, Waiting, got, Calling, cap, Left, status>>
  PROVE  UNCHANGED Link!vars
  BY DEF Link!vars, Waiting, Calling, Left

(* A byte comes in.                                                        *)
LEMMA LinkArrives ==
  ASSUME coming' = coming + 1, Waiting' \in {Waiting, Append(Waiting, coming)},
         UNCHANGED <<got, Calling, cap, Left, status>>
  PROVE  Link!Next
  BY DEF Link!Next, Link!Arrive, Waiting, Calling, Left

(* A read begins.                                                          *)
LEMMA LinkReads ==
  ASSUME NEW c \in 0..MaxCap, Calling = "idle", Calling' = "read", cap' = c,
         UNCHANGED <<coming, Waiting, got, Left, status>>
  PROVE  Link!Next
  BY DEF Link!Next, Link!StartRead, Waiting, Calling, Left

(* A read delivers the n oldest bytes.                                     *)
LEMMA LinkDelivers ==
  ASSUME Calling = "read", Calling' = "idle", cap' = 0, status' = "OK",
         UNCHANGED <<coming, Left>>,
         NEW n \in 1..cap, n <= Len(Waiting), got' = got \o SubSeq(Waiting, 1, n),
         Waiting' = SubSeq(Waiting, n + 1, Len(Waiting))
  PROVE  Link!Next
  <1>1. Link!Deliver(n)
    BY DEF Link!Deliver, Waiting
  <1> QED BY <1>1 DEF Link!Next, Link!EndRead, Waiting, Calling, Left

(* A read times out, and loses n bytes.                                    *)
LEMMA LinkTimesOut ==
  ASSUME Calling = "read", Calling' = "idle", cap' = 0, status' = "TIMEOUT",
         UNCHANGED <<coming, Left, got>>,
         NEW n \in 0..MayLose, n <= Len(Waiting),
         Waiting' = SubSeq(Waiting, n + 1, Len(Waiting))
  PROVE  Link!Next
  <1>1. Link!Forget(n)
    BY DEF Link!Forget, Waiting
  <1> QED BY <1>1 DEF Link!Next, Link!EndRead, Waiting, Calling, Left, MayLose

(* A read fails.                                                           *)
LEMMA LinkFails ==
  ASSUME Calling = "read", Calling' = "idle", cap' = 0, status' = "ERR",
         UNCHANGED <<coming, Left, got>>,
         Waiting' = SubSeq(Waiting, 0 + 1, Len(Waiting))
  PROVE  Link!Next
  <1>1. Link!Forget(0)
    BY DEF Link!Forget, Waiting
  <1> QED BY <1>1 DEF Link!Next, Link!EndRead, Waiting, Calling, Left

(* A write begins.                                                         *)
LEMMA LinkWrites ==
  ASSUME NEW n \in 1..MaxLen, Calling = "idle", Calling' = "write", Left' = n,
         UNCHANGED <<coming, Waiting, got, cap, status>>
  PROVE  Link!Next
  BY DEF Link!Next, Link!StartWrite, Waiting, Calling, Left

(* A write puts bytes on the line.                                         *)
LEMMA LinkSends ==
  ASSUME Calling = "write", Left' \in 0..Left - 1,
         UNCHANGED <<coming, Waiting, got, Calling, cap, status>>
  PROVE  Link!Next
  BY DEF Link!Next, Link!Send, Waiting, Calling, Left

(* A write ends.                                                           *)
LEMMA LinkWritten ==
  ASSUME Calling = "write", Calling' = "idle", Left' = 0,
         status' \in {"OK", "TIMEOUT", "ERR"}, status' = "OK" => Left = 0,
         UNCHANGED <<coming, Waiting, got, cap>>
  PROVE  Link!Next
  BY DEF Link!Next, Link!EndWrite, Waiting, Calling, Left

(* A call that has nothing to do with the line.                            *)
LEMMA LinkAside ==
  ASSUME Calling = "idle", status' \in {"none", "OK", "ERR", "NOMEM", "UNSUPPORTED"},
         UNCHANGED <<coming, Waiting, got, Calling, cap, Left>>
  PROVE  Link!Next
  BY DEF Link!Next, Link!Trivial, Waiting, Calling, Left

(* Sequences: what is stored and what the driver keeps, one after another. *)
LEMMA Taken ==
  ASSUME NEW S, NEW a \in Seq(S), NEW b \in Seq(S), NEW n \in 0..Len(b)
  PROVE  (a \o SubSeq(b, 1, n)) \o SubSeq(b, n + 1, Len(b)) = a \o b
  <1> DEFINE x == SubSeq(b, 1, n)
             y == SubSeq(b, n + 1, Len(b))
  <1>1. x \in Seq(S) /\ y \in Seq(S)
    BY Split
  <1>2. x \o y = b
    <2>1. /\ 1 \in 1..Len(b) + 1 /\ n \in 1 - 1..Len(b) /\ Len(b) \in n..Len(b)
          /\ Len(b) \in Nat
      BY LenProperties
    <2> QED BY <2>1, ConcatAdjacentSubSeq, SubSeqFull
  <1> HIDE DEF x, y
  <1>3. (a \o x) \o y = a \o (x \o y)
    BY <1>1, ConcatAssociative, SMTT(20)
  <1>4. (a \o x) \o y = a \o b
    BY <1>2, <1>3
  <1> QED BY <1>4 DEF x, y

(* The two parts of a concatenation.                                       *)
LEMMA Concats ==
  ASSUME NEW S, NEW a \in Seq(S), NEW b \in Seq(S)
  PROVE  /\ SubSeq(a \o b, 1, Len(a)) = a
         /\ SubSeq(a \o b, Len(a) + 1, Len(a \o b)) = b
         /\ Len(a) <= Len(a \o b) /\ a \o b \in Seq(S)
         /\ SubSeq(b, 0 + 1, Len(b)) = b /\ <<>> \o b = b
  <1>1. Len(a) \in Nat /\ Len(b) \in Nat /\ Len(a \o b) = Len(a) + Len(b) /\ a \o b \in Seq(S)
    BY LenProperties, ConcatProperties
  <1>2. SubSeq(a \o b, 1, Len(a)) = a
    <2>1. CASE Len(a) = 0
      <3>1. a = <<>> /\ SubSeq(a \o b, 1, 0) = <<>>
        BY <2>1, EmptySeq, SubSeqEmpty
      <3> QED BY <2>1, <3>1
    <2>2. CASE Len(a) # 0
      <3>1. 1 \in 1..Len(a) /\ Len(a) \in 1..Len(a)
        BY <1>1, <2>2
      <3> QED BY <3>1, SubSeqOfConcat1, SubSeqFull
    <2> QED BY <2>1, <2>2
  <1>3. SubSeq(a \o b, Len(a) + 1, Len(a \o b)) = b
    <2> DEFINE s == SubSeq(a \o b, Len(a) + 1, Len(a \o b))
    <2>1. CASE Len(b) = 0
      <3>1. b = <<>> /\ Len(a \o b) < Len(a) + 1
        BY <1>1, <2>1, EmptySeq
      <3>2. s = <<>>
        BY <1>1, <3>1, SubSeqEmpty
      <3> QED BY <3>1, <3>2
    <2>2. CASE Len(b) # 0
      <3> DEFINE m == Len(a) + 1
                 n == Len(a) + Len(b)
      <3>1. m \in Len(a) + 1..Len(a) + Len(b) /\ n \in Len(a) + 1..Len(a) + Len(b)
            /\ m - Len(a) = 1 /\ n - Len(a) = Len(b)
        BY <1>1, <2>2
      <3>2. SubSeq(a \o b, m, n) = SubSeq(b, m - Len(a), n - Len(a))
        <4> HIDE DEF m, n
        <4> QED BY <3>1, SubSeqOfConcat2
      <3> QED BY <1>1, <3>1, <3>2, SubSeqFull
    <2> QED BY <2>1, <2>2
  <1>4. SubSeq(b, 1, Len(b)) = b /\ <<>> \o b = b
    BY SubSeqFull, ConcatEmptySeq
  <1>6. 0 + 1 = 1 /\ Len(a) <= Len(a) + Len(b)
    BY <1>1
  <1> QED BY <1>1, <1>2, <1>3, <1>4, <1>6

------------------------------------------------------------------------------
(* The polled transports keep the contract.                                *)
Reading == {"rpoll", "rclock", "drain"}
Writing == {"wpoll", "wclock", "hwrite"}

(* What a call has asked for is gone when the call is over, a read asks    *)
(* for something, nothing is stored before the driver has been asked, and  *)
(* whoever goes to fetch bytes finds some.                                 *)
PCalls ==
  /\ pc \notin Reading => cap = 0
  /\ pc \notin Writing => len = 0
  /\ pc # "drain" \/ path \in {"node", "host"} => out = <<>>
  /\ pc \in Reading /\ path # "host" => cap > 0
  /\ pc = "drain" => Len(out) + Len(buffered) > 0
  /\ pc = "drain" /\ path = "node" => avail > 0

(* What Transport sees of a polled transport.                              *)
LEMMA PSees ==
  ASSUME Polls, target' = target
  PROVE  /\ pc \in Reading => Calling = "read"
         /\ pc \in Writing => Calling = "write"
         /\ pc \notin Reading \cup Writing => Calling = "idle"
         /\ pc' \in Reading => Calling' = "read"
         /\ pc' \in Writing => Calling' = "write"
         /\ pc' \notin Reading \cup Writing => Calling' = "idle"
         /\ Left = len - done /\ Left' = len' - done' /\ MayLose = 0
  BY DEF Polls, Calling, Left, MayLose, P!Doing, Reading, Writing

PSteps == PCalls' /\ (Link!Next \/ UNCHANGED Link!vars)

(* Opening and closing.                                                    *)
LEMMA POpensAside ==
  ASSUME PInv, PCalls, Polls,
         \/ P!OpenFails \/ P!DosOpen \/ P!AtariOpen \/ P!HostPipe \/ P!HostTcp \/ P!Close
         \/ P!NothingToDo \/ P!OpenNode \/ P!AskNode \/ P!NoNode
         \/ P!HostDial \/ P!HostConnect \/ P!HostAlloc
  PROVE  PSteps
  <1>1. /\ pc \notin Transfers /\ pc' \notin Transfers /\ target' = target
        /\ UNCHANGED <<coming, buffered, got, cap, len, done, avail, out, expired>>
        /\ status' \in {status, "none", "OK", "ERR", "NOMEM", "UNSUPPORTED"}
    BY DEF P!OpenFails, P!DosOpen, P!AtariOpen, P!HostPipe, P!HostTcp, P!Close, P!NothingToDo,
      P!OpenNode, P!AskNode, P!NoNode, P!HostDial, P!HostConnect, P!HostAlloc, P!openVars,
      P!lineVars, P!callVars, P!Goto, Transfers
  <1>2. Calling = "idle" /\ Calling' = "idle" /\ Left' = Left
    BY <1>1, PSees DEF Transfers, Reading, Writing
  <1>3. Waiting' = Waiting
    BY <1>1 DEF Waiting
  <1>4. PCalls'
    BY <1>1 DEF PCalls, Transfers, Reading, Writing
  <1>5. CASE status' = status
    BY <1>1, <1>2, <1>3, <1>4, <1>5, LinkStays DEF PSteps
  <1>6. CASE status' # status
    BY <1>1, <1>2, <1>3, <1>4, <1>6, LinkAside DEF PSteps
  <1> QED BY <1>5, <1>6

(* A turn of a loop: nothing is moved, and only what is there is fetched.  *)
PTurn ==
  /\ UNCHANGED P!openVars
  /\ \/ pc \in Reading /\ pc' \in Reading
     \/ pc \in Writing /\ pc' \in Writing
  /\ pc = "drain" => pc' = "drain"
  /\ UNCHANGED <<coming, buffered, got, cap, len, done, out, status>>
  /\ pc' = "drain" => Len(buffered) > 0 \/ pc = "drain"
  /\ pc' = "drain" /\ path = "node" => avail' > 0

(* Such a turn is a stutter.                                               *)
LEMMA PTurns ==
  ASSUME PInv, PCalls, Polls, PTurn
  PROVE  PSteps
  <1> USE DEF PTurn
  <1>1. target' = target /\ path' = path
    BY DEF P!openVars
  <1>2. Calling' = Calling /\ Left' = Left /\ Waiting' = Waiting
    BY <1>1, PSees DEF Waiting, Reading, Writing
  <1>3. Len(out) \in Nat /\ Len(buffered) \in Nat
    BY LenProperties DEF PInv, P!TypeOK, P!LineTypeOK
  <1>4. PCalls'
    BY <1>1, <1>3 DEF PCalls, Reading, Writing
  <1> QED BY <1>2, <1>4, LinkStays DEF PSteps

(* A call that returns.                                                    *)
LEMMA PForgets ==
  ASSUME PCalls, NEW s, P!Return(s)
  PROVE  /\ pc' = "idle" /\ status' = s /\ PCalls' /\ cap' = 0 /\ len' = 0 /\ done' = 0
         /\ out' = <<>>
  BY DEF P!Return, PCalls, Reading, Writing

(* A read that delivers nothing.                                           *)
LEMMA PReadEnds ==
  ASSUME PInv, PCalls, Polls, pc \in Reading, UNCHANGED P!openVars, out = <<>>,
         NEW s \in {"TIMEOUT", "ERR"}, P!Return(s), UNCHANGED <<coming, buffered, got>>
  PROVE  PSteps
  <1>1. target' = target /\ pc' \notin Reading \cup Writing
    BY PForgets DEF P!openVars, Reading, Writing
  <1>2. Calling = "read" /\ Calling' = "idle" /\ Left = len - done /\ Left' = len' - done'
        /\ MayLose = 0
    BY <1>1, PSees
  <1>3. len = 0 /\ done = 0 /\ PCalls' /\ status' = s /\ cap' = 0 /\ len' = 0 /\ done' = 0
        /\ out' = <<>>
    BY PForgets DEF PInv, P!TypeOK, PCalls, Reading, Writing
  <1>4. Waiting' = Waiting /\ Waiting' = SubSeq(Waiting, 0 + 1, Len(Waiting))
        /\ Len(Waiting) \in Nat
    <2>1. buffered \in Seq(1..MaxBytes) /\ Waiting = buffered /\ Waiting' = buffered
      BY <1>3, Concats DEF PInv, P!TypeOK, P!LineTypeOK, Waiting
    <2> QED BY <2>1, Concats, LenProperties
  <1>5. Left' = Left
    BY <1>2, <1>3
  <1>6. CASE s = "ERR"
    BY <1>2, <1>3, <1>4, <1>5, <1>6, LinkFails DEF PSteps
  <1>7. CASE s = "TIMEOUT"
    <2>1. 0 \in 0..MayLose /\ 0 <= Len(Waiting)
      BY <1>2, <1>4
    <2> QED BY <1>2, <1>3, <1>4, <1>5, <1>7, <2>1, LinkTimesOut DEF PSteps
  <1> QED BY <1>6, <1>7

(* A read that delivers the n oldest bytes of what has come in.            *)
LEMMA PReadDelivers ==
  ASSUME PInv, PCalls, Polls, pc \in Reading, UNCHANGED P!openVars, UNCHANGED coming,
         P!Return("OK"),
         NEW n \in 1..cap, n <= Len(Waiting), got' = got \o SubSeq(Waiting, 1, n),
         buffered' = SubSeq(Waiting, n + 1, Len(Waiting)), buffered' \in Seq(1..MaxBytes)
  PROVE  PSteps
  <1>1. target' = target /\ pc' \notin Reading \cup Writing
    BY PForgets DEF P!openVars, Reading, Writing
  <1>2. Calling = "read" /\ Calling' = "idle" /\ Left = len - done /\ Left' = len' - done'
    BY <1>1, PSees
  <1>3. len = 0 /\ done = 0 /\ PCalls' /\ status' = "OK" /\ cap' = 0 /\ len' = 0 /\ done' = 0
        /\ out' = <<>>
    BY PForgets DEF PInv, P!TypeOK, PCalls, Reading, Writing
  <1>4. Waiting' = buffered'
    BY <1>3, Concats DEF Waiting
  <1>5. Left' = Left
    BY <1>2, <1>3
  <1> QED BY <1>2, <1>3, <1>4, <1>5, LinkDelivers DEF PSteps

(* A write that returns.                                                   *)
LEMMA PWriteEnds ==
  ASSUME PInv, PCalls, Polls, pc \in Writing, UNCHANGED P!openVars,
         NEW s \in {"OK", "TIMEOUT", "ERR"}, P!Return(s), UNCHANGED <<coming, buffered, got>>,
         s = "OK" => done = len
  PROVE  PSteps
  <1>1. target' = target /\ pc' \notin Reading \cup Writing
    BY PForgets DEF P!openVars, Reading, Writing
  <1>2. Calling = "write" /\ Calling' = "idle" /\ Left = len - done /\ Left' = len' - done'
    BY <1>1, PSees
  <1>3. len \in Int /\ done \in Int
    BY DEF PInv, P!TypeOK
  <1>4. PCalls' /\ status' = s /\ cap' = cap /\ Left' = 0 /\ (s = "OK" => Left = 0)
    BY <1>2, <1>3, PForgets DEF PCalls, Reading, Writing
  <1>5. Waiting' = Waiting
    BY PForgets DEF PCalls, Waiting, Writing
  <1> QED BY <1>2, <1>4, <1>5, LinkWritten DEF PSteps

(* A polled read is a read of Transport.                                   *)
LEMMA PReadsAsPromised ==
  ASSUME PInv, PCalls, Polls,
         \/ \E c \in 0..MaxCap : (c > 0 \/ path = "host") /\ P!StartRead(c)
         \/ P!PollInput \/ P!NodeBroken \/ P!ReadClock \/ P!DrainByte \/ P!Drained
         \/ P!ReadNode \/ P!HostPollIn \/ P!HostRead
  PROVE  PSteps
  <1> USE DEF P!lineVars, P!callVars, P!Goto
  <1>0. /\ buffered \in Seq(1..MaxBytes) /\ Len(buffered) \in Nat
        /\ out \in Seq(1..MaxBytes) /\ Len(out) \in Nat /\ Len(out) <= cap
        /\ cap \in Nat /\ len \in Nat /\ done \in 0..len /\ avail \in 0..cap
    BY LenProperties, SerialAssumption DEF PInv, P!TypeOK, P!LineTypeOK
  <1>1. ASSUME NEW c \in 0..MaxCap, c > 0 \/ path = "host", P!StartRead(c) PROVE PSteps
    <2>1. /\ pc = "idle" /\ pc' = "rpoll" /\ target' = target /\ path' = path /\ cap' = c
          /\ UNCHANGED <<coming, buffered, got, len, done, avail, out, status>>
      BY <1>1 DEF P!StartRead, P!openVars
    <2>2. Calling = "idle" /\ Calling' = "read" /\ Left' = Left /\ Waiting' = Waiting
      BY <2>1, PSees DEF Reading, Writing, Waiting
    <2>3. PCalls'
      BY <1>1, <2>1 DEF PCalls, Reading, Writing
    <2> QED BY <2>1, <2>2, <2>3, LinkReads DEF PSteps
  <1>2. CASE P!PollInput
    <2>1. pc = "rpoll" /\ pc' \in {"rclock", "drain"} /\ UNCHANGED P!openVars
          /\ path # "host" /\ (pc' = "drain" => buffered # <<>>)
          /\ UNCHANGED <<coming, buffered, got, cap, len, done, out, status>>
          /\ avail' = IF path = "node" THEN P!AtMost(Len(buffered), cap) ELSE 0
      BY <1>2 DEF P!PollInput
    <2>2. pc' = "drain" => Len(buffered) > 0
      BY <1>0, <2>1, EmptySeq
    <2>3. pc' = "drain" /\ path = "node" => avail' > 0
      BY <1>0, <2>1, <2>2 DEF PCalls, P!AtMost, Reading
    <2> QED BY <2>1, <2>2, <2>3, PTurns DEF PTurn, Reading, Writing
  <1>3. CASE P!NodeBroken
    <2>1. pc \in Reading /\ UNCHANGED P!openVars /\ out = <<>> /\ P!Return("ERR")
          /\ UNCHANGED <<coming, buffered, got>>
      BY <1>3 DEF P!NodeBroken, PCalls, Reading
    <2> QED BY <2>1, PReadEnds
  <1>4. CASE P!ReadClock
    <2>1. pc = "rclock" /\ UNCHANGED P!openVars /\ out = <<>>
          /\ UNCHANGED <<coming, buffered, got>>
      BY <1>4 DEF P!ReadClock, PCalls
    <2>2. CASE P!Return("TIMEOUT")
      BY <2>1, <2>2, PReadEnds DEF Reading
    <2>3. CASE P!Goto("rpoll") /\ UNCHANGED <<P!callVars, status>>
      BY <2>1, <2>3, PTurns DEF PTurn, Reading, Writing
    <2> QED BY <1>4, <2>2, <2>3 DEF P!ReadClock
  <1>5. CASE P!DrainByte
    <2>1. /\ pc = "drain" /\ pc' = "drain" /\ target' = target /\ path' = path
          /\ path \notin {"node", "host"} /\ buffered # <<>>
          /\ UNCHANGED <<coming, got, cap, len, done, avail, status>>
          /\ out' = out \o SubSeq(buffered, 1, 1)
          /\ buffered' = SubSeq(buffered, 1 + 1, Len(buffered))
      BY <1>5 DEF P!DrainByte, P!openVars, P!Oldest, P!TakeOldest
    <2>2. 1 \in 0..Len(buffered)
      BY <1>0, <2>1, EmptySeq
    <2>3. Waiting' = Waiting
      BY <1>0, <2>1, <2>2, Taken DEF Waiting
    <2>4. Len(out') = Len(out) + 1 /\ Len(buffered') = Len(buffered) - 1
      <3> DEFINE x == SubSeq(buffered, 1, 1)
      <3>1. x \in Seq(1..MaxBytes) /\ Len(x) = 1 /\ Len(buffered') = Len(buffered) - 1
        BY <1>0, <2>1, <2>2, Split
      <3>2. out' = out \o x
        BY <2>1
      <3> HIDE DEF x
      <3>3. Len(out \o x) = Len(out) + Len(x)
        BY <1>0, <3>1, ConcatProperties
      <3> QED BY <3>1, <3>2, <3>3
    <2>5a. Len(buffered) > 0
      BY <1>0, <2>1, EmptySeq
    <2>5. Calling' = Calling /\ Left' = Left
      BY <2>1, PSees DEF Reading, Writing
    <2>6. PCalls'
      <3>1. Len(out') + Len(buffered') > 0
        BY <1>0, <2>4, <2>5a
      <3>2. cap > 0 /\ len = 0
        BY <2>1 DEF PCalls, Reading, Writing
      <3> QED BY <2>1, <3>1, <3>2 DEF PCalls, Reading, Writing
    <2> QED BY <2>1, <2>3, <2>5, <2>6, LinkStays DEF PSteps
  <1>6. CASE P!Drained
    <2>1. /\ pc = "drain" /\ path \notin {"node", "host"} /\ P!Return("OK")
          /\ Len(out) = cap \/ buffered = <<>>
          /\ got' = got \o out /\ UNCHANGED <<coming, buffered>> /\ UNCHANGED P!openVars
      BY <1>6 DEF P!Drained
    <2>2. Len(out) \in 1..cap
      BY <1>0, <2>1, EmptySeq DEF PCalls, Reading
    <2>3. /\ out = SubSeq(Waiting, 1, Len(out)) /\ Len(out) <= Len(Waiting)
          /\ buffered = SubSeq(Waiting, Len(out) + 1, Len(Waiting))
      BY <1>0, Concats DEF Waiting
    <2> QED BY <1>0, <2>1, <2>2, <2>3, PReadDelivers DEF Reading
  <1>7. ASSUME NEW n \in 1..cap, n <= Len(buffered), pc = "drain", out = <<>>, P!Return("OK"),
               got' = got \o P!Oldest(n), P!TakeOldest(n), UNCHANGED coming, UNCHANGED P!openVars
        PROVE  PSteps
    <2>1. Waiting = buffered
      BY <1>0, <1>7, Concats DEF Waiting
    <2>2. /\ got' = got \o SubSeq(Waiting, 1, n)
          /\ buffered' = SubSeq(Waiting, n + 1, Len(Waiting)) /\ n <= Len(Waiting)
      BY <1>7, <2>1 DEF P!Oldest, P!TakeOldest
    <2>3. n \in 0..Len(buffered)
      BY <1>0, <1>7
    <2>4. buffered' \in Seq(1..MaxBytes)
      BY <1>0, <2>1, <2>2, <2>3, Split
    <2> QED BY <1>7, <2>2, <2>4, PReadDelivers DEF Reading
  <1>8. CASE P!ReadNode
    <2>1. pc = "drain" /\ path = "node" /\ out = <<>> /\ UNCHANGED P!openVars
      BY <1>8 DEF P!ReadNode, PCalls
    <2>2. CASE /\ got' = got \o P!Oldest(avail) /\ P!TakeOldest(avail)
               /\ P!Return("OK") /\ UNCHANGED coming
      <3>1. avail \in 1..cap /\ avail <= Len(buffered)
        BY <1>0, <2>1 DEF PCalls, PInv, PBuffers
      <3> QED BY <1>7, <2>1, <2>2, <3>1
    <2>3. CASE P!Return("ERR") /\ UNCHANGED <<coming, buffered, got>>
      BY <2>1, <2>3, PReadEnds DEF Reading
    <2> QED BY <1>8, <2>2, <2>3 DEF P!ReadNode
  <1>9. CASE P!HostPollIn
    <2>1. pc = "rpoll" /\ path = "host" /\ out = <<>> /\ UNCHANGED P!openVars
          /\ UNCHANGED <<coming, buffered, got>>
      BY <1>9 DEF P!HostPollIn, PCalls
    <2>2. CASE P!Return("TIMEOUT")
      BY <2>1, <2>2, PReadEnds DEF Reading
    <2>3. CASE buffered # <<>> /\ P!Goto("drain") /\ UNCHANGED <<P!callVars, status>>
      <3>1. Len(buffered) > 0
        BY <1>0, <2>3, EmptySeq
      <3> QED BY <2>1, <2>3, <3>1, PTurns DEF PTurn, Reading, Writing
    <2> QED BY <1>9, <2>2, <2>3 DEF P!HostPollIn
  <1>10. CASE P!HostRead
    <2>1. pc = "drain" /\ path = "host" /\ out = <<>> /\ Len(out) = 0 /\ UNCHANGED P!openVars
      BY <1>10, EmptySeq DEF P!HostRead, PCalls
    <2> DEFINE n == P!AtMost(Len(buffered), cap)
    <2>2. CASE /\ cap > 0 /\ got' = got \o P!Oldest(n) /\ P!TakeOldest(n)
               /\ P!Return("OK") /\ UNCHANGED coming
      <3>1. n \in 1..cap /\ n <= Len(buffered)
        BY <1>0, <2>1, <2>2 DEF PCalls, P!AtMost
      <3> HIDE DEF n
      <3> QED BY <1>7, <2>1, <2>2, <3>1
    <2>3. CASE P!Return("ERR") /\ UNCHANGED <<coming, buffered, got>>
      BY <2>1, <2>3, PReadEnds DEF Reading
    <2> QED BY <1>10, <2>2, <2>3 DEF P!HostRead
  <1> QED
    BY <1>1, <1>2, <1>3, <1>4, <1>5, <1>6, <1>8, <1>9, <1>10

(* A polled write is a write of Transport.                                 *)
LEMMA PWritesAsPromised ==
  ASSUME PInv, PCalls, Polls,
         \/ \E n \in 1..MaxLen : P!StartWrite(n) \/ P!WriteSome(n) \/ P!HostWrite(n)
         \/ P!WriteDone \/ P!PollOutput \/ P!WriteClock \/ P!WriteBroken
         \/ P!HostPollOut \/ P!HostHangsUp
  PROVE  PSteps
  <1> USE DEF P!lineVars, P!callVars, P!Goto
  <1>0. len \in Nat /\ done \in 0..len /\ cap \in Nat
    BY SerialAssumption DEF PInv, P!TypeOK
  <1>1. ASSUME NEW n \in 1..MaxLen, P!StartWrite(n) PROVE PSteps
    <2>1. /\ pc = "idle" /\ pc' = "wpoll" /\ target' = target /\ path' = path
          /\ UNCHANGED <<coming, buffered, got, cap, avail, out, status>>
          /\ len' = n /\ done' = 0
      BY <1>1 DEF P!StartWrite, P!openVars
    <2>2. Calling = "idle" /\ Calling' = "write" /\ Left' = n /\ Waiting' = Waiting
      BY <2>1, PSees DEF Reading, Writing, Waiting
    <2>3. PCalls'
      BY <2>1 DEF PCalls, Reading, Writing
    <2> QED BY <2>1, <2>2, <2>3, LinkWrites DEF PSteps
  <1>2. ASSUME NEW n \in 1..MaxLen, P!WriteSome(n) \/ P!HostWrite(n) PROVE PSteps
    <2>1. /\ pc \in Writing /\ pc' \in Writing /\ target' = target /\ path' = path
          /\ UNCHANGED <<coming, buffered, got, cap, len, avail, out, status>>
          /\ done + n <= len /\ done' = done + n
      BY <1>2 DEF P!WriteSome, P!HostWrite, P!openVars, Writing
    <2>2. Calling = "write" /\ Calling' = "write" /\ Left = len - done /\ Left' = len' - done'
          /\ Waiting' = Waiting
      BY <2>1, PSees DEF Waiting
    <2>3. Left' \in 0..Left - 1
      BY <1>0, <2>1, <2>2
    <2>4. PCalls'
      BY <2>1 DEF PCalls, Reading, Writing
    <2> QED BY <2>1, <2>2, <2>3, <2>4, LinkSends DEF PSteps
  <1>3. CASE P!WriteDone
    BY <1>3, PWriteEnds DEF P!WriteDone, Writing
  <1>4. CASE P!PollOutput
    BY <1>4, PTurns DEF PTurn, P!PollOutput, Reading, Writing
  <1>5. CASE P!WriteClock
    <2>1. CASE P!Return("TIMEOUT")
      BY <1>5, <2>1, PWriteEnds DEF P!WriteClock, Writing
    <2>2. CASE P!Goto("wpoll") /\ UNCHANGED <<P!callVars, status>>
      BY <1>5, <2>2, PTurns DEF PTurn, P!WriteClock, Reading, Writing
    <2> QED BY <1>5, <2>1, <2>2 DEF P!WriteClock
  <1>6. CASE P!WriteBroken
    BY <1>6, PWriteEnds DEF P!WriteBroken, Writing
  <1>7. CASE P!HostPollOut
    <2>1. CASE P!Return("TIMEOUT")
      BY <1>7, <2>1, PWriteEnds DEF P!HostPollOut, Writing
    <2>2. CASE P!Goto("hwrite") /\ UNCHANGED <<P!callVars, status>>
      BY <1>7, <2>2, PTurns DEF PTurn, P!HostPollOut, Reading, Writing
    <2> QED BY <1>7, <2>1, <2>2 DEF P!HostPollOut
  <1>8. CASE P!HostHangsUp
    <2>1. UNCHANGED P!openVars /\ UNCHANGED <<coming, buffered, got>> /\ P!Return("ERR")
      BY <1>8 DEF P!HostHangsUp
    <2>2. CASE pc = "rpoll"
      BY <2>1, <2>2, PReadEnds DEF PCalls, Reading
    <2>3. CASE pc \in {"wpoll", "hwrite"}
      BY <2>1, <2>3, PWriteEnds DEF Writing
    <2> QED BY <1>8, <2>2, <2>3 DEF P!HostHangsUp
  <1> QED
    BY <1>1, <1>2, <1>3, <1>4, <1>5, <1>6, <1>7, <1>8

(* A byte that comes in, or is dropped, is what Transport allows.          *)
LEMMA ArrivalSeen ==
  ASSUME P!LineTypeOK, P!Arrive, UNCHANGED out, out \in Seq(1..MaxBytes)
  PROVE  coming' = coming + 1 /\ Waiting' \in {Waiting, Append(Waiting, coming)}
  <1>1. coming \in 1..MaxBytes /\ coming' = coming + 1
        /\ buffered' \in {buffered, Append(buffered, coming)}
    BY SerialAssumption DEF P!Arrive, P!LineTypeOK
  <1>2. Append(Waiting, coming) = out \o Append(buffered, coming)
    <2> DEFINE S == 1..MaxBytes
    <2>1. out \in Seq(S) /\ buffered \in Seq(S) /\ coming \in S
      BY <1>1 DEF P!LineTypeOK
    <2> HIDE DEF S
    <2>2. <<coming>> \in Seq(S) /\ out \o buffered \in Seq(S)
      BY <2>1, ConcatProperties
    <2>3. Append(out \o buffered, coming) = (out \o buffered) \o <<coming>>
      BY <2>1, <2>2, AppendIsConcat
    <2>4. Append(buffered, coming) = buffered \o <<coming>>
      BY <2>1, AppendIsConcat
    <2>5. (out \o buffered) \o <<coming>> = out \o (buffered \o <<coming>>)
      BY <2>1, <2>2, ConcatAssociative
    <2> QED BY <2>3, <2>4, <2>5 DEF Waiting
  <1> QED BY <1>1, <1>2 DEF Waiting

(* Every step of a polled transport is one of Transport's, or a stutter.   *)
LEMMA PContract ==
  ASSUME PInv, PCalls, Polls, P!Next
  PROVE  PSteps
  <1>1. CASE P!LineStep
    <2>1. /\ P!LineTypeOK /\ P!Arrive /\ out \in Seq(1..MaxBytes)
          /\ UNCHANGED <<got, pc, cap, len, done, avail, out, expired, status>>
          /\ target' = target /\ path' = path
      BY <1>1 DEF P!LineStep, PInv, P!TypeOK, P!openVars, P!callVars
    <2>2. Calling' = Calling /\ Left' = Left
      BY <2>1, PSees DEF Reading, Writing
    <2>3. Len(buffered') \in Nat /\ Len(buffered) \in Nat /\ Len(out) \in Nat
          /\ Len(buffered) <= Len(buffered')
      BY <2>1, Arrives, LenProperties DEF P!LineTypeOK
    <2>4. PCalls'
      BY <2>1, <2>3 DEF PCalls
    <2> QED BY <2>1, <2>2, <2>4, ArrivalSeen, LinkArrives DEF PSteps
  <1>2. CASE P!DeadlinePasses
    BY <1>2, PTurns DEF PTurn, P!DeadlinePasses, P!lineVars, Reading, Writing
  <1>3. ASSUME NEW c \in 0..MaxCap, c > 0 \/ path = "host", P!StartRead(c) PROVE PSteps
    BY <1>3, PReadsAsPromised
  <1> QED
    BY <1>1, <1>2, <1>3, POpensAside, PReadsAsPromised, PWritesAsPromised DEF P!Next, P!CallStep

------------------------------------------------------------------------------
(* The transports that race keep the contract.                             *)

(* While a read goes on its request says what is in the caller's buffer:   *)
(* nothing, until it is done and has not failed.  A write's request counts *)
(* the bytes that are on the line.                                         *)
AReading ==
  /\ pc # "query" => request.op = "read" /\ request.want > 0 /\ request.state # "none"
  /\ pc \notin {"query", "drain"} =>
       (out = <<>> <=> (request.state # "done" \/ request.failed))
  /\ pc \in {"query", "drain"} => out # <<>>
AWriting ==
  /\ pc \notin {"query", "drain"}
  /\ request.op = "write" /\ request.state # "none" /\ request.moved <= request.want
  /\ request.state = "done" /\ ~ request.failed => request.moved = request.want
ACalls ==
  /\ call \in {"read", "write"} <=> pc \in Racings
  /\ call # "read" => cap = 0 /\ out = <<>>
  /\ call = "read" => AReading
  /\ call = "write" => AWriting
  /\ request.state = "pending" => ~ request.failed

ASteps == ACalls' /\ (Link!Next \/ UNCHANGED Link!vars)

(* What Transport sees of a transport that races.                          *)
LEMMA ASees ==
  ASSUME ~ Polls, target' = target
  PROVE  /\ Calling = IF call \in {"read", "write"} THEN call ELSE "idle"
         /\ Calling' = IF call' \in {"read", "write"} THEN call' ELSE "idle"
         /\ Left = IF call = "write" THEN request.want - request.moved ELSE 0
         /\ Left' = IF call' = "write" THEN request'.want - request'.moved ELSE 0
         /\ MayLose = MaxCap
  BY DEF Polls, Calling, Left, MayLose, A!Doing, A!Unsent

(* Opening and closing.                                                    *)
LEMMA AOpensAside ==
  ASSUME AInv, ACalls, ~ Polls,
         \/ A!OpenRefused \/ A!Open \/ A!Close \/ A!NothingToDo
         \/ A!Acquire \/ A!Opened \/ A!Release \/ A!Closed
  PROVE  ASteps
  <1> USE DEF A!Goto, A!Return, A!openVars, A!lineVars
  <1>1. /\ pc \in {"idle", "opening", "closing"} /\ pc' \in {"idle", "opening", "closing"}
        /\ UNCHANGED <<coming, buffered, got, target, request>>
        /\ call' \in {call, "none", "open", "close"}
        /\ out' \in {out, <<>>} /\ cap' \in {cap, 0}
        /\ status' \in {status, "none", "OK", "ERR", "NOMEM", "UNSUPPORTED"}
    <2>1. CASE A!OpenRefused \/ A!Open \/ A!Close \/ A!NothingToDo
      BY <2>1 DEF A!OpenRefused, A!Open, A!Close, A!NothingToDo
    <2>2. CASE A!Acquire \/ A!Release
      BY <2>2 DEF A!Acquire, A!Release
    <2>3. CASE A!Opened
      BY <2>3 DEF A!Opened
    <2>4. CASE A!Closed
      BY <2>4 DEF A!Closed
    <2> QED BY <2>1, <2>2, <2>3, <2>4
  <1>2. call \notin {"read", "write"} /\ cap = 0 /\ out = <<>>
    BY <1>1 DEF ACalls, Racings
  <1>3. call' \notin {"read", "write"} /\ cap' = 0 /\ out' = <<>>
    BY <1>1, <1>2
  <1>4. Calling = "idle" /\ Calling' = "idle" /\ Left' = Left
    BY <1>1, <1>2, <1>3, ASees
  <1>5. Waiting' = Waiting /\ cap' = cap
    BY <1>1, <1>2, <1>3 DEF Waiting
  <1>6. ACalls'
    BY <1>1, <1>3 DEF ACalls, Racings
  <1>7. CASE status' = status
    BY <1>1, <1>4, <1>5, <1>6, <1>7, LinkStays DEF ASteps
  <1>8. CASE status' # status
    BY <1>1, <1>4, <1>5, <1>6, <1>8, LinkAside DEF ASteps
  <1> QED BY <1>7, <1>8

(* What the requests that are made say.                                    *)
LEMMA RequestsFresh ==
  ASSUME NEW op \in {"read", "write"}, NEW n \in Nat
  PROVE  /\ A!Asking(op, n).op = op /\ A!Asking(op, n).want = n /\ A!Asking(op, n).moved = 0
         /\ A!Asking(op, n).state = "pending" /\ ~ A!Asking(op, n).failed
  BY DEF A!Asking, A!NoRequest

(* A transfer that begins.                                                 *)
LEMMA AStartsAsPromised ==
  ASSUME AInv, ACalls, ~ Polls,
         \/ \E c \in 1..MaxCap : A!AmigaRead(c) \/ A!MacRead(c)
         \/ \E n \in 1..MaxLen : A!AmigaWrite(n) \/ A!MacWrite(n)
  PROVE  ASteps
  <1>1. ASSUME NEW op \in {"read", "write"}, NEW n \in Nat \ {0}, A!Submit(op, n)
        PROVE  /\ pc' = "poll" /\ call' = op /\ cap = 0 /\ out = <<>> /\ target' = target
               /\ UNCHANGED <<coming, buffered, got, out, status>> /\ Waiting' = Waiting
               /\ Calling = "idle" /\ Calling' = op
               /\ Left = 0 /\ Left' = IF op = "write" THEN n ELSE 0
               /\ request'.state = "pending" /\ ~ request'.failed
               /\ request'.op = op /\ request'.want = n /\ request'.moved = 0
    <2>1. /\ pc = "idle" /\ pc' = "poll" /\ call' = op /\ target' = target
          /\ UNCHANGED <<coming, buffered, got, out, status>> /\ request' = A!Asking(op, n)
      BY <1>1 DEF A!Submit, A!Goto, A!lineVars, A!openVars
    <2>2. /\ request'.state = "pending" /\ ~ request'.failed
          /\ request'.op = op /\ request'.want = n /\ request'.moved = 0
      <3> DEFINE r == A!Asking(op, n)
      <3>1. r.op = op /\ r.want = n /\ r.moved = 0 /\ r.state = "pending" /\ ~ r.failed
        BY RequestsFresh
      <3> HIDE DEF r
      <3> QED BY <2>1, <3>1 DEF r
    <2>3. call \notin {"read", "write"} /\ cap = 0 /\ out = <<>>
      BY <2>1 DEF ACalls, Racings
    <2>4. Calling = "idle" /\ Calling' = op /\ Left = 0 /\ Left' = IF op = "write" THEN n ELSE 0
      BY <2>1, <2>2, <2>3, ASees
    <2> QED BY <2>1, <2>2, <2>3, <2>4 DEF Waiting
  <1>2. ASSUME NEW c \in 1..MaxCap, NEW n \in 1..MaxCap, A!Submit("read", n), cap' = c
        PROVE  ASteps
    <2>1. /\ pc' = "poll" /\ call' = "read" /\ out' = <<>>
          /\ UNCHANGED <<coming, got, status>> /\ Waiting' = Waiting
          /\ Calling = "idle" /\ Calling' = "read" /\ Left' = Left
          /\ request'.state = "pending" /\ ~ request'.failed
          /\ request'.op = "read" /\ request'.want = n
      BY <1>1, <1>2
    <2>2. ACalls'
      BY <2>1 DEF ACalls, AReading, Racings
    <2>3. Link!Next
      BY <1>2, <2>1, LinkReads, SerialAssumption
    <2> QED BY <2>2, <2>3 DEF ASteps
  <1>3. ASSUME NEW n \in 1..MaxLen, A!Submit("write", n), UNCHANGED cap
        PROVE  ASteps
    <2>1. /\ pc' = "poll" /\ call' = "write" /\ out' = <<>> /\ cap' = 0
          /\ UNCHANGED <<coming, got, status>> /\ Waiting' = Waiting
          /\ Calling = "idle" /\ Calling' = "write" /\ Left' = n
          /\ request'.state = "pending" /\ ~ request'.failed
          /\ request'.op = "write" /\ request'.want = n /\ request'.moved = 0
      BY <1>1, <1>3
    <2>2. ACalls'
      BY <2>1 DEF ACalls, AWriting, Racings
    <2>3. Link!Next
      BY <1>3, <2>1, LinkWrites
    <2> QED BY <2>2, <2>3 DEF ASteps
  <1>4. ASSUME NEW c \in 1..MaxCap, A!AmigaRead(c) \/ A!MacRead(c) PROVE ASteps
    <2>1. 1 \in 1..MaxCap
      BY SerialAssumption
    <2> QED BY <1>2, <1>4, <2>1 DEF A!AmigaRead, A!MacRead
  <1>5. ASSUME NEW n \in 1..MaxLen, A!AmigaWrite(n) \/ A!MacWrite(n) PROVE ASteps
    BY <1>3, <1>5 DEF A!AmigaWrite, A!MacWrite
  <1> QED BY <1>4, <1>5

(* A step of a transfer that moves nothing.                                *)
ATurn ==
  /\ pc \in Racings /\ pc' \in Racings /\ target' = target
  /\ UNCHANGED <<coming, got, call, cap, status>> /\ Waiting' = Waiting
  /\ call = "write" => UNCHANGED <<request.want, request.moved>>

(* Such a step is a stutter.                                               *)
LEMMA ATurns ==
  ASSUME ACalls, ~ Polls, ATurn
  PROVE  UNCHANGED Link!vars
  <1>1. Calling' = Calling /\ Left' = Left
    BY ASees DEF ATurn
  <1> QED BY <1>1, LinkStays DEF ATurn

(* A call that returns.                                                    *)
LEMMA AForgets ==
  ASSUME NEW s, A!Return(s), request'.state # "pending"
  PROVE  /\ pc' = "idle" /\ call' = "none" /\ status' = s /\ cap' = 0 /\ out' = <<>>
         /\ ACalls'
  BY DEF A!Return, ACalls, Racings

(* A read that delivers nothing, and loses what is in the buffer already.  *)
LEMMA AReadEnds ==
  ASSUME AInv, ACalls, ~ Polls, call = "read", target' = target, request'.state # "pending",
         NEW s \in {"TIMEOUT", "ERR"}, A!Return(s), UNCHANGED <<coming, buffered, got>>,
         s = "ERR" => out = <<>>
  PROVE  ASteps
  <1>0. /\ buffered \in Seq(1..MaxBytes) /\ out \in Seq(1..MaxBytes) /\ Len(out) \in Nat
        /\ Len(out) <= cap /\ cap \in 0..MaxCap
    BY LenProperties DEF AInv, A!TypeOK, A!LineTypeOK
  <1>1. pc' = "idle" /\ call' = "none" /\ status' = s /\ cap' = 0 /\ out' = <<>> /\ ACalls'
    BY AForgets
  <1>2. Calling = "read" /\ Calling' = "idle" /\ Left' = Left /\ MayLose = MaxCap
    BY <1>1, ASees
  <1>3. Waiting' = buffered
    BY <1>0, <1>1, Concats DEF Waiting
  <1>4. CASE s = "ERR"
    <2>1. Waiting = buffered /\ SubSeq(buffered, 0 + 1, Len(buffered)) = buffered
      BY <1>0, <1>4, Concats DEF Waiting
    <2> QED BY <1>1, <1>2, <1>3, <1>4, <2>1, LinkFails DEF ASteps
  <1>5. CASE s = "TIMEOUT"
    <2>1. buffered = SubSeq(Waiting, Len(out) + 1, Len(Waiting)) /\ Len(out) <= Len(Waiting)
      BY <1>0, Concats DEF Waiting
    <2>2. Len(out) \in 0..MayLose
      BY <1>0, <1>2, SerialAssumption
    <2> QED BY <1>1, <1>2, <1>3, <1>5, <2>1, <2>2, LinkTimesOut DEF ASteps
  <1> QED BY <1>4, <1>5

(* A read that delivers what is in the buffer.                             *)
LEMMA AReadDelivers ==
  ASSUME AInv, ACalls, ~ Polls, call = "read", target' = target, request'.state # "pending",
         out # <<>>, A!Return("OK"), got' = got \o out, UNCHANGED <<coming, buffered>>
  PROVE  ASteps
  <1>0. /\ buffered \in Seq(1..MaxBytes) /\ out \in Seq(1..MaxBytes) /\ Len(out) \in Nat
        /\ Len(out) <= cap /\ cap \in 0..MaxCap /\ Len(out) # 0
    BY LenProperties, EmptySeq DEF AInv, A!TypeOK, A!LineTypeOK
  <1>1. pc' = "idle" /\ call' = "none" /\ status' = "OK" /\ cap' = 0 /\ out' = <<>> /\ ACalls'
    BY AForgets
  <1>2. Calling = "read" /\ Calling' = "idle" /\ Left' = Left
    BY <1>1, ASees
  <1>3. Waiting' = buffered
    BY <1>0, <1>1, Concats DEF Waiting
  <1>4. /\ buffered = SubSeq(Waiting, Len(out) + 1, Len(Waiting)) /\ Len(out) <= Len(Waiting)
        /\ out = SubSeq(Waiting, 1, Len(out))
    BY <1>0, Concats DEF Waiting
  <1>5. Len(out) \in 1..cap
    BY <1>0
  <1> QED BY <1>1, <1>2, <1>3, <1>4, <1>5, LinkDelivers DEF ASteps

(* A write that returns.                                                   *)
LEMMA AWriteEnds ==
  ASSUME AInv, ACalls, ~ Polls, call = "write", target' = target, request'.state # "pending",
         NEW s \in {"OK", "TIMEOUT", "ERR"}, A!Return(s), UNCHANGED <<coming, buffered, got>>,
         s = "OK" => request.moved = request.want
  PROVE  ASteps
  <1>1. pc' = "idle" /\ call' = "none" /\ status' = s /\ cap' = 0 /\ out' = <<>> /\ ACalls'
        /\ cap = 0 /\ out = <<>>
    BY AForgets DEF ACalls
  <1>2. request.want \in Int
    BY DEF AInv, A!TypeOK
  <1>3. Calling = "write" /\ Calling' = "idle" /\ Left' = 0 /\ (s = "OK" => Left = 0)
        /\ Waiting' = Waiting /\ cap' = cap
    BY <1>1, <1>2, ASees DEF Waiting
  <1> QED BY <1>1, <1>3, LinkWritten DEF ASteps

(* The caller's steps.                                                     *)
LEMMA ACallsAsPromised ==
  ASSUME AInv, ACalls, ~ Polls,
         \/ A!Poll \/ A!LookAtClock \/ A!GiveUp
         \/ A!FinishFailed \/ A!FinishWrite \/ A!MacFinishRead
         \/ A!AmigaFirstByte \/ A!AmigaQuery \/ A!AmigaDrained
  PROVE  ASteps
  <1> USE DEF A!Goto, A!lineVars, A!openVars
  <1>0. request \in Requests /\ pc \in Racings /\ call \in {"read", "write"} /\ target' = target
    BY DEF A!Poll, A!LookAtClock, A!GiveUp, A!FinishFailed, A!FinishWrite, A!MacFinishRead,
      A!AmigaFirstByte, A!AmigaQuery, A!AmigaDrained, AInv, A!TypeOK, Requests, ACalls, Racings
  <1>1. CASE A!Poll
    <2>1. /\ pc = "poll" /\ pc' \in {"clock", "finish"}
          /\ UNCHANGED <<coming, buffered, got, call, cap, request, out, expired, status>>
      BY <1>1 DEF A!Poll
    <2>2. ATurn
      BY <1>0, <2>1 DEF ATurn, Waiting, Racings
    <2>3. ACalls'
      BY <1>0, <2>1 DEF ACalls, AReading, AWriting, Racings
    <2> QED BY <2>2, <2>3, ATurns DEF ASteps
  <1>2. CASE A!LookAtClock
    <2>1. /\ pc = "clock" /\ pc' \in {"poll", "abort"}
          /\ UNCHANGED <<coming, buffered, got, call, cap, out, expired, status>>
          /\ request' = request \/ request' = [request EXCEPT !.aborted = A!Pending]
      BY <1>2 DEF A!LookAtClock
    <2>2. /\ request'.op = request.op /\ request'.want = request.want
          /\ request'.moved = request.moved /\ request'.state = request.state
          /\ request'.failed = request.failed
      BY <1>0, <2>1 DEF Requests
    <2>3. ATurn
      BY <1>0, <2>1, <2>2 DEF ATurn, Waiting, Racings
    <2>4. ACalls'
      BY <1>0, <2>1, <2>2 DEF ACalls, AReading, AWriting, Racings
    <2> QED BY <2>3, <2>4, ATurns DEF ASteps
  <1>3. CASE A!GiveUp
    <2>1. A!Return("TIMEOUT") /\ request'.state # "pending" /\ UNCHANGED <<coming, buffered, got>>
      BY <1>3, RequestsMade DEF A!GiveUp
    <2>2. CASE call = "read"
      BY <1>0, <2>1, <2>2, AReadEnds
    <2>3. CASE call = "write"
      BY <1>0, <2>1, <2>3, AWriteEnds
    <2> QED BY <1>0, <2>2, <2>3
  <1>4. CASE A!FinishFailed
    <2>1. A!Return("ERR") /\ request'.state # "pending" /\ UNCHANGED <<coming, buffered, got>>
          /\ pc = "finish" /\ request.failed
      BY <1>4, RequestsMade DEF A!FinishFailed
    <2>2. CASE call = "read"
      <3>1. out = <<>>
        BY <2>1, <2>2 DEF ACalls, AReading
      <3> QED BY <1>0, <2>1, <2>2, <3>1, AReadEnds
    <2>3. CASE call = "write"
      BY <1>0, <2>1, <2>3, AWriteEnds
    <2> QED BY <1>0, <2>2, <2>3
  <1>5. ASSUME pc = "finish", ~ request.failed PROVE request.state # "pending"
    BY <1>5 DEF AInv, ARequest, Working
  <1>6. CASE A!FinishWrite
    <2>1. A!Return("OK") /\ request'.state # "pending" /\ UNCHANGED <<coming, buffered, got>>
          /\ pc = "finish" /\ ~ request.failed /\ call = "write"
      BY <1>6, RequestsMade DEF A!FinishWrite
    <2>2. request.state = "done"
      BY <1>0, <1>5, <2>1 DEF ACalls, AWriting, Requests
    <2>3. request.moved = request.want
      BY <2>1, <2>2 DEF ACalls, AWriting
    <2> QED BY <1>0, <2>1, <2>3, AWriteEnds
  <1>7. CASE A!MacFinishRead
    <2>1. A!Return("OK") /\ request'.state # "pending" /\ UNCHANGED <<coming, buffered>>
          /\ pc = "finish" /\ ~ request.failed /\ call = "read" /\ got' = got \o out
      BY <1>7, RequestsMade DEF A!MacFinishRead
    <2>2. request.state = "done"
      BY <1>0, <1>5, <2>1 DEF ACalls, AReading, Requests
    <2>3. out # <<>>
      BY <2>1, <2>2 DEF ACalls, AReading
    <2> QED BY <1>0, <2>1, <2>3, AReadDelivers
  <1>8. CASE A!AmigaFirstByte
    <2>1. /\ pc = "finish" /\ pc' = "query" /\ call = "read" /\ ~ request.failed
          /\ request'.state = "none"
          /\ UNCHANGED <<coming, buffered, got, call, cap, out, expired, status>>
      BY <1>8, RequestsMade DEF A!AmigaFirstByte
    <2>2. request.state = "done"
      BY <1>0, <1>5, <2>1 DEF ACalls, AReading, Requests
    <2>3. out # <<>>
      BY <2>1, <2>2 DEF ACalls, AReading
    <2>4. ATurn
      BY <1>0, <2>1 DEF ATurn, Waiting, Racings
    <2>5. ACalls'
      BY <2>1, <2>3 DEF ACalls, AReading, Racings
    <2> QED BY <2>4, <2>5, ATurns DEF ASteps
  <1>9. CASE A!AmigaQuery
    <2> DEFINE extra == A!Extra(Len(buffered), cap - 1)
    <2>1. pc = "query" /\ call = "read" /\ out # <<>> /\ request.state # "pending"
          /\ UNCHANGED <<coming, buffered>>
      BY <1>0, <1>9 DEF A!AmigaQuery, ACalls, AReading, AWriting, AInv, ARequest, Working
    <2>2. CASE extra > 0 /\ request' = A!Asking("read", extra) /\ pc' = "drain"
               /\ UNCHANGED <<got, call, cap, out, expired, status>>
      <3>1. extra \in Nat \ {0}
        BY <2>2, LenProperties DEF A!Extra, A!Least, AInv, A!TypeOK, A!LineTypeOK
      <3> HIDE DEF extra
      <3>2. request'.state = "pending" /\ ~ request'.failed /\ request'.op = "read"
            /\ request'.want = extra
        BY <2>2, <3>1, RequestsFresh
      <3>3. ATurn
        BY <1>0, <2>1, <2>2 DEF ATurn, Waiting, Racings
      <3>4. ACalls'
        BY <2>1, <2>2, <3>1, <3>2 DEF ACalls, AReading, Racings
      <3> QED BY <3>3, <3>4, ATurns DEF ASteps
    <2>3. CASE got' = got \o out /\ A!Return("OK") /\ UNCHANGED request
      BY <1>0, <2>1, <2>3, AReadDelivers
    <2> QED BY <1>9, <2>2, <2>3 DEF A!AmigaQuery
  <1>10. CASE A!AmigaDrained
    <2>1. A!Return("OK") /\ request'.state # "pending" /\ UNCHANGED <<coming, buffered>>
          /\ pc = "drain" /\ got' = got \o out
      BY <1>10, RequestsMade DEF A!AmigaDrained
    <2>2. call = "read" /\ out # <<>>
      BY <1>0, <2>1 DEF ACalls, AReading, AWriting
    <2> QED BY <1>0, <2>1, <2>2, AReadDelivers
  <1> QED BY <1>1, <1>2, <1>3, <1>4, <1>6, <1>7, <1>8, <1>9, <1>10

(* The driver's steps.                                                     *)
LEMMA ADrivesAsPromised ==
  ASSUME AInv, ACalls, ~ Polls, A!DriverStep
  PROVE  ASteps
  <1> USE DEF A!lineVars, A!openVars, A!Pending
  <1>0. /\ request \in Requests /\ request.state = "pending" /\ pc \in Racings
        /\ call \in {"read", "write"} /\ pc # "query" /\ pc # "finish"
        /\ request.want \in Nat /\ request.moved \in Nat /\ ~ request.failed
    BY SerialAssumption DEF A!DriverStep, A!ReadCompletes, A!Transmits, A!WriteCompletes,
      A!RequestFails, AInv, A!TypeOK, Requests, ARequest, Working, ACalls, Racings
  <1>1. /\ target' = target /\ UNCHANGED <<coming, got, call, pc, cap, expired, status>>
    BY DEF A!DriverStep, A!ReadCompletes, A!Transmits, A!WriteCompletes, A!RequestFails
  <1>2. CASE A!WriteCompletes \/ A!RequestFails
    <2>1. UNCHANGED <<buffered, out>>
      BY <1>2 DEF A!WriteCompletes, A!RequestFails
    <2>2. /\ request'.op = request.op /\ request'.want = request.want
          /\ request'.moved = request.moved /\ request'.state = "done"
          /\ request'.failed \/ (~ request'.failed /\ request.op = "write"
                                 /\ request.moved = request.want)
      BY <1>0, <1>2 DEF A!WriteCompletes, A!RequestFails, Requests
    <2>3. ATurn
      BY <1>0, <1>1, <2>1, <2>2 DEF ATurn, Waiting
    <2>4. ACalls'
      BY <1>0, <1>1, <2>1, <2>2 DEF ACalls, AReading, AWriting
    <2> QED BY <2>3, <2>4, ATurns DEF ASteps
  <1>3. CASE A!Transmits
    <2>1. UNCHANGED <<buffered, out>> /\ request.op = "write" /\ request.moved < request.want
      BY <1>3 DEF A!Transmits
    <2>2. /\ request'.op = request.op /\ request'.want = request.want
          /\ request'.moved = request.moved + 1 /\ request'.state = "pending"
          /\ ~ request'.failed
      BY <1>0, <1>3 DEF A!Transmits, Requests
    <2>3. call = "write"
      BY <1>0, <2>1 DEF ACalls, AReading
    <2>4. ACalls'
      BY <1>0, <1>1, <2>1, <2>2, <2>3 DEF ACalls, AWriting
    <2>5. Calling = "write" /\ Calling' = "write" /\ Left = request.want - request.moved
          /\ Left' = request'.want - request'.moved /\ Waiting' = Waiting
      BY <1>1, <2>1, <2>3, ASees DEF Waiting
    <2>6. Left' \in 0..Left - 1
      BY <1>0, <2>1, <2>2, <2>5
    <2> QED BY <1>1, <2>4, <2>5, <2>6, LinkSends DEF ASteps
  <1>4. CASE A!ReadCompletes
    <2> DEFINE n == A!Least(request.want, Len(buffered))
    <2>1. /\ buffered \in Seq(1..MaxBytes) /\ Len(buffered) \in Nat
          /\ out \in Seq(1..MaxBytes) /\ Len(out) \in Nat
      BY LenProperties DEF AInv, A!TypeOK, A!LineTypeOK
    <2>2. /\ request.op = "read" /\ request' = [request EXCEPT !.state = "done"]
          /\ n >= IF target = "amiga" THEN request.want ELSE 1
          /\ out' = out \o SubSeq(buffered, 1, n)
          /\ buffered' = SubSeq(buffered, n + 1, Len(buffered))
      BY <1>4 DEF A!ReadCompletes, A!Oldest, A!TakeOldest
    <2>3. call = "read" /\ request.want > 0
      BY <1>0, <2>2 DEF ACalls, AReading, AWriting
    <2>4. n \in 1..Len(buffered) /\ n \in 0..Len(buffered)
      BY <1>0, <2>1, <2>2, <2>3 DEF A!Least
    <2> HIDE DEF n
    <2>5. Waiting' = Waiting
      BY <2>1, <2>2, <2>4, Taken DEF Waiting
    <2>6. out' # <<>>
      <3> DEFINE x == SubSeq(buffered, 1, n)
      <3>1. x \in Seq(1..MaxBytes) /\ Len(x) = n /\ out' = out \o x
        BY <2>1, <2>2, <2>4, Split
      <3> HIDE DEF x
      <3>2. Len(out \o x) = Len(out) + Len(x)
        BY <2>1, <3>1, ConcatProperties
      <3>3. Len(out') # 0
        BY <2>1, <2>4, <3>1, <3>2
      <3> QED BY <3>3, EmptySeq
    <2>7. /\ request'.op = "read" /\ request'.want = request.want
          /\ request'.state = "done" /\ ~ request'.failed
      BY <1>0, <2>2 DEF Requests
    <2>8. ATurn
      BY <1>0, <1>1, <2>3, <2>5 DEF ATurn
    <2>9. ACalls'
      BY <1>0, <1>1, <2>3, <2>6, <2>7 DEF ACalls, AReading
    <2> QED BY <2>8, <2>9, ATurns DEF ASteps
  <1> QED BY <1>2, <1>3, <1>4 DEF A!DriverStep

(* Every step of a transport that races is one of Transport's.             *)
LEMMA AContract ==
  ASSUME AInv, ACalls, ~ Polls, A!Next
  PROVE  ASteps
  <1>1. CASE A!LineStep
    <2>1. /\ P!LineTypeOK /\ P!Arrive /\ out \in Seq(1..MaxBytes) /\ target' = target
          /\ UNCHANGED <<got, call, pc, cap, request, out, expired, status>>
      BY <1>1 DEF A!LineStep, A!Arrive, P!Arrive, AInv, A!TypeOK, A!LineTypeOK, P!LineTypeOK,
        A!openVars
    <2>2. Calling' = Calling /\ Left' = Left
      BY <2>1, ASees
    <2>3. ACalls'
      BY <2>1 DEF ACalls, AReading, AWriting
    <2> QED BY <2>1, <2>2, <2>3, ArrivalSeen, LinkArrives DEF ASteps
  <1>2. CASE A!DeadlinePasses
    <2>1. /\ pc \in Racings /\ target' = target
          /\ UNCHANGED <<coming, buffered, got, call, pc, cap, request, out, status>>
      BY <1>2 DEF A!DeadlinePasses, A!lineVars, A!openVars, Racings
    <2>2. ATurn
      BY <2>1 DEF ATurn, Waiting
    <2>3. ACalls'
      BY <2>1 DEF ACalls, AReading, AWriting
    <2> QED BY <2>2, <2>3, ATurns DEF ASteps
  <1> QED
    BY <1>1, <1>2, AOpensAside, AStartsAsPromised, ACallsAsPromised, ADrivesAsPromised
    DEF A!Next, A!CallStep

------------------------------------------------------------------------------
(* Whichever transport is linked in.                                       *)
Calls == IF Polls THEN PCalls ELSE ACalls

(* At first nothing is asked for, and nothing has come in.                 *)
LEMMA InitCalls == Init => Calls /\ Link!Init
  <1> SUFFICES ASSUME Init PROVE Calls /\ Link!Init
    OBVIOUS
  <1>1. /\ coming = 1 /\ buffered = <<>> /\ got = <<>> /\ out = <<>> /\ pc = "idle" /\ cap = 0
        /\ len = 0 /\ done = 0 /\ status = "none" /\ call = "none" /\ request = A!NoRequest
    BY DEF Init, P!Init, A!Init, P!LineInit, A!LineInit
  <1>2. Calls
    BY <1>1, RequestsMade DEF Calls, PCalls, ACalls, Reading, Writing, Racings
  <1>3. Waiting = <<>>
    <2>1. <<>> \in Seq({})
      BY EmptySeq
    <2> QED BY <1>1, <2>1, ConcatEmptySeq DEF Waiting
  <1>4. Calling = "idle" /\ Left = 0
    BY <1>1 DEF Calling, Left, P!Doing, A!Doing, A!Unsent
  <1> QED BY <1>1, <1>2, <1>3, <1>4 DEF Link!Init, Waiting, Calling, Left

(* Every step keeps what Calls says and is one of Transport's.             *)
LEMMA NextCalls == IInv /\ Calls /\ [Next]_vars => Calls' /\ [Link!Next]_Link!vars
  <1> SUFFICES ASSUME IInv, Calls, [Next]_vars PROVE Calls' /\ [Link!Next]_Link!vars
    OBVIOUS
  <1>1. CASE Polled(P!Next)
    <2>1. PSteps /\ Polls
      BY <1>1, PContract DEF Polled, IInv, Calls
    <2>2. target' = target
      BY <1>1, StaysLinked
    <2> QED BY <2>1, <2>2 DEF Calls, Polls, PSteps
  <1>2. CASE Raced(A!Next)
    <2>1. ASteps /\ ~ Polls
      BY <1>2, AContract DEF Raced, IInv, Calls
    <2>2. target' = target
      BY <1>2, StaysLinked
    <2> QED BY <2>1, <2>2 DEF Calls, Polls, ASteps
  <1>3. CASE UNCHANGED vars
    <2>1. UNCHANGED <<coming, buffered, got, target, pc, cap, out, expired, status>>
          /\ UNCHANGED <<path, probed, files, fifo, owns, len, done, avail>>
          /\ UNCHANGED <<held, open, call, request>>
      BY <1>3 DEF vars, lineVars, polledOnly, asyncOnly
    <2>2. Calls'
      BY <2>1 DEF Calls, Polls, PCalls, ACalls, AReading, AWriting
    <2>3. UNCHANGED Link!vars
      <3>1. UNCHANGED <<coming, Waiting, got, Calling, cap, Left, status>>
        BY <2>1 DEF Waiting, Calling, Left, Polls, P!Doing, A!Doing, A!Unsent
      <3> QED BY <3>1, LinkStays
    <2> QED BY <2>2, <2>3
  <1> QED BY <1>1, <1>2, <1>3 DEF Next

(***************************************************************************)
(* The read and the write of every serial backend, step by step between    *)
(* what the peer, the driver and the clock do, keep the seam's contract:   *)
(* bytes are delivered once, in order and within out_cap, WP_OK answers a  *)
(* write all of whose bytes are on the line, and a read that times out     *)
(* loses nothing - on the Amiga and the Mac at most what fits its buffer.  *)
(***************************************************************************)
THEOREM ContractKept == Spec => KeepsContract
  <1>1. IInv /\ Calls /\ [Next]_vars => Calls' /\ [Link!Next]_Link!vars
    BY NextCalls
  <1> QED BY <1>1, AlwaysIInv, InitCalls, PTL DEF Spec, KeepsContract, Link!Spec
==============================================================================
