----------------------------- MODULE SerialLine ------------------------------
(***************************************************************************)
(* The part of a serial link that is not in the backends: a peer that puts *)
(* numbered bytes on the line and a driver that keeps them, up to RBUF,    *)
(* until somebody asks.  PolledSerial and AsyncSerial extend it.           *)
(***************************************************************************)
EXTENDS Integers, Sequences, SequencesExt

CONSTANTS
  RBUF,       (* bytes the driver can keep (io_RBufLen on the Amiga)       *)
  MaxBytes,   (* bound: bytes the peer sends in one behaviour              *)
  MaxCap,     (* bound: the largest out_cap the caller passes              *)
  MaxLen      (* bound: the longest buffer the caller writes               *)

VARIABLES
  coming,     (* number of the next byte on the line                       *)
  buffered,   (* the driver's input buffer                                 *)
  got         (* bytes plat_transport_read has delivered, in order         *)

lineVars == <<coming, buffered>>

LineInit == coming = 1 /\ buffered = <<>> /\ got = <<>>

(* A byte comes in; it is lost when the driver's buffer is full.           *)
Arrive ==
  /\ coming <= MaxBytes
  /\ coming' = coming + 1
  /\ buffered' = IF Len(buffered) < RBUF THEN Append(buffered, coming)
                 ELSE buffered

(* The driver hands out its n oldest bytes.                                *)
Oldest(n) == SubSeq(buffered, 1, n)
TakeOldest(n) == buffered' = SubSeq(buffered, n + 1, Len(buffered))

LineTypeOK ==
  /\ coming \in 1 .. MaxBytes + 1
  /\ buffered \in Seq(1 .. MaxBytes) /\ Len(buffered) <= RBUF
  /\ got \in Seq(1 .. MaxBytes)
==============================================================================
