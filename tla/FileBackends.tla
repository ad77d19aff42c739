---------------------------- MODULE FileBackends -----------------------------
(***************************************************************************)
(* One of the file backends, whichever is linked in: Gem4xeFiles, whose    *)
(* state is slot and gemdos, or one of PlainFiles, whose state is open.    *)
(* All of them implement Files.  The files of a plain backend are fewer,   *)
(* its transfers longer: it has no table that could confuse two files.     *)
(***************************************************************************)
EXTENDS MCGem4xeFiles

CONSTANTS
  Plain,                    (* the plain targets                           *)
  PlainNames, PlainMaxOut   (* Names and MaxOut of theirs                  *)

ASSUME PlainAssumption ==
  Plain \subseteq {"host", "atari", "amiga", "mac"} /\ PlainMaxOut \in Nat

VARIABLES target, open

P == INSTANCE PlainFiles WITH
  Targets <- Plain, Pointers <- Slots, Names <- PlainNames, MaxOut <- PlainMaxOut

IsGem == target = "gem4xe"

AnyInit ==
  \/ IsGem /\ open = <<>> /\ Init
  \/ /\ P!Init /\ gemdos = <<>>
     /\ slot = [i \in Slots |-> [used |-> FALSE, h |-> 0]]

AnyNext ==
  \/ IsGem /\ Next /\ UNCHANGED <<target, open>>
  \/ ~ IsGem /\ P!Next /\ UNCHANGED <<slot, gemdos>>

AnySpec == AnyInit /\ [][AnyNext]_<<vars, target, open>>

------------------------------------------------------------------------------
(* The backend that is linked in, as the seam sees it.                     *)
LinkedQuirks == IF IsGem THEN Quirks ELSE P!Quirks
LinkedOpened == IF IsGem THEN Opened ELSE P!Opened

Seam == INSTANCE Files WITH
  quirks <- LinkedQuirks, opened <- LinkedOpened, Ptrs <- Slots,
  Names <- Names \cup PlainNames, MaxOut <- F!AtLeast(MaxOut, PlainMaxOut)

(* Type invariant of the backend that is linked in.                        *)
AnyTypeOK == IF IsGem THEN TypeOK ELSE P!TypeOK

(* Each pointer is an open file with a name and a place of its own, to     *)
(* which the calls through it do what plat_file promises, other open files *)
(* being left where they are: whichever system calls fail, wherever the    *)
(* handle is kept, and with the quirks of this backend and no others.      *)
KeepsPromise == Seam!Spec
==============================================================================
