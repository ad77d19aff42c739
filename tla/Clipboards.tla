------------------------------ MODULE Clipboards -------------------------------
(***************************************************************************)
(* plat_clipboard_* of six targets, each over the clipboard of its machine *)
(* and one system call at a time:                                          *)
(*   "atari", "gem4xe"  SCRAP.TXT in the directory the AES remembers       *)
(*   "amiga"            an IFF stream over clipboard.device                *)
(*   "mac"              the Scrap Manager                                  *)
(*   "win32"            the Windows clipboard, CF_UNICODETEXT              *)
(*   "private"          a buffer of the program itself (dos, host)         *)
(*                                                                         *)
(* The machines' clipboards are external; a system call may fail.  Other   *)
(* programs use the clipboard between any two calls, except where the      *)
(* machine keeps them out (OthersMay).  A character is one byte in every   *)
(* charset, a get has room for at least one, and scrp_write succeeds.      *)
(***************************************************************************)
EXTENDS Integers, Sequences

CONSTANTS
  Targets, Chars, Unmapped, Fallback, NoText,
  MaxText,    (* the longest text, and the largest out_cap less one        *)
  BUFFER,     (* native[], SCRAP_MAX, DOS_CLIPBOARD_CAP: bytes             *)
  MaxMoves    (* bound: changes other programs make during one call        *)

VARIABLES
  target,
  scrap,      (* SCRAP.TXT of each directory, or NoText                    *)
  aes,        (* the directory the AES remembers, or ""                    *)
  clip,       (* what the clipboard of another machine holds               *)
  pc, op, text, room,       (* the call: where it is, and its arguments    *)
  dir,        (* the directory get and has look in                         *)
  buf,        (* the text the call has in hand                             *)
  held,       (* what the call has opened, allocated or locked             *)
  saw, trouble, status, got,          (* as in Clipboard                   *)
  moves

gemVars == <<scrap, aes>>
answer == <<status, got>>
vars == <<target, scrap, aes, clip, pc, op, text, room, dir, buf, held,
          saw, trouble, status, got, moves>>

Gem == {"atari", "gem4xe"}
Own == "own"    (* C:\, or the root of the drive the program came from     *)
Other == "other"
Texts == UNION {{[i \in 1..n |-> c] : n \in 0..MaxText} : c \in Chars}

(* get's choice among the scraps is what the GEM clipboard holds.          *)
Content ==
  CASE target \notin Gem -> clip
    [] target \in Gem /\ aes # "" /\ scrap[aes] # NoText -> scrap[aes]
    [] OTHER -> scrap[Own]

Backend ==
  [native |-> target \notin {"win32", "private"},
   buffer |-> IF target = "win32" THEN MaxText ELSE BUFFER,
   tears |-> target \in {"atari", "amiga"},
   falls |-> target \in Gem,
   blind |-> target = "atari"]

C == INSTANCE Clipboard WITH
  backend <- Backend, content <- Content, MaxRoom <- MaxText + 1

Init ==
  /\ target \in Targets
  /\ scrap = [d \in {Own, Other} |-> NoText] /\ aes = "" /\ clip = NoText
  /\ pc = "idle" /\ op = "none" /\ text = <<>> /\ room = 0 /\ dir = Own
  /\ buf = NoText /\ held = {} /\ saw = {} /\ trouble = FALSE
  /\ status = "none" /\ got = <<>> /\ moves = 0

(* The last conjunct of each step: what the call has seen of the clipboard.*)
Watch ==
  /\ UNCHANGED target
  /\ saw' = CASE op' = "none" -> {}
              [] op = "none" /\ op' # "none" -> {Content'}
              [] OTHER -> saw \cup {Content'}

At(targets, ops, label) == target \in targets /\ op \in ops /\ pc = label
Goto(label) == pc' = label /\ UNCHANGED <<op, text, room, status, got, moves>>
Return(s, g) ==
  /\ pc' = "idle" /\ op' = "none" /\ text' = <<>> /\ room' = 0 /\ moves' = 0
  /\ dir' = Own /\ buf' = NoText /\ status' = s /\ got' = g
Fails == Return(IF op = "has" THEN "FALSE" ELSE "ERR", <<>>) /\ trouble' = TRUE

Start(o, t, n) ==
  /\ pc = "idle" /\ pc' = "start" /\ op' = o /\ text' = t /\ room' = n
  /\ trouble' = FALSE /\ status' = "none" /\ got' = <<>>
  /\ UNCHANGED <<gemVars, clip, dir, buf, held, moves>> /\ Watch

------------------------------------------------------------------------------
(* Other programs.                                                         *)

(* GEMDOS gives a file that is open to nobody else; the Macintosh switches *)
(* programs only when one of them waits for an event; Windows has one      *)
(* program open the clipboard at a time.                                   *)
OthersMay(d) ==
  CASE target \in Gem -> "file" \in held => dir # d
    [] target = "mac" -> pc = "idle"
    [] target = "win32" -> "clip" \notin held
    [] OTHER -> target = "amiga"

(* 8-bit texts, where the charset of the Amiga is that of the Latin texts. *)
TheirTexts ==
  {NoText} \cup IF target = "amiga" THEN {t \in Texts : \A i \in DOMAIN t : t[i] \notin Unmapped}
                ELSE Texts

Move == IF op = "none" THEN UNCHANGED moves ELSE moves < MaxMoves /\ moves' = moves + 1
Theirs == UNCHANGED <<pc, op, text, room, dir, buf, held, trouble, answer>> /\ Watch

(* Another program writes a scrap in its own directory or the one the AES  *)
(* remembers, byte by byte, or removes it.                                 *)
OtherPuts(t) ==
  /\ target \in Gem /\ Move
  /\ \E d \in {Other, aes} \ {""} : OthersMay(d) /\ scrap' = [scrap EXCEPT ![d] = t]
  /\ UNCHANGED <<aes, clip>> /\ Theirs

OtherRegisters ==
  /\ target \in Gem /\ Move /\ aes' = Other
  /\ UNCHANGED <<scrap, clip>> /\ Theirs

OtherCopies(t) ==
  /\ target \notin Gem /\ OthersMay(Own) /\ Move
  /\ clip' = t
  /\ UNCHANGED gemVars /\ Theirs

------------------------------------------------------------------------------
(* GEM: plat_clipboard_set_text.                                           *)

Stored == C!Stored(text)

(* A variant of GemCreate that registers the directory before it has a     *)
(* scrap.                                                                  *)
GemCreateRegistered ==
  /\ At(Gem, {"set"}, "start")
  /\ \/ scrap' = [scrap EXCEPT ![Own] = <<>>] /\ held' = {"file"}
        /\ Goto("write") /\ UNCHANGED <<dir, buf, trouble>>
     \/ UNCHANGED <<scrap, held>> /\ Fails
  /\ aes' = Own
  /\ UNCHANGED clip /\ Watch

(* fopen "wb", Fcreate: the scrap there was is gone.                       *)
GemCreate ==
  /\ At(Gem, {"set"}, "start")
  /\ \/ scrap' = [scrap EXCEPT ![Own] = <<>>] /\ held' = {"file"}
        /\ Goto("write") /\ UNCHANGED <<dir, buf, trouble>>
     \/ UNCHANGED <<scrap, held>> /\ Fails
  /\ UNCHANGED <<aes, clip>> /\ Watch

(* Fwrite writes what it says it does; fwrite may keep all of it.          *)
GemWrite ==
  /\ At(Gem, {"set"}, "write")
  /\ \E n, m \in 0..Len(Stored) :
       /\ m <= n /\ (target = "gem4xe" => m = n)
       /\ buf' = C!Kept(Stored, n)
       /\ scrap' = [scrap EXCEPT ![Own] = C!Kept(Stored, m)]
       /\ trouble' = (trouble \/ n < Len(Stored))
  /\ Goto("wrote") /\ UNCHANGED <<aes, clip, dir, held>> /\ Watch

(* Fclose, fclose - which may fail to write the rest, and nobody asks -    *)
(* and then the count is looked at.                                        *)
GemWrote ==
  /\ At(Gem, {"set"}, "wrote")
  /\ held' = {}
  /\ \E m \in Len(scrap[Own])..Len(buf) :
       /\ scrap' = [scrap EXCEPT ![Own] = C!Kept(buf, m)]
       /\ trouble' = (trouble \/ m < Len(buf))
  /\ IF buf = Stored THEN Goto("register") /\ UNCHANGED <<dir, buf>>
     ELSE Return("ERR", <<>>)
  /\ UNCHANGED <<aes, clip>> /\ Watch

GemRegister ==
  /\ At(Gem, {"set"}, "register")
  /\ aes' = Own /\ Return("OK", <<>>)
  /\ UNCHANGED <<scrap, clip, held, trouble>> /\ Watch

------------------------------------------------------------------------------
(* GEM: plat_clipboard_get_text and plat_clipboard_has_text.               *)

(* A variant of GemAsk that never asks the AES.                            *)
GemAskNobody ==
  /\ At(Gem, {"get", "has"}, "start")
  /\ dir' = Own
  /\ Goto("open")
  /\ UNCHANGED <<gemVars, clip, buf, held, trouble>> /\ Watch

(* A variant of GemAsk that takes an empty answer for a directory.         *)
GemAskTrusting ==
  /\ At(Gem, {"get", "has"}, "start")
  /\ dir' = IF target = "atari" /\ op = "has" THEN Own ELSE aes
  /\ Goto("open")
  /\ UNCHANGED <<gemVars, clip, buf, held, trouble>> /\ Watch

(* scrp_read, which atari's has_text does without.                         *)
GemAsk ==
  /\ At(Gem, {"get", "has"}, "start")
  /\ dir' = IF aes = "" \/ (target = "atari" /\ op = "has") THEN Own ELSE aes
  /\ Goto("open")
  /\ UNCHANGED <<gemVars, clip, buf, held, trouble>> /\ Watch

Opens(d) ==
  /\ scrap[d] # NoText /\ held' = {"file"} /\ dir' = d
  /\ Goto(IF op = "get" THEN "read" ELSE "close") /\ UNCHANGED <<buf, trouble>>

(* fopen, Fopen; if there is no file, or it does not open, the program's   *)
(* own scrap - but atari's has_text has looked there already.              *)
GemOpen ==
  /\ At(Gem, {"get", "has"}, "open")
  /\ \/ Opens(dir)
     \/ UNCHANGED held /\ trouble' = (trouble \/ scrap[dir] # NoText)
        /\ IF target = "atari" /\ op = "has" THEN Return("FALSE", <<>>)
           ELSE Goto("again") /\ UNCHANGED <<dir, buf>>
  /\ UNCHANGED <<gemVars, clip>> /\ Watch

GemOpenOwn ==
  /\ At(Gem, {"get", "has"}, "again")
  /\ \/ Opens(Own)
     \/ /\ trouble' = (trouble \/ scrap[Own] # NoText) /\ UNCHANGED held
        /\ Return(IF op = "has" THEN "FALSE" ELSE "ERR", <<>>)
  /\ UNCHANGED <<gemVars, clip>> /\ Watch

(* Fread into the native buffer, then Fclose.  fread may stop early, which *)
(* atari takes for the end.                                                *)
GemRead ==
  /\ At(Gem, {"get"}, "read")
  /\ \/ buf' = C!Kept(scrap[dir], BUFFER) /\ UNCHANGED trouble
     \/ /\ trouble' = TRUE
        /\ IF target = "atari" THEN \E n \in 0..BUFFER : buf' = C!Kept(scrap[dir], n)
           ELSE buf' = NoText
  /\ Goto("close") /\ UNCHANGED <<gemVars, clip, dir, held>> /\ Watch

GemClose ==
  /\ At(Gem, {"get", "has"}, "close")
  /\ held' = {}
  /\ CASE op = "has" -> Return("TRUE", <<>>)
       [] op = "get" /\ buf = NoText -> Return("ERR", <<>>)
       [] OTHER -> Return("OK", C!Found(buf, room))
  /\ UNCHANGED <<gemVars, clip, trouble>> /\ Watch

------------------------------------------------------------------------------
(* Amiga.  open_clip_iff: AllocIFF and OpenClipboard.                      *)

AmigaAlloc ==
  /\ At({"amiga"}, {"set", "get", "has"}, "start")
  /\ \/ held' = {"iff"} /\ Goto("device") /\ UNCHANGED <<dir, buf, trouble>>
     \/ UNCHANGED held /\ Fails
  /\ UNCHANGED <<gemVars, clip>> /\ Watch

AmigaDevice ==
  /\ At({"amiga"}, {"set", "get", "has"}, "device")
  /\ \/ held' = held \cup {"clip"} /\ Goto("stream") /\ UNCHANGED <<dir, buf, trouble>>
     \/ held' = held \ {"iff"} /\ Fails
  /\ UNCHANGED <<gemVars, clip>> /\ Watch

(* OpenIFF, in set_text or in find_ftxt_chrs.                              *)
AmigaStream ==
  /\ At({"amiga"}, {"set", "get", "has"}, "stream")
  /\ \/ /\ held' = held \cup {"stream"} /\ UNCHANGED trouble
        /\ Goto(IF op = "set" THEN "write" ELSE "scan")
     \/ UNCHANGED held /\ trouble' = TRUE /\ Goto("release")
  /\ UNCHANGED <<gemVars, clip, dir, buf>> /\ Watch

(* PushChunk twice, WriteChunkBytes, PopChunk twice: any may fail.         *)
AmigaWrite ==
  /\ At({"amiga"}, {"set"}, "write")
  /\ \/ buf' = Stored /\ UNCHANGED trouble
     \/ UNCHANGED buf /\ trouble' = TRUE
  /\ Goto("commit") /\ UNCHANGED <<gemVars, clip, dir, held>> /\ Watch

(* CloseIFF makes the stream the clipboard, or fails to; it does not say.  *)
AmigaCommit ==
  /\ At({"amiga"}, {"set"}, "commit")
  /\ held' = held \ {"stream"}
  /\ \/ clip' = buf /\ UNCHANGED trouble
     \/ UNCHANGED clip /\ trouble' = TRUE
     \/ /\ buf = NoText /\ UNCHANGED trouble
        /\ \E n \in 0..Len(Stored) : clip' = C!Kept(Stored, n)
  /\ Goto("release") /\ UNCHANGED <<gemVars, dir, buf>> /\ Watch

(* A variant of AmigaScan that leaves the stream open when there is none.  *)
AmigaScanLeaky ==
  /\ At({"amiga"}, {"get", "has"}, "scan")
  /\ \/ /\ clip # NoText /\ buf' = clip /\ Goto("chunk") /\ UNCHANGED <<held, trouble>>
     \/ /\ Goto("release") /\ UNCHANGED held
        /\ trouble' = (trouble \/ clip # NoText) /\ UNCHANGED buf
  /\ UNCHANGED <<gemVars, clip, dir>> /\ Watch

(* StopChunk and ParseIFF: a text is found, or the stream is closed.       *)
AmigaScan ==
  /\ At({"amiga"}, {"get", "has"}, "scan")
  /\ \/ /\ clip # NoText /\ buf' = clip /\ Goto("chunk") /\ UNCHANGED <<held, trouble>>
     \/ /\ held' = held \ {"stream"} /\ Goto("release")
        /\ trouble' = (trouble \/ clip # NoText) /\ UNCHANGED buf
  /\ UNCHANGED <<gemVars, clip, dir>> /\ Watch

(* get reads the chunk, which may fail; both close the stream.             *)
AmigaChunk ==
  /\ At({"amiga"}, {"get", "has"}, "chunk")
  /\ held' = held \ {"stream"}
  /\ \/ UNCHANGED <<buf, trouble>>
     \/ op = "get" /\ buf' = NoText /\ trouble' = TRUE
  /\ Goto("release") /\ UNCHANGED <<gemVars, clip, dir>> /\ Watch

(* close_clip_iff, and the answer.                                         *)
AmigaRelease ==
  /\ At({"amiga"}, {"set", "get", "has"}, "release")
  /\ held' = held \ {"clip", "iff"}
  /\ CASE op = "set" -> Return(IF buf = NoText THEN "ERR" ELSE "OK", <<>>)
       [] op = "get" -> IF buf = NoText THEN Return("ERR", <<>>)
                        ELSE Return("OK", C!Found(buf, room))
       [] OTHER -> Return(IF buf = NoText THEN "FALSE" ELSE "TRUE", <<>>)
  /\ UNCHANGED <<gemVars, clip, trouble>> /\ Watch

------------------------------------------------------------------------------
(* Macintosh.                                                              *)

MacZero ==
  /\ At({"mac"}, {"set"}, "start")
  /\ \/ clip' = NoText /\ Goto("put") /\ UNCHANGED <<dir, buf, trouble>>
     \/ UNCHANGED clip /\ Fails
  /\ UNCHANGED <<gemVars, held>> /\ Watch

MacPut ==
  /\ At({"mac"}, {"set"}, "put")
  /\ \/ clip' = Stored /\ Return("OK", <<>>) /\ UNCHANGED trouble
     \/ UNCHANGED clip /\ Fails
  /\ UNCHANGED <<gemVars, held>> /\ Watch

MacHandle ==
  /\ At({"mac"}, {"get", "has"}, "start")
  /\ \/ held' = {"handle"} /\ Goto("scrap") /\ UNCHANGED <<dir, buf, trouble>>
     \/ UNCHANGED held /\ Fails
  /\ UNCHANGED <<gemVars, clip>> /\ Watch

(* GetScrap: no text, no memory, or the text; then DisposeHandle.          *)
MacScrap ==
  /\ At({"mac"}, {"get", "has"}, "scrap")
  /\ held' = {}
  /\ \/ /\ clip # NoText /\ UNCHANGED trouble
        /\ IF op = "has" THEN Return("TRUE", <<>>) ELSE Return("OK", C!Found(clip, room))
     \/ /\ trouble' = (trouble \/ clip # NoText)
        /\ Return(IF op = "has" THEN "FALSE" ELSE "ERR", <<>>)
  /\ UNCHANGED <<gemVars, clip>> /\ Watch

------------------------------------------------------------------------------
(* Windows.  Until SetClipboardData takes it, the block is the program's.  *)

WinAlloc ==
  /\ At({"win32"}, {"set"}, "start")
  /\ \/ held' = {"mem"} /\ Goto("lock") /\ UNCHANGED <<dir, buf, trouble>>
     \/ UNCHANGED held /\ Return("NOMEM", <<>>) /\ trouble' = TRUE
  /\ UNCHANGED <<gemVars, clip>> /\ Watch

(* GlobalLock, the copy and GlobalUnlock.                                  *)
WinLock ==
  /\ At({"win32"}, {"set"}, "lock")
  /\ \/ UNCHANGED <<held, dir, buf, trouble>> /\ Goto("open")
     \/ held' = held \ {"mem"} /\ Fails
  /\ UNCHANGED <<gemVars, clip>> /\ Watch

WinOpen ==
  /\ At({"win32"}, {"set"}, "open")
  /\ \/ held' = held \cup {"clip"} /\ Goto("empty") /\ UNCHANGED <<dir, buf, trouble>>
     \/ held' = held \ {"mem"} /\ Fails
  /\ UNCHANGED <<gemVars, clip>> /\ Watch

WinEmpty ==
  /\ At({"win32"}, {"set"}, "empty")
  /\ clip' = NoText /\ Goto("give")
  /\ UNCHANGED <<gemVars, dir, buf, held, trouble>> /\ Watch

(* SetClipboardData; CloseClipboard either way.                            *)
WinGive ==
  /\ At({"win32"}, {"set"}, "give")
  /\ \/ clip' = text /\ held' = held \ {"mem"} /\ Goto("shut")
        /\ UNCHANGED <<dir, buf, trouble>>
     \/ UNCHANGED clip /\ held' = held \ {"clip", "mem"} /\ Fails
  /\ UNCHANGED gemVars /\ Watch

WinShut ==
  /\ At({"win32"}, {"set"}, "shut")
  /\ held' = held \ {"clip"} /\ Return("OK", <<>>)
  /\ UNCHANGED <<gemVars, clip, trouble>> /\ Watch

(* IsClipboardFormatAvailable: all of has_text, the first step of get_text.*)
WinLook ==
  /\ At({"win32"}, {"get", "has"}, "start")
  /\ CASE op = "has" -> Return(IF clip = NoText THEN "FALSE" ELSE "TRUE", <<>>)
       [] op = "get" /\ clip = NoText -> Return("ERR", <<>>)
       [] OTHER -> Goto("enter") /\ UNCHANGED <<dir, buf>>
  /\ UNCHANGED <<gemVars, clip, held, trouble>> /\ Watch

WinEnter ==
  /\ At({"win32"}, {"get"}, "enter")
  /\ \/ held' = {"clip"} /\ Goto("fetch") /\ UNCHANGED <<dir, buf, trouble>>
     \/ UNCHANGED held /\ Fails
  /\ UNCHANGED <<gemVars, clip>> /\ Watch

(* GetClipboardData, GlobalLock, the conversion, which wants room for the  *)
(* terminator too, GlobalUnlock and CloseClipboard.                        *)
WinFetch ==
  /\ At({"win32"}, {"get"}, "fetch")
  /\ held' = held \ {"clip"}
  /\ \/ clip # NoText /\ Len(clip) < room /\ Return("OK", clip) /\ UNCHANGED trouble
     \/ clip # NoText /\ Len(clip) >= room /\ Return("RANGE", <<>>) /\ UNCHANGED trouble
     \/ Return("ERR", <<>>) /\ trouble' = (clip # NoText)
  /\ UNCHANGED <<gemVars, clip>> /\ Watch

------------------------------------------------------------------------------
(* dos, host: g_buf, g_len and g_has.                                      *)

OwnSet ==
  /\ At({"private"}, {"set"}, "start")
  /\ IF Len(text) > BUFFER THEN Return("RANGE", <<>>) /\ UNCHANGED clip
     ELSE clip' = text /\ Return("OK", <<>>)
  /\ UNCHANGED <<gemVars, held, trouble>> /\ Watch

OwnGet ==
  /\ At({"private"}, {"get", "has"}, "start")
  /\ CASE op = "has" -> Return(IF clip = NoText THEN "FALSE" ELSE "TRUE", <<>>)
       [] op = "get" /\ clip = NoText -> Return("ERR", <<>>)
       [] OTHER -> Return("OK", C!Kept(clip, room))
  /\ UNCHANGED <<gemVars, clip, held, trouble>> /\ Watch

------------------------------------------------------------------------------
Next ==
  \/ \E t \in Texts : Start("set", t, 0)
  \/ \E n \in 1..MaxText + 1 : Start("get", <<>>, n)
  \/ Start("has", <<>>, 0)
  \/ \E t \in TheirTexts : OtherPuts(t) \/ OtherCopies(t)
  \/ OtherRegisters
  \/ GemCreate \/ GemWrite \/ GemWrote \/ GemRegister
  \/ GemAsk \/ GemOpen \/ GemOpenOwn \/ GemRead \/ GemClose
  \/ AmigaAlloc \/ AmigaDevice \/ AmigaStream \/ AmigaWrite \/ AmigaCommit
  \/ AmigaScan \/ AmigaChunk \/ AmigaRelease
  \/ MacZero \/ MacPut \/ MacHandle \/ MacScrap
  \/ WinAlloc \/ WinLock \/ WinOpen \/ WinEmpty \/ WinGive \/ WinShut
  \/ WinLook \/ WinEnter \/ WinFetch
  \/ OwnSet \/ OwnGet

Spec == Init /\ [][Next]_vars

------------------------------------------------------------------------------
(* Properties.                                                             *)

(* Type invariant: the clipboards, the call and its answer.                *)
TypeOK ==
  LET Held == Texts \cup {NoText} \cup {C!Mapped(t) : t \in Texts}
  IN  /\ target \in Targets /\ scrap \in [{Own, Other} -> Held]
      /\ aes \in {"", Own, Other} /\ clip \in Held /\ buf \in Held
      /\ op \in {"none", "set", "get", "has"} /\ (op = "none") = (pc = "idle")
      /\ text \in Texts /\ room \in 0..MaxText + 1 /\ dir \in {Own, Other}
      /\ held \subseteq {"file", "iff", "clip", "stream", "handle", "mem"}
      /\ saw \subseteq Held /\ trouble \in BOOLEAN
      /\ status \in {"none", "OK", "ERR", "NOMEM", "RANGE", "TRUE", "FALSE"}
      /\ got \in Held \ {NoText} /\ moves \in 0..MaxMoves

(* Whatever fails on the way, a call that has returned has closed, freed   *)
(* or given away everything: on Windows and the Amiga a clipboard left     *)
(* open is one that no other program can use.                              *)
NothingHeld == op = "none" => held = {}

(* Other programs may put, remove and register scraps in the middle of a   *)
(* call: a get gives what fits of a text that was on the clipboard during  *)
(* the call, a failure has a cause, and has_text agrees with get_text -    *)
(* except where Backend says otherwise.                                    *)
KeepsPromise == C!Spec

(* "A failed write never leaves the AES pointing at a scrap that is not    *)
(* there" (clipboard_gem4xe.c): the program's directory is registered only *)
(* by a set whose whole text was accepted and closed, and that says WP_OK. *)
RegistersLast ==
  [][aes # Own /\ aes' = Own
     => buf = Stored /\ held = {} /\ op' = "none" /\ status' = "OK"]_vars
==============================================================================
