# retroplat in TLA+

retroplat is a platform layer: `include/platform.h` declares what a word
processor needs of its machine (memory, files, a clipboard, a serial or network
link, timers, fonts, drawing, windows, dialogs), and each directory of `backends/` implements
it for one machine. The callers have one thread. What makes the code hard is
what happens *beside* that thread: a serial driver that completes a request
between two lines of code, a clock that wraps, a `Malloc` that takes nothing
back, a call of several steps of which one fails, a long session of legal calls
that ends somewhere no test went.

This directory holds a model of the parts with such behaviour, the model-checking runs
over them, and machine-checked proofs about the heap and its list of headers, files, serial transports,
timers, clipboards, dialogs, encodings, fonts and pictures.

## Inventory

| part | state it keeps | operations | what is hard | what makes it correct |
|---|---|---|---|---|
| **heap** (`atari/mem_gem4xe.c`) | one address-ordered block list over arenas; two counters | `mem_alloc`, `mem_free`, `mem_realloc`, `mem_atari_*` | any order of calls; split and merge at exact boundaries; arenas never returned; u32 sizes | blocks tile the arenas; nothing held is handed out again, overlapped or moved wrongly; no memory lost |
| libc heaps (`*/mem_*.c`) | the counters | the same | - | the counters track |
| **serial, polled** (`atari/transport_atari.c`, `dos/transport_dos.c`) | the port, or a device node's handle | `plat_transport_open/read/write/close` | bytes arrive and time passes between the polls | no byte lost, doubled or past `out_cap`; calls return; no handle left over |
| **serial, asynchronous** (`amiga/transport_amiga.c`, `mac/transport_mac.c`) | the driver's request, the things open acquired | the same | a request completes while it is being cancelled | nothing pending after a return; a failed open gives back what it took |
| **host transport** (`host/transport_host.c`) | a descriptor; a FIFO it may own | the same | hang-up racing data; partial and blocking writes; a FIFO that is somebody else's | as above; only its `write` may wait past the timeout; only its own FIFO is removed |
| **gem4xe transport** (`atari/transport_gem4xe.c`) | none | the same | - | `open` answers WP_UNSUPPORTED and leaves nothing behind |
| **timers** (`*/timer_*.c`) | the first tick seen (Amiga, Mac) | `plat_ticks_ms`, `plat_sleep_ms` | u32 overflow, rounding | waits end when due, and not before |
| **files, gem4xe** (`atari/file_gem4xe.c`) | four slots of (used, handle) | `plat_file_*` | several GEMDOS calls per operation, one failing; slots running out | a pointer is one open file; no handle leaks |
| **files, other backends** (`*/file_*.c`) | none of their own | the same | streams that buffer; systems that differ in every corner | the same promise, each exception named |
| **clipboards** (`*/clipboard_*.c`) | buffers; a file or stream shared with other programs | `set_text`, `get_text`, `has_text` | other programs in between; write then register | an answer was right at some moment of the call; a failed set registers nothing; nothing is left open |
| **dialogs** (`*/dialog_*.c`, `host/window_host.c`) | a static object tree | `plat_dialog_choice`, `plat_dialog_message` | index arithmetic; reuse of the tree | the AES finds this dialog and no other; the answer is what the user chose |
| **encodings** (`src/utf8.c`, the conversions in `draw_*` and `metrics_*`) | none | decode, encode, step; to and from the native characters | malformed input, a buffer that ends inside a character | exactly the well-formed texts decode; the cursor steps back to where it was; conversions come back |
| **metrics** (`*/metrics_*`) | a context to measure in; the open fonts; the screen's ratio | `plat_font_*`, `plat_measure_text`, conversions | contexts made late, or never; what is selected in them; rounding that accumulates; allocations that fail | a width depends on the font and the text alone; nothing is leaked; pixels come back |
| **text and rectangles** (`*/draw_*`) | what is selected in the window | `plat_draw_text`, `plat_fill_rect` | the program draws into the same window | the right face, pen and characters; the program's own settings stay, or are named as not staying |
| **DOS text screen** (`dos/draw_dos.c`) | 80 by 25 cells | the same | a row runs into the next; attributes of what lies under | text stays in its row and on its background |
| **pictures** (`atari`, `amiga`, `mac/draw_*.c`) | palette registers, pens | `plat_draw_image` | several allocations, any failing; packed nibbles to planes | every pixel has its colour; all is given back |
| **windows** (`host`, `win32`, `qt`, `dos`) | a block of memory | `plat_window_create`, `plat_window_destroy` | - | nothing is leaked |
| byte order (`src/endian.c`) | none | four loads, four stores | - | - |

The parts meet in few places: transports take their handle from the heap and their
deadlines from the timers; clipboards and GEM files draw on the same GEMDOS handles.
The bold rows are modelled, the windows' titles and sizes excepted. The hazards in `PROJECT.json` are the list of
what a test would hardly reach, at the line where each bites.

## Modules

| module | what it is |
|---|---|
| `Allocator` | what the memory seam promises: a map from pointers to sizes, whose ranges never meet |
| `Gem4xeHeap` | `mem_gem4xe.c` as an address map, loops in closed form; implements `Allocator` |
| `Gem4xeHeapProofs` | theorems about `Gem4xeHeap` |
| `HeapList` | `mem_gem4xe.c` as written: `blk` headers with `next`, loops, u32 arithmetic, and clients whose data lies in the memory; implements `Gem4xeHeap` |
| `HeapListProofs` | theorems about `HeapList` |
| `Transport` | what the transport seam promises about one link |
| `SerialLine` | the line both transport models share: peer, bounded driver buffer, bytes delivered |
| `PolledSerial` | Atari (BIOS and MiNT node), DOS, host and gem4xe transports |
| `AsyncSerial` | Amiga and Mac transports |
| `Serial` | the one of the two that is linked in; implements `Transport` |
| `SerialProofs` | theorems about `Serial` |
| `Deadline` | timers and deadline waits of seven targets |
| `DeadlineProofs` | theorems about `Deadline` |
| `Files` | what `plat_file` promises: named bytes, open files with a place of their own |
| `Gem4xeFiles` | the slot table and GEMDOS calls of `file_gem4xe.c`; implements `Files` |
| `PlainFiles` | C streams, AmigaDOS and File Manager files; implements `Files` |
| `FileBackends` | the one of `Gem4xeFiles` and `PlainFiles` that is linked in |
| `FileBackendsProofs` | theorems about `Gem4xeFiles`, `PlainFiles` and `FileBackends`, whichever it is |
| `Clipboard` | what the clipboard seam promises: one text anybody may replace at any moment |
| `Clipboards` | the clipboards of seven targets (host and DOS keep a private text), one system call at a time; implements `Clipboard` |
| `Dialog` | what the dialog seam promises: the answer is the user's |
| `Dialogs` | the dialogs of four targets; implements `Dialog` |
| `Desktop` | `Clipboards` and `Dialogs` side by side |
| `DesktopProofs` | theorems about the clipboards and the dialogs, in `Desktop` |
| `Utf8` | `utf8.c` and the backends' conversions, as operators on sequences of bytes |
| `Encodings` | a text, a cursor that walks over it, and its way to the native characters and back |
| `AtariFonts` | the arithmetic of `metrics_atari.c`: dots per inch, cells, twips |
| `TextProofs` | theorems about the operators of `AtariFonts` and `Utf8` |
| `Surface` | what the seam promises of fonts and of drawing |
| `Canvas` | fonts, measuring and drawing of seven backends; implements `Surface` |
| `Pictures` | `plat_draw_image` of the Atari, the Amiga and the Mac, step by step |
| `TextScreen` | the DOS screen, cell by cell |
| `Screen` | `Encodings`, `Canvas`, `Pictures` and `TextScreen` side by side |
| `ScreenProofs` | theorems about `Encodings`, `Canvas`, `Pictures` and `TextScreen`, in `Screen` |
| `MCHeapList`, `MCDeadline`, `MCGem4xeFiles`, `MCDesktop`, `MCScreen` | symmetry sets, functions and sequences given to constants for TLC |

`Serial`, `FileBackends`, `Desktop` and `Screen` put components next to each other that share a seam or a
run: a behaviour is one of one component, chosen at the start, and the others' variables rest. A property of
such a module is that of its component.

An operator whose comment says "a variant" or "a mistake", with a name that begins with an operation's and says
what went wrong (`CarveUnmarked`, `GiveUpAtOnce`), is the mistake one would make in
that operation. No specification uses the variants; putting one in the place of the operation
it varies must make a property fail, and shows what the property is good for.

### The heap

`Gem4xeHeap` keeps `block`, a function from header addresses to `[size, used]`.
gem4xe's `Malloc` is a bump allocator (head of `mem_gem4xe.c`), so the chain is
in address order and `b->next` is the least header above `b`; a run of merges ends at the next
used header, which gives `Release`, `Coalesced` and `FirstFit` closed forms. One
action per function and way out: `mem_alloc`, `mem_free`, `ReallocToNothing`,
`ReallocInPlace`, `ReallocByMoving`, `mem_atari_reset_counters`. What `Malloc`
answers, NULL included, is chosen by the environment. `live` is what the engine
holds, from which `Allocator` is read off.

`HeapList` does not trust those closed forms: it has the pointers, walks them pass by pass
(a loop is a function of the passes it has made), adds sizes block by block modulo the word, and gives each
of several clients bytes to store, so that a header written into somebody's payload or a
`memcpy` of the wrong length is seen. That it implements `Gem4xeHeap` is checked and proved.

### The transports

Every line of C at which the world may have moved on is a step: asking the
driver, looking at the clock, submitting, cancelling, waiting, draining. Between
any two of them bytes arrive (or are dropped when the driver's buffer is full), the
driver moves, completes or fails a request, the deadline passes. The clock is what
a loop sees of it, one bit; `Deadline` is about when that bit is right. The
endpoint string is accepted or refused; baud rates and line settings are left
out, as nothing depends on them.

On the host `poll` is a step and `read` or `write` the next. A peer may hang up at any of them.
`poll` promises room for one byte, and the descriptor is in blocking mode: `hwrite` is the one place
where a call waits for the peer with no deadline, and where `CallReturns` lets it. Opening a path makes a FIFO, or finds somebody's (`fifo`), and a close removes the one of its own making
(`owns`). When no handle can be allocated a FIFO just made is left behind: the model does the same. Opening an address dials
one after another and closes each socket that does not answer.

`Serial` has six backends behind one seam, so that `KeepsContract`, `CallReturns` and `NothingLeaks` are
stated once. `MayLose` is what distinguishes them: 0 for those that poll, up to `MaxCap` bytes of a read that
times out for the two that cancel a request.

On the Mac, `.AIn` is taken to complete a read with what there is, which
`transport_mac.c` says is verified only structurally.

### The timers

`Deadline` runs a raw counter against the arithmetic of each
`plat_ticks_ms`, in words of `WORD`. Real time goes by in moments (`Moment`); every `Span` of them the counter goes up
by `Step` units, and the code takes `Rate` units for a second: on DOS `clock()` counts milliseconds and goes up some 55 at a time
(`timer_dos.c:11`), on win32 `GetTickCount64` is as coarse as the system's timer. A call may begin at any moment between two ticks, which no call can
see. `NeverLate` and `NeverEarly` are about the moments gone by (`gone`), and so give the granularity of each target its place: a wait
may end up to a tick of the counter and a millisecond early and be over a tick late; a sleep may be short by a tick and by the unit it is rounded down by, which makes
nearly two ticks on the Atari, the Amiga and the Mac, and 56 ms on DOS. The length of a second is the counter's own: the Mac's code takes 60 ticks for
a second where 60.15 come (`timer_mac.c:5`), so that all of its times are a quarter of a percent short. What the system does in
`Delay`, `evnt_timer`, `nanosleep` and `Sleep` is external, and taken to end when the ticks asked for have been counted (`nanosleep` lasts longer, never shorter). `Holds` is the range in which each target's arithmetic is good. The Amiga and the Mac count from the first
call and multiply before they divide; the other five divide first; host and win32 cut a 64-bit
millisecond count to a u32.

### The files

`Files` is what the callers rely on: an open pointer has a name, a mode and a place; reading gives
the bytes that stand there, as many as asked for or as are left; writing puts them there; nobody else's place moves; a
call that fails changes nothing it need not. `asked` keeps the argument that the answer is measured against.

Gem4xe: a `plat_file` is a slot. GEMDOS is external: handles are any numbers, 0 among
them; every call may fail, and then has done nothing, but for `Fwrite`, which may have written
a part. The others (`PlainFiles`): a `plat_file` is the system's own handle. A C stream keeps what is
written and passes it on when it likes, at the latest when it is moved or closed; `firm` is what the system has got so
far, and what it never gets is lost. `file_dos.c` is `file_atari.c` line for line. `FileBackends`
is whichever backend is linked in, and one run checks them all.

Each operation is one step with all its system calls: nothing else runs
meanwhile. Callers are assumed to use pointers from `open` to `close` and no
longer, and not to open, empty or delete a file they are writing; what the system does
then is not the code's to say.

Where the backends differ from the promise, or from each other, `Files` has a named clause, and each backend is
given the ones it needs. Taking any of them away from a backend makes its run fail.

| quirk | who | what |
|---|---|---|
| `ends` | host, atari, dos | a stream opened to append writes at the end, wherever it stands |
| `beyond` | host, atari, dos | a file can be moved beyond its end |
| `clamps` | mac | a seek beyond the end fails, and has gone to the end |
| `drifts` | all but mac | a `plat_file_size` that fails may leave the file at its end |
| `lax` | amiga, mac | a file opened to read can be written |
| `unsought` | gem4xe, amiga | the seek of an append is not looked at: it may begin at the start of the file |
| `empties` | gem4xe, amiga | an append that cannot open the file, for whatever reason, makes it anew |
| `spends` | gem4xe | an open that finds no slot has emptied the file |
| `creates` | mac | an open that fails has made the file |
| `tears` | host, atari, dos | what a stream has kept is lost when the system refuses it, even at a close nobody asks |
| `short` | atari, dos | a read that an error stops early answers WP_OK |

### The clipboards

`Clipboards` has a step for each system call of `set_text`, `get_text` and `has_text`: on GEM, `fopen`
or `Fcreate` of SCRAP.TXT, writing, closing, registering the directory (`scrp_write`), asking for it
(`scrp_read`), the fallback to the program's own directory; on the Amiga the IFF handle, the clipboard
device and the stream, taken and given back in that order; on the Mac `ZeroScrap`, `PutScrap`
and the handle `GetScrap` fills; on Windows the global block, which is the
program's until `SetClipboardData` takes it. Any of them may fail. Other programs put, remove and
register texts between any two steps, except where the machine keeps them out (`OthersMay`). A
character is one byte in every charset, `out_cap` is at least 1 and `scrp_write` succeeds.

`Clipboard` asks that the answer was right at some moment of the call (`saw` is what the clipboard
held since it began) and that a failure has a cause. Three clauses are conceded, each only to the
targets that need it; the contract fails for them without:

- `tears` (Atari, Amiga): nobody looks at what `fclose` and `CloseIFF` come to, and a short `fread` is taken for
  the end of the file, so that a torn text may be answered with WP_OK;
- `falls` (GEM): when the registered scrap is there and does not open, `get_text` gives the program's own, older one;
- `blind` (Atari): `has_text` looks in C:\ only, while `get_text` follows the registered directory.

### The dialogs

On the Atari `build_dialog_tree` fills one static array of objects, and `form_do` lets the AES read and
change it: `UserClicks` and `UserStrikes` are what the AES does, through the links and
flags it finds in `tree` and through nothing else, so that an object an earlier dialog has left there would matter.
Geometry is kept: positions and sizes follow from the character cell and the lengths of the texts, as `copy_bounded` cuts them.
DOS shows options on a row until it is full, and takes the digit of an option that no longer fitted as
well (quirk `crowds`); DOS and the Mac let the user choose outright (`picks`); the host
asks nobody (`deaf`). Labels are taken literally by `InsertMenuItem`, which holds for the fixed labels of
the callers. `dialog_dos.c` says at line 112 that it "silently caps at 9 options"; it refuses more with WP_RANGE, and so does the model.

### Texts

`Utf8` has the operators, byte by byte, with the bounds and the masks of `utf8.c`; its loops are recursive functions.
`Encodings` is what an editor does with them: a text of any bytes at all, a cursor that steps forward and back,
and a conversion to ASCII, Latin-1, a Windows code page or Qt's UTF-8 and back into buffers of any size. The reference is
Table 3-7 of the Unicode standard, written as sets of bytes (`IsChar`), and `Boundaries`, the offsets
between characters, computed from it alone.

### Fonts and drawing

The drawing systems keep what is selected, so what a call does depends on what other calls have left. `Canvas` has
*contexts*: the one a backend measures in, made when it is first needed (or not: each backend's `Ensure`
says what a failure means for the next call), and the ports a program draws into, by itself or
through the backend. Of each it keeps a face, a pen, the background and mode of text, the place where the pen stands, and what areas are
filled with; `Itself` is the program making a port current and selecting all of that as it likes (`"own"`), and the calls say which of it they change. A face is a width and a height of a character with a style; `device` is the screen
the backend runs on; `held` counts memory, faces, device contexts and brushes. On the Atari a face is one of the
system's cells and `PickPointSize` chooses among them as `metrics_atari.c` does; on Windows, on Qt and on the Amiga the matcher is the
system's. Coordinates go to the library as they are, and are left out.

A shell measures in twips and draws in pixels. `PxToTwips` and `TwipsToPx` are two calls, each of which looks for the ratio by itself (`Ratio`), and
`laid` is the distance a program holds in between, with the ratio it was turned at. On the Atari the first of them may fail to open the workstation, take the assumed 96 dots
per inch, and the second open it and turn back with another number.

`Surface` is what a program relies on; `Scaled` is its rule for the ratio, which stays as long as a font is open or a distance is held. Where a backend differs it has a quirk, and the run fails if any of these but `blind` is taken away
(a call that draws nothing and touches nothing is no step of `Surface` at all, so that a backend is never held to have drawn; if it draws, it is held to what):

| quirk | who | what |
|---|---|---|
| `fails` | win32; amiga, mac without their context | measuring (on win32 drawing too) may fail with the right arguments; on the Amiga and the Mac, once the context could not be made, it always does |
| `leaves face` | atari, amiga, mac | drawing a text leaves its face selected in the program's window |
| `leaves pen` | atari, amiga | ... and its pen |
| `leaves ground` | amiga | ... and `BACKGROUNDPEN` behind characters, in the mode JAM2 |
| `leaves place` | amiga, mac | ... and the pen where the text was |
| `fills pen` | amiga | filling leaves its pen selected there |
| `fills black` | mac | ... and a black one, whatever the program's was |
| `fills fill` | atari | ... and the solid interior and its colour for areas, an attribute of its own |
| `takes window` | mac | drawing and filling make the window the current port |
| `takes port` | mac | the first measurement makes the measuring port current: `OpenPort` comes before `GetPort` |
| `guesses` | atari, while its workstation is not open | the ratio is an assumed one, and may be another when a distance comes back |
| `truncates` | amiga | pixels to twips and back may be fewer |
| `blind` | host, dos | nothing is drawn here (DOS draws into its cells, in `TextScreen`) |

### Pictures and the DOS screen

In `Pictures` each allocation of a call is a step: pens, the array, the bitmap. The picture's nibbles are packed two to
a byte by the model and unpacked as the code does; `PlaneBuffer` makes the Atari's interleaved words, `PenArray` the
Amiga's chunky pens, `Dithered` the Mac's bits with its matrix of thresholds. `PictureShown` looks at the pixels
on the screen and at the picture, and at nothing in between: that they make up a rectangle of exactly the size asked for, each showing its colour of the picture
scaled to it. `platform.h` 144 promises that of every backend; the Atari's `vro_cpyfm` never scales (`draw_atari.c` 242-251), so that there the rectangle is the picture's own, which
`Unscaled` says and nothing else excuses. It looks also at the two registers the text is drawn with, which no
picture may change.

`TextScreen` is the video memory of DOS. A call puts characters and attributes in cells, with the clipping
of `dos_put_cell`; `TextStaysInPlace` says of every cell of the screen what a call may do to it.

## Runs

| run | module | shows |
|---|---|---|
| `heap` | `Gem4xeHeap` | tiling, held blocks used and disjoint, no useless remainders, `Allocator` implemented, counters track |
| `heap_list` | `MCHeapList` | chain well linked, data intact, nothing lost to fragmentation for good, arenas taken only when needed, `Gem4xeHeap` implemented |
| `heap_wrap` | `MCHeapList` | **violation**: a size near 2^32 wraps in `arena_new`, which takes an arena that cannot serve it |
| `serial` | `Serial` | six transports keep `Transport`; nothing pending after a return, draining never blocks, acquire and release pair, one handle at most, every call returns |
| `lost_byte` | `AsyncSerial` | **violation**: a byte completed between `CheckIO` and `AbortIO` is taken and WP_TIMEOUT answered |
| `deadline` | `MCDeadline` | on seven targets, by real time, waits and sleeps are neither late nor early but for the ticks of the counter; the clock is monotonic, while `Holds` |
| `deadline_late` | `MCDeadline` | **violation**: multiplying first, the clock wraps within a day and a wait across it goes on |
| `files` | `FileBackends` | every backend implements `Files` with its own quirks; on gem4xe slots and handles match |
| `files_full` | `MCGem4xeFiles` | **violation**: opening to write with every slot taken empties the file and fails |
| `desktop` | `MCDesktop` | `Clipboard` and `Dialog` implemented, nothing left open or locked, the scrap registered last; the AES finds one whole tree, objects do not overlap |
| `screen` | `MCScreen` | texts decode, step and convert as they should; `Surface` implemented, nothing leaked, lines fit the Atari's cells; pictures come out as their pixels; DOS text stays in its place |
| `amiga_pixels` | `MCScreen` | **violation**: 1 pixel is 16 twips at 85 dots per inch, and 16 twips are no pixel |

### Bounds

- Heap: `ALIGN` 2, `HDR` 2, arenas of 14 bytes (10 of payload), requests of 0, 5 and 12 bytes. 5 rounds to
  6 and splits an arena with 2 to spare, exactly the boundary of `split`; 12 does not fit a plain arena,
  so larger ones are asked for; two addresses 16 apart give both touching and separate arenas.
  Counters wrap at 3, so wrapping is reached by ordinary work. In `HeapList` four clients hold at most one block each and a word is
  64, which only the sizes of `heap_wrap` exceed.
- Serial: four bytes come in, the driver buffers two, `out_cap` and writes are at most two. Enough for a
  read that finds less, exactly and more than it has room for, and for a line
  that overflows. Two candidate nodes: one refuses, one answers, or neither; the same two are the addresses the host dials.
- Timers: a second of 12 ms and words of 256, counters of 4, 12, 2 and 5 units a
  second, for 200, 1000, 50 and 60: slow counters multiplied first, slow and exact ones divided first, with every wrap within reach. A millisecond is about two
  moments and a tick of the counter 2 to 12 of them; DOS goes up by 5 units at a time and win32 by 3. Take any term out of the bounds of
  `NeverLate` and `NeverEarly` and the run finds a target that breaks what is left, so each of them is reached. `Uptime` stops the run
  where the arithmetic of a target stops holding, or, in `deadline_late`, where a u32 of
  milliseconds would; a run that has got there has no further step, hence
  `CHECK_DEADLOCK FALSE` in those two.
- Files: files of at most two bytes, offsets from -1 to 1. Gem4xe has two slots, three handles, two names and transfers of at most one byte: both slots taken while a
  handle is left is the case `slot_new` is about. The others have no table that could confuse two files: two pointers, one name, and transfers of up to two bytes,
  so that one stops halfway.
- Dialogs: at most four options, so up to five are asked for; texts of no length, a middling one, and one longer than its buffer; a row of
  40 columns, which some choices overflow; three character cells, one of odd height.
- Clipboards: texts of at most three characters, one of them outside the native charset, a native buffer of two bytes, room for one to four, one move of another
  program in a call: a text that fits, one that is cut, one of which only a part is written, and a clipboard that changes while a call runs.
  (That it may change and change back is left to the proofs; TLC agrees when it is given two moves, 916,000 states, which takes it too long for every day.)
- Texts: four bytes out of ten: an ASCII letter, the leads of two, three and four bytes that have a row of their own in
  Table 3-7, three continuations that tell those rows apart, and a lead that is never right. Four are the longest character, and two characters of two; buffers of one
  and four bytes, so that one is cut inside a character and one is not.
- Drawing: `BUFFER` 4 stands for 256 bytes, and the longer of two texts has five, with a character that ASCII lacks and
  a byte that begins none; two fonts of different sizes and styles, one style a backend drops; two colours, one on each side of the threshold;
  the Atari's medium and high resolution and a driver that reports nothing, an interlaced NTSC Amiga; every backend starts without its context. Two fonts may be open at once, and which is which makes no difference (`SlotSymmetry`).
  Seven pixels (one also in `amiga_pixels`) are a distance that comes back as another one when the ratio of the Atari has changed in between.
- Pictures: `WORD` 4 stands for 16 pixels: pictures of 1, 4 and 5 pixels a row are less than, exactly and more than one
  word, and two are an odd number of nibbles. Palettes of 2 and 4, and 0, which is refused; 2, 4 and 16 colours.
- DOS: a screen of 3 by 2, drawing that begins before it, on it, in its last column and beyond it; two calls, as the second
  is drawn over the first.

`deadline` ends where its bound is, and so do the cursor at the end of a text and the calls of `TextScreen`: `CHECK_DEADLOCK FALSE`
is said in `deadline`, `deadline_late`, `screen` and `amiga_pixels` only.

### Fairness

`Serial` assumes of whichever backend is linked in that the caller's thread keeps running (`WF` of `CallStep`) and that time passes
(`WF` of `DeadlinePasses`). Nothing is assumed of the peer or of the transmitter.
Of the drivers of the Amiga and the Mac it assumes that a cancelled request is completed, which `WaitIO` after `AbortIO` relies on,
and that a read of bytes the driver already has completes, which `DoIO(CMD_READ)` relies on after `SDCMD_QUERY`. Both
are the operating system's word. No fairness is given to the host's blocking `write`. A stuck transmitter and a silent peer remain possible.

## What is proved

`Gem4xeHeapProofs`, for all alignments, header sizes that are a multiple of them, arena sizes, request
sizes, addresses and counter widths (`HeapAssumption`):

- `HeapTypeOK`, `HeapTiled`, `HeldBlocksUsed`, `HeldDisjoint`, `LeftoversCarry`, `LeakCheckExact`: every invariant
  of the `heap` run;
- `HeapImplementsAllocator`: initial states map to initial states, every step to a step of `Allocator` or a stutter.

The inductive invariant `IInv` is `WellFormed` (headers in order, blocks
contiguous, each arena fenced by its sentinel) together with `Agrees` (what is
held and what is used are the same blocks, with room) and the ranges of the counters. Neither half is
inductive alone: a release is well-formed only because what the engine frees is a
used block that is not a sentinel, which `Agrees` says; and `Agrees` survives an allocation only
because carving a free block in a well-formed list leaves the others alone. The lemmas go operator
by operator: `ReleaseWellFormed`, `CoalescedWellFormed`, `CarveWellFormed`,
`GrownWellFormed`, what a fit is (`FirstFitFits`), what an allocation may end in
(`AllocOutcome`), and how `Agrees` follows (`AgreesHold`, `AgreesDrop`, `AgreesResize`).
Disjointness then follows from tiling: two payloads lie in two blocks (`PayloadsApart`).

`LeftoversCarry` (`NoScraps`) needs `Neat`: each block has room for a payload, and its header is on the grid if the arenas are. That a header is a multiple of `ALIGN`,
which `blk.pad` is there for, is where the proof uses it: without it a split would leave the grid. `LeakCheckExact` (`LiveCountTracks`) adds that finitely many blocks are held,
and says of each step that the difference of the two u32 counters moves, modulo their width, as the number of blocks held does (`TracksMoves`).

`HeapListProofs` says the same, and more, of the pointers. It assumes `ListAssumption`, which is `HeapAssumption` and that no client is called `None`. Its theorems
have one hypothesis more, `Countable`: the memory, and each request with two headers and a rounding, are smaller than a word, so that no
sum of sizes wraps. It is needed: `heap_wrap` shows what happens without it.

- `ListImplementsHeap`, and with `HeapImplementsAllocator` also `ListImplementsAllocator`: each call of the code as written is a step of the address map, and of what callers are promised;
- `ListInOrder`, `ListTypeOK`: the list is in address order, from head to tail, and every field in range;
- `StorageKept`: no client's bytes are overwritten, by headers or by others, and a `realloc` that moves takes them along;
- `ListLosesNothing`, `ArenasTakenWhenFull`: `coalesce_all` merges all there is to merge, so that what was freed is one block again, and a new arena is taken only for want of room.

`Sound` says what a list is: every header points to the next higher one, the first is the head and the last the tail; and, with `Founded`, that each arena begins with a header and ends with its sentinel. Each loop is then compared with its
closed form: `FreedIs` (merging forwards), `FitIsFirstFit`, `CoalescedIs`. That is an induction over passes, stated of the set of passes at which the claim holds (`Upwards`), since the theorems
about induction take an operator. The loop of `coalesce_all` is the hard one: after n passes everything below `at` is as in the closed form, everything from there on as before.
`OutcomeIs` puts them together for a whole `mem_alloc`. The invariant `LInv` has five parts: `Sound`; the address map's own invariant for what the list stands for, without which nothing says
that the block a client frees is a used one and no sentinel; `Books`, that no two clients hold the same block; `Room`, that each byte is somebody's or nobody's; and `Intact`, whose. (That what is held fits its block is part of the address map's.) `Intact` is kept only because of the others: a
split writes a header into what was free, a merge takes one away, and neither is anywhere a client has data. `RunHasFit` turns a run of unused bytes into a block of the coalesced list that is long enough, and
`EmptyArenas` a list with nothing held into one free block an arena.

`FileBackendsProofs` is about all six file backends, for any files, sizes, pointers and bounds (`SlotsAssumption`, `PlainAssumption`):

- `NoHandleLeaks`: for any number of slots, handles and files, every handle GEMDOS has open is in exactly one slot;
- `BackendTyped`: tables, handles, streams and answers keep their types;
- `PromiseKept`: each implements `Files`, its initial states and every one of its steps, with its own quirks.

For the slots the invariant `IInv` adds `TableOK`: the shape
of the slot table, and that every handle open in GEMDOS is one it can give.
`NewSlotKeeps` is the step that could break it: `slot_new` puts a new handle in
the first free slot, or closes it when the table is full. `CloseKeeps` does the same for a close,
and `SameHandles` covers every operation that moves a file without opening or closing one.

For the promise the invariant is that of the backend that is linked in, `GInv` or `PInv`. For a plain backend it says of each open file that it is there, that a place a backend keeps
itself is within it, and, of a stream, that what it was opened on is still on the disk as far as it must be (`GoodFile`); and that a file open
twice is only read (`Alone`): otherwise a write through one pointer would change what the other one reads, which `Files` forbids. `GInv` is `IInv` above and the same of GEMDOS's handles (`HandlesOK`). A full table is where gem4xe
differs from the others: an open to write has emptied the file by then, which is its quirk `"spends"`; the least free slot is what `slot_new` returns, so the pointer the seam sees is one that was not open.

`SerialProofs`, for any sizes of the driver's buffer, `out_cap`, writes and lists of nodes (`SerialAssumption`), whichever of the six
transports is linked in:

- `SerialTypeOK`: among others, no byte is stored past `out_cap`;
- `RequestsGivenBack`, `DrainsAtOnce`: no driver works on a request whose call has returned, and the Amiga's second read never waits;
- `LinksClosed`: everything acquired goes back, whatever fails, and only a FIFO of its own making is removed;
- `ContractKept`: each implements `Transport`, every step of it being one of the contract's or none.

`IInv` is `PInv` or `AInv`, by what is linked in. `LinksClosed` is not inductive: that an open link has its own handle holds only because each step of an open knows what it has got
so far, which `PHandles` and `AHeld` say for every value of `pc` (on the Amiga and the Mac, what is held is always a beginning of the order of acquisition). `DrainsAtOnce` needs to know what the request of a draining read asked for, and that bytes only come in while the driver works on it: `ARequest` says at which steps
the driver may be working at all, and how much of `out_cap` the request may still fill. For `ContractKept` the invariant is strengthened by what a call has asked for and what it has got so far (`PCalls`, `ACalls`): nothing is
stored before the driver has been asked, a fetch finds what was counted, and a write that is done without having failed has moved every byte, so that WP_OK is true. What the contract sees as waiting is `out` and the driver's buffer one after the other; that a fetch leaves this as it is
(`Taken`) is why bytes come once and in order.

`DeadlineProofs`, for any word, milliseconds in a second, timeouts, steps of the counter, moments between them, and rates up to a unit a millisecond whose product with them fits the word (`DeadlineAssumption`; all of
the real ones do): `ClockTypeOK`, and, under `Lasts` (each target's `Uptime` is within its `Holds`), `WaitsEndInTime`,
`WaitsLastLongEnough` and `ClockGoesOn`; the second and third are about real time, wherever between two ticks a call begins. The two lemmas everything rests on are `DivideFirst` and `MultiplyFirst`: the u32
arithmetic of a target answers exactly the floor of units times milliseconds over the rate, up to where `Holds` ends. `Inv` then says how far
behind its deadline a wait can be (`InTime`) and what the deadline was computed from (`Waiting`, `Sleeping`); a wait that was only known not to be over
would not be inductive, as a tick may pass before the next look at the clock (`looked`). `Timed` keeps the moments gone by and the units counted within a tick of each
other, from which `RealTime` takes both bounds.

`DesktopProofs` proves every property of the `desktop` run, for any texts, titles, labels, character cells and bounds (`ClipboardAssumption`: the marker for no text is no text;
`DialogAssumption`: cells and buffers are not empty):

- `DesktopTyped`, `ClipboardGivenBack`, `RegisteredLast`;
- `TreeIsWhole`: the AES finds the dialog asked for, whole, in the array that others have used before;
- `NoneOverlap`: no two of its objects overlap, and none leaves the box;
- `PromisesKept`: the seven clipboards implement `Clipboard` and the four dialogs `Dialog`.

`Inv` is a table of what a clipboard call holds at each of its steps (`HeldAt`). That is enough to give it back, but the contract speaks of data: `ClipInv` adds what the buffer has in it at each step (`AtStep`: a beginning of the text on its way out, and on the way in a text that was on the
clipboard at some moment since the call began, which is `saw`) and that nothing is left of a call that has returned. Texts are runs of one character, so the lemmas about what a buffer keeps and a charset replaces (`StringKept`, `MappedIs`) need no induction.

The dialogs' `DialogInv` says that while the user looks at it, the array holds the dialog of `count` options and of some width not below 22 cells (`Stands`),
and one selected option (`Selects`). Flags, links and positions never change while it is shown, only what is selected does; the objects behind the last one are whatever `memset` left,
which is why `Wiped` is part of it. `TreeIsTheDialog` walks from the root by `next` and `head`; that the walk meets object n at step n is proved by looking at the least step where it would not (`WFMin`; the theorems
that do induction itself take an operator, which these provers cannot instantiate). For `ObjectsApart` the two sides meet at the buttons: 22 cells are a margin of two, eight, two more, eight and two again.

`ScreenProofs` has the theorems of the `screen` run, each under the assumption about constants that its part needs, which are in `Screen`:

- `DrawingGivesBack`, for any set of targets, screens, fonts, texts and pictures, if a program's fonts are finitely many and `NoFont` is
  none of them (`Plausible`). For fonts the invariant equates what is held with what should be, counted by cardinality, since two fonts may hold a face
  of their own at the same time; for pictures it is again a table by step (`Owes`), which needs that the Amiga's `pens` are a sequence, as long as pens were obtained.
- `PicturesShown` (`PicturesAssumption`): every pixel shows its own colour, for any picture, number of colours and even width of a word. The invariant is a table of what each step of the three
  drawings has in its buffers; the work is in arithmetic: which nibble of which byte a pixel is (`EntryFound`), that bit p of word w of a plane is that of the pixel's pen (`PlaneBit`), that a pen is told by its bits (`SameBits`), and
  which dot of the Mac's dither a pixel becomes (`MacDot`). `AtariShows` and `AmigaShows` put this together.
- `LinesFit` (`FontsAssumption`: sizes of a point or more, and screens of an Atari's resolution): `FInv` says that an open font has a face `PickPointSize` answered for its screen. That such a face has a row of the VDI's table, and a
  good one if there is any, is `PickedFits`; that its line is its cell, `LineIsTheCell`.
- `TextsDecode`, `CursorsComeHome` (`TextsAssumption`: bytes are bytes): over a text of any length. A sequence that decodes is a row of Table 3-7 and the other way round (`DecodedIsChar`, `CharIsDecoded`), and makes the same bytes
  again (`EncodesBack`); the rest is induction over offsets, from the end down for validating, counting and boundaries (`ValidIsWellFormed`, `CountIsBoundaries`), from the start up for conversions (`ConversionsKeep`), each stated of
  the set of offsets where it holds, as in `HeapListProofs` (`Downward`, `Upward`). A step back finds what a step forward left because a continuation begins nothing (`CharBefore`).
- `DosTextStays` (`DosAssumption`: a screen has a cell): the loops of text and rectangle as functions of what they have put so far (`TextPut`, `FillPut`), and that two cells of a screen have two places in video memory (`CellFound`).

- `SurfaceKept`: each step of `Canvas` is a step of `Surface`, or none, whichever of the seven backends it is and whichever allocation fails (`Faced`, the one hypothesis: `NoFont` is no font and no face; and
  `FontsAssumption`, `DosAssumption`, which say besides that distances are counted from the left and a buffer has a byte). The invariant is `KInv`: an open font has a face that one of the requests
  may become (`FacesAt`); it is open only once the Atari's workstation is, or the Amiga's screen has been asked, which is why the ratio and with it the widths of an open font stay (`SteadyWhen`); each context has its five attributes;
  what a distance in twips was turned at is a ratio, on the Amiga that of a screen that has been asked (`Laid`); the Atari's ratio is below 1440 and win32's is 96. What a call changes in a context is told attribute by attribute (`LookWith`), and
compared with what the seam's quirks let it leave there (`LookWithMore`, `LookWithMost`). That the ratio stays as `Scaled` says is a separate part of each step (`Steady`). There is a lemma for each call and backend (`AtariMeasures`, `MacDraws`, ...) and one
  for what they have in common (`OpensWell`, `MeasuresWell`, `DrawsWell`, `FillsWell`). That a native text has as many characters as the buffer takes whole is `CharactersAre`; that pixels come back is `PixelsComeBack`, and on the Amiga `TwipsShrink`.
- `ScreenTyped` (`Faced`, `Plausible`): `TypeOK`, from the invariants of the other theorems and `YInv`, a picture's pens and status.

`TextProofs` has the theorems about operators these rest on. `PickedFits`, `PixelsComeBack`, for fewer than 1440 dots per inch, that `scale_round` there and back
is exact for every distance, positive or negative; and `LineIsTheCell`, for fewer than 480, that ascent, descent and leading, each rounded for itself, are
together the rows of the cell. The limits are what the argument needs: half a pixel must be more than the error of one, or of three, roundings of half a twip.

## What is only checked

Liveness (`CallReturns`) is out of the prover's reach: it needs fairness and ENABLED. Every other property of the passing runs is a theorem. The theorems about heap and pointers say nothing of memory whose sizes wrap; there is only `heap_wrap`.

## What is not modelled

Components with status `not_modelled` in `PROJECT.json` give their reasons: the heaps that pass on to `malloc` add two counters, which behave as those of
`Gem4xeHeap` do, and `endian.c` has neither state nor branches. Of the rest, these are left out:

- what is handed to a library as it is: coordinates (and their overflow: `v * num` in `scale_round` above 2^31/1440 pixels), window titles and sizes, font names, line parameters;
- the matchers of Windows, Qt and the Amiga, which decide which face a request becomes; a face is as wide as high there;
- what only a hostile caller would do: calls with a null pointer, a handle after its close.

The next thing worth modelling is the overflow of `scale_round`; of what is checked, only `CallReturns` has no theorem.

## Met on the way

Places where the text beside the code says something else than the code does, or where the code does something a caller might not expect. Those with a run are findings in
`PROJECT.json`; the others are modelled as the code is, or are outside the model:

- `utf8.h` 31-33 says that over a sequence that would run past the end a step moves "exactly one byte"; `utf8.c` 82 moves to the end, which may be two or three bytes away;
- `metrics_atari.c` 212 says 8 points "still comes out smaller"; with the table it stands beside, it does not in the high resolution;
- `clipboard_win32.c` 72: with `out_cap` 0 the system call answers the size it would need, and `get_text` says WP_OK; the model has `out_cap` at least 1;
- `dialog_dos.c` 112, see the dialogs above;
- `platform.h` 144-145 says of `plat_draw_image` that the bitmap is "scaled to exactly w x h pixels"; `draw_atari.c` 242-251 gives `vro_cpyfm` a source and a destination of different sizes with `S_ONLY`, which copies and never scales: the picture is
  drawn as large as it is. `screen` reaches it (pictures 1, 4 and 5 wide, asked for 3 wide), and `PictureShown` states it as the one exception (`Unscaled`); with `Unscaled` false the run finds the Atari's first picture;
- `draw_mac.c` says its pen is "always restored to black afterward": what a program had selected before a fill, if it was not black, is gone (`fills black`); that `draw_atari.c` and `draw_amiga.c` restore nothing is the rest of the table in "Fonts and drawing";
- `transport_amiga.c` 223 and `transport_mac.c` 227 do not ask how much a read that fails with an error has moved: the model's drivers move no byte then;
- `draw_win32.c` 11 and `draw_qt.cpp` 16-20 take y for the top of a text, the Atari, the Amiga and the Mac for its base line; coordinates are not modelled;
- the FIFO left behind by an open that fails, the Qt conversion that may cut a character in two, and the Mac's port taken by the first measurement: modelled, and described above;
- a clipboard of gem4xe may change when a write of it fails: what has been written by then is there. The contract at first allowed either the one or the other in one step, and with a buffer
  of one byte TLC could not tell; the proof of `PromisesKept` did, and `Clipboard` and the bounds are now such that it is checked as well.
