------------------------------- MODULE Canvas --------------------------------
(***************************************************************************)
(* Fonts, text metrics and drawing of one backend: metrics_*.c, draw_*.c   *)
(* and the windows of those that have any.  The drawing systems keep what  *)
(* is selected - the face, the pen, the Mac's current port - in contexts,  *)
(* and so does this module: a backend measures in a context of its own,    *)
(* opened when it is first needed, and draws in the window's, which the    *)
(* program draws into by itself too.                                       *)
(*                                                                         *)
(* BUFFER stands for the 256 bytes of the buffers on the stack, and a      *)
(* longer text is also longer than the 512 characters of the win32 ones.   *)
(***************************************************************************)
EXTENDS Utf8, AtariFonts, FiniteSets, FiniteSetsExt

CONSTANTS
  Targets,    (* backends among atari, amiga, mac, win32, qt, dos, host    *)
  Devices,    (* [Targets -> the screens they may run on]                  *)
  Slots,      (* the fonts a program has open                              *)
  Requests,   (* the fonts it asks for: [size, style]                      *)
  Samples,    (* the texts: a sequence of sequences of bytes               *)
  Brightness, (* the colours, each with its r + g + b                      *)
  Pixels,     (* the distances that are converted                          *)
  BUFFER, NoFont

VARIABLES
  target, device,
  ready,      (* the metrics context: "no", "yes", or "failed" for good    *)
  asked,      (* g_dpi_queried: the Amiga has looked at its screen         *)
  ratio,      (* g_dpi_x, the horizontal dots per inch                     *)
  font,       (* [Slots -> what a plat_font holds, or NoFont]              *)
  look,       (* [Contexts -> what is selected there, see Fresh]           *)
  port,       (* the current port (the Mac), always "window" elsewhere     *)
  held,       (* [Resources -> how many of them the backend holds]         *)
  window,     (* whether a plat_window exists                              *)
  laid,       (* the distance the program holds in twips, if any: of how   *)
              (* many pixels, turned into twips at which ratio             *)
  done        (* what the last call answered, or left on which port        *)

setup == <<target, device>>
metrics == <<ready, asked, ratio>>
vars == <<setup, metrics, font, look, port, held, window, laid, done>>

Ports == {"window", "desk"}
Contexts == Ports \cup {"metrics"}
Resources == {"memory", "dc", "face", "brush"}
Texts == DOMAIN Samples
Colours == DOMAIN Brightness
Lines == 0

(* A context has a face, a pen, what it draws behind characters (on the    *)
(* Amiga the background pen and the drawing mode), a place where its pen   *)
(* stands (Move, MoveTo), and what it fills with (the VDI's interior and   *)
(* fill colour).  As the program leaves them, they are its "own".          *)
Fresh == [face |-> NoFont, pen |-> "own", ground |-> "own", place |-> "own", fill |-> "own"]

Init ==
  /\ target \in Targets /\ device \in Devices[target]
  /\ ready = "no" /\ asked = FALSE
  /\ ratio = IF target = "atari" THEN Assumed ELSE IF target = "win32" THEN 96 ELSE 72
  /\ font = [s \in Slots |-> NoFont]
  /\ look = [c \in Contexts |-> Fresh] /\ port = "window"
  /\ held = [r \in Resources |-> 0] /\ window = FALSE /\ laid = {}
  /\ done = [call |-> "none"]

Error == [call |-> "error"]
Answer(n) == [call |-> "measure", width |-> n]
Ink(on, f, text, p) == [call |-> "ink", on |-> on, face |-> f, text |-> text, pen |-> p]

Taking(rs) == [r \in Resources |-> held[r] + IF r \in rs THEN 1 ELSE 0]
Giving(rs) == [r \in Resources |-> held[r] - IF r \in rs THEN 1 ELSE 0]
(* A call that takes some and gives them back: none if it forgets none.    *)
Kept(taken, given) ==
  [r \in Resources |-> held[r] + (IF r \in taken THEN 1 ELSE 0)
                               - (IF r \in given THEN 1 ELSE 0)]

------------------------------------------------------------------------------
(* A face is what the drawing system makes of a plat_font: the width of a  *)
(* character and its height in pixels, and the effects.  On the Atari it   *)
(* is one of the VDI's cells; elsewhere characters are as wide as high.    *)
Effects == {"bold", "italic", "underline"}
Cell(f) ==
  LET cell == VstPoint(f.size)
  IN  [w |-> cell.w, h |-> cell.h, ascent |-> cell.ascent, descent |-> cell.descent,
       style |-> f.style]
Square(f) == [w |-> f.size, h |-> f.size, style |-> f.style]
Face(f) ==
  IF f = NoFont THEN NoFont ELSE IF target = "atari" THEN Cell(f) ELSE Square(f)

(* The pens nearest to a colour: the two of the VDI and of the window's    *)
(* DrawInfo, QuickDraw's patterns, or the colour itself.                   *)
TwoTone(c) == IF Brightness[c] < 384 THEN "black" ELSE "white"

(* MulDiv rounds to the nearest.                                           *)
GdiTwips(px) == (px * 1440 + ratio \div 2) \div ratio
AmigaTwips(px, dpi) == (px * 1440) \div dpi

------------------------------------------------------------------------------
(* The metrics contexts.                                                   *)

(* ensure_metrics_vdi: a workstation that could not be opened is tried     *)
(* again by the next call.                                                 *)
EnsureVdi(ok) ==
  /\ UNCHANGED asked
  /\ \/ ready = "yes" /\ ok /\ UNCHANGED <<ready, ratio>>
     \/ ready = "no" /\ ok /\ ready' = "yes" /\ ratio' = Dpi(device.umx)
     \/ ready = "no" /\ ~ ok /\ UNCHANGED <<ready, ratio>>

(* ensure_metrics_queried: the screen is asked once, and unlocked.         *)
ModeDpi == IF device.rx > 0 /\ device.ry > 0 THEN (72 * device.ry) \div device.rx ELSE 0
Query ==
  \/ asked /\ UNCHANGED <<asked, ratio>>
  \/ ~ asked /\ asked' = TRUE
     /\ \/ UNCHANGED ratio                            (* no screen, no mode *)
        \/ ModeDpi > 0 /\ ratio' = ModeDpi

(* ensure_metrics_rp and ensure_metrics_port: what failed once has failed. *)
EnsureOnce(ok) ==
  /\ UNCHANGED <<asked, ratio>>
  /\ \/ ready # "no" /\ ok = (ready = "yes") /\ UNCHANGED ready
     \/ ready = "no" /\ ready' = IF ok THEN "yes" ELSE "failed"

------------------------------------------------------------------------------
(* plat_font_open: what is allocated, and what is given back if a later    *)
(* one cannot be.                                                          *)
Opened(s, f, taken, given) ==
  /\ font' = [font EXCEPT ![s] = f] /\ held' = Kept(taken, given)
  /\ done' = [call |-> "open"]
NotOpened(taken, given) ==
  UNCHANGED font /\ held' = Kept(taken, given) /\ done' = Error

AtariOpen(s, q) ==
  /\ target = "atari"
  /\ \/ EnsureVdi(FALSE) /\ NotOpened({}, {})
     \/ EnsureVdi(TRUE) /\ NotOpened({}, {})          (* WP_NOMEM          *)
     \/ /\ EnsureVdi(TRUE)
        /\ Opened(s, [size |-> PickPointSize(q.size, device),
                      style |-> q.style \cap Effects, owned |-> FALSE], {"memory"}, {})

AmigaOpen(s, q) ==
  /\ target = "amiga" /\ Query /\ UNCHANGED ready
  /\ \/ NotOpened({}, {})
     \/ Opened(s, [size |-> Max({1, (q.size * 72) \div 1440}),
                   style |-> q.style \cap Effects, owned |-> TRUE], {"memory", "face"}, {})
     \/ Opened(s, [size |-> 8, style |-> {}, owned |-> FALSE], {"memory"}, {})

MacOpen(s, q) ==
  /\ target = "mac" /\ UNCHANGED metrics
  /\ \/ NotOpened({}, {})
     \/ Opened(s, [size |-> Max({1, q.size \div 20}),
                   style |-> q.style \cap Effects, owned |-> FALSE], {"memory"}, {})

(* A mistake: the device context is kept when no font can be made.         *)
GdiOpenLeaky(s, q) ==
  /\ target = "win32" /\ UNCHANGED metrics
  /\ \/ NotOpened({}, {})
     \/ NotOpened({"memory"}, {"memory"})
     \/ NotOpened({"memory", "dc"}, {"memory"})
     \/ Opened(s, [size |-> Max({1, (q.size * ratio + 720) \div 1440}),
                   style |-> q.style, owned |-> TRUE], {"memory", "dc", "face"}, {"dc"})

GdiOpen(s, q) ==
  /\ target = "win32" /\ UNCHANGED metrics
  /\ \/ NotOpened({}, {})
     \/ NotOpened({"memory"}, {"memory"})             (* no DC             *)
     \/ NotOpened({"memory", "dc"}, {"memory", "dc"}) (* no font           *)
     \/ Opened(s, [size |-> Max({1, (q.size * ratio + 720) \div 1440}),
                   style |-> q.style, owned |-> TRUE], {"memory", "dc", "face"}, {"dc"})

QtOpen(s, q) ==
  /\ target = "qt" /\ UNCHANGED metrics
  /\ \/ NotOpened({}, {})
     \/ Opened(s, [size |-> q.size \div 20, style |-> q.style, owned |-> TRUE],
               {"memory", "face"}, {})

(* DOS and the host keep what was asked for.                               *)
HostOpen(s, q) ==
  /\ target \in {"dos", "host"} /\ UNCHANGED metrics
  /\ NotOpened({}, {}) \/ Opened(s, [size |-> q.size, style |-> q.style, owned |-> FALSE],
                                 {"memory"}, {})

Open(s, q) ==
  /\ font[s] = NoFont /\ UNCHANGED <<setup, look, port, window, laid>>
  /\ \/ AtariOpen(s, q) \/ AmigaOpen(s, q) \/ MacOpen(s, q)
     \/ GdiOpen(s, q) \/ QtOpen(s, q) \/ HostOpen(s, q)

Close(s) ==
  /\ font[s] # NoFont /\ font' = [font EXCEPT ![s] = NoFont]
  /\ held' = Giving({"memory"} \cup IF font[s].owned THEN {"face"} ELSE {})
  /\ done' = [call |-> "close"] /\ UNCHANGED <<setup, metrics, look, port, window, laid>>

------------------------------------------------------------------------------
(* plat_measure_text of a text, plat_font_metrics_get of Lines.            *)

(* atari_select_font, SetFont, TextFont and its like: in one context.      *)
Select(c, f) == look' = [look EXCEPT ![c].face = f]

Wide(f, text) == IF text = <<>> THEN 0 ELSE Len(text) * f.w

(* A mistake: the face of the last measurement is taken to be selected.    *)
AtariMeasureAsLeft(s, t) ==
  LET native == ToBytes(\h7F, Cut(Samples[t], BUFFER - 1), BUFFER - 1)
      cell == Cell(font[s])
      dpi == Dpi(device.umy)
  IN  /\ target = "atari" /\ UNCHANGED <<metrics, held, port>>
      /\ \/ /\ t # Lines
            /\ IF look["metrics"].face = NoFont THEN Select("metrics", cell) ELSE UNCHANGED look
            /\ done' = Answer(ToTwips(Wide(look'["metrics"].face, native), ratio))
         \/ /\ t = Lines /\ Select("metrics", [cell EXCEPT !.style = {}])
            /\ done' = Answer(LineHeight(VstPoint(font[s].size), dpi))

AtariMeasure(s, t) ==
  LET native == ToBytes(\h7F, Cut(Samples[t], BUFFER - 1), BUFFER - 1)
      cell == Cell(font[s])
      dpi == Dpi(device.umy)
  IN  /\ target = "atari" /\ UNCHANGED <<metrics, held, port>>
      /\ \/ /\ t # Lines /\ Select("metrics", cell)
            /\ done' = Answer(ToTwips(Wide(look'["metrics"].face, native), ratio))
         \/ /\ t = Lines /\ Select("metrics", [cell EXCEPT !.style = {}])
            /\ done' = Answer(LineHeight(VstPoint(font[s].size), dpi))

AmigaMeasure(s, t) ==
  LET native == ToBytes(\hFF, Cut(Samples[t], BUFFER), BUFFER)
  IN  /\ target = "amiga" /\ UNCHANGED <<held, port>>
      /\ \/ /\ t # Lines /\ EnsureOnce(FALSE) /\ UNCHANGED look /\ done' = Error
         \/ /\ t # Lines /\ EnsureOnce(TRUE)
            /\ IF native = <<>> THEN UNCHANGED look ELSE Select("metrics", Square(font[s]))
            /\ done' = Answer(AmigaTwips(Wide(look'["metrics"].face, native), ratio))
         \/ /\ t = Lines /\ UNCHANGED <<metrics, look>>
            /\ done' = Answer(AmigaTwips(font[s].size, 72))

(* OpenPort makes the new port the current one, and only then is the       *)
(* current one saved.                                                      *)
MacMeasure(s, t) ==
  LET native == ToBytes(\h7F, Cut(Samples[t], BUFFER), BUFFER)
      saved == IF ready = "no" THEN "metrics" ELSE port
  IN  /\ target = "mac" /\ UNCHANGED held
      /\ \/ EnsureOnce(FALSE) /\ UNCHANGED <<look, port>> /\ done' = Error
         \/ /\ EnsureOnce(TRUE) /\ Select("metrics", Square(font[s])) /\ port' = saved
            /\ LET face == look'["metrics"].face
               IN  done' = Answer(20 * IF t = Lines THEN face.h ELSE Wide(face, native))

(* The metrics of a GDI font were read when it was opened; its width is    *)
(* measured in the screen's DC, whose own font is selected again.          *)
GdiMeasure(s, t) ==
  LET taken == {"dc"} \cup IF Len(Samples[t]) > BUFFER THEN {"memory"} ELSE {}
      Failing(ts, gs) == held' = Kept(ts, gs) /\ done' = Error
  IN  /\ target = "win32" /\ UNCHANGED <<metrics, look, port>>
      /\ \/ t = Lines /\ done' = Answer(GdiTwips(font[s].size)) /\ UNCHANGED held
         \/ t # Lines /\ Samples[t] = <<>> /\ done' = Answer(0) /\ UNCHANGED held
         \/ /\ t # Lines /\ Samples[t] # <<>>
            /\ \/ "memory" \in taken /\ Failing({}, {})
               \/ Failing(taken \ {"dc"}, taken \ {"dc"})
               \/ /\ held' = Kept(taken, taken)
                  /\ done' \in {Error, Answer(GdiTwips(Wide(Square(font[s]), Clusters(Samples[t]))))}

QtMeasure(s, t) ==
  /\ target = "qt" /\ UNCHANGED <<metrics, look, port, held>>
  /\ done' = Answer(20 * IF t = Lines THEN font[s].size
                         ELSE Wide(Square(font[s]), Clusters(Samples[t])))

HostMeasure(s, t) ==
  /\ target = "host" /\ UNCHANGED <<metrics, look, port, held>>
  /\ done' = Answer(IF t = Lines THEN font[s].size + font[s].size \div 4
                    ELSE (font[s].size \div 2) * CpCount(Samples[t]))

DosMeasure(s, t) ==
  /\ target = "dos" /\ UNCHANGED <<metrics, look, port, held>>
  /\ done' = Answer(IF t = Lines THEN 192 + 48 ELSE 144 * CpCount(Samples[t]))

Measure(s, t) ==
  /\ font[s] # NoFont /\ UNCHANGED <<setup, font, window, laid>>
  /\ \/ AtariMeasure(s, t) \/ AmigaMeasure(s, t) \/ MacMeasure(s, t)
     \/ GdiMeasure(s, t) \/ QtMeasure(s, t) \/ HostMeasure(s, t) \/ DosMeasure(s, t)

------------------------------------------------------------------------------
(* plat_draw_text and plat_fill_rect, on a gc that names the window.       *)

Inked(text) ==
  done' = Ink("window", look'["window"].face, text, look'["window"].pen)
Filled(p) == done' = Ink("window", NoFont, <<>>, p)

AtariDraw(s, t, c) ==
  LET native == ToBytes(\h7F, Cut(Samples[t], BUFFER - 1), BUFFER - 1)
  IN  /\ target = "atari" /\ UNCHANGED <<port, held>>
      /\ look' = [look EXCEPT !["window"].face = Cell(font[s]), !["window"].pen = TwoTone(c)]
      /\ Inked(native)

(* SetFont, SetAPen, SetBPen, SetDrMd and Move, and Text moves on.         *)
AmigaDraw(s, t, c) ==
  LET native == ToBytes(\hFF, Cut(Samples[t], BUFFER), BUFFER)
  IN  /\ target = "amiga" /\ UNCHANGED <<port, held>>
      /\ \/ native = <<>> /\ UNCHANGED <<look, done>>
         \/ /\ native # <<>>
            /\ look' = [look EXCEPT !["window"] =
                          [@ EXCEPT !.face = Square(font[s]), !.pen = TwoTone(c),
                                    !.ground = "paper", !.place = "text"]]
            /\ Inked(native)

(* Text is drawn in black, whatever its colour.                            *)
MacDraw(s, t) ==
  LET native == ToBytes(\h7F, Cut(Samples[t], BUFFER), BUFFER)
  IN  /\ target = "mac" /\ UNCHANGED held /\ port' = "window"
      /\ look' = [look EXCEPT !["window"].face = Square(font[s]), !["window"].place = "text"]
      /\ done' = Ink("window", look'["window"].face, native, "black")

(* The DC gets its font, colour, mode and alignment back.                  *)
GdiDraw(s, t, c) ==
  LET text == Clusters(Samples[t])
      taken == IF Len(Samples[t]) > BUFFER THEN {"memory"} ELSE {}
  IN  /\ target = "win32" /\ UNCHANGED <<look, port>>
      /\ \/ text = <<>> /\ UNCHANGED <<held, done>>
         \/ taken # {} /\ held' = Kept({}, {}) /\ done' = Error
         \/ text # <<>> /\ held' = Kept(taken, taken)
            /\ done' \in {Error, Ink("window", Square(font[s]), text, c)}

QtDraw(s, t, c) ==
  /\ target = "qt" /\ UNCHANGED <<look, port, held>>
  /\ done' = Ink("window", Square(font[s]), Clusters(Samples[t]), c)

(* The host draws nothing, and what DOS draws is TextScreen's.             *)
HostDraw == target \in {"dos", "host"} /\ UNCHANGED <<look, port, held, done>>

Draw(s, t, c) ==
  /\ font[s] # NoFont /\ UNCHANGED <<setup, metrics, font, window, laid>>
  /\ \/ AtariDraw(s, t, c) \/ AmigaDraw(s, t, c) \/ MacDraw(s, t)
     \/ GdiDraw(s, t, c) \/ QtDraw(s, t, c) \/ HostDraw

(* vsf_interior and vsf_color, which are no attributes of text.            *)
AtariFill(c) ==
  /\ target = "atari" /\ look' = [look EXCEPT !["window"].fill = TwoTone(c)]
  /\ Filled(look'["window"].fill) /\ UNCHANGED <<port, held>>

AmigaFill(c) ==
  /\ target = "amiga" /\ look' = [look EXCEPT !["window"].pen = TwoTone(c)]
  /\ Filled(look'["window"].pen) /\ UNCHANGED <<port, held>>

(* A mistake: the program is left with the pen of the filling.             *)
MacFillKeepingPen(c) ==
  /\ target = "mac" /\ port' = "window" /\ Filled(TwoTone(c))
  /\ look' = [look EXCEPT !["window"].pen = TwoTone(c)] /\ UNCHANGED held

(* "The pen is always restored to black afterward."                        *)
MacFill(c) ==
  /\ target = "mac" /\ port' = "window"
  /\ Filled(TwoTone(c)) /\ look' = [look EXCEPT !["window"].pen = "black"]
  /\ UNCHANGED held

GdiFill(c) ==
  /\ target = "win32" /\ UNCHANGED <<look, port>>
  /\ \/ held' = Kept({}, {}) /\ done' = Error
     \/ held' = Kept({"brush"}, {"brush"}) /\ Filled(c)

QtFill(c) == target = "qt" /\ Filled(c) /\ UNCHANGED <<look, port, held>>

Fill(c) ==
  /\ UNCHANGED <<setup, metrics, font, window, laid>>
  /\ AtariFill(c) \/ AmigaFill(c) \/ MacFill(c) \/ GdiFill(c) \/ QtFill(c) \/ HostDraw

------------------------------------------------------------------------------
(* A shell lays out in twips and draws in pixels: px_to_twips, and later   *)
(* twips_to_px, of the backends that have them.  On the Atari and on the   *)
(* Amiga each of the two looks for the ratio first.                        *)
Ratio ==
  \/ target = "atari" /\ \E ok \in BOOLEAN : EnsureVdi(ok)
  \/ target = "amiga" /\ Query /\ UNCHANGED ready
  \/ target \in {"mac", "dos"} /\ UNCHANGED metrics

PxToTwips(px) ==
  /\ Ratio /\ laid' = {[px |-> px, at |-> ratio']}
  /\ UNCHANGED <<setup, font, look, port, held, window, done>>

Back(d) ==
  CASE target = "atari" -> ToPixels(ToTwips(d.px, d.at), ratio')
    [] target = "amiga" -> (AmigaTwips(d.px, d.at) * ratio') \div 1440
    [] target = "mac" -> (d.px * 20) \div 20
    [] target = "dos" -> (d.px * 144) \div 144

TwipsToPx ==
  /\ Ratio
  /\ \E d \in laid : done' = [call |-> "convert", px |-> d.px, back |-> Back(d)]
  /\ UNCHANGED <<setup, font, look, port, held, window, laid>>

(* plat_window_create and plat_window_destroy, of those that have them.    *)
Window ==
  /\ target \in {"win32", "qt", "dos", "host"}
  /\ \/ ~ window /\ UNCHANGED <<window, held>>        (* WP_NOMEM          *)
     \/ ~ window /\ window' = TRUE /\ held' = Taking({"memory"})
     \/ window /\ window' = FALSE /\ held' = Giving({"memory"})
  /\ UNCHANGED <<setup, metrics, font, look, port, laid, done>>

(* The program makes a port current, to draw there by itself, and selects  *)
(* what it draws with.                                                     *)
Itself ==
  /\ \E p \in IF target = "mac" THEN Ports ELSE {"window"} :
       port' = p /\ look' = [look EXCEPT ![p] = Fresh]
  /\ UNCHANGED <<setup, metrics, font, held, window, laid, done>>

Next ==
  \/ \E s \in Slots, q \in Requests : Open(s, q)
  \/ \E s \in Slots : Close(s)
  \/ \E s \in Slots, t \in Texts \cup {Lines} : Measure(s, t)
  \/ \E s \in Slots, t \in Texts, c \in Colours : Draw(s, t, c)
  \/ \E c \in Colours : Fill(c)
  \/ \E px \in Pixels : PxToTwips(px)
  \/ TwipsToPx
  \/ Window
  \/ Itself

Spec == Init /\ [][Next]_vars

------------------------------------------------------------------------------
TypeOK ==
  /\ target \in Targets /\ device \in Devices[target]
  /\ ready \in {"no", "yes", "failed"} /\ asked \in BOOLEAN /\ ratio \in Nat \ {0}
  /\ \A s \in Slots : font[s] # NoFont =>
       font[s].size \in Nat \ {0} /\ font[s].owned \in BOOLEAN
  /\ DOMAIN look = Contexts /\ port \in Contexts
  /\ held \in [Resources -> Nat] /\ window \in BOOLEAN
  /\ \A d \in laid : d.px \in Pixels /\ d.at \in Nat \ {0}

(* Between two calls a backend holds the memory and the faces of the open  *)
(* fonts and of the window, and no device context or brush: whichever      *)
(* allocation of whichever call has failed.                                *)
NothingHeld ==
  LET open == {s \in Slots : font[s] # NoFont}
  IN  held = [r \in Resources |->
        CASE r = "memory" -> Cardinality(open) + IF window THEN 1 ELSE 0
          [] r = "face" -> Cardinality({s \in open : font[s].owned})
          [] OTHER -> 0]

(* metrics_atari.c 296-309: a line's ascent, descent and leading, each     *)
(* turned into twips, are together exactly the cell in pixels again; and   *)
(* (191-269) the cell of a font is shaped like text on this screen,        *)
(* whichever size was asked for, if any of the machine's cells is.         *)
LinesFitTheCell ==
  target = "atari" => \A s \in Slots : font[s] # NoFont =>
    LET cell == VstPoint(font[s].size)
        dpi == Dpi(device.umy)
    IN  /\ ToPixels(LineHeight(cell, dpi), dpi) = cell.h
        /\ TextShaped(cell, device) \/ \A pt \in 1..48 : ~ TextShaped(VstPoint(pt), device)

------------------------------------------------------------------------------
(* What platform.h promises.                                               *)

Quirks ==
  CASE target = "atari" -> {"leaves face", "leaves pen", "fills fill"}
                           \cup (IF ready # "yes" THEN {"guesses"} ELSE {})
    [] target = "amiga" -> {"leaves face", "leaves pen", "leaves ground", "leaves place",
                            "fills pen", "truncates"}
                           \cup (IF ready # "yes" THEN {"fails"} ELSE {})
    [] target = "mac" -> {"leaves face", "leaves place", "fills black", "takes window"}
                         \cup (IF ready # "yes" THEN {"fails"} ELSE {})
                         \cup (IF ready = "no" THEN {"takes port"} ELSE {})
    [] target = "win32" -> {"fails"}
    [] target = "qt" -> {}
    [] target \in {"dos", "host"} -> {"blind"}

(* The characters of a text: those the native set lacks as a "?", and as   *)
(* many as the buffer takes.                                               *)
Characters ==
  [tg \in Targets |-> [t \in Texts |->
     LET limit == CASE tg \in {"atari", "mac"} -> \h7F [] tg = "amiga" -> \hFF
                    [] OTHER -> LastCp
         room == CASE tg = "atari" -> BUFFER - 1 [] tg \in {"amiga", "mac"} -> BUFFER
                   [] OTHER -> Len(Samples[t])
         cps == Clusters(Cut(Samples[t], room))
     IN  [i \in 1..Len(cps) |->
            IF cps[i] \in 0..limit \/ limit = LastCp THEN cps[i] ELSE Fallback]]]

Pens ==
  LET exact == [c \in Colours |-> c]
      tones == [c \in Colours |-> TwoTone(c)]
  IN  CASE target = "mac" -> [text |-> [c \in Colours |-> "black"], fill |-> tones]
        [] target \in {"atari", "amiga"} -> [text |-> tones, fill |-> tones]
        [] OTHER -> [text |-> exact, fill |-> exact]

(* DOS and the host count the steps of a cursor, which are the characters  *)
(* of a well-formed text; of another they may be fewer.                    *)
Steps == [t \in Texts |-> CpCount(Samples[t])]

(* The width in twips of a face's text, from the face alone.               *)
Width(f, t) ==
  LET px == IF t = Lines THEN f.h ELSE Len(Characters[target][t]) * f.w
      dpi == Dpi(device.umy)
  IN  CASE target = "atari" ->
             IF t = Lines THEN LineHeight(f, dpi)
             ELSE ToTwips(px, ratio)
        [] target = "amiga" -> AmigaTwips(px, IF t = Lines THEN 72 ELSE ratio)
        [] target = "win32" -> GdiTwips(px)
        [] target = "host" -> IF t = Lines THEN px + px \div 4
                              ELSE (f.w \div 2) * Steps[t]
        [] target = "dos" -> IF t = Lines THEN 240 ELSE 144 * Steps[t]
        [] OTHER -> 20 * px

Chosen ==
  [d \in UNION {Devices[t] : t \in Targets \cap {"atari"}} |->
     [q \in Requests |-> PickPointSize(q.size, d)]]

(* The faces that a font asked for may be: on the Amiga, the system's      *)
(* default if the disk has no other.                                       *)
FacesFor(q) ==
  LET style == IF target \in {"atari", "amiga", "mac"} THEN q.style \cap Effects ELSE q.style
      size == CASE target \in {"dos", "host"} -> q.size
                [] target = "win32" -> (q.size * ratio + 720) \div 1440
                [] OTHER -> q.size \div 20
  IN  IF target = "atari" THEN {Cell([size |-> Chosen[device][q], style |-> style])}
      ELSE {[w |-> size, h |-> size, style |-> style]}
           \cup IF target = "amiga" THEN {[w |-> 8, h |-> 8, style |-> {}]} ELSE {}

Faces == UNION {FacesFor(q) : q \in Requests}

Seam == INSTANCE Surface WITH
  quirks <- Quirks, faces <- Faces, pen <- Pens, scale <- ratio,
  drawn <- Characters[target],
  advance <- [f \in {Face(font[s]) : s \in Slots} |-> [t \in Texts \cup {Lines} |-> Width(f, t)]],
  font <- [s \in Slots |-> Face(font[s])],
  look <- [p \in Ports |-> look[p]]

(* platform.h 90-123: fonts keep their faces, what is measured and drawn   *)
(* depends on the font and the text alone, and the program's port and what *)
(* it has selected there are left alone, but for this backend's quirks.    *)
KeepsPromise == Seam!Spec

(* metrics_amiga_internal.h 10-17: with the same ratio both ways, what was *)
(* measured is as wide when it is drawn.                                   *)
PixelsSurvive == done.call = "convert" => done.back = done.px
==============================================================================
