------------------------------- MODULE XScreen -------------------------------
(***************************************************************************)
(* Drawing in the X11 front end, xwin.c: every drawing order of the server *)
(* has to reach the backing store, the window with the desktop and all     *)
(* seamless windows, some by drawing three times, some by drawing once and *)
(* copying.  Meanwhile other programs cover and uncover the windows: X     *)
(* forgets what is covered and sends Expose when it is to be drawn again;  *)
(* the program reads its events only between two packets of the server.    *)
(*                                                                         *)
(* A screen is a row of cells of one bit, so that raster operations can be *)
(* told apart; a place in a seamless window is named by its cell on the    *)
(* desktop.  Without own backing store (option -B) X keeps what is covered.*)
(* Colours, patterns and the shapes of figures are left out; text lies     *)
(* within its box.                                                         *)
(***************************************************************************)
EXTENDS Integers, Sequences

CONSTANTS
    ScreenCells,    \* of the desktop, a range from 1
    Areas,          \* rectangles orders draw in, sets of cells
    Frame,          \* the part of the desktop in which the seamless window lies
    Opcodes,        \* raster operations of two operands the server sends
    MaxEvents       \* bound: X events that wait

ASSUME AreaAssumption == Areas \subseteq SUBSET ScreenCells /\ Frame \subseteq ScreenCells
ASSUME OpcodeAssumption == Opcodes \subseteq 0 .. 15 /\ MaxEvents \in Nat

VARIABLES
    picture,        \* what is drawn where, see ScreenInit
    hidden,         \* window |-> its cells that X does not show
    xevents,        \* X events that wait, the first to be handled first
    g_Unobscured,   \* as the last VisibilityNotify said
    g_ownbackstore,
    smudged         \* cells where the code is known to draw something else, until drawn anew

screenVars == <<picture, hidden, xevents, g_Unobscured, g_ownbackstore, smudged>>

ROP_COPY == 12
ROP_AND == 8
ROP_XOR == 6
ROP_NXOR == 9
Desktop == "g_wnd"
SeamlessWnd == "sw->wnd"

-----------------------------------------------------------------------------
(* Raster operations: the opcode is the table of results, indexed by its   *)
(* operands; X has names.                                                  *)

Weights == <<1, 2, 4, 8, 16, 32, 64, 128>>
BitOf(opcode, index) == (opcode \div Weights[index + 1]) % 2
Rop2(opcode, source, dest) == BitOf(opcode, 2 * source + dest)
Rop3(opcode, pattern, source, dest) == BitOf(opcode, 4 * pattern + 2 * source + dest)

rop2_map == <<"clear", "nor", "andInverted", "copyInverted", "andReverse", "invert", "xor", "nand",
              "and", "equiv", "noop", "orInverted", "copy", "orReverse", "or", "set">>

Opposite(bit) == 1 - bit
Both(a, b) == a * b
Either(a, b) == a + b - a * b
ExclusiveOr(a, b) == IF a = b THEN 0 ELSE 1

\* What X makes of a source and what is there.
GX(function, s, d) ==
    CASE function = "clear" -> 0
      [] function = "nor" -> Opposite(Either(s, d))
      [] function = "andInverted" -> Both(Opposite(s), d)
      [] function = "copyInverted" -> Opposite(s)
      [] function = "andReverse" -> Both(s, Opposite(d))
      [] function = "invert" -> Opposite(d)
      [] function = "xor" -> ExclusiveOr(s, d)
      [] function = "nand" -> Opposite(Both(s, d))
      [] function = "and" -> Both(s, d)
      [] function = "equiv" -> Opposite(ExclusiveOr(s, d))
      [] function = "noop" -> d
      [] function = "orInverted" -> Either(Opposite(s), d)
      [] function = "copy" -> s
      [] function = "orReverse" -> Either(s, Opposite(d))
      [] function = "or" -> Either(s, d)
      [] function = "set" -> 1

\* The function of g_gc between SET_FUNCTION and RESET_FUNCTION
SET_FUNCTION(opcode) == rop2_map[opcode + 1]

-----------------------------------------------------------------------------
(* Drawing on the backing store and on windows *)

ScreenWindows == DOMAIN picture.win
InReach(p, area) == area \cap p.clip       \* g_clip_rectangle
Showing(p, w, contents) == [p EXCEPT !.win = [p.win EXCEPT ![w] = contents]]

\* X draws on what it shows; what is covered, it keeps only with option -B.
Drawn(contents, area, opcode, source) ==
    [c \in DOMAIN contents |->
        IF c \in area THEN GX(SET_FUNCTION(opcode), source[c], contents[c]) ELSE contents[c]]

OnWindow(p, w, area, opcode, source) ==
    LET reached == IF g_ownbackstore THEN InReach(p, area) \ hidden[w] ELSE InReach(p, area)
    IN  Showing(p, w, Drawn(p.win[w], reached, opcode, source))

OnBackstore(p, area, opcode, source) == [p EXCEPT !.back = Drawn(p.back, InReach(p, area), opcode, source)]

\* ON_ALL_SEAMLESS_WINDOWS, which moves the clip rectangle along
OnSeamless(p, area, opcode, source) ==
    IF SeamlessWnd \in ScreenWindows THEN OnWindow(p, SeamlessWnd, area, opcode, source) ELSE p

Plain(bit) == [c \in ScreenCells |-> bit]

\* FILL_RECTANGLE, FILL_POLYGON, DRAW_ELLIPSE, and XDrawLine(s) in ui_line and ui_polyline
Everywhere(p, area, opcode, source) ==
    LET windows == OnSeamless(OnWindow(p, Desktop, area, opcode, source), area, opcode, source)
    IN  IF g_ownbackstore THEN OnBackstore(windows, area, opcode, source) ELSE windows

\* FILL_RECTANGLE_BACKSTORE
OnStore(p, area, opcode, source) ==
    IF g_ownbackstore THEN OnBackstore(p, area, opcode, source) ELSE OnWindow(p, Desktop, area, opcode, source)

Store(p) == IF g_ownbackstore THEN p.back ELSE p.win[Desktop]

\* Mutant: what was drawn in the backing store is copied to the window alone.
CopyToMain(p, area) == IF g_ownbackstore THEN OnWindow(p, Desktop, area, ROP_COPY, p.back) ELSE p

\* The XCopyArea calls after drawing on the store
CopyOut(p, area) ==
    LET main == IF g_ownbackstore THEN OnWindow(p, Desktop, area, ROP_COPY, p.back) ELSE p
    IN  OnSeamless(main, area, ROP_COPY, Store(main))

-----------------------------------------------------------------------------
(* The operations of the user interface *)

ui_paint_bitmap(p, area, bitmap) == CopyOut(OnStore(p, area, ROP_COPY, bitmap), area)
ui_desktop_restore(p, area) == CopyOut(OnStore(p, area, ROP_COPY, p.saved), area)
ui_desktop_save(p, area) == [p EXCEPT !.saved = [c \in ScreenCells |-> IF c \in area THEN Store(p)[c] ELSE p.saved[c]]]

ui_destblt(p, opcode, area) == Everywhere(p, area, opcode, Plain(0))
ui_rect(p, area, colour) == Everywhere(p, area, ROP_COPY, Plain(colour))
ui_memblt(p, opcode, area, bitmap) == Everywhere(p, area, opcode, bitmap)
ui_patblt(p, opcode, area, pattern) == CopyOut(OnStore(p, area, opcode, pattern), area)

\* ui_line, ui_polyline, ui_polygon, ui_ellipse: a figure on all of them
ui_figure(p, opcode, area, colour) == Everywhere(p, area, opcode, Plain(colour))

\* ui_draw_text: the box, the glyphs in it, and the box copied out
ui_draw_text(p, box, glyphs, background, foreground) ==
    CopyOut(OnStore(OnStore(p, box, ROP_COPY, Plain(background)), glyphs, ROP_COPY, Plain(foreground)), box)

\* Only three of the operations of three operands
Ternary == {105, 184, 192}
ui_triblt(p, opcode, area, bitmap, pattern) ==
    CASE opcode = 105 -> ui_patblt(ui_memblt(p, ROP_XOR, area, bitmap), ROP_NXOR, area, pattern)
      [] opcode = 184 -> ui_patblt(ui_memblt(ui_patblt(p, ROP_XOR, area, pattern), ROP_AND, area, bitmap), ROP_XOR, area, pattern)
      [] opcode = 192 -> ui_patblt(ui_memblt(p, ROP_COPY, area, bitmap), ROP_AND, area, pattern)

\* XCopyArea from a screen to itself; what is outside is not copied
Moved(contents, by) == [c \in ScreenCells |-> IF c - by \in ScreenCells THEN contents[c - by] ELSE 0]

\* Mutant: the window is copied from itself, covered or not.
ScreenFromWindow(p, opcode, area, by) ==
    LET main == OnWindow(p, Desktop, area, opcode, Moved(p.win[Desktop], by))
        store == IF g_ownbackstore THEN OnBackstore(main, area, opcode, Moved(main.back, by)) ELSE main
    IN  OnSeamless(store, area, opcode, Store(store))

\* The windows are copied from the store with the same function as the store from itself.
ui_screenblt(p, opcode, area, by) ==
    LET from == IF g_ownbackstore /\ ~g_Unobscured THEN p.back ELSE p.win[Desktop]
        main == OnWindow(p, Desktop, area, opcode, Moved(from, by))
        store == IF g_ownbackstore THEN OnBackstore(main, area, opcode, Moved(main.back, by)) ELSE main
    IN  OnSeamless(store, area, opcode, Store(store))

-----------------------------------------------------------------------------
(* Orders *)

PictureOf(meant, back, win, saved) ==
    [meant |-> meant, back |-> back, win |-> win, saved |-> saved, clip |-> ScreenCells]

\* The desktop at the start is black, shown in full, or with a seamless
\* window, when the window with the desktop is not mapped.
ScreenInit ==
    \E windows \in {{Desktop}, {Desktop, SeamlessWnd}} :
        /\ picture = PictureOf(Plain(0), Plain(0),
                              [w \in windows |-> [c \in IF w = Desktop THEN ScreenCells ELSE Frame |-> 0]], Plain(0))
        /\ hidden = [w \in windows |-> IF w = Desktop /\ SeamlessWnd \in windows THEN ScreenCells ELSE {}]
        /\ g_Unobscured = (SeamlessWnd \notin windows)
        /\ g_ownbackstore \in BOOLEAN /\ (SeamlessWnd \in windows => g_ownbackstore)
        /\ xevents = <<>> /\ smudged = {}

ui_set_clip(p, bounds) == [p EXCEPT !.clip = bounds]

\* Mutant: the clip rectangle of an order stays.
KeepClip(p) == p

ui_reset_clip(p) == [p EXCEPT !.clip = ScreenCells]

Means(p, area, value) ==
    [p EXCEPT !.meant = [c \in ScreenCells |-> IF c \in InReach(p, area) THEN value[c] ELSE p.meant[c]]]

\* An order, done with what it means for the desktop; cells drawn anew are
\* as they should be.  What it takes from the screen may be smudged itself.
Drawing(after, area, value, spoiled, whole) ==
    /\ picture' = ui_reset_clip(Means(after, area, value))
    /\ smudged' = (IF whole THEN smudged \ InReach(after, area) ELSE smudged)
                  \cup (spoiled \cap InReach(after, area))

PaintOrder(p, area, bit) == Drawing(ui_paint_bitmap(p, area, Plain(bit)), area, Plain(bit), {}, TRUE)

Combined(opcode, bit, dest) == [c \in ScreenCells |-> Rop2(opcode, bit, dest[c])]

FillOrder(p, area, bit) ==
    \/ Drawing(ui_rect(p, area, bit), area, Plain(bit), {}, TRUE)
    \/ \E opcode \in Opcodes :
          LET result == Combined(opcode, bit, p.meant)
              whole == opcode = ROP_COPY
          IN  \/ bit = 0 /\ Drawing(ui_destblt(p, opcode, area), area, result, {}, whole)
              \/ Drawing(ui_memblt(p, opcode, area, Plain(bit)), area, result, {}, whole)
              \/ Drawing(ui_patblt(p, opcode, area, Plain(bit)), area, result, {}, whole)
              \/ Drawing(ui_figure(p, opcode, area, bit), area, result, {}, whole)

Combine(p, area, bitmap, pattern) ==
    \E opcode \in Ternary :
        Drawing(ui_triblt(p, opcode, area, Plain(bitmap), Plain(pattern)), area,
              [c \in ScreenCells |-> Rop3(opcode, pattern, bitmap, p.meant[c])], {}, FALSE)

TextOrder(p, box, glyphs, background) ==
    /\ glyphs \subseteq box
    /\ Drawing(ui_draw_text(p, box, glyphs, background, 1 - background), box,
             [c \in ScreenCells |-> IF c \in glyphs THEN 1 - background ELSE background], {}, TRUE)

\* Does the window show something else than the store, unknown to g_Unobscured?
Stale(c) ==
    /\ g_ownbackstore /\ g_Unobscured
    /\ c \in hidden[Desktop] \/ \E i \in DOMAIN xevents : xevents[i].kind = "Expose" /\ c \in xevents[i].cells

\* Smudged: copies of smudged cells, copies from a window that is covered
\* while g_Unobscured does not say so, and other functions than ROP_COPY on
\* seamless windows, which are applied twice.
Scroll(p, area, by, opcode) ==
    LET Known(c) == c - by \in ScreenCells /\ c - by \notin smudged /\ ~Stale(c - by)
                    /\ (SeamlessWnd \in ScreenWindows => opcode = ROP_COPY)
    IN  /\ \A c \in area : c - by \in ScreenCells
        /\ Drawing(ui_screenblt(p, opcode, area, by), area,
                 [c \in area |-> Rop2(opcode, p.meant[c - by], p.meant[c])],
                 {c \in area : ~Known(c)}, opcode = ROP_COPY)

\* The server restores what it saved; the desktop cache is that of cache.c.
SaveDesktop(p, area) ==
    /\ area \cap smudged = {} /\ p.clip = ScreenCells
    /\ picture' = ui_desktop_save(p, area) /\ UNCHANGED smudged

RestoreDesktop(p, area) == Drawing(ui_desktop_restore(p, area), area, p.saved, {}, TRUE)

\* The bounds are those of one order.
DrawOrder(bounds, area) ==
    LET p == ui_set_clip(picture, bounds)
    IN  /\ \E bit \in {0, 1} :
              \/ PaintOrder(p, area, bit) \/ FillOrder(p, area, bit)
              \/ \E pattern \in {0, 1} : Combine(p, area, bit, pattern)
              \/ \E glyphs \in Areas : TextOrder(p, area, glyphs, bit)
              \/ \E by \in {-1, 1}, opcode \in Opcodes : Scroll(p, area, by, opcode)
              \/ SaveDesktop(p, area) \/ RestoreDesktop(p, area)
        /\ UNCHANGED <<hidden, xevents, g_Unobscured, g_ownbackstore>>

-----------------------------------------------------------------------------
(* Windows and events *)

VisibilityNotify(unobscured) == [kind |-> "VisibilityNotify", unobscured |-> unobscured]
ExposeOf(w, cells) == [kind |-> "Expose", window |-> w, cells |-> cells]

Forgotten(contents, cells) == [c \in DOMAIN contents |-> IF c \in cells THEN 0 ELSE contents[c]]

\* Other programs cover a part of a window, or uncover it.
Cover(w, covered) ==
    LET open == hidden[w] \ covered
        told == IF w = Desktop /\ (hidden[w] = {}) # (covered = {}) THEN <<VisibilityNotify(covered = {})>> ELSE <<>>
        shown == IF open # {} /\ g_ownbackstore THEN <<ExposeOf(w, open)>> ELSE <<>>
    IN  /\ covered # hidden[w]
        /\ w = Desktop => SeamlessWnd \notin ScreenWindows
        /\ Len(xevents \o told \o shown) <= MaxEvents
        /\ hidden' = [hidden EXCEPT ![w] = covered]
        /\ picture' = IF g_ownbackstore
                      THEN Showing(picture, w, Forgotten(picture.win[w], hidden[w] \cup covered))
                      ELSE picture
        /\ xevents' = xevents \o told \o shown
        /\ UNCHANGED <<g_Unobscured, g_ownbackstore, smudged>>

\* xwin_process_events
HandleEvent ==
    LET event == Head(xevents)
    IN  /\ xevents # <<>> /\ xevents' = Tail(xevents)
        /\ IF event.kind = "Expose"
           THEN /\ picture' = OnWindow(picture, event.window, event.cells, ROP_COPY, picture.back)
                /\ UNCHANGED g_Unobscured
           ELSE g_Unobscured' = event.unobscured /\ UNCHANGED picture
        /\ UNCHANGED <<hidden, g_ownbackstore, smudged>>

\* Between two windows: the contents go over, unless they are in the own
\* backing store, which goes with the old window.  ui_create_window takes
\* the first VisibilityNotify out of the queue.
xwin_toggle_fullscreen ==
    /\ SeamlessWnd \notin ScreenWindows
    /\ picture' = IF g_ownbackstore
                  THEN PictureOf(picture.meant, Plain(0), [w \in {Desktop} |-> Plain(0)], picture.saved)
                  ELSE picture
    /\ hidden' = [w \in {Desktop} |-> {}] /\ g_Unobscured' = TRUE
    /\ xevents' = IF g_ownbackstore THEN <<ExposeOf(Desktop, ScreenCells)>> ELSE <<>>
    /\ smudged' = IF g_ownbackstore THEN ScreenCells ELSE smudged
    /\ UNCHANGED g_ownbackstore

ScreenNext ==
    \/ \E bounds \in Areas \cup {ScreenCells}, area \in Areas : DrawOrder(bounds, area)
    \/ \E w \in ScreenWindows, covered \in SUBSET ScreenCells : covered \subseteq DOMAIN picture.win[w] /\ Cover(w, covered)
    \/ HandleEvent \/ xwin_toggle_fullscreen

ScreenSpec == ScreenInit /\ [][ScreenNext]_screenVars

-----------------------------------------------------------------------------
(* The property *)

Awaited(w, c) == \E i \in DOMAIN xevents : xevents[i].kind = "Expose" /\ xevents[i].window = w /\ c \in xevents[i].cells

\* Whatever is drawn, scrolled, covered and uncovered in whatever order, the
\* backing store and every window show what the server's orders mean, cell by
\* cell, but for cells that X has still to tell of (Expose) and those that are
\* smudged.
ShowsWhatIsMeant ==
    \A c \in ScreenCells \ smudged :
        /\ g_ownbackstore => picture.back[c] = picture.meant[c]
        /\ \A w \in ScreenWindows :
              \/ c \notin DOMAIN picture.win[w] \/ c \in hidden[w] \/ Awaited(w, c)
              \/ picture.win[w][c] = picture.meant[c]
=============================================================================
