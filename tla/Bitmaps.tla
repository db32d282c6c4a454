------------------------------ MODULE Bitmaps ------------------------------
(***************************************************************************)
(* Decompression of bitmaps, bitmap.c.  Bitmaps of one to three bytes a    *)
(* pixel come as runs: each is a code with its count, in one of several    *)
(* forms, and data; a run may refer to the line before and may go over the *)
(* end of a line.  bitmap_decompress1, 2 and 3 differ in the width of a    *)
(* pixel only.  Bitmaps of four bytes come as planes of differences.       *)
(*                                                                         *)
(* A pixel is the set of its bits, so that exclusive or is the symmetric   *)
(* difference; an input is a sequence of bytes and pixels.                 *)
(***************************************************************************)
EXTENDS Integers, Sequences, SequencesExt

CONSTANTS
    Bits,               \* the bits of a pixel
    Width, Height,
    RunLengths,         \* of the runs the server chooses
    MaxRuns,            \* bounds them
    ProbeCounts,        \* counts whose codes are tried by themselves
    PlaneValues         \* values of one plane

ASSUME BitmapsAssumption == {Width, Height} \cup RunLengths \subseteq Nat \ {0}

VARIABLES
    decoder,        \* the variables of bitmap_decompress
    meantPixels,    \* the pixels the server means, in the order it sends them
    lastRun,        \* the kind of the last run
    runs,           \* how many runs were sent
    probe           \* the last count or plane tried by itself, and what it was to be

rleVars == <<decoder, meantPixels, lastRun, runs, probe>>

Xor(a, b) == (a \ b) \cup (b \ a)
White == Bits
MaskBit(mask, i) == (mask \div 2^i) % 2 = 1
NoLine == -1
NoProbe == [is |-> <<>>, meant |-> <<>>]

Fill == 0
Mix == 1
FillOrMix == 2
Colour == 3
Copy == 4
SetMixMix == 6
SetMixFillOrMix == 7
Bicolour == 8
FillOrMix1 == 9
FillOrMix2 == 10
WhitePixel == 13
BlackPixel == 14

-----------------------------------------------------------------------------
(* The code of a run *)

\* Each code has room for a count of five bits, of four, or of two bytes
\* that follow.
CodeForm(input) ==
    LET code == input[1]
        high == code \div 16
        low == code % 16
    IN  IF high \in 12..14
        THEN [opcode |-> high - 6, count |-> low, offset |-> 16, used |-> 1]
        ELSE IF high # 15
        THEN [opcode |-> high \div 2, count |-> code % 32, offset |-> 32, used |-> 1]
        ELSE IF low < 9
        THEN [opcode |-> low, count |-> input[2] + 256 * input[3], offset |-> 0, used |-> 3]
        ELSE [opcode |-> low, count |-> IF low < 11 THEN 8 ELSE 1, offset |-> 0, used |-> 1]

\* Mutant: masks are counted in pixels.
CountInPixels(input) ==
    LET form == CodeForm(input)
    IN  IF form.offset = 0 \/ form.count # 0 THEN form
        ELSE [form EXCEPT !.used = 2, !.count = input[2] + form.offset]

\* A count that does not fit is one byte more; masks count eight pixels.
Counted(input) ==
    LET form == CodeForm(input)
        isfillormix == form.opcode \in {FillOrMix, SetMixFillOrMix}
    IN  IF form.offset = 0 THEN form
        ELSE IF form.count = 0
        THEN [form EXCEPT !.used = 2,
                          !.count = input[2] + IF isfillormix THEN 1 ELSE form.offset]
        ELSE [form EXCEPT !.count = IF isfillormix THEN 8 * @ ELSE @]

-----------------------------------------------------------------------------
(* A run *)

\* What a run sets before its first pixel.
Prepared(d, input) ==
    LET form == Counted(input)
        rest == SubSeq(input, form.used + 1, Len(input))
        op == form.opcode
        begun == [d EXCEPT !.count = form.count, !.opcode = op, !.input = rest, !.fom_mask = 0,
                           !.bit = 7]
        run == CASE op = Fill -> [begun EXCEPT !.insertmix = @ \/ (d.lastopcode = op
                                       /\ ~(d.x = Width /\ d.prevline = NoLine))]
                 [] op = Bicolour -> [begun EXCEPT !.colour1 = rest[1], !.colour2 = rest[2],
                                                   !.input = Tail(Tail(@))]
                 [] op = Colour -> [begun EXCEPT !.colour2 = rest[1], !.input = Tail(@)]
                 [] op \in {SetMixMix, SetMixFillOrMix} ->
                        [begun EXCEPT !.mix = rest[1], !.input = Tail(@), !.opcode = op - 5]
                 [] op = FillOrMix1 -> [begun EXCEPT !.opcode = FillOrMix, !.fom_mask = 3]
                 [] op = FillOrMix2 -> [begun EXCEPT !.opcode = FillOrMix, !.fom_mask = 5]
                 [] OTHER -> begun
    IN  [run EXCEPT !.lastopcode = run.opcode]

\* The mask is read again after eight pixels, or is the fixed one.
MaskUpdate(d) ==
    IF d.bit < 7 THEN [d EXCEPT !.bit = @ + 1]
    ELSE IF d.fom_mask # 0 THEN [d EXCEPT !.bit = 0, !.mask = d.fom_mask]
    ELSE [d EXCEPT !.bit = 0, !.mask = Head(d.input), !.input = Tail(@)]

Above(d) == IF d.prevline = NoLine THEN {} ELSE d.rows[d.prevline][d.x + 1]

Written(d, pixel) == [d EXCEPT !.rows[d.line][d.x + 1] = pixel, !.x = @ + 1, !.count = @ - 1]

Statement(d) ==
    CASE d.opcode = Fill -> Written(d, Above(d))
      [] d.opcode = Mix -> Written(d, Xor(Above(d), d.mix))
      [] d.opcode = FillOrMix ->
            LET now == MaskUpdate(d)
            IN  Written(now, IF MaskBit(now.mask, now.bit) THEN Xor(Above(d), d.mix) ELSE Above(d))
      [] d.opcode = Colour -> Written(d, d.colour2)
      [] d.opcode = Copy -> Written([d EXCEPT !.input = Tail(@)], Head(d.input))
      [] d.opcode = Bicolour ->
            IF d.bicolour THEN Written([d EXCEPT !.bicolour = FALSE], d.colour2)
            ELSE Written([d EXCEPT !.bicolour = TRUE, !.count = @ + 1], d.colour1)
      [] d.opcode = WhitePixel -> Written(d, White)
      [] d.opcode = BlackPixel -> Written(d, {})

\* REPEAT: eight pixels at a time while more than eight are left of the
\* line, then one at a time.
RECURSIVE Times(_, _)
Times(n, d) == IF n = 0 THEN d ELSE Times(n - 1, Statement(d))

RECURSIVE Eights(_)
Eights(d) == IF d.count >= 8 /\ d.x + 8 < Width THEN Eights(Times(8, d)) ELSE d

RECURSIVE OneByOne(_)
OneByOne(d) == IF d.count > 0 /\ d.x < Width THEN OneByOne(Statement(d)) ELSE d

Repeat(d) == OneByOne(Eights(d))

\* Lines are written from the last to the first.
NextLine(d) ==
    IF d.x < Width THEN d
    ELSE [d EXCEPT !.x = 0, !.height = @ - 1, !.prevline = d.line, !.line = d.height - 1]

\* A second run of Fill begins with a pixel of Mix.
InsertMix(d) ==
    IF d.opcode = Fill /\ d.insertmix
    THEN [Written(d, Xor(Above(d), d.mix)) EXCEPT !.insertmix = FALSE] ELSE d

Known == {Fill, Mix, FillOrMix, Colour, Copy, Bicolour, WhitePixel, BlackPixel}

RECURSIVE Body(_)
Body(d) ==
    IF d.count = 0 THEN d
    ELSE IF d.opcode \notin Known \/ (d.x >= Width /\ d.height <= 0)
    THEN [d EXCEPT !.ok = FALSE, !.count = 0]
    ELSE Body(Repeat(InsertMix(NextLine(d))))

Decompressed(d, input) == Body(Prepared(d, input))

-----------------------------------------------------------------------------
(* The planes of a bitmap of four bytes *)

\* The code of a stretch: so many differences, the last one so often again.
Stretch(code) ==
    LET replen == code % 16
        collen == code \div 16
        revcode == 16 * replen + collen
    IN  IF revcode \in 16..47 THEN [collen |-> 0, replen |-> revcode]
        ELSE [collen |-> collen, replen |-> replen]

Difference(x) == IF x % 2 = 1 THEN -((x \div 2) + 1) ELSE x \div 2

\* One line; in the first one values stand for themselves.
RECURSIVE PlaneLine(_, _, _, _)
PlaneLine(in, line, last, color) ==
    IF Len(line) >= Width THEN [line |-> line, in |-> in]
    ELSE LET stretch == Stretch(Head(in))
             first == last = <<>>
             Value(x, c) == IF first THEN c ELSE (last[x] + c) % 256
             colors == [i \in 1..stretch.collen |-> IF first THEN in[i + 1] ELSE Difference(in[i + 1])]
             now == IF stretch.collen = 0 THEN color ELSE colors[stretch.collen]
             all == [i \in 1..(stretch.collen + stretch.replen) |->
                        Value(Len(line) + i, IF i <= stretch.collen THEN colors[i] ELSE now)]
         IN  PlaneLine(SubSeq(in, stretch.collen + 2, Len(in)), line \o all, last, now)

RECURSIVE process_plane(_, _)
process_plane(in, lines) ==
    IF Len(lines) = Height THEN [lines |-> lines, in |-> in]
    ELSE LET done == PlaneLine(in, <<>>, IF lines = <<>> THEN <<>> ELSE Last(lines), 0)
         IN  process_plane(done.in, Append(lines, done.line))

\* The four planes, one after the other; the input must be used up.
bitmap_decompress4(input) ==
    LET plane[k \in 1..4] ==
            process_plane(IF k = 1 THEN Tail(input) ELSE plane[k - 1].in, <<>>)
    IN  IF Head(input) = 16 /\ plane[4].in = <<>>
        THEN [k \in 1..4 |-> plane[k].lines] ELSE <<>>

-----------------------------------------------------------------------------
(* The server *)

RunKinds == {"fill", "mix", "masked", "masked3", "masked5", "colour", "copy", "bicolour",
             "white", "black"}
Opcode == [fill |-> Fill, mix |-> Mix, masked |-> FillOrMix, masked3 |-> FillOrMix1,
           masked5 |-> FillOrMix2, colour |-> Colour, copy |-> Copy, bicolour |-> Bicolour,
           white |-> WhitePixel, black |-> BlackPixel]

\* A mix of {} says that the run does not set one.
Run(kind, n, mix, data) == [kind |-> kind, n |-> n, mix |-> mix, data |-> data]
PixelData(n) == {[i \in 1..n |-> IF i % 3 = 1 THEN White ELSE {}]}
MaskData(n) == [1..((n + 7) \div 8) -> {165}]
RunsOf(kind) ==
    UNION {CASE kind = "fill" -> {Run(kind, n, {}, <<>>)}
             [] kind = "mix" -> {Run(kind, n, mix, <<>>) : mix \in {{}, White}}
             [] kind = "masked" -> {Run(kind, n, mix, d) : mix \in {{}, White}, d \in MaskData(n)}
             [] kind = "colour" -> {Run(kind, n, {}, <<White>>)}
             [] kind = "bicolour" -> {Run(kind, n, {}, <<White, {}>>)}
             [] kind = "copy" -> {Run(kind, n, {}, d) : d \in PixelData(n)}
             [] kind \in {"masked3", "masked5"} -> {Run(kind, 8, {}, <<>>)}
             [] kind \in {"white", "black"} -> {Run(kind, 1, {}, <<>>)} : n \in RunLengths}

\* With a count of two bytes, which every kind can have.
Encoded(run) ==
    LET op == Opcode[run.kind] + IF run.mix = {} THEN 0 ELSE 5
        count == IF op < 9 THEN <<run.n % 256, run.n \div 256>> ELSE <<>>
    IN  <<240 + op>> \o count \o (IF run.mix = {} THEN <<>> ELSE <<run.mix>>) \o run.data

\* The pixels of a run, one after the other over the ends of the lines.
MeantLength(run) == IF run.kind = "bicolour" THEN 2 * run.n ELSE run.n
MeantPixel(run, mix, pixels, i) ==
    LET above == IF Len(pixels) < Width THEN {} ELSE pixels[Len(pixels) + 1 - Width]
        Masked(mask) == IF MaskBit(mask, (i - 1) % 8) THEN Xor(above, mix) ELSE above
    IN  CASE run.kind = "fill" -> IF i = 1 /\ lastRun = "fill" /\ Len(pixels) # Width
                                  THEN Xor(above, mix) ELSE above
          [] run.kind = "mix" -> Xor(above, mix)
          [] run.kind = "masked" -> Masked(run.data[(i - 1) \div 8 + 1])
          [] run.kind = "masked3" -> Masked(3)
          [] run.kind = "masked5" -> Masked(5)
          [] run.kind = "colour" -> run.data[1]
          [] run.kind = "copy" -> run.data[i]
          [] run.kind = "bicolour" -> run.data[2 - (i % 2)]
          [] run.kind = "white" -> White
          [] run.kind = "black" -> {}
Meant(run, mix, pixels) ==
    FoldLeft(LAMBDA done, i : Append(done, MeantPixel(run, mix, done, i)),
             pixels, [i \in 1..MeantLength(run) |-> i])

\* All codes a count can have.
CodesOf(opcode, n) ==
    LET masks == opcode \in {FillOrMix, SetMixFillOrMix}
        base == IF opcode <= Copy THEN 32 * opcode ELSE 16 * (opcode + 6)
        room == IF opcode <= Copy THEN 32 ELSE 16
    IN  {<<240 + opcode, n % 256, n \div 256>>}
        \cup (IF masks
              THEN (IF n % 8 = 0 /\ n \div 8 \in 1..(room - 1) THEN {<<base + (n \div 8)>>} ELSE {})
                   \cup (IF n <= 256 THEN {<<base, n - 1>>} ELSE {})
              ELSE (IF n < room THEN {<<base + n>>} ELSE {})
                   \cup (IF n \in room..(room + 255) THEN {<<base, n - room>>} ELSE {}))

\* Lines of one value up to a place, and of another from there on.
PlaneLines == {[x \in 1..Width |-> IF x <= cut THEN a ELSE b] :
                  a, b \in PlaneValues, cut \in {1, 4, Width - 1}}
Unsigned(d) == LET s == IF d >= 128 THEN d - 256 ELSE IF d < -128 THEN d + 256 ELSE d
               IN  IF s < 0 THEN -2 * s - 1 ELSE 2 * s

\* A difference and how often it comes.
GroupCode(d, n) ==
    IF n - 1 \in 3..15 THEN <<16 + n - 1, d>>
    ELSE IF n - 1 \in 16..47 THEN <<16, d, 16 * ((n - 1) % 16) + ((n - 1) \div 16)>>
    ELSE <<16 * n>> \o [i \in 1..n |-> d]
RECURSIVE LineCode(_)
LineCode(values) ==
    IF values = <<>> THEN <<>>
    ELSE LET n == CHOOSE k \in 1..Len(values) :
                     /\ \A i \in 1..k : values[i] = values[1]
                     /\ k = Len(values) \/ values[k + 1] # values[1]
         IN  GroupCode(values[1], n) \o LineCode(SubSeq(values, n + 1, Len(values)))
PlaneCode(lines) ==
    FlattenSeq([y \in 1..Len(lines) |->
        LineCode([x \in 1..Width |-> IF y = 1 THEN lines[1][x]
                                     ELSE Unsigned(lines[y][x] - lines[y - 1][x])])])
\* The other planes are the first one, brighter.
Plane(lines, k) ==
    [y \in 1..Len(lines) |-> [x \in 1..Width |-> (lines[y][x] + 64 * k) % 256]]

-----------------------------------------------------------------------------

RleInit ==
    /\ decoder = [x |-> Width, height |-> Height, line |-> NoLine, prevline |-> NoLine,
                  rows |-> [y \in 0..(Height - 1) |-> [x \in 1..Width |-> {}]],
                  lastopcode |-> -1, opcode |-> -1, count |-> 0, input |-> <<>>,
                  insertmix |-> FALSE, bicolour |-> FALSE, mix |-> White, mask |-> 0, bit |-> 7,
                  fom_mask |-> 0, colour1 |-> {}, colour2 |-> {}, ok |-> TRUE]
    /\ meantPixels = <<>> /\ lastRun = "none" /\ runs = 0
    /\ probe = NoProbe

DecodeRun(run) ==
    LET mix == IF run.mix = {} THEN decoder.mix ELSE run.mix
    IN  /\ runs < MaxRuns /\ runs' = runs + 1
        /\ probe = NoProbe
        /\ Len(meantPixels) + MeantLength(run) <= Width * Height
        /\ decoder' = Decompressed(decoder, Encoded(run))
        /\ meantPixels' = Meant(run, mix, meantPixels)
        /\ lastRun' = run.kind
        /\ probe' = NoProbe

ProbeCount(opcode, n) ==
    /\ runs = 0 /\ probe = NoProbe
    /\ \E code \in CodesOf(opcode, n) :
          LET form == Counted(code)
          IN  probe' = [is |-> <<form.opcode, form.count, form.used>>,
                        meant |-> <<opcode, n, Len(code)>>]
    /\ UNCHANGED <<decoder, meantPixels, lastRun, runs>>

ProbePlanes(first, second) ==
    LET lines == [y \in 1..Height |-> IF y = 1 THEN first ELSE second]
        planes == [k \in 1..4 |-> Plane(lines, k)]
    IN  /\ runs = 0 /\ probe = NoProbe
        /\ probe' = [is |-> bitmap_decompress4(<<16>> \o
                                FlattenSeq([k \in 1..4 |-> PlaneCode(planes[k])])),
                     meant |-> planes]
        /\ UNCHANGED <<decoder, meantPixels, lastRun, runs>>

RleNext ==
    \/ \E kind \in RunKinds : \E run \in RunsOf(kind) : DecodeRun(run)
    \/ \E opcode \in {Fill, Mix, FillOrMix, Colour, Copy, SetMixMix, SetMixFillOrMix, Bicolour},
          n \in ProbeCounts : ProbeCount(opcode, n)
    \/ \E first, second \in PlaneLines : ProbePlanes(first, second)

RleSpec == RleInit /\ [][RleNext]_rleVars

-----------------------------------------------------------------------------
(* Properties *)

\* Wherever runs cross the lines, whatever came before them and in whatever
\* form a count is sent, the bitmap has the pixels the server means, and each
\* run takes exactly its own bytes.
PixelsAsMeant ==
    /\ decoder.ok /\ decoder.input = <<>>
    /\ \A k \in 1..Len(meantPixels) :
          decoder.rows[Height - 1 - ((k - 1) \div Width)][((k - 1) % Width) + 1] = meantPixels[k]
    /\ probe.is = probe.meant
=============================================================================
