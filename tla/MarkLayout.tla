----------------------------- MODULE MarkLayout -----------------------------
(***************************************************************************)
(* The layout of a print sheet, marks.py: the barcode band at its leading  *)
(* edge, the registration marks, the zones its artwork must keep clear     *)
(* of, and the frame of the marks, in which its cut is sent.               *)
(*                                                                         *)
(* Lengths are whole units. A twentieth of a millimetre, which all of the  *)
(* layout's constants are multiples of, is Twentieth units, and a step of  *)
(* the cutter UnitsPerStep: a page's size is any number of units.          *)
(* Rectangles are <<x0, y0, x1, y1>> in page coordinates, whose origin is  *)
(* the bottom left and whose bottom is the leading edge.                   *)
(***************************************************************************)
EXTENDS Integers, Sequences

CONSTANTS
    Twentieth,       \* units in 0.05 mm
    UnitsPerStep,    \* units in a step of the cutter
    TextLen          \* the length of the text printed beside the bars

ASSUME MarkLayoutAssumption ==
  /\ Twentieth \in Nat \ {0} /\ UnitsPerStep \in Nat \ {0}
  /\ TextLen \in Nat

Mm == 20 * Twentieth

(* Python's round: to the nearest, halves to the even neighbour.           *)
RoundDiv(v, unit) ==
  LET low == v \div unit
      rest == v % unit
  IN  IF 2 * rest < unit \/ (2 * rest = unit /\ low % 2 = 0) THEN low ELSE low + 1

Steps(v) == RoundDiv(v, UnitsPerStep)

-----------------------------------------------------------------------------
(* Constants of the layout                                                 *)

Narrow == 10 * Twentieth
Wide == 25 * Twentieth
Quiet == 7 * Mm
SideMargin == 10 * Mm
FrontMargin == 20 * Mm
BandHeight == 9 * Mm
StartMarkLen == 50 * Mm
MarkArm == 20 * Mm
MarkThick == 14 * Twentieth
MarkSideMargin == 50 * Mm
RearMargin == 50 * Mm
BarcodeMargin == 6 * Mm

(* The bars of a barcode of n characters: start, stop, position and check  *)
(* character are added, every character is six narrow and three wide       *)
(* elements, and a narrow space stands between two of them.                *)
BarsLen(n) == (n + 4) * (6 * Narrow + 3 * Wide) + (n + 3) * Narrow

-----------------------------------------------------------------------------
(* compute_layout                                                          *)

(* What the width of a page keeps for the text.                            *)
TextRoom == 25 * Mm

MinWidth(n) == SideMargin + StartMarkLen + Quiet + BarsLen(n) + Quiet + TextRoom

BandTop == FrontMargin + BandHeight
Mark1Y == BandTop + BarcodeMargin

(* The distances between the marks.                                        *)
Lx(h) == h - RearMargin - Mark1Y
Ly(w) == w - 2 * MarkSideMargin

(* Mutant: only the larger of the two distances is checked.                *)
AnyLayoutFits(w, h, n) == w >= MinWidth(n) /\ (Lx(h) >= 60 * Mm \/ Ly(w) >= 60 * Mm)

(* The two guards of compute_layout.                                       *)
LayoutFits(w, h, n) == w >= MinWidth(n) /\ Lx(h) >= 60 * Mm /\ Ly(w) >= 60 * Mm

StartMarkX1(w) == w - SideMargin
StartMarkX0(w) == StartMarkX1(w) - StartMarkLen
Mark1X(w) == w - MarkSideMargin

(* The vector of ESC.d5, in 0.1 mm: round is exact here.                   *)
RegmarkFx == RoundDiv(Mark1Y - BandTop, 2 * Twentieth)
RegmarkFy(w) == RoundDiv(StartMarkX1(w) - Mark1X(w), 2 * Twentieth)

Corners(w, h) == {Mark1X(w), Mark1X(w) - Ly(w)} \X {Mark1Y, Mark1Y + Lx(h)}

(* Mutant: zones that end where the arms do.                               *)
ArmOnly == MarkArm - Mm

(* How far a mark's zone reaches from its corner.                          *)
Pad == MarkArm + 6 * Mm

(* keep_clear_zones                                                        *)
KeepClearZones(w, h) ==
  {<<0, 0, w, BandTop + 3 * Mm>>} \cup
  {<<c[1] - Pad, c[2] - Pad, c[1] + Pad, c[2] + Pad>> : c \in Corners(w, h)}

(* Mutant: y is measured from the other mark.                              *)
FromMark2(w, p) == <<p[2] - Mark1Y, p[1] - (Mark1X(w) - Ly(w))>>

(* page_to_mark_frame                                                      *)
ToMarkFrame(w, p) == <<p[2] - Mark1Y, Mark1X(w) - p[1]>>

-----------------------------------------------------------------------------
(* build_overlay_pdf: what is printed over the artwork                     *)

StartMark(w) == <<StartMarkX0(w), FrontMargin, StartMarkX1(w), BandTop>>

(* The bars, from the first to the last.                                   *)
Bars(w, n) ==
  LET right == StartMarkX0(w) - Quiet
  IN  <<right - BarsLen(n), FrontMargin, right, BandTop>>

(* The code in letters, beyond the far quiet zone; it ends there, is less  *)
(* high than the band, and what does not fit on the page is not printed.   *)
Text(w, n) ==
  LET right == Bars(w, n)[1] - Quiet
  IN  <<IF TextLen < right THEN right - TextLen ELSE 0, FrontMargin, right, BandTop>>

(* The two arms of the mark at corner c, inward; a line is as wide to      *)
(* either side.                                                            *)
Arms(w, h, c) ==
  LET half == MarkThick \div 2
      sx == IF c[1] = Mark1X(w) THEN -1 ELSE 1
      sy == IF c[2] = Mark1Y THEN 1 ELSE -1
      tx == c[1] + sx * MarkArm
      ty == c[2] + sy * MarkArm
  IN  {<<IF sx = 1 THEN c[1] ELSE tx, c[2] - half,
         IF sx = 1 THEN tx ELSE c[1], c[2] + half>>,
       <<c[1] - half, IF sy = 1 THEN c[2] ELSE ty,
         c[1] + half, IF sy = 1 THEN ty ELSE c[2]>>}

Marks(w, h) == UNION {Arms(w, h, c) : c \in Corners(w, h)}

Band(w, n) == {StartMark(w), Bars(w, n), Text(w, n)}

Overlay(w, h, n) == Band(w, n) \cup Marks(w, h)

(* pikepdf's add_overlay, without a rectangle: the overlay is scaled until *)
(* it fits the page's trim box, which is its crop box or its media box     *)
(* when it has none, and centred in it. The scale, less one, is a fraction *)
(* of whole numbers. The box is that of the page as it is shown: of a page *)
(* turned by a quarter, with its width and height exchanged.               *)
Stretch(w, h, box) ==
  LET dw == box[3] - box[1] - w
      dh == box[4] - box[2] - h
  IN  IF dw * h <= dh * w THEN <<dw, w>> ELSE <<dh, h>>

(* Where a point of the overlay is printed.                                *)
PrintedAt(w, h, box, p) ==
  LET s == Stretch(w, h, box)
      at(c, size) ==
        p[c] + (box[c] + box[c + 2] - size + ((2 * p[c] - size) * s[1]) \div s[2]) \div 2
  IN  <<at(1, w), at(2, h)>>

PrintedRect(w, h, box, r) ==
  PrintedAt(w, h, box, <<r[1], r[2]>>) \o PrintedAt(w, h, box, <<r[3], r[4]>>)

-----------------------------------------------------------------------------
Overlaps(r, s) == r[1] < s[3] /\ r[3] > s[1] /\ r[2] < s[4] /\ r[4] > s[2]

Within(r, s) == s[1] <= r[1] /\ r[3] <= s[3] /\ s[2] <= r[2] /\ r[4] <= s[4]

(* The sensor reads what it should on every sheet that is laid out: all    *)
(* that is printed is on the sheet and inside a zone that is kept clear,   *)
(* the code keeps its quiet zones from the Start Mark and from the text,   *)
(* no mark touches the band, and the text is whole on a sheet that is      *)
(* wider than the least by what the text is longer than its room           *)
(* (marks.py 99-201).                                                      *)
SheetReadable(w, h, n) ==
  /\ \A r \in Overlay(w, h, n) :
       /\ Within(r, <<0, 0, w, h>>)
       /\ \E z \in KeepClearZones(w, h) : Within(r, z)
  /\ Bars(w, n)[3] + Quiet <= StartMark(w)[1] /\ Text(w, n)[3] + Quiet <= Bars(w, n)[1]
  /\ \A m \in Marks(w, h), r \in Band(w, n) : ~ Overlaps(m, r)
  /\ \A m \in Marks(w, h) : m[2] - BandTop >= 3 * Mm
  /\ w - MinWidth(n) >= TextLen - TextRoom =>
       Text(w, n)[3] - Text(w, n)[1] = TextLen

=============================================================================
