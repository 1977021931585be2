------------------------------ MODULE MCCutJob ------------------------------
(***************************************************************************)
(* An instance of CutJob: imports of one path, of a few lines and of a     *)
(* rectangle, and sheets whose size, artwork and cut lie on the bounds of  *)
(* what is accepted. A step is 0.1 mm, 32 units.                           *)
(***************************************************************************)
EXTENDS CutJob

Op(op, pts) == [op |-> op, pts |-> pts]
Object(shape, stroke, cut, path) ==
  [shape |-> shape, stroke |-> stroke, cut |-> cut, path |-> path]
Import(images, objects) ==
  [entry |-> "import", w |-> 1024, h |-> 512, box |-> <<0, 0, 1024, 512>>,
   images |-> images, objects |-> objects]

-----------------------------------------------------------------------------
(* Paths of up to four operators, with every kind of curve                 *)

PathOps ==
  {Op(o, <<p>>) : o \in {"m", "l"}, p \in {<<0, 0>>, <<128, 0>>, <<64, 128>>}}
    \cup {Op("h", <<>>),
          Op("c", <<<<0, 128>>, <<128, 128>>, <<128, 0>>>>),
          Op("c", <<<<-64, 0>>, <<128, 64>>, <<64, 128>>>>),
          Op("v", <<<<128, 128>>, <<128, 0>>>>),
          Op("y", <<<<0, 128>>, <<64, 128>>>>)}

(* pdfminer hands over subpaths, each with the m it begins with.           *)
Subpaths ==
  LET moves == {o \in PathOps : o.op = "m"}
  IN  {<<m>> \o rest : m \in moves, rest \in SeqOf(PathOps \ moves, 3)}

OnePath ==
  {Import(FALSE, <<Object("curve", TRUE, FALSE, path)>>) : path \in Subpaths}

-----------------------------------------------------------------------------
(* Up to four lines, some of them equal once they are rounded              *)

Line(a, b) == Object("line", TRUE, FALSE, <<Op("m", <<a>>), Op("l", <<b>>)>>)
Lines(points, n) ==
  {Import(FALSE, lines) :
     lines \in [1..n -> {Line(a, b) : a \in points, b \in points}]}

Triangle == {<<0, 0>>, <<48, 0>>, <<64, 40>>}
Fork == {<<0, 0>>, <<48, 0>>, <<64, 0>>, <<80, 112>>}

-----------------------------------------------------------------------------
(* A rectangle, with two lines, and with images beside it                  *)

Box(stroke) ==
  Object("rect", stroke, FALSE,
         <<Op("m", <<<<64, 128>>>>), Op("l", <<<<64, 0>>>>), Op("l", <<<<0, 0>>>>),
           Op("l", <<<<0, 128>>>>), Op("h", <<>>)>>)

Boxes ==
  {Import(images, <<Line(<<0, 0>>, a), Line(<<64, 128>>, b), Box(stroke)>>) :
     images \in BOOLEAN, stroke \in BOOLEAN,
     a, b \in {<<0, 0>>, <<0, 128>>, <<64, 64>>}}

-----------------------------------------------------------------------------
(* Sheets                                                                  *)

(* A point of the mark frame, on the page.                                 *)
OnPage(w, f) == <<Mark1X(w) - f[2], Mark1Y + f[1]>>

Art(w, h) ==
  LET rect(x, y) ==
        Object("rect", FALSE, FALSE, <<Op("m", <<<<x, y>>>>), Op("l", <<<<x + Mm, y + Mm>>>>)>>)
  IN  {rect(w \div 2, BandTop + 3 * Mm), rect(w \div 2, BandTop + 3 * Mm - 1),
       rect(Mark1X(w) - Pad, Mark1Y + 10 * Mm), rect(Mark1X(w) + Pad, Mark1Y + Lx(h))}

Cut(w, a, b) ==
  Object("curve", FALSE, TRUE, <<Op("m", <<OnPage(w, a)>>), Op("l", <<OnPage(w, b)>>)>>)

(* A cross, whose arms end about a millimetre inside the marks, past them  *)
(* or in the middle of the sheet.                                          *)
Crosses(w, h) ==
  {<<Cut(w, <<x0, Ly(w) \div 2>>, <<x1, Ly(w) \div 2>>),
     Cut(w, <<Lx(h) \div 2, y0>>, <<Lx(h) \div 2, y1>>)>> :
     x0 \in {Mm - 1, Mm + 16},
     x1 \in {Lx(h) - Mm - 16, Lx(h) - Mm, Lx(h) - Mm + 1, Lx(h) + Mm},
     y0 \in {Mm - 1, Mm, Ly(w) \div 2},
     y1 \in {Ly(w) \div 2 + Mm, Ly(w) - Mm, Ly(w) - Mm + 1}}

Sheets ==
  UNION {{[entry |-> "print", w |-> w, h |-> h, box |-> <<0, 0, w, h>>,
           images |-> TRUE, objects |-> <<art>> \o cross] :
             cross \in Crosses(w, h), art \in Art(w, h)} :
         w \in {MinWidth(LinkLen) - 1, MinWidth(LinkLen), MinWidth(LinkLen) + 1011},
         h \in {90 * Mm, 145 * Mm - 1, 145 * Mm, 145 * Mm + 783}}

(* Sheets with a bleed of three millimetres, with artwork on their leading *)
(* half, and turned by a quarter: laid out and cut all the same.           *)
Trimmed ==
  LET w == MinWidth(LinkLen) + 1011
      h == 145 * Mm
      boxes == {<<3 * Mm, 3 * Mm, w - 3 * Mm, h - 3 * Mm>>,
                <<0, 0, w, h \div 2>>, <<0, 0, h, w>>}
  IN  {[entry |-> "print", w |-> w, h |-> h, box |-> box, images |-> TRUE,
        objects |-> cross] : cross \in Crosses(w, h), box \in boxes}

(* One sheet, and a path of up to four operators in the middle of it.      *)
MidSheet(o) ==
  LET w == MinWidth(LinkLen) + 11
  IN  [o EXCEPT !.pts = [i \in DOMAIN @ |->
         <<@[i][1] + w \div 2, @[i][2] + Mark1Y + 30 * Mm>>]]

CutPaths ==
  {[entry |-> "print", w |-> MinWidth(LinkLen) + 11, h |-> 145 * Mm,
    box |-> <<0, 0, MinWidth(LinkLen) + 11, 145 * Mm>>, images |-> FALSE,
    objects |-> <<Object("curve", FALSE, TRUE, [k \in DOMAIN path |-> MidSheet(path[k])])>>] :
     path \in {q \in SeqOf({o \in PathOps : o.op # "y" /\ (o.op = "c" => o.pts[1][1] = 0)}, 4) :
                PointsOf(q) # {}}}

MCJobs ==
  OnePath \cup Lines(Triangle, 4) \cup Lines(Fork, 3) \cup Boxes \cup Sheets
    \cup Trimmed \cup CutPaths

=============================================================================
