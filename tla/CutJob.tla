------------------------------- MODULE CutJob -------------------------------
(***************************************************************************)
(* From a page to the GP-GL program that cuts it: the pipeline of          *)
(* prepare_print (print_prepare.py, marks.py), for sheets that carry marks *)
(* and a barcode, and that of convert_pdf_to_gpgl                          *)
(* (converters/pdf_to_gpgl.py), for PDFs that are imported as they are.    *)
(* Both round their segments to the cutter's steps, drop what is cut       *)
(* twice, and share the tour of _build_gpgl_command_from_segments.         *)
(*                                                                         *)
(* Nothing runs beside a job: a step is a stage of the pipeline, a segment *)
(* that is rounded or one iteration of the tour's loops.                   *)
(***************************************************************************)
EXTENDS PathWalk, MarkLayout, FiniteSets

CONSTANTS
    Jobs,            \* [entry, w, h, box, images, objects]: what may come in
    LinkLen,         \* the characters of a barcode (9)
    MaxPairs,        \* MAX_PAIRS_PER_D_COMMAND (50)
    MaxSegments      \* max_segments of an import (20000)

ASSUME CutJobAssumption == {LinkLen, MaxPairs, MaxSegments} \subseteq Nat \ {0}

VARIABLES
    job,         \* the job that is being made
    pc,          \* the stage it is at
    segments,    \* the segments found, then those of the mark frame
    next,        \* the segment to be rounded
    ints,        \* int_segments, deduped_segments: in steps, without copies
    unvisited,   \* the indexes of ints that are not drawn yet
    current,     \* where the tour stands
    draw,        \* draw_points, what the tour has not written yet
    commands     \* the commands written

vars == <<job, pc, segments, next, ints, unvisited, current, draw, commands>>

-----------------------------------------------------------------------------
(* Reading the page                                                        *)

IsSheet(j) == j.entry = "print"
IsPrint == IsSheet(job)

PointsOf(path) == UNION {ToSet(path[k].pts) : k \in DOMAIN path}

BoundingBox(path) ==
  LET xs == {p[1] : p \in PointsOf(path)}
      ys == {p[2] : p \in PointsOf(path)}
  IN  <<Min(xs), Min(ys), Max(xs), Max(ys)>>

(* Mutant: the side that closes a rectangle is left out.                   *)
SidesOpen(b) ==
  <<<<<<b[1], b[2]>>, <<b[3], b[2]>>>>, <<<<b[3], b[2]>>, <<b[3], b[4]>>>>,
    <<<<b[3], b[4]>>, <<b[1], b[4]>>>>>>

Sides(b) ==
  <<<<<<b[1], b[2]>>, <<b[3], b[2]>>>>, <<<<b[3], b[2]>>, <<b[3], b[4]>>>>,
    <<<<b[3], b[4]>>, <<b[1], b[4]>>>>, <<<<b[1], b[4]>>, <<b[1], b[2]>>>>>>

(* _collect_segments: a line is stroked, the others when they say so. Its  *)
(* branches for objects without a path, or lines without points, are left  *)
(* out: pdfplumber gives every curve its path and every line its points.   *)
SegmentsOf(o, height) ==
  CASE o.shape = "line" -> CurveWalk(o.path, height)
    [] o.shape = "rect" /\ o.stroke -> Sides(BoundingBox(o.path))
    [] o.shape = "curve" /\ o.stroke -> CurveWalk(o.path, height)
    [] OTHER -> <<>>

(* The paths cut_extract finds.                                            *)
CutSegmentsOf(o) == IF o.cut THEN CutWalk(o.path) ELSE <<>>

Collected(j) ==
  FlattenSeq([k \in DOMAIN j.objects |->
                IF IsSheet(j) THEN CutSegmentsOf(j.objects[k])
                              ELSE SegmentsOf(j.objects[k], j.h)])

(* A rectangle is drawn from corner to corner and closed, with or without  *)
(* a line back to the first.                                               *)
IsRectangle(path) ==
  LET p(k) == path[k].pts[1]
  IN  /\ Len(path) \in {5, 6} /\ (Len(path) = 6 => p(5) = p(1))
      /\ \A k \in DOMAIN path :
           path[k].op = IF k = 1 THEN "m" ELSE IF k = Len(path) THEN "h" ELSE "l"
      /\ \E x, y \in {1, 2} :
           /\ x # y
           /\ p(1)[x] = p(2)[x] /\ p(2)[y] = p(3)[y] /\ p(3)[x] = p(4)[x] /\ p(4)[y] = p(1)[y]

Objects ==
  [shape : {"line", "rect", "curve"}, stroke : BOOLEAN, cut : BOOLEAN, path : Seq(Operator)]

(* pdfplumber's lists of a page's objects, in the order they are read.     *)
Listed(objects) ==
  \A k, l \in DOMAIN objects :
    k < l => /\ objects[l].shape = "line" => objects[k].shape = "line"
             /\ objects[k].shape = "curve" => objects[l].shape = "curve"

(* A page has a size and a trim box, and its objects are paths and have    *)
(* boxes.                                                                  *)
ASSUME JobsAssumption ==
  \A j \in Jobs :
    /\ j.w \in Int /\ j.h \in Int
    /\ j.box \in Int \X Int \X Int \X Int
    /\ j.objects \in Seq(Objects)
    /\ IsSheet(j) \/ Listed(j.objects)
    /\ \A k \in DOMAIN j.objects :
         /\ BoundingBox(j.objects[k].path) \in Int \X Int \X Int \X Int
         /\ ~ IsSheet(j) /\ j.objects[k].shape = "rect" => IsRectangle(j.objects[k].path)

Goes(stage) == pc' = stage
Refuse == Goes("refused")

(* The page is read; an import takes no images and needs some line.        *)
Read ==
  /\ pc = "read"
  /\ \/ /\ Collected(job) = <<>> \/ (~ IsPrint /\ job.images)
        /\ Refuse /\ UNCHANGED segments
     \/ /\ Collected(job) # <<>> /\ (IsPrint \/ ~ job.images)
        /\ segments' = Collected(job)
        /\ Goes(IF IsPrint THEN "layout" ELSE "round")
  /\ UNCHANGED <<job, next, ints, unvisited, current, draw, commands>>

-----------------------------------------------------------------------------
(* prepare_print: the sheet                                                *)

(* _check_keep_clear                                                       *)
Intrudes(o) ==
  \E z \in KeepClearZones(job.w, job.h) : Overlaps(BoundingBox(o.path), z)

ClearOfMarks == \A k \in DOMAIN job.objects : ~ Intrudes(job.objects[k])

LayOut ==
  /\ pc = "layout"
  /\ IF LayoutFits(job.w, job.h, LinkLen) /\ ClearOfMarks
     THEN Goes("frame") ELSE Refuse
  /\ UNCHANGED <<job, segments, next, ints, unvisited, current, draw, commands>>

(* Mutant: the rear and far sides of the rectangle are not looked at.      *)
PastTheFirstMark(p) == p[1] >= Mm /\ p[2] >= Mm

(* At least one millimetre inside the marks.                               *)
InsideMarks(p) ==
  /\ p[1] >= Mm /\ p[2] >= Mm
  /\ p[1] <= Lx(job.h) - Mm /\ p[2] <= Ly(job.w) - Mm

Framed ==
  [k \in DOMAIN segments |->
     <<ToMarkFrame(job.w, segments[k][1]), ToMarkFrame(job.w, segments[k][2])>>]

MoveToFrame ==
  /\ pc = "frame"
  /\ IF \A k \in DOMAIN Framed :
          InsideMarks(Framed[k][1]) /\ InsideMarks(Framed[k][2])
     THEN Goes("round") ELSE Refuse
  /\ segments' = Framed
  /\ UNCHANGED <<job, next, ints, unvisited, current, draw, commands>>

-----------------------------------------------------------------------------
(* build_gpgl_job and _deduplicate_segments: to steps                      *)

Rounded(s) == <<<<Steps(s[1][1]), Steps(s[1][2])>>,
                <<Steps(s[2][1]), Steps(s[2][2])>>>>

Reversed(s) == <<s[2], s[1]>>

(* Mutant: the key of a segment keeps its direction.                       *)
SeenForward(s) == \E k \in DOMAIN ints : ints[k] = s

(* A segment has the same key in both directions.                          *)
IsSeen(s) == \E k \in DOMAIN ints : ints[k] \in {s, Reversed(s)}

RoundSegment ==
  /\ pc = "round"
  /\ next <= Len(segments)
  /\ LET s == Rounded(segments[next])
     IN  ints' = IF s[1] = s[2] \/ IsSeen(s) THEN ints ELSE Append(ints, s)
  /\ next' = next + 1
  /\ UNCHANGED <<job, pc, segments, unvisited, current, draw, commands>>

Indexes == DOMAIN ints

(* An import has a limit, a sheet has not. The sheet's program begins with *)
(* its distances between the marks.                                        *)
BeginTour ==
  /\ pc = "round"
  /\ next > Len(segments)
  /\ IF ints = <<>> \/ (~ IsPrint /\ Len(ints) > MaxSegments)
     THEN Refuse /\ UNCHANGED <<unvisited, commands>>
     ELSE /\ Goes("lift")
          /\ unvisited' = Indexes
          /\ commands' = IF IsPrint
                         THEN <<[op |-> "TB24",
                                 pts |-> <<<<Steps(Lx(job.h)), Steps(Ly(job.w))>>>>]>>
                         ELSE <<>>
  /\ UNCHANGED <<job, segments, next, ints, current, draw>>

-----------------------------------------------------------------------------
(* _build_gpgl_command_from_segments: the tour                             *)

(* Mutant: a segment is only found at its first point.                     *)
StartingAt(p) == {k \in unvisited : ints[k][1] = p}

(* point_to_indexes, as far as it is unvisited.                            *)
Candidates(p) == {k \in unvisited : p \in {ints[k][1], ints[k][2]}}

Move(p) == [op |-> "M", pts |-> <<p>>]

StartChain ==
  /\ pc = "lift"
  /\ unvisited # {}
  /\ LET k == Min(unvisited)
     IN  /\ commands' = Append(commands, Move(ints[k][1]))
         /\ draw' = <<ints[k][2]>>
         /\ current' = ints[k][2]
         /\ unvisited' = unvisited \ {k}
  /\ Goes("draw")
  /\ UNCHANGED <<job, segments, next, ints>>

(* Mutant: a segment is always drawn to its second point.                  *)
ToSecond(s, p) == s[2]

(* The end of a segment that is not p.                                     *)
OtherEnd(s, p) == IF s[1] = p THEN s[2] ELSE s[1]

Extend ==
  /\ pc = "draw"
  /\ Candidates(current) # {}
  /\ LET k == Min(Candidates(current))
         p == OtherEnd(ints[k], current)
     IN  /\ draw' = Append(draw, p)
         /\ current' = p
         /\ unvisited' = unvisited \ {k}
  /\ UNCHANGED <<job, pc, segments, next, ints, commands>>

(* flush_draw                                                              *)
Batches(points) ==
  [b \in 1..(Len(points) + MaxPairs - 1) \div MaxPairs |->
     [op |-> "D", pts |-> SubSeq(points, (b - 1) * MaxPairs + 1,
                                 IF b * MaxPairs < Len(points)
                                 THEN b * MaxPairs ELSE Len(points))]]

EndChain ==
  /\ pc = "draw"
  /\ Candidates(current) = {}
  /\ commands' = commands \o Batches(draw)
  /\ draw' = <<>>
  /\ Goes("lift")
  /\ UNCHANGED <<job, segments, next, ints, unvisited, current>>

(* The tool goes up at the origin.                                         *)
Finish ==
  /\ pc = "lift"
  /\ unvisited = {}
  /\ commands' = Append(commands, Move(<<0, 0>>))
  /\ Goes("done")
  /\ UNCHANGED <<job, segments, next, ints, unvisited, current, draw>>

-----------------------------------------------------------------------------
Init ==
  /\ job \in Jobs
  /\ pc = "read"
  /\ segments = <<>> /\ next = 1 /\ ints = <<>>
  /\ unvisited = {} /\ current = <<0, 0>> /\ draw = <<>> /\ commands = <<>>

(* A job stops nowhere else: TLC would report it as a deadlock.            *)
Returned == pc \in {"done", "refused"} /\ UNCHANGED vars

Next ==
  \/ Read \/ LayOut \/ MoveToFrame
  \/ RoundSegment \/ BeginTour
  \/ StartChain \/ Extend \/ EndChain \/ Finish
  \/ Returned

Spec == Init /\ [][Next]_vars

-----------------------------------------------------------------------------
(* Properties                                                              *)

StepPoint == Int \X Int

(* Every variable keeps its type; the job is the one that came in.         *)
TypeOK ==
  /\ pc \in {"read", "layout", "frame", "round", "lift", "draw", "done", "refused"}
  /\ segments \in Seq(Point \X Point)
  /\ next \in Nat
  /\ ints \in Seq(StepPoint \X StepPoint)
  /\ unvisited \subseteq DOMAIN ints
  /\ current \in StepPoint
  /\ draw \in Seq(StepPoint)
  /\ commands \in Seq([op : {"M", "D", "TB24"}, pts : Seq(StepPoint)])

(* The paths that are to be cut, as the page draws them.                   *)
ToBeCut ==
  [k \in DOMAIN job.objects |->
     LET o == job.objects[k]
     IN  IF (IsPrint /\ o.cut) \/ (~ IsPrint /\ (o.shape = "line" \/ o.stroke))
         THEN DrawnBy(o.path) ELSE <<>>]

Wanted == FlattenSeq(ToBeCut)

InSteps(s) ==
  IF IsPrint THEN Rounded(<<ToMarkFrame(job.w, s[1]), ToMarkFrame(job.w, s[2])>>)
             ELSE Rounded(s)

(* The cutter draws a D from where the command before it has ended.        *)
DrawnByCommand(k) ==
  IF commands[k].op = "D"
  THEN Chords(<<Last(commands[k - 1].pts)>> \o commands[k].pts)
  ELSE <<>>

Drawn == FlattenSeq([k \in DOMAIN commands |-> DrawnByCommand(k)])

(* The program cuts every line of the page once, in either direction and   *)
(* however often the page draws it, and nothing else: through the walk of  *)
(* its paths, the rounding, the tour and its batches (pdf_to_gpgl.py       *)
(* 97-343, cut_extract.py 110-154, marks.py 213-240).                      *)
CutsEachLineOnce ==
  pc = "done" =>
    LET ends(s) == {s[1], s[2]}
        lines == {ends(InSteps(s)) : s \in ToSet(Wanted)}
        wanted == {l \in lines : Cardinality(l) = 2}
    IN  /\ {ends(Drawn[k]) : k \in DOMAIN Drawn} = wanted
        /\ Len(Drawn) = Cardinality(wanted)

(* The tool is lifted where it was put down, and a contour cut in one pass *)
(* from its first line to its last, wherever every point is the end of an  *)
(* even number of lines: along closed contours, apart or crossing, in      *)
(* whatever order and direction the page draws their lines                 *)
(* (pdf_to_gpgl.py 285-338).                                               *)
PassesClose ==
  pc = "done" /\
  (\A k \in Indexes : \A p \in ToSet(ints[k]) :
     Cardinality({l \in Indexes : p \in ToSet(ints[l])}) % 2 = 0) =>
    \A down \in DOMAIN commands : \A up \in down + 1..Len(commands) :
      /\ commands[down].op = "M" /\ commands[up].op = "M"
      /\ \A k \in down + 1..up - 1 : commands[k].op = "D"
      => Last(commands[up - 1].pts) = commands[down].pts[1]

(* A command carries no more pairs than the limit, and some.               *)
CommandsShort ==
  \A k \in DOMAIN commands :
    commands[k].op = "D" => Len(commands[k].pts) \in 1..MaxPairs

(* A program for a sheet stays inside the rectangle of its own TB24, with  *)
(* both rounded (print_prepare.py 104-123, marks.py 213-237).              *)
CutsInsideTheMarks ==
  pc = "done" /\ IsPrint =>
    \A k \in DOMAIN commands : \A p \in ToSet(commands[k].pts) :
      /\ p[1] \in 0..commands[1].pts[1][1]
      /\ p[2] \in 0..commands[1].pts[1][2]

(* Where the overlay of a sheet is printed.                                *)
OnPaper(p) == PrintedAt(job.w, job.h, job.box, p)
RectOnPaper(r) == PrintedRect(job.w, job.h, job.box, r)

(* Where on the sheet the cutter goes for a point of the program: it looks *)
(* for mark 1 by the vector of ESC.d5, from the scan-start corner of the   *)
(* printed Start Mark, and reads x along the feed and y along the scan.    *)
OnSheet(p) ==
  LET from == OnPaper(<<StartMarkX1(job.w), BandTop>>)
  IN  <<from[1] - RegmarkFy(job.w) * 2 * Twentieth - p[2] * UnitsPerStep,
        from[2] + RegmarkFx * 2 * Twentieth + p[1] * UnitsPerStep>>

(* The page's trim box, as it is shown, is the media box that is laid out. *)
(* The code takes it for granted.                                          *)
BoxIsLaidOut == job.box = <<0, 0, job.w, job.h>>

(* A sheet whose trim box is its media box, and which is not turned by a   *)
(* quarter, is cut where its artwork is, to half a step: the vector from   *)
(* the printed mark, the frame and the rounding of the lines belong        *)
(* together (marks.py 118-155, print_prepare.py 125-132).                  *)
CutsWherePrinted ==
  pc = "done" /\ IsPrint /\ BoxIsLaidOut =>
    \A k \in 2..Len(commands) - 1 : \A p \in ToSet(commands[k].pts) :
      \E s \in ToSet(Wanted) : \E i \in {1, 2} :
        /\ 2 * (OnSheet(p)[1] - s[i][1]) \in -UnitsPerStep..UnitsPerStep
        /\ 2 * (OnSheet(p)[2] - s[i][2]) \in -UnitsPerStep..UnitsPerStep

(* A sheet that is not refused is laid out so that the cutter's sensor can *)
(* read it, and, printed in the box it is laid out for, none of its        *)
(* artwork lies under what is printed over it                              *)
(* (print_prepare.py 40-68, 125-132, marks.py 99-201).                     *)
MarksAreClear ==
  pc \in {"frame", "round", "lift", "draw", "done"} /\ IsPrint =>
    /\ SheetReadable(job.w, job.h, LinkLen)
    /\ BoxIsLaidOut =>
         \A k \in DOMAIN job.objects, r \in Overlay(job.w, job.h, LinkLen) :
           ~ Overlaps(BoundingBox(job.objects[k].path), RectOnPaper(r))

(* The parts of a curve that is halved d times.                            *)
Parts[d \in 0..FlattenDepth] == IF d = 0 THEN 1 ELSE 2 * Parts[d - 1]

(* The point of a curve after k of n equal parts of its parameter.         *)
OnCurve(q, k, n) ==
  LET j == n - k
      at(c) == j * j * j * q[1][c] + 3 * j * j * k * q[2][c]
                 + 3 * j * k * k * q[3][c] + k * k * k * q[4][c]
  IN  <<at(1) \div (n * n * n), at(2) \div (n * n * n)>>

(* The ways to go from 0 to n, each in one step or several.                *)
Samplings(n) ==
  {at \in UNION {[1..m -> 0..n] : m \in 2..n + 1} :
     /\ at[1] = 0 /\ at[Len(at)] = n
     /\ \A i \in 1..Len(at) - 1 : at[i] < at[i + 1]}

Finest == Parts[FlattenDepth]
FinestSamplings == Samplings(Finest)

(* A curve is cut along itself: the points of its polyline lie on it, in   *)
(* its order and from its beginning to its end, and none of its points in  *)
(* between is farther than the tolerance from the chord that skips it      *)
(* (pdf_to_gpgl.py 52-81).                                                 *)
FollowsCurve(q) ==
  LET points == FlattenCubic(q[1], q[2], q[3], q[4])
  IN  \E at \in FinestSamplings :
        /\ points = [i \in DOMAIN at |-> OnCurve(q, at[i], Finest)]
        /\ \A i \in 1..Len(at) - 1 : \A k \in at[i]..at[i + 1] :
             IsNear(OnCurve(q, k, Finest), points[i], points[i + 1])

CurvesOf(path) ==
  {Bezier(PenAt(path, k - 1), path[k]) :
     k \in {i \in DOMAIN path : IsCurve(path[i]) /\ Moved(path, i) # 0}}

(* The unit is so small that the halves of a curve, and theirs, have whole *)
(* coordinates: the code halves floating-point numbers, and rounds none.   *)
IsExact(q) ==
  \A i \in 1..4, c \in 1..2 : (q[i][c] - q[1][c]) % (Finest * Finest * Finest) = 0

ASSUME CurvesAssumption ==
  \A j \in Jobs : \A k \in DOMAIN j.objects :
    \A q \in CurvesOf(j.objects[k].path) : IsExact(q)

CurvesAreFollowed ==
  pc = "read" =>
    \A n \in DOMAIN job.objects : \A q \in CurvesOf(job.objects[n].path) :
      FollowsCurve(q)

=============================================================================
