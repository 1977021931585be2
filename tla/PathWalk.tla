------------------------------ MODULE PathWalk ------------------------------
(***************************************************************************)
(* How the two converters turn a PDF path into line segments: the walk of  *)
(* _CutDevice.paint_path in converters/cut_extract.py, which serves print  *)
(* preparation, and that of _add_path_segments_from_curve in               *)
(* converters/pdf_to_gpgl.py, which serves imported PDFs; both flatten     *)
(* Bezier curves with _flatten_cubic_bezier.                               *)
(*                                                                         *)
(* A path is a sequence of operators [op, pts]; a point is a pair of       *)
(* integers, small fractions of the page's unit, so that halving is exact. *)
(***************************************************************************)
EXTENDS Integers, Sequences, SequencesExt

CONSTANTS
    FlattenDepth,    \* bound of the recursion (10 in the code)
    Tolerance        \* the distance a flattened curve may keep, in units

Point == Int \X Int

ASSUME PathWalkAssumption == FlattenDepth \in Nat /\ Tolerance \in Nat

(* What a page's paths are made of.                                        *)
Operator ==
  [op : {"m", "l"}, pts : [1..1 -> Point]] \cup [op : {"h"}, pts : {<<>>}]
    \cup [op : {"c"}, pts : [1..3 -> Point]] \cup [op : {"v", "y"}, pts : [1..2 -> Point]]

-----------------------------------------------------------------------------
(* Flattening                                                              *)

Dot(a, b, c) == (b[1] - a[1]) * (c[1] - a[1]) + (b[2] - a[2]) * (c[2] - a[2])
Cross(a, b, c) == (b[1] - a[1]) * (c[2] - a[2]) - (b[2] - a[2]) * (c[1] - a[1])

(* _distance_point_to_segment compared with the tolerance, in squares: the *)
(* projection is clamped to the segment.                                   *)
IsNear(p, a, b) ==
  LET t   == Dot(a, b, p)
      len == Dot(a, b, b)
      sq  == Tolerance * Tolerance
  IN  CASE len = 0 \/ t <= 0 -> Dot(a, p, p) <= sq
        [] len > 0 /\ t >= len -> Dot(b, p, p) <= sq
        [] OTHER -> Cross(a, b, p) * Cross(a, b, p) <= sq * len

Middle(a, b) == <<(a[1] + b[1]) \div 2, (a[2] + b[2]) \div 2>>

(* Mutant: the halves are joined with their common point kept twice.       *)
JoinTwice(left, right) == left \o right

(* The halves share their last and first point.                            *)
Join(left, right) == Front(left) \o right

(* recurse, with the levels that are left: de Casteljau at one half.       *)
FlattenCubic(p0, p1, p2, p3) ==
  LET flat[d \in 0..FlattenDepth] ==
        [q \in Point \X Point \X Point \X Point |->
           LET q01 == Middle(q[1], q[2])
               q12 == Middle(q[2], q[3])
               q23 == Middle(q[3], q[4])
               q012 == Middle(q01, q12)
               q123 == Middle(q12, q23)
               mid == Middle(q012, q123)
           IN  IF \/ d = 0
                  \/ IsNear(q[2], q[1], q[4]) /\ IsNear(q[3], q[1], q[4])
               THEN <<q[1], q[4]>>
               ELSE Join(flat[d - 1][<<q[1], q01, q012, mid>>],
                         flat[d - 1][<<mid, q123, q23, q[4]>>])]
  IN  flat[FlattenDepth][<<p0, p1, p2, p3>>]

(* The four points of the operator's curve, from where the path stands.    *)
Bezier(from, o) ==
  CASE o.op = "c" -> <<from>> \o o.pts
    [] o.op = "v" -> <<from, from>> \o o.pts
    [] o.op = "y" -> <<from>> \o o.pts \o <<o.pts[2]>>

CurvePoints(from, o) ==
  LET q == Bezier(from, o) IN FlattenCubic(q[1], q[2], q[3], q[4])

(* The segments of a polyline.                                             *)
Chords(points) == [i \in 1..Len(points) - 1 |-> <<points[i], points[i + 1]>>]

IsCurve(o) == o.op \in {"c", "v", "y"}

-----------------------------------------------------------------------------
(* cut_extract.py: subpaths are collected first, then cut into segments    *)

(* Mutant: a closed subpath is closed but the path goes on from its end.   *)
StayAtEnd(current, start) == <<Last(current)>>

(* After an h the path goes on from the start of the subpath.              *)
AfterClose(current, start) == <<start>>

LongEnough(points) == IF Len(points) > 1 THEN <<points>> ELSE <<>>

CutStep(s, o) ==
  CASE o.op = "m" ->
         [subpaths |-> s.subpaths \o LongEnough(s.current),
          current |-> <<o.pts[1]>>, start |-> o.pts[1]]
    [] o.op = "l" /\ s.current # <<>> ->
         [s EXCEPT !.current = Append(@, o.pts[1])]
    [] IsCurve(o) /\ s.current # <<>> ->
         [s EXCEPT !.current = @ \o Tail(CurvePoints(Last(@), o))]
    [] o.op = "h" /\ s.current # <<>> ->
         [s EXCEPT !.subpaths = Append(@, Append(s.current, s.start)),
                   !.current = AfterClose(s.current, s.start)]
    [] OTHER -> s

CutWalk(path) ==
  LET walk[k \in 0..Len(path)] ==
        IF k = 0 THEN [subpaths |-> <<>>, current |-> <<>>, start |-> <<>>]
        ELSE CutStep(walk[k - 1], path[k])
      end == walk[Len(path)]
      subpaths == end.subpaths \o LongEnough(end.current)
  IN  FlattenSeq([i \in DOMAIN subpaths |-> Chords(subpaths[i])])

-----------------------------------------------------------------------------
(* pdf_to_gpgl.py: segments are made as the path is read, from points      *)
(* whose y grows downwards                                                 *)

Flip(p, height) == <<p[1], height - p[2]>>

Flipped(o, height) ==
  [o EXCEPT !.pts = [i \in DOMAIN @ |-> Flip(@[i], height)]]

(* A path as pdfplumber hands it over.                                     *)
TopBased(path, height) == [k \in DOMAIN path |-> Flipped(path[k], height)]

CurveStep(s, o) ==
  CASE o.op = "m" -> [s EXCEPT !.current = <<o.pts[1]>>, !.start = o.pts[1]]
    [] o.op = "l" /\ s.current # <<>> ->
         [s EXCEPT !.segments = Append(@, <<s.current[1], o.pts[1]>>),
                   !.current = <<o.pts[1]>>]
    [] IsCurve(o) /\ s.current # <<>> ->
         [s EXCEPT !.segments = @ \o Chords(CurvePoints(s.current[1], o)),
                   !.current = <<Last(o.pts)>>]
    [] o.op = "h" /\ s.current # <<>> ->
         [s EXCEPT !.segments = Append(@, <<s.current[1], s.start>>),
                   !.current = <<s.start>>]
    [] OTHER -> s

CurveWalk(path, height) ==
  LET page == TopBased(path, height)
      walk[k \in 0..Len(path)] ==
        IF k = 0 THEN [segments |-> <<>>, current |-> <<>>, start |-> <<>>]
        ELSE CurveStep(walk[k - 1], Flipped(page[k], height))
  IN  walk[Len(path)].segments

-----------------------------------------------------------------------------
(* What a path draws, read off its operators one by one                    *)

(* The last m up to operator k, which begins its subpath; 0 if none.       *)
Moved(path, k) ==
  LET moves == {j \in 1..k : path[j].op = "m"}
  IN  IF moves = {} THEN 0 ELSE CHOOSE j \in moves : \A i \in moves : i <= j

(* Where the path stands after operator k, once it has begun.              *)
PenAt(path, k) ==
  IF path[k].op = "h" THEN path[Moved(path, k)].pts[1] ELSE Last(path[k].pts)

Stroke(path, k) ==
  CASE path[k].op = "m" \/ Moved(path, k) = 0 -> <<>>
    [] IsCurve(path[k]) /\ Moved(path, k) # 0 ->
         Chords(CurvePoints(PenAt(path, k - 1), path[k]))
    [] OTHER -> <<<<PenAt(path, k - 1), PenAt(path, k)>>>>

DrawnBy(path) == FlattenSeq([k \in DOMAIN path |-> Stroke(path, k)])

=============================================================================
