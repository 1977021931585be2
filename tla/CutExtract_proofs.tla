------------------------- MODULE CutExtract_proofs -------------------------
(***************************************************************************)
(* What holds of CutExtract for all resources, colorants, nestings and     *)
(* operator sequences: its types, and that the counter the interpreters    *)
(* share counts the cutting sections on their stacks.                      *)
(***************************************************************************)
EXTENDS CutExtract, Induction, FiniteSetTheorems, SequenceTheorems

Ops == {"q", "Q", "BDC", "EMC", "CS", "cs", "G", "g"}
Entry == [op : Ops, cut : BOOLEAN]

-----------------------------------------------------------------------------
(* Frames and their stacks                                                 *)

LEMMA FrontFacts ==
  ASSUME NEW S, NEW s \in Seq(S), s # <<>>
  PROVE  /\ Front(s) \in Seq(S)
         /\ Len(Front(s)) = Len(s) - 1
         /\ DOMAIN Front(s) = 1..Len(s) - 1
         /\ \A i \in 1..Len(s) - 1 : Front(s)[i] = s[i]
         /\ Len(s) \in Nat \ {0}
         /\ Last(s) \in S
<1>1. Len(s) \in Nat \ {0} /\ DOMAIN s = 1..Len(s)
  BY EmptySeq
<1>2. Front(s) = [i \in 1..Len(s) - 1 |-> s[i]]
  BY <1>1 DEF Front
<1>3. Len(s) - 1 \in Nat /\ \A i \in 1..Len(s) : s[i] \in S
  BY <1>1
<1>4. Front(s) \in Seq(S) /\ Len(Front(s)) = Len(s) - 1
  BY <1>2, <1>3
<1>5. Last(s) \in S
  BY <1>1 DEF Last
<1> QED BY <1>1, <1>2, <1>4, <1>5

LEMMA ColorantsTyped ==
  ASSUME NEW r \in ResourceDicts, NEW k \in Keys
  PROVE  ColorantsFor(r, k) \in Colorants
BY CutExtractAssumption DEF ColorantsFor, Colorants

LEMMA InterpreterTyped ==
  ASSUME NEW r \in ResourceDicts
  PROVE  /\ Interpreter(r) \in Frame
         /\ Interpreter(r).bdc = <<>>
<1>1. {} \in Colorants
  BY DEF Colorants
<1> QED BY <1>1 DEF Interpreter, Frame

(* A frame whose fields keep their types, and its log with one more entry. *)
LEMMA FrameFields ==
  ASSUME NEW f \in Frame
  PROVE  /\ f.resources \in ResourceDicts
         /\ f.stroke \in Colorants /\ f.fill \in Colorants
         /\ f.saved \in Seq(Colorants \X Colorants)
         /\ f.bdc \in Seq(BOOLEAN)
         /\ f.log \in Seq(Entry)
BY DEF Frame, Entry, Ops

LEMMA TopTyped ==
  ASSUME TypeOK PROVE Top \in Frame /\ Len(frames) \in DOMAIN frames
BY DEF TypeOK, Top

(* What an operator does to the sequence of frames.                        *)
LEMMA SaysTyped ==
  ASSUME TypeOK, NEW f \in Frame, NEW op \in Ops, NEW cut \in BOOLEAN,
         Says(op, cut, f)
  PROVE  /\ frames' \in Seq(Frame)
         /\ Len(frames') = Len(frames)
         /\ frames'[Len(frames)].bdc = f.bdc
         /\ \A n \in DOMAIN frames \ {Len(frames)} : frames'[n] = frames[n]
         /\ said' \in 0..MaxOps
         /\ UNCHANGED <<found, outcome, leaked, truth, strayed>>
<1> DEFINE g == [f EXCEPT !.log = Append(@, [op |-> op, cut |-> cut])]
<1>1. [op |-> op, cut |-> cut] \in Entry
  BY DEF Entry
<1>2. Append(f.log, [op |-> op, cut |-> cut]) \in Seq(Entry)
  BY <1>1, FrameFields
<1>3. g \in Frame /\ g.bdc = f.bdc
  BY <1>2 DEF Frame, Entry, Ops
<1>4. frames' = [frames EXCEPT ![Len(frames)] = g]
  BY DEF Says
<1>5. frames \in Seq(Frame) /\ Len(frames) \in DOMAIN frames
  BY TopTyped DEF TypeOK
<1> HIDE DEF g
<1>6. frames' \in Seq(Frame) /\ Len(frames') = Len(frames)
  BY <1>3, <1>4, <1>5
<1>7. /\ frames'[Len(frames)] = g
      /\ \A n \in DOMAIN frames \ {Len(frames)} : frames'[n] = frames[n]
  BY <1>4, <1>5
<1>8. said' \in 0..MaxOps /\ UNCHANGED <<found, outcome, leaked, truth, strayed>>
  BY CutExtractAssumption DEF Says, TypeOK
<1> QED BY <1>3, <1>6, <1>7, <1>8

-----------------------------------------------------------------------------
(* Levels                                                                  *)

(* What entry e makes of level v.                                          *)
LevelAfter(v, e, open, close) ==
  IF e.op = open THEN v + 1 ELSE IF e.op = close /\ v > 0 THEN v - 1 ELSE v

(* The recursion of Level defines a function, and this one.                *)
LEMMA LevelFacts ==
  ASSUME NEW log \in Seq(Entry), NEW open, NEW close, open # close
  PROVE  /\ Level(log, open, close) \in [0..Len(log) -> Nat]
         /\ Level(log, open, close)[0] = 0
         /\ \A k \in 1..Len(log) :
              Level(log, open, close)[k] =
                LevelAfter(Level(log, open, close)[k - 1], log[k], open, close)
<1> DEFINE n == Len(log)
           step == [k \in 1..n |-> [v \in Nat |-> LevelAfter(v, log[k], open, close)]]
           Body(f, k) ==
             CASE k = 0               -> 0
               [] k > 0 /\ log[k].op = open  -> f[k - 1] + 1
               [] k > 0 /\ log[k].op = close /\ f[k - 1] > 0 -> f[k - 1] - 1
               [] OTHER               -> f[k - 1]
           level == CHOOSE f : f = [k \in 0..n |-> Body(f, k)]
<1>1. n \in Nat /\ step \in [1..n -> [Nat -> Nat]]
  BY DEF LevelAfter
<1>2. PICK f \in [0..n -> Nat] : Recurs(f, 0, step, n)
  <2> HIDE DEF step, n
  <2>1. 0 \in Nat
    OBVIOUS
  <2> QED BY <1>1, <2>1, RecursionExists
<1>3. ASSUME NEW k \in 1..n
      PROVE  f[k - 1] \in Nat /\ f[k] = LevelAfter(f[k - 1], log[k], open, close)
  <2> HIDE DEF n
  <2>1. k - 1 \in 0..n
    BY <1>1, <1>3
  <2>2. f[k - 1] \in Nat
    BY <2>1
  <2>3. f[k] = step[k][f[k - 1]]
    BY <1>2, <1>3 DEF Recurs
  <2> QED BY <2>2, <2>3
<1>4. ASSUME NEW k \in 0..n PROVE f[k] = Body(f, k)
  <2>1. CASE k = 0
    BY <1>2, <2>1 DEF Recurs
  <2>2. CASE k # 0
    <3>1. k \in 1..n /\ k > 0
      BY <2>2
    <3> HIDE DEF n
    <3> QED BY <1>3, <3>1 DEF LevelAfter
  <2> QED BY <2>1, <2>2
<1>5. f = [k \in 0..n |-> Body(f, k)]
  <2> HIDE DEF Body, n
  <2> QED BY <1>2, <1>4
<1>6. level = [k \in 0..n |-> Body(level, k)]
  <2> HIDE DEF Body, n
  <2> QED BY <1>5
<1>7. Level(log, open, close) = level
  BY DEF Level
<1>8. ASSUME NEW k \in 0..n PROVE level[k] = Body(level, k)
  <2> HIDE DEF Body, n, level
  <2> QED BY <1>6
<1>9. level[0] = f[0]
  <2>1. 0 \in 0..n /\ f[0] = 0
    BY <1>1, <1>2 DEF Recurs
  <2>2. level[0] = Body(level, 0)
    <3> HIDE DEF n, level, Body
    <3> QED BY <1>8, <2>1
  <2> HIDE DEF n, level
  <2> QED BY <2>1, <2>2
<1>10. ASSUME NEW k \in 1..n, level[k - 1] = f[k - 1] PROVE level[k] = f[k]
  <2>1. k \in 0..n
    BY <1>10
  <2>2. f[k] = Body(f, k) /\ level[k] = Body(level, k)
    <3> HIDE DEF n, level, Body
    <3> QED BY <1>4, <1>8, <2>1
  <2>3. Body(f, k) = Body(level, k)
    <3> HIDE DEF n, level
    <3> QED BY <1>10
  <2> QED BY <2>2, <2>3
<1>11. \A k \in 0..n : level[k] = f[k]
  <2> HIDE DEF level, n
  <2>1. n \in Nat
    BY <1>1
  <2>2. Alike(level, f, n)
    BY <1>9, <1>10 DEF Alike
  <2> QED BY <1>9, <2>1, <2>2, RecursionUnique
<1>12. level = f
  <2> HIDE DEF Body, n, level
  <2> QED BY <1>2, <1>6, <1>11
<1> QED BY <1>2, <1>3, <1>7, <1>12 DEF Recurs

(* One more entry leaves the levels before it alone, and is as high as it  *)
(* makes the last of them.                                                 *)
LEMMA LevelAppend ==
  ASSUME NEW log \in Seq(Entry), NEW e \in Entry, NEW open, NEW close, open # close
  PROVE  LET more == Append(log, e)
             n == Len(log)
         IN  /\ Level(more, open, close) \in [0..n + 1 -> Nat]
             /\ Level(log, open, close) \in [0..n -> Nat]
             /\ \A k \in 0..n : Level(more, open, close)[k] = Level(log, open, close)[k]
             /\ Level(more, open, close)[n + 1] =
                  LevelAfter(Level(log, open, close)[n], e, open, close)
<1> DEFINE more == Append(log, e)
           n == Len(log)
           old == Level(log, open, close)
           new == Level(more, open, close)
<1>1. /\ more \in Seq(Entry) /\ n \in Nat /\ Len(more) = n + 1
      /\ \A k \in 1..n : more[k] = log[k]
      /\ more[n + 1] = e
  OBVIOUS
<1>2. /\ old \in [0..n -> Nat] /\ old[0] = 0
      /\ \A k \in 1..n : old[k] = LevelAfter(old[k - 1], log[k], open, close)
  BY LevelFacts
<1>3. /\ new \in [0..Len(more) -> Nat] /\ new[0] = 0
      /\ \A k \in 1..Len(more) : new[k] = LevelAfter(new[k - 1], more[k], open, close)
  <2> HIDE DEF more
  <2> QED BY <1>1, LevelFacts
<1> HIDE DEF more, n, old, new
<1>4. ASSUME NEW k \in 1..n, old[k - 1] = new[k - 1] PROVE old[k] = new[k]
  <2>1. k \in 1..Len(more) /\ more[k] = log[k]
    BY <1>1
  <2> QED BY <1>2, <1>3, <1>4, <2>1
<1>5. \A k \in 0..n : old[k] = new[k]
  <2>1. n \in Nat /\ old[0] = new[0]
    BY <1>1, <1>2, <1>3
  <2>2. Alike(old, new, n)
    BY <1>4, <2>1 DEF Alike
  <2> QED BY <2>1, <2>2, RecursionUnique
<1>6. new[n + 1] = LevelAfter(old[n], e, open, close)
  <2>1. n + 1 \in 1..Len(more) /\ (n + 1) - 1 = n /\ n \in 0..n
    BY <1>1
  <2> QED BY <1>1, <1>3, <1>5, <2>1
<1> QED BY <1>1, <1>2, <1>3, <1>5, <1>6 DEF more, n, old, new

(* The operators of a stream that nothing has closed since.                *)
Lasting(f, op, open, close) ==
  {i \in DOMAIN f.log : f.log[i].op = op /\ Lasts(Level(f.log, open, close), f.log, i)}

(* One more operator, and what still lasts after it: what does not lie     *)
(* above the new level.                                                    *)
Grows(f, g, e) ==
  f \in Frame /\ g \in Frame /\ e \in Entry /\ g.log = Append(f.log, e)

LastingGrows(f, g, e, op, open, close) ==
  LET n == Len(f.log)
      old == Level(f.log, open, close)
      new == Level(g.log, open, close)
  IN  /\ Lasting(f, op, open, close) \subseteq 1..n
      /\ \A i \in Lasting(f, op, open, close) : old[i] <= old[n]
      /\ \A i \in 1..n : i \in Lasting(g, op, open, close) <=>
           i \in Lasting(f, op, open, close) /\ old[i] <= new[n + 1]
      /\ \A i \in Lasting(g, op, open, close) : i \in 1..n \/ i = n + 1
      /\ n + 1 \in Lasting(g, op, open, close) <=> e.op = op

(* An entry lasts on while the level does not fall below its own.          *)
LEMMA LastingAppend ==
  ASSUME NEW f, NEW g, NEW e, Grows(f, g, e),
         NEW op, NEW open, NEW close, open # close
  PROVE  LastingGrows(f, g, e, op, open, close)
<1> DEFINE n == Len(f.log)
           old == Level(f.log, open, close)
           new == Level(g.log, open, close)
<1>0. f \in Frame /\ g \in Frame /\ e \in Entry /\ g.log = Append(f.log, e)
  BY DEF Grows
<1>1. f.log \in Seq(Entry) /\ g.log \in Seq(Entry)
  BY <1>0, FrameFields
<1>2. /\ n \in Nat /\ DOMAIN f.log = 1..n /\ DOMAIN g.log = 1..n + 1 /\ Len(g.log) = n + 1
      /\ \A k \in 1..n : g.log[k] = f.log[k]
      /\ g.log[n + 1] = e
  BY <1>0, <1>1
<1>3. /\ new \in [0..n + 1 -> Nat] /\ old \in [0..n -> Nat]
      /\ \A k \in 0..n : new[k] = old[k]
  BY <1>0, <1>1, LevelAppend
<1> HIDE DEF n, old, new
<1>4. ASSUME NEW i \in 1..n
      PROVE  Lasts(new, g.log, i) <=> Lasts(old, f.log, i) /\ old[i] <= new[n + 1]
  <2>1. \A k \in i..n + 1 : k \in i..n \/ k = n + 1
    BY <1>2
  <2>2. \A k \in i..n : k \in 0..n /\ k \in i..n + 1
    BY <1>2
  <2>3. i \in 0..n /\ n + 1 \in i..n + 1
    BY <1>2
  <2>4. old[i] \in Nat /\ new[n + 1] \in Nat /\ new[i] = old[i]
    BY <1>2, <1>3, <2>3
  <2> QED BY <1>2, <1>3, <2>1, <2>2, <2>3, <2>4 DEF Lasts, n
<1>5. Lasts(new, g.log, n + 1)
  <2>1. \A k \in n + 1..n + 1 : k = n + 1
    BY <1>2
  <2>2. new[n + 1] \in Nat
    BY <1>2, <1>3
  <2> QED BY <1>2, <2>1, <2>2 DEF Lasts
<1>6. Lasting(f, op, open, close) = {i \in 1..n : f.log[i].op = op /\ Lasts(old, f.log, i)}
  BY <1>2 DEF Lasting, old
<1>7. Lasting(g, op, open, close) = {i \in 1..n + 1 : g.log[i].op = op /\ Lasts(new, g.log, i)}
  BY <1>2 DEF Lasting, new
<1>8. \A i \in Lasting(f, op, open, close) : old[i] <= old[n]
  <2>1. \A i \in 1..n : n \in i..Len(f.log)
    BY <1>2 DEF n
  <2> QED BY <1>2, <1>3, <1>6, <2>1 DEF Lasts
<1>9. \A i \in 1..n : i \in 1..n + 1
  BY <1>2
<1>10. \A i \in 1..n + 1 : i \in 1..n \/ i = n + 1
  BY <1>2
<1>11. n + 1 \in 1..n + 1
  BY <1>2
<1> QED BY <1>2, <1>4, <1>5, <1>6, <1>7, <1>8, <1>9, <1>10, <1>11 DEF LastingGrows, n, old, new

-----------------------------------------------------------------------------
(* What a stream has in force and what its interpreter has on its stacks   *)

OpenSections(f) == Lasting(f, "BDC", "BDC", "EMC")

(* The stack of sections has an entry for every BDC that is open, at its   *)
(* level, and no other.                                                    *)
SectionsFit(f) ==
  LET level == Level(f.log, "BDC", "EMC")
  IN  /\ level[Len(f.log)] = Len(f.bdc)
      /\ \A i \in OpenSections(f) :
           level[i] \in DOMAIN f.bdc /\ f.log[i].cut = f.bdc[level[i]]
      /\ \A d \in DOMAIN f.bdc : \E i \in OpenSections(f) : level[i] = d

LEMMA SectionsInForceFit ==
  ASSUME NEW f \in Frame, SectionsFit(f)
  PROVE  SectionsInForce(f) # {} <=> OpenCutSections(f) # {}
<1>1. SectionsInForce(f) = {i \in OpenSections(f) : f.log[i].cut}
  BY DEF SectionsInForce, OpenSections, Lasting
<1> QED BY <1>1 DEF SectionsFit, OpenCutSections

(* The four things an operator may do to the sections.                     *)
LEMMA SectionStays ==
  ASSUME NEW f \in Frame, SectionsFit(f), NEW g \in Frame, NEW e \in Entry,
         g.log = Append(f.log, e), g.bdc = f.bdc, e.op # "BDC",
         e.op = "EMC" => f.bdc = <<>>
  PROVE  SectionsFit(g)
<1> DEFINE n == Len(f.log)
           old == Level(f.log, "BDC", "EMC")
           new == Level(g.log, "BDC", "EMC")
<1>1. f.log \in Seq(Entry) /\ f.bdc \in Seq(BOOLEAN)
  BY DEF Frame, Entry, Ops
<1>2. /\ n \in Nat /\ Len(g.log) = n + 1 /\ \A k \in 1..n : g.log[k] = f.log[k]
      /\ Len(f.bdc) \in Nat
  BY <1>1
<1>3. /\ old \in [0..n -> Nat] /\ \A k \in 0..n : new[k] = old[k]
      /\ new[n + 1] = LevelAfter(old[n], e, "BDC", "EMC")
  BY <1>1, LevelAppend
<1>4. /\ OpenSections(f) \subseteq 1..n /\ \A i \in OpenSections(f) : old[i] <= old[n]
      /\ \A i \in 1..n : i \in OpenSections(g) <=> i \in OpenSections(f) /\ old[i] <= new[n + 1]
      /\ \A i \in OpenSections(g) : i \in 1..n \/ i = n + 1
      /\ n + 1 \in OpenSections(g) <=> e.op = "BDC"
  <2>1. Grows(f, g, e)
    BY DEF Grows
  <2>2. LastingGrows(f, g, e, "BDC", "BDC", "EMC")
    BY <2>1, LastingAppend
  <2> QED BY <2>2 DEF LastingGrows, OpenSections
<1> HIDE DEF n, old, new
<1>5. old[n] = Len(f.bdc) /\ new[n + 1] = Len(f.bdc)
  <2>1. old[n] = Len(f.bdc)
    BY DEF SectionsFit, n, old
  <2>2. e.op = "EMC" => Len(f.bdc) = 0
    BY <1>1
  <2> QED BY <1>2, <1>3, <2>1, <2>2 DEF LevelAfter
<1>6. OpenSections(g) = OpenSections(f)
  BY <1>4, <1>5
<1>7. \A i \in OpenSections(f) : new[i] = old[i] /\ g.log[i] = f.log[i]
  BY <1>2, <1>3, <1>4
<1>8. /\ \A i \in OpenSections(f) :
           old[i] \in DOMAIN f.bdc /\ f.log[i].cut = f.bdc[old[i]]
      /\ \A d \in DOMAIN f.bdc : \E i \in OpenSections(f) : old[i] = d
  BY DEF SectionsFit, old
<1>9. new[Len(g.log)] = Len(g.bdc)
  BY <1>2, <1>5
<1>10. \A i \in OpenSections(g) : new[i] \in DOMAIN g.bdc /\ g.log[i].cut = g.bdc[new[i]]
  BY <1>6, <1>7, <1>8
<1>11. \A d \in DOMAIN g.bdc : \E i \in OpenSections(g) : new[i] = d
  BY <1>6, <1>7, <1>8
<1> QED BY <1>9, <1>10, <1>11 DEF SectionsFit, new

LEMMA SectionBegins ==
  ASSUME NEW f \in Frame, SectionsFit(f), NEW g \in Frame, NEW e \in Entry,
         g.log = Append(f.log, e), g.bdc = Append(f.bdc, e.cut), e.op = "BDC"
  PROVE  SectionsFit(g)
<1> DEFINE n == Len(f.log)
           m == Len(f.bdc)
           old == Level(f.log, "BDC", "EMC")
           new == Level(g.log, "BDC", "EMC")
<1>1. f.log \in Seq(Entry) /\ f.bdc \in Seq(BOOLEAN) /\ e.cut \in BOOLEAN
  BY DEF Frame, Entry, Ops
<1>2. /\ n \in Nat /\ Len(g.log) = n + 1 /\ \A k \in 1..n : g.log[k] = f.log[k]
      /\ g.log[n + 1] = e
  BY <1>1
<1>3. /\ m \in Nat /\ DOMAIN f.bdc = 1..m /\ DOMAIN g.bdc = 1..m + 1 /\ Len(g.bdc) = m + 1
      /\ \A d \in 1..m : g.bdc[d] = f.bdc[d]
      /\ g.bdc[m + 1] = e.cut
  BY <1>1
<1>4. /\ old \in [0..n -> Nat] /\ \A k \in 0..n : new[k] = old[k]
      /\ new[n + 1] = LevelAfter(old[n], e, "BDC", "EMC")
  BY <1>1, LevelAppend
<1>5. /\ OpenSections(f) \subseteq 1..n /\ \A i \in OpenSections(f) : old[i] <= old[n]
      /\ \A i \in 1..n : i \in OpenSections(g) <=> i \in OpenSections(f) /\ old[i] <= new[n + 1]
      /\ \A i \in OpenSections(g) : i \in 1..n \/ i = n + 1
      /\ n + 1 \in OpenSections(g) <=> e.op = "BDC"
  <2>1. Grows(f, g, e)
    BY DEF Grows
  <2>2. LastingGrows(f, g, e, "BDC", "BDC", "EMC")
    BY <2>1, LastingAppend
  <2> QED BY <2>2 DEF LastingGrows, OpenSections
<1>6. /\ old[n] = m
      /\ \A i \in OpenSections(f) : old[i] \in DOMAIN f.bdc /\ f.log[i].cut = f.bdc[old[i]]
      /\ \A d \in DOMAIN f.bdc : \E i \in OpenSections(f) : old[i] = d
  BY DEF SectionsFit, n, old, m
<1> HIDE DEF n, m, old, new
<1>7. new[n + 1] = m + 1
  BY <1>3, <1>4, <1>6 DEF LevelAfter
<1>8. \A i : i \in OpenSections(g) <=> i \in OpenSections(f) \/ i = n + 1
  <2>1. \A i \in OpenSections(f) : i \in 1..n /\ old[i] <= new[n + 1]
    BY <1>3, <1>5, <1>6, <1>7
  <2> QED BY <1>5, <2>1
<1>9. \A i \in OpenSections(f) : new[i] = old[i] /\ g.log[i] = f.log[i]
  BY <1>2, <1>4, <1>5
<1>10. ASSUME NEW i \in OpenSections(g)
       PROVE  new[i] \in DOMAIN g.bdc /\ g.log[i].cut = g.bdc[new[i]]
  <2>1. CASE i = n + 1
    <3>1. new[i] = m + 1 /\ m + 1 \in DOMAIN g.bdc
      BY <1>3, <1>7, <2>1
    <3> QED BY <1>2, <1>3, <2>1, <3>1
  <2>2. CASE i \in OpenSections(f)
    <3>1. new[i] = old[i] /\ old[i] \in 1..m /\ g.log[i].cut = f.bdc[old[i]]
      BY <1>3, <1>6, <1>9, <2>2
    <3>2. old[i] \in DOMAIN g.bdc
      BY <1>3, <3>1
    <3> QED BY <1>3, <3>1, <3>2
  <2> QED BY <1>8, <2>1, <2>2
<1>11. \A d \in DOMAIN g.bdc : \E i \in OpenSections(g) : new[i] = d
  <2> SUFFICES ASSUME NEW d \in DOMAIN g.bdc PROVE \E i \in OpenSections(g) : new[i] = d
    OBVIOUS
  <2>1. CASE d = m + 1
    BY <1>7, <1>8, <2>1
  <2>2. CASE d \in DOMAIN f.bdc
    BY <1>6, <1>8, <1>9, <2>2
  <2> QED BY <1>3, <2>1, <2>2
<1>12. new[Len(g.log)] = Len(g.bdc)
  BY <1>2, <1>3, <1>7
<1> QED BY <1>10, <1>11, <1>12 DEF SectionsFit, new

LEMMA SectionEnds ==
  ASSUME NEW f \in Frame, SectionsFit(f), NEW g \in Frame, NEW e \in Entry,
         g.log = Append(f.log, e), f.bdc # <<>>, g.bdc = Front(f.bdc), e.op = "EMC"
  PROVE  SectionsFit(g)
<1> DEFINE n == Len(f.log)
           m == Len(f.bdc)
           old == Level(f.log, "BDC", "EMC")
           new == Level(g.log, "BDC", "EMC")
<1>1. f.log \in Seq(Entry) /\ f.bdc \in Seq(BOOLEAN)
  BY DEF Frame, Entry, Ops
<1>2. /\ n \in Nat /\ Len(g.log) = n + 1 /\ \A k \in 1..n : g.log[k] = f.log[k]
  BY <1>1
<1>3. /\ m \in Nat \ {0} /\ DOMAIN f.bdc = 1..m /\ DOMAIN g.bdc = 1..m - 1
      /\ Len(g.bdc) = m - 1
      /\ \A d \in 1..m - 1 : g.bdc[d] = f.bdc[d]
  <2>1. /\ g.bdc \in Seq(BOOLEAN) /\ Len(g.bdc) = m - 1 /\ DOMAIN g.bdc = 1..m - 1
        /\ \A d \in 1..m - 1 : g.bdc[d] = f.bdc[d]
        /\ m \in Nat \ {0}
    BY <1>1, FrontFacts, Zenon
  <2> QED BY <1>1, <2>1
<1>4. /\ old \in [0..n -> Nat] /\ \A k \in 0..n : new[k] = old[k]
      /\ new[n + 1] = LevelAfter(old[n], e, "BDC", "EMC")
  BY <1>1, LevelAppend
<1>5. /\ OpenSections(f) \subseteq 1..n
      /\ \A i \in 1..n : i \in OpenSections(g) <=> i \in OpenSections(f) /\ old[i] <= new[n + 1]
      /\ \A i \in OpenSections(g) : i \in 1..n \/ i = n + 1
      /\ n + 1 \in OpenSections(g) <=> e.op = "BDC"
  <2>1. Grows(f, g, e)
    BY DEF Grows
  <2>2. LastingGrows(f, g, e, "BDC", "BDC", "EMC")
    BY <2>1, LastingAppend
  <2> QED BY <2>2 DEF LastingGrows, OpenSections
<1>6. /\ old[n] = m
      /\ \A i \in OpenSections(f) : old[i] \in DOMAIN f.bdc /\ f.log[i].cut = f.bdc[old[i]]
      /\ \A d \in DOMAIN f.bdc : \E i \in OpenSections(f) : old[i] = d
  BY DEF SectionsFit, n, old, m
<1> HIDE DEF n, m, old, new
<1>7. new[n + 1] = m - 1
  BY <1>3, <1>4, <1>6 DEF LevelAfter
<1>8. \A i : i \in OpenSections(g) <=> i \in OpenSections(f) /\ old[i] \in 1..m - 1
  <2>1. \A i \in OpenSections(f) : old[i] <= m - 1 <=> old[i] \in 1..m - 1
    BY <1>3, <1>6
  <2> QED BY <1>5, <1>7, <2>1
<1>9. \A i \in OpenSections(f) : new[i] = old[i] /\ g.log[i] = f.log[i]
  BY <1>2, <1>4, <1>5
<1>10. ASSUME NEW i \in OpenSections(g)
       PROVE  new[i] \in DOMAIN g.bdc /\ g.log[i].cut = g.bdc[new[i]]
  <2>1. i \in OpenSections(f) /\ old[i] \in 1..m - 1 /\ new[i] = old[i]
    BY <1>8, <1>9
  <2>2. g.log[i].cut = f.bdc[old[i]] /\ g.bdc[old[i]] = f.bdc[old[i]]
    BY <1>3, <1>6, <1>9, <2>1
  <2> QED BY <1>3, <2>1, <2>2
<1>11. \A d \in DOMAIN g.bdc : \E i \in OpenSections(g) : new[i] = d
  <2>1. \A d \in 1..m - 1 : d \in 1..m
    BY <1>3
  <2> QED BY <1>3, <1>6, <1>8, <1>9, <2>1
<1>12. new[Len(g.log)] = Len(g.bdc)
  BY <1>2, <1>3, <1>7
<1> QED BY <1>10, <1>11, <1>12 DEF SectionsFit, new

-----------------------------------------------------------------------------
(* The colour a stream has named and the colorants its interpreter holds   *)

Channels == {1, 2}
Setter(c) == IF c = 1 THEN "CS" ELSE "cs"

(* The colorants that stream f returns to at nesting depth d of q and Q.   *)
ColoursAt(f, d) == IF d < Len(f.saved) THEN f.saved[d + 1] ELSE Saved(f)

(* The lasting operators of channel c that are no deeper than d.           *)
SettersUpTo(f, c, d) ==
  {i \in Lasting(f, Setter(c), "q", "Q") : Level(f.log, "q", "Q")[i] <= d}

LastIsCut(f, S) == \E i \in S : (\A k \in S : k <= i) /\ f.log[i].cut

(* At every depth, the colorants that are held or saved hit a target just  *)
(* when the last lasting operator no deeper has named one.                 *)
ColoursFit(f) ==
  /\ Level(f.log, "q", "Q")[Len(f.log)] = Len(f.saved)
  /\ \A c \in Channels : \A d \in 0..Len(f.saved) :
       HitsTarget(ColoursAt(f, d)[c]) <=> LastIsCut(f, SettersUpTo(f, c, d))

(* A sum of what the lemmas below need of the levels of q and Q.           *)
LEMMA ColourLevels ==
  ASSUME NEW f, NEW g, NEW e, Grows(f, g, e), ColoursFit(f)
  PROVE  LET n == Len(f.log)
             old == Level(f.log, "q", "Q")
             new == Level(g.log, "q", "Q")
         IN  /\ n \in Nat /\ Len(g.log) = n + 1 /\ g.log[n + 1] = e
             /\ \A k \in 1..n : g.log[k] = f.log[k]
             /\ old \in [0..n -> Nat] /\ new \in [0..n + 1 -> Nat]
             /\ \A k \in 0..n : new[k] = old[k]
             /\ old[n] = Len(f.saved) /\ Len(f.saved) \in Nat
             /\ new[n + 1] = LevelAfter(Len(f.saved), e, "q", "Q")
<1>1. /\ f \in Frame /\ g \in Frame /\ e \in Entry /\ g.log = Append(f.log, e)
  BY DEF Grows
<1>2. f.log \in Seq(Entry) /\ g.log \in Seq(Entry) /\ f.saved \in Seq(Colorants \X Colorants)
  BY <1>1, FrameFields
<1>3. /\ Len(f.log) \in Nat /\ Len(g.log) = Len(f.log) + 1 /\ g.log[Len(f.log) + 1] = e
      /\ \A k \in 1..Len(f.log) : g.log[k] = f.log[k]
  BY <1>1, <1>2
<1>4. Level(f.log, "q", "Q")[Len(f.log)] = Len(f.saved) /\ Len(f.saved) \in Nat
  BY <1>2 DEF ColoursFit
<1>5. /\ Level(g.log, "q", "Q") \in [0..Len(f.log) + 1 -> Nat]
      /\ Level(f.log, "q", "Q") \in [0..Len(f.log) -> Nat]
      /\ \A k \in 0..Len(f.log) : Level(g.log, "q", "Q")[k] = Level(f.log, "q", "Q")[k]
      /\ Level(g.log, "q", "Q")[Len(f.log) + 1] =
           LevelAfter(Level(f.log, "q", "Q")[Len(f.log)], e, "q", "Q")
  <2>1. "q" # "Q"
    OBVIOUS
  <2> QED BY <1>1, <1>2, <2>1, LevelAppend
<1> QED BY <1>3, <1>4, <1>5

(* An operator changes nothing about the colour at the depths below its    *)
(* own, nor at its own when it sets none.                                  *)
LEMMA SettersSame ==
  ASSUME NEW f, NEW g, NEW e, Grows(f, g, e), ColoursFit(f), NEW c \in Channels,
         NEW d \in Nat, d <= Level(g.log, "q", "Q")[Len(f.log) + 1],
         e.op # Setter(c) \/ d < Level(g.log, "q", "Q")[Len(f.log) + 1]
  PROVE  LastIsCut(g, SettersUpTo(g, c, d)) <=> LastIsCut(f, SettersUpTo(f, c, d))
<1> DEFINE n == Len(f.log)
           old == Level(f.log, "q", "Q")
           new == Level(g.log, "q", "Q")
           F == Lasting(f, Setter(c), "q", "Q")
           G == Lasting(g, Setter(c), "q", "Q")
<1>1. /\ n \in Nat /\ \A k \in 1..n : g.log[k] = f.log[k]
      /\ old \in [0..n -> Nat] /\ new \in [0..n + 1 -> Nat]
      /\ \A k \in 0..n : new[k] = old[k]
  BY ColourLevels
<1>2. /\ F \subseteq 1..n
      /\ \A i \in 1..n : i \in G <=> i \in F /\ old[i] <= new[n + 1]
      /\ \A i \in G : i \in 1..n \/ i = n + 1
      /\ n + 1 \in G <=> e.op = Setter(c)
  <2>1. "q" # "Q"
    OBVIOUS
  <2>2. LastingGrows(f, g, e, Setter(c), "q", "Q")
    BY <2>1, LastingAppend
  <2> QED BY <2>2 DEF LastingGrows
<1> HIDE DEF n, old, new, F, G
<1>3. d <= new[n + 1] /\ new[n + 1] \in Nat /\ (e.op # Setter(c) \/ d < new[n + 1])
  BY <1>1 DEF n, new
<1>4. \A i \in 1..n : old[i] \in Nat /\ new[i] = old[i]
  BY <1>1
<1>5. {i \in G : new[i] <= d} = {i \in F : old[i] <= d}
  <2>1. ASSUME NEW i \in G, new[i] <= d PROVE i \in F /\ old[i] <= d
    BY <1>2, <1>3, <1>4, <2>1
  <2>2. ASSUME NEW i \in F, old[i] <= d PROVE i \in G /\ new[i] <= d
    BY <1>2, <1>3, <1>4, <2>2
  <2> QED BY <2>1, <2>2
<1>6. SettersUpTo(g, c, d) = SettersUpTo(f, c, d)
  BY <1>5 DEF SettersUpTo, F, G, old, new
<1>7. \A i \in SettersUpTo(f, c, d) : g.log[i] = f.log[i]
  BY <1>1, <1>2 DEF SettersUpTo, F
<1> QED BY <1>6, <1>7 DEF LastIsCut

(* An operator that sets no colour, and neither saves nor restores.        *)
LEMMA ColourStays ==
  ASSUME NEW f, NEW g, NEW e, Grows(f, g, e), ColoursFit(f),
         e.op \notin {"CS", "cs", "q"}, e.op = "Q" => f.saved = <<>>,
         g.saved = f.saved, Saved(g) = Saved(f)
  PROVE  ColoursFit(g)
<1> DEFINE m == Len(f.saved)
           new == Level(g.log, "q", "Q")
<1>1. /\ Len(g.log) = Len(f.log) + 1 /\ m \in Nat
      /\ new[Len(f.log) + 1] = LevelAfter(m, e, "q", "Q")
  BY ColourLevels
<1>2. LevelAfter(m, e, "q", "Q") = m
  <2>1. f.saved = <<>> => m = 0
    OBVIOUS
  <2> QED BY <2>1 DEF LevelAfter
<1>3. \A c \in Channels : e.op # Setter(c)
  BY DEF Setter
<1>4. ASSUME NEW c \in Channels, NEW d \in 0..m
      PROVE  HitsTarget(ColoursAt(g, d)[c]) <=> LastIsCut(g, SettersUpTo(g, c, d))
  <2>1. d \in Nat /\ d <= new[Len(f.log) + 1]
    BY <1>1, <1>2
  <2>2. LastIsCut(g, SettersUpTo(g, c, d)) <=> LastIsCut(f, SettersUpTo(f, c, d))
    BY <1>3, <2>1, SettersSame
  <2>3. ColoursAt(g, d) = ColoursAt(f, d)
    BY DEF ColoursAt
  <2> QED BY <2>2, <2>3 DEF ColoursFit
<1> QED BY <1>1, <1>2, <1>4 DEF ColoursFit

(* CS or cs, which says whether its colorants hit a target.                *)
LEMMA ColourSet ==
  ASSUME NEW f, NEW g, NEW e, Grows(f, g, e), ColoursFit(f), NEW c \in Channels,
         e.op = Setter(c), e.cut = HitsTarget(Saved(g)[c]), g.saved = f.saved,
         \A b \in Channels \ {c} : Saved(g)[b] = Saved(f)[b]
  PROVE  ColoursFit(g)
<1> DEFINE n == Len(f.log)
           m == Len(f.saved)
           new == Level(g.log, "q", "Q")
<1>1. /\ n \in Nat /\ Len(g.log) = n + 1 /\ m \in Nat /\ g.log[n + 1] = e
      /\ new[n + 1] = LevelAfter(m, e, "q", "Q")
  BY ColourLevels
<1>2. LevelAfter(m, e, "q", "Q") = m
  BY DEF LevelAfter, Setter
<1> HIDE DEF n, m, new
<1>3. ASSUME NEW b \in Channels, NEW d \in 0..m, b # c \/ d < m
      PROVE  HitsTarget(ColoursAt(g, d)[b]) <=> LastIsCut(g, SettersUpTo(g, b, d))
  <2>1. d \in Nat /\ d <= new[n + 1] /\ (b # c => e.op # Setter(b)) /\ (d < m => d < new[n + 1])
    BY <1>1, <1>2 DEF Setter, Channels
  <2>2. LastIsCut(g, SettersUpTo(g, b, d)) <=> LastIsCut(f, SettersUpTo(f, b, d))
    BY <1>3, <2>1, SettersSame DEF n, new
  <2>3. ColoursAt(g, d)[b] = ColoursAt(f, d)[b]
    BY <1>3 DEF ColoursAt, m
  <2> QED BY <2>2, <2>3 DEF ColoursFit, m
<1>4. HitsTarget(ColoursAt(g, m)[c]) <=> LastIsCut(g, SettersUpTo(g, c, m))
  <2> DEFINE G == Lasting(g, Setter(c), "q", "Q")
  <2>1. n + 1 \in G /\ \A i \in G : i \in 1..n \/ i = n + 1
    <3>1. "q" # "Q"
      OBVIOUS
    <3>2. LastingGrows(f, g, e, Setter(c), "q", "Q")
      BY <3>1, LastingAppend
    <3> QED BY <3>2 DEF LastingGrows, n
  <2> HIDE DEF G
  <2>2. n + 1 \in SettersUpTo(g, c, m)
    BY <1>1, <1>2, <2>1 DEF SettersUpTo, G, new
  <2>3. \A i \in SettersUpTo(g, c, m) : i <= n + 1 /\ i \in Int
    BY <1>1, <2>1 DEF SettersUpTo, G
  <2>4. LastIsCut(g, SettersUpTo(g, c, m)) <=> e.cut
    BY <1>1, <2>2, <2>3 DEF LastIsCut
  <2>5. ColoursAt(g, m) = Saved(g)
    BY <1>1 DEF ColoursAt, m
  <2> QED BY <2>4, <2>5
<1>5. \A b \in Channels : \A d \in 0..m :
        HitsTarget(ColoursAt(g, d)[b]) <=> LastIsCut(g, SettersUpTo(g, b, d))
  <2>1. \A d \in 0..m : d < m \/ d = m
    BY <1>1
  <2> QED BY <1>3, <1>4, <2>1
<1>6. new[Len(g.log)] = Len(g.saved)
  BY <1>1, <1>2 DEF m
<1> QED BY <1>5, <1>6 DEF ColoursFit, m, new

(* q.                                                                      *)
LEMMA ColourSaved ==
  ASSUME NEW f, NEW g, NEW e, Grows(f, g, e), ColoursFit(f), e.op = "q",
         g.saved = Append(f.saved, Saved(f)), Saved(g) = Saved(f)
  PROVE  ColoursFit(g)
<1> DEFINE n == Len(f.log)
           m == Len(f.saved)
           old == Level(f.log, "q", "Q")
           new == Level(g.log, "q", "Q")
<1>1. /\ n \in Nat /\ Len(g.log) = n + 1 /\ m \in Nat /\ old[n] = m
      /\ old \in [0..n -> Nat]
      /\ new[n + 1] = LevelAfter(m, e, "q", "Q")
  BY ColourLevels
<1>2. LevelAfter(m, e, "q", "Q") = m + 1
  BY DEF LevelAfter
<1>3. /\ Len(g.saved) = m + 1 /\ g.saved[m + 1] = Saved(f)
      /\ \A d \in 1..m : g.saved[d] = f.saved[d]
  <2>1. f.saved \in Seq(Colorants \X Colorants)
    BY FrameFields DEF Grows
  <2> QED BY <2>1
<1>4. \A c \in Channels : e.op # Setter(c)
  BY DEF Setter
<1>5. ASSUME NEW c \in Channels PROVE SettersUpTo(f, c, m + 1) = SettersUpTo(f, c, m)
  <2> DEFINE F == Lasting(f, Setter(c), "q", "Q")
  <2>1. F \subseteq 1..n /\ \A i \in F : old[i] <= old[n]
    <3>1. "q" # "Q"
      OBVIOUS
    <3>2. LastingGrows(f, g, e, Setter(c), "q", "Q")
      BY <3>1, LastingAppend
    <3> QED BY <3>2 DEF LastingGrows
  <2> HIDE DEF F, n, m, old
  <2>2. \A i \in F : old[i] \in Nat /\ old[i] <= m
    BY <1>1, <2>1
  <2>3. {i \in F : old[i] <= m + 1} = {i \in F : old[i] <= m}
    BY <1>1, <2>2
  <2> QED BY <2>3 DEF SettersUpTo, F, old
<1> HIDE DEF n, m, old, new
<1>6. ASSUME NEW c \in Channels, NEW d \in 0..m + 1
      PROVE  HitsTarget(ColoursAt(g, d)[c]) <=> LastIsCut(g, SettersUpTo(g, c, d))
  <2>1. d \in Nat /\ d <= new[n + 1]
    BY <1>1, <1>2
  <2>2. LastIsCut(g, SettersUpTo(g, c, d)) <=> LastIsCut(f, SettersUpTo(f, c, d))
    BY <1>4, <2>1, SettersSame DEF n, new
  <2>3. CASE d \in 0..m
    <3>1. ColoursAt(g, d) = ColoursAt(f, d)
      <4>1. CASE d < m
        <5>1. d + 1 \in 1..m /\ d < m + 1
          BY <1>1, <2>3, <4>1
        <5> QED BY <1>3, <4>1, <5>1 DEF ColoursAt, m
      <4>2. CASE d = m
        BY <1>1, <1>3, <4>2 DEF ColoursAt, m
      <4> QED BY <1>1, <2>3, <4>1, <4>2
    <3> QED BY <2>2, <2>3, <3>1 DEF ColoursFit, m
  <2>4. CASE d = m + 1
    <3>1. ColoursAt(g, d) = ColoursAt(f, m)
      BY <1>1, <1>3, <2>4 DEF ColoursAt, m
    <3>2. m \in 0..m
      BY <1>1
    <3> QED BY <1>5, <2>2, <2>4, <3>1, <3>2 DEF ColoursFit, m
  <2> QED BY <1>1, <2>3, <2>4
<1>7. new[Len(g.log)] = Len(g.saved)
  BY <1>1, <1>2, <1>3
<1> QED BY <1>3, <1>6, <1>7 DEF ColoursFit, new

(* A Q with its q.                                                         *)
LEMMA ColourRestored ==
  ASSUME NEW f, NEW g, NEW e, Grows(f, g, e), ColoursFit(f), e.op = "Q",
         f.saved # <<>>, g.saved = Front(f.saved),
         Saved(g)[1] = Last(f.saved)[1], Saved(g)[2] = Last(f.saved)[2]
  PROVE  ColoursFit(g)
<1> DEFINE n == Len(f.log)
           m == Len(f.saved)
           new == Level(g.log, "q", "Q")
<1>1. /\ n \in Nat /\ Len(g.log) = n + 1
      /\ new[n + 1] = LevelAfter(m, e, "q", "Q")
  BY ColourLevels
<1>2. /\ m \in Nat \ {0} /\ Len(g.saved) = m - 1
      /\ \A d \in 1..m - 1 : g.saved[d] = f.saved[d]
      /\ Last(f.saved) = f.saved[m]
  <2>1. f.saved \in Seq(Colorants \X Colorants)
    BY FrameFields DEF Grows
  <2> QED BY <2>1, FrontFacts DEF Last
<1>3. LevelAfter(m, e, "q", "Q") = m - 1
  BY <1>2 DEF LevelAfter
<1>4. \A c \in Channels : e.op # Setter(c)
  BY DEF Setter
<1> HIDE DEF n, m, new
<1>5. ASSUME NEW c \in Channels, NEW d \in 0..m - 1
      PROVE  HitsTarget(ColoursAt(g, d)[c]) <=> LastIsCut(g, SettersUpTo(g, c, d))
  <2>1. d \in Nat /\ d <= new[n + 1] /\ d \in 0..m
    BY <1>1, <1>2, <1>3
  <2>2. LastIsCut(g, SettersUpTo(g, c, d)) <=> LastIsCut(f, SettersUpTo(f, c, d))
    BY <1>4, <2>1, SettersSame DEF n, new
  <2>3. ColoursAt(g, d)[c] = ColoursAt(f, d)[c]
    <3>1. CASE d < m - 1
      <4>1. d + 1 \in 1..m - 1 /\ d < m
        BY <1>2, <3>1
      <4> QED BY <1>2, <3>1, <4>1 DEF ColoursAt, m
    <3>2. CASE d = m - 1
      <4>1. d + 1 = m /\ d < m /\ ~ (d < m - 1)
        BY <1>2, <3>2
      <4>2. ColoursAt(g, d) = Saved(g) /\ ColoursAt(f, d) = Last(f.saved)
        BY <1>2, <4>1 DEF ColoursAt, m
      <4> QED BY <4>2 DEF Channels
    <3> QED BY <1>2, <3>1, <3>2
  <2> QED BY <2>1, <2>2, <2>3 DEF ColoursFit, m
<1>6. new[Len(g.log)] = Len(g.saved)
  BY <1>1, <1>2, <1>3
<1> QED BY <1>2, <1>5, <1>6 DEF ColoursFit, new

(* A stream has itself named a cut colour, and it is still in force.       *)
NamedCut(f, op) == \E i \in InForce(f, {op}) : f.log[i].cut

(* The colour in force is a cut colour's just when the colorants the       *)
(* interpreter holds hit a target.                                         *)
LEMMA NamedCutFits ==
  ASSUME NEW f \in Frame, ColoursFit(f), NEW c \in Channels
  PROVE  NamedCut(f, Setter(c)) <=> HitsTarget(Saved(f)[c])
<1> DEFINE n == Len(f.log)
           m == Len(f.saved)
           level == Level(f.log, "q", "Q")
           F == Lasting(f, Setter(c), "q", "Q")
<1>1. /\ n \in Nat /\ DOMAIN f.log = 1..n /\ m \in Nat
      /\ level \in [0..n -> Nat] /\ level[n] = m
  <2>1. f.log \in Seq(Entry) /\ f.saved \in Seq(Colorants \X Colorants)
    BY FrameFields
  <2>2. "q" # "Q"
    OBVIOUS
  <2> QED BY <2>1, <2>2, LevelFacts DEF ColoursFit
<1>2. F = {i \in 1..n : f.log[i].op = Setter(c) /\ Lasts(level, f.log, i)}
  BY <1>1 DEF Lasting
<1> HIDE DEF F, level
<1>3. \A i \in F : level[i] <= m
  <2>1. \A i \in 1..n : n \in i..n
    BY <1>1
  <2> QED BY <1>1, <1>2, <2>1 DEF Lasts
<1>4. SettersUpTo(f, c, m) = F
  BY <1>3 DEF SettersUpTo, F, level
<1>5. InForce(f, {Setter(c)}) = {i \in F : \A k \in F : k <= i}
  <2>1. InForce(f, {Setter(c)}) =
          {i \in 1..n : /\ f.log[i].op = Setter(c) /\ Lasts(level, f.log, i)
                        /\ \A k \in i + 1..n :
                             f.log[k].op = Setter(c) => ~ Lasts(level, f.log, k)}
    BY <1>1 DEF InForce, level
  <2> HIDE DEF n
  <2>2. \A i \in 1..n : \A k \in 1..n : k \in i + 1..n <=> ~ (k <= i)
    BY <1>1
  <2>3. \A i \in 1..n : \A k \in i + 1..n : k \in 1..n
    BY <1>1
  <2> QED BY <1>2, <2>1, <2>2, <2>3
<1>6. NamedCut(f, Setter(c)) <=> LastIsCut(f, F)
  BY <1>5 DEF NamedCut, LastIsCut
<1>7. ColoursAt(f, m) = Saved(f) /\ m \in 0..m
  BY <1>1 DEF ColoursAt
<1> QED BY <1>4, <1>6, <1>7 DEF ColoursFit

-----------------------------------------------------------------------------
(* The cutting sections of a sequence of frames                            *)

LEMMA OpenMember ==
  ASSUME NEW fs, NEW c
  PROVE  c \in OpenOf(fs) <=>
           \E n \in DOMAIN fs : \E i \in DOMAIN fs[n].bdc :
              fs[n].bdc[i] /\ c = <<n, i>>
BY DEF OpenOf, OpenCutSections

(* Two sequences whose frames have the same sections.                      *)
LEMMA OpenSame ==
  ASSUME NEW fs, NEW gs, DOMAIN gs = DOMAIN fs,
         \A n \in DOMAIN fs : gs[n].bdc = fs[n].bdc
  PROVE  OpenOf(gs) = OpenOf(fs)
<1>1. \A c : c \in OpenOf(gs) <=> c \in OpenOf(fs)
  BY OpenMember
<1> QED BY <1>1

(* One more section at the end of the running frame's.                     *)
LEMMA OpenPush ==
  ASSUME NEW fs, NEW gs, NEW m \in DOMAIN fs, NEW b \in BOOLEAN,
         fs[m].bdc \in Seq(BOOLEAN), DOMAIN gs = DOMAIN fs,
         gs[m].bdc = Append(fs[m].bdc, b),
         \A n \in DOMAIN fs \ {m} : gs[n].bdc = fs[n].bdc
  PROVE  /\ <<m, Len(fs[m].bdc) + 1>> \notin OpenOf(fs)
         /\ OpenOf(gs) = IF b THEN OpenOf(fs) \cup {<<m, Len(fs[m].bdc) + 1>>}
                         ELSE OpenOf(fs)
<1> DEFINE new == Len(fs[m].bdc) + 1
<1>1. /\ DOMAIN fs[m].bdc = 1..new - 1 /\ DOMAIN gs[m].bdc = 1..new
      /\ new \in Nat \ {0} /\ gs[m].bdc[new] = b
      /\ \A i \in 1..new - 1 : gs[m].bdc[i] = fs[m].bdc[i]
  OBVIOUS
<1> HIDE DEF new
<1>2. new \notin DOMAIN fs[m].bdc /\ DOMAIN gs[m].bdc = DOMAIN fs[m].bdc \cup {new}
  BY <1>1
<1>3. <<m, new>> \notin OpenOf(fs)
  BY <1>2, OpenMember
<1>4. \A c : c \in OpenOf(gs) <=> c \in OpenOf(fs) \/ (b /\ c = <<m, new>>)
  <2> SUFFICES ASSUME NEW c
               PROVE c \in OpenOf(gs) <=> c \in OpenOf(fs) \/ (b /\ c = <<m, new>>)
    OBVIOUS
  <2>1. ASSUME c \in OpenOf(gs) PROVE c \in OpenOf(fs) \/ (b /\ c = <<m, new>>)
    <3>1. PICK n \in DOMAIN gs : \E i \in DOMAIN gs[n].bdc :
             gs[n].bdc[i] /\ c = <<n, i>>
      BY <2>1, OpenMember
    <3>2. PICK i \in DOMAIN gs[n].bdc : gs[n].bdc[i] /\ c = <<n, i>>
      BY <3>1
    <3>3. CASE n = m /\ i = new
      BY <1>1, <3>2, <3>3
    <3>4. CASE n = m /\ i # new
      BY <1>1, <1>2, <3>2, <3>4, OpenMember
    <3>5. CASE n # m
      BY <3>2, <3>5, OpenMember
    <3> QED BY <3>3, <3>4, <3>5
  <2>2. ASSUME c \in OpenOf(fs) PROVE c \in OpenOf(gs)
    <3>1. PICK n \in DOMAIN fs : \E i \in DOMAIN fs[n].bdc :
             fs[n].bdc[i] /\ c = <<n, i>>
      BY <2>2, OpenMember
    <3>2. PICK i \in DOMAIN fs[n].bdc : fs[n].bdc[i] /\ c = <<n, i>>
      BY <3>1
    <3>3. i \in DOMAIN gs[n].bdc /\ gs[n].bdc[i]
      BY <1>1, <1>2, <3>2
    <3> QED BY <3>2, <3>3, OpenMember
  <2>3. ASSUME b, c = <<m, new>> PROVE c \in OpenOf(gs)
    BY <1>1, <1>2, <2>3, OpenMember
  <2> QED BY <2>1, <2>2, <2>3
<1>5. OpenOf(gs) = IF b THEN OpenOf(fs) \cup {<<m, new>>} ELSE OpenOf(fs)
  BY <1>4
<1> QED BY <1>3, <1>5 DEF new

(* One section less at the end of the running frame's.                     *)
LEMMA OpenPop ==
  ASSUME NEW fs, NEW gs, NEW m \in DOMAIN fs,
         fs[m].bdc \in Seq(BOOLEAN), fs[m].bdc # <<>>, DOMAIN gs = DOMAIN fs,
         gs[m].bdc = Front(fs[m].bdc),
         \A n \in DOMAIN fs \ {m} : gs[n].bdc = fs[n].bdc
  PROVE  /\ <<m, Len(fs[m].bdc)>> \in OpenOf(fs) <=> Last(fs[m].bdc)
         /\ OpenOf(gs) = OpenOf(fs) \ {<<m, Len(fs[m].bdc)>>}
<1> DEFINE old == Len(fs[m].bdc)
<1>1. /\ old \in DOMAIN fs[m].bdc /\ DOMAIN gs[m].bdc = DOMAIN fs[m].bdc \ {old}
      /\ Last(fs[m].bdc) = fs[m].bdc[old]
      /\ \A i \in DOMAIN gs[m].bdc : gs[m].bdc[i] = fs[m].bdc[i]
  <2>1. old \in Nat \ {0} /\ DOMAIN fs[m].bdc = 1..old
    BY FrontFacts
  <2>2. DOMAIN gs[m].bdc = 1..old - 1 /\ \A i \in 1..old - 1 : gs[m].bdc[i] = fs[m].bdc[i]
    BY FrontFacts
  <2> HIDE DEF old
  <2>3. Last(fs[m].bdc) = fs[m].bdc[old]
    BY DEF Last, old
  <2> QED BY <2>1, <2>2, <2>3
<1> HIDE DEF old
<1>2. <<m, old>> \in OpenOf(fs) <=> Last(fs[m].bdc)
  BY <1>1, OpenMember
<1>3. \A c : c \in OpenOf(gs) <=> c \in OpenOf(fs) /\ c # <<m, old>>
  <2> SUFFICES ASSUME NEW c
               PROVE c \in OpenOf(gs) <=> c \in OpenOf(fs) /\ c # <<m, old>>
    OBVIOUS
  <2>1. ASSUME NEW n \in DOMAIN fs, NEW i, c = <<n, i>>
        PROVE i \in DOMAIN gs[n].bdc /\ gs[n].bdc[i] <=>
                i \in DOMAIN fs[n].bdc /\ fs[n].bdc[i] /\ c # <<m, old>>
    BY <1>1, <2>1
  <2> QED BY <2>1, OpenMember
<1> QED BY <1>2, <1>3 DEF old

-----------------------------------------------------------------------------
(* The types                                                               *)

LEMMA TypeInit == Init => TypeOK
<1> SUFFICES ASSUME Init PROVE TypeOK
  OBVIOUS
<1>1. Interpreter(Page) \in Frame
  BY InterpreterTyped, CutExtractAssumption
<1>2. frames = <<Interpreter(Page)>> /\ frames \in Seq(Frame) /\ Len(frames) = 1
  BY <1>1 DEF Init
<1>3. strayed \in BOOLEAN
  BY Zenon DEF Init
<1> QED BY <1>2, <1>3, CutExtractAssumption DEF Init, TypeOK

-----------------------------------------------------------------------------
(* The counter                                                             *)

(* The invariant: the sections on the stacks are finitely many, and        *)
(* counted.                                                                *)
CountInv == IsFiniteSet(OpenOf(frames)) /\ DepthCounts

(* The counter stays where the sections stay.                              *)
LEMMA CountSame ==
  ASSUME CountInv, UNCHANGED <<ocCutDepth, leaked>>,
         DOMAIN frames' = DOMAIN frames,
         \A n \in DOMAIN frames : frames'[n].bdc = frames[n].bdc
  PROVE  CountInv'
<1>1. OpenOf(frames') = OpenOf(frames)
  BY OpenSame
<1> QED BY <1>1 DEF CountInv, DepthCounts

(* An operator that leaves the sections of its interpreter alone.          *)
LEMMA PlainOperator ==
  ASSUME TypeOK, CountInv, NEW f \in Frame, f.bdc = Top.bdc,
         NEW op \in Ops, NEW cut \in BOOLEAN,
         Says(op, cut, f), UNCHANGED ocCutDepth
  PROVE  TypeOK' /\ CountInv'
<1>1. /\ frames' \in Seq(Frame) /\ Len(frames') = Len(frames)
      /\ frames'[Len(frames)].bdc = Top.bdc
      /\ \A n \in DOMAIN frames \ {Len(frames)} : frames'[n] = frames[n]
      /\ said' \in 0..MaxOps /\ UNCHANGED <<found, outcome, leaked, truth, strayed>>
  BY SaysTyped
<1>2. TypeOK'
  BY <1>1 DEF TypeOK
<1>3. DOMAIN frames' = DOMAIN frames
  BY <1>1 DEF TypeOK
<1>4. \A n \in DOMAIN frames : frames'[n].bdc = frames[n].bdc
  BY <1>1 DEF Top
<1> QED BY <1>1, <1>2, <1>3, <1>4, CountSame

(* An operator that begins a section.                                      *)
LEMMA BeginningOperator ==
  ASSUME TypeOK, CountInv, NEW cut \in BOOLEAN,
         Says("BDC", cut, [Top EXCEPT !.bdc = Append(@, cut)]),
         ocCutDepth' = IF cut THEN ocCutDepth + 1 ELSE ocCutDepth
  PROVE  TypeOK' /\ CountInv'
<1> DEFINE f == [Top EXCEPT !.bdc = Append(@, cut)]
           m == Len(frames)
           new == <<m, Len(Top.bdc) + 1>>
<1>1. Top \in Frame /\ m \in DOMAIN frames /\ Top = frames[m]
  BY TopTyped DEF Top
<1>2. Top.bdc \in Seq(BOOLEAN)
  BY <1>1, FrameFields
<1>3. Append(Top.bdc, cut) \in Seq(BOOLEAN)
  BY <1>2
<1>4. f \in Frame /\ f.bdc = Append(Top.bdc, cut)
  BY <1>1, <1>3 DEF Frame
<1>5. "BDC" \in Ops
  BY DEF Ops
<1> HIDE DEF f
<1>6. /\ frames' \in Seq(Frame) /\ Len(frames') = Len(frames)
      /\ frames'[m].bdc = Append(Top.bdc, cut)
      /\ \A n \in DOMAIN frames \ {m} : frames'[n] = frames[n]
      /\ said' \in 0..MaxOps /\ UNCHANGED <<found, outcome, leaked, truth, strayed>>
  BY <1>4, <1>5, SaysTyped DEF f
<1>7. TypeOK'
  BY <1>6 DEF TypeOK
<1>8. DOMAIN frames' = DOMAIN frames
  BY <1>6 DEF TypeOK
<1>9. /\ new \notin OpenOf(frames)
      /\ OpenOf(frames') = IF cut THEN OpenOf(frames) \cup {new} ELSE OpenOf(frames)
  BY <1>1, <1>2, <1>6, <1>8, OpenPush
<1> HIDE DEF new
<1>10. CASE cut
  <2>1. /\ IsFiniteSet(OpenOf(frames'))
        /\ Cardinality(OpenOf(frames')) = Cardinality(OpenOf(frames)) + 1
    BY <1>9, <1>10, FS_AddElement DEF CountInv
  <2>2. Cardinality(OpenOf(frames)) \in Nat
    BY FS_CardinalityType DEF CountInv
  <2> QED BY <1>6, <1>7, <1>10, <2>1, <2>2 DEF CountInv, DepthCounts, TypeOK
<1>11. CASE ~ cut
  BY <1>6, <1>7, <1>9, <1>11 DEF CountInv, DepthCounts
<1> QED BY <1>10, <1>11

(* An EMC that ends a section of its interpreter.                          *)
LEMMA EndingOperator ==
  ASSUME TypeOK, CountInv, Top.bdc # <<>>,
         Says("EMC", FALSE, [Top EXCEPT !.bdc = Front(@)]),
         ocCutDepth' = DepthAfter(Top)
  PROVE  TypeOK' /\ CountInv'
<1> DEFINE f == [Top EXCEPT !.bdc = Front(@)]
           m == Len(frames)
           old == <<m, Len(Top.bdc)>>
<1>1. Top \in Frame /\ m \in DOMAIN frames /\ Top = frames[m]
  BY TopTyped DEF Top
<1>2. Top.bdc \in Seq(BOOLEAN)
  BY <1>1, FrameFields
<1>3. Front(Top.bdc) \in Seq(BOOLEAN) /\ Last(Top.bdc) \in BOOLEAN
  BY <1>2, FrontFacts
<1>4. f \in Frame /\ f.bdc = Front(Top.bdc)
  BY <1>1, <1>3 DEF Frame
<1>5. "EMC" \in Ops
  BY DEF Ops
<1> HIDE DEF f
<1>6. /\ frames' \in Seq(Frame) /\ Len(frames') = Len(frames)
      /\ frames'[m].bdc = Front(Top.bdc)
      /\ \A n \in DOMAIN frames \ {m} : frames'[n] = frames[n]
      /\ said' \in 0..MaxOps /\ UNCHANGED <<found, outcome, leaked, truth, strayed>>
  BY <1>4, <1>5, SaysTyped DEF f
<1>7. DOMAIN frames' = DOMAIN frames
  BY <1>6 DEF TypeOK
<1>8. /\ old \in OpenOf(frames) <=> Last(Top.bdc)
      /\ OpenOf(frames') = OpenOf(frames) \ {old}
  BY <1>1, <1>2, <1>6, <1>7, OpenPop
<1> HIDE DEF old
<1>9. /\ IsFiniteSet(OpenOf(frames'))
      /\ Cardinality(OpenOf(frames')) = IF Last(Top.bdc)
                                        THEN Cardinality(OpenOf(frames)) - 1
                                        ELSE Cardinality(OpenOf(frames))
  BY <1>8, FS_RemoveElement DEF CountInv
<1>10. Cardinality(OpenOf(frames)) \in Nat /\ Cardinality(OpenOf(frames')) \in Nat
  BY <1>9, FS_CardinalityType DEF CountInv
<1>11. ocCutDepth' = leaked' + Cardinality(OpenOf(frames'))
  BY <1>6, <1>9, <1>10 DEF DepthAfter, CountInv, DepthCounts, TypeOK
<1>12. ocCutDepth' \in Nat
  BY <1>6, <1>10, <1>11 DEF TypeOK
<1> QED BY <1>6, <1>9, <1>11, <1>12 DEF TypeOK, CountInv, DepthCounts

(* A form's interpreter begins without sections.                           *)
LEMMA FormBegins ==
  ASSUME TypeOK, CountInv, BeginForm PROVE TypeOK' /\ CountInv'
<1>1. PICK r \in ResourceDicts : frames' = Append(frames, Interpreter(r))
  BY TopTyped, FrameFields DEF BeginForm
<1>2. Interpreter(r) \in Frame /\ Interpreter(r).bdc = <<>>
  BY InterpreterTyped
<1>3. frames \in Seq(Frame) /\ Len(frames) < MaxFrames
  BY DEF TypeOK, BeginForm
<1>4. /\ frames' \in Seq(Frame) /\ Len(frames') = Len(frames) + 1
      /\ frames'[Len(frames) + 1] = Interpreter(r)
      /\ \A n \in DOMAIN frames : frames'[n] = frames[n]
  BY <1>1, <1>2, <1>3
<1>5. UNCHANGED <<ocCutDepth, found, outcome, said, leaked, truth, strayed>>
  BY DEF BeginForm
<1>6. TypeOK'
  BY <1>3, <1>4, <1>5, CutExtractAssumption DEF TypeOK
<1>7. DOMAIN frames' = DOMAIN frames \cup {Len(frames) + 1}
  BY <1>3, <1>4
<1>8. DOMAIN frames'[Len(frames) + 1].bdc = {}
  BY <1>2, <1>4
<1>9. \A c : c \in OpenOf(frames') <=> c \in OpenOf(frames)
  BY <1>4, <1>7, <1>8, OpenMember
<1>10. OpenOf(frames') = OpenOf(frames)
  BY <1>9
<1> QED BY <1>5, <1>6, <1>10 DEF CountInv, DepthCounts

(* What a form leaves open stays in the counter.                           *)
LEMMA FormEnds ==
  ASSUME TypeOK, CountInv, EndForm PROVE TypeOK' /\ CountInv'
<1> DEFINE m == Len(frames)
           rest == {m} \X OpenCutSections(Top)
<1>1. frames \in Seq(Frame) /\ frames # <<>> /\ m > 1
  BY DEF TypeOK, EndForm
<1>2. /\ frames' \in Seq(Frame) /\ Len(frames') = m - 1
      /\ DOMAIN frames' = 1..m - 1
      /\ \A n \in 1..m - 1 : frames'[n] = frames[n]
      /\ m \in Nat \ {0} /\ DOMAIN frames = 1..m
  BY <1>1, FrontFacts DEF EndForm
<1>3. Top.bdc \in Seq(BOOLEAN) /\ Top = frames[m]
  BY TopTyped, FrameFields DEF Top
<1>4. /\ IsFiniteSet(OpenCutSections(Top))
      /\ Cardinality(OpenCutSections(Top)) \in Nat
  <2>1. IsFiniteSet(1..Len(Top.bdc))
    <3>1. Len(Top.bdc) \in Int /\ 1 \in Int
      BY <1>3
    <3> QED BY <3>1, FS_Interval
  <2>2. OpenCutSections(Top) \subseteq 1..Len(Top.bdc)
    BY <1>3 DEF OpenCutSections
  <2> QED BY <2>1, <2>2, FS_Subset, FS_CardinalityType
<1>5. Cardinality(rest) = Cardinality(OpenCutSections(Top))
  <2>1. IsFiniteSet({m}) /\ Cardinality({m}) = 1
    BY FS_Singleton
  <2>2. Cardinality(rest) = 1 * Cardinality(OpenCutSections(Top))
    BY <1>4, <2>1, FS_Product
  <2> QED BY <1>4, <2>2
<1>6. rest \subseteq OpenOf(frames)
  BY <1>2, <1>3 DEF OpenOf
<1>7. OpenOf(frames') = OpenOf(frames) \ rest
  <2>1. \A n \in 1..m : n \in 1..m - 1 <=> n # m
    BY <1>2
  <2>2. \A c : c \in OpenOf(frames') <=>
           \E n \in 1..m - 1 : c \in {n} \X OpenCutSections(frames[n])
    BY <1>2 DEF OpenOf
  <2>3. \A c : c \in OpenOf(frames) <=>
           \E n \in 1..m : c \in {n} \X OpenCutSections(frames[n])
    BY <1>2 DEF OpenOf
  <2>4. \A n \in 1..m - 1 : ({n} \X OpenCutSections(frames[n])) \cap rest = {}
    BY <1>2
  <2>5. \A c : c \in OpenOf(frames') <=> c \in OpenOf(frames) \ rest
    BY <1>2, <1>3, <2>1, <2>2, <2>3, <2>4
  <2> QED BY <2>5
<1> HIDE DEF rest
<1>8. /\ IsFiniteSet(OpenOf(frames'))
      /\ Cardinality(OpenOf(frames')) = Cardinality(OpenOf(frames)) - Cardinality(rest)
  <2>1. OpenOf(frames) \cap rest = rest
    BY <1>6
  <2> QED BY <1>7, <2>1, FS_Difference DEF CountInv
<1>9. leaked' = leaked + Cardinality(rest) 
      /\ UNCHANGED <<ocCutDepth, found, outcome, said, truth, strayed>>
  BY <1>5 DEF EndForm
<1>10. Cardinality(OpenOf(frames)) \in Nat /\ Cardinality(rest) \in Nat
  BY <1>4, <1>5, FS_CardinalityType DEF CountInv
<1>11. TypeOK'
  <2>1. Len(frames') \in 1..MaxFrames
    BY <1>1, <1>2, CutExtractAssumption DEF TypeOK
  <2> QED BY <1>2, <1>9, <1>10, <2>1 DEF TypeOK
<1>12. DepthCounts'
  BY <1>8, <1>9, <1>10 DEF CountInv, DepthCounts, TypeOK
<1> QED BY <1>8, <1>11, <1>12 DEF CountInv

LEMMA CountStep ==
  ASSUME TypeOK, CountInv, [Next]_vars PROVE TypeOK' /\ CountInv'
<1>0. Top \in Frame
  BY TopTyped
<1>1. CASE SetColorSpace
  <2>1. PICK key \in Keys :
          LET colorants == ColorantsFor(Top.resources, key)
              cut == HitsTarget(colorants)
          IN  \/ Says("CS", cut, [Top EXCEPT !.stroke = colorants])
              \/ Says("cs", cut, [Top EXCEPT !.fill = colorants])
    BY <1>1 DEF SetColorSpace
  <2> DEFINE colorants == ColorantsFor(Top.resources, key)
             cut == HitsTarget(colorants)
  <2>2. colorants \in Colorants
    BY <1>0, FrameFields, ColorantsTyped
  <2>3. cut \in BOOLEAN /\ {"CS", "cs"} \subseteq Ops
    BY DEF HitsTarget, Ops
  <2> HIDE DEF colorants, cut
  <2>4. /\ [Top EXCEPT !.stroke = colorants] \in Frame
        /\ [Top EXCEPT !.stroke = colorants].bdc = Top.bdc
        /\ [Top EXCEPT !.fill = colorants] \in Frame
        /\ [Top EXCEPT !.fill = colorants].bdc = Top.bdc
    BY <1>0, <2>2 DEF Frame
  <2>5. CASE Says("CS", cut, [Top EXCEPT !.stroke = colorants])
    BY <1>1, <2>3, <2>4, <2>5, PlainOperator DEF SetColorSpace
  <2>6. CASE Says("cs", cut, [Top EXCEPT !.fill = colorants])
    BY <1>1, <2>3, <2>4, <2>6, PlainOperator DEF SetColorSpace
  <2> QED BY <2>1, <2>5, <2>6 DEF colorants, cut
<1>2. CASE SetDeviceColor
  BY <1>0, <1>2, PlainOperator DEF SetDeviceColor, Ops
<1>3. CASE SaveState
  <2>1. Append(Top.saved, Saved(Top)) \in Seq(Colorants \X Colorants)
    BY <1>0, FrameFields DEF Saved
  <2>2. /\ [Top EXCEPT !.saved = Append(@, Saved(Top))] \in Frame
        /\ [Top EXCEPT !.saved = Append(@, Saved(Top))].bdc = Top.bdc
    BY <1>0, <2>1 DEF Frame
  <2>3. "q" \in Ops
    BY DEF Ops
  <2> QED BY <1>3, <2>2, <2>3, PlainOperator DEF SaveState
<1>4. CASE RestoreState
  <2>1. "Q" \in Ops
    BY DEF Ops
  <2>2. CASE Top.saved = <<>>
    BY <1>0, <1>4, <2>1, <2>2, PlainOperator DEF RestoreState
  <2>3. CASE Top.saved # <<>>
    <3> DEFINE f == [Top EXCEPT !.stroke = Last(Top.saved)[1],
                                !.fill = Last(Top.saved)[2],
                                !.saved = Front(Top.saved)]
    <3>1. /\ Last(Top.saved) \in Colorants \X Colorants
          /\ Front(Top.saved) \in Seq(Colorants \X Colorants)
      BY <1>0, <2>3, FrameFields, FrontFacts
    <3>2. Last(Top.saved)[1] \in Colorants /\ Last(Top.saved)[2] \in Colorants
      BY <3>1
    <3>3. f \in Frame /\ f.bdc = Top.bdc
      BY <1>0, <3>1, <3>2 DEF Frame
    <3>4. Says("Q", FALSE, f) /\ UNCHANGED ocCutDepth
      BY <1>4, <2>3 DEF RestoreState
    <3> HIDE DEF f
    <3> QED BY <2>1, <3>3, <3>4, PlainOperator
  <2> QED BY <2>2, <2>3
<1>5. CASE BeginSection
  <2>1. PICK tag \in {"OC", "other"}, key \in Keys :
          LET isCut == tag = "OC" /\ OcPropsIsCut(Properties[Top.resources][key])
          IN  /\ Says("BDC", isCut, [Top EXCEPT !.bdc = Append(@, isCut)])
              /\ ocCutDepth' = IF isCut THEN ocCutDepth + 1 ELSE ocCutDepth
    BY <1>5 DEF BeginSection
  <2> DEFINE isCut == tag = "OC" /\ OcPropsIsCut(Properties[Top.resources][key])
  <2>2. isCut \in BOOLEAN
    OBVIOUS
  <2>3. /\ Says("BDC", isCut, [Top EXCEPT !.bdc = Append(@, isCut)])
        /\ ocCutDepth' = IF isCut THEN ocCutDepth + 1 ELSE ocCutDepth
    BY <2>1
  <2> HIDE DEF isCut
  <2> QED BY <2>2, <2>3, BeginningOperator
<1>6. CASE BeginMarkedContent
  <2>1. Says("BDC", FALSE, [Top EXCEPT !.bdc = Append(@, FALSE)])
    BY <1>6 DEF BeginMarkedContent, MarkedContent
  <2> QED BY <1>6, <2>1, BeginningOperator DEF BeginMarkedContent
<1>7. CASE EndSection
  <2>1. CASE Top.bdc # <<>>
    BY <1>7, <2>1, EndingOperator DEF EndSection
  <2>2. CASE Top.bdc = <<>>
    BY <1>0, <1>7, <2>2, PlainOperator DEF EndSection, Ops
  <2> QED BY <2>1, <2>2
<1>8. CASE BeginForm
  BY <1>8, FormBegins
<1>9. CASE EndForm
  BY <1>9, FormEnds
<1>10. CASE Paint \/ Finish \/ UNCHANGED vars
  <2>1. UNCHANGED <<frames, ocCutDepth, leaked, said>>
    BY <1>10 DEF Paint, Finish, vars
  <2>2. CountInv'
    BY <2>1 DEF CountInv, DepthCounts
  <2>3. /\ found' \subseteq {"processing-steps", "spot-color"}
        /\ truth' \subseteq {"processing-steps", "spot-color"}
    BY <1>10 DEF Paint, Finish, vars, Kind, TypeOK
  <2>4. outcome' \in {"none", "processing-steps", "spot-color", "mixed", "error"}
    BY <1>10 DEF Paint, Finish, vars, TypeOK
  <2>5. strayed' \in BOOLEAN
    BY <1>10, Zenon DEF Paint, Finish, vars, TypeOK
  <2> QED BY <2>1, <2>2, <2>3, <2>4, <2>5 DEF TypeOK
<1> QED
  BY <1>1, <1>2, <1>3, <1>4, <1>5, <1>6, <1>7, <1>8, <1>9, <1>10 DEF Next

LEMMA CountInit == Init => CountInv
<1> SUFFICES ASSUME Init PROVE CountInv
  OBVIOUS
<1>1. frames = <<Interpreter(Page)>> /\ Interpreter(Page).bdc = <<>>
  BY InterpreterTyped, CutExtractAssumption DEF Init
<1>2. DOMAIN frames = {1} /\ DOMAIN frames[1].bdc = {}
  BY <1>1
<1>3. \A c : c \notin OpenOf(frames)
  BY <1>2, OpenMember
<1>4. OpenOf(frames) = {}
  BY <1>3
<1> QED BY <1>4, FS_EmptySet DEF Init, CountInv, DepthCounts

-----------------------------------------------------------------------------
(* Every interpreter fits its stream                                       *)

Fits(f) == SectionsFit(f) /\ ColoursFit(f)

FramesFit == \A n \in DOMAIN frames : Fits(frames[n])

LEMMA InterpreterFits ==
  ASSUME NEW r \in ResourceDicts PROVE Fits(Interpreter(r))
<1> DEFINE f == Interpreter(r)
<1>1. /\ f.log = <<>> /\ f.bdc = <<>> /\ f.saved = <<>> /\ f.stroke = {} /\ f.fill = {}
  BY DEF Interpreter
<1> HIDE DEF f
<1>2. f.log \in Seq(Entry) /\ Len(f.log) = 0 /\ Len(f.bdc) = 0 /\ Len(f.saved) = 0
      /\ DOMAIN f.log = {} /\ DOMAIN f.bdc = {}
  BY <1>1
<1>3. Level(f.log, "BDC", "EMC")[0] = 0 /\ Level(f.log, "q", "Q")[0] = 0
  <2>1. "q" # "Q" /\ "BDC" # "EMC"
    OBVIOUS
  <2> QED BY <1>2, <2>1, LevelFacts
<1>4. \A op, open, close : Lasting(f, op, open, close) = {}
  BY <1>2 DEF Lasting
<1>5. SectionsFit(f)
  BY <1>2, <1>3, <1>4 DEF SectionsFit, OpenSections
<1>6. ASSUME NEW c \in Channels, NEW d \in 0..0
      PROVE  HitsTarget(ColoursAt(f, d)[c]) <=> LastIsCut(f, SettersUpTo(f, c, d))
  <2>1. ColoursAt(f, d) = <<{}, {}>>
    BY <1>1, <1>2 DEF ColoursAt, Saved
  <2>2. ~ HitsTarget(ColoursAt(f, d)[c])
    BY <2>1 DEF HitsTarget, Channels
  <2>3. SettersUpTo(f, c, d) = {}
    BY <1>4 DEF SettersUpTo
  <2> QED BY <2>2, <2>3 DEF LastIsCut
<1>7. ColoursFit(f)
  BY <1>2, <1>3, <1>6 DEF ColoursFit
<1> QED BY <1>5, <1>7 DEF Fits, f

(* What an operator does to the running frame, which was g before it.      *)
LEMMA SaysFrame ==
  ASSUME TypeOK, NEW f \in Frame, f.log = Top.log, NEW op \in Ops,
         NEW cut \in BOOLEAN, Says(op, cut, f)
  PROVE  \E g, e :
           /\ frames' = [frames EXCEPT ![Len(frames)] = g]
           /\ Grows(Top, g, e)
           /\ e.op = op /\ e.cut = cut
           /\ g.bdc = f.bdc /\ g.saved = f.saved
           /\ Saved(g) = Saved(f)
<1> DEFINE e == [op |-> op, cut |-> cut]
           g == [f EXCEPT !.log = Append(@, e)]
<1>1. e \in Entry /\ e.op = op /\ e.cut = cut
  BY DEF Entry
<1>2. Top \in Frame /\ f.log \in Seq(Entry)
  BY TopTyped, FrameFields
<1> HIDE DEF e
<1>3. Append(f.log, e) \in Seq(Entry)
  BY <1>1, <1>2
<1>4. /\ g \in Frame /\ g.log = Append(f.log, e)
      /\ g.bdc = f.bdc /\ g.saved = f.saved /\ g.stroke = f.stroke /\ g.fill = f.fill
  BY <1>3 DEF Frame, Entry, Ops
<1>5. frames' = [frames EXCEPT ![Len(frames)] = g]
  BY DEF Says, e
<1> HIDE DEF g
<1>6. Saved(g) = Saved(f)
  BY <1>4 DEF Saved
<1>7. Grows(Top, g, e)
  BY <1>1, <1>2, <1>4 DEF Grows
<1> QED BY <1>1, <1>4, <1>5, <1>6, <1>7

(* It is enough to look at the running frame.                              *)
LEMMA FramesFitWhenTopDoes ==
  ASSUME TypeOK, FramesFit, NEW g, Fits(g),
         frames' = [frames EXCEPT ![Len(frames)] = g]
  PROVE  FramesFit'
<1>1. frames \in Seq(Frame) /\ Len(frames) \in DOMAIN frames
  BY TopTyped DEF TypeOK
<1>2. DOMAIN frames' = DOMAIN frames /\ frames'[Len(frames)] = g
      /\ \A n \in DOMAIN frames \ {Len(frames)} : frames'[n] = frames[n]
  BY <1>1
<1> QED BY <1>2 DEF FramesFit

(* An operator that sets no colour and leaves both stacks alone.           *)
LEMMA PlainFits ==
  ASSUME TypeOK, FramesFit, NEW op \in Ops, NEW cut \in BOOLEAN,
         op \notin {"CS", "cs", "q", "BDC"},
         op = "Q" => Top.saved = <<>>, op = "EMC" => Top.bdc = <<>>,
         Says(op, cut, Top)
  PROVE  FramesFit'
<1>1. Top \in Frame /\ Fits(Top)
  BY TopTyped DEF FramesFit, Top
<1>2. PICK g, e : /\ frames' = [frames EXCEPT ![Len(frames)] = g]
                  /\ Grows(Top, g, e) /\ e.op = op /\ e.cut = cut
                  /\ g.bdc = Top.bdc /\ g.saved = Top.saved /\ Saved(g) = Saved(Top)
  BY <1>1, SaysFrame
<1>3. SectionsFit(g)
  BY <1>1, <1>2, SectionStays DEF Fits, Grows
<1>4. ColoursFit(g)
  BY <1>1, <1>2, ColourStays DEF Fits
<1> QED BY <1>2, <1>3, <1>4, FramesFitWhenTopDoes DEF Fits

(* CS and cs: the frame f has new colorants in one channel.                *)
LEMMA SetterFits ==
  ASSUME TypeOK, FramesFit, NEW c \in Channels, NEW f \in Frame, f.log = Top.log,
         f.bdc = Top.bdc, f.saved = Top.saved,
         \A b \in Channels \ {c} : Saved(f)[b] = Saved(Top)[b],
         Says(Setter(c), HitsTarget(Saved(f)[c]), f)
  PROVE  FramesFit'
<1>1. Top \in Frame /\ Fits(Top)
  BY TopTyped DEF FramesFit, Top
<1> DEFINE op == Setter(c)
           cut == HitsTarget(Saved(f)[c])
<1>2. op \in Ops /\ cut \in BOOLEAN /\ Says(op, cut, f)
  BY DEF Setter, Ops, HitsTarget
<1> HIDE DEF op, cut
<1>3. PICK g, e : /\ frames' = [frames EXCEPT ![Len(frames)] = g]
                  /\ Grows(Top, g, e) /\ e.op = op /\ e.cut = cut
                  /\ g.bdc = f.bdc /\ g.saved = f.saved /\ Saved(g) = Saved(f)
  BY <1>2, SaysFrame
<1>4. SectionsFit(g)
  <2>1. e.op # "BDC" /\ e.op # "EMC"
    BY <1>3 DEF Setter, op
  <2> QED BY <1>1, <1>3, <2>1, SectionStays DEF Fits, Grows
<1>5. ColoursFit(g)
  BY <1>1, <1>3, ColourSet DEF Fits, op, cut
<1> QED BY <1>3, <1>4, <1>5, FramesFitWhenTopDoes DEF Fits

(* q and Q: the frame f differs in its saved colorants and its own.        *)
LEMMA StateFits ==
  ASSUME TypeOK, FramesFit, NEW op \in {"q", "Q"}, NEW f \in Frame, f.log = Top.log,
         NEW cut \in BOOLEAN, f.bdc = Top.bdc, Says(op, cut, f),
         op = "q" => f.saved = Append(Top.saved, Saved(Top)) /\ Saved(f) = Saved(Top),
         op = "Q" => /\ Top.saved # <<>> /\ f.saved = Front(Top.saved)
                     /\ Saved(f)[1] = Last(Top.saved)[1]
                     /\ Saved(f)[2] = Last(Top.saved)[2]
  PROVE  FramesFit'
<1>1. Top \in Frame /\ Fits(Top)
  BY TopTyped DEF FramesFit, Top
<1>2. op \in Ops
  BY DEF Ops
<1>3. PICK g, e : /\ frames' = [frames EXCEPT ![Len(frames)] = g]
                  /\ Grows(Top, g, e) /\ e.op = op
                  /\ g.bdc = f.bdc /\ g.saved = f.saved /\ Saved(g) = Saved(f)
  BY <1>2, SaysFrame
<1>4. SectionsFit(g)
  <2>1. e.op # "BDC" /\ e.op # "EMC"
    BY <1>3
  <2> QED BY <1>1, <1>3, <2>1, SectionStays DEF Fits, Grows
<1>5. ColoursFit(g)
  <2>1. CASE op = "q"
    BY <1>1, <1>3, <2>1, ColourSaved DEF Fits
  <2>2. CASE op = "Q"
    BY <1>1, <1>3, <2>2, ColourRestored DEF Fits
  <2> QED BY <2>1, <2>2
<1> QED BY <1>3, <1>4, <1>5, FramesFitWhenTopDoes DEF Fits

(* BDC and BMC.                                                            *)
LEMMA BeginFits ==
  ASSUME TypeOK, FramesFit, NEW cut \in BOOLEAN,
         Says("BDC", cut, [Top EXCEPT !.bdc = Append(@, cut)])
  PROVE  FramesFit'
<1> DEFINE f == [Top EXCEPT !.bdc = Append(@, cut)]
<1>1. Top \in Frame /\ Fits(Top)
  BY TopTyped DEF FramesFit, Top
<1>2. Append(Top.bdc, cut) \in Seq(BOOLEAN) /\ "BDC" \in Ops
  <2>1. Top.bdc \in Seq(BOOLEAN)
    BY <1>1, FrameFields
  <2> QED BY <2>1 DEF Ops
<1>3. f \in Frame /\ f.bdc = Append(Top.bdc, cut) /\ f.log = Top.log
      /\ f.saved = Top.saved /\ Saved(f) = Saved(Top)
  BY <1>1, <1>2 DEF Frame, Saved
<1>4. Says("BDC", cut, f)
  OBVIOUS
<1> HIDE DEF f
<1>5. PICK g, e : /\ frames' = [frames EXCEPT ![Len(frames)] = g]
                  /\ Grows(Top, g, e) /\ e.op = "BDC" /\ e.cut = cut
                  /\ g.bdc = f.bdc /\ g.saved = f.saved /\ Saved(g) = Saved(f)
  BY <1>2, <1>3, <1>4, SaysFrame
<1>6. SectionsFit(g)
  <2>1. Fits(Top) /\ Grows(Top, g, e) /\ g.bdc = Append(Top.bdc, e.cut) /\ e.op = "BDC"
    BY <1>1, <1>3, <1>5
  <2> QED BY <2>1, SectionBegins DEF Fits, Grows
<1>7. ColoursFit(g)
  BY <1>1, <1>3, <1>5, ColourStays DEF Fits
<1> QED BY <1>5, <1>6, <1>7, FramesFitWhenTopDoes DEF Fits

(* An EMC with its BDC or BMC.                                             *)
LEMMA EndFits ==
  ASSUME TypeOK, FramesFit, Top.bdc # <<>>, NEW cut \in BOOLEAN,
         Says("EMC", cut, [Top EXCEPT !.bdc = Front(@)])
  PROVE  FramesFit'
<1> DEFINE f == [Top EXCEPT !.bdc = Front(@)]
<1>1. Top \in Frame /\ Fits(Top)
  BY TopTyped DEF FramesFit, Top
<1>2. Front(Top.bdc) \in Seq(BOOLEAN) /\ "EMC" \in Ops
  BY <1>1, FrameFields, FrontFacts DEF Ops
<1>3. f \in Frame /\ f.bdc = Front(Top.bdc) /\ f.log = Top.log
      /\ f.saved = Top.saved /\ Saved(f) = Saved(Top)
  BY <1>1, <1>2 DEF Frame, Saved
<1>4. Says("EMC", cut, f)
  OBVIOUS
<1> HIDE DEF f
<1>5. PICK g, e : /\ frames' = [frames EXCEPT ![Len(frames)] = g]
                  /\ Grows(Top, g, e) /\ e.op = "EMC"
                  /\ g.bdc = f.bdc /\ g.saved = f.saved /\ Saved(g) = Saved(f)
  BY <1>2, <1>3, <1>4, SaysFrame
<1>6. SectionsFit(g)
  <2>1. Fits(Top) /\ Grows(Top, g, e) /\ g.bdc = Front(Top.bdc) /\ e.op = "EMC"
    BY <1>1, <1>3, <1>5
  <2> QED BY <2>1, SectionEnds DEF Fits, Grows
<1>7. ColoursFit(g)
  BY <1>1, <1>3, <1>5, ColourStays DEF Fits
<1> QED BY <1>5, <1>6, <1>7, FramesFitWhenTopDoes DEF Fits

LEMMA FitStep ==
  ASSUME TypeOK, FramesFit, [Next]_vars PROVE FramesFit'
<1>0. Top \in Frame
  BY TopTyped
<1>1. CASE SetColorSpace
  <2>1. PICK key \in Keys :
          LET colorants == ColorantsFor(Top.resources, key)
              cut == HitsTarget(colorants)
          IN  \/ Says("CS", cut, [Top EXCEPT !.stroke = colorants])
              \/ Says("cs", cut, [Top EXCEPT !.fill = colorants])
    BY <1>1 DEF SetColorSpace
  <2> DEFINE colorants == ColorantsFor(Top.resources, key)
  <2>2. colorants \in Colorants
    BY <1>0, FrameFields, ColorantsTyped
  <2>3. \/ Says("CS", HitsTarget(colorants), [Top EXCEPT !.stroke = colorants])
        \/ Says("cs", HitsTarget(colorants), [Top EXCEPT !.fill = colorants])
    BY <2>1
  <2> HIDE DEF colorants
  <2>4. CASE Says("CS", HitsTarget(colorants), [Top EXCEPT !.stroke = colorants])
    <3> DEFINE f == [Top EXCEPT !.stroke = colorants]
    <3>1. f \in Frame /\ f.log = Top.log /\ f.bdc = Top.bdc /\ f.saved = Top.saved
          /\ Saved(f) = <<colorants, Top.fill>>
      BY <1>0, <2>2 DEF Frame, Saved
    <3>2. Says("CS", HitsTarget(colorants), f)
      BY <2>4
    <3> HIDE DEF f
    <3>3. 1 \in Channels /\ Setter(1) = "CS" /\ Saved(f)[1] = colorants
          /\ \A b \in Channels \ {1} : Saved(f)[b] = Saved(Top)[b]
      BY <3>1 DEF Channels, Setter, Saved
    <3> QED BY <3>1, <3>2, <3>3, SetterFits
  <2>5. CASE Says("cs", HitsTarget(colorants), [Top EXCEPT !.fill = colorants])
    <3> DEFINE f == [Top EXCEPT !.fill = colorants]
    <3>1. f \in Frame /\ f.log = Top.log /\ f.bdc = Top.bdc /\ f.saved = Top.saved
          /\ Saved(f) = <<Top.stroke, colorants>>
      BY <1>0, <2>2 DEF Frame, Saved
    <3>2. Says("cs", HitsTarget(colorants), f)
      BY <2>5
    <3> HIDE DEF f
    <3>3. 2 \in Channels /\ Setter(2) = "cs" /\ Saved(f)[2] = colorants
          /\ \A b \in Channels \ {2} : Saved(f)[b] = Saved(Top)[b]
      BY <3>1 DEF Channels, Setter, Saved
    <3> QED BY <3>1, <3>2, <3>3, SetterFits
  <2> QED BY <2>3, <2>4, <2>5
<1>2. CASE SetDeviceColor
  BY <1>2, PlainFits DEF SetDeviceColor, Ops
<1>3. CASE SaveState
  <2> DEFINE f == [Top EXCEPT !.saved = Append(@, Saved(Top))]
  <2>1. Append(Top.saved, Saved(Top)) \in Seq(Colorants \X Colorants)
    BY <1>0, FrameFields DEF Saved
  <2>2. f \in Frame /\ f.log = Top.log /\ f.bdc = Top.bdc
        /\ f.saved = Append(Top.saved, Saved(Top)) /\ Saved(f) = Saved(Top)
    BY <1>0, <2>1 DEF Frame, Saved
  <2>3. Says("q", FALSE, f)
    BY <1>3 DEF SaveState
  <2> HIDE DEF f
  <2>4. "q" \in {"q", "Q"} /\ "q" # "Q"
    OBVIOUS
  <2> QED BY <2>2, <2>3, <2>4, StateFits
<1>4. CASE RestoreState
  <2>1. CASE Top.saved = <<>>
    <3>1. Says("Q", FALSE, Top)
      BY <1>4, <2>1 DEF RestoreState
    <3>2. "Q" \in Ops /\ "Q" \notin {"CS", "cs", "q", "BDC"} /\ "Q" # "EMC"
      BY DEF Ops
    <3> QED BY <2>1, <3>1, <3>2, PlainFits
  <2>2. CASE Top.saved # <<>>
    <3> DEFINE f == [Top EXCEPT !.stroke = Last(Top.saved)[1],
                                !.fill = Last(Top.saved)[2],
                                !.saved = Front(Top.saved)]
    <3>1. /\ Last(Top.saved) \in Colorants \X Colorants
          /\ Front(Top.saved) \in Seq(Colorants \X Colorants)
      BY <1>0, <2>2, FrameFields, FrontFacts
    <3>2. Last(Top.saved)[1] \in Colorants /\ Last(Top.saved)[2] \in Colorants
      BY <3>1
    <3>3. f \in Frame /\ f.bdc = Top.bdc /\ f.log = Top.log
          /\ f.saved = Front(Top.saved)
          /\ Saved(f) = <<Last(Top.saved)[1], Last(Top.saved)[2]>>
      BY <1>0, <3>1, <3>2 DEF Frame, Saved
    <3>4. Says("Q", FALSE, f)
      BY <1>4, <2>2 DEF RestoreState
    <3> HIDE DEF f
    <3>5. Saved(f)[1] = Last(Top.saved)[1] /\ Saved(f)[2] = Last(Top.saved)[2]
      BY <3>3
    <3>6. "Q" \in {"q", "Q"} /\ "Q" # "q"
      OBVIOUS
    <3> QED BY <2>2, <3>3, <3>4, <3>5, <3>6, StateFits
  <2> QED BY <2>1, <2>2
<1>5. CASE BeginSection
  <2>1. PICK tag \in {"OC", "other"}, key \in Keys :
          LET isCut == tag = "OC" /\ OcPropsIsCut(Properties[Top.resources][key])
          IN  Says("BDC", isCut, [Top EXCEPT !.bdc = Append(@, isCut)])
    BY <1>5 DEF BeginSection
  <2> DEFINE isCut == tag = "OC" /\ OcPropsIsCut(Properties[Top.resources][key])
  <2>2. isCut \in BOOLEAN
    OBVIOUS
  <2>3. Says("BDC", isCut, [Top EXCEPT !.bdc = Append(@, isCut)])
    BY <2>1
  <2> HIDE DEF isCut
  <2> QED BY <2>2, <2>3, BeginFits
<1>6. CASE BeginMarkedContent
  BY <1>6, BeginFits DEF BeginMarkedContent, MarkedContent
<1>7. CASE EndSection
  <2>1. CASE Top.bdc # <<>>
    BY <1>7, <2>1, EndFits DEF EndSection
  <2>2. CASE Top.bdc = <<>>
    <3>1. Says("EMC", FALSE, Top)
      BY <1>7, <2>2 DEF EndSection
    <3>2. "EMC" \in Ops /\ "EMC" \notin {"CS", "cs", "q", "BDC"} /\ "EMC" # "Q"
      BY DEF Ops
    <3> QED BY <2>2, <3>1, <3>2, PlainFits
  <2> QED BY <2>1, <2>2
<1>8. CASE BeginForm
  <2>1. PICK r \in ResourceDicts : frames' = Append(frames, Interpreter(r))
    BY <1>0, <1>8, FrameFields DEF BeginForm
  <2>2. Fits(Interpreter(r))
    BY InterpreterFits
  <2>3. frames \in Seq(Frame)
    BY DEF TypeOK
  <2>4. \A n \in DOMAIN frames' : \/ n \in DOMAIN frames /\ frames'[n] = frames[n]
                                  \/ frames'[n] = Interpreter(r)
    BY <2>1, <2>3
  <2> QED BY <2>2, <2>4 DEF FramesFit
<1>9. CASE EndForm
  <2>1. frames \in Seq(Frame) /\ frames # <<>>
    BY <1>9 DEF TypeOK, EndForm
  <2>2. \A n \in DOMAIN frames' : n \in DOMAIN frames /\ frames'[n] = frames[n]
    <3>1. DOMAIN frames' = 1..Len(frames) - 1 /\ Len(frames) \in Nat
          /\ \A n \in 1..Len(frames) - 1 : frames'[n] = frames[n]
      BY <1>9, <2>1, FrontFacts DEF EndForm
    <3>2. DOMAIN frames = 1..Len(frames)
      BY <2>1
    <3> QED BY <3>1, <3>2
  <2> QED BY <2>2 DEF FramesFit
<1>10. CASE Paint \/ Finish \/ UNCHANGED vars
  BY <1>10 DEF Paint, Finish, vars, FramesFit
<1> QED
  BY <1>1, <1>2, <1>3, <1>4, <1>5, <1>6, <1>7, <1>8, <1>9, <1>10 DEF Next

-----------------------------------------------------------------------------
(* What is collected and what is cut                                       *)

(* The counter says what the streams say of their sections.                *)
LEMMA LayersFit ==
  ASSUME TypeOK, CountInv, FramesFit PROVE LayersExact
<1>1. \A n \in DOMAIN frames : frames[n] \in Frame /\ SectionsFit(frames[n])
  BY DEF TypeOK, FramesFit, Fits
<1>2. \A n \in DOMAIN frames :
        SectionsInForce(frames[n]) # {} <=> OpenCutSections(frames[n]) # {}
  BY <1>1, SectionsInForceFit
<1>3. InCutSection <=> OpenOf(frames) # {}
  <2>1. InCutSection <=> \E n \in DOMAIN frames : OpenCutSections(frames[n]) # {}
    BY <1>2 DEF InCutSection
  <2>2. \A n \in DOMAIN frames : OpenCutSections(frames[n]) # {} <=>
          \E i \in DOMAIN frames[n].bdc : frames[n].bdc[i]
    BY DEF OpenCutSections
  <2>3. OpenOf(frames) # {} <=> \E c : c \in OpenOf(frames)
    OBVIOUS
  <2>4. OpenOf(frames) # {} <=>
          \E n \in DOMAIN frames : \E i \in DOMAIN frames[n].bdc : frames[n].bdc[i]
    BY <2>3, OpenMember, ZenonT(60)
  <2> QED BY <2>1, <2>2, <2>4
<1>4. Cardinality(OpenOf(frames)) \in Nat
      /\ (Cardinality(OpenOf(frames)) = 0 <=> OpenOf(frames) = {})
  BY FS_CardinalityType, FS_EmptySet DEF CountInv
<1>5. ocCutDepth = leaked + Cardinality(OpenOf(frames)) /\ leaked \in Nat
  BY DEF CountInv, DepthCounts, TypeOK
<1>6. ocCutDepth > 0 <=> OpenOf(frames) # {} \/ leaked > 0
  BY <1>4, <1>5
<1> QED BY <1>3, <1>6 DEF LayersExact, ByLayer

(* The colorants of the running interpreter say what its stream has named. *)
LEMMA NamedFits ==
  ASSUME TypeOK, FramesFit, NEW n \in DOMAIN frames
  PROVE  /\ NamedCut(frames[n], "CS") <=> HitsTarget(frames[n].stroke)
         /\ NamedCut(frames[n], "cs") <=> HitsTarget(frames[n].fill)
<1>1. frames[n] \in Frame /\ ColoursFit(frames[n])
  BY DEF TypeOK, FramesFit, Fits
<1>2. 1 \in Channels /\ 2 \in Channels /\ Setter(1) = "CS" /\ Setter(2) = "cs"
  BY DEF Channels, Setter
<1>3. Saved(frames[n])[1] = frames[n].stroke /\ Saved(frames[n])[2] = frames[n].fill
  BY DEF Saved
<1>4. NamedCut(frames[n], Setter(1)) <=> HitsTarget(Saved(frames[n])[1])
  BY <1>1, <1>2, NamedCutFits
<1>5. NamedCut(frames[n], Setter(2)) <=> HitsTarget(Saved(frames[n])[2])
  BY <1>1, <1>2, NamedCutFits
<1> QED BY <1>2, <1>3, <1>4, <1>5

(* Without device colours, and with callers that have no cut colour in     *)
(* force, a form's colour is what its own stream has named.                *)
LEMMA FollowedCut ==
  ASSUME TypeOK, NEW op, NEW device,
         \A n \in DOMAIN frames : \A i \in DOMAIN frames[n].log :
            frames[n].log[i].op # device,
         \A n \in 1..Len(frames) - 1 : ~ NamedCut(frames[n], op)
  PROVE  TrulyCut(op, device) <=> NamedCut(Top, op)
<1> DEFINE N == Len(frames)
           setters(n) == InForce(frames[n], {op, device})
           cutAt(n) == \E i \in setters(n) : frames[n].log[i].cut
           step == [n \in 1..N |-> [v \in BOOLEAN |->
                      IF setters(n) = {} THEN v ELSE cutAt(n)]]
           Body(f, n) == IF n = 0 THEN FALSE
                         ELSE IF setters(n) = {} THEN f[n - 1] ELSE cutAt(n)
           truly == CHOOSE f : f = [n \in 0..N |-> Body(f, n)]
<1>1. N \in Nat \ {0} /\ DOMAIN frames = 1..N /\ \A n \in 1..N : frames[n] \in Frame
  BY DEF TypeOK
<1>2. ASSUME NEW n \in 1..N
      PROVE  /\ cutAt(n) <=> NamedCut(frames[n], op)
             /\ setters(n) = {} => ~ cutAt(n)
  <2>1. DOMAIN frames[n].log = 1..Len(frames[n].log) /\ Len(frames[n].log) \in Nat
    BY <1>1, <1>2, FrameFields
  <2>2. \A i \in DOMAIN frames[n].log :
          frames[n].log[i].op \in {op, device} <=> frames[n].log[i].op \in {op}
    BY <1>1, <1>2
  <2>3. \A i \in 1..Len(frames[n].log) : \A k \in i + 1..Len(frames[n].log) :
          k \in DOMAIN frames[n].log
    BY <2>1
  <2>4. setters(n) = InForce(frames[n], {op})
    BY <2>1, <2>2, <2>3 DEF InForce
  <2> QED BY <2>4 DEF NamedCut
<1> HIDE DEF setters, cutAt
<1>3. step \in [1..N -> [BOOLEAN -> BOOLEAN]]
  BY DEF cutAt
<1>4. PICK f \in [0..N -> BOOLEAN] : Recurs(f, FALSE, step, N)
  <2> HIDE DEF step, N
  <2>1. N \in Nat
    BY <1>1
  <2>2. ASSUME NEW c \in BOOLEAN PROVE \E f \in [0..N -> BOOLEAN] : Recurs(f, c, step, N)
    BY <1>3, <2>1, RecursionExists
  <2> QED BY <2>2
<1>5. f[0] = FALSE
  BY <1>4 DEF Recurs
<1>6. ASSUME NEW n \in 1..N PROVE f[n] = IF setters(n) = {} THEN f[n - 1] ELSE cutAt(n)
  <2>1. n - 1 \in 0..N
    BY <1>1, <1>6
  <2>2. f[n - 1] \in BOOLEAN
    BY <1>4, <2>1
  <2>3. f[n] = step[n][f[n - 1]]
    BY <1>4, <1>6 DEF Recurs
  <2> HIDE DEF N
  <2> QED BY <2>2, <2>3
<1>7. ASSUME NEW n \in 0..N PROVE f[n] = Body(f, n)
  <2>1. CASE n = 0
    BY <1>5, <2>1
  <2>2. CASE n # 0
    <3>1. n \in 1..N
      BY <1>1, <2>2
    <3> HIDE DEF N
    <3> QED BY <1>6, <2>2, <3>1
  <2> QED BY <2>1, <2>2
<1>8. f = [n \in 0..N |-> Body(f, n)]
  <2> HIDE DEF Body, N
  <2> QED BY <1>4, <1>7
<1>9. truly = [n \in 0..N |-> Body(truly, n)]
  <2> HIDE DEF Body, N
  <2> QED BY <1>8
<1>10. TrulyCut(op, device) <=> truly[N]
  BY DEF TrulyCut, setters, cutAt
<1>11. ASSUME NEW n \in 0..N PROVE truly[n] = Body(truly, n)
  <2> HIDE DEF Body, N, truly
  <2> QED BY <1>9
<1> DEFINE Low == {n \in 0..N - 1 : ~ truly[n]}
<1>12. 0..N - 1 \subseteq Low
  <2> HIDE DEF truly, N
  <2>1. N - 1 \in Nat /\ 0 \in 0..N /\ 0 \in 0..N - 1
    BY <1>1
  <2>2. 0 \in Low
    BY <1>11, <2>1
  <2>3. ASSUME NEW k \in 0..(N - 1) - 1, k \in Low PROVE k + 1 \in Low
    <3>1. k + 1 \in 0..N /\ k + 1 \in 0..N - 1 /\ k + 1 # 0 /\ (k + 1) - 1 = k
          /\ k + 1 \in 1..N /\ k + 1 \in 1..N - 1
      BY <1>1, <2>3
    <3>2. ~ truly[k] /\ ~ cutAt(k + 1)
      BY <1>2, <2>3, <3>1 DEF N
    <3>3. truly[k + 1] = IF setters(k + 1) = {} THEN truly[k] ELSE cutAt(k + 1)
      BY <1>11, <3>1
    <3> QED BY <3>1, <3>2, <3>3
  <2> HIDE DEF Low
  <2> QED BY <2>1, <2>2, <2>3, InductionTo
<1>13. ~ truly[N - 1]
  <2> HIDE DEF truly, N
  <2> QED BY <1>1, <1>12
<1>14. truly[N] = IF setters(N) = {} THEN truly[N - 1] ELSE cutAt(N)
  <2> HIDE DEF truly, N
  <2>1. N \in 0..N /\ N # 0
    BY <1>1
  <2> QED BY <1>11, <2>1
<1>15. truly[N] <=> cutAt(N)
  <2> HIDE DEF truly, N
  <2>1. N \in 1..N
    BY <1>1
  <2> QED BY <1>2, <1>13, <1>14, <2>1
<1>16. cutAt(N) <=> NamedCut(Top, op)
  BY <1>1, <1>2 DEF Top
<1> HIDE DEF truly
<1> QED BY <1>10, <1>15, <1>16

(* Where only CS and cs set colours, the two tests of paint_path are those *)
(* of the PDF.                                                             *)
LEMMA SpotFits ==
  ASSUME TypeOK, FramesFit, Followed, NEW p \in Paints
  PROVE  BySpot(p) <=> TrulySpot(p)
<1>2. Len(frames) \in DOMAIN frames /\ \A n \in 1..Len(frames) - 1 : n \in DOMAIN frames
  BY DEF TypeOK
<1>3. \A n \in 1..Len(frames) - 1 :
        ~ NamedCut(frames[n], "CS") /\ ~ NamedCut(frames[n], "cs")
  BY <1>2, NamedFits DEF Followed
<1>4. \A n \in DOMAIN frames : \A i \in DOMAIN frames[n].log :
        frames[n].log[i].op # "G" /\ frames[n].log[i].op # "g"
  BY DEF Followed
<1>5. TrulyCut("CS", "G") <=> NamedCut(Top, "CS")
  BY <1>3, <1>4, FollowedCut
<1>6. TrulyCut("cs", "g") <=> NamedCut(Top, "cs")
  BY <1>3, <1>4, FollowedCut
<1>7. /\ NamedCut(Top, "CS") <=> HitsTarget(Top.stroke)
      /\ NamedCut(Top, "cs") <=> HitsTarget(Top.fill)
  BY <1>2, NamedFits DEF Top
<1> QED BY <1>5, <1>6, <1>7 DEF BySpot, TrulySpot

LEMMA ContourFits ==
  ASSUME TypeOK, CountInv, FramesFit PROVE ContourExact
<1>1. LayersExact
  BY LayersFit
<1>2. ASSUME Followed, NEW p \in Paints
      PROVE  ByLayer \/ BySpot(p) <=> InCutSection \/ leaked > 0 \/ TrulySpot(p)
  BY <1>1, <1>2, SpotFits DEF LayersExact
<1> QED BY <1>2 DEF ContourExact, CollectsExactlyTheCut

(* As long as no path strayed, what is collected is what was painted; and  *)
(* the outcome names it.                                                   *)
SourceInv == (~ strayed => found = truth) /\ SourceTrue

LEMMA SourceStep ==
  ASSUME TypeOK, CountInv, FramesFit, SourceInv, [Next]_vars PROVE SourceInv'
<1>1. CASE Paint
  <2>1. PICK p \in Paints :
          /\ found' = found \cup Kind(ByLayer, BySpot(p))
          /\ truth' = truth \cup
               IF InCutSection THEN {"processing-steps"}
               ELSE IF TrulySpot(p) THEN {"spot-color"} ELSE {}
    BY <1>1 DEF Paint
  <2>2. ASSUME ~ strayed'
        PROVE  found' = truth'
    <3>1. ~ strayed /\ Followed /\ ~ leaked > 0
      BY <1>1, <2>2, Zenon DEF Paint
    <3>2. ByLayer <=> InCutSection
      BY <3>1, LayersFit DEF LayersExact
    <3>3. BySpot(p) <=> TrulySpot(p)
      BY <3>1, SpotFits
    <3>4. Kind(ByLayer, BySpot(p)) =
            IF InCutSection THEN {"processing-steps"}
            ELSE IF TrulySpot(p) THEN {"spot-color"} ELSE {}
      <4>1. CASE InCutSection
        BY <3>2, <4>1 DEF Kind
      <4>2. CASE ~ InCutSection /\ TrulySpot(p)
        BY <3>2, <3>3, <4>2 DEF Kind
      <4>3. CASE ~ InCutSection /\ ~ TrulySpot(p)
        BY <3>2, <3>3, <4>3 DEF Kind
      <4> QED BY <4>1, <4>2, <4>3
    <3> QED BY <2>1, <3>1, <3>4 DEF SourceInv
  <2>7. outcome' = "none"
    BY <1>1 DEF Paint
  <2> QED BY <2>2, <2>7 DEF SourceInv, SourceTrue
<1>2. CASE Finish
  <2>1. /\ outcome' = CASE Cardinality(found) = 2        -> "mixed"
                        [] found = {"processing-steps"}  -> "processing-steps"
                        [] found = {"spot-color"}        -> "spot-color"
                        [] OTHER                         -> "error"
        /\ found' = found /\ truth' = truth
        /\ ~ strayed' => found = truth
    BY <1>2 DEF Finish, SourceInv
  <2>2. \/ found = {} \/ found = {"processing-steps"} \/ found = {"spot-color"}
        \/ found = {"processing-steps", "spot-color"}
    BY DEF TypeOK
  <2>3. /\ Cardinality({}) = 0 /\ Cardinality({"processing-steps"}) = 1
        /\ Cardinality({"spot-color"}) = 1
    BY FS_EmptySet, FS_Singleton
  <2>4. Cardinality({"processing-steps", "spot-color"}) = 2
    <3>1. IsFiniteSet({"processing-steps"}) /\ Cardinality({"processing-steps"}) = 1
      BY FS_Singleton
    <3>2. {"processing-steps"} \cup {"spot-color"} = {"processing-steps", "spot-color"}
          /\ "spot-color" \notin {"processing-steps"}
      OBVIOUS
    <3>3. Cardinality({"processing-steps"} \cup {"spot-color"}) = 1 + 1
      BY <3>1, <3>2, FS_AddElement
    <3> QED BY <3>2, <3>3
  <2>5. {"processing-steps"} # {"spot-color"}
    OBVIOUS
  <2>6. CASE found = {}
    <3>1. outcome' = "error"
      BY <2>1, <2>3, <2>6
    <3> QED BY <2>1, <2>6, <3>1 DEF SourceInv, SourceTrue
  <2>7. CASE found = {"processing-steps"}
    <3>1. outcome' = "processing-steps"
      BY <2>1, <2>3, <2>7
    <3> QED BY <2>1, <2>7, <3>1 DEF SourceInv, SourceTrue
  <2>8. CASE found = {"spot-color"}
    <3>1. outcome' = "spot-color"
      BY <2>1, <2>3, <2>5, <2>8
    <3> QED BY <2>1, <2>8, <3>1 DEF SourceInv, SourceTrue
  <2>9. CASE found = {"processing-steps", "spot-color"}
    <3>1. outcome' = "mixed"
      BY <2>1, <2>4, <2>9
    <3> QED BY <2>1, <2>9, <3>1 DEF SourceInv, SourceTrue
  <2> QED BY <2>2, <2>6, <2>7, <2>8, <2>9
<1>3. CASE UNCHANGED <<found, truth, outcome, strayed>>
  BY <1>3 DEF SourceInv, SourceTrue
<1>4. CASE ~ Paint /\ ~ Finish
  <2>1. UNCHANGED <<found, truth, outcome, strayed>>
    BY <1>4 DEF Next, vars, SetColorSpace, SetDeviceColor, SaveState, RestoreState,
                BeginSection, BeginMarkedContent, EndSection, BeginForm, EndForm, Says
  <2> QED BY <1>3, <2>1
<1> QED BY <1>1, <1>2, <1>4

(* The invariant: types, the shared counter, every interpreter's stacks,   *)
(* and what has been collected.                                            *)
Inv == TypeOK /\ CountInv /\ FramesFit /\ SourceInv

LEMMA InvInit == Init => Inv
<1> SUFFICES ASSUME Init PROVE Inv
  OBVIOUS
<1>1. frames = <<Interpreter(Page)>> /\ Fits(Interpreter(Page))
  BY InterpreterFits, CutExtractAssumption DEF Init
<1>2. FramesFit
  BY <1>1 DEF FramesFit
<1>3. SourceInv
  BY DEF Init, SourceInv, SourceTrue
<1> QED BY <1>2, <1>3, TypeInit, CountInit DEF Inv

LEMMA InvStep == Inv /\ [Next]_vars => Inv'
BY CountStep, FitStep, SourceStep DEF Inv

-----------------------------------------------------------------------------
(* The theorems                                                            *)

(* Every variable keeps its type, whatever a page and its forms say        *)
(* (cut_extract.py 165-299).                                               *)
THEOREM TypeCorrect == Spec => []TypeOK
<1>1. Init => TypeOK /\ CountInv
  BY TypeInit, CountInit
<1>2. (TypeOK /\ CountInv) /\ [Next]_vars => (TypeOK /\ CountInv)'
  BY CountStep
<1> QED BY <1>1, <1>2, PTL DEF Spec

(* The counter that decides what is a cutting layer is exact for every     *)
(* nesting of streams and every order of their sections                    *)
(* (cut_extract.py 228-263).                                               *)
THEOREM DepthCorrect == Spec => []DepthCounts
<1>1. Init => TypeOK /\ CountInv
  BY TypeInit, CountInit
<1>2. (TypeOK /\ CountInv) /\ [Next]_vars => (TypeOK /\ CountInv)'
  BY CountStep
<1>3. CountInv => DepthCounts
  BY DEF CountInv
<1> QED BY <1>1, <1>2, <1>3, PTL DEF Spec

(* Its sections decide what is a cutting layer: the counter is above zero  *)
(* just while some stream is inside a cutting section by its own BDCs and  *)
(* EMCs, or a form has left one open, however they are nested              *)
(* (cut_extract.py 102, 239-262).                                          *)
THEOREM LayersCorrect == Spec => []LayersExact
<1>1. Inv => LayersExact
  BY LayersFit DEF Inv
<1> QED BY <1>1, InvInit, InvStep, PTL DEF Spec

(* Where only CS and cs set colours, exactly the paths that the PDF paints *)
(* in a cutting layer or a cut colour are collected, for every operator    *)
(* sequence and every nesting of forms (cut_extract.py 101-105, 165-296).  *)
THEOREM ContourCorrect == Spec => []ContourExact
<1>1. Inv => ContourExact
  BY ContourFits DEF Inv
<1> QED BY <1>1, InvInit, InvStep, PTL DEF Spec

(* The source reported is that of the cut paths the PDF paints on the page *)
(* as long as none of its paths is painted where the interpreter is known  *)
(* not to follow the PDF (cut_extract.py 155-159, 323-341).                                      *)
THEOREM SourceCorrect == Spec => []SourceTrue
<1>1. Inv => SourceTrue
  BY DEF Inv, SourceInv
<1> QED BY <1>1, InvInit, InvStep, PTL DEF Spec

=============================================================================
