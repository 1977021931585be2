----------------------------- MODULE CutExtract -----------------------------
(***************************************************************************)
(* The cut contour of a print PDF, found by converters/cut_extract.py.     *)
(*                                                                         *)
(* A _CutInterpreter reads the operators of the page and, for every form   *)
(* XObject it invokes, a new interpreter of the same device reads those of *)
(* the form. Each has its own colorants, its own stack of saved colorants  *)
(* and its own stack of marked-content sections; what they share is        *)
(* oc_cut_depth and the paths collected so far. A painted path is cut when *)
(* it lies in a section of a cutting layer (oc_cut_depth > 0) or is        *)
(* painted with a spot colour of a configured name.                        *)
(*                                                                         *)
(* One step is one operator of the stream. Streams are arbitrary: their    *)
(* q and Q, and BDC and EMC, need not match. Each frame keeps the log of   *)
(* what its stream has said, from which the properties read, as the PDF    *)
(* reference does, what colour and which sections are in force.            *)
(***************************************************************************)
EXTENDS Integers, FiniteSets, Sequences, SequencesExt

CONSTANTS
    Keys,            \* the names operators use for resources
    ResourceDicts,   \* the resource dictionaries of page and forms
    Page,            \* the page's
    ColorSpace,      \* [ResourceDicts -> [Keys -> colour space]]
    Properties,      \* [ResourceDicts -> [Keys -> optional content dictionary]]
    Lower,           \* a colorant's name in lower case
    SpotNames,       \* the configured names of cut colours
    MaxOps,          \* bound: the operators of page and forms, paints aside
    MaxFrames        \* bound: nested streams

ASSUME CutExtractAssumption ==
  /\ Page \in ResourceDicts
  /\ MaxOps \in Nat /\ MaxFrames \in Nat \ {0}
  /\ SpotNames \subseteq DOMAIN Lower
  /\ \A r \in ResourceDicts, k \in Keys : ColorSpace[r][k].names \subseteq DOMAIN Lower

VARIABLES
    frames,      \* the interpreters at work, the running one last
    ocCutDepth,  \* ctx.oc_cut_depth
    found,       \* the kinds of cut paths collected, as ctx counts them
    outcome,     \* the source of the result, or none, or an error
    said,        \* the operators read, paints aside
    leaked,      \* history: cutting sections that forms left open
    truth,       \* history: the kinds of cut paths that the PDF painted
    strayed      \* history: a path was painted where the interpreter does not
                 \* follow the PDF

vars == <<frames, ocCutDepth, found, outcome, said, leaked, truth, strayed>>

-----------------------------------------------------------------------------
(* Optional content: which sections are a cutting layer                    *)

CutProcStepTypes == {"Cutting", "PartialCutting"}

(* Group and type count when they stand in the same dictionary, the OCG or *)
(* its GTS_Metadata.                                                       *)
IsCutOcg(ocg) ==
  \E d \in {ocg.own, ocg.metadata} :
     d.group = "Structural" /\ d.type \in CutProcStepTypes

(* An OCG, or an OCMD that wraps some.                                     *)
OcPropsIsCut(props) ==
  IsCutOcg(props) \/ \E ocg \in props.ocgs : IsCutOcg(ocg)

-----------------------------------------------------------------------------
(* Colour spaces: the colorants a resource name selects                    *)

Top == frames[Len(frames)]

(* The _sep_map of a stream: Separation and DeviceN spaces by their names. *)
ColorantsFor(resources, key) ==
  LET space == ColorSpace[resources][key]
  IN  IF space.family \in {"Separation", "DeviceN"}
      THEN {Lower[n] : n \in space.names}
      ELSE {}

Targets == {Lower[n] : n \in SpotNames}

HitsTarget(colorants) == colorants \cap Targets # {}

-----------------------------------------------------------------------------
(* The operators                                                           *)

Interpreter(resources) ==
  [resources |-> resources, stroke |-> {}, fill |-> {},
   saved |-> <<>>, bdc |-> <<>>, log |-> <<>>]

(* The running interpreter becomes f, and its stream has said op.          *)
Says(op, cut, f) ==
  /\ outcome = "none"
  /\ said < MaxOps
  /\ said' = said + 1
  /\ frames' = [frames EXCEPT ![Len(frames)] =
                  [f EXCEPT !.log = Append(@, [op |-> op, cut |-> cut])]]
  /\ UNCHANGED <<found, outcome, leaked, truth, strayed>>

(* CS and cs.                                                              *)
SetColorSpace ==
  \E key \in Keys :
    LET colorants == ColorantsFor(Top.resources, key)
        cut == HitsTarget(colorants)
    IN  /\ \/ Says("CS", cut, [Top EXCEPT !.stroke = colorants])
           \/ Says("cs", cut, [Top EXCEPT !.fill = colorants])
        /\ UNCHANGED ocCutDepth

(* G, RG, K and g, rg, k select a device colour space. The interpreter     *)
(* takes no note of them.                                                  *)
SetDeviceColor ==
  /\ Says("G", FALSE, Top) \/ Says("g", FALSE, Top)
  /\ UNCHANGED ocCutDepth

(* Mutant: only the stroke colorants are saved.                            *)
SavedStroke(f) == <<f.stroke, {}>>

(* The entry of _colorant_stack.                                           *)
Saved(f) == <<f.stroke, f.fill>>

SaveState ==
  /\ Says("q", FALSE, [Top EXCEPT !.saved = Append(@, Saved(Top))])
  /\ UNCHANGED ocCutDepth

(* A Q without its q is ignored.                                           *)
RestoreState ==
  /\ Says("Q", FALSE,
       IF Top.saved = <<>> THEN Top
       ELSE [Top EXCEPT !.stroke = Last(Top.saved)[1],
                        !.fill = Last(Top.saved)[2],
                        !.saved = Front(Top.saved)])
  /\ UNCHANGED ocCutDepth

(* BDC, whose tag is OC or not.                                            *)
BeginSection ==
  \E tag \in {"OC", "other"}, key \in Keys :
    LET isCut == tag = "OC" /\ OcPropsIsCut(Properties[Top.resources][key])
    IN  /\ Says("BDC", isCut, [Top EXCEPT !.bdc = Append(@, isCut)])
        /\ ocCutDepth' = IF isCut THEN ocCutDepth + 1 ELSE ocCutDepth

(* Mutant: a BMC is not remembered, so that its EMC ends another section.  *)
UnmarkedContent(f) == f

(* A section without properties is never a layer.                          *)
MarkedContent(f) == [f EXCEPT !.bdc = Append(@, FALSE)]

BeginMarkedContent ==
  /\ Says("BDC", FALSE, MarkedContent(Top))
  /\ UNCHANGED ocCutDepth

(* Mutant: the end of a cutting section is not counted.                    *)
DepthStays(f) == ocCutDepth

(* oc_cut_depth after the last section of f has ended.                     *)
DepthAfter(f) == IF Last(f.bdc) THEN ocCutDepth - 1 ELSE ocCutDepth

(* EMC; one without its BDC is ignored.                                    *)
EndSection ==
  \/ /\ Top.bdc # <<>>
     /\ Says("EMC", FALSE, [Top EXCEPT !.bdc = Front(@)])
     /\ ocCutDepth' = DepthAfter(Top)
  \/ /\ Top.bdc = <<>>
     /\ Says("EMC", FALSE, Top)
     /\ UNCHANGED ocCutDepth

(* Do of a form, with resources of its own or with its caller's: another   *)
(* interpreter, fresh but for the device it shares.                        *)
BeginForm ==
  /\ outcome = "none"
  /\ Len(frames) < MaxFrames
  /\ \E resources \in (ResourceDicts \ {Page}) \cup {Top.resources} :
       frames' = Append(frames, Interpreter(resources))
  /\ UNCHANGED <<ocCutDepth, found, outcome, said, leaked, truth, strayed>>

OpenCutSections(f) == {i \in DOMAIN f.bdc : f.bdc[i]}

(* The form's interpreter is dropped with what it has on its stacks.       *)
EndForm ==
  /\ outcome = "none"
  /\ Len(frames) > 1
  /\ frames' = Front(frames)
  /\ leaked' = leaked + Cardinality(OpenCutSections(Top))
  /\ UNCHANGED <<ocCutDepth, found, outcome, said, truth, strayed>>

-----------------------------------------------------------------------------
(* What a stream has in force, read off its log                            *)

(* How many of the opening operators before each position are unmatched.   *)
Level(log, open, close) ==
  LET level[k \in 0..Len(log)] ==
        CASE k = 0               -> 0
          [] k > 0 /\ log[k].op = open  -> level[k - 1] + 1
          [] k > 0 /\ log[k].op = close /\ level[k - 1] > 0 -> level[k - 1] - 1
          [] OTHER               -> level[k - 1]
  IN  level

(* Nothing closes, after position i, what is open there.                   *)
Lasts(level, log, i) == \A k \in i..Len(log) : level[k] >= level[i]

(* The cutting sections a stream has opened and not closed.                *)
SectionsInForce(f) ==
  LET level == Level(f.log, "BDC", "EMC")
  IN  {i \in DOMAIN f.log :
         f.log[i].op = "BDC" /\ f.log[i].cut /\ Lasts(level, f.log, i)}

(* The last of the operators ops whose effect no Q has undone.             *)
InForce(f, ops) ==
  LET level == Level(f.log, "q", "Q")
  IN  {i \in DOMAIN f.log :
         /\ f.log[i].op \in ops
         /\ Lasts(level, f.log, i)
         /\ \A k \in i + 1..Len(f.log) :
              f.log[k].op \in ops => ~ Lasts(level, f.log, k)}

(* The colour space is a cut colour's as the PDF reference has it: device  *)
(* colours replace it, and a form begins with its caller's.                *)
TrulyCut(op, device) ==
  LET cut[n \in 0..Len(frames)] ==
        IF n = 0 THEN FALSE
        ELSE LET setters == InForce(frames[n], {op, device})
             IN  IF setters = {} THEN cut[n - 1]
                 ELSE \E i \in setters : frames[n].log[i].cut
  IN  cut[Len(frames)]

InCutSection == \E n \in DOMAIN frames : SectionsInForce(frames[n]) # {}

(* The streams at work use no device colours, and none was called with a   *)
(* cut colour in force: what the interpreter does not follow.              *)
Followed ==
  /\ \A n \in DOMAIN frames : \A i \in DOMAIN frames[n].log :
       frames[n].log[i].op \notin {"G", "g"}
  /\ \A n \in 1..Len(frames) - 1 :
       ~ HitsTarget(frames[n].stroke) /\ ~ HitsTarget(frames[n].fill)

-----------------------------------------------------------------------------
(* Painting                                                                *)

Paints == {[stroke |-> TRUE, fill |-> FALSE],    \* S s
           [stroke |-> FALSE, fill |-> TRUE],    \* f F f*
           [stroke |-> TRUE, fill |-> TRUE]}     \* B B* b b*

(* What the PDF paints with p is in a cut colour.                          *)
TrulySpot(p) == \/ p.stroke /\ TrulyCut("CS", "G")
                \/ p.fill /\ TrulyCut("cs", "g")

(* _sync_device, and the two tests of paint_path.                          *)
ByLayer == ocCutDepth > 0
BySpot(p) == \/ p.stroke /\ HitsTarget(Top.stroke)
             \/ p.fill /\ HitsTarget(Top.fill)

(* Mutant: a path that is both counts for its colour.                      *)
KindSpotFirst(layer, spot) ==
  IF spot THEN {"spot-color"} ELSE IF layer THEN {"processing-steps"} ELSE {}

(* How a path counts: a layer has priority.                                *)
Kind(layer, spot) ==
  IF layer THEN {"processing-steps"} ELSE IF spot THEN {"spot-color"} ELSE {}

(* A path operator that paints, and leaves no segment when its path is     *)
(* empty.                                                                  *)
Paint ==
  /\ outcome = "none"
  /\ \E p \in Paints :
       /\ found' = found \cup Kind(ByLayer, BySpot(p))
       /\ truth' = truth \cup
            IF InCutSection THEN {"processing-steps"}
            ELSE IF TrulySpot(p) THEN {"spot-color"} ELSE {}
  /\ strayed' = (strayed \/ ~ Followed \/ leaked > 0)
  /\ UNCHANGED <<frames, ocCutDepth, outcome, said, leaked>>

(* extract_cut_segments when the page has been read.                       *)
Finish ==
  /\ outcome = "none"
  /\ Len(frames) = 1
  /\ outcome' = CASE Cardinality(found) = 2        -> "mixed"
                  [] found = {"processing-steps"}  -> "processing-steps"
                  [] found = {"spot-color"}        -> "spot-color"
                  [] OTHER                         -> "error"
  /\ UNCHANGED <<frames, ocCutDepth, found, said, leaked, truth, strayed>>

Init ==
  /\ frames = <<Interpreter(Page)>>
  /\ ocCutDepth = 0
  /\ found = {} /\ outcome = "none"
  /\ said = 0 /\ leaked = 0 /\ truth = {} /\ strayed = FALSE

Next ==
  \/ SetColorSpace \/ SetDeviceColor \/ SaveState \/ RestoreState
  \/ BeginSection \/ BeginMarkedContent \/ EndSection
  \/ BeginForm \/ EndForm \/ Paint \/ Finish

Spec == Init /\ [][Next]_vars

-----------------------------------------------------------------------------
(* Properties                                                              *)

Colorants == SUBSET {Lower[n] : n \in DOMAIN Lower}

Frame ==
  [resources : ResourceDicts, stroke : Colorants, fill : Colorants,
   saved : Seq(Colorants \X Colorants), bdc : Seq(BOOLEAN),
   log : Seq([op : {"q", "Q", "BDC", "EMC", "CS", "cs", "G", "g"},
              cut : BOOLEAN])]

(* Every variable keeps its type; the depth never falls below zero.        *)
TypeOK ==
  /\ frames \in Seq(Frame)
  /\ Len(frames) \in 1..MaxFrames
  /\ ocCutDepth \in Nat
  /\ found \subseteq {"processing-steps", "spot-color"}
  /\ outcome \in {"none", "processing-steps", "spot-color", "mixed", "error"}
  /\ said \in 0..MaxOps
  /\ leaked \in Nat
  /\ truth \subseteq {"processing-steps", "spot-color"}
  /\ strayed \in BOOLEAN

(* The cutting sections on the stacks of a sequence of interpreters.       *)
OpenOf(fs) == UNION {{n} \X OpenCutSections(fs[n]) : n \in DOMAIN fs}

(* The one counter all interpreters share is the number of cutting         *)
(* sections on their stacks, and of those that were dropped with a form's  *)
(* interpreter: nested forms, unmatched and foreign sections included      *)
(* (cut_extract.py 239-262).                                               *)
DepthCounts == ocCutDepth = leaked + Cardinality(OpenOf(frames))

(* A path is cut by its layer exactly while some open stream is inside a   *)
(* cutting section by its own BDCs and EMCs, or a form that has ended left *)
(* one open: other sections, whatever their order, change nothing          *)
(* (cut_extract.py 102, 239-262).                                          *)
LayersExact == ByLayer <=> InCutSection \/ leaked > 0

CollectsExactlyTheCut ==
  \A p \in Paints :
    ByLayer \/ BySpot(p) <=> InCutSection \/ leaked > 0 \/ TrulySpot(p)

(* Where only CS and cs set colours, every stroke and fill is collected    *)
(* exactly when the PDF paints it in a cutting layer or in a cut colour,   *)
(* through any nesting of q, Q, sections and forms with resources of their *)
(* own (cut_extract.py 101-105, 165-296).                                  *)
ContourExact == Followed => CollectsExactlyTheCut

(* What the module's docstring says of every page: a path is cut when it   *)
(* is stroked or filled in the colour space of a cut colour                *)
(* (cut_extract.py 9-11).                                                  *)
SpotMeansCut == CollectsExactlyTheCut

(* The source that is reported names the kinds of cut paths the PDF        *)
(* painted on the page, and a page without any is an error, unless some    *)
(* path was painted under a device colour, in a form called with a cut     *)
(* colour in force, or after a form that left its section open             *)
(* (cut_extract.py 155-159, 323-341).                                      *)
SourceTrue ==
  ~ strayed =>
    CASE outcome = "none"   -> TRUE
      [] outcome = "mixed"  -> truth = {"processing-steps", "spot-color"}
      [] outcome = "error"  -> truth = {}
      [] OTHER              -> truth = {outcome}

=============================================================================
