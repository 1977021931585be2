------------------------- MODULE PrintPrepare_proofs -------------------------
(***************************************************************************)
(* Proofs about PrintPrepare, for every set of designs and callers and for *)
(* every choice of faults: Inv is inductive, so that a sheet always finds  *)
(* its job, and where submitters name no code of the minted space, a       *)
(* minted barcode is never another design's.                               *)
(***************************************************************************)
EXTENDS PrintPrepare, SequenceTheorems, TLAPS

(* A submission is one; its code is one the submitter may name.            *)
LEMMA Submitted ==
  ASSUME PrintPrepareAssumption, NEW d \in Designs, NEW c \in NamedCodes \cup {NoCode}
  PROVE  /\ Submit(d, c) \in Submission
         /\ Submit(d, c).named => Submit(d, c).code \in NamedCodes
  BY DEF Submit, Submission, Codes

(* What is about to be registered has a barcode.                           *)
LEMMA HasCode ==
  ASSUME PrintPrepareAssumption, Inv, NEW p \in Processes, Prepared(p)
  PROVE  work[p] \in Artifact
  <1>1. work[p].code # NoCode
    <2>1. CASE work[p].named
      BY <2>1 DEF Inv, NameInv, PrintPrepareAssumption
    <2>2. CASE ~ work[p].named
      <3>1. work[p].code \in 1..counter
        BY <2>2 DEF Inv, CodeInv, Minted, InUse
      <3>2. counter \in Nat
        BY DEF Inv, TypeOK, PrintPrepareAssumption
      <3> QED  BY <3>1, <3>2 DEF PrintPrepareAssumption
    <2> QED  BY <2>1, <2>2
  <1>2. work[p] \in Submission
    BY DEF Inv, TypeOK
  <1> QED  BY <1>1, <1>2 DEF Submission, Artifact

LEMMA InvInit == ASSUME PrintPrepareAssumption, Init PROVE Inv
  <1>1. TypeOK
    <2>1. (CHOOSE d \in Designs : TRUE) \in Designs
      BY DEF PrintPrepareAssumption
    <2>2. work \in [Processes -> Submission]
      BY <2>1, Submitted DEF Init
    <2>3. jobs \in Seq(Artifact)
      BY EmptySeq DEF Init
    <2>4. counter \in 0..MaxMints
      <3>1. counter = 0
        BY DEF Init
      <3>2. MaxMints \in Nat
        BY DEF PrintPrepareAssumption
      <3> QED  BY <3>1, <3>2
    <2> QED  BY <2>2, <2>3, <2>4 DEF Init, TypeOK
  <1>2. LockInv /\ CodeInv /\ RegisteredInv
    <2>1. DOMAIN jobs = {}
      <3>1. jobs = <<>>
        BY DEF Init
      <3> QED  BY <3>1
    <2>2. \A p \in Processes : pc[p] = "idle" /\ lock # p
      BY DEF PrintPrepareAssumption, Init
    <2>3. LockInv
      BY <2>2 DEF LockInv, Init
    <2>4. CodeInv /\ RegisteredInv
      BY <2>1, <2>2 DEF Init, CodeInv, RegisteredInv, Minted, Prepared
    <2> QED  BY <2>3, <2>4
  <1>3. NameInv
    <2>1. \A p \in Processes : ~ work[p].named
      BY DEF Init, Submit
    <2>2. DOMAIN jobs = {} /\ inbox = {}
      <3>1. jobs = <<>> /\ inbox = {}
        BY DEF Init
      <3> QED  BY <3>1
    <2> QED  BY <2>1, <2>2 DEF NameInv
  <1> QED  BY <1>1, <1>2, <1>3 DEF Inv

(* Every variable keeps its type.                                          *)
LEMMA TypeStep ==
  ASSUME PrintPrepareAssumption, Inv, [Next]_vars
  PROVE  TypeOK'
  <1> USE PrintPrepareAssumption DEF PrintPrepareAssumption
  <1>1. TypeOK /\ LockInv /\ NameInv /\ CodeInv
    BY DEF Inv
  <1>2. ASSUME NEW d \in Designs, Drop(d) PROVE TypeOK'
    <2>1. inbox' \subseteq Submission
      BY <1>1, <1>2, Submitted DEF TypeOK, Drop
    <2> QED  BY <1>1, <1>2, <2>1 DEF TypeOK, Drop, storeVars
  <1>3. ASSUME NEW p \in Callers, NEW d \in Designs, Call(p, d) PROVE TypeOK'
    <2>1. work' \in [Processes -> Submission]
      BY <1>1, <1>3, Submitted DEF TypeOK, Call, Processes
    <2> QED  BY <1>1, <1>3, <2>1 DEF TypeOK, Call, Goto, storeVars, fileVars, Processes
  <1>4. CASE PickFile
    BY <1>1, <1>4 DEF TypeOK, PickFile, Goto, storeVars, fileVars, Processes
  <1>5. ASSUME NEW p \in Processes, Prepare(p) PROVE TypeOK'
    <2>1. CASE Extract(p)
      BY <1>1, <2>1 DEF TypeOK, Extract, Goto, Fail, storeVars, fileVars
    <2>2. CASE BumpCounter(p)
      BY <1>1, <2>2 DEF TypeOK, BumpCounter, Goto, fileVars
    <2>3. CASE FetchCounter(p)
      <3>1. counter > CodeSpace \/ counter \in 1..CodeSpace
        <4>1. counter > 0 /\ counter \in Nat
          BY <1>1, <2>3 DEF TypeOK, FetchCounter, LockInv
        <4> QED  BY <4>1
      <3>2. work' \in [Processes -> Submission]
        <4>1. counter \in 1..CodeSpace => [work[p] EXCEPT !.code = counter] \in Submission
          BY <1>1 DEF TypeOK, Submission, Codes
        <4>2. counter \in Nat /\ CodeSpace \in Nat
          BY <1>1 DEF TypeOK
        <4> QED  BY <1>1, <2>3, <3>1, <4>1, <4>2 DEF TypeOK, FetchCounter
      <3> QED  BY <1>1, <2>3, <3>2 DEF TypeOK, FetchCounter, Goto, Fail, fileVars
    <2>4. CASE Layout(p)
      BY <1>1, <2>4 DEF TypeOK, Layout, Proceed, Order, Goto, Fail, storeVars, fileVars
    <2>5. CASE Insert(p)
      <3>1. work[p] \in Artifact
        BY <2>5, HasCode DEF Insert, Prepared
      <3>2. jobs' \in Seq(Artifact)
        BY <1>1, <2>5, <3>1 DEF TypeOK, Insert
      <3> QED  BY <1>1, <2>5, <3>2 DEF TypeOK, Insert, Proceed, Order, Goto, Fail, fileVars
    <2>6. CASE Release(p)
      <3>1. work[p] \in Artifact
        BY <2>6, HasCode DEF Release, Prepared
      <3> QED  BY <1>1, <2>6, <3>1
                 DEF TypeOK, Release, Proceed, Order, Goto, Fail, storeVars, fileVars
    <2> QED  BY <1>5, <2>1, <2>2, <2>3, <2>4, <2>5, <2>6 DEF Prepare
  <1>6. CASE MoveAway
    BY <1>1, <1>6 DEF TypeOK, MoveAway, Goto, Fail, FilesOf, Submission, storeVars, Processes
  <1>7. CASE HandleError
    BY <1>1, <1>7 DEF TypeOK, HandleError, Goto, FilesOf, Submission, storeVars, Processes
  <1>8. CASE Crash
    <2>1. Folder \in Processes /\ work[Folder].design \in Designs
      BY <1>1 DEF TypeOK, Submission, Processes
    <2>2. spoilt' \subseteq Designs
      BY <1>1, <1>8, <2>1 DEF TypeOK, Crash
    <2> QED  BY <1>1, <1>8, <2>2 DEF TypeOK, Crash, fileVars
  <1>9. CASE UNCHANGED vars
    BY <1>1, <1>9 DEF TypeOK, vars, fileVars, storeVars
  <1> QED  BY <1>2, <1>3, <1>4, <1>5, <1>6, <1>7, <1>8, <1>9 DEF Next, Worker, Processes

(* A step that leaves the store alone, in which no thread enters fetch or  *)
(* what follows it, and in which a thread that has prepared something      *)
(* keeps it, changes nothing about locks and codes.                        *)
LEMMA CodeFrame ==
  ASSUME Inv, UNCHANGED storeVars,
         \A p \in Processes : pc'[p] = "fetch" <=> pc[p] = "fetch",
         \A p \in Processes : Prepared(p)' =>
           /\ work'[p] = work[p]
           /\ Prepared(p) \/ work[p].named
           /\ pc[p] \in {"release", "moveAway"} => pc'[p] \in {"release", "moveAway"}
  PROVE  LockInv' /\ CodeInv'
  <1>1. LockInv'
    BY DEF Inv, LockInv, storeVars
  <1>2. \A p \in Processes : Minted(p)' => Minted(p) /\ work'[p] = work[p]
    BY DEF Minted
  <1>3. CodeInv'
    BY <1>2 DEF Inv, CodeInv, InUse, storeVars, Minted
  <1> QED  BY <1>1, <1>3

LEMMA SubmitStep ==
  ASSUME PrintPrepareAssumption, Inv,
         \/ \E d \in Designs : Drop(d)
         \/ \E p \in Callers, d \in Designs : Call(p, d)
         \/ PickFile
  PROVE  LockInv' /\ NameInv' /\ CodeInv' /\ RegisteredInv'
  <1>1. ASSUME NEW d \in Designs, Drop(d)
        PROVE  LockInv' /\ NameInv' /\ CodeInv' /\ RegisteredInv'
    <2>1. LockInv' /\ CodeInv' /\ RegisteredInv'
      BY <1>1 DEF Drop, Inv, LockInv, CodeInv, RegisteredInv, InUse, Minted, Prepared, storeVars
    <2>2. NameInv'
      BY <1>1, Submitted DEF Drop, Inv, NameInv, storeVars
    <2> QED  BY <2>1, <2>2
  <1>2. ASSUME NEW p \in Processes, NEW s,
               pc[p] = "idle", pc' = [pc EXCEPT ![p] = "extract"],
               work' = [work EXCEPT ![p] = s], s.named => s.code \in NamedCodes,
               UNCHANGED <<fileVars, storeVars, sheets>>
        PROVE  LockInv' /\ NameInv' /\ CodeInv' /\ RegisteredInv'
    <2>1. \A q \in Processes : q # p => pc'[q] = pc[q] /\ work'[q] = work[q]
      BY <1>2 DEF Inv, TypeOK
    <2>2. pc'[p] = "extract" /\ work'[p] = s
      BY <1>2 DEF Inv, TypeOK
    <2>3. LockInv' /\ CodeInv'
      BY <1>2, <2>1, <2>2, CodeFrame DEF Prepared
    <2>4. NameInv'
      BY <1>2, <2>1, <2>2 DEF Inv, NameInv, fileVars, storeVars
    <2>5. RegisteredInv'
      BY <1>2, <2>1, <2>2 DEF Inv, RegisteredInv, storeVars
    <2> QED  BY <2>3, <2>4, <2>5
  <1>3. ASSUME NEW p \in Callers, NEW d \in Designs, Call(p, d)
        PROVE  LockInv' /\ NameInv' /\ CodeInv' /\ RegisteredInv'
    BY <1>2, <1>3, Submitted DEF Call, Goto, Processes
  <1>4. CASE PickFile
    BY <1>2, <1>4 DEF PickFile, Goto, Processes, Inv, NameInv
  <1> QED  BY <1>1, <1>3, <1>4

(* The steps of prepare_print.                                             *)
LEMMA PrepareStep ==
  ASSUME PrintPrepareAssumption, Inv, NEW p \in Processes, Prepare(p)
  PROVE  LockInv' /\ NameInv' /\ CodeInv' /\ RegisteredInv'
  <1>1. UNCHANGED inbox /\ \A q \in Processes : q # p => pc'[q] = pc[q] /\ work'[q] = work[q]
    BY DEF Prepare, Extract, BumpCounter, FetchCounter, Layout, Insert, Release,
           Goto, Fail, Proceed, Inv, TypeOK, fileVars
  <1>2. CASE Extract(p)
    <2>1. work' = work /\ UNCHANGED <<storeVars, sheets>> /\ pc[p] = "extract"
      BY <1>2 DEF Extract
    <2>2. \/ pc'[p] = "mint" /\ ~ work[p].named
          \/ pc'[p] \in {"idle", "error"}
          \/ pc'[p] = "layout" /\ work[p].named
      BY <1>2 DEF Extract, Goto, Fail, Inv, TypeOK
    <2>3. LockInv' /\ CodeInv'
      BY <1>1, <2>1, <2>2, CodeFrame DEF Prepared
    <2>4. NameInv' /\ RegisteredInv'
      BY <1>1, <2>1, <2>2 DEF Inv, NameInv, RegisteredInv, storeVars
    <2> QED  BY <2>3, <2>4
  <1>3. CASE BumpCounter(p)
    <2>1. /\ work' = work /\ jobs' = jobs /\ sheets' = sheets
          /\ lock = Nobody /\ lock' = p /\ counter' = counter + 1 /\ counter \in Nat
          /\ pc[p] = "mint" /\ pc'[p] = "fetch"
      BY <1>3 DEF BumpCounter, LockIsFree, Goto, Inv, TypeOK
    <2>2. LockInv'
      BY <1>1, <2>1 DEF Inv, LockInv, PrintPrepareAssumption
    <2>3. \A q \in Processes : Minted(q)' => Minted(q) /\ q # p
      BY <1>1, <2>1 DEF Minted, Prepared
    <2>4. \A c : InUse(c) => InUse(c)'
      BY <2>1 DEF InUse
    <2>5. CodeInv'
      BY <1>1, <2>1, <2>3, <2>4 DEF Inv, CodeInv
    <2>6. NameInv' /\ RegisteredInv'
      BY <1>1, <2>1 DEF Inv, NameInv, RegisteredInv
    <2> QED  BY <2>2, <2>5, <2>6
  <1>4. CASE FetchCounter(p)
    <2>1. /\ jobs' = jobs /\ sheets' = sheets /\ counter' = counter /\ counter \in Nat
          /\ lock = p /\ lock' = Nobody /\ pc[p] = "fetch" /\ counter > 0
          /\ lock # Nobody
      BY <1>4 DEF FetchCounter, Inv, TypeOK, LockInv, PrintPrepareAssumption
    <2>2. \/ /\ pc'[p] = "layout" /\ work'[p].code = counter
             /\ work'[p].named = work[p].named
          \/ pc'[p] \in {"idle", "error"} /\ work' = work
      BY <1>4 DEF FetchCounter, Goto, Fail, Inv, TypeOK, Submission
    <2>3. LockInv'
      BY <1>1, <2>1, <2>2 DEF Inv, LockInv, PrintPrepareAssumption
    <2>4. \A c : InUse(c) => InUse(c)' /\ c # counter
      BY <2>1 DEF InUse
    <2>5. \A q \in Processes : q # p => (Minted(q)' <=> Minted(q))
      BY <1>1 DEF Minted, Prepared
    <2>6. CodeInv'
      BY <1>1, <2>1, <2>2, <2>4, <2>5 DEF Inv, CodeInv, Minted, Prepared, InUse
    <2>7. ~ work[p].named
      BY <2>1 DEF Inv, NameInv
    <2>8. NameInv' /\ RegisteredInv'
      BY <1>1, <2>1, <2>2, <2>7 DEF Inv, NameInv, RegisteredInv
    <2> QED  BY <2>3, <2>6, <2>8
  <1>5. CASE Layout(p)
    <2>1. work' = work /\ UNCHANGED <<storeVars, sheets>> /\ pc[p] = "layout"
      BY <1>5 DEF Layout
    <2>2. pc'[p] \in {"insert", "idle", "error"}
      BY <1>5 DEF Layout, Goto, Fail, Proceed, Order, Inv, TypeOK
    <2>3. LockInv' /\ CodeInv'
      BY <1>1, <2>1, <2>2, CodeFrame DEF Prepared
    <2>4. NameInv' /\ RegisteredInv'
      BY <1>1, <2>1, <2>2 DEF Inv, NameInv, RegisteredInv, storeVars
    <2> QED  BY <2>3, <2>4
  <1>6. CASE Insert(p)
    <2>1. work' = work /\ counter' = counter /\ lock' = lock /\ sheets' = sheets /\ pc[p] = "insert"
      BY <1>6 DEF Insert
    <2>2. CASE jobs' = jobs /\ pc'[p] \in {"idle", "error"}
      <3>1. LockInv' /\ CodeInv'
        BY <1>1, <2>1, <2>2, CodeFrame DEF Prepared, storeVars
      <3>2. NameInv' /\ RegisteredInv'
        BY <1>1, <2>1, <2>2 DEF Inv, NameInv, RegisteredInv
      <3> QED  BY <3>1, <3>2
    <2>3. CASE jobs' = Append(jobs, work[p]) /\ pc'[p] = "release"
      <3> DEFINE n == Len(jobs) + 1
      <3>1. /\ DOMAIN jobs = 1..Len(jobs) /\ Len(jobs) \in Nat
            /\ DOMAIN jobs' = 1..n /\ n \in DOMAIN jobs' /\ jobs'[n] = work[p]
            /\ \A i \in DOMAIN jobs : jobs'[i] = jobs[i]
            /\ DOMAIN jobs \subseteq DOMAIN jobs' /\ pc'[p] = "release"
        BY <2>3 DEF Inv, TypeOK
      <3>2. \A i \in DOMAIN jobs' : i \in DOMAIN jobs \/ i = n
        BY <3>1
      <3> HIDE DEF n
      <3>3. LockInv'
        BY <1>1, <2>1, <2>3 DEF Inv, LockInv
      <3>4. NameInv'
        BY <1>1, <2>1, <3>1, <3>2 DEF Inv, NameInv
      <3>5. \A q \in Processes : Minted(q)' <=> Minted(q)
        BY <1>1, <2>1, <2>3 DEF Minted, Prepared
      <3>6. \A c : InUse(c)' <=> InUse(c)
        BY <2>1 DEF InUse
      <3>7. ~ work[p].named => Minted(p)
        BY <2>1 DEF Minted, Prepared
      <3>8. \A i \in DOMAIN jobs : ~ jobs[i].named /\ ~ work[p].named => jobs[i].code # work[p].code
        BY <2>1, <3>7 DEF Inv, CodeInv
      <3>9. CodeInv'
        BY <1>1, <2>1, <2>3, <3>1, <3>2, <3>5, <3>6, <3>7, <3>8 DEF Inv, CodeInv
      <3>10. RegisteredInv'
        <4>1. \A q \in Processes :
                pc'[q] = "release" => \E i \in DOMAIN jobs' : jobs'[i] = work'[q]
          <5>1. TAKE q \in Processes
          <5>2. CASE q = p
            BY <2>1, <3>1, <5>2
          <5>3. CASE q # p
            BY <1>1, <3>1, <5>3 DEF Inv, RegisteredInv
          <5> QED  BY <5>2, <5>3
        <4>2. \A s \in sheets' : \E i \in DOMAIN jobs' : jobs'[i] = s
          BY <2>1, <3>1 DEF Inv, RegisteredInv
        <4> QED  BY <4>1, <4>2 DEF RegisteredInv
      <3> QED  BY <3>3, <3>4, <3>9, <3>10
    <2> QED  BY <1>6, <2>2, <2>3 DEF Insert, Goto, Fail, Proceed, Order, Inv, TypeOK
  <1>7. CASE Release(p)
    <2>1. work' = work /\ UNCHANGED storeVars /\ pc[p] = "release"
      BY <1>7 DEF Release
    <2>2. pc'[p] \in {"moveAway", "idle", "error"} /\ sheets' \subseteq sheets \cup {work[p]}
      BY <1>7 DEF Release, Goto, Fail, Proceed, Order, Inv, TypeOK
    <2>3. LockInv' /\ CodeInv'
      BY <1>1, <2>1, <2>2, CodeFrame DEF Prepared
    <2>4. NameInv'
      BY <1>1, <2>1, <2>2 DEF Inv, NameInv, storeVars
    <2>5. RegisteredInv'
      BY <1>1, <2>1, <2>2 DEF Inv, RegisteredInv, storeVars
    <2> QED  BY <2>3, <2>4, <2>5
  <1> QED  BY <1>2, <1>3, <1>4, <1>5, <1>6, <1>7 DEF Prepare

LEMMA InvStep == ASSUME PrintPrepareAssumption, Inv, [Next]_vars PROVE Inv'
  <1>1. TypeOK'
    BY TypeStep
  <1>2. LockInv' /\ NameInv' /\ CodeInv' /\ RegisteredInv'
    <2>1. CASE \/ \E d \in Designs : Drop(d) \/ \E p \in Callers : Call(p, d)
               \/ PickFile
      BY <2>1, SubmitStep
    <2>2. ASSUME NEW p \in Processes, Prepare(p)
          PROVE  LockInv' /\ NameInv' /\ CodeInv' /\ RegisteredInv'
      BY <2>2, PrepareStep
    <2>3. CASE MoveAway \/ HandleError
      <3>1. /\ work' = work /\ UNCHANGED <<storeVars, sheets>> /\ inbox' \subseteq inbox
            /\ pc[Folder] \in {"moveAway", "error"} /\ pc'[Folder] \in {"idle", "error"}
            /\ \A q \in Processes : q # Folder => pc'[q] = pc[q]
        BY <2>3 DEF MoveAway, HandleError, Goto, Fail, Processes, Inv, TypeOK
      <3>2. LockInv' /\ CodeInv'
        BY <3>1, CodeFrame DEF Prepared
      <3>3. NameInv' /\ RegisteredInv'
        BY <3>1 DEF Inv, NameInv, RegisteredInv, storeVars
      <3> QED  BY <3>2, <3>3
    <2>4. CASE Crash
      <3>1. /\ work' = work /\ jobs' = jobs /\ counter' = counter /\ sheets' = sheets
            /\ inbox' = inbox /\ lock' = Nobody /\ \A q \in Processes : pc'[q] = "idle"
        BY <2>4 DEF Crash, fileVars
      <3>2. LockInv'
        BY <3>1 DEF LockInv, PrintPrepareAssumption
      <3>3. \A c : InUse(c) => InUse(c)'
        BY <3>1 DEF InUse
      <3>4. CodeInv'
        BY <3>1, <3>3 DEF Inv, CodeInv, Minted, Prepared
      <3>5. NameInv' /\ RegisteredInv'
        BY <3>1 DEF Inv, NameInv, RegisteredInv
      <3> QED  BY <3>2, <3>4, <3>5
    <2>5. CASE UNCHANGED vars
      BY <2>5 DEF vars, storeVars, fileVars, Inv, LockInv, NameInv, CodeInv, RegisteredInv,
                  InUse, Minted, Prepared
    <2> QED  BY <2>1, <2>2, <2>3, <2>4, <2>5 DEF Next, Worker, Processes
  <1> QED  BY <1>1, <1>2 DEF Inv

(* Types, locks, codes and registrations are as Inv says in every state,   *)
(* whatever fails and however often the process dies (storage.py 60-128,   *)
(* print_prepare.py 71-157).                                               *)
THEOREM SafetyCorrect ==
  ASSUME PrintPrepareAssumption
  PROVE  Spec => []Inv
  <1>1. Init => Inv
    BY InvInit
  <1>2. Inv /\ [Next]_vars => Inv'
    BY InvStep
  <1> QED  BY <1>1, <1>2, PTL DEF Spec

(* Every sheet that was handed out finds its job (print_prepare.py         *)
(* 135-148).                                                               *)
THEOREM RegistrationCorrect ==
  ASSUME PrintPrepareAssumption
  PROVE  Spec => []SheetsAreRegistered
  <1>1. Inv => SheetsAreRegistered
    BY DEF Inv, RegisteredInv, SheetsAreRegistered
  <1> QED  BY <1>1, SafetyCorrect, PTL

(* Where no submitter names a code of the minted space, a minted barcode   *)
(* is that of one design (storage.py 60-85).                               *)
THEOREM MintingCorrect ==
  ASSUME PrintPrepareAssumption, \A c \in NamedCodes : c \notin Nat
  PROVE  Spec => []MintedOnce
  <1>1. Inv => MintedOnce
    <2> SUFFICES ASSUME Inv, NEW i \in DOMAIN jobs, NEW j \in DOMAIN jobs,
                        jobs[i].code = jobs[j].code, ~ jobs[i].named
                 PROVE  jobs[i].design = jobs[j].design
      BY DEF MintedOnce
    <2>1. jobs[i].code \in Nat
      BY DEF Inv, CodeInv, InUse, TypeOK
    <2>2. ~ jobs[j].named
      BY <2>1 DEF Inv, NameInv
    <2> QED  BY <2>2 DEF Inv, CodeInv
  <1> QED  BY <1>1, SafetyCorrect, PTL

-----------------------------------------------------------------------------
(* A design makes one job.  A design is submitted once; after that it is   *)
(* with a file, with the thread that works on it, or done with.            *)

HasJob(d) == \E i \in DOMAIN jobs : jobs[i].design = d
Busy(p) == pc[p] # "idle"
Unregistered(p) == pc[p] \in {"extract", "mint", "fetch", "layout", "insert"}
BusyWith(p, d) == Busy(p) /\ work[p].design = d

UnusedInv ==
  \A d \in unused :
    /\ ~ HasJob(d)
    /\ \A p \in Processes : ~ BusyWith(p, d)
    /\ \A f \in inbox : f.design # d

(* One thread works on a design, and only the worker on one in the inbox.  *)
AloneInv ==
  /\ \A p, q \in Processes : Busy(p) /\ Busy(q) /\ p # q => work[p].design # work[q].design
  /\ \A p \in Callers, f \in inbox : ~ BusyWith(p, f.design)

(* What may still become a job is none yet, unless it was left behind.     *)
FreshInv ==
  /\ \A p \in Processes :
       Unregistered(p) /\ work[p].design \notin spoilt => ~ HasJob(work[p].design)
  /\ \A f \in inbox :
       f.design \notin spoilt /\ ~ BusyWith(Folder, f.design) => ~ HasJob(f.design)

OnceInv == UnusedInv /\ AloneInv /\ FreshInv /\ TwiceOnlyIfSpoilt

LEMMA OnceInit == ASSUME PrintPrepareAssumption, Init PROVE OnceInv
  <1>1. jobs = <<>> /\ inbox = {} /\ \A p \in Processes : ~ Busy(p)
    BY DEF Init, Busy
  <1>2. DOMAIN jobs = {}
    BY <1>1
  <1>3. \A d : ~ HasJob(d)
    BY <1>2 DEF HasJob
  <1>4. \A p \in Processes : ~ Unregistered(p)
    BY <1>1 DEF Busy, Unregistered
  <1> QED  BY <1>1, <1>2, <1>3, <1>4
             DEF OnceInv, UnusedInv, AloneInv, FreshInv, TwiceOnlyIfSpoilt, BusyWith

(* A step in which threads only go on with their work or end it, and files *)
(* only leave the inbox, keeps the invariant, when a file whose thread has *)
(* ended is gone or counts as left behind.                                 *)
LEMMA OnceFrame ==
  ASSUME Inv, OnceInv,
         work' = work \/ \E p \in Processes : \E c : work' = [work EXCEPT ![p].code = c],
         jobs' = jobs, unused' = unused, inbox' \subseteq inbox, spoilt \subseteq spoilt',
         \A p \in Processes : Busy(p)' => Busy(p),
         \A p \in Processes : Unregistered(p)' => Unregistered(p),
         \A f \in inbox' :
           BusyWith(Folder, f.design) => Busy(Folder)' \/ f.design \in spoilt'
  PROVE  OnceInv'
  <1>1. \A p \in Processes : work'[p].design = work[p].design
    BY DEF Inv, TypeOK, Submission
  <1>2. \A d : HasJob(d)' <=> HasJob(d)
    BY DEF HasJob
  <1>3. \A p \in Processes : \A d : BusyWith(p, d)' => BusyWith(p, d)
    BY <1>1 DEF BusyWith
  <1>4. UnusedInv'
    BY <1>2, <1>3 DEF OnceInv, UnusedInv
  <1>5. AloneInv'
    BY <1>1, <1>3, Zenon DEF OnceInv, AloneInv, Processes
  <1>6. FreshInv'
    <2>1. \A p \in Processes :
            Unregistered(p)' /\ (work[p].design \notin spoilt)' => ~ HasJob(work[p].design)'
      BY <1>1, <1>2 DEF OnceInv, FreshInv
    <2>2. ASSUME NEW f \in inbox', f.design \notin spoilt', ~ BusyWith(Folder, f.design)'
          PROVE  ~ HasJob(f.design)'
      <3>1. ~ BusyWith(Folder, f.design)
        BY <1>1, <2>2 DEF BusyWith, Processes
      <3> QED  BY <1>2, <2>2, <3>1 DEF OnceInv, FreshInv
    <2> QED  BY <2>1, <2>2 DEF FreshInv
  <1>7. TwiceOnlyIfSpoilt'
    BY DEF OnceInv, TwiceOnlyIfSpoilt
  <1> QED  BY <1>4, <1>5, <1>6, <1>7 DEF OnceInv

(* A design is taken up by a thread.                                       *)
LEMMA OnceTaken ==
  ASSUME PrintPrepareAssumption, Inv, OnceInv, NEW p \in Processes, NEW s \in Submission,
         pc[p] = "idle", pc' = [pc EXCEPT ![p] = "extract"], work' = [work EXCEPT ![p] = s],
         UNCHANGED <<fileVars, storeVars, spoilt>>, unused' \subseteq unused,
         s.design \notin unused',
         \/ p \in Callers /\ s.design \in unused
         \/ p = Folder /\ s \in inbox
  PROVE  OnceInv'
  <1>1. /\ \A q \in Processes : q # p => pc'[q] = pc[q] /\ work'[q] = work[q]
        /\ pc'[p] = "extract" /\ work'[p] = s
    BY DEF Inv, TypeOK
  <1>2. /\ \A d : HasJob(d)' <=> HasJob(d)
        /\ inbox' = inbox /\ jobs' = jobs
    BY DEF HasJob, storeVars, fileVars
  <1>3. UnusedInv'
    BY <1>1, <1>2 DEF OnceInv, UnusedInv, BusyWith, Busy
  <1>4. \A q \in Processes : q # p => ~ BusyWith(q, s.design)
    <2>1. TAKE q \in Processes
    <2>2. HAVE q # p
    <2>3. CASE p = Folder /\ s \in inbox
      BY <2>2, <2>3 DEF OnceInv, AloneInv, Processes
    <2>4. CASE s.design \in unused
      BY <2>4 DEF OnceInv, UnusedInv
    <2> QED  BY <2>3, <2>4
  <1>5. s.design \notin spoilt => ~ HasJob(s.design)
    BY DEF OnceInv, UnusedInv, FreshInv, BusyWith, Busy
  <1>6. AloneInv'
    <2>1. \A q, r \in Processes :
            Busy(q)' /\ Busy(r)' /\ q # r => work'[q].design # work'[r].design
      BY <1>1, <1>4 DEF OnceInv, AloneInv, Busy, BusyWith
    <2>2. ASSUME NEW q \in Callers, NEW f \in inbox PROVE ~ BusyWith(q, f.design)'
      <3>1. CASE q = p
        <4>1. s.design \in unused
          BY <3>1 DEF PrintPrepareAssumption
        <4> QED  BY <1>1, <3>1, <4>1 DEF OnceInv, UnusedInv, BusyWith
      <3>2. CASE q # p
        BY <1>1, <3>2 DEF OnceInv, AloneInv, BusyWith, Busy, Processes
      <3> QED  BY <3>1, <3>2
    <2> QED  BY <1>2, <2>1, <2>2 DEF AloneInv
  <1>7. FreshInv'
    <2>1. ASSUME NEW q \in Processes, Unregistered(q)', work'[q].design \notin spoilt
          PROVE  ~ HasJob(work'[q].design)
      BY <1>1, <1>5, <2>1 DEF OnceInv, FreshInv, Unregistered
    <2>2. ASSUME NEW f \in inbox, f.design \notin spoilt, ~ BusyWith(Folder, f.design)'
          PROVE  ~ HasJob(f.design)
      <3>1. CASE BusyWith(Folder, f.design)
        <4>1. p # Folder
          BY <3>1 DEF BusyWith, Busy
        <4>2. BusyWith(Folder, f.design)'
          BY <1>1, <3>1, <4>1 DEF BusyWith, Busy, Processes
        <4> QED  BY <2>2, <4>2
      <3>2. CASE ~ BusyWith(Folder, f.design)
        BY <2>2, <3>2 DEF OnceInv, FreshInv
      <3> QED  BY <3>1, <3>2
    <2> QED  BY <1>2, <2>1, <2>2 DEF FreshInv
  <1>8. TwiceOnlyIfSpoilt'
    BY <1>2 DEF OnceInv, TwiceOnlyIfSpoilt
  <1> QED  BY <1>3, <1>6, <1>7, <1>8 DEF OnceInv

(* A job is inserted.                                                      *)
LEMMA OnceInserted ==
  ASSUME PrintPrepareAssumption, Inv, OnceInv, NEW p \in Processes, pc[p] = "insert",
         jobs' = Append(jobs, work[p]), pc' = [pc EXCEPT ![p] = "release"],
         UNCHANGED <<unused, fileVars, work, spoilt>>
  PROVE  OnceInv'
  <1> DEFINE n == Len(jobs) + 1
             d == work[p].design
  <1>1. /\ DOMAIN jobs' = DOMAIN jobs \cup {n} /\ n \notin DOMAIN jobs
        /\ jobs'[n] = work[p] /\ \A i \in DOMAIN jobs : jobs'[i] = jobs[i]
    BY DEF Inv, TypeOK
  <1> HIDE DEF n
  <1>2. \A e : HasJob(e)' <=> HasJob(e) \/ e = d
    BY <1>1 DEF HasJob
  <1>3. /\ \A q \in Processes : q # p => pc'[q] = pc[q]
        /\ pc'[p] = "release" /\ work' = work /\ inbox' = inbox
    BY DEF Inv, TypeOK, fileVars
  <1>4. \A q \in Processes : \A e : BusyWith(q, e)' <=> BusyWith(q, e)
    BY <1>3 DEF BusyWith, Busy
  <1>5. BusyWith(p, d)
    BY DEF BusyWith, Busy
  <1>6. UnusedInv'
    BY <1>2, <1>3, <1>4, <1>5 DEF OnceInv, UnusedInv
  <1>7. AloneInv'
    <2>1. \A q, r \in Processes :
            Busy(q)' /\ Busy(r)' /\ q # r => work'[q].design # work'[r].design
      BY <1>3 DEF OnceInv, AloneInv, Busy
    <2>2. \A q \in Callers, f \in inbox : ~ BusyWith(q, f.design)'
      BY <1>4 DEF OnceInv, AloneInv, Processes
    <2> QED  BY <1>3, <2>1, <2>2 DEF AloneInv
  <1>8. FreshInv'
    <2>1. ASSUME NEW q \in Processes, Unregistered(q)', work[q].design \notin spoilt
          PROVE  ~ HasJob(work[q].design)'
      <3>1. q # p /\ Unregistered(q)
        BY <1>3, <2>1 DEF Unregistered
      <3>2. work[q].design # d
        BY <3>1 DEF OnceInv, AloneInv, Busy, Unregistered
      <3> QED  BY <1>2, <2>1, <3>1, <3>2 DEF OnceInv, FreshInv
    <2>2. ASSUME NEW f \in inbox, f.design \notin spoilt, ~ BusyWith(Folder, f.design)'
          PROVE  ~ HasJob(f.design)'
      <3>1. f.design # d
        <4>1. CASE p = Folder
          BY <1>4, <1>5, <2>2, <4>1
        <4>2. CASE p \in Callers
          BY <1>5, <4>2 DEF OnceInv, AloneInv
        <4> QED  BY <4>1, <4>2 DEF Processes
      <3>2. ~ BusyWith(Folder, f.design)
        BY <1>4, <2>2 DEF Processes
      <3> QED  BY <1>2, <2>2, <3>1, <3>2 DEF OnceInv, FreshInv
    <2> QED  BY <1>3, <2>1, <2>2 DEF FreshInv
  <1>9. TwiceOnlyIfSpoilt'
    <2>1. d \notin spoilt => ~ HasJob(d)
      BY DEF OnceInv, FreshInv, Unregistered
    <2>2. \A i \in DOMAIN jobs : jobs[i].design = d => d \in spoilt
      BY <2>1 DEF HasJob
    <2> QED  BY <1>1, <2>2 DEF OnceInv, TwiceOnlyIfSpoilt
  <1> QED  BY <1>6, <1>7, <1>8, <1>9 DEF OnceInv

LEMMA OnceStep == ASSUME PrintPrepareAssumption, Inv, OnceInv, [Next]_vars PROVE OnceInv'
  <1>1. ASSUME NEW d \in Designs, Drop(d) PROVE OnceInv'
    <2>1. PICK s \in Submission : s.design = d /\ inbox' = inbox \cup {s}
      BY <1>1, Submitted DEF Drop, Submit
    <2>2. /\ d \in unused /\ unused' = unused \ {d} /\ pc' = pc /\ work' = work
          /\ jobs' = jobs /\ spoilt' = spoilt
      BY <1>1 DEF Drop, storeVars
    <2>3. ~ HasJob(d) /\ (\A p \in Processes : ~ BusyWith(p, d)) /\ \A f \in inbox : f.design # d
      BY <2>2 DEF OnceInv, UnusedInv
    <2>4. \A p \in Processes : \A e : BusyWith(p, e)' <=> BusyWith(p, e)
      BY <2>2 DEF BusyWith, Busy
    <2>5. \A e : HasJob(e)' <=> HasJob(e)
      BY <2>2 DEF HasJob
    <2>6. UnusedInv'
      BY <2>1, <2>2, <2>4, <2>5 DEF OnceInv, UnusedInv
    <2>7. AloneInv'
      <3>1. \A p, q \in Processes :
              Busy(p)' /\ Busy(q)' /\ p # q => (work[p].design # work[q].design)'
        BY <2>2 DEF OnceInv, AloneInv, Busy
      <3>2. \A p \in Callers, f \in inbox' : ~ BusyWith(p, f.design)'
        BY <2>1, <2>3, <2>4 DEF OnceInv, AloneInv, Processes
      <3> QED  BY <3>1, <3>2 DEF AloneInv
    <2>8. FreshInv'
      <3>1. \A p \in Processes :
              Unregistered(p)' /\ (work[p].design \notin spoilt)' => ~ HasJob(work[p].design)'
        BY <2>2, <2>5 DEF OnceInv, FreshInv, Unregistered
      <3>2. \A f \in inbox' :
              f.design \notin spoilt' /\ ~ BusyWith(Folder, f.design)' => ~ HasJob(f.design)'
        BY <2>1, <2>2, <2>3, <2>4, <2>5 DEF OnceInv, FreshInv, Processes
      <3> QED  BY <3>1, <3>2 DEF FreshInv
    <2>9. TwiceOnlyIfSpoilt'
      BY <2>2 DEF OnceInv, TwiceOnlyIfSpoilt
    <2> QED  BY <2>6, <2>7, <2>8, <2>9 DEF OnceInv
  <1>2. ASSUME NEW p \in Callers, NEW d \in Designs, Call(p, d) PROVE OnceInv'
    <2>1. PICK c \in NamedCodes \cup {NoCode} : work' = [work EXCEPT ![p] = Submit(d, c)]
      BY <1>2 DEF Call
    <2>2. Submit(d, c) \in Submission /\ Submit(d, c).design = d
      BY Submitted DEF Submit
    <2>3. /\ pc[p] = "idle" /\ pc' = [pc EXCEPT ![p] = "extract"] /\ p \in Processes
          /\ UNCHANGED <<fileVars, storeVars, spoilt>>
          /\ d \in unused /\ unused' = unused \ {d}
      BY <1>2 DEF Call, Goto, Processes
    <2> QED  BY <1>2, <2>1, <2>2, <2>3, OnceTaken
  <1>3. CASE PickFile
    <2>1. PICK s \in inbox : work' = [work EXCEPT ![Folder] = s]
      BY <1>3 DEF PickFile
    <2>2. s \in Submission /\ s.design \notin unused /\ Folder \in Processes
      BY DEF Inv, TypeOK, OnceInv, UnusedInv, Processes
    <2>3. /\ pc[Folder] = "idle" /\ pc' = [pc EXCEPT ![Folder] = "extract"]
          /\ UNCHANGED <<fileVars, storeVars, spoilt, unused>>
      BY <1>3 DEF PickFile, Goto
    <2> QED  BY <2>1, <2>2, <2>3, OnceTaken
  <1>4. ASSUME NEW p \in Processes, Prepare(p) PROVE OnceInv'
    <2>1. UNCHANGED <<unused, fileVars, spoilt>>
      BY <1>4 DEF Prepare, Extract, BumpCounter, FetchCounter, Layout, Insert, Release
    <2>2. CASE Insert(p) /\ jobs' = Append(jobs, work[p])
      <3>1. /\ pc[p] = "insert" /\ work' = work
            /\ pc' = [pc EXCEPT ![p] = "release"]
        <4>1. jobs' # jobs
          BY <2>2 DEF Inv, TypeOK
        <4> QED  BY <2>2, <4>1 DEF Insert, Proceed, Order, Goto
      <3> QED  BY <2>1, <2>2, <3>1, OnceInserted
    <2>3. CASE ~ (Insert(p) /\ jobs' = Append(jobs, work[p]))
      <3>1. jobs' = jobs
        BY <1>4, <2>3 DEF Prepare, Extract, BumpCounter, FetchCounter, Layout, Insert, Release, storeVars
      <3>2. work' = work \/ work' = [work EXCEPT ![p].code = counter]
        BY <1>4 DEF Prepare, Extract, BumpCounter, FetchCounter, Layout, Insert, Release
      <3>3. /\ \A q \in Processes : q # p => pc'[q] = pc[q]
            /\ Busy(p)
            /\ p = Folder => Busy(p)'
            /\ Unregistered(p)' => Unregistered(p)
        <4>1. CASE Extract(p)
          BY <4>1 DEF Extract, Goto, Fail, Busy, Unregistered, Inv, TypeOK
        <4>2. CASE BumpCounter(p)
          BY <4>2 DEF BumpCounter, Goto, Busy, Unregistered, Inv, TypeOK
        <4>3. CASE FetchCounter(p)
          BY <4>3 DEF FetchCounter, Goto, Fail, Busy, Unregistered, Inv, TypeOK
        <4>4. CASE Layout(p)
          BY <4>4 DEF Layout, Proceed, Order, Goto, Fail, Busy, Unregistered, Inv, TypeOK
        <4>5. CASE Insert(p)
          BY <4>5 DEF Insert, Proceed, Order, Goto, Fail, Busy, Unregistered, Inv, TypeOK
        <4>6. CASE Release(p)
          BY <4>6 DEF Release, Proceed, Order, Goto, Fail, Busy, Unregistered, Inv, TypeOK
        <4> QED  BY <1>4, <4>1, <4>2, <4>3, <4>4, <4>5, <4>6 DEF Prepare
      <3>4. \A q \in Processes : (Busy(q)' => Busy(q)) /\ (Unregistered(q)' => Unregistered(q))
        BY <3>3 DEF Busy, Unregistered
      <3>5. Busy(Folder) => Busy(Folder)'
        BY <3>3 DEF Busy, Processes
      <3> QED  BY <2>1, <3>1, <3>2, <3>4, <3>5, OnceFrame DEF fileVars, BusyWith
    <2> QED  BY <2>2, <2>3
  <1>5. CASE MoveAway \/ HandleError
    <2>1. /\ work' = work /\ jobs' = jobs /\ unused' = unused /\ inbox' \subseteq inbox
          /\ spoilt \subseteq spoilt'
          /\ \A q \in Processes : q # Folder => pc'[q] = pc[q]
          /\ Busy(Folder) /\ pc'[Folder] \in {"idle", "error"}
      BY <1>5 DEF MoveAway, HandleError, Goto, Fail, Busy, Processes, Inv, TypeOK, storeVars
    <2>2. \A f \in inbox' :
            f.design = work[Folder].design => Busy(Folder)' \/ f.design \in spoilt'
      BY <1>5 DEF MoveAway, HandleError, Goto, Fail, Busy, FilesOf, Processes, Inv, TypeOK
    <2>3. \A q \in Processes : (Busy(q)' => Busy(q)) /\ (Unregistered(q)' => Unregistered(q))
      BY <2>1 DEF Busy, Unregistered
    <2> QED  BY <2>1, <2>2, <2>3, OnceFrame DEF BusyWith
  <1>6. CASE Crash
    <2>1. /\ work' = work /\ jobs' = jobs /\ unused' = unused /\ inbox' = inbox
          /\ spoilt \subseteq spoilt' /\ \A q \in Processes : pc'[q] = "idle"
          /\ Busy(Folder) => work[Folder].design \in spoilt'
      BY <1>6 DEF Crash, fileVars, Busy
    <2>2. \A q \in Processes : ~ Busy(q)' /\ ~ Unregistered(q)'
      BY <2>1 DEF Busy, Unregistered
    <2> QED  BY <2>1, <2>2, OnceFrame DEF BusyWith
  <1>7. CASE UNCHANGED vars
    <2>1. /\ work' = work /\ jobs' = jobs /\ unused' = unused /\ inbox' = inbox
          /\ spoilt' = spoilt /\ pc' = pc
      BY <1>7 DEF vars, fileVars, storeVars
    <2> QED  BY <2>1, OnceFrame DEF BusyWith, Busy, Unregistered
  <1> QED  BY <1>1, <1>2, <1>3, <1>4, <1>5, <1>6, <1>7 DEF Next, Worker, Processes

(* A design makes a second job only after the server died while the worker *)
(* had its file, or after that file could not be moved away                *)
(* (print_worker.py 130-170).                                              *)
THEOREM OnceCorrect ==
  ASSUME PrintPrepareAssumption
  PROVE  Spec => []TwiceOnlyIfSpoilt
  <1>1. Init => Inv /\ OnceInv
    BY InvInit, OnceInit
  <1>2. Inv /\ OnceInv /\ [Next]_vars => Inv' /\ OnceInv'
    BY InvStep, OnceStep
  <1>3. OnceInv => TwiceOnlyIfSpoilt
    BY DEF OnceInv
  <1> QED  BY <1>1, <1>2, <1>3, PTL DEF Spec

=============================================================================
