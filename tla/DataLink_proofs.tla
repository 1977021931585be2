--------------------------- MODULE DataLink_proofs ---------------------------
EXTENDS DataLink, SequenceTheorems, TLAPS

LEMMA QueryReturnsJobs ==
  ASSUME NEW b, NEW q \in QueryResults(b), jobs \subseteq Job
  PROVE  /\ q \in Seq(Job)
         /\ \A i \in DOMAIN q : q[i] \in jobs /\ q[i].barcode = b
<1>1. MaxJobsPerList \in Nat
  BY ConstantsAssumption
<1>2. PICK n \in 0..MaxJobsPerList : q \in [1..n -> Matches(b)]
  BY DEF QueryResults, BoundedSeq, SeqOf
<1>3. n \in Nat /\ Matches(b) \subseteq Job
  BY <1>1 DEF Matches
<1>4. q \in Seq(Job)
  BY <1>2, <1>3
<1>5. \A i \in DOMAIN q : q[i] \in Matches(b)
  BY <1>2
<1> QED BY <1>4, <1>5 DEF Matches

-----------------------------------------------------------------------------
(* The types. Each action is a step; the sets the pc ranges over and the   *)
(* ways a handler ends are expanded once.                                  *)

WorkerTypes ==
  /\ pc \in {"handshake", "wait", "stopped"} \cup ListSteps \cup JobSteps
  /\ current \in 0..7 \cup {Unknown}
  /\ standby \in BOOLEAN
  /\ lastError \in {"none", "step", "comm", "standby"}
  /\ selected \in IF pc \in SendSteps THEN Job ELSE {NoJob}
  /\ refused \in BOOLEAN

LEMMA EndingTypes ==
  ASSUME TypeOK, Abort \/ Return PROVE WorkerTypes'
<1> USE DEF TypeOK, Abort, Return, EndHandler, EnterStandby
<1>1. pc' = "wait" /\ selected' = NoJob
  OBVIOUS
<1>2. current' \in 0..7 \cup {Unknown}
  OBVIOUS
<1>3. standby' \in BOOLEAN
  OBVIOUS
<1>4. lastError' \in {"none", "step", "comm", "standby"}
  OBVIOUS
<1>5. refused' \in BOOLEAN
  OBVIOUS
<1> QED BY <1>1, <1>2, <1>3, <1>4, <1>5 DEF WorkerTypes, SendSteps

LEMMA ContinuingTypes ==
  ASSUME TypeOK, NEW step \in ListSteps \cup JobSteps, Continue(step),
         selected' \in IF step \in SendSteps THEN Job ELSE {NoJob},
         refused' \in BOOLEAN
  PROVE  WorkerTypes'
BY DEF TypeOK, WorkerTypes, Continue, SendSteps, JobSteps, ListSteps

LEMMA ResetTypes ==
  ASSUME Reset PROVE WorkerTypes' /\ metas' \in Seq(Job)
<1> USE DEF Reset
<1>1. pc' = "handshake" /\ selected' = NoJob /\ lastError' = "none"
  OBVIOUS
<1>2. current' \in 0..7 \cup {Unknown} /\ metas' \in Seq(Job)
  OBVIOUS
<1>3. standby' \in BOOLEAN
  OBVIOUS
<1>4. refused' \in BOOLEAN
  OBVIOUS
<1> QED BY <1>1, <1>2, <1>3, <1>4 DEF WorkerTypes, SendSteps

LEMMA TypeStep == ASSUME TypeOK, [Next]_vars PROVE TypeOK'
<1> USE DEF ListSteps, SendSteps, JobSteps, Unknown, infoVars
<1>1. CASE CreateJob
  <2>1. PICK b \in Barcodes, p \in NameKinds :
          jobs' = jobs \cup {[id |-> NewId, barcode |-> b, printable |-> p]}
    BY <1>1 DEF CreateJob
  <2>2. NewId \in 1..MaxJobs /\ p \in BOOLEAN
    BY <1>1, ConstantsAssumption DEF CreateJob, NewId, TypeOK
  <2>3. jobs' \subseteq Job /\ lastId' \in 0..MaxJobs
    BY <1>1, <2>1, <2>2 DEF CreateJob, TypeOK, Job
  <2> QED BY <1>1, <2>3 DEF CreateJob, TypeOK, workerVars, cutterVars
<1>2. CASE DeleteJob
  BY <1>2 DEF DeleteJob, TypeOK, workerVars, cutterVars
<1>3. CASE Handshake
  BY <1>3 DEF Handshake, TypeOK, storeVars, cutterVars
<1>4. CASE PollUnreadable
  BY <1>4 DEF PollUnreadable, TypeOK, storeVars, cutterVars
<1>5. CASE PollFlagged
  <2>1. current' = Unknown
    BY <1>5, SMT DEF PollFlagged, StoredStatus
  <2> QED BY <1>5, <2>1 DEF PollFlagged, EnterStandby, TypeOK, storeVars, cutterVars
<1>6. CASE PollTransition
  <2> DEFINE illegal == ~ IsAllowedTransition(current, status)
  <2>1. CASE status = 1 /\ Arm /\ UNCHANGED pc
    <3>1. standby' \in BOOLEAN
      BY <2>1, Zenon DEF Arm
    <3>2. metas' \in Seq(Job) /\ current' \in 0..7 \cup {Unknown}
      BY <2>1 DEF Arm
    <3> QED
      BY <1>6, <2>1, <3>1, <3>2
      DEF PollTransition, TypeOK, Arm, storeVars, cutterVars
  <2>2. CASE /\ pc' = IF status = 2 THEN "askBarcode" ELSE "askSelection"
             /\ UNCHANGED <<current, standby, metas, lastError, blind>>
    BY <1>6, <2>2 DEF PollTransition, TypeOK, storeVars, cutterVars
  <2>3. CASE /\ standby' = (standby \/ illegal)
             /\ lastError' = IF illegal THEN "standby" ELSE lastError
             /\ current' = status
             /\ UNCHANGED <<pc, metas, blind>>
    <3>1. standby' \in BOOLEAN
      BY <2>3, ZenonT(30) DEF TypeOK
    <3> QED
      BY <1>6, <2>3, <3>1 DEF PollTransition, TypeOK, storeVars, cutterVars
  <2> QED BY <1>6, <2>1, <2>2, <2>3 DEF PollTransition
<1>7. CASE AskBarcode
  <2>1. metas' \in Seq(Job)
    BY <1>7, QueryReturnsJobs DEF AskBarcode, TypeOK
  <2>2. WorkerTypes'
    BY <1>7, EndingTypes, ContinuingTypes DEF AskBarcode, TypeOK
  <2> QED
    BY <1>7, <2>1, <2>2
    DEF AskBarcode, TypeOK, WorkerTypes, storeVars, cutterVars
<1>8. CASE SendList
  <2>1. WorkerTypes'
    BY <1>8, EndingTypes DEF SendList
  <2>2. list' \in Seq(Job) /\ owner' \in {"none", "server", "rival"}
    BY <1>8 DEF SendList, TypeOK
  <2> QED
    BY <1>8, <2>1, <2>2 DEF SendList, TypeOK, WorkerTypes, storeVars
<1>9. CASE AskSelection
  <2>1. WorkerTypes'
    BY <1>9, EndingTypes, ContinuingTypes DEF AskSelection, TypeOK
  <2> QED
    BY <1>9, <2>1
    DEF AskSelection, TypeOK, WorkerTypes, storeVars, cutterVars
<1>10. CASE SetRegmark
  <2>1. \/ Abort
        \/ /\ Continue("cmdType")
           /\ selected' = selected /\ (refused' = refused \/ refused' = TRUE)
    BY <1>10 DEF SetRegmark
  <2>2. selected \in Job
    BY <1>10 DEF SetRegmark, TypeOK
  <2>3. WorkerTypes'
    <3>1. CASE Abort
      BY <3>1, EndingTypes
    <3>2. CASE /\ Continue("cmdType") /\ selected' = selected
               /\ refused' = refused \/ refused' = TRUE
      <4>1. refused' \in BOOLEAN
        BY <3>2, ZenonT(30) DEF TypeOK
      <4>2. selected' \in IF "cmdType" \in SendSteps THEN Job ELSE {NoJob}
        BY <3>2, <2>2
      <4> QED BY <3>2, <4>1, <4>2, ContinuingTypes
    <3> QED BY <2>1, <3>1, <3>2
  <2>4. setup' = setup \cup {"regmark"} \/ setup' = setup
    BY <1>10 DEF SetRegmark
  <2>5. UNCHANGED <<metas, status, scanned, owner, list, choice, received,
                    jobs, lastId, info, blind>>
    BY <1>10 DEF SetRegmark, storeVars
  <2>6. lost' \in BOOLEAN
    BY <1>10, ZenonT(30) DEF SetRegmark, TypeOK
  <2> QED BY <2>3, <2>4, <2>5, <2>6, ZenonT(30) DEF TypeOK, WorkerTypes
<1>11. CASE SetCommandType
  <2>1. WorkerTypes'
    BY <1>11, EndingTypes, ContinuingTypes DEF SetCommandType, TypeOK
  <2>2. setup' = setup \cup {"type"} \/ setup' = setup
    BY <1>11 DEF SetCommandType
  <2>3. UNCHANGED <<metas, status, scanned, owner, list, choice, received,
                    jobs, lastId, info, blind>>
    BY <1>11 DEF SetCommandType, storeVars
  <2>4. lost' \in BOOLEAN
    BY <1>11, ZenonT(30) DEF SetCommandType, TypeOK
  <2> QED BY <2>1, <2>2, <2>3, <2>4, ZenonT(30) DEF TypeOK, WorkerTypes
<1>12. CASE Stream
  <2>1. WorkerTypes'
    BY <1>12, EndingTypes DEF Stream
  <2>2. selected \in Job /\ received \in Seq(Job)
    BY <1>12 DEF Stream, TypeOK
  <2>3. \/ received' = received
        \/ received' = Append(received, selected)
        \/ received' = received \o <<selected, selected>>
    BY <1>12 DEF Stream
  <2>4. received' \in Seq(Job)
    <3>1. <<selected, selected>> \in Seq(Job)
      BY <2>2
    <3>2. received \o <<selected, selected>> \in Seq(Job)
      BY <2>2, <3>1
    <3>3. Append(received, selected) \in Seq(Job)
      BY <2>2
    <3> QED BY <2>2, <2>3, <3>2, <3>3
  <2>5. lost' \in BOOLEAN
    BY <1>12, ZenonT(30) DEF Stream, TypeOK
  <2>6. UNCHANGED <<metas, status, scanned, owner, list, choice, setup,
                    jobs, lastId, info, blind>>
    BY <1>12 DEF Stream, storeVars
  <2> QED BY <2>1, <2>4, <2>5, <2>6 DEF TypeOK, WorkerTypes
<1>13. CASE Stop \/ Start
  <2>1. CASE Stop
    BY <2>1 DEF Stop, TypeOK, storeVars, cutterVars
  <2>2. CASE Start
    <3>1. WorkerTypes' /\ metas' \in Seq(Job)
      BY <2>2, ResetTypes DEF Start
    <3> QED BY <2>2, <3>1 DEF Start, Reset, TypeOK, WorkerTypes, storeVars, cutterVars
  <2> QED BY <1>13, <2>1, <2>2
<1>14. CASE Crash
  <2>1. WorkerTypes' /\ metas' \in Seq(Job)
    BY <1>14, ResetTypes DEF Crash
  <2>2. info' \in 0..2 * InfoQueries
    BY <1>14 DEF Crash, InfoQueries
  <2> QED BY <1>14, <2>1, <2>2 DEF Crash, Reset, TypeOK, WorkerTypes, storeVars, cutterVars
<1>15. CASE InfoAdmit
  BY <1>15 DEF InfoAdmit, InfoQueries, TypeOK, storeVars, workerVars, cutterVars
<1>16. CASE InfoQuery
  BY <1>16 DEF InfoQuery, InfoQueries, TypeOK, storeVars, workerVars, cutterVars
<1>17. CASE StartScan
  <2>1. lost' \in BOOLEAN
    BY <1>17, Zenon DEF StartScan
  <2> QED BY <1>17, <2>1 DEF StartScan, TypeOK, MovesTo, storeVars, workerVars
<1>18. CASE ReadBarcode
  BY <1>18 DEF ReadBarcode, TypeOK, MovesTo, storeVars, workerVars
<1>19. CASE RivalOffers
  BY <1>19 DEF RivalOffers, TypeOK, storeVars, workerVars
<1>20. CASE ShowList
  BY <1>20 DEF ShowList, TypeOK, MovesTo, storeVars, workerVars
<1>21. CASE Determine
  BY <1>21 DEF Determine, TypeOK, MovesTo, storeVars, workerVars
<1>22. CASE StartCut
  BY <1>22 DEF StartCut, TypeOK, MovesTo, storeVars, workerVars
<1>23. CASE PauseFailOrStop
  BY <1>23 DEF PauseFailOrStop, TypeOK, MovesTo, storeVars, workerVars
<1>24. CASE UNCHANGED vars
  BY <1>24 DEF vars, TypeOK, storeVars, workerVars, cutterVars
<1> QED BY <1>1, <1>2, <1>3, <1>4, <1>5, <1>6, <1>7, <1>8, <1>9, <1>10, <1>11, <1>12, <1>13, <1>14, <1>15, <1>16, <1>17, <1>18, <1>19, <1>20, <1>21, <1>22, <1>23, <1>24 DEF Next, Worker, Cutter

LEMMA TypeInit == Init => TypeOK
<1> SUFFICES ASSUME Init PROVE TypeOK
  OBVIOUS
<1>1. jobs \subseteq Job /\ lastId \in 0..MaxJobs
  BY ConstantsAssumption DEF Init
<1>2. WorkerTypes
  <2>1. current \in 0..7 \cup {Unknown} /\ selected = NoJob
    BY DEF Init
  <2>2. standby \in BOOLEAN /\ refused \in BOOLEAN
    BY Zenon DEF Init
  <2> QED BY <2>1, <2>2 DEF Init, WorkerTypes, SendSteps
<1>3. metas \in Seq(Job) /\ list \in Seq(Job) /\ received \in Seq(Job)
  BY DEF Init
<1>4. lost \in BOOLEAN /\ blind \in BOOLEAN
  BY Zenon DEF Init
<1>5. info \in 0..2 * InfoQueries
  BY DEF Init, InfoQueries
<1> QED BY <1>1, <1>2, <1>3, <1>4, <1>5 DEF Init, TypeOK, WorkerTypes

(* The type invariant is inductive by itself, whatever may go wrong.       *)
THEOREM TypeCorrect == Spec => []TypeOK
<1>1. Init => TypeOK
  BY TypeInit
<1>2. TypeOK /\ [Next]_vars => TypeOK'
  BY TypeStep
<1> QED BY <1>1, <1>2, PTL DEF Spec

-----------------------------------------------------------------------------
(* The safety of a cycle                                                   *)

(* Where the cutter comes from, read off the table of the protocol.        *)
LEMMA CutterMoves ==
  ASSUME TypeOK
  PROVE  /\ MovesTo(2) => status = 1
         /\ MovesTo(3) => status = 2
         /\ MovesTo(4) => status \in {2, 3}
<1>1. status \in 0..7 /\ Unknown \notin 0..7
  BY DEF TypeOK, Unknown
<1>2. /\ AllowedSource[2] = {1, Unknown}
      /\ AllowedSource[3] = {2, Unknown}
      /\ AllowedSource[4] = {2, 3, 4, Unknown}
  BY DEF AllowedSource
<1> QED BY <1>1, <1>2 DEF MovesTo

(* The parts of the invariant that a step leaves alone with their          *)
(* variables.                                                              *)
LEMMA StoreFrame ==
  ASSUME StoreInv, UNCHANGED <<jobs, lastId, metas>> PROVE StoreInv'
BY DEF StoreInv

LEMMA CutterFrame ==
  ASSUME Inv, UNCHANGED cutterVars
  PROVE  /\ CycleInv' /\ CutsAreRegistered'
         /\ DeliversTheSelection' /\ OfferMatchesScan'
BY DEF Inv, CycleInv, DeliversTheSelection, OfferMatchesScan,
   CutsAreRegistered, cutterVars

LEMMA WorkerFrame ==
  ASSUME Inv, UNCHANGED <<workerVars, cutterVars>>
  PROVE  HandlerInv' /\ ListsAgree'
BY DEF Inv, HandlerInv, ListsAgree, Handling, workerVars, cutterVars

(* Outside its handlers, or with standby on, the worker owes nothing.      *)
LEMMA RestFrame ==
  ASSUME Inv, UNCHANGED cutterVars, pc' \in {"wait", "handshake", "stopped"},
         standby' \/ (metas' = metas /\ standby' = standby /\ pc # "sendList")
  PROVE  HandlerInv' /\ ListsAgree'
<1>1. HandlerInv'
  BY DEF HandlerInv, Handling, ListSteps, JobSteps, SendSteps
<1>2. ListsAgree'
  BY DEF Inv, ListsAgree, cutterVars
<1> QED BY <1>1, <1>2

LEMMA InvStep ==
  ASSUME "outrun" \notin Faults, Inv, [Next]_vars PROVE Inv'
<1> USE DEF Inv
<1>1. TypeOK'
  BY TypeStep
<1>2. CASE CreateJob
  <2>1. UNCHANGED <<workerVars, cutterVars>>
    BY <1>2 DEF CreateJob
  <2>2. PICK b \in Barcodes, p \in NameKinds :
          jobs' = jobs \cup {[id |-> lastId + 1, barcode |-> b, printable |-> p]}
    BY <1>2 DEF CreateJob, NewId
  <2>3. lastId' = lastId + 1 /\ lastId \in Nat /\ metas' = metas
    BY <1>2, ConstantsAssumption DEF CreateJob, NewId, TypeOK, workerVars
  <2>4. /\ \A j \in jobs : j.id \in Nat /\ j.id <= lastId
        /\ \A i \in DOMAIN metas : metas[i].id \in Nat /\ metas[i].id <= lastId
    <3>1. lastId \in Nat /\ \A j \in Job : j.id \in Nat
      BY <2>3 DEF Job
    <3>2. \A i \in DOMAIN metas : metas[i] \in Job
      BY DEF TypeOK
    <3> QED BY <3>1, <3>2 DEF StoreInv, TypeOK
  <2>5. StoreInv'
    BY <2>2, <2>3, <2>4 DEF StoreInv
  <2> QED BY <1>1, <2>1, <2>5, CutterFrame, WorkerFrame
<1>3. CASE DeleteJob
  <2>1. StoreInv'
    BY <1>3 DEF DeleteJob, StoreInv, workerVars
  <2> QED BY <1>1, <1>3, <2>1, CutterFrame, WorkerFrame DEF DeleteJob
<1>4. CASE Handshake
  <2>1. StoreInv'
    BY <1>4, StoreFrame DEF Handshake, storeVars
  <2>2. HandlerInv' /\ ListsAgree'
    BY <1>4, RestFrame DEF Handshake
  <2> QED BY <1>1, <1>4, <2>1, <2>2, CutterFrame DEF Handshake
<1>5. CASE PollUnreadable
  <2>1. StoreInv'
    BY <1>5, StoreFrame DEF PollUnreadable, storeVars
  <2>2. /\ UNCHANGED <<pc, standby, metas, selected, refused>>
        /\ UNCHANGED <<status, scanned, owner, list, choice, setup, received>>
        /\ pc = "wait"
    BY <1>5 DEF PollUnreadable
  <2>3. CycleInv' /\ CutsAreRegistered' /\ DeliversTheSelection' /\ OfferMatchesScan'
    BY <2>2 DEF CycleInv, DeliversTheSelection, OfferMatchesScan, CutsAreRegistered
  <2>4. HandlerInv' /\ ListsAgree'
    BY <2>2 DEF HandlerInv, ListsAgree, Handling, ListSteps, JobSteps, SendSteps
  <2> QED BY <1>1, <2>1, <2>3, <2>4
<1>6. CASE PollFlagged
  <2>1. StoreInv'
    BY <1>6, StoreFrame DEF PollFlagged, storeVars
  <2>2. HandlerInv' /\ ListsAgree'
    BY <1>6, RestFrame DEF PollFlagged, EnterStandby
  <2> QED BY <1>1, <1>6, <2>1, <2>2, CutterFrame DEF PollFlagged
<1>7. CASE PollTransition
  <2>1. StoreInv'
    BY <1>7 DEF PollTransition, Arm, StoreInv, storeVars
  <2>2. HandlerInv'
    BY <1>7 DEF PollTransition, Arm, HandlerInv, Handling, ListSteps, JobSteps,
       SendSteps, cutterVars
  <2>3. ListsAgree'
    BY <1>7 DEF PollTransition, Arm, ListsAgree, CycleInv, cutterVars
  <2> QED BY <1>1, <1>7, <2>1, <2>2, <2>3, CutterFrame DEF PollTransition
<1>8. CASE AskBarcode
  <2>1. /\ UNCHANGED <<jobs, lastId, cutterVars>>
        /\ pc = "askBarcode" /\ jobs \subseteq Job
    BY <1>8 DEF AskBarcode, storeVars, TypeOK
  <2>2. CASE metas' \in QueryResults(scanned) /\ Continue("sendList")
    <3>1. \A i \in DOMAIN metas' :
             metas'[i] \in jobs /\ metas'[i].barcode = scanned
      BY <2>1, <2>2, QueryReturnsJobs
    <3>2. StoreInv'
      BY <2>1, <3>1 DEF StoreInv
    <3>3. HandlerInv'
      BY <2>1, <2>2, <3>1 DEF HandlerInv, Handling, Continue, ListSteps,
         JobSteps, SendSteps, cutterVars
    <3>4. ListsAgree'
      BY <2>2 DEF ListsAgree, Continue
    <3> QED BY <1>1, <2>1, <3>2, <3>3, <3>4, CutterFrame
  <2>3. CASE (Abort \/ Return) /\ UNCHANGED metas
    <3>1. StoreInv'
      BY <2>1, <2>3, StoreFrame
    <3>2. HandlerInv' /\ ListsAgree'
      BY <2>1, <2>3, RestFrame DEF Abort, Return, EndHandler, EnterStandby
    <3> QED BY <1>1, <2>1, <3>1, <3>2, CutterFrame
  <2> QED BY <1>8, <2>2, <2>3 DEF AskBarcode
<1>9. CASE SendList
  <2> USE <1>9 DEF SendList, TakesList
  <2>1. StoreInv'
    BY StoreFrame DEF storeVars
  <2>2. HandlerInv'
    BY DEF Return, Abort, EndHandler, HandlerInv, Handling, ListSteps,
       JobSteps, SendSteps
  <2>3. CycleInv' /\ DeliversTheSelection' /\ CutsAreRegistered'
    BY DEF CycleInv, DeliversTheSelection, CutsAreRegistered
  <2>4. OfferMatchesScan'
    BY DEF OfferMatchesScan, HandlerInv
  <2>5. ListsAgree'
    BY DEF ListsAgree, CycleInv, HandlerInv, Return, Abort, EndHandler,
       EnterStandby
  <2> QED BY <1>1, <2>1, <2>2, <2>3, <2>4, <2>5
<1>10. CASE AskSelection
  <2>1. StoreInv' /\ UNCHANGED <<metas, cutterVars>> /\ pc = "askSelection"
    BY <1>10, StoreFrame DEF AskSelection, storeVars
  <2>2. CASE Abort
    BY <1>1, <2>1, <2>2, CutterFrame, RestFrame
       DEF Abort, EndHandler, EnterStandby
  <2>3. CASE /\ choice \in DOMAIN metas /\ Continue("regmark")
             /\ selected' \in {j \in jobs : j.id = metas[choice].id}
    <3>1. selected' = metas[choice]
      BY <2>3 DEF StoreInv
    <3>2. ~ standby /\ status # 1
      BY <2>1 DEF HandlerInv, Handling, JobSteps
    <3>3. choice \in DOMAIN list /\ owner = "server"
      BY <2>3 DEF CycleInv, TypeOK
    <3>4. selected' = list[choice]
      BY <2>1, <3>1, <3>2, <3>3 DEF ListsAgree
    <3>5. HandlerInv'
      BY <2>1, <2>3, <3>2, <3>3, <3>4 DEF HandlerInv, Continue, cutterVars
    <3>6. ListsAgree'
      BY <2>1, <2>3 DEF ListsAgree, Continue, cutterVars
    <3> QED BY <1>1, <2>1, <3>5, <3>6, CutterFrame
  <2> QED BY <1>10, <2>2, <2>3 DEF AskSelection
<1>11. CASE SetRegmark
  <2> USE <1>11 DEF SetRegmark
  <2>1. StoreInv'
    BY StoreFrame DEF storeVars
  <2>2. CycleInv' /\ DeliversTheSelection' /\ OfferMatchesScan'
    BY DEF CycleInv, DeliversTheSelection, OfferMatchesScan
  <2>3. CutsAreRegistered'
    BY DEF CutsAreRegistered
  <2>4. HandlerInv'
    BY DEF HandlerInv, Handling, Continue, Abort, EndHandler, ListSteps,
       JobSteps, SendSteps
  <2>5. ListsAgree'
    BY DEF ListsAgree, Continue, Abort, EndHandler, EnterStandby
  <2> QED BY <1>1, <2>1, <2>2, <2>3, <2>4, <2>5
<1>12. CASE SetCommandType
  <2> USE <1>12 DEF SetCommandType
  <2>1. StoreInv'
    BY StoreFrame DEF storeVars
  <2>2. CycleInv' /\ DeliversTheSelection' /\ OfferMatchesScan'
    BY DEF CycleInv, DeliversTheSelection, OfferMatchesScan
  <2>3. CutsAreRegistered'
    BY DEF CutsAreRegistered
  <2>4. CASE Abort
    <3>1. HandlerInv' /\ ListsAgree'
      BY <2>4 DEF HandlerInv, Handling, ListsAgree, Abort, EndHandler,
         EnterStandby, ListSteps, JobSteps, SendSteps
    <3> QED BY <1>1, <2>1, <2>2, <2>3, <3>1
  <2>5. CASE /\ MaySend /\ Continue("stream") /\ UNCHANGED <<selected, refused>>
             /\ setup' = setup \cup {"type"}
    <3>1. setup' = {"regmark", "type"}
      BY <2>5 DEF HandlerInv, MaySend, TypeOK
    <3>2. HandlerInv'
      BY <2>5, <3>1 DEF HandlerInv, Handling, Continue, ListSteps, JobSteps,
         SendSteps
    <3>3. ListsAgree'
      BY <2>5 DEF ListsAgree, Continue
    <3> QED BY <1>1, <2>1, <2>2, <2>3, <3>2, <3>3
  <2> QED BY <2>4, <2>5
<1>13. CASE Stream
  <2> USE <1>13 DEF Stream
  <2>1. StoreInv'
    BY StoreFrame DEF storeVars
  <2>2. choice \in DOMAIN list /\ selected = list[choice]
    BY DEF HandlerInv, SendSteps
  <2>3. CycleInv' /\ OfferMatchesScan'
    BY DEF CycleInv, OfferMatchesScan
  <2>4. DeliversTheSelection' /\ CutsAreRegistered'
    BY <2>2 DEF DeliversTheSelection, CutsAreRegistered, HandlerInv
  <2>5. HandlerInv' /\ ListsAgree'
    BY DEF HandlerInv, Handling, ListsAgree, Return, Abort, EndHandler,
       EnterStandby, ListSteps, JobSteps, SendSteps
  <2> QED BY <1>1, <2>1, <2>3, <2>4, <2>5
<1>14. CASE Stop \/ Start
  <2>1. StoreInv'
    BY <1>14 DEF Stop, Start, Reset, StoreInv, storeVars
  <2>2. HandlerInv' /\ ListsAgree'
    BY <1>14, RestFrame DEF Stop, Start, Reset
  <2> QED BY <1>1, <1>14, <2>1, <2>2, CutterFrame DEF Stop, Start
<1>15. CASE Crash
  <2>1. StoreInv'
    BY <1>15 DEF Crash, Reset, StoreInv, storeVars
  <2>2. HandlerInv' /\ ListsAgree'
    BY <1>15, RestFrame DEF Crash, Reset
  <2> QED BY <1>1, <1>15, <2>1, <2>2, CutterFrame DEF Crash
<1>16. CASE InfoAdmit \/ InfoQuery
  <2>1. UNCHANGED <<storeVars, workerVars, cutterVars>>
    BY <1>16 DEF InfoAdmit, InfoQuery
  <2>2. StoreInv'
    BY <2>1, StoreFrame DEF storeVars, workerVars
  <2> QED BY <1>1, <2>1, <2>2, CutterFrame, WorkerFrame
<1>17. CASE StartScan
  <2> USE <1>17 DEF StartScan, MovesTo, workerVars
  <2>1. StoreInv'
    BY StoreFrame DEF storeVars
  <2>2. CycleInv' /\ DeliversTheSelection' /\ OfferMatchesScan'
    BY DEF CycleInv, DeliversTheSelection, OfferMatchesScan
  <2>3. CutsAreRegistered' /\ ListsAgree'
    BY DEF CutsAreRegistered, ListsAgree
  <2>4. HandlerInv'
    BY DEF HandlerInv, Handling, ListSteps, JobSteps, SendSteps
  <2> QED BY <1>1, <2>1, <2>2, <2>3, <2>4
<1>18. CASE ReadBarcode
  <2> USE <1>18 DEF ReadBarcode, workerVars
  <2>1. status = 1 /\ status' = 2 /\ owner = "none" /\ list = <<>> /\ choice = 0
    BY CutterMoves DEF CycleInv, MovesTo
  <2>2. ~ Handling /\ UNCHANGED <<storeVars, workerVars>>
    BY <2>1 DEF HandlerInv, MovesTo
  <2>3. StoreInv'
    BY <2>2, StoreFrame DEF storeVars
  <2>4. CycleInv'
    BY <2>1, ConstantsAssumption DEF CycleInv
  <2>5. DeliversTheSelection' /\ OfferMatchesScan' /\ CutsAreRegistered'
    BY <2>1 DEF DeliversTheSelection, OfferMatchesScan, CutsAreRegistered
  <2>6. HandlerInv'
    BY <2>2 DEF HandlerInv, Handling, ListSteps, JobSteps, SendSteps
  <2>7. ListsAgree'
    BY <2>2 DEF ListsAgree
  <2> QED BY <1>1, <2>3, <2>4, <2>5, <2>6, <2>7
<1>19. CASE RivalOffers
  <2> USE <1>19 DEF RivalOffers, TakesList, workerVars
  <2>1. StoreInv'
    BY StoreFrame DEF storeVars
  <2>2. CycleInv' /\ DeliversTheSelection' /\ OfferMatchesScan'
    BY DEF CycleInv, DeliversTheSelection, OfferMatchesScan
  <2>3. CutsAreRegistered' /\ ListsAgree' /\ HandlerInv'
    BY DEF CutsAreRegistered, ListsAgree, HandlerInv, Handling
  <2> QED BY <1>1, <2>1, <2>2, <2>3
<1>20. CASE ShowList \/ StartCut \/ PauseFailOrStop
  <2>1. /\ UNCHANGED <<storeVars, workerVars>>
        /\ UNCHANGED <<scanned, owner, list, choice, setup, received>>
        /\ status' # 1
        /\ status' \in {2, 3, 4} => status = 2 /\ status' = 3
    BY <1>20, CutterMoves DEF ShowList, StartCut, PauseFailOrStop, MovesTo
  <2>2. StoreInv'
    BY <2>1, StoreFrame DEF storeVars, workerVars
  <2>3. CycleInv'
    BY <2>1 DEF CycleInv
  <2>4. DeliversTheSelection' /\ OfferMatchesScan' /\ CutsAreRegistered'
    BY <2>1 DEF DeliversTheSelection, OfferMatchesScan, CutsAreRegistered
  <2>5. HandlerInv' /\ ListsAgree'
    BY <2>1 DEF HandlerInv, ListsAgree, Handling, workerVars
  <2> QED BY <1>1, <2>2, <2>3, <2>4, <2>5
<1>21. CASE Determine
  <2>1. /\ UNCHANGED <<storeVars, workerVars>>
        /\ UNCHANGED <<scanned, owner, list, setup, received>>
        /\ status \in {2, 3} /\ status' = 4
        /\ choice = 0 /\ choice' \in DOMAIN list \cup {0}
    BY <1>21, CutterMoves DEF Determine, MovesTo, CycleInv
  <2>2. StoreInv'
    BY <2>1, StoreFrame DEF storeVars, workerVars
  <2>3. CycleInv'
    BY <2>1 DEF CycleInv
  <2>4. 0 \notin DOMAIN list
    BY DEF TypeOK
  <2>5. received = <<>>
    <3>1. received \in Seq(Job) /\ DOMAIN received = {}
      BY <2>1, <2>4 DEF DeliversTheSelection, TypeOK
    <3>2. Len(received) = 0
      BY <3>1
    <3> QED BY <3>1, <3>2, EmptySeq
  <2>6. DeliversTheSelection' /\ OfferMatchesScan' /\ CutsAreRegistered'
    BY <2>1, <2>5 DEF DeliversTheSelection, OfferMatchesScan, CutsAreRegistered
  <2>7. pc \notin SendSteps
    BY <2>1, <2>4 DEF HandlerInv
  <2>8. HandlerInv' /\ ListsAgree'
    BY <2>1, <2>7 DEF HandlerInv, ListsAgree, Handling, SendSteps, workerVars
  <2> QED BY <1>1, <2>2, <2>3, <2>6, <2>8
<1>22. CASE UNCHANGED vars
  <2>1. UNCHANGED <<storeVars, workerVars, cutterVars>>
    BY <1>22 DEF vars
  <2>2. StoreInv'
    BY <2>1, StoreFrame DEF storeVars, workerVars
  <2> QED BY <1>1, <2>1, <2>2, CutterFrame, WorkerFrame
<1> QED
  BY <1>2, <1>3, <1>4, <1>5, <1>6, <1>7, <1>8, <1>9, <1>10, <1>11, <1>12,
     <1>13, <1>14, <1>15, <1>16, <1>17, <1>18, <1>19, <1>20, <1>21, <1>22
  DEF Next, Worker, Cutter

LEMMA InvInit == Init => Inv
<1> SUFFICES ASSUME Init PROVE Inv
  OBVIOUS
<1>1. TypeOK
  BY TypeInit
<1>2. StoreInv /\ CycleInv /\ HandlerInv
  BY DEF Init, StoreInv, CycleInv, HandlerInv, Handling, ListSteps, JobSteps,
     SendSteps
<1>3. DeliversTheSelection /\ OfferMatchesScan /\ CutsAreRegistered /\ ListsAgree
  BY DEF Init, DeliversTheSelection, OfferMatchesScan, CutsAreRegistered,
     ListsAgree
<1> QED BY <1>1, <1>2, <1>3 DEF Inv

(* The invariant holds of every behaviour in which no new scan overtakes a *)
(* running handler, whatever else fails (dls_worker.py 259-412).           *)
THEOREM SafetyCorrect ==
  ASSUME "outrun" \notin Faults PROVE Spec => []Inv
<1>1. Inv /\ [Next]_vars => Inv'
  BY InvStep
<1> QED BY InvInit, <1>1, PTL DEF Spec

(* Whatever is handed to the cutter is the job picked off the list it was  *)
(* given (dls_worker.py 368-390).                                          *)
THEOREM DeliveryCorrect ==
  ASSUME "outrun" \notin Faults PROVE Spec => []DeliversTheSelection
<1>1. Inv => DeliversTheSelection
  BY DEF Inv
<1> QED BY SafetyCorrect, <1>1, PTL

(* A list on the panel is of the barcode that was scanned for it           *)
(* (dls_worker.py 316-344).                                                *)
THEOREM OfferCorrect ==
  ASSUME "outrun" \notin Faults PROVE Spec => []OfferMatchesScan
<1>1. Inv => OfferMatchesScan
  BY DEF Inv
<1> QED BY SafetyCorrect, <1>1, PTL

(* No data without an acknowledged mark position and command type          *)
(* (dls_worker.py 382-396).                                                *)
THEOREM RegistrationCorrect ==
  ASSUME "outrun" \notin Faults PROVE Spec => []CutsAreRegistered
<1>1. Inv => CutsAreRegistered
  BY DEF Inv
<1> QED BY SafetyCorrect, <1>1, PTL

(* The list the worker indexes is the list on the panel                    *)
(* (dls_worker.py 332-333, 368-376).                                       *)
THEOREM ListsCorrect ==
  ASSUME "outrun" \notin Faults PROVE Spec => []ListsAgree
<1>1. Inv => ListsAgree
  BY DEF Inv
<1> QED BY SafetyCorrect, <1>1, PTL

-----------------------------------------------------------------------------
(* A job is sent once                                                      *)

(* Until a poll fails, the status a handler has dealt with is remembered   *)
(* until the cutter has left it.                                           *)
SentInv ==
  \/ lost
  \/ /\ OneDelivery
     /\ Handling => received = <<>>
     /\ received # <<>> /\ status = 4 => standby \/ current = 4

LEMMA NothingSentBefore ==
  ASSUME Inv, status \in {1, 2, 3} PROVE received = <<>>
<1>1. 0 \notin DOMAIN list
  BY DEF Inv, TypeOK
<1>2. received \in Seq(Job) /\ DOMAIN received = {}
  BY <1>1 DEF Inv, CycleInv, DeliversTheSelection, TypeOK
<1>3. Len(received) = 0
  BY <1>2
<1> QED BY <1>2, <1>3, EmptySeq

LEMMA SentStep ==
  ASSUME Inv, SentInv, [Next]_vars PROVE SentInv'
<1> USE DEF SentInv, OneDelivery, Handling, ListSteps, JobSteps, SendSteps
<1>1. CASE CreateJob \/ DeleteJob
  BY <1>1 DEF CreateJob, DeleteJob, workerVars, cutterVars
<1>2. CASE Handshake
  BY <1>2 DEF Handshake, cutterVars
<1>3. CASE PollUnreadable \/ InfoAdmit \/ InfoQuery
  BY <1>3 DEF PollUnreadable, InfoAdmit, InfoQuery, workerVars, cutterVars
<1>4. CASE PollFlagged
  BY <1>4 DEF PollFlagged, EnterStandby, cutterVars
<1>5. CASE PollTransition
  BY <1>5, NothingSentBefore DEF PollTransition, Arm, cutterVars
<1>6. CASE AskBarcode
  BY <1>6 DEF AskBarcode, Continue, Return, Abort, EndHandler, EnterStandby,
     cutterVars
<1>7. CASE SendList
  BY <1>7 DEF SendList, Return, Abort, EndHandler, EnterStandby
<1>8. CASE AskSelection
  BY <1>8 DEF AskSelection, Continue, Abort, EndHandler, EnterStandby, cutterVars
<1>9. CASE SetRegmark
  BY <1>9 DEF SetRegmark, Continue, Abort, EndHandler, EnterStandby
<1>10. CASE SetCommandType
  BY <1>10 DEF SetCommandType, Continue, Abort, EndHandler, EnterStandby
<1>11. CASE Stream
  <2>1. CASE lost' = TRUE
    BY <2>1
  <2>2. CASE ~ lost'
    <3>1. lost' = lost /\ received = <<>> /\ pc' = "wait" /\ current' = 4
      BY <1>11, <2>2 DEF Stream, Return, Abort, EndHandler
    <3>2. received' = received \/ received' = Append(received, selected)
      BY <1>11, <2>2 DEF Stream
    <3>3. received \in Seq(Job) /\ selected \in Job /\ Len(received) = 0
      BY <1>11, <3>1 DEF Stream, Inv, TypeOK
    <3>4. Len(received') <= 1
      BY <3>2, <3>3
    <3> QED BY <3>1, <3>4
  <2> QED BY <2>1, <2>2
<1>12. CASE Stop \/ Start \/ Crash
  BY <1>12 DEF Stop, Start, Crash, Reset, cutterVars
<1>13. CASE StartScan
  BY <1>13 DEF StartScan, MovesTo, workerVars
<1>14. CASE ReadBarcode \/ ShowList \/ Determine
  <2>1. status \in {1, 2, 3}
    BY <1>14, CutterMoves DEF ReadBarcode, ShowList, Determine, Inv
  <2>2. received = <<>>
    BY <2>1, NothingSentBefore
  <2> QED BY <1>14, <2>2 DEF ReadBarcode, ShowList, Determine, MovesTo, workerVars
<1>15. CASE RivalOffers
  BY <1>15 DEF RivalOffers, workerVars
<1>16. CASE StartCut \/ PauseFailOrStop
  BY <1>16 DEF StartCut, PauseFailOrStop, MovesTo, workerVars
<1>17. CASE UNCHANGED vars
  BY <1>17 DEF vars, workerVars, cutterVars
<1> QED
  BY <1>1, <1>2, <1>3, <1>4, <1>5, <1>6, <1>7, <1>8, <1>9, <1>10, <1>11,
     <1>12, <1>13, <1>14, <1>15, <1>16, <1>17 DEF Next, Worker, Cutter

(* No restart, rejection, lost reply or rival makes the worker send a job  *)
(* a second time in a cycle: it takes a poll that fails after the job was  *)
(* sent, or a send that breaks off (dls_worker.py 259-310).                *)
THEOREM SentOnce ==
  ASSUME "outrun" \notin Faults PROVE Spec => []TwiceOnlyIfLost
<1>1. Init => SentInv
  BY DEF Init, SentInv, OneDelivery, Handling, ListSteps, JobSteps, SendSteps
<1>2. Inv /\ SentInv /\ [Next]_vars => SentInv'
  BY SentStep
<1>3. Spec => []Inv
  BY SafetyCorrect
<1>4. SentInv => TwiceOnlyIfLost
  BY DEF SentInv, TwiceOnlyIfLost
<1> QED BY <1>1, <1>2, <1>3, <1>4, PTL DEF Spec

-----------------------------------------------------------------------------
(* /cutter/info stays out                                                  *)

(* Once it has read status 1, and until a poll fails, the worker remembers *)
(* a status; and one that a handler may follow is neither 0 nor unknown.   *)
InfoInv ==
  ~ blind => current # Unknown /\ (Handling => current # 0)

LEMMA InfoStep ==
  ASSUME TypeOK, InfoInv, [Next]_vars PROVE InfoInv'
<1> USE DEF InfoInv, Handling, ListSteps, JobSteps, SendSteps, infoVars
<1>1. CASE CreateJob \/ DeleteJob \/ UNCHANGED vars
  BY <1>1 DEF CreateJob, DeleteJob, vars, workerVars
<1>2. CASE Handshake \/ InfoAdmit \/ InfoQuery
  BY <1>2 DEF Handshake, InfoAdmit, InfoQuery, workerVars
<1>3. CASE PollUnreadable \/ PollFlagged
  BY <1>3 DEF PollUnreadable, PollFlagged
<1>4. CASE PollTransition
  <2>1. status \in 0..7 /\ Unknown \notin 0..7
    BY DEF TypeOK, Unknown
  <2>2. /\ AllowedSource[2] = {1, Unknown}
        /\ AllowedSource[4] = {2, 3, 4, Unknown}
    BY DEF AllowedSource
  <2>3. CASE status = 1 /\ Arm /\ UNCHANGED pc
    BY <1>4, <2>1, <2>3 DEF PollTransition, Arm
  <2>4. CASE /\ status \in {2, 4} /\ IsAllowedTransition(current, status)
             /\ UNCHANGED <<current, blind>>
    BY <2>1, <2>2, <2>4 DEF IsAllowedTransition
  <2>5. CASE current' = status /\ UNCHANGED <<pc, blind>>
    BY <1>4, <2>1, <2>5 DEF PollTransition
  <2> QED BY <1>4, <2>3, <2>4, <2>5 DEF PollTransition
<1>5. CASE AskBarcode
  BY <1>5 DEF AskBarcode, Continue, Return, Abort, EndHandler, Unknown
<1>6. CASE SendList
  BY <1>6 DEF SendList, Return, Abort, EndHandler, Unknown
<1>7. CASE AskSelection
  BY <1>7 DEF AskSelection, Continue, Abort, EndHandler, Unknown
<1>8. CASE SetRegmark
  BY <1>8 DEF SetRegmark, Continue, Abort, EndHandler, Unknown
<1>9. CASE SetCommandType
  BY <1>9 DEF SetCommandType, Continue, Abort, EndHandler, Unknown
<1>10. CASE Stream
  BY <1>10 DEF Stream, Return, Abort, EndHandler, Unknown
<1>11. CASE Stop \/ Start \/ Crash
  BY <1>11 DEF Stop, Start, Crash, Reset
<1>12. CASE Cutter
  BY <1>12 DEF Cutter, StartScan, ReadBarcode, RivalOffers, ShowList,
     Determine, StartCut, PauseFailOrStop, MovesTo, workerVars
<1> QED
  BY <1>1, <1>2, <1>3, <1>4, <1>5, <1>6, <1>7, <1>8, <1>9, <1>10, <1>11,
     <1>12 DEF Next, Worker

(* /cutter/info is let in while a handler talks to the cutter only after a *)
(* poll has failed in that scan, whatever else goes wrong and wherever the *)
(* connections of an earlier request fall (main.py 376-403).               *)
THEOREM InfoCorrect == Spec => InfoStaysOut
<1>1. Init => InfoInv
  BY DEF Init, InfoInv, Handling, ListSteps, JobSteps, SendSteps
<1>2. TypeOK /\ InfoInv /\ [Next]_vars => InfoInv'
  BY InfoStep
<1>3. TypeOK /\ InfoInv /\ [Next]_vars =>
        [info = 0 /\ info' > 0 => ~ Handling \/ blind]_vars
  <2>1. ASSUME TypeOK, InfoInv, [Next]_vars, info = 0, info' > 0
        PROVE  ~ Handling \/ blind
    <3>1. InfoAdmit
      BY <2>1 DEF Next, Worker, Cutter, vars, infoVars, Handshake,
         PollUnreadable, PollFlagged, PollTransition, AskBarcode, SendList,
         AskSelection, SetRegmark, SetCommandType, Stream, Stop, Start, Crash,
         CreateJob, DeleteJob, InfoQuery, StartScan, ReadBarcode, RivalOffers,
         ShowList, Determine, StartCut, PauseFailOrStop, MovesTo
    <3> QED
      BY <2>1, <3>1 DEF InfoAdmit, LooksIdle, InfoInv, Handling, ListSteps,
         JobSteps, SendSteps
  <2> QED BY <2>1
<1>4. Spec => []TypeOK
  BY TypeCorrect
<1> QED BY <1>1, <1>2, <1>3, <1>4, PTL DEF Spec, InfoStaysOut

-----------------------------------------------------------------------------
(* The worker and its cutter implement a scan cycle                        *)

LEMMA CycleStep ==
  ASSUME Inv, [Next]_vars PROVE [Cycle!Next]_(Cycle!cycleVars)
<1> USE DEF Cycle!Next, Cycle!cycleVars
<1>1. CASE UNCHANGED <<scanned, list, choice, received>>
  BY <1>1
<1>2. CASE StartScan
  BY <1>2 DEF StartScan, Cycle!Scan
<1>3. CASE ReadBarcode
  <2>1. scanned = NoBarcode
    BY <1>3, CutterMoves DEF ReadBarcode, Inv, CycleInv
  <2> QED BY <1>3, <2>1 DEF ReadBarcode, Cycle!Read
<1>4. CASE SendList
  <2>1. CASE TakesList /\ list' = metas
    <3>1. list = <<>> /\ scanned # NoBarcode /\ choice = 0
      BY <2>1 DEF TakesList, Inv, CycleInv
    <3>2. metas \in Seq(Job) /\ \A i \in DOMAIN metas : metas[i].barcode = scanned
      BY <1>4 DEF SendList, Inv, TypeOK, HandlerInv
    <3> QED BY <1>4, <2>1, <3>1, <3>2 DEF SendList, Cycle!Offer
  <2> QED BY <1>4, <1>1, <2>1 DEF SendList
<1>5. CASE Determine
  <2>1. choice = 0 /\ received = <<>>
    BY <1>5, CutterMoves, NothingSentBefore DEF Determine, Inv, CycleInv
  <2> QED BY <1>5, <2>1 DEF Determine, Cycle!Pick
<1>6. CASE Stream
  <2>1. choice \in DOMAIN list /\ selected = list[choice]
    BY <1>6 DEF Stream, Inv, HandlerInv, SendSteps
  <2>2. received \in Seq(Job) /\ selected \in Job
    BY <1>6 DEF Stream, Inv, TypeOK, SendSteps
  <2>3. Append(received, selected) = received \o [i \in 1..1 |-> selected]
    BY <2>2
  <2>4. <<selected, selected>> = [i \in 1..2 |-> selected]
    OBVIOUS
  <2>5. received' # received =>
          \E copies \in 1..2 : received' = received \o [i \in 1..copies |-> list[choice]]
    BY <1>6, <2>1, <2>3, <2>4 DEF Stream
  <2> QED BY <1>6, <2>1, <2>5 DEF Stream, Cycle!Hand
<1>7. CASE \/ CreateJob \/ DeleteJob \/ Handshake \/ PollUnreadable
           \/ PollFlagged \/ PollTransition \/ AskBarcode \/ AskSelection
           \/ SetRegmark \/ SetCommandType \/ Stop \/ Start \/ Crash
           \/ InfoAdmit \/ InfoQuery
  BY <1>7, <1>1 DEF CreateJob, DeleteJob, Handshake, PollUnreadable, PollFlagged,
     PollTransition, AskBarcode, AskSelection, SetRegmark, SetCommandType,
     Stop, Start, Crash, InfoAdmit, InfoQuery, cutterVars
<1>8. CASE RivalOffers \/ ShowList \/ StartCut \/ PauseFailOrStop
  BY <1>8, <1>1 DEF RivalOffers, ShowList, StartCut, PauseFailOrStop
<1>9. CASE UNCHANGED vars
  BY <1>9, <1>1 DEF vars, cutterVars
<1> QED
  BY <1>2, <1>3, <1>4, <1>5, <1>6, <1>7, <1>8, <1>9 DEF Next, Worker, Cutter

(* A served cutter goes through scan cycles as ScanCycle describes them    *)
(* (dls_worker.py 259-412).                                                *)
THEOREM CycleImplemented ==
  ASSUME "outrun" \notin Faults PROVE Spec => ImplementsScanCycle
<1>1. Init => Cycle!Init
  BY DEF Init, Cycle!Init
<1>2. Inv /\ [Next]_vars => [Cycle!Next]_(Cycle!cycleVars)
  BY CycleStep
<1>3. Spec => []Inv
  BY SafetyCorrect
<1> QED BY <1>1, <1>2, <1>3, PTL DEF Spec, ImplementsScanCycle, Cycle!Spec

=============================================================================
