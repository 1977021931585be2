------------------------------ MODULE DataLink ------------------------------
(***************************************************************************)
(* One Data Link worker of server/app/dls_worker.py, the cutter it polls,  *)
(* the job store both of them are fed from, and the /cutter/info endpoint  *)
(* that competes with the worker for the cutter's only connection.         *)
(*                                                                         *)
(* The worker is a thread that polls the cutter's status with ESC.d1 and,  *)
(* inside a scan cycle, answers it: ESC.d2 (which barcode), ESC.d3 (these  *)
(* jobs), ESC.d4 (which one), ESC.d5 and ESC.d6 (its marks and its command *)
(* type) and at last the job's bytes, which the cutter never answers.      *)
(* Every exchange is one atomic step, together with the computation up to  *)
(* the next one: between two steps the cutter's operator, the API and the  *)
(* hot folders do what they like.                                          *)
(***************************************************************************)
EXTENDS Integers, Sequences, SequencesExt

CONSTANTS
    Barcodes,        \* the barcode link infos in use
    NoBarcode,       \* no barcode has been read yet
    NameKinds,       \* the job names in the store: may be sent (TRUE) or not
    MaxJobs,         \* bound: the rows the store ever holds
    MaxJobsPerList,  \* the names one ESC.d3 carries (8 in the code)
    MaxDeliveries,   \* bound: the transmissions a cycle's cutter remembers
    Faults           \* what may go wrong in this instance

FaultKinds ==
  { "read",     \* a status poll fails
    "send",     \* a command cannot be sent before the retry budget is spent
    "reply",    \* a reply is lost, truncated or unintelligible
    "reject",   \* the cutter answers a legal command with an error
    "flag",     \* the cutter reports this server as out of protocol (d1 < 0)
    "vanish",   \* the job's bytes are sent but never reach the cutter
    "partial",  \* the connection drops while the job's bytes are being sent
    "store",    \* a query of the job store raises
    "crash",    \* the server process dies and is started again
    "stop",     \* the worker is stopped and started through the API
    "outrun",   \* a new scan begins while a handler is still running
    "rival",    \* another server, or another job source, serves the cutter
    "scale",    \* the cutter's step size is not the configured one
    "info" }    \* /cutter/info is called

ASSUME ConstantsAssumption ==
  /\ NoBarcode \notin Barcodes
  /\ NameKinds \subseteq BOOLEAN
  /\ {MaxJobs, MaxJobsPerList, MaxDeliveries} \subseteq Nat \ {0}
  /\ Faults \subseteq FaultKinds

VARIABLES
    jobs,       \* the rows of the jobs table
    lastId,     \* sqlite_sequence: the largest id ever given out
    pc,         \* where the worker's thread stands
    current,    \* _current_status, the last status read (or Unknown)
    standby,    \* _standby_mode
    lastError,  \* _last_error, by its cause
    metas,      \* _latest_job_metas, what the last query returned
    selected,   \* the job being sent, a local of _handle_job_determined
    refused,    \* regmark_response < 0, another local of it
    status,     \* the cutter's Data Link status
    scanned,    \* the cutter's barcode of this cycle
    owner,      \* whose list the cutter took in this cycle
    list,       \* the jobs of that list, in its order
    choice,     \* the position picked on the panel, 0 when none of the list's
    setup,      \* the job settings the cutter acknowledged in this cycle
    received,   \* the transmissions the cutter got in this cycle
    lost,       \* history: a poll failed, or a send broke off, after the cutter
                \* had some of this cycle's job
    info,       \* the steps a /cutter/info request has left, 0 without one
    blind       \* history: a poll failed, or the worker was started, since it
                \* read the last status 1

storeVars  == <<jobs, lastId>>
workerVars == <<pc, current, standby, lastError, metas, selected, refused>>
cutterVars == <<status, scanned, owner, list, choice, setup, received, lost>>
infoVars   == <<info, blind>>
vars == <<storeVars, workerVars, cutterVars, infoVars>>

Unknown == -999
Job == [id : 1..MaxJobs, barcode : Barcodes, printable : BOOLEAN]
NoJob == [id |-> 0, barcode |-> NoBarcode, printable |-> FALSE]

ListSteps == {"askBarcode", "sendList"}
SendSteps == {"regmark", "cmdType", "stream"}
JobSteps  == {"askSelection"} \cup SendSteps
Handling  == pc \in ListSteps \cup JobSteps

(* ALLOWED_SOURCE_STATUSES: the statuses each status may follow.           *)
AllowedSource ==
  [s \in 0..7 |->
     CASE s = 0 -> {1, 2, 3, 5, 6, 7, Unknown}
       [] s = 1 -> {0, 5, 6, Unknown}
       [] s = 2 -> {1, Unknown}
       [] s = 3 -> {2, Unknown}
       [] s = 4 -> {2, 3, 4, Unknown}
       [] s = 5 -> {4, 6, Unknown}
       [] s = 6 -> {1, 5, Unknown}
       [] s = 7 -> {1, 2, 3, 4, 5, 6, Unknown}]

IsAllowedTransition(src, dst) == src \in AllowedSource[dst]

(* /cutter/info asks for the model, the step size and the command setting, *)
(* and opens a connection for each: an odd number of steps is left while   *)
(* one of them is open, and the cutter answers nobody else.                *)
InfoQueries == 3
ConnectionFree == info % 2 = 0

-----------------------------------------------------------------------------
(* The job store                                                           *)

Matches(b) == {j \in jobs : j.barcode = b}

(* Mutant: the query forgets its WHERE clause.                             *)
QueryIgnoresBarcode(b) ==
  {q \in BoundedSeq(jobs, MaxJobsPerList) :
     \A i, k \in DOMAIN q : i < k => q[i].id > q[k].id}

(* find_job_metas_for_barcode: ORDER BY id DESC LIMIT MaxJobsPerList.      *)
QueryResults(b) ==
  {q \in BoundedSeq(Matches(b), MaxJobsPerList) :
     /\ \A i, k \in DOMAIN q : i < k => q[i].id > q[k].id
     /\ \A j \in Matches(b) \ ToSet(q) :
          Len(q) = MaxJobsPerList /\ \A i \in DOMAIN q : q[i].id > j.id}

(* Mutant: a rowid alias without AUTOINCREMENT, one above the largest row. *)
NewIdMayRepeat ==
  CHOOSE n \in 1..MaxJobs + 1 :
    /\ \A j \in jobs : j.id < n
    /\ n = 1 \/ \E j \in jobs : j.id = n - 1

(* INTEGER PRIMARY KEY AUTOINCREMENT: ids are never given out twice.       *)
NewId == lastId + 1

CreateJob ==
  /\ NewId <= MaxJobs
  /\ \E b \in Barcodes, p \in NameKinds :
       jobs' = jobs \cup {[id |-> NewId, barcode |-> b, printable |-> p]}
  /\ lastId' = NewId
  /\ UNCHANGED <<workerVars, cutterVars, infoVars>>

DeleteJob ==
  /\ \E j \in jobs : jobs' = jobs \ {j}
  /\ UNCHANGED <<lastId, workerVars, cutterVars, infoVars>>

-----------------------------------------------------------------------------
(* The worker: polling                                                     *)

(* The handshake of _read_cutter_configuration, whose exchanges only ever  *)
(* leave an error behind; one that fails is skipped.                       *)
Handshake ==
  /\ pc = "handshake"
  /\ pc' = "wait"
  /\ \/ UNCHANGED lastError
     \/ "scale" \in Faults /\ ConnectionFree /\ lastError' = "step"
  /\ UNCHANGED <<current, standby, metas, selected, refused,
                 storeVars, cutterVars, infoVars>>

(* A failed poll stores Unknown and reports; it does not enter standby.    *)
PollUnreadable ==
  /\ pc = "wait"
  /\ ~ ConnectionFree \/ "read" \in Faults
  /\ current' = Unknown
  /\ lastError' = "comm"
  /\ lost' = (lost \/ received # <<>>)
  /\ blind' = TRUE
  /\ UNCHANGED <<pc, standby, metas, selected, refused, storeVars, info,
                 status, scanned, owner, list, choice, setup, received>>

(* Mutant: the error is shown and the worker goes on.                      *)
ReportOnly == standby' = standby /\ lastError' = "standby"

EnterStandby == standby' = TRUE /\ lastError' = "standby"

(* An error code is no status: what is remembered is that there was none.  *)
StoredStatus(code) == IF code < 0 THEN Unknown ELSE code

(* A negative status, which the cutter keeps giving until it is back at 0. *)
PollFlagged ==
  /\ pc = "wait"
  /\ ConnectionFree /\ "flag" \in Faults /\ status # 0
  /\ EnterStandby
  /\ current' = StoredStatus(-1)
  /\ blind' = TRUE
  /\ UNCHANGED <<pc, metas, selected, refused, storeVars, cutterVars, info>>

(* Mutant: a new scan does not end standby.                                *)
ArmsOnlyOutOfStandby ==
  standby' = standby /\ metas' = <<>> /\ lastError' = "none" /\ current' = 1

(* Status 1 begins a cycle the worker takes part in.                       *)
Arm ==
  standby' = FALSE /\ metas' = <<>> /\ lastError' = "none" /\ current' = 1

(* A status that differs from the last one. An illegal one enters standby, *)
(* status 1 leaves it, and 2 and 4 start their handlers out of it: current *)
(* is only committed when the handler is done.                             *)
PollTransition ==
  /\ pc = "wait"
  /\ ConnectionFree
  /\ status # current
  /\ LET illegal == ~ IsAllowedTransition(current, status)
         idling  == standby \/ illegal
     IN  \/ status = 1 /\ Arm /\ blind' = FALSE /\ UNCHANGED pc
         \/ /\ status \in {2, 4} /\ ~ idling
            /\ pc' = IF status = 2 THEN "askBarcode" ELSE "askSelection"
            /\ UNCHANGED <<current, standby, metas, lastError, blind>>
         \/ /\ status # 1 /\ (status \in {2, 4} => idling)
            /\ standby' = idling
            /\ lastError' = IF illegal THEN "standby" ELSE lastError
            /\ current' = status
            /\ UNCHANGED <<pc, metas, blind>>
  /\ UNCHANGED <<selected, refused, storeVars, cutterVars, info>>

-----------------------------------------------------------------------------
(* The worker: its two handlers, exchange by exchange                      *)

(* _send_bytes_with_retry gives up before the command was sent ...         *)
Unsent == ~ ConnectionFree \/ "send" \in Faults
(* ... or it was sent, and no valid reply came back.                       *)
Unanswered == ConnectionFree /\ "reply" \in Faults

(* The handler returns to _poll_once, which commits the status it read.    *)
EndHandler ==
  /\ pc' = "wait"
  /\ current' = IF pc \in ListSteps THEN 2 ELSE 4
  /\ selected' = NoJob
  /\ refused' = FALSE

(* Mutant: an error ends the handler and nothing more.                     *)
AbortQuietly == EndHandler /\ UNCHANGED <<standby, lastError>>

Abort == EndHandler /\ EnterStandby
Return == EndHandler /\ UNCHANGED <<standby, lastError>>
Continue(step) == pc' = step /\ UNCHANGED <<current, standby, lastError>>

(* ESC.d2, and the query with its answer. An empty answer says the cutter  *)
(* has left status 2: the handler returns without an error.                *)
AskBarcode ==
  /\ pc = "askBarcode"
  /\ \/ /\ ConnectionFree /\ status = 2
        /\ metas' \in QueryResults(scanned)
        /\ Continue("sendList") /\ UNCHANGED <<selected, refused>>
     \/ ConnectionFree /\ status # 2 /\ Return /\ UNCHANGED metas
     \/ Unsent /\ Abort /\ UNCHANGED metas
     \/ Unanswered /\ Abort /\ UNCHANGED metas
     \/ ConnectionFree /\ "store" \in Faults /\ Abort /\ UNCHANGED metas
  /\ UNCHANGED <<storeVars, cutterVars, infoVars>>

(* The cutter takes one list in a cycle, while it is asking for one.       *)
TakesList == status = 2 /\ owner = "none"

(* ESC.d3. An unprintable name raises before anything is sent.             *)
SendList ==
  /\ pc = "sendList"
  /\ LET sendable == ConnectionFree /\ \A i \in DOMAIN metas : metas[i].printable
     IN  \/ /\ sendable /\ TakesList
            /\ list' = metas /\ owner' = "server"
            /\ Return \/ (Unanswered /\ Abort)
         \/ /\ sendable /\ (TakesList => "reject" \in Faults)
            /\ Abort /\ UNCHANGED <<list, owner>>
         \/ /\ \/ \E i \in DOMAIN metas : ~ metas[i].printable
               \/ Unsent
               \/ Unanswered
            /\ Abort /\ UNCHANGED <<list, owner>>
  /\ UNCHANGED <<metas, status, scanned, choice, setup, received, lost,
                 storeVars, infoVars>>

(* ESC.d4, and the row of the job it selects: an empty or out-of-range     *)
(* answer, and a job deleted since the query, end the handler.             *)
AskSelection ==
  /\ pc = "askSelection"
  /\ LET answered == ConnectionFree /\ status = 4 /\ choice \in DOMAIN metas
         rows == {j \in jobs : j.id = metas[choice].id}
     IN  \/ /\ answered
            /\ selected' \in rows
            /\ Continue("regmark") /\ UNCHANGED refused
         \/ /\ answered /\ (rows = {} \/ "store" \in Faults) /\ Abort
         \/ /\ ConnectionFree /\ ~ answered /\ Abort
         \/ Unsent /\ Abort
         \/ Unanswered /\ Abort
  /\ UNCHANGED <<metas, storeVars, cutterVars, infoVars>>

(* The cutter takes settings for a job of this server's list it waits for. *)
TakesSettings == status = 4 /\ choice # 0

(* ESC.d5. Its answer is only looked at after that of ESC.d6.              *)
SetRegmark ==
  /\ pc = "regmark"
  /\ \/ /\ ConnectionFree /\ TakesSettings
        /\ setup' = setup \cup {"regmark"}
        /\ \/ Continue("cmdType") /\ UNCHANGED <<selected, refused>>
           \/ Unanswered /\ Abort
     \/ /\ ConnectionFree /\ (TakesSettings => "reject" \in Faults)
        /\ refused' = TRUE
        /\ Continue("cmdType") /\ UNCHANGED <<selected, setup>>
     \/ (Unsent \/ Unanswered) /\ Abort /\ UNCHANGED setup
  /\ UNCHANGED <<metas, status, scanned, owner, list, choice, received, lost,
                 storeVars, infoVars>>

(* Mutant: only the answer to ESC.d6 is checked.                           *)
MaySendAfterRefusal == TRUE

(* The command type was accepted: what its regmark answer still decides.   *)
MaySend == ~ refused

(* ESC.d6, and the check of both answers.                                  *)
SetCommandType ==
  /\ pc = "cmdType"
  /\ \/ /\ ConnectionFree /\ TakesSettings
        /\ setup' = setup \cup {"type"}
        /\ \/ MaySend /\ Continue("stream") /\ UNCHANGED <<selected, refused>>
           \/ ~ MaySend /\ Abort
           \/ Unanswered /\ Abort
     \/ /\ ConnectionFree /\ (TakesSettings => "reject" \in Faults)
        /\ Abort /\ UNCHANGED setup
     \/ (Unsent \/ Unanswered) /\ Abort /\ UNCHANGED setup
  /\ UNCHANGED <<metas, status, scanned, owner, list, choice, received, lost,
                 storeVars, infoVars>>

(* The job's bytes. The worker only knows that they left: they may vanish, *)
(* and a send that breaks off may have left a prefix before its retry.     *)
Stream ==
  /\ pc = "stream"
  /\ \/ /\ ConnectionFree
        /\ received' = Append(received, selected)
        /\ Return /\ UNCHANGED lost
     \/ /\ ConnectionFree /\ "vanish" \in Faults
        /\ Return /\ UNCHANGED <<received, lost>>
     \/ /\ ConnectionFree /\ "partial" \in Faults
        /\ lost' = TRUE
        /\ \/ received' = Append(received, selected) /\ Abort
           \/ received' = received \o <<selected, selected>> /\ Return
     \/ Unsent /\ Abort /\ UNCHANGED <<received, lost>>
  /\ Len(received') <= MaxDeliveries
  /\ UNCHANGED <<metas, status, scanned, owner, list, choice, setup,
                 storeVars, infoVars>>

(* _run from its start: the fields of the worker are reset.                *)
Reset ==
  /\ pc' = "handshake"
  /\ standby' = TRUE
  /\ lastError' = "none"
  /\ current' = Unknown
  /\ metas' = <<>>
  /\ selected' = NoJob
  /\ refused' = FALSE
  /\ blind' = TRUE

(* stop(): the thread looks at its stop event between polls. Its fields    *)
(* stay as they are until start() has them reset.                          *)
Stop ==
  /\ "stop" \in Faults
  /\ pc = "wait"
  /\ pc' = "stopped"
  /\ UNCHANGED <<current, standby, lastError, metas, selected, refused,
                 storeVars, cutterVars, infoVars>>

Start ==
  /\ pc = "stopped"
  /\ Reset
  /\ UNCHANGED <<storeVars, cutterVars, info>>

(* The process ends anywhere; the lifespan handler starts a new worker.    *)
Crash ==
  /\ "crash" \in Faults
  /\ Reset
  /\ info' = 0
  /\ UNCHANGED <<storeVars, cutterVars>>

-----------------------------------------------------------------------------
(* /cutter/info, which goes by the status the worker published             *)

(* Mutant: the endpoint does not look at the worker's status.              *)
AnyStatus == TRUE

(* The guard of cutter_info.                                               *)
LooksIdle == pc = "stopped" \/ current \in {0, Unknown}

(* The guard is looked at once, before the first connection.               *)
InfoAdmit ==
  /\ "info" \in Faults
  /\ info = 0
  /\ LooksIdle
  /\ info' = 2 * InfoQueries
  /\ UNCHANGED <<storeVars, workerVars, cutterVars, blind>>

(* The next connection is opened, or answered and closed, or the request   *)
(* ends with an error. Between two of them the worker may poll.            *)
InfoQuery ==
  /\ info > 0
  /\ info' \in {info - 1, 0}
  /\ UNCHANGED <<storeVars, workerVars, cutterVars, blind>>

-----------------------------------------------------------------------------
(* The cutter, moved by its operator along the states of the protocol      *)

MovesTo(s) ==
  /\ status \in AllowedSource[s] \ {s}
  /\ status' = s
  /\ UNCHANGED <<storeVars, workerVars, infoVars>>

StartScan ==
  /\ MovesTo(1)
  /\ Handling => "outrun" \in Faults
  /\ scanned' = NoBarcode /\ owner' = "none" /\ list' = <<>>
  /\ choice' = 0 /\ setup' = {} /\ received' = <<>> /\ lost' = FALSE

(* The operator may be faster than the worker polls, which then never sees *)
(* status 1.                                                               *)
ReadBarcode ==
  /\ MovesTo(2)
  /\ scanned' \in Barcodes
  /\ UNCHANGED <<owner, list, choice, setup, received, lost>>

RivalOffers ==
  /\ "rival" \in Faults
  /\ TakesList
  /\ owner' = "rival"
  /\ UNCHANGED <<storeVars, workerVars, infoVars,
                 status, scanned, list, choice, setup, received, lost>>

ShowList ==
  /\ MovesTo(3)
  /\ owner = "rival" \/ Len(list) > 1
  /\ UNCHANGED <<scanned, owner, list, choice, setup, received, lost>>

(* A list of one is not shown; a rival's job may be picked in any case.    *)
Determine ==
  /\ MovesTo(4)
  /\ \/ /\ status = 2 => Len(list) = 1
        /\ choice' \in DOMAIN list
     \/ /\ "rival" \in Faults /\ owner # "none"
        /\ choice' = 0
  /\ UNCHANGED <<scanned, owner, list, setup, received, lost>>

(* Cutting begins with the job's data, ends at 0 or breaks off at 7.       *)
StartCut ==
  /\ MovesTo(5)
  /\ status = 4 => choice = 0 \/ received # <<>>
  /\ UNCHANGED <<scanned, owner, list, choice, setup, received, lost>>

PauseFailOrStop ==
  /\ \E s \in {6, 7, 0} : MovesTo(s)
  /\ UNCHANGED <<scanned, owner, list, choice, setup, received, lost>>

-----------------------------------------------------------------------------
Init ==
  /\ jobs = {} /\ lastId = 0
  /\ pc = "handshake" /\ current = Unknown /\ standby = TRUE
  /\ lastError = "none" /\ metas = <<>> /\ selected = NoJob /\ refused = FALSE
  /\ status = 0 /\ scanned = NoBarcode /\ owner = "none" /\ list = <<>>
  /\ choice = 0 /\ setup = {} /\ received = <<>> /\ lost = FALSE
  /\ info = 0 /\ blind = TRUE

Worker ==
  \/ Handshake \/ PollUnreadable \/ PollFlagged \/ PollTransition
  \/ AskBarcode \/ SendList
  \/ AskSelection \/ SetRegmark \/ SetCommandType \/ Stream

Cutter ==
  \/ StartScan \/ ReadBarcode \/ RivalOffers \/ ShowList \/ Determine
  \/ StartCut \/ PauseFailOrStop

Next ==
  \/ Worker \/ Stop \/ Start \/ Crash
  \/ CreateJob \/ DeleteJob
  \/ InfoAdmit \/ InfoQuery
  \/ Cutter

Spec == Init /\ [][Next]_vars

(* The worker's thread runs and a request ends; nothing hurries the        *)
(* operator.                                                               *)
FairSpec == Spec /\ WF_vars(Worker) /\ WF_vars(InfoQuery)

-----------------------------------------------------------------------------
(* Properties                                                              *)

(* Every variable keeps its type.                                          *)
TypeOK ==
  /\ jobs \subseteq Job
  /\ lastId \in 0..MaxJobs
  /\ pc \in {"handshake", "wait", "stopped"} \cup ListSteps \cup JobSteps
  /\ current \in 0..7 \cup {Unknown}
  /\ standby \in BOOLEAN
  /\ lastError \in {"none", "step", "comm", "standby"}
  /\ metas \in Seq(Job)
  /\ selected \in IF pc \in SendSteps THEN Job ELSE {NoJob}
  /\ refused \in BOOLEAN
  /\ status \in 0..7
  /\ scanned \in Barcodes \cup {NoBarcode}
  /\ owner \in {"none", "server", "rival"}
  /\ list \in Seq(Job)
  /\ choice \in Nat
  /\ setup \subseteq {"regmark", "type"}
  /\ received \in Seq(Job)
  /\ lost \in BOOLEAN
  /\ info \in 0..2 * InfoQueries
  /\ blind \in BOOLEAN

(* Whatever reaches the cutter in a cycle is the job its operator picked,  *)
(* off the list this server gave for it, with that job's own data: no      *)
(* stale list, deleted or re-numbered row puts another job on the sheet    *)
(* (dls_worker.py 368-390).                                                *)
DeliversTheSelection ==
  \A i \in DOMAIN received :
     choice \in DOMAIN list /\ received[i] = list[choice]

(* The jobs on the cutter's panel are jobs of the barcode it has scanned   *)
(* in this cycle (dls_worker.py 316-344).                                  *)
OfferMatchesScan == \A i \in DOMAIN list : list[i].barcode = scanned

(* No job's bytes reach a cutter that has not acknowledged the job's mark  *)
(* position and command type in this cycle (dls_worker.py 382-396).        *)
CutsAreRegistered == received # <<>> => setup = {"regmark", "type"}

(* A worker that serves indexes the very list the cutter shows, so a       *)
(* position means the same job to both (dls_worker.py 332-333 and 368-376).*)
ListsAgree ==
  owner = "server" /\ ~ standby /\ pc # "sendList" => metas = list

(* A determined job is sent once, whatever is rejected, lost or restarted  *)
(* on the way (dls_worker.py 259-310, protocol.py 39-44).                  *)
OneDelivery == Len(received) <= 1

(* The only ways to a second transmission are a status poll that fails     *)
(* after the first one, and a send that breaks off: no rejection, lost     *)
(* reply, restart, flag, rival or /cutter/info makes the worker send a     *)
(* job again (dls_worker.py 259-310, 352-412).                             *)
TwiceOnlyIfLost == OneDelivery \/ lost

(* The invariant the proofs of DataLink_proofs go through. The store: ids  *)
(* are unique, and a row queried before is the row that has its id now.    *)
StoreInv ==
  /\ \A j \in jobs : j.id <= lastId
  /\ \A j, k \in jobs : j.id = k.id => j = k
  /\ \A i \in DOMAIN metas :
       /\ metas[i].id <= lastId
       /\ \A j \in jobs : j.id = metas[i].id => j = metas[i]

(* The cutter: what a cycle has gathered by the status it is in.           *)
CycleInv ==
  /\ status = 1 => owner = "none" /\ scanned = NoBarcode
  /\ owner # "server" => list = <<>>
  /\ choice # 0 => choice \in DOMAIN list /\ status \notin {1, 2, 3}
  /\ scanned = NoBarcode => status \notin {2, 3, 4}

(* The worker: what is true while one of its handlers runs.                *)
HandlerInv ==
  /\ Handling => ~ standby /\ status # 1
  /\ pc = "sendList" => \A i \in DOMAIN metas : metas[i].barcode = scanned
  /\ pc \in SendSteps => choice \in DOMAIN list /\ selected = list[choice]
  /\ pc = "cmdType" /\ ~ refused => "regmark" \in setup
  /\ pc = "stream" => setup = {"regmark", "type"}

(* The five of them together are inductive: the list on the panel stays    *)
(* the worker's, row for row, until the job is on the cutter               *)
(* (dls_worker.py 259-412).                                                *)
Inv ==
  /\ TypeOK /\ StoreInv /\ CycleInv /\ HandlerInv
  /\ DeliversTheSelection /\ OfferMatchesScan /\ CutsAreRegistered /\ ListsAgree

(* The cutter's part of the state is a ScanCycle: list, pick and job never *)
(* change once they are made, and nothing is handed over before them.      *)
Cycle == INSTANCE ScanCycle WITH
  Jobs <- Job, barcode <- scanned, offer <- list, pick <- choice,
  handed <- received

ImplementsScanCycle == Cycle!Spec

(* /cutter/info is not let in while a handler is talking to the cutter,    *)
(* unless a poll has failed since the worker saw the scan begin. A request *)
(* that was let in before goes on (main.py 376-403).                       *)
InfoStaysOut == [][info = 0 /\ info' > 0 => ~ Handling \/ blind]_vars

(* Requests of /cutter/info may come at any time, and at last come no more.*)
RequestsEnd == <>[](info = 0)

(* A scan whose status 2 is news to the worker gets its list, or the       *)
(* worker says that it is out: it is never left at 2 with a worker that    *)
(* believes it is done. No news is a scan so fast that the worker has last *)
(* read status 2 in the scan before (dls_worker.py 275, 314-344).          *)
ScanIsAnswered ==
  RequestsEnd =>
    ((status = 2 /\ owner = "none" /\ ~ standby /\ current # 2) ~>
       (owner # "none" \/ standby \/ status # 2))

(* A job determined for a serving worker is delivered, or the worker says  *)
(* that it is not: no failure on the way is silent (dls_worker.py 352-412).*)
NoSilentLoss ==
  RequestsEnd =>
    ((status = 4 /\ choice # 0 /\ ~ standby) ~>
       (received # <<>> \/ standby \/ status # 4))

(* A worker in standby serves again from the next scan it is left the time *)
(* to see, whatever request has kept it from its polls before              *)
(* (dls_worker.py 296-302).                                                *)
Rearms ==
  RequestsEnd =>
    ((status = 1) ~> (status # 1 \/ (~ standby /\ current = 1)))

=============================================================================
