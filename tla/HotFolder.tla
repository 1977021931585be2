------------------------------ MODULE HotFolder ------------------------------
(***************************************************************************)
(* The cut hot folder of server/app/ingest_worker.py: producers copy PDFs, *)
(* some with a sidecar JSON of the same stem, into the inbox while the     *)
(* worker polls it. A poll lists the PDFs with their ages, and then looks  *)
(* at one after the other: old enough, its sidecar settled, read, moved to *)
(* processed/, and only then inserted into the job store; whatever raises  *)
(* moves what is still there to the error folder. Producers never wait for *)
(* the worker, and a copy takes its time.                                  *)
(*                                                                         *)
(* Ages stand for mtimes: the code only ever subtracts them from the time  *)
(* at which the poll began.                                                *)
(***************************************************************************)
EXTENDS Naturals, Sequences

CONSTANTS
    Stems,     \* file names without their suffix
    MaxDrops,  \* bound: the drops of one stem
    MinAge,    \* INGEST_FILE_MIN_AGE_SECONDS
    PollWait,  \* INGEST_POLL_INTERVAL_SECONDS
    MaxBusy,   \* bound: how long the worker is busy in one poll
    Faults     \* what may go wrong in this instance

FaultKinds ==
  { "crash",   \* the process dies and is started again
    "bad",     \* a file that cannot be imported
    "insert",  \* create_job raises
    "move",    \* moving a file raises
    "vanish",  \* a PDF is taken back out of the inbox
    "reuse",   \* a stem is dropped again before its files have left the inbox
    "late" }   \* a sidecar comes when the worker has given up waiting for it

ASSUME HotFolderAssumption ==
  /\ {MaxDrops, MinAge, PollWait, MaxBusy} \subseteq Nat \ {0}
  /\ Faults \subseteq FaultKinds

Kinds == {"pdf", "sidecar"}
AgeCap == MinAge + PollWait + MaxBusy
File == [gen : 1..MaxDrops, whole : BOOLEAN, paired : BOOLEAN, age : 0..AgeCap]
NoFile == [gen |-> 0]

VARIABLES
    drops,      \* the drops of each stem so far
    owes,       \* the files its latest drop has yet to begin
    pairing,    \* that drop has a sidecar
    inbox,      \* the files in the inbox, by stem and kind
    step,       \* where the worker stands
    queue,      \* the candidates it has not looked at: their stems and ages
    elapsed,    \* the time since the poll began
    cur,        \* the file it works on, and what it has read of it
    processed,  \* the PDFs in processed/
    errors,     \* the PDFs in the error folder
    jobs,       \* the jobs inserted
    parted      \* history: the stems whose sidecar may have lost its PDF

producerVars == <<drops, owes, pairing>>
workerVars == <<step, queue, elapsed, cur>>
vars == <<producerVars, inbox, workerVars, processed, errors, jobs, parted>>

Pdf(s) == inbox[s]["pdf"]
Sidecar(s) == inbox[s]["sidecar"]
Put(s, k, f) == inbox' = [inbox EXCEPT ![s][k] = f]

NoWork == [stem |-> "none"]
Start(s, side) ==
  [stem |-> s, side |-> side, meta |-> 0, gen |-> 0, paired |-> FALSE, half |-> FALSE]

-----------------------------------------------------------------------------
(* The producers and the time                                              *)

BeginDrop(s) ==
  /\ drops[s] < MaxDrops /\ owes[s] = {}
  /\ "reuse" \in Faults \/ \A k \in Kinds : inbox[s][k] = NoFile
  /\ drops' = [drops EXCEPT ![s] = @ + 1]
  /\ \E paired \in BOOLEAN :
       /\ owes' = [owes EXCEPT ![s] = IF paired THEN Kinds ELSE {"pdf"}]
       /\ pairing' = [pairing EXCEPT ![s] = paired]
  /\ UNCHANGED <<inbox, workerVars, processed, errors, jobs, parted>>

(* A copy begins; one of the same name is overwritten.                     *)
BeginFile(s, k) ==
  /\ k \in owes[s]
  /\ owes' = [owes EXCEPT ![s] = @ \ {k}]
  /\ Put(s, k, [gen |-> drops[s], whole |-> FALSE, paired |-> pairing[s], age |-> 0])
  /\ UNCHANGED <<drops, pairing, workerVars, processed, errors, jobs, parted>>

Copying(s, k) == inbox[s][k] # NoFile /\ ~ inbox[s][k].whole

CopyMore(s, k) ==
  /\ Copying(s, k) /\ inbox[s][k].age # 0
  /\ inbox' = [inbox EXCEPT ![s][k].age = 0]
  /\ UNCHANGED <<producerVars, workerVars, processed, errors, jobs, parted>>

FinishCopy(s, k) ==
  /\ Copying(s, k)
  /\ inbox' = [inbox EXCEPT ![s][k].age = 0, ![s][k].whole = TRUE]
  /\ UNCHANGED <<producerVars, workerVars, processed, errors, jobs, parted>>

Withdraw(s) ==
  /\ "vanish" \in Faults
  /\ Pdf(s) # NoFile
  /\ Put(s, "pdf", NoFile)
  /\ UNCHANGED <<producerVars, workerVars, processed, errors, jobs>>
  /\ parted' = parted \cup {s}

Older(f) ==
  IF f = NoFile THEN f ELSE [f EXCEPT !.age = IF @ < AgeCap THEN @ + 1 ELSE @]

(* A copy does not pause for MinAge, and unless it may be late a sidecar   *)
(* is begun before the worker stops waiting for it.                        *)
Tick ==
  /\ \A s \in Stems, k \in Kinds : Copying(s, k) => inbox[s][k].age + 1 < MinAge
  /\ \A s \in Stems :
       Pdf(s) # NoFile /\ "sidecar" \in owes[s] =>
         "late" \in Faults \/ Pdf(s).age + 1 < MinAge + PollWait
  /\ step # "idle" => elapsed < MaxBusy
  /\ elapsed' = IF step = "idle" THEN 0 ELSE elapsed + 1
  /\ inbox' = [s \in Stems |-> [k \in Kinds |-> Older(inbox[s][k])]]
  /\ UNCHANGED <<producerVars, step, queue, cur, processed, errors, jobs, parted>>

-----------------------------------------------------------------------------
(* The worker                                                              *)

(* _poll_once: the PDFs there are, with the ages they have now.            *)
ListInbox ==
  /\ step = "idle"
  /\ LET listed == {s \in Stems : Pdf(s) # NoFile}
     IN  listed # {} /\ queue' = {[stem |-> s, age |-> Pdf(s).age] : s \in listed}
  /\ step' = "look" /\ elapsed' = 0
  /\ UNCHANGED <<producerVars, inbox, cur, processed, errors, jobs, parted>>

(* Mutant: a sidecar is taken as soon as it is there.                      *)
SidecarThere(s) == Sidecar(s) # NoFile

(* A sidecar that has not changed for MinAge before the poll began.        *)
SidecarSettled(s) == Sidecar(s) # NoFile /\ Sidecar(s).age >= MinAge + elapsed

(* Mutant: a PDF without a sidecar does not wait for one.                  *)
WaitedEnough(c) == c.age >= MinAge

(* Without a sidecar, a PDF waits one more poll for it.                    *)
WaitedForSidecar(c) == c.age >= MinAge + PollWait

Ready(c) ==
  /\ c.age >= MinAge
  /\ \/ SidecarSettled(c.stem)
     \/ Sidecar(c.stem) = NoFile /\ WaitedForSidecar(c)

(* The oldest candidate that is left: taken up or left for another poll.   *)
LookAt ==
  /\ step = "look"
  /\ \E c \in queue :
       /\ \A d \in queue : d.age <= c.age
       /\ queue' = queue \ {c}
       /\ \/ /\ Ready(c)
             /\ cur' = Start(c.stem, Sidecar(c.stem) # NoFile)
             /\ step' = "readSidecar"
          \/ ~ Ready(c) /\ UNCHANGED <<step, cur>>
  /\ UNCHANGED <<producerVars, inbox, elapsed, processed, errors, jobs, parted>>

PollEnds ==
  /\ step = "look" /\ queue = {}
  /\ step' = "idle" /\ elapsed' = 0
  /\ UNCHANGED <<producerVars, inbox, queue, cur, processed, errors, jobs, parted>>

(* A file that is not there any more is not moved.                         *)
Gone(f) == f = NoFile

(* Mutant: the sidecar of an imported PDF stays where it is.               *)
LeaveSidecar == [read |-> "movePdf", movePdf |-> "insert",
                 moveSidecar |-> "insert", insert |-> "look"]

(* Mutant: the job is inserted first and its file moved afterwards.        *)
InsertFirst == [read |-> "insert", insert |-> "movePdf",
                movePdf |-> "moveSidecar", moveSidecar |-> "look"]

(* The rest of _process_single_file: "Move the files out of the inbox      *)
(* BEFORE inserting the job".                                              *)
Order == [read |-> "movePdf", movePdf |-> "moveSidecar",
          moveSidecar |-> "insert", insert |-> "look"]

Advance(from) ==
  /\ step' = Order[from]
  /\ UNCHANGED <<queue, elapsed>>

(* Mutant: what raises is noted, and the files stay.                       *)
RaiseAndLeave ==
  /\ step' = "look"
  /\ UNCHANGED <<queue, elapsed>>

Raise ==
  /\ step' = "errorPdf"
  /\ UNCHANGED <<queue, elapsed>>

(* _load_metadata; a JSON that is still being written does not parse.      *)
ReadSidecar ==
  /\ step = "readSidecar"
  /\ \/ ~ cur.side /\ step' = "readPdf" /\ UNCHANGED <<cur, queue, elapsed>>
     \/ /\ cur.side /\ Sidecar(cur.stem) # NoFile /\ Sidecar(cur.stem).whole
        /\ cur' = [cur EXCEPT !.meta = Sidecar(cur.stem).gen]
        /\ step' = "readPdf" /\ UNCHANGED <<queue, elapsed>>
     \/ /\ cur.side /\ Sidecar(cur.stem) # NoFile
        /\ ~ Sidecar(cur.stem).whole \/ "bad" \in Faults
        /\ cur' = [cur EXCEPT !.half = ~ Sidecar(cur.stem).whole]
        /\ Raise
  /\ UNCHANGED <<producerVars, inbox, processed, errors, jobs, parted>>

(* The bytes of the PDF and their conversion, which half a file may pass.  *)
ReadPdf ==
  /\ step = "readPdf"
  /\ LET f == Pdf(cur.stem)
     IN  \/ /\ f # NoFile
            /\ cur' = [cur EXCEPT !.gen = f.gen, !.paired = f.paired, !.half = ~ f.whole]
            /\ \/ Advance("read")
               \/ (~ f.whole \/ "bad" \in Faults) /\ Raise
         \/ f = NoFile /\ Raise /\ UNCHANGED cur
  /\ UNCHANGED <<producerVars, inbox, processed, errors, jobs, parted>>

(* _move_to_folder with the PDF that has the name now.                     *)
MovePdf ==
  /\ step = "movePdf"
  /\ LET f == Pdf(cur.stem)
     IN  \/ /\ ~ Gone(f)
            /\ processed' = processed \cup {[stem |-> cur.stem, gen |-> f.gen]}
            /\ Put(cur.stem, "pdf", NoFile)
            /\ Advance("movePdf")
         \/ (Gone(f) \/ "move" \in Faults) /\ Raise /\ UNCHANGED <<processed, inbox>>
  /\ UNCHANGED <<producerVars, cur, errors, jobs, parted>>

MoveSidecar ==
  /\ step = "moveSidecar"
  /\ \/ /\ cur.side => Sidecar(cur.stem) = NoFile
        /\ Advance("moveSidecar") /\ UNCHANGED inbox
     \/ /\ cur.side /\ Sidecar(cur.stem) # NoFile
        /\ \/ Put(cur.stem, "sidecar", NoFile) /\ Advance("moveSidecar")
           \/ "move" \in Faults /\ Raise /\ UNCHANGED inbox
  /\ UNCHANGED <<producerVars, cur, processed, errors, jobs, parted>>

JobOf(c) ==
  [stem |-> c.stem, gen |-> c.gen, paired |-> c.paired, meta |-> c.meta]

(* create_job, and the end of the file.                                    *)
InsertJob ==
  /\ step = "insert"
  /\ \/ jobs' = Append(jobs, JobOf(cur)) /\ Advance("insert")
     \/ "insert" \in Faults /\ Raise /\ UNCHANGED jobs
  /\ UNCHANGED <<producerVars, inbox, cur, processed, errors, parted>>

(* _handle_ingest_error: each file that has the name now, if it moves.     *)
ErrorPdf ==
  /\ step = "errorPdf"
  /\ LET f == Pdf(cur.stem)
     IN  \/ /\ ~ Gone(f)
            /\ errors' = errors \cup {[stem |-> cur.stem, gen |-> f.gen]}
            /\ Put(cur.stem, "pdf", NoFile)
            /\ step' = "errorSidecar"
         \/ Gone(f) /\ step' = "errorSidecar" /\ UNCHANGED <<inbox, errors>>
         \/ ~ Gone(f) /\ "move" \in Faults /\ step' = "look" /\ UNCHANGED <<inbox, errors>>
  /\ UNCHANGED <<producerVars, queue, elapsed, cur, processed, jobs, parted>>

ErrorSidecar ==
  /\ step = "errorSidecar"
  /\ step' = "look"
  /\ \/ cur.side /\ Put(cur.stem, "sidecar", NoFile) /\ UNCHANGED parted
     \/ ~ cur.side /\ UNCHANGED <<inbox, parted>>
     \/ /\ cur.side /\ "move" \in Faults
        /\ UNCHANGED inbox /\ parted' = parted \cup {cur.stem}
  /\ UNCHANGED <<producerVars, queue, elapsed, cur, processed, errors, jobs>>

(* The process dies; a stopped worker is gone in the same way, but only    *)
(* between two files.                                                      *)
Crash ==
  /\ "crash" \in Faults
  /\ step # "idle"
  /\ step' = "idle" /\ queue' = {} /\ elapsed' = 0 /\ cur' = NoWork
  /\ UNCHANGED <<producerVars, inbox, processed, errors, jobs>>
  /\ parted' = parted \cup ({cur.stem} \cap Stems)

-----------------------------------------------------------------------------
Init ==
  /\ drops = [s \in Stems |-> 0]
  /\ owes = [s \in Stems |-> {}]
  /\ pairing = [s \in Stems |-> FALSE]
  /\ inbox = [s \in Stems |-> [k \in Kinds |-> NoFile]]
  /\ step = "idle" /\ queue = {} /\ elapsed = 0 /\ cur = NoWork
  /\ processed = {} /\ errors = {} /\ jobs = <<>> /\ parted = {}

Producer ==
  \E s \in Stems :
    \/ BeginDrop(s) \/ Withdraw(s)
    \/ \E k \in Kinds : BeginFile(s, k) \/ CopyMore(s, k) \/ FinishCopy(s, k)

Worker ==
  \/ ListInbox \/ LookAt \/ PollEnds
  \/ ReadSidecar \/ ReadPdf
  \/ MovePdf \/ MoveSidecar \/ InsertJob
  \/ ErrorPdf \/ ErrorSidecar

Next == Producer \/ Tick \/ Worker \/ Crash

Spec == Init /\ [][Next]_vars

(* The worker's thread runs, time passes, and producers finish what they   *)
(* have begun.                                                             *)
FairSpec ==
  /\ Spec
  /\ WF_vars(Worker) /\ WF_vars(Tick)
  /\ \A s \in Stems, k \in Kinds :
       WF_vars(BeginFile(s, k)) /\ WF_vars(FinishCopy(s, k))

-----------------------------------------------------------------------------
(* Properties                                                              *)

(* Every variable keeps its type.                                          *)
TypeOK ==
  /\ drops \in [Stems -> 0..MaxDrops]
  /\ owes \in [Stems -> SUBSET Kinds]
  /\ pairing \in [Stems -> BOOLEAN]
  /\ inbox \in [Stems -> [Kinds -> File \cup {NoFile}]]
  /\ step \in {"idle", "look", "readSidecar", "readPdf", "movePdf",
               "moveSidecar", "insert", "errorPdf", "errorSidecar"}
  /\ queue \subseteq [stem : Stems, age : 0..AgeCap]
  /\ elapsed \in 0..MaxBusy
  /\ cur.stem \in Stems \cup {NoWork.stem}
  /\ processed \subseteq [stem : Stems, gen : 1..MaxDrops]
  /\ errors \subseteq [stem : Stems, gen : 1..MaxDrops]
  /\ parted \subseteq Stems

(* Neither a PDF nor a sidecar is read while it is still being copied,     *)
(* though the age it was picked for is that of an earlier moment           *)
(* (ingest_worker.py 133-170).                                             *)
NoHalfRead == cur # NoWork => ~ cur.half

(* One drop makes one job at most, whatever fails or dies between reading  *)
(* it and inserting it (ingest_worker.py 207-233).                         *)
OneJobPerDrop ==
  \A i, j \in DOMAIN jobs :
    jobs[i].stem = jobs[j].stem /\ jobs[i].gen = jobs[j].gen => i = j

(* A PDF gets the metadata it was dropped with: its own sidecar's, and     *)
(* none of a sidecar of another drop (ingest_worker.py 148-170, 250-262).  *)
PairedRight ==
  \A i \in DOMAIN jobs :
    jobs[i].meta = IF jobs[i].paired THEN jobs[i].gen ELSE 0

(* A job's PDF is in processed/, not in the error folder or the inbox, and *)
(* the same drop is never in both (ingest_worker.py 207-219, 304-308).     *)
FiledOnce ==
  /\ \A i \in DOMAIN jobs : [stem |-> jobs[i].stem, gen |-> jobs[i].gen] \in processed
  /\ processed \cap errors = {}

(* The kind of file that a step moves, and a move that leaves it there.    *)
Moves == [movePdf |-> "pdf", errorPdf |-> "pdf",
          moveSidecar |-> "sidecar", errorSidecar |-> "sidecar"]

FailedMove ==
  /\ step \in DOMAIN Moves /\ step' # step
  /\ Moves[step] = "sidecar" => cur.side
  /\ inbox[cur.stem][Moves[step]] # NoFile
  /\ inbox' = inbox

(* From some moment on the process lives and files can be moved.           *)
Calm == <>[][~ Crash /\ ~ FailedMove]_vars

(* A drop leaves the inbox: no age, sidecar, failed neighbour, earlier     *)
(* crash or earlier failed move keeps a finished PDF there for good        *)
(* (ingest_worker.py 106-170, 304-332).                                    *)
DropsSettle ==
  Calm => \A s \in Stems : (Pdf(s) # NoFile /\ Pdf(s).whole) ~> (Pdf(s) = NoFile)

(* Neither does a sidecar stay behind, unless its PDF was withdrawn or a   *)
(* crash or a failed move came between the two (ingest_worker.py 148-170,  *)
(* 211-219, 309-332).                                                      *)
SidecarsSettle ==
  Calm =>
    \A s \in Stems :
      (Sidecar(s) # NoFile /\ Sidecar(s).whole)
        ~> (Sidecar(s) = NoFile \/ s \in parted)

=============================================================================
