---------------------------- MODULE PrintPrepare ----------------------------
(***************************************************************************)
(* Print preparation: prepare_print (server/app/print_prepare.py) turns a  *)
(* print PDF into a marked sheet and a cut job that share one barcode. It  *)
(* runs in the thread of the print hot folder (print_worker.py) and in one *)
(* thread for each call of POST /print/prepare (main.py), all on one job   *)
(* store whose lock guards the barcode counter and the jobs (storage.py).  *)
(*                                                                         *)
(* A design is the content of one submitted PDF. A code is the number of a *)
(* minted barcode or a code the submitter names; NoCode asks for a minted  *)
(* one. The geometry of the page is the choice of whether it is accepted.  *)
(***************************************************************************)
EXTENDS Naturals, Sequences

CONSTANTS
    Designs,    \* the PDFs that may be submitted
    Callers,    \* threads of POST /print/prepare
    Folder,     \* the thread of the print hot folder
    Nobody,     \* the lock is free
    NoCode,     \* the submitter names no barcode
    NamedCodes, \* the barcodes that submitters name
    CodeSpace,  \* the minted barcodes there are: 36 ^ (9 - the prefix's length)
    MaxMints,   \* bound: calls of allocate_barcode
    MaxJobs,    \* bound: jobs inserted
    Faults      \* what may go wrong in this instance

FaultKinds ==
  { "crash",   \* the process dies and is started again
    "bad",     \* a PDF is refused, before or after its code is minted
    "insert",  \* create_job raises
    "write",   \* the sheet is not written, or its response is lost
    "move" }   \* moving a file raises

Processes == Callers \cup {Folder}

ASSUME PrintPrepareAssumption ==
  /\ Designs # {}
  /\ Folder \notin Callers
  /\ Nobody \notin Processes
  /\ CodeSpace \in Nat /\ MaxMints \in Nat /\ MaxJobs \in Nat
  /\ NoCode \notin Nat /\ NoCode \notin NamedCodes
  /\ Faults \subseteq FaultKinds

VARIABLES
    unused,     \* the designs not submitted yet
    inbox,      \* the files in the print inbox
    pc,         \* what each thread does next
    work,       \* the submission it works on
    counter,    \* the value of the barcode counter
    lock,       \* who holds the store's lock
    jobs,       \* the jobs, in the order they were inserted
    sheets,     \* the marked PDFs that were handed out
    processed,  \* the designs in processed/
    errors,     \* the designs in the error folder
    spoilt      \* history: the designs that a crash or a failed move left behind

fileVars == <<inbox, processed, errors>>
storeVars == <<counter, lock, jobs>>
vars == <<unused, fileVars, pc, work, storeVars, sheets, spoilt>>

Codes == NamedCodes \cup (1..CodeSpace)
Submission == [design : Designs, named : BOOLEAN, code : Codes \cup {NoCode}]
Artifact == [design : Designs, named : BOOLEAN, code : Codes]

Submit(d, c) == [design |-> d, named |-> c # NoCode, code |-> c]

Goto(p, step) == pc' = [pc EXCEPT ![p] = step]

(* Mutant: the file of a failed preparation stays in the inbox.            *)
LeaveOnError(p) == Goto(p, "idle")

(* prepare_print raises: a 400 for the caller; the worker moves the file.  *)
Fail(p) == Goto(p, IF p = Folder THEN "error" ELSE "idle")

(* Mutant: the sheet is handed out before its job is registered.           *)
SheetFirst == [layout |-> "release", release |-> "insert", insert |-> "moveAway"]

(* create_job is the last step of prepare_print.                           *)
Order == [layout |-> "insert", insert |-> "release", release |-> "moveAway"]

(* Only the worker has a file to move.                                     *)
Proceed(p, from) ==
  Goto(p, IF p # Folder /\ Order[from] = "moveAway" THEN "idle" ELSE Order[from])

-----------------------------------------------------------------------------
(* Submissions                                                             *)

Drop(d) ==
  /\ d \in unused
  /\ unused' = unused \ {d}
  /\ \E c \in NamedCodes \cup {NoCode} : inbox' = inbox \cup {Submit(d, c)}
  /\ UNCHANGED <<processed, errors, pc, work, storeVars, sheets, spoilt>>

Call(p, d) ==
  /\ p \in Callers /\ pc[p] = "idle"
  /\ d \in unused
  /\ unused' = unused \ {d}
  /\ \E c \in NamedCodes \cup {NoCode} : work' = [work EXCEPT ![p] = Submit(d, c)]
  /\ Goto(p, "extract")
  /\ UNCHANGED <<fileVars, storeVars, sheets, spoilt>>

(* print_worker: the next file of a poll.                                  *)
PickFile ==
  /\ pc[Folder] = "idle"
  /\ \E f \in inbox : work' = [work EXCEPT ![Folder] = f]
  /\ Goto(Folder, "extract")
  /\ UNCHANGED <<unused, fileVars, storeVars, sheets, spoilt>>

-----------------------------------------------------------------------------
(* prepare_print                                                           *)

(* The cut paths; the code is minted unless it is named.                   *)
Extract(p) ==
  /\ pc[p] = "extract"
  /\ \/ ~ work[p].named /\ Goto(p, "mint")
     \/ work[p].named /\ Goto(p, "layout")
     \/ "bad" \in Faults /\ Fail(p)
  /\ UNCHANGED <<unused, fileVars, work, storeVars, sheets, spoilt>>

(* Mutant: the store is used without its lock.                             *)
NoLock(p) == TRUE

LockIsFree(p) == lock = Nobody

(* allocate_barcode: the counter's upsert ...                              *)
BumpCounter(p) ==
  /\ pc[p] = "mint"
  /\ LockIsFree(p) /\ counter < MaxMints
  /\ lock' = p
  /\ counter' = counter + 1
  /\ Goto(p, "fetch")
  /\ UNCHANGED <<unused, fileVars, work, jobs, sheets, spoilt>>

(* ... and the value that is read back, when it still has a barcode.       *)
FetchCounter(p) ==
  /\ pc[p] = "fetch"
  /\ lock' = Nobody
  /\ \/ /\ counter <= CodeSpace
        /\ work' = [work EXCEPT ![p].code = counter]
        /\ Goto(p, "layout")
     \/ counter > CodeSpace /\ Fail(p) /\ UNCHANGED work
  /\ UNCHANGED <<unused, fileVars, counter, jobs, sheets, spoilt>>

(* Page size, keep-clear zones, the cut inside the marks.                  *)
Layout(p) ==
  /\ pc[p] = "layout"
  /\ Proceed(p, "layout") \/ ("bad" \in Faults /\ Fail(p))
  /\ UNCHANGED <<unused, fileVars, work, storeVars, sheets, spoilt>>

Insert(p) ==
  /\ pc[p] = "insert"
  /\ LockIsFree(p)
  /\ Len(jobs) < MaxJobs
  /\ \/ jobs' = Append(jobs, work[p]) /\ Proceed(p, "insert")
     \/ "insert" \in Faults /\ Fail(p) /\ UNCHANGED jobs
  /\ UNCHANGED <<unused, fileVars, work, counter, lock, sheets, spoilt>>

(* The response, or the file in the outbox.                                *)
Release(p) ==
  /\ pc[p] = "release"
  /\ \/ sheets' = sheets \cup {work[p]} /\ Proceed(p, "release")
     \/ "write" \in Faults /\ Fail(p) /\ UNCHANGED sheets
  /\ UNCHANGED <<unused, fileVars, work, storeVars, spoilt>>

-----------------------------------------------------------------------------
(* The rest of print_worker's _process                                     *)

FilesOf(d) == {f \in inbox : f.design = d}

MoveAway ==
  /\ pc[Folder] = "moveAway"
  /\ \/ /\ inbox' = inbox \ FilesOf(work[Folder].design)
        /\ processed' = processed \cup {work[Folder].design}
        /\ Goto(Folder, "idle")
     \/ "move" \in Faults /\ Fail(Folder) /\ UNCHANGED <<inbox, processed>>
  /\ UNCHANGED <<unused, errors, work, storeVars, sheets, spoilt>>

HandleError ==
  /\ pc[Folder] = "error"
  /\ Goto(Folder, "idle")
  /\ \/ /\ inbox' = inbox \ FilesOf(work[Folder].design)
        /\ errors' = errors \cup {work[Folder].design}
        /\ UNCHANGED spoilt
     \/ /\ "move" \in Faults
        /\ spoilt' = spoilt \cup {work[Folder].design}
        /\ UNCHANGED <<inbox, errors>>
  /\ UNCHANGED <<unused, processed, work, storeVars, sheets>>

(* The process dies with all its threads; files and database stay.         *)
Crash ==
  /\ "crash" \in Faults
  /\ pc' = [p \in Processes |-> "idle"]
  /\ lock' = Nobody
  /\ spoilt' = IF pc[Folder] = "idle" THEN spoilt
               ELSE spoilt \cup {work[Folder].design}
  /\ UNCHANGED <<unused, fileVars, work, counter, jobs, sheets>>

-----------------------------------------------------------------------------
Init ==
  /\ unused = Designs
  /\ inbox = {} /\ processed = {} /\ errors = {}
  /\ pc = [p \in Processes |-> "idle"]
  /\ work = [p \in Processes |-> Submit(CHOOSE d \in Designs : TRUE, NoCode)]
  /\ counter = 0 /\ lock = Nobody
  /\ jobs = <<>> /\ sheets = {} /\ spoilt = {}

Prepare(p) ==
  \/ Extract(p) \/ BumpCounter(p) \/ FetchCounter(p)
  \/ Layout(p) \/ Insert(p) \/ Release(p)

Worker == PickFile \/ Prepare(Folder) \/ MoveAway \/ HandleError

Next ==
  \/ \E d \in Designs : Drop(d) \/ \E p \in Callers : Call(p, d)
  \/ \E p \in Callers : Prepare(p)
  \/ Worker
  \/ Crash

Spec == Init /\ [][Next]_vars

(* Every thread runs; calls are finite, so nobody waits for the lock for   *)
(* ever.                                                                   *)
FairSpec == Spec /\ WF_vars(Worker) /\ \A p \in Callers : WF_vars(Prepare(p))

-----------------------------------------------------------------------------
(* Properties                                                              *)

(* Every variable keeps its type; what is registered or handed out always  *)
(* has a barcode.                                                          *)
TypeOK ==
  /\ unused \subseteq Designs
  /\ inbox \subseteq Submission
  /\ processed \subseteq Designs /\ errors \subseteq Designs
  /\ pc \in [Processes -> {"idle", "extract", "mint", "fetch", "layout",
                           "insert", "release", "moveAway", "error"}]
  /\ work \in [Processes -> Submission]
  /\ counter \in 0..MaxMints
  /\ lock \in Processes \cup {Nobody}
  /\ jobs \in Seq(Artifact)
  /\ sheets \subseteq Artifact
  /\ spoilt \subseteq Designs

(* A minted barcode is that of one design only: neither threads that mint  *)
(* at the same time nor refused pages, crashes or the end of the counter's *)
(* space give a code out twice (storage.py 60-85).                         *)
MintedOnce ==
  \A i, j \in DOMAIN jobs :
    jobs[i].code = jobs[j].code /\ ~ jobs[i].named =>
      jobs[i].design = jobs[j].design

Prepared(p) == pc[p] \in {"layout", "insert", "release", "moveAway"}
Minted(p) == Prepared(p) /\ ~ work[p].named
InUse(code) == code \in 1..counter /\ (lock # Nobody => code < counter)

(* Only the thread that is between the upsert and its read has the lock.   *)
LockInv ==
  /\ \A p \in Processes : pc[p] = "fetch" <=> lock = p
  /\ lock # Nobody => counter > 0

(* A code that was not minted is a named one, and none is minted for it.   *)
NameInv ==
  /\ \A f \in inbox : f.named => f.code \in NamedCodes
  /\ \A p \in Processes :
       work[p].named => work[p].code \in NamedCodes /\ pc[p] \notin {"mint", "fetch"}
  /\ \A i \in DOMAIN jobs : jobs[i].named => jobs[i].code \in NamedCodes

(* Minted codes are behind the counter, and a thread's is its own.         *)
CodeInv ==
  /\ \A p \in Processes : Minted(p) => InUse(work[p].code)
  /\ \A i \in DOMAIN jobs : ~ jobs[i].named => InUse(jobs[i].code)
  /\ \A p, q \in Processes :
       Minted(p) /\ Minted(q) /\ work[p].code = work[q].code => p = q
  /\ \A p \in Processes, i \in DOMAIN jobs :
       /\ Minted(p) /\ ~ jobs[i].named /\ jobs[i].code = work[p].code
       => pc[p] \in {"release", "moveAway"}
  /\ \A i, j \in DOMAIN jobs :
       /\ ~ jobs[i].named /\ ~ jobs[j].named
       /\ jobs[i].code = jobs[j].code
       => i = j

(* What is released has been registered.                                   *)
RegisteredInv ==
  /\ \A p \in Processes : pc[p] = "release" => \E i \in DOMAIN jobs : jobs[i] = work[p]
  /\ \A s \in sheets : \E i \in DOMAIN jobs : jobs[i] = s

(* Codes and registrations as every state has them, which makes MintedOnce *)
(* and SheetsAreRegistered inductive.                                      *)
Inv == TypeOK /\ LockInv /\ NameInv /\ CodeInv /\ RegisteredInv

(* A sheet that was handed out can be cut: its barcode finds a job made    *)
(* from the same design, whatever failed or died on the way                *)
(* (print_prepare.py 135-148, print_worker.py 137-139).                    *)
SheetsAreRegistered ==
  \A s \in sheets : \E i \in DOMAIN jobs : jobs[i] = s

(* A dropped file makes one job at most: it is not handled twice           *)
(* (print_worker.py 107-140, docs/hot-folders.md 48-50).                   *)
HandledOnce ==
  \A i, j \in DOMAIN jobs : jobs[i].design = jobs[j].design => i = j

(* What the code does keep of that: a second job is made of a design only  *)
(* after the server died while the worker had its file, or when the file   *)
(* could not be moved even to the error folder; a failed preparation or    *)
(* sheet, which may come after the insert, never makes one                 *)
(* (print_worker.py 130-170).                                              *)
TwiceOnlyIfSpoilt ==
  \A i, j \in DOMAIN jobs :
    jobs[i].design = jobs[j].design => i = j \/ jobs[i].design \in spoilt

(* A file that could not be moved to the error folder either.              *)
FailedMove ==
  /\ pc[Folder] = "error" /\ pc'[Folder] = "idle"
  /\ inbox' = inbox /\ FilesOf(work[Folder].design) # {}

(* From some moment on the process lives and files can be moved.           *)
Calm == <>[][~ Crash /\ ~ FailedMove]_vars

(* The bounds have stopped the model, which the code's tables do not.      *)
AtBounds == counter = MaxMints \/ Len(jobs) = MaxJobs

(* A file that was dropped leaves the inbox, prepared or refused, also     *)
(* when it was left behind before (print_worker.py 107-181).               *)
FilesLeave ==
  Calm => \A d \in Designs : (FilesOf(d) # {}) ~> (FilesOf(d) = {} \/ AtBounds)

=============================================================================
