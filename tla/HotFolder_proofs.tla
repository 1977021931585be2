-------------------------- MODULE HotFolder_proofs --------------------------
(***************************************************************************)
(* What TLAPS proves of the cut hot folder, for any stems, drops, ages and *)
(* faults: types, one job for a drop, and, when a name is not used twice   *)
(* at a time, that nothing half-copied is read and where files end up.     *)
(***************************************************************************)
EXTENDS HotFolder, TLAPS

InboxType == [Stems -> [Kinds -> File \cup {NoFile}]]

Work ==
  [stem : Stems, side : BOOLEAN, meta : 0..MaxDrops, gen : 0..MaxDrops,
   paired : BOOLEAN, half : BOOLEAN]

JobType ==
  [stem : Stems, gen : 0..MaxDrops, paired : BOOLEAN, meta : 0..MaxDrops]

Busy == step \notin {"idle", "look"}

(* The types, with the worker's record as it is while a file is handled.   *)
TypeInv ==
  /\ TypeOK
  /\ cur \in Work \cup {NoWork}
  /\ Busy => cur \in Work
  /\ jobs \in Seq(JobType)
  /\ \A s \in Stems : owes[s] # {} => drops[s] \in 1..MaxDrops

(* One file of the inbox becomes f, and no other changes.                  *)
Becomes(s, k, f) ==
  /\ inbox' \in InboxType
  /\ \A t \in Stems, j \in Kinds :
       inbox'[t][j] = IF t = s /\ j = k THEN f ELSE inbox[t][j]

-----------------------------------------------------------------------------
(* Types                                                                   *)

LEMMA PutBecomes ==
  ASSUME inbox \in InboxType, NEW s \in Stems, NEW k \in Kinds,
         NEW f \in File \cup {NoFile}, Put(s, k, f)
  PROVE  Becomes(s, k, f)
  <1>1. inbox' = [inbox EXCEPT ![s] = [inbox[s] EXCEPT ![k] = f]]
    BY DEF Put
  <1>2. [inbox[s] EXCEPT ![k] = f] \in [Kinds -> File \cup {NoFile}]
    BY DEF InboxType
  <1> QED  BY <1>1, <1>2 DEF Becomes, InboxType

LEMMA NoFileIsNone == NoFile \notin File
  BY DEF NoFile, File

LEMMA CapNatural ==
  ASSUME HotFolderAssumption
  PROVE  AgeCap \in Nat /\ MinAge \in Nat \ {0} /\ MaxDrops \in Nat \ {0}
         /\ MaxBusy \in Nat \ {0}
  BY DEF HotFolderAssumption, AgeCap

(* A copy that goes on is the file it was.                                 *)
LEMMA CopyBecomes ==
  ASSUME HotFolderAssumption, inbox \in InboxType, NEW s \in Stems, NEW k \in Kinds,
         CopyMore(s, k) \/ FinishCopy(s, k)
  PROVE  \E w \in BOOLEAN :
           /\ [inbox[s][k] EXCEPT !.age = 0, !.whole = w] \in File
           /\ Becomes(s, k, [inbox[s][k] EXCEPT !.age = 0, !.whole = w])
  <1>1. inbox[s][k] \in File /\ ~ inbox[s][k].whole
    BY DEF CopyMore, FinishCopy, Copying, InboxType
  <1>2. 0 \in 0..AgeCap
    BY CapNatural
  <1>3. \A w \in BOOLEAN : [inbox[s][k] EXCEPT !.age = 0, !.whole = w] \in File
    BY <1>1, <1>2 DEF File
  <1>4. CASE CopyMore(s, k)
    <2>1. [inbox[s][k] EXCEPT !.age = 0] = [inbox[s][k] EXCEPT !.age = 0, !.whole = FALSE]
      BY <1>1 DEF File
    <2>2. inbox' = [inbox EXCEPT ![s] = [inbox[s] EXCEPT ![k] = [inbox[s][k] EXCEPT !.age = 0]]]
      BY <1>4 DEF CopyMore
    <2>3. Put(s, k, [inbox[s][k] EXCEPT !.age = 0, !.whole = FALSE])
      BY <2>1, <2>2 DEF Put
    <2> QED  BY <2>3, <1>3, PutBecomes
  <1>5. CASE FinishCopy(s, k)
    <2>1. inbox' = [inbox EXCEPT ![s] = [inbox[s] EXCEPT
                       ![k] = [inbox[s][k] EXCEPT !.age = 0, !.whole = TRUE]]]
      BY <1>5 DEF FinishCopy, InboxType
    <2>2. Put(s, k, [inbox[s][k] EXCEPT !.age = 0, !.whole = TRUE])
      BY <2>1 DEF Put
    <2> QED  BY <2>2, <1>3, PutBecomes
  <1> QED  BY <1>4, <1>5

LEMMA InitTypes ==
  ASSUME HotFolderAssumption, Init
  PROVE  TypeInv
  BY CapNatural DEF Init, TypeInv, TypeOK, File, NoWork, Busy

LEMMA ProducerTypes ==
  ASSUME HotFolderAssumption, TypeInv, Producer
  PROVE  TypeInv'
  <1>0. inbox \in InboxType
    BY DEF TypeInv, TypeOK, InboxType
  <1>1. ASSUME NEW s \in Stems, BeginDrop(s)  PROVE TypeInv'
    <2>1. drops' \in [Stems -> 0..MaxDrops] /\ drops'[s] \in 1..MaxDrops
      BY <1>1, CapNatural DEF BeginDrop, TypeInv, TypeOK
    <2>2. owes' \in [Stems -> SUBSET Kinds]
      BY <1>1 DEF BeginDrop, TypeInv, TypeOK, Kinds
    <2>3. pairing' \in [Stems -> BOOLEAN]
      BY <1>1 DEF BeginDrop, TypeInv, TypeOK
    <2>4. \A t \in Stems : owes'[t] # {} => drops'[t] \in 1..MaxDrops
      BY <1>1, <2>1 DEF BeginDrop, TypeInv, TypeOK
    <2> QED  BY <1>1, <2>1, <2>2, <2>3, <2>4
                DEF BeginDrop, TypeInv, TypeOK, workerVars, Busy
  <1>2. ASSUME NEW s \in Stems, Withdraw(s)  PROVE TypeInv'
    <2>1. Becomes(s, "pdf", NoFile)
      BY <1>0, <1>2, PutBecomes DEF Withdraw, Kinds
    <2> QED  BY <1>2, <2>1
                DEF Withdraw, Becomes, InboxType, TypeInv, TypeOK, workerVars, producerVars, Busy
  <1>3. ASSUME NEW s \in Stems, NEW k \in Kinds, BeginFile(s, k)  PROVE TypeInv'
    <2>1. [gen |-> drops[s], whole |-> FALSE, paired |-> pairing[s], age |-> 0] \in File
      BY <1>3, CapNatural DEF BeginFile, TypeInv, TypeOK, File
    <2>2. inbox' \in InboxType
      BY <1>0, <1>3, <2>1, PutBecomes DEF BeginFile, Becomes
    <2>3. owes' \in [Stems -> SUBSET Kinds] /\ \A t \in Stems : owes'[t] \subseteq owes[t]
      BY <1>3 DEF BeginFile, TypeInv, TypeOK
    <2> QED  BY <1>3, <2>2, <2>3
                DEF BeginFile, InboxType, TypeInv, TypeOK, workerVars, Busy
  <1>4. ASSUME NEW s \in Stems, NEW k \in Kinds, CopyMore(s, k) \/ FinishCopy(s, k)
        PROVE  TypeInv'
    <2>1. inbox' \in InboxType
      BY <1>0, <1>4, CopyBecomes DEF Becomes
    <2> QED  BY <1>4, <2>1 DEF CopyMore, FinishCopy, InboxType, TypeInv, TypeOK,
                               workerVars, producerVars, Busy
  <1> QED  BY <1>1, <1>2, <1>3, <1>4 DEF Producer

(* What a tick does to a file: it only gets older.                         *)
LEMMA TickBecomes ==
  ASSUME HotFolderAssumption, inbox \in InboxType, Tick
  PROVE  /\ inbox' \in InboxType
         /\ \A s \in Stems, k \in Kinds :
              /\ inbox'[s][k] = NoFile <=> inbox[s][k] = NoFile
              /\ inbox[s][k] # NoFile =>
                   /\ inbox'[s][k].gen = inbox[s][k].gen
                   /\ inbox'[s][k].whole = inbox[s][k].whole
                   /\ inbox'[s][k].paired = inbox[s][k].paired
                   /\ inbox'[s][k].age \in {inbox[s][k].age, inbox[s][k].age + 1}
  <1>1. \A f \in File : Older(f) \in File
    BY CapNatural, NoFileIsNone DEF Older, File
  <1>2. Older(NoFile) = NoFile
    BY DEF Older
  <1>3. \A s \in Stems, k \in Kinds : inbox'[s][k] = Older(inbox[s][k])
    BY DEF Tick
  <1>4. \A f \in File : /\ Older(f).gen = f.gen /\ Older(f).whole = f.whole
                        /\ Older(f).paired = f.paired
                        /\ Older(f).age \in {f.age, f.age + 1}
    BY CapNatural, NoFileIsNone DEF Older, File
  <1>5. inbox' \in InboxType
    BY <1>1, <1>2 DEF Tick, InboxType
  <1> QED  BY <1>1, <1>2, <1>3, <1>4, <1>5, NoFileIsNone DEF InboxType

LEMMA TickTypes ==
  ASSUME HotFolderAssumption, TypeInv, Tick
  PROVE  TypeInv'
  <1>1. inbox' \in InboxType
    BY TickBecomes DEF TypeInv, TypeOK, InboxType
  <1>2. elapsed' \in 0..MaxBusy
    BY CapNatural DEF Tick, TypeInv, TypeOK
  <1> QED  BY <1>1, <1>2 DEF Tick, InboxType, TypeInv, TypeOK, producerVars, Busy

(* The worker puts nothing into the inbox: it takes a file away at most.   *)
LEMMA WorkerInbox ==
  ASSUME HotFolderAssumption, TypeInv, Worker \/ Crash
  PROVE  /\ inbox' \in InboxType /\ UNCHANGED producerVars
         /\ \A s \in Stems, k \in Kinds : inbox'[s][k] \in {inbox[s][k], NoFile}
         /\ inbox' = inbox \/ \E k \in Kinds : Becomes(cur.stem, k, NoFile)
  <1>0. inbox \in InboxType
    BY DEF TypeInv, TypeOK, InboxType
  <1>1. CASE inbox' = inbox /\ UNCHANGED producerVars
    BY <1>0, <1>1
  <1>2. ASSUME NEW k \in Kinds, Put(cur.stem, k, NoFile), UNCHANGED producerVars, Busy
        PROVE  /\ inbox' \in InboxType /\ UNCHANGED producerVars
               /\ \A s \in Stems, j \in Kinds : inbox'[s][j] \in {inbox[s][j], NoFile}
               /\ Becomes(cur.stem, k, NoFile)
    <2>1. cur.stem \in Stems
      BY <1>2 DEF TypeInv, Work
    <2>2. Becomes(cur.stem, k, NoFile)
      BY <1>0, <1>2, <2>1, PutBecomes
    <2> QED  BY <1>2, <2>2 DEF Becomes
  <1>3. ASSUME MovePdf \/ MoveSidecar \/ ErrorPdf \/ ErrorSidecar
        PROVE  /\ UNCHANGED producerVars /\ Busy
               /\ inbox' = inbox \/ \E k \in Kinds : Put(cur.stem, k, NoFile)
    BY <1>3 DEF MovePdf, MoveSidecar, ErrorPdf, ErrorSidecar, Kinds, Busy
  <1>4. ASSUME ListInbox \/ LookAt \/ PollEnds \/ ReadSidecar \/ ReadPdf \/ InsertJob \/ Crash
        PROVE  inbox' = inbox /\ UNCHANGED producerVars
    BY <1>4 DEF ListInbox, LookAt, PollEnds, ReadSidecar, ReadPdf, InsertJob, Crash
  <1> QED  BY <1>1, <1>2, <1>3, <1>4 DEF Worker

LEMMA FileThere ==
  ASSUME TypeInv, NEW s \in Stems, NEW k \in Kinds, inbox[s][k] # NoFile
  PROVE  /\ inbox[s][k].gen \in 1..MaxDrops /\ inbox[s][k].age \in 0..AgeCap
         /\ inbox[s][k].whole \in BOOLEAN /\ inbox[s][k].paired \in BOOLEAN
  <1>1. inbox[s][k] \in File
    BY DEF TypeInv, TypeOK
  <1> QED  BY <1>1 DEF File

LEMMA WorkerTypes ==
  ASSUME HotFolderAssumption, TypeInv, Worker \/ Crash
  PROVE  TypeInv'
  <1>0. inbox' \in InboxType /\ UNCHANGED producerVars
    BY WorkerInbox
  <1>t. /\ Busy => cur \in Work
        /\ \A c \in queue : c.stem \in Stems
    BY DEF TypeInv, TypeOK
  <1>1. /\ drops' \in [Stems -> 0..MaxDrops] /\ owes' \in [Stems -> SUBSET Kinds]
        /\ pairing' \in [Stems -> BOOLEAN]
        /\ \A s \in Stems : owes'[s] # {} => drops'[s] \in 1..MaxDrops
    BY <1>0 DEF TypeInv, TypeOK, producerVars
  <1>2. CASE ListInbox
    <2>1. queue' \subseteq [stem : Stems, age : 0..AgeCap]
      BY <1>2, FileThere DEF ListInbox, Pdf, Kinds
    <2> QED  BY <1>0, <1>1, <1>2, <2>1, CapNatural
                DEF ListInbox, TypeInv, TypeOK, InboxType, Busy
  <1>3. CASE LookAt
    <2>1. \A c \in queue : \A side \in BOOLEAN : Start(c.stem, side) \in Work
      BY <1>t, CapNatural DEF Start, Work
    <2>2. cur' \in Work \cup {NoWork} /\ (Busy' => cur' \in Work)
      BY <1>3, <2>1 DEF LookAt, TypeInv, Busy
    <2> QED  BY <1>0, <1>1, <1>3, <2>2
                DEF LookAt, TypeInv, TypeOK, InboxType, Work, NoWork, Busy
  <1>4. CASE PollEnds \/ Crash
    BY <1>0, <1>1, <1>4, CapNatural
       DEF PollEnds, Crash, TypeInv, TypeOK, InboxType, Busy, NoWork
  <1>5. CASE ReadSidecar
    <2>0. cur \in Work
      BY <1>5, <1>t DEF ReadSidecar, Busy
    <2>1. \/ cur' = cur
          \/ \E m \in 1..MaxDrops : cur' = [cur EXCEPT !.meta = m]
          \/ \E h \in BOOLEAN : cur' = [cur EXCEPT !.half = h]
      <3>1. cur.stem \in Stems /\ "sidecar" \in Kinds
        BY <2>0 DEF Work, Kinds
      <3> QED  BY <1>5, <3>1, FileThere DEF ReadSidecar, Sidecar
    <2>2. cur' \in Work
      BY <2>0, <2>1, CapNatural DEF Work
    <2> QED  BY <1>0, <1>1, <1>5, <2>2
                DEF ReadSidecar, Raise, Work, TypeInv, TypeOK, InboxType, Busy
  <1>6. CASE ReadPdf
    <2>0. cur \in Work
      BY <1>6, <1>t DEF ReadPdf, Busy
    <2>1. \/ cur' = cur
          \/ \E g \in 1..MaxDrops, p \in BOOLEAN, h \in BOOLEAN :
               cur' = [cur EXCEPT !.gen = g, !.paired = p, !.half = h]
      <3>1. cur.stem \in Stems /\ "pdf" \in Kinds
        BY <2>0 DEF Work, Kinds
      <3> QED  BY <1>6, <3>1, FileThere DEF ReadPdf, Pdf
    <2>2. ASSUME NEW g \in 1..MaxDrops, NEW p \in BOOLEAN, NEW h \in BOOLEAN
          PROVE  [cur EXCEPT !.gen = g, !.paired = p, !.half = h] \in Work
      <3>1. g \in 0..MaxDrops
        BY CapNatural
      <3> QED  BY <2>0, <3>1, Zenon DEF Work
    <2>3. cur' \in Work
      BY <2>0, <2>1, <2>2
    <2> QED  BY <1>0, <1>1, <1>6, <2>3
                DEF ReadPdf, Raise, Advance, Order, Work, TypeInv, TypeOK, InboxType, Busy
  <1>7. CASE MovePdf \/ ErrorPdf
    <2>1. cur.stem \in Stems
      BY <1>7, <1>t DEF MovePdf, ErrorPdf, Busy, Work
    <2>2. Pdf(cur.stem) # NoFile => [stem |-> cur.stem, gen |-> Pdf(cur.stem).gen]
                                      \in [stem : Stems, gen : 1..MaxDrops]
      BY <2>1, FileThere DEF Pdf, Kinds
    <2> QED  BY <1>0, <1>1, <1>7, <2>2
                DEF MovePdf, ErrorPdf, Gone, Raise, Advance, Order, TypeInv, TypeOK,
                    InboxType, Busy
  <1>8. CASE MoveSidecar \/ ErrorSidecar
    <2>1. parted' \subseteq Stems
      BY <1>8, <1>t DEF MoveSidecar, ErrorSidecar, TypeInv, TypeOK, Busy, Work
    <2> QED  BY <1>0, <1>1, <1>8, <2>1
                DEF MoveSidecar, ErrorSidecar, Raise, Advance, Order, TypeInv, TypeOK,
                    InboxType, Busy
  <1>9. CASE InsertJob
    <2>1. JobOf(cur) \in JobType
      BY <1>9, <1>t DEF InsertJob, JobOf, JobType, Work, Busy
    <2>2. jobs' \in Seq(JobType)
      BY <1>9, <2>1 DEF InsertJob, TypeInv
    <2> QED  BY <1>0, <1>1, <1>9, <2>2
                DEF InsertJob, Raise, Advance, Order, TypeInv, TypeOK, InboxType, Busy
  <1> QED  BY <1>2, <1>3, <1>4, <1>5, <1>6, <1>7, <1>8, <1>9 DEF Worker

LEMMA TypeStep ==
  ASSUME HotFolderAssumption, TypeInv, [Next]_vars
  PROVE  TypeInv'
  <1>1. CASE UNCHANGED vars
    BY <1>1 DEF TypeInv, TypeOK, Busy, vars, producerVars, workerVars
  <1> QED  BY <1>1, ProducerTypes, TickTypes, WorkerTypes DEF Next

(* Every variable of the hot folder keeps its type, whatever fails.        *)
THEOREM TypeCorrect == Spec => []TypeOK
<1>1. Init => TypeInv
  BY HotFolderAssumption, InitTypes
<1>2. TypeInv /\ [Next]_vars => TypeInv'
  BY HotFolderAssumption, TypeStep
<1>3. TypeInv => TypeOK
  BY DEF TypeInv
<1> QED  BY <1>1, <1>2, <1>3, PTL DEF Spec

-----------------------------------------------------------------------------
(* One job for a drop                                                      *)

(* The PDF of a drop has been begun, and it is not to come again ...       *)
Begun(s, g) == g <= drops[s] /\ (g = drops[s] => "pdf" \notin owes[s])

(* ... and it is not in the inbox any more, but at most a later one.       *)
Past(s, g) == Begun(s, g) /\ (Pdf(s) # NoFile => g < Pdf(s).gen)

(* What was moved or inserted is past.                                     *)
DropInv ==
  /\ \A s \in Stems : Pdf(s) # NoFile => Begun(s, Pdf(s).gen)
  /\ \A f \in processed \cup errors : Past(f.stem, f.gen)
  /\ \A i \in DOMAIN jobs : Past(jobs[i].stem, jobs[i].gen)

(* What the worker is about to insert has no job yet.                      *)
WorkInv ==
  /\ step \in {"movePdf", "moveSidecar", "insert"} =>
       /\ Begun(cur.stem, cur.gen)
       /\ \A i \in DOMAIN jobs : jobs[i].stem = cur.stem => jobs[i].gen < cur.gen
  /\ step = "movePdf" /\ Pdf(cur.stem) # NoFile => cur.gen <= Pdf(cur.stem).gen
  /\ step \in {"moveSidecar", "insert"} => Past(cur.stem, cur.gen)

OnceInv == DropInv /\ WorkInv /\ OneJobPerDrop /\ processed \cap errors = {}

(* What no step of a producer, of the time or of the worker undoes.        *)
Lasting ==
  /\ \A s \in Stems, g \in Nat :
       /\ Begun(s, g) => Begun(s, g)'
       /\ Past(s, g) => Past(s, g)'
       /\ Begun(s, g) /\ (Pdf(s) # NoFile => g <= Pdf(s).gen)
            => (Pdf(s) # NoFile => g <= Pdf(s).gen)'
  /\ \A s \in Stems : (Pdf(s) # NoFile => Begun(s, Pdf(s).gen))'

LEMMA TypesOf ==
  ASSUME HotFolderAssumption, TypeInv
  PROVE  /\ \A s \in Stems : drops[s] \in Nat
         /\ \A s \in Stems : Pdf(s) # NoFile => Pdf(s).gen \in Nat
         /\ \A f \in processed \cup errors : f.stem \in Stems /\ f.gen \in Nat
         /\ \A i \in DOMAIN jobs : jobs[i].stem \in Stems /\ jobs[i].gen \in Nat
         /\ Busy => cur.stem \in Stems /\ cur.gen \in Nat
         /\ inbox \in InboxType
  <1>1. \A s \in Stems : drops[s] \in Nat
    <2>1. drops \in [Stems -> 0..MaxDrops]
      BY DEF TypeInv, TypeOK
    <2> QED  BY <2>1, CapNatural
  <1>2. \A s \in Stems : Pdf(s) # NoFile => Pdf(s).gen \in Nat
    BY FileThere DEF Pdf, Kinds
  <1>3. \A f \in processed \cup errors : f.stem \in Stems /\ f.gen \in Nat
    BY DEF TypeInv, TypeOK
  <1>4. \A i \in DOMAIN jobs : jobs[i] \in JobType
    BY DEF TypeInv
  <1>5. \A i \in DOMAIN jobs : jobs[i].stem \in Stems /\ jobs[i].gen \in Nat
    BY <1>4 DEF JobType
  <1>6. Busy => cur.stem \in Stems /\ cur.gen \in Nat
    BY DEF TypeInv, Work
  <1> QED  BY <1>1, <1>2, <1>3, <1>5, <1>6 DEF TypeInv, TypeOK, InboxType

LEMMA ProducerLasting ==
  ASSUME HotFolderAssumption, TypeInv, DropInv, Producer
  PROVE  Lasting
  <1>0. /\ \A s \in Stems : drops[s] \in Nat
        /\ \A s \in Stems : Pdf(s) # NoFile => Pdf(s).gen \in Nat
        /\ inbox \in InboxType
        /\ \A s \in Stems : Pdf(s) # NoFile => Begun(s, Pdf(s).gen)
        /\ owes \in [Stems -> SUBSET Kinds] /\ drops \in [Stems -> 0..MaxDrops]
    BY TypesOf DEF DropInv, TypeInv, TypeOK
  <1>1. ASSUME NEW s \in Stems, BeginDrop(s)  PROVE Lasting
    <2>1. \A t \in Stems : Pdf(t)' = Pdf(t)
      BY <1>1 DEF BeginDrop, Pdf
    <2>2. \A t \in Stems, g \in Nat : Begun(t, g) => Begun(t, g)'
      <3>1. drops'[s] = drops[s] + 1 /\ \A t \in Stems \ {s} : drops'[t] = drops[t]
        BY <1>0, <1>1 DEF BeginDrop
      <3>2. \A t \in Stems \ {s} : owes'[t] = owes[t]
        BY <1>0, <1>1 DEF BeginDrop
      <3> QED  BY <1>0, <3>1, <3>2 DEF Begun
    <2> QED  BY <1>0, <2>1, <2>2 DEF Lasting, Past
  <1>2. ASSUME NEW s \in Stems, Withdraw(s)  PROVE Lasting
    <2>1. Becomes(s, "pdf", NoFile)
      BY <1>0, <1>2, PutBecomes DEF Withdraw, Kinds
    <2>2. \A t \in Stems : Pdf(t)' \in {Pdf(t), NoFile}
      BY <2>1 DEF Becomes, Pdf, Kinds
    <2>3. \A t \in Stems, g \in Nat : Begun(t, g)' <=> Begun(t, g)
      BY <1>2 DEF Withdraw, producerVars, Begun
    <2> QED  BY <1>0, <2>2, <2>3 DEF Lasting, Past
  <1>3. ASSUME NEW s \in Stems, NEW k \in Kinds, BeginFile(s, k)  PROVE Lasting
    <2> DEFINE file == [gen |-> drops[s], whole |-> FALSE, paired |-> pairing[s], age |-> 0]
    <2>1. file \in File
      BY <1>3, CapNatural DEF BeginFile, TypeInv, TypeOK, File
    <2>2. Becomes(s, k, file)
      BY <1>0, <1>3, <2>1, PutBecomes DEF BeginFile
    <2>3. /\ drops' = drops /\ k \in owes[s] /\ k \notin owes'[s]
          /\ \A t \in Stems : owes'[t] \subseteq owes[t]
      BY <1>0, <1>3 DEF BeginFile
    <2>4. \A t \in Stems : Pdf(t)' = IF t = s /\ k = "pdf" THEN file ELSE Pdf(t)
      BY <2>2 DEF Becomes, Pdf, Kinds
    <2>5. \A t \in Stems, g \in Nat : Begun(t, g) => Begun(t, g)'
      BY <2>3 DEF Begun
    <2>6. k = "pdf" => Begun(s, drops[s])'
      BY <1>0, <2>3 DEF Begun
    <2>7. k = "pdf" => \A g \in Nat : Begun(s, g) => g < drops[s]
      BY <1>0, <2>3 DEF Begun
    <2>8. file.gen = drops[s]
      OBVIOUS
    <2> HIDE DEF file
    <2>9. \A t \in Stems : (Pdf(t) # NoFile => Begun(t, Pdf(t).gen))'
      <3> SUFFICES ASSUME NEW t \in Stems, Pdf(t)' # NoFile
                   PROVE  Begun(t, Pdf(t).gen)'
        OBVIOUS
      <3>1. CASE t = s /\ k = "pdf"
        BY <3>1, <2>3, <2>4, <2>6, <2>8 DEF Begun
      <3>2. CASE ~ (t = s /\ k = "pdf")
        BY <3>2, <1>0, <2>4, <2>5
      <3> QED  BY <3>1, <3>2
    <2>10. ASSUME NEW t \in Stems, NEW g \in Nat, Begun(t, g)
           PROVE  /\ Past(t, g) => Past(t, g)'
                  /\ (Pdf(t) # NoFile => g <= Pdf(t).gen)
                       => (Pdf(t) # NoFile => g <= Pdf(t).gen)'
      <3>1. CASE t = s /\ k = "pdf"
        BY <3>1, <1>0, <2>4, <2>5, <2>7, <2>8, <2>10 DEF Past
      <3>2. CASE ~ (t = s /\ k = "pdf")
        BY <3>2, <2>4, <2>5, <2>10 DEF Past
      <3> QED  BY <3>1, <3>2
    <2> QED  BY <2>5, <2>9, <2>10 DEF Lasting, Past
  <1>4. ASSUME NEW s \in Stems, NEW k \in Kinds, CopyMore(s, k) \/ FinishCopy(s, k)
        PROVE  Lasting
    <2>1. PICK w \in BOOLEAN : Becomes(s, k, [inbox[s][k] EXCEPT !.age = 0, !.whole = w])
      BY <1>0, <1>4, CopyBecomes
    <2>2. inbox[s][k] \in File
      BY <1>0, <1>4 DEF CopyMore, FinishCopy, Copying, InboxType
    <2>3. [inbox[s][k] EXCEPT !.age = 0, !.whole = w].gen = inbox[s][k].gen
      BY <2>2 DEF File
    <2>4. \A t \in Stems : /\ Pdf(t)' # NoFile => Pdf(t) # NoFile
                           /\ Pdf(t)' # NoFile => Pdf(t)'.gen = Pdf(t).gen
      BY <2>1, <2>2, <2>3, NoFileIsNone DEF Becomes, Pdf, Kinds
    <2>5. \A t \in Stems, g \in Nat : Begun(t, g)' <=> Begun(t, g)
      BY <1>4 DEF CopyMore, FinishCopy, producerVars, Begun
    <2> QED  BY <1>0, <2>4, <2>5 DEF Lasting, Past
  <1> QED  BY <1>1, <1>2, <1>3, <1>4 DEF Producer

LEMMA OthersLasting ==
  ASSUME HotFolderAssumption, TypeInv, DropInv, Tick \/ Worker \/ Crash
  PROVE  Lasting
  <1>0. /\ \A s \in Stems : Pdf(s) # NoFile => Pdf(s).gen \in Nat
        /\ inbox \in InboxType
        /\ \A s \in Stems : Pdf(s) # NoFile => Begun(s, Pdf(s).gen)
    BY TypesOf DEF DropInv
  <1>1. UNCHANGED producerVars
    BY WorkerInbox DEF Tick
  <1>2. \A s \in Stems : /\ Pdf(s)' # NoFile => Pdf(s) # NoFile
                         /\ Pdf(s)' # NoFile => Pdf(s)'.gen = Pdf(s).gen
    <2>1. CASE Tick
      BY <1>0, <2>1, TickBecomes DEF Pdf, Kinds
    <2>2. CASE Worker \/ Crash
      BY <2>2, WorkerInbox DEF Pdf, Kinds
    <2> QED  BY <2>1, <2>2
  <1>3. \A s \in Stems, g \in Nat : Begun(s, g)' <=> Begun(s, g)
    BY <1>1 DEF Begun, producerVars
  <1> QED  BY <1>0, <1>2, <1>3 DEF Lasting, Past

(* A step that leaves the worker and the folders alone keeps the invariant.*)
LEMMA OnceEnvironment ==
  ASSUME HotFolderAssumption, TypeInv, OnceInv, Lasting,
         UNCHANGED <<step, cur, processed, errors, jobs>>
  PROVE  OnceInv'
  <1>0. /\ \A f \in processed \cup errors : f.stem \in Stems /\ f.gen \in Nat
        /\ \A i \in DOMAIN jobs : jobs[i].stem \in Stems /\ jobs[i].gen \in Nat
        /\ Busy => cur.stem \in Stems /\ cur.gen \in Nat
    BY TypesOf
  <1>1. DropInv'
    BY <1>0 DEF OnceInv, DropInv, Lasting
  <1>2. WorkInv'
    BY <1>0 DEF OnceInv, WorkInv, Lasting, Busy
  <1> QED  BY <1>1, <1>2 DEF OnceInv, OneJobPerDrop

(* A PDF that is moved has not been moved before.                          *)
LEMMA MovedOnce ==
  ASSUME HotFolderAssumption, TypeInv, OnceInv, NEW s \in Stems, Pdf(s) # NoFile
  PROVE  [stem |-> s, gen |-> Pdf(s).gen] \notin processed \cup errors
  BY TypesOf DEF OnceInv, DropInv, Past

LEMMA OnceWorker ==
  ASSUME HotFolderAssumption, TypeInv, OnceInv, Worker \/ Crash
  PROVE  OnceInv'
  <1>0. /\ \A f \in processed \cup errors : f.stem \in Stems /\ f.gen \in Nat
        /\ \A i \in DOMAIN jobs : jobs[i].stem \in Stems /\ jobs[i].gen \in Nat
        /\ Busy => cur.stem \in Stems /\ cur.gen \in Nat
        /\ \A s \in Stems : Pdf(s) # NoFile => Pdf(s).gen \in Nat
        /\ inbox \in InboxType
    BY TypesOf
  <1>1. Lasting
    BY OthersLasting DEF OnceInv
  <1>2. CASE ListInbox \/ PollEnds \/ LookAt \/ ReadSidecar \/ ErrorSidecar \/ Crash
    <2>1. /\ UNCHANGED <<processed, errors, jobs>>
          /\ step' \notin {"movePdf", "moveSidecar", "insert"}
      BY <1>2 DEF ListInbox, PollEnds, LookAt, ReadSidecar, ErrorSidecar, Crash, Raise
    <2>2. DropInv'
      BY <1>0, <1>1, <2>1 DEF OnceInv, DropInv, Lasting
    <2> QED  BY <2>1, <2>2 DEF OnceInv, WorkInv, OneJobPerDrop
  <1>3. CASE ReadPdf
    <2>1. UNCHANGED <<processed, errors, jobs, inbox, producerVars>> /\ cur.stem \in Stems
      BY <1>0, <1>3 DEF ReadPdf, Busy
    <2>2. DropInv'
      BY <1>0, <1>1, <2>1 DEF OnceInv, DropInv, Lasting
    <2>3. /\ step' \notin {"moveSidecar", "insert"}
          /\ step' = "movePdf" =>
               /\ Pdf(cur.stem) # NoFile
               /\ cur'.stem = cur.stem /\ cur'.gen = Pdf(cur.stem).gen
      <3>1. cur \in Work
        BY <1>3 DEF ReadPdf, TypeInv, Busy
      <3> QED  BY <1>3, <3>1 DEF ReadPdf, Raise, Advance, Order, Work
    <2>4. step' = "movePdf" =>
            /\ Begun(cur.stem, Pdf(cur.stem).gen)
            /\ \A i \in DOMAIN jobs : jobs[i].stem = cur.stem => jobs[i].gen < Pdf(cur.stem).gen
      BY <2>1, <2>3 DEF OnceInv, DropInv, Past
    <2>5. WorkInv'
      BY <1>0, <2>1, <2>3, <2>4 DEF WorkInv, Begun, producerVars, Pdf
    <2> QED  BY <2>1, <2>2, <2>5 DEF OnceInv, OneJobPerDrop
  <1>4. CASE MovePdf /\ step' = "moveSidecar"
    <2> DEFINE moved == [stem |-> cur.stem, gen |-> Pdf(cur.stem).gen]
    <2>1. /\ cur.stem \in Stems /\ Pdf(cur.stem) # NoFile /\ Put(cur.stem, "pdf", NoFile)
          /\ processed' = processed \cup {moved}
          /\ UNCHANGED <<cur, errors, jobs, producerVars>>
      BY <1>0, <1>4 DEF MovePdf, Busy, Gone, Raise
    <2>2. Pdf(cur.stem)' = NoFile
      BY <1>0, <2>1, PutBecomes DEF Becomes, Pdf, Kinds
    <2>3. \A g \in Nat : Begun(cur.stem, g) => Past(cur.stem, g)'
      BY <1>1, <2>1, <2>2 DEF Lasting, Past
    <2>4. moved.stem = cur.stem /\ moved.gen = Pdf(cur.stem).gen
      OBVIOUS
    <2> HIDE DEF moved
    <2>5. Begun(cur.stem, Pdf(cur.stem).gen) /\ Pdf(cur.stem).gen \in Nat
      BY <1>0, <2>1 DEF OnceInv, DropInv
    <2>6. DropInv'
      BY <1>0, <1>1, <2>1, <2>3, <2>4, <2>5 DEF OnceInv, DropInv, Lasting, Past
    <2>7. WorkInv'
      BY <1>0, <1>1, <1>4, <2>1, <2>3 DEF OnceInv, WorkInv, Lasting, MovePdf, Busy
    <2>8. moved \notin errors
      BY <2>1, MovedOnce DEF moved
    <2> QED  BY <2>1, <2>6, <2>7, <2>8 DEF OnceInv, OneJobPerDrop
  <1>5. CASE (MovePdf /\ step' # "moveSidecar") \/ ErrorPdf
    <2>1. /\ step' \notin {"movePdf", "moveSidecar", "insert"}
          /\ UNCHANGED <<jobs, processed>>
      BY <1>5 DEF MovePdf, ErrorPdf, Raise, Advance, Order
    <2>2. CASE errors' = errors
      <3>1. DropInv'
        BY <1>0, <1>1, <2>1, <2>2 DEF OnceInv, DropInv, Lasting
      <3> QED  BY <2>1, <2>2, <3>1 DEF OnceInv, WorkInv, OneJobPerDrop
    <2>3. CASE errors' # errors
      <3> DEFINE moved == [stem |-> cur.stem, gen |-> Pdf(cur.stem).gen]
      <3>1. /\ cur.stem \in Stems /\ Pdf(cur.stem) # NoFile /\ Put(cur.stem, "pdf", NoFile)
            /\ errors' = errors \cup {moved} /\ UNCHANGED <<cur, producerVars>>
        BY <1>0, <1>5, <2>3 DEF MovePdf, ErrorPdf, Busy, Gone
      <3>2. Pdf(cur.stem)' = NoFile
        BY <1>0, <3>1, PutBecomes DEF Becomes, Pdf, Kinds
      <3>3. Begun(cur.stem, Pdf(cur.stem).gen) /\ Pdf(cur.stem).gen \in Nat
        BY <1>0, <3>1 DEF OnceInv, DropInv
      <3>4. \A g \in Nat : Begun(cur.stem, g) => Past(cur.stem, g)'
        BY <1>1, <3>1, <3>2 DEF Lasting, Past
      <3>5. moved.stem = cur.stem /\ moved.gen = Pdf(cur.stem).gen
        OBVIOUS
      <3>6. moved \notin processed
        BY <3>1, MovedOnce
      <3> HIDE DEF moved
      <3>7. DropInv'
        BY <1>0, <1>1, <2>1, <3>1, <3>3, <3>4, <3>5 DEF OnceInv, DropInv, Lasting, Past
      <3> QED  BY <2>1, <3>1, <3>6, <3>7 DEF OnceInv, WorkInv, OneJobPerDrop
    <2> QED  BY <2>2, <2>3
  <1>6. CASE MoveSidecar
    <2>1. /\ UNCHANGED <<processed, errors, jobs, cur>> /\ cur.stem \in Stems /\ cur.gen \in Nat
          /\ step = "moveSidecar" /\ step' # "movePdf"
      BY <1>0, <1>6 DEF MoveSidecar, Busy, Raise, Advance, Order
    <2>2. DropInv'
      BY <1>0, <1>1, <2>1 DEF OnceInv, DropInv, Lasting
    <2>3. WorkInv'
      BY <1>0, <1>1, <2>1 DEF OnceInv, WorkInv, Lasting
    <2> QED  BY <2>1, <2>2, <2>3 DEF OnceInv, OneJobPerDrop
  <1>7. CASE InsertJob
    <2>1. /\ UNCHANGED <<processed, errors, cur>> /\ cur.stem \in Stems /\ cur.gen \in Nat
          /\ step = "insert" /\ step' \notin {"movePdf", "moveSidecar", "insert"}
      BY <1>0, <1>7 DEF InsertJob, Busy, Raise, Advance, Order
    <2>2. CASE jobs' = jobs
      <3>1. DropInv'
        BY <1>0, <1>1, <2>1, <2>2 DEF OnceInv, DropInv, Lasting
      <3> QED  BY <2>1, <2>2, <3>1 DEF OnceInv, WorkInv, OneJobPerDrop
    <2>3. CASE jobs' = Append(jobs, JobOf(cur))
      <3>1. /\ \A i \in DOMAIN jobs' :
                 jobs'[i] = IF i \in DOMAIN jobs THEN jobs[i] ELSE JobOf(cur)
            /\ DOMAIN jobs' = DOMAIN jobs \cup {Len(jobs) + 1}
            /\ Len(jobs) + 1 \notin DOMAIN jobs
        BY <2>3 DEF TypeInv
      <3>2. JobOf(cur).stem = cur.stem /\ JobOf(cur).gen = cur.gen
        BY DEF JobOf
      <3>3. Past(cur.stem, cur.gen)'
        BY <1>1, <2>1 DEF OnceInv, WorkInv, Lasting
      <3>4. \A i \in DOMAIN jobs : jobs[i].stem = cur.stem => jobs[i].gen < cur.gen
        BY <2>1 DEF OnceInv, WorkInv
      <3>5. (\A i \in DOMAIN jobs : Past(jobs[i].stem, jobs[i].gen))'
        BY <1>0, <1>1, <2>1, <3>1, <3>2, <3>3 DEF OnceInv, DropInv, Lasting
      <3>6. DropInv'
        BY <1>0, <1>1, <2>1, <3>5 DEF OnceInv, DropInv, Lasting
      <3>7. OneJobPerDrop'
        BY <1>0, <2>1, <3>1, <3>2, <3>4 DEF OnceInv, OneJobPerDrop
      <3> QED  BY <2>1, <3>6, <3>7 DEF OnceInv, WorkInv
    <2> QED  BY <1>7, <2>2, <2>3 DEF InsertJob
  <1> QED  BY <1>2, <1>3, <1>4, <1>5, <1>6, <1>7 DEF Worker

LEMMA OnceStep ==
  ASSUME HotFolderAssumption, TypeInv, OnceInv, [Next]_vars
  PROVE  OnceInv'
  <1>1. CASE Producer
    <2>1. UNCHANGED <<step, cur, processed, errors, jobs>>
      BY <1>1 DEF Producer, BeginDrop, Withdraw, BeginFile, CopyMore, FinishCopy, workerVars
    <2> QED  BY <1>1, <2>1, ProducerLasting, OnceEnvironment DEF OnceInv
  <1>2. CASE Tick
    <2>1. UNCHANGED <<step, cur, processed, errors, jobs>>
      BY <1>2 DEF Tick
    <2> QED  BY <1>2, <2>1, OthersLasting, OnceEnvironment DEF OnceInv
  <1>3. CASE UNCHANGED vars
    BY <1>3 DEF OnceInv, DropInv, WorkInv, OneJobPerDrop, Begun, Past, Pdf,
                vars, producerVars, workerVars
  <1> QED  BY <1>1, <1>2, <1>3, OnceWorker DEF Next

LEMMA OnceInvariance == Spec => [](TypeInv /\ OnceInv)
<1>1. Init => TypeInv /\ OnceInv
  BY HotFolderAssumption, InitTypes
     DEF Init, OnceInv, DropInv, WorkInv, OneJobPerDrop, Pdf, Kinds
<1>2. (TypeInv /\ OnceInv) /\ [Next]_vars => (TypeInv /\ OnceInv)'
  BY HotFolderAssumption, TypeStep, OnceStep
<1> QED  BY <1>1, <1>2, PTL DEF Spec

(* Whatever fails, dies or is overwritten, a drop makes one job at most.   *)
THEOREM OneJobCorrect == Spec => []OneJobPerDrop
  BY OnceInvariance, PTL DEF OnceInv

-----------------------------------------------------------------------------
(* Whole files, and where they end up                                      *)

(* A name is used again only when its files have left the inbox, and only  *)
(* the worker takes them out of it.                                        *)
OneAtATime == "reuse" \notin Faults /\ "vanish" \notin Faults

WholeThere(s, k) == inbox[s][k] # NoFile /\ inbox[s][k].whole

(* What is there is not still to come, and a copy does not pause.          *)
FilesInv ==
  \A s \in Stems, k \in Kinds :
    /\ inbox[s][k] # NoFile => k \notin owes[s]
    /\ Copying(s, k) => inbox[s][k].age < MinAge

(* Each candidate is there, whole when it was old enough, and not the one  *)
(* that is worked on.                                                      *)
QueueInv ==
  /\ \A c \in queue :
       Pdf(c.stem) # NoFile /\ (c.age >= MinAge => WholeThere(c.stem, "pdf"))
  /\ \A c, d \in queue : c.stem = d.stem => c = d
  /\ Busy => \A c \in queue : c.stem # cur.stem

(* The worker reads whole files and inserts the job of the PDF it moved.   *)
ReadInv ==
  /\ step \in {"readSidecar", "readPdf", "movePdf"} => WholeThere(cur.stem, "pdf")
  /\ step = "readSidecar" /\ cur.side => WholeThere(cur.stem, "sidecar")
  /\ step = "movePdf" => Pdf(cur.stem).gen = cur.gen
  /\ step \in {"moveSidecar", "insert"} => [stem |-> cur.stem, gen |-> cur.gen] \in processed
  /\ \A i \in DOMAIN jobs : [stem |-> jobs[i].stem, gen |-> jobs[i].gen] \in processed

WholeInv == FilesInv /\ QueueInv /\ ReadInv /\ NoHalfRead

LEMMA FilesStay ==
  ASSUME HotFolderAssumption, OneAtATime, TypeInv, FilesInv, Producer \/ Tick
  PROVE  /\ FilesInv'
         /\ \A s \in Stems, k \in Kinds :
              inbox[s][k] # NoFile =>
                /\ inbox'[s][k] # NoFile /\ inbox'[s][k].gen = inbox[s][k].gen
                /\ inbox[s][k].whole => inbox'[s][k].whole
         /\ UNCHANGED <<step, cur, queue, processed, jobs>>
  <1> DEFINE Stays ==
        \A s \in Stems, k \in Kinds :
          inbox[s][k] # NoFile =>
            /\ inbox'[s][k] # NoFile /\ inbox'[s][k].gen = inbox[s][k].gen
            /\ inbox[s][k].whole => inbox'[s][k].whole
  <1>0. /\ inbox \in InboxType /\ owes \in [Stems -> SUBSET Kinds]
        /\ MinAge \in Nat \ {0}
    BY CapNatural DEF TypeInv, TypeOK, InboxType
  <1>1. ASSUME NEW s \in Stems, BeginDrop(s)  PROVE FilesInv' /\ Stays
    <2>1. \A k \in Kinds : inbox[s][k] = NoFile
      BY <1>1 DEF BeginDrop, OneAtATime
    <2>2. inbox' = inbox /\ \A t \in Stems \ {s} : owes'[t] = owes[t]
      BY <1>0, <1>1 DEF BeginDrop
    <2> QED  BY <2>1, <2>2 DEF FilesInv, Copying
  <1>2. ASSUME NEW s \in Stems, NEW k \in Kinds, BeginFile(s, k)  PROVE FilesInv' /\ Stays
    <2> DEFINE file == [gen |-> drops[s], whole |-> FALSE, paired |-> pairing[s], age |-> 0]
    <2>1. file \in File
      BY <1>2, CapNatural DEF BeginFile, TypeInv, TypeOK, File
    <2>2. Becomes(s, k, file)
      BY <1>0, <1>2, <2>1, PutBecomes DEF BeginFile
    <2>3. inbox[s][k] = NoFile
      BY <1>2 DEF BeginFile, FilesInv
    <2>4. /\ k \notin owes'[s]
          /\ \A t \in Stems : owes'[t] \subseteq owes[t]
      BY <1>0, <1>2 DEF BeginFile
    <2>5. file.age = 0
      OBVIOUS
    <2> HIDE DEF file
    <2>6. Stays
      BY <2>2, <2>3 DEF Becomes
    <2>7. FilesInv'
      BY <1>0, <2>2, <2>4, <2>5 DEF Becomes, FilesInv, Copying
    <2> QED  BY <2>6, <2>7
  <1>3. ASSUME NEW s \in Stems, NEW k \in Kinds, CopyMore(s, k) \/ FinishCopy(s, k)
        PROVE  FilesInv' /\ Stays
    <2>1. PICK w \in BOOLEAN :
            /\ [inbox[s][k] EXCEPT !.age = 0, !.whole = w] \in File
            /\ Becomes(s, k, [inbox[s][k] EXCEPT !.age = 0, !.whole = w])
      BY <1>0, <1>3, CopyBecomes
    <2> DEFINE file == [inbox[s][k] EXCEPT !.age = 0, !.whole = w]
    <2>2. inbox[s][k] \in File /\ ~ inbox[s][k].whole
      BY <1>0, <1>3 DEF CopyMore, FinishCopy, Copying, InboxType
    <2>3. file.gen = inbox[s][k].gen /\ file.age = 0 /\ file # NoFile
      BY <2>1, <2>2, NoFileIsNone DEF File
    <2>4. owes' = owes
      BY <1>3 DEF CopyMore, FinishCopy, producerVars
    <2>5. Becomes(s, k, file)
      BY <2>1
    <2> HIDE DEF file
    <2>6. Stays
      BY <2>2, <2>3, <2>5 DEF Becomes
    <2>7. FilesInv'
      BY <1>0, <2>2, <2>3, <2>4, <2>5, NoFileIsNone DEF Becomes, FilesInv, Copying
    <2> QED  BY <2>6, <2>7
  <1>4. ASSUME Tick  PROVE FilesInv' /\ Stays
    <2>1. \A s \in Stems, k \in Kinds : Copying(s, k) => inbox[s][k].age + 1 < MinAge
      BY <1>4 DEF Tick
    <2>2. \A s \in Stems, k \in Kinds :
            /\ inbox'[s][k] = NoFile <=> inbox[s][k] = NoFile
            /\ inbox[s][k] # NoFile =>
                 /\ inbox'[s][k].gen = inbox[s][k].gen
                 /\ inbox'[s][k].whole = inbox[s][k].whole
                 /\ inbox'[s][k].age \in {inbox[s][k].age, inbox[s][k].age + 1}
      BY <1>0, <1>4, TickBecomes
    <2>3. Stays
      BY <2>2
    <2>4. owes' = owes
      BY <1>4 DEF Tick, producerVars
    <2>5. \A s \in Stems, k \in Kinds : (Copying(s, k) => inbox[s][k].age < MinAge)'
      BY <1>0, <2>1, <2>2, FileThere, CapNatural DEF FilesInv, Copying
    <2>6. FilesInv'
      BY <2>2, <2>4, <2>5 DEF FilesInv
    <2> QED  BY <2>3, <2>6
  <1>5. UNCHANGED <<step, cur, queue, processed, jobs>>
    BY DEF Producer, BeginDrop, Withdraw, BeginFile, CopyMore, FinishCopy, Tick, workerVars
  <1>6. ASSUME Producer  PROVE \E s \in Stems : \/ BeginDrop(s)
                                              \/ \E k \in Kinds : \/ BeginFile(s, k)
                                                                 \/ CopyMore(s, k)
                                                                 \/ FinishCopy(s, k)
    BY <1>6 DEF Producer, Withdraw, OneAtATime
  <1> QED  BY <1>1, <1>2, <1>3, <1>4, <1>5, <1>6

LEMMA WholeEnvironment ==
  ASSUME HotFolderAssumption, OneAtATime, TypeInv, WholeInv, Producer \/ Tick
  PROVE  WholeInv'
  <1>1. /\ FilesInv'
        /\ \A s \in Stems : WholeThere(s, "pdf") => WholeThere(s, "pdf")'
        /\ \A s \in Stems : WholeThere(s, "sidecar") => WholeThere(s, "sidecar")'
        /\ \A s \in Stems : Pdf(s) # NoFile => Pdf(s)' # NoFile /\ Pdf(s)'.gen = Pdf(s).gen
        /\ UNCHANGED <<step, cur, queue, processed, jobs>>
    BY FilesStay DEF WholeInv, WholeThere, Pdf, Kinds
  <1>2. /\ \A c \in queue : c.stem \in Stems
        /\ Busy => cur.stem \in Stems
    BY TypesOf DEF TypeInv, TypeOK
  <1>3. QueueInv'
    BY <1>1, <1>2 DEF WholeInv, QueueInv, Busy
  <1>4. ReadInv'
    BY <1>1, <1>2 DEF WholeInv, ReadInv, Busy, WholeThere, Pdf
  <1> QED  BY <1>1, <1>3, <1>4 DEF WholeInv, NoHalfRead

(* The worker's part, but for the inbox: it leaves what it does not name.  *)
LEMMA WholeWorker ==
  ASSUME HotFolderAssumption, OneAtATime, TypeInv, WholeInv, Worker \/ Crash
  PROVE  WholeInv'
  <1>0. /\ \A c \in queue : c.stem \in Stems /\ c.age \in Nat
        /\ Busy => cur.stem \in Stems /\ cur \in Work
        /\ inbox \in InboxType /\ MinAge \in Nat /\ elapsed \in Nat
    <2>1. \A c \in queue : c.stem \in Stems /\ c.age \in 0..AgeCap
      BY DEF TypeInv, TypeOK
    <2>2. elapsed \in 0..MaxBusy
      BY DEF TypeInv, TypeOK
    <2> QED  BY <2>1, <2>2, TypesOf, CapNatural DEF TypeInv
  <1>1. FilesInv'
    <2>1. /\ \A s \in Stems, k \in Kinds : inbox'[s][k] \in {inbox[s][k], NoFile}
          /\ owes' = owes
      BY WorkerInbox DEF producerVars
    <2> QED  BY <2>1 DEF WholeInv, FilesInv, Copying
  <1>2. CASE ListInbox
    <2>1. /\ UNCHANGED <<inbox, cur, processed, jobs>> /\ step' = "look" /\ step = "idle"
          /\ queue' = {[stem |-> s, age |-> Pdf(s).age] : s \in {t \in Stems : Pdf(t) # NoFile}}
      BY <1>2 DEF ListInbox
    <2>2. \A s \in Stems : Pdf(s) # NoFile =>
                            (Pdf(s).age >= MinAge => WholeThere(s, "pdf"))
      <3>1. \A s \in Stems : Pdf(s) # NoFile => Pdf(s).age \in 0..AgeCap
        BY FileThere DEF Pdf, Kinds
      <3> QED  BY <1>0, <3>1, CapNatural DEF WholeInv, FilesInv, Copying, WholeThere, Pdf, Kinds
    <2>3. QueueInv'
      BY <2>1, <2>2 DEF QueueInv, Busy, WholeThere, Pdf
    <2> QED  BY <1>1, <2>1, <2>3 DEF WholeInv, ReadInv, NoHalfRead
  <1>3. CASE LookAt
    <2>1. PICK c \in queue :
            /\ queue' = queue \ {c}
            /\ \/ /\ Ready(c) /\ cur' = Start(c.stem, Sidecar(c.stem) # NoFile)
                  /\ step' = "readSidecar"
               \/ UNCHANGED <<step, cur>>
      BY <1>3 DEF LookAt
    <2>2. UNCHANGED <<inbox, processed, jobs>> /\ step = "look"
      BY <1>3 DEF LookAt
    <2>3. CASE UNCHANGED <<step, cur>>
      BY <1>1, <2>1, <2>2, <2>3 DEF WholeInv, QueueInv, ReadInv, NoHalfRead, Busy, WholeThere, Pdf
    <2>4. CASE /\ Ready(c) /\ cur' = Start(c.stem, Sidecar(c.stem) # NoFile)
               /\ step' = "readSidecar"
      <3>1. cur'.stem = c.stem /\ ~ cur'.half /\ (cur'.side => Sidecar(c.stem) # NoFile)
        BY <2>4 DEF Start
      <3>2. WholeThere(c.stem, "pdf")
        BY <2>4 DEF Ready, WholeInv, QueueInv
      <3>3. Sidecar(c.stem) # NoFile => WholeThere(c.stem, "sidecar")
        <4>1. Sidecar(c.stem) # NoFile => Sidecar(c.stem).age >= MinAge + elapsed
          BY <2>4 DEF Ready, SidecarSettled
        <4>2. Sidecar(c.stem) # NoFile => Sidecar(c.stem).age \in 0..AgeCap
          BY <1>0, FileThere DEF Sidecar, Kinds
        <4> QED  BY <1>0, <4>1, <4>2, CapNatural
                    DEF WholeInv, FilesInv, Copying, WholeThere, Sidecar, Kinds
      <3>4. QueueInv'
        BY <2>1, <2>2, <3>1 DEF WholeInv, QueueInv, WholeThere, Pdf
      <3>5. ReadInv'
        BY <2>2, <2>4, <3>1, <3>2, <3>3 DEF WholeInv, ReadInv, WholeThere
      <3> QED  BY <1>1, <3>1, <3>4, <3>5 DEF WholeInv, NoHalfRead
    <2> QED  BY <2>1, <2>3, <2>4
  <1>4. CASE PollEnds \/ Crash
    <2>1. /\ UNCHANGED <<inbox, processed, jobs>> /\ step' = "idle" /\ queue' = {}
          /\ cur' = cur \/ cur' = NoWork
      BY <1>4 DEF PollEnds, Crash
    <2> QED  BY <1>1, <2>1 DEF WholeInv, QueueInv, ReadInv, NoHalfRead, Busy
  <1>5. CASE ReadSidecar
    <2>1. /\ UNCHANGED <<inbox, queue, processed, jobs>> /\ step = "readSidecar" /\ Busy
          /\ step' \in {"readPdf", "errorPdf"}
      BY <1>5 DEF ReadSidecar, Raise, Busy
    <2>2. WholeThere(cur.stem, "pdf") /\ (cur.side => WholeThere(cur.stem, "sidecar"))
      BY <2>1 DEF WholeInv, ReadInv
    <2>3. \/ cur' = cur
          \/ \E m : cur' = [cur EXCEPT !.meta = m]
          \/ cur.side /\ cur' = [cur EXCEPT !.half = ~ Sidecar(cur.stem).whole]
      BY <1>5 DEF ReadSidecar
    <2>4. cur'.stem = cur.stem /\ ~ cur'.half
      <3>1. cur \in Work /\ ~ cur.half /\ cur # NoWork
        BY <1>0, <2>1 DEF WholeInv, NoHalfRead, Work, NoWork
      <3>2. cur.side => Sidecar(cur.stem).whole
        BY <2>2 DEF WholeThere, Sidecar
      <3> QED  BY <2>3, <3>1, <3>2 DEF Work
    <2>5. QueueInv'
      BY <2>1, <2>4 DEF WholeInv, QueueInv, Busy, WholeThere, Pdf
    <2>6. ReadInv'
      BY <2>1, <2>2, <2>4 DEF WholeInv, ReadInv, WholeThere
    <2> QED  BY <1>1, <2>4, <2>5, <2>6 DEF WholeInv, NoHalfRead
  <1>6. CASE ReadPdf
    <2>1. /\ UNCHANGED <<inbox, queue, processed, jobs>> /\ step = "readPdf" /\ Busy
          /\ step' \in {"movePdf", "errorPdf"}
      BY <1>6 DEF ReadPdf, Raise, Advance, Order, Busy
    <2>2. WholeThere(cur.stem, "pdf")
      BY <2>1 DEF WholeInv, ReadInv
    <2>3. cur' = [cur EXCEPT !.gen = Pdf(cur.stem).gen, !.paired = Pdf(cur.stem).paired,
                             !.half = ~ Pdf(cur.stem).whole]
      BY <1>6, <2>2 DEF ReadPdf, WholeThere, Pdf
    <2>4. cur'.stem = cur.stem /\ ~ cur'.half /\ cur'.gen = Pdf(cur.stem).gen
      BY <1>0, <2>1, <2>2, <2>3 DEF Work, WholeThere, Pdf
    <2>5. QueueInv'
      BY <2>1, <2>4 DEF WholeInv, QueueInv, Busy, WholeThere, Pdf
    <2>6. ReadInv'
      BY <2>1, <2>2, <2>4 DEF WholeInv, ReadInv, WholeThere, Pdf
    <2> QED  BY <1>1, <2>4, <2>5, <2>6 DEF WholeInv, NoHalfRead
  <1>7. CASE MovePdf \/ MoveSidecar \/ ErrorPdf \/ ErrorSidecar \/ InsertJob
    <2>1. /\ UNCHANGED <<queue, cur>> /\ Busy
          /\ step' \notin {"readSidecar", "readPdf", "movePdf"}
          /\ processed \subseteq processed'
      BY <1>7 DEF MovePdf, MoveSidecar, ErrorPdf, ErrorSidecar, InsertJob, Raise, Advance,
                  Order, Busy
    <2>2. \A s \in Stems \ {cur.stem} : inbox'[s]["pdf"] = inbox[s]["pdf"]
      BY WorkerInbox DEF Becomes, Kinds
    <2>3. QueueInv'
      BY <1>0, <2>1, <2>2 DEF WholeInv, QueueInv, Busy, WholeThere, Pdf
    <2>4. step' \in {"moveSidecar", "insert"} =>
            [stem |-> cur.stem, gen |-> cur.gen] \in processed'
      BY <1>7 DEF MovePdf, MoveSidecar, ErrorPdf, ErrorSidecar, InsertJob, Raise, Advance,
                  Order, WholeInv, ReadInv
    <2>5. \A i \in DOMAIN jobs' : [stem |-> jobs'[i].stem, gen |-> jobs'[i].gen] \in processed'
      <3>1. CASE jobs' = jobs
        BY <2>1, <3>1 DEF WholeInv, ReadInv
      <3>2. CASE jobs' # jobs
        <4>1. jobs' = Append(jobs, JobOf(cur)) /\ step = "insert"
          BY <1>7, <3>2 DEF MovePdf, MoveSidecar, ErrorPdf, ErrorSidecar, InsertJob
        <4>2. \A i \in DOMAIN jobs' :
                jobs'[i] = IF i \in DOMAIN jobs THEN jobs[i] ELSE JobOf(cur)
          BY <4>1 DEF TypeInv
        <4>3. JobOf(cur).stem = cur.stem /\ JobOf(cur).gen = cur.gen
          BY DEF JobOf
        <4> QED  BY <2>1, <4>1, <4>2, <4>3 DEF WholeInv, ReadInv
      <3> QED  BY <3>1, <3>2
    <2>6. ReadInv'
      BY <2>1, <2>4, <2>5 DEF ReadInv
    <2> QED  BY <1>1, <2>1, <2>3, <2>6 DEF WholeInv, NoHalfRead
  <1> QED  BY <1>2, <1>3, <1>4, <1>5, <1>6, <1>7 DEF Worker

LEMMA WholeInvariance ==
  ASSUME OneAtATime
  PROVE  Spec => [](TypeInv /\ WholeInv)
<1>1. Init => TypeInv /\ WholeInv
  <2>1. Init => WholeInv
    BY DEF Init, WholeInv, FilesInv, QueueInv, ReadInv, NoHalfRead, Busy, Copying, WholeThere
  <2> QED  BY <2>1, HotFolderAssumption, InitTypes
<1>2. (TypeInv /\ WholeInv) /\ [Next]_vars => (TypeInv /\ WholeInv)'
  <2>1. ASSUME TypeInv, WholeInv, UNCHANGED vars  PROVE WholeInv'
    BY <2>1 DEF WholeInv, FilesInv, QueueInv, ReadInv, NoHalfRead, Busy, Copying,
                WholeThere, Pdf, vars, producerVars, workerVars
  <2> QED  BY <2>1, OneAtATime, HotFolderAssumption, TypeStep, WholeEnvironment, WholeWorker DEF Next
<1> QED  BY <1>1, <1>2, PTL DEF Spec

(* Where a name is not used twice at a time, no PDF and no sidecar is read *)
(* while it is still being copied.                                         *)
THEOREM WholeCorrect ==
  ASSUME OneAtATime
  PROVE  Spec => []NoHalfRead
  BY WholeInvariance, PTL DEF WholeInv

(* There, the PDF of every job is in processed/; and always, no PDF is     *)
(* both there and in the error folder.                                     *)
THEOREM FiledCorrect ==
  ASSUME OneAtATime
  PROVE  Spec => []FiledOnce
<1>1. OnceInv /\ WholeInv => FiledOnce
  BY DEF OnceInv, WholeInv, ReadInv, FiledOnce
<1> QED  BY <1>1, OnceInvariance, WholeInvariance, PTL

-----------------------------------------------------------------------------
(* The metadata of a drop                                                  *)

(* Then a sidecar is not late, and an insert fails at most where a stem is *)
(* dropped only once: after one that does, the files of the stem's next    *)
(* drop may be taken for its own.                                          *)
InTime ==
  OneAtATime /\ "late" \notin Faults /\ ("insert" \in Faults => MaxDrops = 1)

Owed(s) == "sidecar" \in owes[s]

(* The files of a stem are those of its latest drop, and while its PDF is  *)
(* there or to come, so is its sidecar, which comes in time.               *)
StemInv(s) ==
  /\ Owed(s) => pairing[s]
  /\ Sidecar(s) # NoFile => pairing[s] /\ Sidecar(s).gen = drops[s]
  /\ Pdf(s) # NoFile =>
       /\ Pdf(s).gen = drops[s]
       /\ Pdf(s).paired = pairing[s]
       /\ Owed(s) => Pdf(s).age < MinAge + PollWait
  /\ (Pdf(s) # NoFile \/ "pdf" \in owes[s]) /\ pairing[s] =>
       Owed(s) \/ Sidecar(s) # NoFile

(* A candidate that has waited long enough is not owed a sidecar.          *)
WaitInv == \A c \in queue : c.age >= MinAge + PollWait => ~ Owed(c.stem)

(* No other drop of the stem can begin.                                    *)
Held(s) == Sidecar(s) # NoFile \/ drops[s] = MaxDrops

(* What the worker knows of the sidecar is what the drop has, and it does  *)
(* not move the sidecar of another drop.                                   *)
HandInv ==
  /\ step \in {"readSidecar", "readPdf"} => (cur.side <=> pairing[cur.stem])
  /\ step = "readSidecar" => cur.meta = 0
  /\ step = "readPdf" => cur.meta = IF pairing[cur.stem] THEN drops[cur.stem] ELSE 0
  /\ step \in {"movePdf", "moveSidecar", "insert"} =>
       cur.meta = IF cur.paired THEN cur.gen ELSE 0
  /\ step \notin {"idle", "look", "insert"} /\ cur.side =>
       /\ Held(cur.stem)
       /\ "pdf" \notin owes[cur.stem]
       /\ step \in {"moveSidecar", "errorSidecar"} => Pdf(cur.stem) = NoFile

PairInv == (\A s \in Stems : StemInv(s)) /\ WaitInv /\ HandInv /\ PairedRight

(* What the producers and the time do to the stems: a drop whose file is   *)
(* in the inbox is the latest, and only a file that is owed is begun.      *)
LEMMA StemsStay ==
  ASSUME HotFolderAssumption, InTime, TypeInv, FilesInv, Producer \/ Tick
  PROVE  /\ \A s \in Stems : \A k \in Kinds :
              inbox[s][k] # NoFile \/ drops[s] = MaxDrops =>
                drops'[s] = drops[s] /\ pairing'[s] = pairing[s] /\ owes'[s] \subseteq owes[s]
         /\ \A s \in Stems : \A k \in Kinds :
              inbox[s][k] = NoFile /\ k \notin owes[s] => inbox'[s][k] = NoFile
<1>0. /\ inbox \in InboxType /\ owes \in [Stems -> SUBSET Kinds]
      /\ drops \in [Stems -> 0..MaxDrops] /\ pairing \in [Stems -> BOOLEAN]
  BY DEF TypeInv, TypeOK, InboxType
<1>1. ASSUME NEW s \in Stems, BeginDrop(s)
      PROVE  /\ inbox' = inbox /\ \A k \in Kinds : inbox[s][k] = NoFile
             /\ drops[s] # MaxDrops
             /\ \A t \in Stems \ {s} : /\ drops'[t] = drops[t] /\ pairing'[t] = pairing[t]
                                       /\ owes'[t] = owes[t]
  BY <1>0, <1>1, CapNatural DEF BeginDrop, InTime, OneAtATime
<1>2. ASSUME NEW s \in Stems, NEW k \in Kinds, BeginFile(s, k)
      PROVE  /\ UNCHANGED <<drops, pairing>> /\ \A t \in Stems : owes'[t] \subseteq owes[t]
             /\ k \in owes[s]
             /\ \A t \in Stems : \A j \in Kinds :
                  ~ (t = s /\ j = k) => inbox'[t][j] = inbox[t][j]
  BY <1>0, <1>2 DEF BeginFile, Put, InboxType
<1>3. ASSUME NEW s \in Stems, NEW k \in Kinds, CopyMore(s, k) \/ FinishCopy(s, k)
      PROVE  /\ UNCHANGED <<drops, pairing, owes>> /\ inbox[s][k] # NoFile
             /\ \A t \in Stems : \A j \in Kinds :
                  ~ (t = s /\ j = k) => inbox'[t][j] = inbox[t][j]
  <2>1. PICK f \in File : Becomes(s, k, f)
    BY <1>0, <1>3, CopyBecomes
  <2> QED BY <1>3, <2>1 DEF Becomes, CopyMore, FinishCopy, Copying, producerVars
<1>4. CASE Tick
  BY <1>0, <1>4, TickBecomes DEF Tick, producerVars
<1>5. CASE Producer
  <2>1. PICK s \in Stems : \/ BeginDrop(s) \/ Withdraw(s)
                           \/ \E k \in Kinds : BeginFile(s, k) \/ CopyMore(s, k) \/ FinishCopy(s, k)
    BY <1>5 DEF Producer
  <2>2. ~ Withdraw(s)
    BY DEF Withdraw, InTime, OneAtATime
  <2>3. CASE BeginDrop(s)
    BY <1>1, <2>3
  <2>4. ASSUME NEW k \in Kinds, BeginFile(s, k)
        PROVE  \A t \in Stems : \A j \in Kinds :
                 inbox[t][j] = NoFile /\ j \notin owes[t] => inbox'[t][j] = NoFile
    BY <1>2, <2>4
  <2>5. ASSUME NEW k \in Kinds, CopyMore(s, k) \/ FinishCopy(s, k)
        PROVE  \A t \in Stems : \A j \in Kinds :
                 inbox[t][j] = NoFile /\ j \notin owes[t] => inbox'[t][j] = NoFile
    BY <1>3, <2>5
  <2> QED BY <1>2, <1>3, <2>1, <2>2, <2>3, <2>4, <2>5
<1> QED BY <1>4, <1>5

LEMMA StemsEnvironment ==
  ASSUME HotFolderAssumption, InTime, TypeInv, FilesInv,
         \A s \in Stems : StemInv(s), Producer \/ Tick
  PROVE  \A s \in Stems : StemInv(s)'
<1>0. /\ inbox \in InboxType /\ owes \in [Stems -> SUBSET Kinds]
      /\ drops \in [Stems -> 0..MaxDrops] /\ pairing \in [Stems -> BOOLEAN]
      /\ MinAge \in Nat \ {0} /\ PollWait \in Nat \ {0}
      /\ "pdf" \in Kinds /\ "sidecar" \in Kinds
  BY DEF TypeInv, TypeOK, InboxType, HotFolderAssumption, Kinds
<1>1. ASSUME NEW s \in Stems, BeginDrop(s) PROVE \A t \in Stems : StemInv(t)'
  <2>1. inbox' = inbox /\ Pdf(s) = NoFile /\ Sidecar(s) = NoFile
    BY <1>0, <1>1 DEF BeginDrop, InTime, OneAtATime, Pdf, Sidecar
  <2>2. StemInv(s)'
    <3>1. "sidecar" \in owes'[s] <=> pairing'[s]
      BY <1>0, <1>1 DEF BeginDrop
    <3> QED BY <2>1, <3>1 DEF StemInv, Owed, Pdf, Sidecar
  <2>3. ASSUME NEW t \in Stems \ {s} PROVE StemInv(t)'
    <3>1. drops'[t] = drops[t] /\ pairing'[t] = pairing[t] /\ owes'[t] = owes[t]
      BY <1>0, <1>1 DEF BeginDrop
    <3> QED BY <2>1, <3>1 DEF StemInv, Owed, Pdf, Sidecar
  <2> QED BY <2>2, <2>3
<1>2. ASSUME NEW s \in Stems, NEW k \in Kinds, BeginFile(s, k)
      PROVE  \A t \in Stems : StemInv(t)'
  <2> DEFINE file == [gen |-> drops[s], whole |-> FALSE, paired |-> pairing[s], age |-> 0]
  <2>0. file \in File
    BY <1>2, CapNatural DEF BeginFile, TypeInv, TypeOK, File
  <2>1. file \in File /\ file # NoFile
    BY <2>0, NoFileIsNone
  <2>2. Becomes(s, k, file)
    BY <1>0, <1>2, <2>1, PutBecomes DEF BeginFile
  <2>3. file.gen = drops[s] /\ file.paired = pairing[s] /\ file.age = 0
    OBVIOUS
  <2>4. /\ UNCHANGED <<drops, pairing>> /\ k \in owes[s] /\ owes'[s] = owes[s] \ {k}
        /\ \A t \in Stems \ {s} : owes'[t] = owes[t]
    BY <1>0, <1>2 DEF BeginFile
  <2> HIDE DEF file
  <2>5. ASSUME NEW t \in Stems \ {s} PROVE StemInv(t)'
    <3>1. Pdf(t)' = Pdf(t) /\ Sidecar(t)' = Sidecar(t)
      BY <1>0, <2>2 DEF Becomes, Pdf, Sidecar
    <3> QED BY <2>4, <3>1 DEF StemInv, Owed
  <2>6. StemInv(s)'
    <3>1. CASE k = "pdf"
      <4>1. Pdf(s)' = file /\ Sidecar(s)' = Sidecar(s) /\ (Owed(s)' <=> Owed(s))
        BY <1>0, <2>2, <2>4, <3>1 DEF Becomes, Pdf, Sidecar, Owed
      <4>2. pairing[s] => Owed(s) \/ Sidecar(s) # NoFile
        BY <2>4, <3>1 DEF StemInv
      <4> QED BY <1>0, <2>3, <2>4, <4>1, <4>2 DEF StemInv
    <3>2. CASE k = "sidecar"
      <4>1. Pdf(s)' = Pdf(s) /\ Sidecar(s)' = file /\ ~ Owed(s)' /\ Owed(s)
        BY <1>0, <2>2, <2>4, <3>2 DEF Becomes, Pdf, Sidecar, Owed
      <4> QED BY <2>1, <2>3, <2>4, <4>1 DEF StemInv
    <3> QED BY <3>1, <3>2 DEF Kinds
  <2> QED BY <2>5, <2>6
<1>3. ASSUME NEW s \in Stems, NEW k \in Kinds, CopyMore(s, k) \/ FinishCopy(s, k)
      PROVE  \A t \in Stems : StemInv(t)'
  <2>1. PICK w \in BOOLEAN :
          /\ [inbox[s][k] EXCEPT !.age = 0, !.whole = w] \in File
          /\ Becomes(s, k, [inbox[s][k] EXCEPT !.age = 0, !.whole = w])
    BY <1>0, <1>3, CopyBecomes
  <2> DEFINE file == [inbox[s][k] EXCEPT !.age = 0, !.whole = w]
  <2>2. inbox[s][k] \in File /\ inbox[s][k] # NoFile
    BY <1>0, <1>3, NoFileIsNone DEF CopyMore, FinishCopy, Copying, InboxType
  <2>3. /\ file # NoFile /\ file.gen = inbox[s][k].gen
        /\ file.paired = inbox[s][k].paired /\ file.age = 0
    BY <2>1, <2>2, NoFileIsNone DEF File
  <2>4. UNCHANGED <<drops, owes, pairing>>
    BY <1>3 DEF CopyMore, FinishCopy, producerVars
  <2>5. Becomes(s, k, file)
    BY <2>1
  <2> HIDE DEF file
  <2>6. ASSUME NEW t \in Stems \ {s} PROVE StemInv(t)'
    <3>1. Pdf(t)' = Pdf(t) /\ Sidecar(t)' = Sidecar(t)
      BY <1>0, <2>5 DEF Becomes, Pdf, Sidecar
    <3> QED BY <2>4, <3>1 DEF StemInv, Owed
  <2>7. StemInv(s)'
    <3>1. CASE k = "pdf"
      <4>1. Pdf(s)' = file /\ Sidecar(s)' = Sidecar(s)
        BY <1>0, <2>5, <3>1 DEF Becomes, Pdf, Sidecar
      <4>2. Pdf(s) # NoFile /\ file.gen = Pdf(s).gen /\ file.paired = Pdf(s).paired
        BY <2>2, <2>3, <3>1 DEF Pdf
      <4> QED BY <1>0, <2>3, <2>4, <4>1, <4>2 DEF StemInv, Owed
    <3>2. CASE k = "sidecar"
      <4>1. Pdf(s)' = Pdf(s) /\ Sidecar(s)' = file
        BY <1>0, <2>5, <3>2 DEF Becomes, Pdf, Sidecar
      <4>2. Sidecar(s) # NoFile /\ file.gen = Sidecar(s).gen
        BY <2>2, <2>3, <3>2 DEF Sidecar
      <4> QED BY <2>3, <2>4, <4>1, <4>2 DEF StemInv, Owed
    <3> QED BY <3>1, <3>2 DEF Kinds
  <2> QED BY <2>6, <2>7
<1>4. CASE Tick
  <2> SUFFICES ASSUME NEW s \in Stems PROVE StemInv(s)'
    OBVIOUS
  <2>1. UNCHANGED <<drops, owes, pairing>>
    BY <1>4 DEF Tick, producerVars
  <2>2. /\ Pdf(s)' = NoFile <=> Pdf(s) = NoFile
        /\ Sidecar(s)' = NoFile <=> Sidecar(s) = NoFile
        /\ Pdf(s) # NoFile => /\ Pdf(s)'.gen = Pdf(s).gen
                              /\ Pdf(s)'.paired = Pdf(s).paired
                              /\ Pdf(s)'.age \in {Pdf(s).age, Pdf(s).age + 1}
        /\ Sidecar(s) # NoFile => Sidecar(s)'.gen = Sidecar(s).gen
    BY <1>0, <1>4, TickBecomes DEF Pdf, Sidecar
  <2>3. Pdf(s) # NoFile /\ Owed(s) => Pdf(s).age + 1 < MinAge + PollWait
    BY <1>4 DEF Tick, InTime, Owed
  <2>4. Pdf(s) # NoFile => Pdf(s).age \in Nat
    BY <1>0, FileThere, CapNatural DEF Pdf
  <2>5. Pdf(s)' # NoFile /\ Owed(s)' => Pdf(s)'.age < MinAge + PollWait
    BY <1>0, <2>1, <2>2, <2>3, <2>4 DEF Owed
  <2> QED BY <2>1, <2>2, <2>5 DEF StemInv, Owed
<1>5. CASE Producer
  <2>1. PICK s \in Stems : \/ BeginDrop(s) \/ Withdraw(s)
                           \/ \E k \in Kinds : BeginFile(s, k) \/ CopyMore(s, k) \/ FinishCopy(s, k)
    BY <1>5 DEF Producer
  <2>2. ~ Withdraw(s)
    BY DEF Withdraw, InTime, OneAtATime
  <2> QED BY <1>1, <1>2, <1>3, <2>1, <2>2
<1> QED BY <1>4, <1>5

LEMMA PairEnvironment ==
  ASSUME HotFolderAssumption, InTime, TypeInv, WholeInv, PairInv, Producer \/ Tick
  PROVE  PairInv'
<1>1. UNCHANGED <<step, cur, queue, jobs>>
  BY FilesStay DEF InTime, WholeInv
<1>2. \A s \in Stems : StemInv(s)'
  BY StemsEnvironment DEF WholeInv, PairInv
<1>3. /\ \A s \in Stems : Pdf(s) # NoFile \/ Held(s) =>
           drops'[s] = drops[s] /\ pairing'[s] = pairing[s] /\ owes'[s] \subseteq owes[s]
      /\ \A s \in Stems : Pdf(s) = NoFile /\ "pdf" \notin owes[s] => Pdf(s)' = NoFile
      /\ \A s \in Stems : Sidecar(s) # NoFile => Sidecar(s)' # NoFile
  BY StemsStay, FilesStay DEF InTime, WholeInv, Held, Pdf, Sidecar, Kinds
<1>4. /\ \A c \in queue : c.stem \in Stems /\ Pdf(c.stem) # NoFile
      /\ Busy => cur.stem \in Stems
  BY TypesOf DEF TypeInv, TypeOK, WholeInv, QueueInv
<1>5. WaitInv'
  <2>1. \A c \in queue : Owed(c.stem)' => Owed(c.stem)
    BY <1>3, <1>4 DEF Owed
  <2> QED BY <1>1, <2>1 DEF PairInv, WaitInv
<1>6. step \in {"readSidecar", "readPdf"} => Pdf(cur.stem) # NoFile
  BY DEF WholeInv, ReadInv, WholeThere, Pdf
<1>7. HandInv'
  <2>1. step \in {"readSidecar", "readPdf"} =>
          pairing'[cur.stem] = pairing[cur.stem] /\ drops'[cur.stem] = drops[cur.stem]
    BY <1>3, <1>4, <1>6 DEF Busy
  <2>2. step \notin {"idle", "look", "insert"} /\ cur.side =>
          /\ Held(cur.stem)'
          /\ "pdf" \notin owes'[cur.stem]
          /\ step \in {"moveSidecar", "errorSidecar"} => Pdf(cur.stem)' = NoFile
    <3> SUFFICES ASSUME step \notin {"idle", "look", "insert"}, cur.side
                 PROVE  /\ Held(cur.stem)'
                        /\ "pdf" \notin owes'[cur.stem]
                        /\ step \in {"moveSidecar", "errorSidecar"} =>
                             Pdf(cur.stem)' = NoFile
      OBVIOUS
    <3>1. cur.stem \in Stems
      BY <1>4 DEF Busy
    <3>2. /\ Held(cur.stem) /\ "pdf" \notin owes[cur.stem]
          /\ step \in {"moveSidecar", "errorSidecar"} => Pdf(cur.stem) = NoFile
      BY DEF PairInv, HandInv
    <3>3. /\ owes'[cur.stem] \subseteq owes[cur.stem] /\ cur' = cur
          /\ drops'[cur.stem] = drops[cur.stem]
          /\ Sidecar(cur.stem) # NoFile => Sidecar(cur.stem)' # NoFile
      BY <1>1, <1>3, <3>1, <3>2
    <3>4. Held(cur.stem)'
      BY <3>2, <3>3 DEF Held, Sidecar
    <3>5. step \in {"moveSidecar", "errorSidecar"} => Pdf(cur.stem)' = NoFile
      BY <1>1, <1>3, <3>1, <3>2
    <3> QED BY <3>2, <3>3, <3>4, <3>5
  <2>3. cur' = cur /\ step' = step
    BY <1>1
  <2> QED BY <2>1, <2>2, <2>3 DEF PairInv, HandInv, Held, Pdf, Sidecar
<1> QED BY <1>1, <1>2, <1>5, <1>7 DEF PairInv, PairedRight

(* The worker takes a sidecar away only when its PDF has left the inbox.   *)
LEMMA StemsWorker ==
  ASSUME HotFolderAssumption, TypeInv, PairInv, Worker \/ Crash
  PROVE  \A s \in Stems : StemInv(s)'
<1>0. inbox \in InboxType /\ UNCHANGED <<drops, owes, pairing>>
      /\ "pdf" \in Kinds /\ "sidecar" \in Kinds
  BY WorkerInbox DEF TypeInv, TypeOK, InboxType, producerVars, Kinds
<1>1. CASE inbox' = inbox
  BY <1>0, <1>1 DEF PairInv, StemInv, Owed, Pdf, Sidecar
<1>2. CASE MovePdf \/ ErrorPdf
  <2>1. cur.stem \in Stems
    BY <1>2 DEF TypeInv, Work, Busy, MovePdf, ErrorPdf
  <2>2. inbox' = inbox \/ Put(cur.stem, "pdf", NoFile)
    BY <1>2 DEF MovePdf, ErrorPdf
  <2>3. CASE Put(cur.stem, "pdf", NoFile)
    <3>1. Becomes(cur.stem, "pdf", NoFile)
      BY <1>0, <2>1, <2>3, PutBecomes
    <3>2. \A s \in Stems : Sidecar(s)' = Sidecar(s) /\ Pdf(s)' \in {Pdf(s), NoFile}
      BY <1>0, <3>1 DEF Becomes, Pdf, Sidecar
    <3> QED BY <1>0, <3>2 DEF PairInv, StemInv, Owed
  <2> QED BY <1>1, <2>2, <2>3
<1>3. CASE MoveSidecar \/ ErrorSidecar
  <2>1. cur.stem \in Stems /\ step \in {"moveSidecar", "errorSidecar"}
    BY <1>3 DEF TypeInv, Work, Busy, MoveSidecar, ErrorSidecar
  <2>2. inbox' = inbox \/ (cur.side /\ Put(cur.stem, "sidecar", NoFile))
    BY <1>3 DEF MoveSidecar, ErrorSidecar
  <2>3. CASE cur.side /\ Put(cur.stem, "sidecar", NoFile)
    <3>1. Becomes(cur.stem, "sidecar", NoFile)
      BY <1>0, <2>1, <2>3, PutBecomes
    <3>2. \A s \in Stems : Pdf(s)' = Pdf(s) /\ Sidecar(s)' \in {Sidecar(s), NoFile}
      BY <1>0, <3>1 DEF Becomes, Pdf, Sidecar
    <3>3. \A s \in Stems \ {cur.stem} : Sidecar(s)' = Sidecar(s)
      BY <1>0, <3>1 DEF Becomes, Sidecar
    <3>4. Pdf(cur.stem) = NoFile /\ "pdf" \notin owes[cur.stem]
      BY <2>1, <2>3 DEF PairInv, HandInv
    <3> QED BY <1>0, <3>2, <3>3, <3>4 DEF PairInv, StemInv, Owed
  <2> QED BY <1>1, <2>2, <2>3
<1>4. ASSUME ListInbox \/ LookAt \/ PollEnds \/ ReadSidecar \/ ReadPdf \/ InsertJob \/ Crash
      PROVE  inbox' = inbox
  BY <1>4 DEF ListInbox, LookAt, PollEnds, ReadSidecar, ReadPdf, InsertJob, Crash
<1> QED BY <1>1, <1>2, <1>3, <1>4 DEF Worker

LEMMA WaitWorker ==
  ASSUME HotFolderAssumption, TypeInv, WholeInv, PairInv, Worker \/ Crash
  PROVE  WaitInv'
<1>1. UNCHANGED owes
  BY WorkerInbox DEF producerVars
<1>2. CASE ListInbox
  <2>1. queue' = {[stem |-> s, age |-> Pdf(s).age] : s \in {t \in Stems : Pdf(t) # NoFile}}
    BY <1>2 DEF ListInbox
  <2>2. ASSUME NEW s \in Stems, Pdf(s) # NoFile, Pdf(s).age >= MinAge + PollWait
        PROVE  ~ Owed(s)
    <3>1. Pdf(s).age \in Nat /\ MinAge \in Nat /\ PollWait \in Nat
      BY <2>2, FileThere, CapNatural DEF Pdf, Kinds, HotFolderAssumption
    <3> QED BY <2>2, <3>1 DEF PairInv, StemInv
  <2>3. ASSUME NEW c \in queue', c.age >= MinAge + PollWait PROVE ~ Owed(c.stem)
    <3>1. PICK s \in Stems : Pdf(s) # NoFile /\ c = [stem |-> s, age |-> Pdf(s).age]
      BY <2>1
    <3> QED BY <2>2, <2>3, <3>1
  <2> QED BY <1>1, <2>3 DEF WaitInv, Owed
<1>3. CASE ~ ListInbox
  <2>1. queue' \subseteq queue
    BY <1>3 DEF Worker, LookAt, PollEnds, ReadSidecar, ReadPdf, MovePdf, MoveSidecar,
                InsertJob, ErrorPdf, ErrorSidecar, Crash, Raise, Advance
  <2> QED BY <1>1, <2>1 DEF PairInv, WaitInv, Owed
<1> QED BY <1>2, <1>3

LEMMA HandWorker ==
  ASSUME HotFolderAssumption, InTime, TypeInv, OnceInv, WholeInv, PairInv,
         Worker \/ Crash
  PROVE  HandInv' /\ PairedRight'
<1>0. /\ Busy => cur.stem \in Stems /\ cur \in Work
      /\ \A c \in queue : c.stem \in Stems /\ Pdf(c.stem) # NoFile
      /\ \A s \in Stems : StemInv(s)
      /\ inbox \in InboxType /\ pairing \in [Stems -> BOOLEAN]
      /\ UNCHANGED <<drops, owes, pairing>>
      /\ "pdf" \in Kinds /\ "sidecar" \in Kinds
  BY TypesOf, WorkerInbox DEF TypeInv, TypeOK, WholeInv, QueueInv, PairInv, producerVars, Kinds
<1>1. CASE ListInbox \/ PollEnds \/ Crash
  <2>1. step' \in {"idle", "look"} /\ jobs' = jobs
    BY <1>1 DEF ListInbox, PollEnds, Crash
  <2> QED BY <2>1 DEF HandInv, PairInv, PairedRight
<1>2. CASE LookAt
  <2>1. PICK c \in queue :
          \/ /\ Ready(c) /\ cur' = Start(c.stem, Sidecar(c.stem) # NoFile)
             /\ step' = "readSidecar"
          \/ UNCHANGED <<step, cur>>
    BY <1>2 DEF LookAt
  <2>2. UNCHANGED <<inbox, jobs>> /\ step = "look"
    BY <1>2 DEF LookAt
  <2>3. CASE UNCHANGED <<step, cur>>
    BY <2>2, <2>3 DEF HandInv, PairInv, PairedRight
  <2>4. CASE /\ Ready(c) /\ cur' = Start(c.stem, Sidecar(c.stem) # NoFile)
             /\ step' = "readSidecar"
    <3>1. /\ cur'.stem = c.stem /\ cur'.meta = 0
          /\ cur'.side <=> Sidecar(c.stem) # NoFile
      BY <2>4 DEF Start
    <3>2. c.stem \in Stems /\ StemInv(c.stem) /\ Pdf(c.stem) # NoFile
      BY <1>0
    <3>3. "pdf" \notin owes[c.stem]
      BY <1>0, <3>2 DEF WholeInv, FilesInv, Pdf
    <3>4. Sidecar(c.stem) # NoFile <=> pairing[c.stem]
      <4>1. CASE Sidecar(c.stem) # NoFile
        BY <3>2, <4>1 DEF StemInv
      <4>2. CASE Sidecar(c.stem) = NoFile
        <5>1. ~ Owed(c.stem)
          BY <2>4, <4>2 DEF Ready, SidecarSettled, WaitedForSidecar, PairInv, WaitInv
        <5> QED BY <3>2, <4>2, <5>1 DEF StemInv
      <4> QED BY <4>1, <4>2
    <3>5. HandInv'
      BY <1>0, <2>2, <2>4, <3>1, <3>3, <3>4 DEF HandInv, Held, Sidecar
    <3> QED BY <2>2, <3>5 DEF PairInv, PairedRight
  <2> QED BY <2>1, <2>3, <2>4
<1>3. CASE ReadSidecar
  <2>1. /\ UNCHANGED <<inbox, jobs>> /\ step = "readSidecar" /\ Busy
        /\ step' \in {"readPdf", "errorPdf"}
    BY <1>3 DEF ReadSidecar, Raise, Busy
  <2>2. /\ cur.side <=> pairing[cur.stem]
        /\ cur.meta = 0
        /\ cur.side => Held(cur.stem) /\ "pdf" \notin owes[cur.stem]
    BY <2>1 DEF PairInv, HandInv
  <2>3. cur.stem \in Stems /\ cur \in Work /\ StemInv(cur.stem)
    BY <1>0, <2>1
  <2>4. \/ ~ cur.side /\ cur' = cur
        \/ /\ cur.side /\ Sidecar(cur.stem) # NoFile
           /\ cur' = [cur EXCEPT !.meta = Sidecar(cur.stem).gen]
        \/ step' = "errorPdf" /\ cur' = [cur EXCEPT !.half = ~ Sidecar(cur.stem).whole]
    BY <1>3 DEF ReadSidecar, Raise
  <2>5. cur'.stem = cur.stem /\ cur'.side = cur.side
    BY <2>3, <2>4 DEF Work
  <2>6. step' = "readPdf" =>
          cur'.meta = IF pairing[cur.stem] THEN drops[cur.stem] ELSE 0
    BY <2>2, <2>3, <2>4 DEF Work, StemInv
  <2>7. HandInv'
    BY <1>0, <2>1, <2>2, <2>5, <2>6 DEF HandInv, Held, Sidecar
  <2> QED BY <2>1, <2>7 DEF PairInv, PairedRight
<1>4. CASE ReadPdf
  <2>1. /\ UNCHANGED <<inbox, jobs>> /\ step = "readPdf" /\ Busy
        /\ step' \in {"movePdf", "errorPdf"}
    BY <1>4 DEF ReadPdf, Raise, Advance, Order, Busy
  <2>2. cur.stem \in Stems /\ cur \in Work /\ StemInv(cur.stem) /\ Pdf(cur.stem) # NoFile
    BY <1>0, <2>1 DEF WholeInv, ReadInv, WholeThere, Pdf
  <2>3. cur' = [cur EXCEPT !.gen = Pdf(cur.stem).gen, !.paired = Pdf(cur.stem).paired,
                           !.half = ~ Pdf(cur.stem).whole]
    BY <1>4, <2>2 DEF ReadPdf
  <2>4. /\ cur'.stem = cur.stem /\ cur'.side = cur.side /\ cur'.meta = cur.meta
        /\ cur'.gen = Pdf(cur.stem).gen /\ cur'.paired = Pdf(cur.stem).paired
    BY <2>2, <2>3 DEF Work
  <2>5. /\ cur.meta = IF pairing[cur.stem] THEN drops[cur.stem] ELSE 0
        /\ cur.side => Held(cur.stem) /\ "pdf" \notin owes[cur.stem]
    BY <2>1 DEF PairInv, HandInv
  <2>6. Pdf(cur.stem).gen = drops[cur.stem] /\ Pdf(cur.stem).paired = pairing[cur.stem]
    BY <2>2 DEF StemInv
  <2>7. cur'.meta = IF cur'.paired THEN cur'.gen ELSE 0
    BY <2>4, <2>5, <2>6
  <2>8. HandInv'
    BY <1>0, <2>1, <2>4, <2>5, <2>7 DEF HandInv, Held, Sidecar
  <2> QED BY <2>1, <2>8 DEF PairInv, PairedRight
<1>5. CASE MovePdf \/ ErrorPdf
  <2>1. /\ UNCHANGED <<cur, jobs>> /\ step \in {"movePdf", "errorPdf"} /\ Busy
        /\ step' \in {"moveSidecar", "errorPdf", "errorSidecar", "look"}
        /\ step' = "moveSidecar" => step = "movePdf"
    BY <1>5 DEF MovePdf, ErrorPdf, Raise, Advance, Order, Busy
  <2>2. cur.stem \in Stems
    BY <1>0, <2>1
  <2>3. inbox' = inbox \/ Becomes(cur.stem, "pdf", NoFile)
    BY <1>0, <1>5, <2>2, PutBecomes DEF MovePdf, ErrorPdf
  <2>4. Sidecar(cur.stem)' = Sidecar(cur.stem)
    BY <1>0, <2>1, <2>2, <2>3 DEF Becomes, Sidecar
  <2>5. step' \in {"moveSidecar", "errorSidecar"} => Pdf(cur.stem)' = NoFile
    <3>1. CASE Becomes(cur.stem, "pdf", NoFile)
      BY <1>0, <2>1, <2>2, <3>1 DEF Becomes, Pdf
    <3>2. CASE ~ Becomes(cur.stem, "pdf", NoFile)
      <4>1. ~ Put(cur.stem, "pdf", NoFile)
        BY <1>0, <2>2, <3>2, PutBecomes
      <4> QED BY <1>5, <2>1, <4>1 DEF MovePdf, ErrorPdf, Gone, Pdf, Raise
    <3> QED BY <3>1, <3>2
  <2>6. /\ step = "movePdf" => cur.meta = IF cur.paired THEN cur.gen ELSE 0
        /\ cur.side => Held(cur.stem) /\ "pdf" \notin owes[cur.stem]
    BY <2>1 DEF PairInv, HandInv
  <2>7. HandInv'
    BY <1>0, <2>1, <2>4, <2>5, <2>6 DEF HandInv, Held, Pdf, Sidecar
  <2> QED BY <2>1, <2>7 DEF PairInv, PairedRight
<1>6. CASE MoveSidecar \/ ErrorSidecar
  <2>1. /\ UNCHANGED <<cur, jobs>> /\ step \in {"moveSidecar", "errorSidecar"} /\ Busy
        /\ \/ step' = "look"
           \/ step' = "insert" /\ step = "moveSidecar"
           \/ step' = "errorPdf" /\ inbox' = inbox
    BY <1>6 DEF MoveSidecar, ErrorSidecar, Raise, Advance, Order, Busy
  <2>2. /\ step = "moveSidecar" => cur.meta = IF cur.paired THEN cur.gen ELSE 0
        /\ cur.side => Held(cur.stem) /\ "pdf" \notin owes[cur.stem]
    BY <2>1 DEF PairInv, HandInv
  <2>3. HandInv'
    BY <1>0, <2>1, <2>2 DEF HandInv, Held, Sidecar
  <2> QED BY <2>1, <2>3 DEF PairInv, PairedRight
<1>7. CASE InsertJob
  <2>1. step = "insert" /\ UNCHANGED <<inbox, cur>> /\ Busy
    BY <1>7 DEF InsertJob, Busy
  <2>2. CASE jobs' = Append(jobs, JobOf(cur)) /\ step' = "look"
    <3>1. JobOf(cur).meta = IF JobOf(cur).paired THEN JobOf(cur).gen ELSE 0
      BY <2>1 DEF JobOf, PairInv, HandInv
    <3>2. \A i \in DOMAIN jobs' : jobs'[i] = IF i \in DOMAIN jobs THEN jobs[i] ELSE JobOf(cur)
      BY <2>2 DEF TypeInv
    <3>3. PairedRight'
      BY <3>1, <3>2 DEF PairInv, PairedRight
    <3> QED BY <2>2, <3>3 DEF HandInv
  <2>3. CASE "insert" \in Faults /\ jobs' = jobs /\ step' = "errorPdf"
    <3>1. MaxDrops = 1 /\ cur.stem \in Stems /\ drops[cur.stem] \in 0..MaxDrops
      BY <1>0, <2>1, <2>3 DEF InTime, TypeInv, TypeOK
    <3>2. cur.gen \in 1..MaxDrops
      BY <2>1 DEF WholeInv, ReadInv, TypeInv, TypeOK
    <3>3. cur.gen <= drops[cur.stem] /\ (cur.gen = drops[cur.stem] => "pdf" \notin owes[cur.stem])
      BY <2>1 DEF OnceInv, WorkInv, Begun
    <3>4. drops[cur.stem] = MaxDrops /\ "pdf" \notin owes[cur.stem]
      BY <3>1, <3>2, <3>3
    <3> QED BY <1>0, <2>1, <2>3, <3>4 DEF HandInv, Held, PairInv, PairedRight
  <2> QED BY <1>7, <2>2, <2>3 DEF InsertJob, Raise, Advance, Order
<1> QED BY <1>1, <1>2, <1>3, <1>4, <1>5, <1>6, <1>7 DEF Worker

LEMMA PairInvariance ==
  ASSUME InTime
  PROVE  Spec => [](TypeInv /\ OnceInv /\ WholeInv /\ PairInv)
<1>1. Init => PairInv
  <2> SUFFICES ASSUME Init PROVE PairInv
    OBVIOUS
  <2>1. ASSUME NEW s \in Stems PROVE StemInv(s)
    BY DEF Init, StemInv, Owed, Pdf, Sidecar, Kinds
  <2>2. WaitInv /\ HandInv /\ PairedRight
    BY DEF Init, WaitInv, HandInv, PairedRight
  <2> QED BY <2>1, <2>2 DEF PairInv
<1>2. (TypeInv /\ OnceInv /\ WholeInv /\ PairInv) /\ [Next]_vars => PairInv'
  <2>1. ASSUME PairInv, UNCHANGED vars  PROVE PairInv'
    BY <2>1 DEF PairInv, StemInv, WaitInv, HandInv, Held, PairedRight, Owed, Pdf, Sidecar,
                vars, producerVars, workerVars
  <2> QED BY <2>1, InTime, HotFolderAssumption, PairEnvironment, StemsWorker, WaitWorker,
             HandWorker DEF Next, PairInv
<1>3. Spec => [](TypeInv /\ OnceInv /\ WholeInv)
  BY InTime, OnceInvariance, WholeInvariance, PTL DEF InTime
<1> QED BY <1>1, <1>2, <1>3, PTL DEF Spec

(* Where a name is not used twice at a time, sidecars are not late, and no *)
(* insert fails or each name is used only once, every job has the metadata its PDF was dropped with, and  *)
(* none of another drop, whatever else fails or dies                       *)
(* (ingest_worker.py 148-170, 250-262).                                    *)
THEOREM PairedCorrect ==
  ASSUME InTime
  PROVE  Spec => []PairedRight
  BY PairInvariance, PTL DEF PairInv

=============================================================================
