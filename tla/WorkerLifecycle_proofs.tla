----------------------- MODULE WorkerLifecycle_proofs -----------------------
EXTENDS WorkerLifecycle, TLAPS

(* What start() does when it makes a thread, and that it only makes one    *)
(* when the last one is over, is all of it that the lock depends on.       *)
LEMMA SpawnKeepsLock ==
  ASSUME Inv, NEW p \in Processes, Spawn(p), ~ Alive(p), lockFile' = lockFile
  PROVE  LockIsHeld'
<1>1. thread[p] # "polling" /\ thread'[p] # "polling"
  BY DEF Spawn, Alive, Inv, TypeOK
<1>2. \A q \in Processes \ {p} : thread'[q] = thread[q]
  BY DEF Spawn, Inv, TypeOK
<1> QED BY <1>1, <1>2 DEF LockIsHeld, Inv

LEMMA SpawnTypes ==
  ASSUME TypeOK, NEW p \in Processes, Spawn(p)
  PROVE  /\ stopEvent' \in [Processes -> BOOLEAN]
         /\ thread' \in [Processes -> {"none", "new", "polling", "leaving",
                                  "ended", "refused"}]
         /\ answered' \in [Processes -> {"none", "start", "stop"}]
<1>1. stopEvent' \in [Processes -> BOOLEAN]
  BY DEF Spawn, TypeOK
<1>2. thread' \in [Processes -> {"none", "new", "polling", "leaving",
                                "ended", "refused"}]
  BY DEF Spawn, TypeOK
<1>3. answered' \in [Processes -> {"none", "start", "stop"}]
  BY DEF Spawn, Answer, TypeOK
<1> QED BY <1>1, <1>2, <1>3

LEMMA LockStep == ASSUME Inv, [Next]_vars PROVE Inv'
<1> USE DEF Inv
<1>1. ASSUME NEW p \in Processes, NEW c \in Callers, Start(p, c) PROVE Inv'
  <2>1. up' = up /\ isRunning' = isRunning /\ lockFile' = lockFile /\ up[p]
    BY <1>1 DEF Start, CanCall
  <2>2. CASE IsStarted(p) /\ Answer(p, "start")
             /\ UNCHANGED <<thread, stopEvent, joining, request>>
    BY <2>1, <2>2 DEF Answer, TypeOK, LockIsHeld, DownIsQuiet
  <2>3. CASE ~ Alive(p) /\ Spawn(p) /\ UNCHANGED <<joining, request>>
    <3>1. TypeOK'
      BY <2>1, <2>3, SpawnTypes DEF TypeOK
    <3>2. DownIsQuiet'
      BY <2>1, <2>3 DEF DownIsQuiet, Spawn, TypeOK
    <3> QED BY <2>1, <2>3, <3>1, <3>2, SpawnKeepsLock
  <2>4. CASE /\ joining' = [joining EXCEPT ![p] = c]
             /\ request' = [request EXCEPT ![p] = "start"]
             /\ UNCHANGED <<thread, stopEvent, answered>>
    BY <2>1, <2>4 DEF TypeOK, LockIsHeld, DownIsQuiet
  <2> QED BY <1>1, <2>2, <2>3, <2>4 DEF Start
<1>2. ASSUME NEW p \in Processes, NEW c \in Callers, Stop(p, c) PROVE Inv'
  <2>1. TypeOK'
    BY <1>2 DEF Stop, Answer, TypeOK
  <2>2. LockIsHeld' /\ DownIsQuiet'
    BY <1>2 DEF Stop, CanCall, LockIsHeld, DownIsQuiet, TypeOK
  <2> QED BY <2>1, <2>2
<1>3. ASSUME NEW p \in Processes, Joined(p) PROVE Inv'
  <2>1. /\ up' = up /\ isRunning' = isRunning /\ request' = request
        /\ lockFile' = lockFile /\ up[p]
        /\ joining' = [joining EXCEPT ![p] = Nobody]
    BY <1>3 DEF Joined, Release, DownIsQuiet
  <2>2. CASE ~ Alive(p) /\ Spawn(p)
    <3>1. TypeOK'
      BY <2>1, <2>2, SpawnTypes DEF TypeOK
    <3>2. DownIsQuiet'
      BY <2>1, <2>2 DEF DownIsQuiet, Spawn, TypeOK
    <3> QED BY <2>1, <2>2, <3>1, <3>2, SpawnKeepsLock
  <2>3. CASE /\ UNCHANGED <<thread, stopEvent>>
             /\ answered' = answered \/ Answer(p, "stop")
    BY <2>1, <2>3 DEF Answer, TypeOK, LockIsHeld, DownIsQuiet
  <2> QED BY <1>3, <2>2, <2>3 DEF Joined, HasEnded
<1>4. ASSUME NEW p \in Processes, Begin(p) PROVE Inv'
  <2>1. up' = up /\ joining' = joining /\ thread[p] = "new" /\ up[p]
    BY <1>4 DEF Begin, DownIsQuiet
  <2>2. TypeOK'
    BY <1>4 DEF Begin, TypeOK
  <2>3. DownIsQuiet'
    BY <1>4, <2>1 DEF Begin, DownIsQuiet, TypeOK
  <2>4. CASE Locked /\ lockFile = Nobody /\ lockFile' = p
             /\ thread' = [thread EXCEPT ![p] = "polling"]
    BY <2>2, <2>3, <2>4, LifecycleAssumption DEF LockIsHeld, TypeOK
  <2>5. CASE Locked /\ lockFile' = lockFile
             /\ thread' = [thread EXCEPT ![p] = "refused"]
    BY <2>1, <2>2, <2>3, <2>5 DEF LockIsHeld, TypeOK
  <2>6. CASE ~ Locked
    BY <2>2, <2>3, <2>6 DEF LockIsHeld
  <2> QED BY <1>4, <2>4, <2>5, <2>6 DEF Begin, LockFree
<1>5. ASSUME NEW p \in Processes, Leave(p) PROVE Inv'
  <2>1. TypeOK'
    BY <1>5 DEF Leave, TypeOK
  <2>2. DownIsQuiet'
    BY <1>5 DEF Leave, DownIsQuiet, TypeOK
  <2>3. CASE Locked
    <3>1. lockFile = p /\ lockFile' = Nobody
      BY <1>5, <2>3 DEF Leave, LockIsHeld
    <3>2. \A q \in Processes : thread'[q] # "polling"
      BY <1>5, <2>3, <3>1 DEF Leave, LockIsHeld, TypeOK
    <3> QED BY <2>1, <2>2, <3>1, <3>2, LifecycleAssumption DEF LockIsHeld
  <2>4. CASE ~ Locked
    BY <2>1, <2>2, <2>4 DEF LockIsHeld
  <2> QED BY <2>3, <2>4
<1>6. ASSUME NEW p \in Processes, End(p) PROVE Inv'
  BY <1>6 DEF End, TypeOK, LockIsHeld, DownIsQuiet
<1>7. ASSUME NEW p \in Processes, Crash(p) PROVE Inv'
  <2>1. TypeOK'
    BY <1>7 DEF Crash, Release, Answer, TypeOK
  <2>2. DownIsQuiet'
    BY <1>7 DEF Crash, Release, DownIsQuiet, TypeOK
  <2>3. thread' = [thread EXCEPT ![p] = "none"]
    BY <1>7 DEF Crash
  <2>4. CASE lockFile = p
    <3>1. lockFile' = Nobody
      BY <1>7, <2>4 DEF Crash
    <3>2. Locked => \A q \in Processes : thread'[q] # "polling"
      BY <2>3, <2>4 DEF LockIsHeld, TypeOK
    <3> QED BY <2>1, <2>2, <3>1, <3>2, LifecycleAssumption DEF LockIsHeld
  <2>5. CASE lockFile # p
    <3>1. lockFile' = lockFile
      BY <1>7, <2>5 DEF Crash
    <3> QED BY <2>1, <2>2, <2>3, <2>5, <3>1 DEF LockIsHeld, TypeOK
  <2> QED BY <2>4, <2>5
<1>8. ASSUME NEW p \in Processes, Boot(p) PROVE Inv'
  <2>1. /\ ~ Alive(p) /\ Spawn(p) /\ lockFile' = lockFile
        /\ up' = [up EXCEPT ![p] = TRUE]
        /\ UNCHANGED <<isRunning, joining, request>>
    BY <1>8 DEF Boot, DownIsQuiet, Alive
  <2>2. TypeOK'
    BY <2>1, SpawnTypes DEF TypeOK
  <2>3. DownIsQuiet'
    BY <2>1 DEF DownIsQuiet, Spawn, TypeOK
  <2> QED BY <2>1, <2>2, <2>3, SpawnKeepsLock
<1>9. CASE UNCHANGED vars
  BY <1>9 DEF vars, TypeOK, LockIsHeld, DownIsQuiet
<1> QED
  BY <1>1, <1>2, <1>3, <1>4, <1>5, <1>6, <1>7, <1>8, <1>9 DEF Next, Thread

(* The lock file says who polls, for any number of processes and requests  *)
(* (dls_worker.py 27-52 and 170-211).                                      *)
THEOREM LockCorrect == Spec => []Inv
<1>1. Init => Inv
  BY LifecycleAssumption DEF Init, Inv, TypeOK, LockIsHeld, DownIsQuiet
<1>2. Inv /\ [Next]_vars => Inv'
  BY LockStep
<1> QED BY <1>1, <1>2, PTL DEF Spec

(* At most one process polls a cutter (dls_worker.py 27-52).               *)
THEOREM OnePollerCorrect == ASSUME Locked PROVE Spec => []OnePoller
<1>1. Inv => OnePoller
  BY DEF Inv, LockIsHeld, OnePoller
<1> QED BY LockCorrect, <1>1, PTL

-----------------------------------------------------------------------------
(* A stop that was answered left no thread, also while a later request     *)
(* waits: what makes StopMeansStopped inductive.                           *)
StoppedInv == \A p \in Processes : answered[p] = "stop" => ~ Alive(p)

(* A new thread is answered for as one, and _is_running is not yet set.    *)
LEMMA SpawnIsTrue ==
  ASSUME Inv, StoppedInv, StatusIsTrue, NEW p \in Processes,
         Spawn(p), ~ Alive(p), isRunning' = isRunning
  PROVE  StoppedInv' /\ StatusIsTrue'
<1> USE DEF Inv, TypeOK
<1>1. answered'[p] = "start" /\ thread'[p] = "new" /\ ~ isRunning'[p]
  BY DEF Spawn, Answer, Alive, StatusIsTrue
<1>2. \A q \in Processes \ {p} :
        answered'[q] = answered[q] /\ thread'[q] = thread[q]
  BY DEF Spawn, Answer
<1>3. StoppedInv'
  BY <1>1, <1>2 DEF StoppedInv, Alive
<1>4. StatusIsTrue'
  BY <1>1, <1>2 DEF StatusIsTrue
<1> QED BY <1>3, <1>4

(* Every other step keeps both: only a thread that polls or leaves runs,   *)
(* and a stop is only answered when there is none.                         *)
LEMMA StatusStep ==
  ASSUME Inv, StoppedInv, StatusIsTrue, [Next]_vars
  PROVE  StoppedInv' /\ StatusIsTrue'
<1> USE DEF Inv, TypeOK
<1>1. ASSUME NEW p \in Processes, NEW c \in Callers, Start(p, c)
      PROVE  StoppedInv' /\ StatusIsTrue'
  <2>1. isRunning' = isRunning
    BY <1>1 DEF Start
  <2>2. CASE ~ Alive(p) /\ Spawn(p)
    BY <2>1, <2>2, SpawnIsTrue
  <2>3. CASE UNCHANGED thread /\ (Answer(p, "start") \/ UNCHANGED answered)
    BY <2>1, <2>3 DEF Answer, StoppedInv, StatusIsTrue, Alive
  <2> QED BY <1>1, <2>2, <2>3 DEF Start
<1>2. ASSUME NEW p \in Processes, NEW c \in Callers, Stop(p, c)
      PROVE  StoppedInv' /\ StatusIsTrue'
  BY <1>2 DEF Stop, Answer, StoppedInv, StatusIsTrue, Alive
<1>3. ASSUME NEW p \in Processes, Joined(p)
      PROVE  StoppedInv' /\ StatusIsTrue'
  <2>1. isRunning' = isRunning
    BY <1>3 DEF Joined
  <2>2. CASE ~ Alive(p) /\ Spawn(p)
    BY <2>1, <2>2, SpawnIsTrue
  <2>3. CASE /\ UNCHANGED thread
             /\ UNCHANGED answered \/ (~ Alive(p) /\ Answer(p, "stop"))
    BY <2>1, <2>3 DEF Answer, StoppedInv, StatusIsTrue, Alive
  <2> QED BY <1>3, <2>2, <2>3 DEF Joined, HasEnded
<1>4. ASSUME NEW p \in Processes, Begin(p) PROVE StoppedInv' /\ StatusIsTrue'
  BY <1>4 DEF Begin, StoppedInv, StatusIsTrue, Alive
<1>5. ASSUME NEW p \in Processes, Leave(p) PROVE StoppedInv' /\ StatusIsTrue'
  BY <1>5 DEF Leave, StoppedInv, StatusIsTrue, Alive
<1>6. ASSUME NEW p \in Processes, End(p) PROVE StoppedInv' /\ StatusIsTrue'
  BY <1>6 DEF End, StoppedInv, StatusIsTrue, Alive
<1>7. ASSUME NEW p \in Processes, Crash(p) PROVE StoppedInv' /\ StatusIsTrue'
  BY <1>7 DEF Crash, Answer, StoppedInv, StatusIsTrue, Alive
<1>8. ASSUME NEW p \in Processes, Boot(p) PROVE StoppedInv' /\ StatusIsTrue'
  <2>1. ~ Alive(p) /\ Spawn(p) /\ isRunning' = isRunning
    BY <1>8 DEF Boot, DownIsQuiet, Alive
  <2> QED BY <2>1, SpawnIsTrue
<1>9. CASE UNCHANGED vars
  BY <1>9 DEF vars, StoppedInv, StatusIsTrue, Alive
<1> QED
  BY <1>1, <1>2, <1>3, <1>4, <1>5, <1>6, <1>7, <1>8, <1>9 DEF Next, Thread

LEMMA StatusCorrect == Spec => [](StoppedInv /\ StatusIsTrue)
<1>1. Init => StoppedInv /\ StatusIsTrue
  BY DEF Init, StoppedInv, StatusIsTrue
<1>2. Inv /\ StoppedInv /\ StatusIsTrue /\ [Next]_vars
        => (StoppedInv /\ StatusIsTrue)'
  BY StatusStep
<1> QED BY <1>1, <1>2, LockCorrect, PTL DEF Spec

(* After a stop() that succeeded no thread runs, however long it took and  *)
(* whatever was asked for since (dls_worker.py 128-140).                   *)
THEOREM StopCorrect == Spec => []StopMeansStopped
<1>1. StoppedInv => StopMeansStopped
  BY DEF StoppedInv, StopMeansStopped
<1> QED BY <1>1, StatusCorrect, PTL

(* is_running is true of the thread (dls_worker.py 171-211).               *)
THEOREM RunningCorrect == Spec => []StatusIsTrue
<1> QED BY StatusCorrect, PTL

=============================================================================
