-------------------------- MODULE WorkerLifecycle --------------------------
(***************************************************************************)
(* Starting and stopping a worker of the server: the start() and stop() of *)
(* server/app/dls_worker.py (and, without the lock file, of                *)
(* ingest_worker.py and print_worker.py), called by the lifespan handler   *)
(* and by concurrent requests to /dls/start and /dls/stop, in server       *)
(* processes that share a machine and come and go.                         *)
(*                                                                         *)
(* start() and stop() hold the lifecycle lock of their worker object for   *)
(* their whole length; what a step of them sees changing is its thread.    *)
(***************************************************************************)
EXTENDS Naturals, FiniteSets

CONSTANTS
    Processes,  \* the server processes
    Callers,    \* the threads of a process that serve requests
    Nobody,     \* no caller and no process
    Locked,     \* a Data Link worker takes a lock file, a hot folder does not
    CanCrash    \* a process may end and be started again

ASSUME LifecycleAssumption ==
  /\ Nobody \notin Processes \cup Callers
  /\ {Locked, CanCrash} \subseteq BOOLEAN

VARIABLES
    up,         \* the process runs
    thread,     \* the state of the thread in _thread
    stopEvent,  \* _stop_event is set
    isRunning,  \* _is_running
    joining,    \* the caller that holds the lifecycle lock in a join
    request,    \* what that caller was asked for
    answered,   \* history: what the last request answered was, if successful
    lockFile    \* the process that holds the flock of the cutter

vars == <<up, thread, stopEvent, isRunning, joining, request, answered, lockFile>>

Alive(p) == thread[p] \in {"new", "polling", "leaving"}

(* Threads of the process that run in p, while nobody holds its lock.      *)
CanCall(p) == up[p] /\ joining[p] = Nobody

Release(p) == joining' = [joining EXCEPT ![p] = Nobody]

Answer(p, what) == answered' = [answered EXCEPT ![p] = what]

-----------------------------------------------------------------------------
(* The end of start(): a thread of its own for the worker.                 *)
Spawn(p) ==
  /\ stopEvent' = [stopEvent EXCEPT ![p] = FALSE]
  /\ thread' = [thread EXCEPT ![p] = "new"]
  /\ Answer(p, "start")

(* Mutant: whoever finds a live thread takes it for a running worker.      *)
LooksStarted(p) == Alive(p)

(* start() has nothing to do: the thread lives and is not asked to stop.   *)
IsStarted(p) == Alive(p) /\ ~ stopEvent[p]

(* start(), up to the join of a thread whose stop is in flight.            *)
Start(p, c) ==
  /\ CanCall(p)
  /\ \/ IsStarted(p) /\ Answer(p, "start") /\ UNCHANGED <<thread, stopEvent, joining, request>>
     \/ ~ Alive(p) /\ Spawn(p) /\ UNCHANGED <<joining, request>>
     \/ /\ Alive(p) /\ ~ IsStarted(p)
        /\ joining' = [joining EXCEPT ![p] = c]
        /\ request' = [request EXCEPT ![p] = "start"]
        /\ UNCHANGED <<thread, stopEvent, answered>>
  /\ UNCHANGED <<up, isRunning, lockFile>>

(* stop(), up to the join.                                                 *)
Stop(p, c) ==
  /\ CanCall(p)
  /\ stopEvent' = [stopEvent EXCEPT ![p] = TRUE]
  /\ \/ ~ Alive(p) /\ Answer(p, "stop") /\ UNCHANGED <<joining, request>>
     \/ /\ Alive(p)
        /\ joining' = [joining EXCEPT ![p] = c]
        /\ request' = [request EXCEPT ![p] = "stop"]
        /\ Answer(p, "none")
  /\ UNCHANGED <<up, thread, isRunning, lockFile>>

(* Mutant: a join is taken for an end of the thread, timeout or not.       *)
JoinAlwaysEnds(p) == TRUE

(* What is_alive() says after the join.                                    *)
HasEnded(p) == ~ Alive(p)

(* The join returns, the thread has ended or ten seconds have passed.      *)
Joined(p) ==
  /\ joining[p] # Nobody
  /\ Release(p)
  /\ \/ /\ HasEnded(p) /\ request[p] = "start" /\ Spawn(p)
     \/ /\ HasEnded(p) /\ request[p] = "stop" /\ Answer(p, "stop")
        /\ UNCHANGED <<thread, stopEvent>>
     \/ ~ HasEnded(p) /\ UNCHANGED <<thread, stopEvent, answered>>
  /\ UNCHANGED <<up, isRunning, request, lockFile>>

-----------------------------------------------------------------------------
(* The worker's thread                                                     *)

(* Mutant: the lock file is opened but not locked.                         *)
LockAlways(p) == TRUE

(* _ProcessLock.acquire: LOCK_EX | LOCK_NB.                                *)
LockFree(p) == Locked => lockFile = Nobody

(* The beginning of _run: with the lock it polls, without it it is over    *)
(* ("refused": ended like any thread, and never polled).                   *)
Begin(p) ==
  /\ thread[p] = "new"
  /\ \/ /\ LockFree(p)
        /\ lockFile' = IF Locked THEN p ELSE lockFile
        /\ isRunning' = [isRunning EXCEPT ![p] = TRUE]
        /\ thread' = [thread EXCEPT ![p] = "polling"]
     \/ /\ ~ LockFree(p)
        /\ isRunning' = [isRunning EXCEPT ![p] = FALSE]
        /\ thread' = [thread EXCEPT ![p] = "refused"]
        /\ UNCHANGED lockFile
  /\ UNCHANGED <<up, stopEvent, joining, request, answered>>

(* The loop sees the stop event and the finally clause frees the lock ...  *)
Leave(p) ==
  /\ thread[p] = "polling" /\ stopEvent[p]
  /\ thread' = [thread EXCEPT ![p] = "leaving"]
  /\ lockFile' = IF Locked THEN Nobody ELSE lockFile
  /\ UNCHANGED <<up, stopEvent, isRunning, joining, request, answered>>

(* ... and then says that the worker is not running.                       *)
End(p) ==
  /\ thread[p] = "leaving"
  /\ thread' = [thread EXCEPT ![p] = "ended"]
  /\ isRunning' = [isRunning EXCEPT ![p] = FALSE]
  /\ UNCHANGED <<up, stopEvent, joining, request, answered, lockFile>>

-----------------------------------------------------------------------------
(* The process ends, and the system drops its lock; a new one starts its   *)
(* workers (the lifespan handler, before it serves requests).              *)
Crash(p) ==
  /\ CanCrash /\ up[p]
  /\ up' = [up EXCEPT ![p] = FALSE]
  /\ thread' = [thread EXCEPT ![p] = "none"]
  /\ isRunning' = [isRunning EXCEPT ![p] = FALSE]
  /\ stopEvent' = [stopEvent EXCEPT ![p] = FALSE]
  /\ Release(p)
  /\ Answer(p, "none")
  /\ lockFile' = IF lockFile = p THEN Nobody ELSE lockFile
  /\ UNCHANGED request

Boot(p) ==
  /\ ~ up[p]
  /\ up' = [up EXCEPT ![p] = TRUE]
  /\ Spawn(p)
  /\ UNCHANGED <<isRunning, joining, request, lockFile>>

-----------------------------------------------------------------------------
Init ==
  /\ up = [p \in Processes |-> FALSE]
  /\ thread = [p \in Processes |-> "none"]
  /\ stopEvent = [p \in Processes |-> FALSE]
  /\ isRunning = [p \in Processes |-> FALSE]
  /\ joining = [p \in Processes |-> Nobody]
  /\ request = [p \in Processes |-> "start"]
  /\ answered = [p \in Processes |-> "none"]
  /\ lockFile = Nobody

Thread(p) == Begin(p) \/ Leave(p) \/ End(p)

Next ==
  \E p \in Processes :
    \/ Thread(p) \/ Joined(p) \/ Crash(p) \/ Boot(p)
    \/ \E c \in Callers : Start(p, c) \/ Stop(p, c)

Spec == Init /\ [][Next]_vars

(* Threads run and joins return; nobody has to call, crash or boot.        *)
FairSpec == Spec /\ \A p \in Processes : WF_vars(Thread(p)) /\ WF_vars(Joined(p))

-----------------------------------------------------------------------------
(* Properties                                                              *)

(* Every variable keeps its type.                                          *)
TypeOK ==
  /\ up \in [Processes -> BOOLEAN]
  /\ thread \in [Processes -> {"none", "new", "polling", "leaving",
                            "ended", "refused"}]
  /\ stopEvent \in [Processes -> BOOLEAN]
  /\ isRunning \in [Processes -> BOOLEAN]
  /\ joining \in [Processes -> Callers \cup {Nobody}]
  /\ request \in [Processes -> {"start", "stop"}]
  /\ answered \in [Processes -> {"none", "start", "stop"}]
  /\ lockFile \in Processes \cup {Nobody}

(* However processes and requests interleave, at most one process polls a  *)
(* cutter at a time (dls_worker.py 27-52 and 83-84).                       *)
OnePoller ==
  \A p, q \in Processes :
    thread[p] = "polling" /\ thread[q] = "polling" => p = q

(* The lock file is held by the process whose thread polls, and nobody     *)
(* else: it is what OnePoller rests on (dls_worker.py 32-52 and 205-207).  *)
LockIsHeld ==
  Locked => \A p \in Processes : thread[p] = "polling" <=> lockFile = p

(* A process that is down has no thread and no request left.               *)
DownIsQuiet ==
  \A p \in Processes : ~ up[p] => thread[p] = "none" /\ joining[p] = Nobody

Inv == TypeOK /\ LockIsHeld /\ DownIsQuiet

(* After a stop() that succeeded, no thread of the worker runs before the  *)
(* next start(): the endpoint's stop_completed is true (dls_worker.py      *)
(* 128-140).                                                               *)
StopMeansStopped ==
  \A p \in Processes :
    answered[p] = "stop" /\ joining[p] = Nobody => ~ Alive(p)

(* The status page says that a worker is running exactly while its thread  *)
(* is in the loop or on its way out of it (dls_worker.py 171-211).         *)
StatusIsTrue ==
  \A p \in Processes :
    /\ thread[p] = "polling" => isRunning[p]
    /\ isRunning[p] => thread[p] \in {"polling", "leaving"}

(* A worker whose start() succeeded comes to poll unless it is stopped or  *)
(* another process has its cutter: no interleaving of start and stop       *)
(* leaves it silently stopped (dls_worker.py 102-126 and 170-179).         *)
StartTakesEffect ==
  \A p \in Processes :
    (up[p] /\ answered[p] = "start") ~>
      \/ thread[p] = "polling" /\ ~ stopEvent[p]
      \/ thread[p] = "refused"
      \/ answered[p] # "start"
      \/ ~ up[p]

Alone(p) == \A q \in Processes : up[q] <=> q = p

(* A worker whose server is the only one left polls, once it was started   *)
(* (docs/architecture.md 64: "Workers never die silently").                *)
LastOnePolls ==
  \A p \in Processes :
    (Alone(p) /\ answered[p] = "start") ~>
      \/ thread[p] = "polling" /\ ~ stopEvent[p]
      \/ answered[p] # "start"
      \/ ~ Alone(p)

=============================================================================
