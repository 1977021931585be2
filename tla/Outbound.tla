------------------------------ MODULE Outbound ------------------------------
(***************************************************************************)
(* What the server sends of its own accord: the exchanges of a scan with   *)
(* the cutter, each behind the retry loop of _send_bytes_with_retry        *)
(* (protocol.py), and the webhook events that tell of the scan, each       *)
(* delivered by a thread of its own (webhook.py). The workers of the       *)
(* cutters share the notifier and its counters.                            *)
(*                                                                         *)
(* A connection may be refused, break while the command is sent or while   *)
(* the reply is read; the receiver may take an event without the server    *)
(* seeing its answer; and the server may be restarted at any time.         *)
(***************************************************************************)
EXTENDS Naturals, Sequences, FiniteSets

CONSTANTS
    Cutters,
    RetryTotal,      \* retry_total_ms
    RetryInterval,   \* retry_interval_ms
    Attempts,        \* attempts of a delivery (3)
    MaxScans,        \* bound: scans of all cutters
    MaxRestarts      \* bound: restarts

ASSUME OutboundAssumption ==
  /\ {RetryTotal, MaxScans, MaxRestarts} \subseteq Nat
  /\ {RetryInterval, Attempts} \subseteq Nat \ {0}

VARIABLES
    at,          \* what the worker of a cutter is doing
    phase,       \* where its exchange stands
    waited,      \* waited_ms
    handed,      \* how often its exchange has sent all of its command
    events,      \* the events notified, and how far their threads are
    delivered,   \* _delivered
    failed,      \* _failed
    lastError,   \* the event _last_error is about, or 0
    scans, restarts,   \* for the bounds
    sends,       \* history: the sequences sent to the cutter
    untold       \* history: those whose event a restart has prevented

worker == <<at, phase, waited, handed>>
counters == <<delivered, failed, lastError>>
history == <<sends, untold>>
vars == <<worker, events, counters, scans, restarts, history>>

(* The exchanges of a scan: those about the job, which are followed by one *)
(* another, the job itself, and a job list.                                *)
Following == [selected |-> "regmark", regmark |-> "command_type", command_type |-> "sequence"]
Exchanges == DOMAIN Following \cup {"sequence", "list"}
ExpectsReply(exchange) == exchange # "sequence"

-----------------------------------------------------------------------------
(* The scans, and the events they give rise to                             *)

Event(kind, c) == [kind |-> kind, cutter |-> c, state |-> "trying", tries |-> 0, got |-> FALSE]

Notify(kind, c) == events' = Append(events, Event(kind, c))

Begin(c, exchange) ==
  /\ at' = [at EXCEPT ![c] = exchange]
  /\ phase' = [phase EXCEPT ![c] = "send"]
  /\ waited' = [waited EXCEPT ![c] = 0]
  /\ handed' = [handed EXCEPT ![c] = 0]

(* The worker goes on without an exchange.                                 *)
GoTo(c, place) ==
  /\ at' = [at EXCEPT ![c] = place]
  /\ phase' = [phase EXCEPT ![c] = "none"]
  /\ UNCHANGED <<waited, handed>>

Scan(c) == at[c] = "idle" /\ scans < MaxScans /\ scans' = scans + 1

(* _handle_job_determined: a job is asked about, sent and told of.         *)
ScanJob(c) ==
  /\ Scan(c)
  /\ Begin(c, "selected")
  /\ UNCHANGED <<events, counters, restarts, history>>

(* _handle_requesting_job_list: there is no job, which is told first.      *)
ScanNoMatch(c) ==
  /\ Scan(c)
  /\ Notify("barcode.no_match", c)
  /\ Begin(c, "list")
  /\ UNCHANGED <<counters, restarts, history>>

Tell(c) ==
  /\ at[c] = "tell"
  /\ Notify("job.sent", c)
  /\ GoTo(c, "idle")
  /\ UNCHANGED <<counters, scans, restarts, history>>

(* What follows an exchange that has returned.                             *)
Returned(c) ==
  CASE at[c] \in DOMAIN Following -> Begin(c, Following[at[c]]) /\ UNCHANGED history
    [] at[c] = "list" -> GoTo(c, "idle") /\ UNCHANGED history
    [] at[c] = "sequence" ->
         GoTo(c, "tell") /\ sends' = [sends EXCEPT ![c] = @ + 1] /\ UNCHANGED untold

(* Mutant: the error is only logged, and the job told of.                  *)
GoesOn(c) == GoTo(c, "tell")

(* SendError and ResponseError: the worker enters standby.                 *)
Raised(c) == GoTo(c, "idle")

-----------------------------------------------------------------------------
(* _send_bytes_with_retry                                                  *)

Exhausted(c) == waited[c] >= RetryTotal

(* No connection, or it breaks before all of the command is sent.          *)
SendFails(c) ==
  /\ phase[c] = "send"
  /\ \/ Exhausted(c) /\ Raised(c)
     \/ /\ ~ Exhausted(c)
        /\ phase' = [phase EXCEPT ![c] = "sleep"]
        /\ UNCHANGED <<at, waited, handed>>
  /\ UNCHANGED <<events, counters, scans, restarts, history>>

(* Mutant: the wait is not added up.                                       *)
NotLonger(ms) == ms

Longer(ms) == ms + RetryInterval

WakeUp(c) ==
  /\ phase[c] = "sleep"
  /\ phase' = [phase EXCEPT ![c] = "send"]
  /\ waited' = [waited EXCEPT ![c] = Longer(@)]
  /\ UNCHANGED <<at, handed, events, counters, scans, restarts, history>>

(* sendall has returned: the whole command is on its way.                  *)
SendAll(c) ==
  /\ phase[c] = "send"
  /\ \/ /\ ExpectsReply(at[c])
        /\ phase' = [phase EXCEPT ![c] = "receive"]
        /\ handed' = [handed EXCEPT ![c] = @ + 1]
        /\ UNCHANGED <<at, waited, history>>
     \/ ~ ExpectsReply(at[c]) /\ Returned(c)
  /\ UNCHANGED <<events, counters, scans, restarts>>

(* No job is selected, or the cutter rejects what it is asked for: its     *)
(* answers are looked at after the first and the third exchange.           *)
Rejected(c) == at[c] \in {"selected", "command_type"} /\ Raised(c) /\ UNCHANGED history

Reply(c) ==
  /\ phase[c] = "receive"
  /\ Returned(c) \/ Rejected(c)
  /\ UNCHANGED <<events, counters, scans, restarts>>

(* Mutant: the retry loop takes every error for one of sending.            *)
TryAgain(c) ==
  IF Exhausted(c) THEN Raised(c)
  ELSE phase' = [phase EXCEPT ![c] = "sleep"] /\ UNCHANGED <<at, waited, handed>>

RaisedAtOnce(c) == Raised(c)

(* The reply does not come, or not to its end.                             *)
ReplyFails(c) ==
  /\ phase[c] = "receive"
  /\ RaisedAtOnce(c)
  /\ UNCHANGED <<events, counters, scans, restarts, history>>

-----------------------------------------------------------------------------
(* _deliver, in the thread of event i                                      *)

(* The attempt that is being made is the last.                             *)
LastTry(i) == events[i].tries + 1 = Attempts

(* The receiver has answered with success.                                 *)
Delivered(i) ==
  /\ i \in DOMAIN events /\ events[i].state = "trying"
  /\ events' = [events EXCEPT ![i].state = "delivered", ![i].got = TRUE,
                              ![i].tries = @ + 1]
  /\ delivered' = delivered + 1
  /\ UNCHANGED <<worker, failed, lastError, scans, restarts, history>>

(* Mutant: the attempt is not counted.                                     *)
NotCounted(tries) == tries

Counted(tries) == tries + 1

(* Mutant: every failed attempt is counted.                                *)
FailedAttempts(i) == failed + 1

FailedEvents(i) == IF LastTry(i) THEN failed + 1 ELSE failed

(* Another answer or none, whether the receiver has got the event or not.  *)
AttemptFails(i) ==
  /\ i \in DOMAIN events /\ events[i].state = "trying"
  /\ \E got \in {events[i].got, TRUE} :
       events' = [events EXCEPT ![i].state = IF LastTry(i) THEN "failed" ELSE "waiting",
                                ![i].got = got, ![i].tries = Counted(@)]
  /\ failed' = FailedEvents(i)
  /\ lastError' = IF LastTry(i) THEN i ELSE lastError
  /\ UNCHANGED <<worker, delivered, scans, restarts, history>>

(* The pause before the next attempt is over.                              *)
NextAttempt(i) ==
  /\ i \in DOMAIN events /\ events[i].state = "waiting"
  /\ events' = [events EXCEPT ![i].state = "trying"]
  /\ UNCHANGED <<worker, counters, scans, restarts, history>>

-----------------------------------------------------------------------------
InFlight(i) == events[i].state \in {"trying", "waiting"}

(* Workers and threads end with the process, the counters begin anew.      *)
Restart ==
  /\ restarts < MaxRestarts
  /\ restarts' = restarts + 1
  /\ at' = [c \in Cutters |-> "idle"]
  /\ phase' = [c \in Cutters |-> "none"]
  /\ events' = [i \in DOMAIN events |-> [events[i] EXCEPT !.state = IF InFlight(i) THEN "gone" ELSE "past"]]
  /\ delivered' = 0 /\ failed' = 0 /\ lastError' = 0
  /\ untold' = [c \in Cutters |-> untold[c] + (IF at[c] = "tell" THEN 1 ELSE 0)]
  /\ UNCHANGED <<waited, handed, scans, sends>>

Init ==
  /\ at = [c \in Cutters |-> "idle"] /\ phase = [c \in Cutters |-> "none"]
  /\ waited = [c \in Cutters |-> 0] /\ handed = [c \in Cutters |-> 0]
  /\ events = <<>> /\ delivered = 0 /\ failed = 0 /\ lastError = 0
  /\ scans = 0 /\ restarts = 0
  /\ sends = [c \in Cutters |-> 0] /\ untold = [c \in Cutters |-> 0]

(* What the worker does once a scan has begun.                             *)
Work(c) ==
  SendFails(c) \/ WakeUp(c) \/ SendAll(c) \/ Reply(c) \/ ReplyFails(c) \/ Tell(c)

Deliver(i) == Delivered(i) \/ AttemptFails(i) \/ NextAttempt(i)

Next ==
  \/ \E c \in Cutters : ScanJob(c) \/ ScanNoMatch(c) \/ Work(c)
  \/ \E i \in DOMAIN events : Deliver(i)
  \/ Restart

Spec == Init /\ [][Next]_vars

(* Every socket operation of a worker has a timeout. Nothing is assumed of *)
(* the delivery threads.                                                   *)
FairSpec == Spec /\ \A c \in Cutters : WF_vars(Work(c))

-----------------------------------------------------------------------------
(* Properties                                                              *)

Places == Exchanges \cup {"idle", "tell"}
EventStates == {"trying", "waiting", "delivered", "failed", "gone", "past"}
EventType ==
  [kind : {"job.sent", "barcode.no_match"}, cutter : Cutters, state : EventStates,
   tries : 0..Attempts, got : BOOLEAN]

(* Every variable keeps its type; an event is tried Attempts times at most.*)
TypeOK ==
  /\ at \in [Cutters -> Places]
  /\ phase \in [Cutters -> {"none", "send", "sleep", "receive"}]
  /\ waited \in [Cutters -> Nat] /\ handed \in [Cutters -> Nat]
  /\ events \in Seq(EventType)
  /\ {delivered, failed, scans, restarts} \subseteq Nat
  /\ lastError \in 0..Len(events)
  /\ sends \in [Cutters -> Nat] /\ untold \in [Cutters -> Nat]

(* An exchange sends its whole command once at most: it is repeated only   *)
(* while some of it is still to be sent, never for the sake of its reply   *)
(* (protocol.py 249-271).                                                  *)
OneWholeCommand == \A c \in Cutters : handed[c] <= 1

(* An exchange gives up when its waits reach the budget, and not later     *)
(* than one wait after it (protocol.py 260-271).                           *)
WaitsWithinBudget == \A c \in Cutters : waited[c] < RetryTotal + RetryInterval

Of(state) == {i \in DOMAIN events : events[i].state = state}

(* The counters of all the threads account for every event since the start *)
(* that is not in flight, and the last error is that of a failed event     *)
(* (webhook.py 48-57, 88-104).                                             *)
CountsAccount ==
  /\ delivered = Cardinality(Of("delivered")) /\ failed = Cardinality(Of("failed"))
  /\ lastError # 0 => events[lastError].state = "failed"
  /\ (lastError = 0) <=> (failed = 0)

(* What is counted as delivered has got there; and nothing is counted as   *)
(* failed before every attempt is made, although the receiver may have it  *)
(* (webhook.py 79-102).                                                    *)
CountedForAReason ==
  \A i \in DOMAIN events :
    /\ events[i].state = "delivered" => events[i].got
    /\ events[i].state = "failed" => events[i].tries = Attempts

(* What the status page says of the webhooks is what has become of them.   *)
CountsAreTrue == CountsAccount /\ CountedForAReason

Told(c) == {i \in DOMAIN events : events[i].kind = "job.sent" /\ events[i].cutter = c}

(* Every sequence that was sent to a cutter is told of once, in this       *)
(* order, but for a restart in between (dls_worker.py 396-412).            *)
ToldWhatWasSent ==
  \A c \in Cutters :
    Cardinality(Told(c)) + untold[c] + (IF at[c] = "tell" THEN 1 ELSE 0) = sends[c]

(* A worker comes back from every scan, even if no delivery ever ends      *)
(* (webhook.py 8-9).                                                       *)
WorkersReturn == \A c \in Cutters : at[c] # "idle" ~> at[c] = "idle"

(* When every attempt ends, as its timeout has it, so does every event.    *)
AttemptsEnd == \A i \in 1..MaxScans : WF_vars(Deliver(i))
EventsEnd ==
  AttemptsEnd =>
    \A i \in 1..MaxScans :
      (i \in DOMAIN events /\ InFlight(i)) ~> (i \in DOMAIN events /\ ~ InFlight(i))

=============================================================================
