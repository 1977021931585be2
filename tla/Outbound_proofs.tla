-------------------------- MODULE Outbound_proofs --------------------------
(***************************************************************************)
(* What holds of Outbound for all cutters, budgets and numbers of attempts *)
(* and scans.                                                              *)
(***************************************************************************)
EXTENDS Outbound, FiniteSetTheorems, SequenceTheorems, TLAPS

-----------------------------------------------------------------------------
(* The inductive invariant                                                 *)

(* Where an exchange stands: whether its command is sent, and its waits.   *)
ExchangesOK ==
  \A c \in Cutters :
    /\ at[c] \in Exchanges <=> phase[c] # "none"
    /\ phase[c] \in {"send", "sleep"} => handed[c] = 0
    /\ phase[c] = "receive" => handed[c] = 1 /\ ExpectsReply(at[c])
    /\ handed[c] <= 1
    /\ phase[c] = "sleep" => waited[c] < RetryTotal
    /\ waited[c] < RetryTotal + RetryInterval

(* An event in flight has an attempt left.                                 *)
EventsOK ==
  /\ CountedForAReason
  /\ \A i \in DOMAIN events : InFlight(i) => events[i].tries < Attempts

IInv == TypeOK /\ ExchangesOK /\ EventsOK /\ CountsAccount /\ ToldWhatWasSent

-----------------------------------------------------------------------------
(* Sets of events                                                          *)

LEMMA EventsTyped ==
  ASSUME TypeOK
  PROVE  /\ events \in Seq(EventType) /\ DOMAIN events = 1..Len(events) /\ Len(events) \in Nat
         /\ \A i \in DOMAIN events : events[i] \in EventType
BY DEF TypeOK

LEMMA SomeEventsFinite ==
  ASSUME TypeOK, NEW S \in SUBSET DOMAIN events
  PROVE  IsFiniteSet(S) /\ Cardinality(S) \in Nat
<1>1. IsFiniteSet(DOMAIN events)
  BY EventsTyped, FS_Interval
<1> QED BY <1>1, FS_Subset, FS_CardinalityType

(* What a notification adds.                                               *)
LEMMA NotifyAdds ==
  ASSUME TypeOK, NEW kind \in {"job.sent", "barcode.no_match"}, NEW c \in Cutters,
         Notify(kind, c)
  PROVE  /\ events' \in Seq(EventType) /\ Len(events') = Len(events) + 1
         /\ DOMAIN events' = DOMAIN events \cup {Len(events) + 1}
         /\ Len(events) + 1 \notin DOMAIN events
         /\ \A i \in DOMAIN events : events'[i] = events[i]
         /\ events'[Len(events) + 1] = Event(kind, c)
<1>1. Event(kind, c) \in EventType
  BY OutboundAssumption DEF Event, EventType, EventStates
<1>2. events \in Seq(EventType)
  BY EventsTyped
<1>3. /\ events' \in Seq(EventType) /\ Len(events') = Len(events) + 1
      /\ \A i \in 1..Len(events) : events'[i] = events[i]
      /\ events'[Len(events) + 1] = Event(kind, c)
  BY <1>1, <1>2, AppendProperties DEF Notify
<1> QED BY <1>2, <1>3, EventsTyped

(* It leaves the counts of the ended events alone.                         *)
LEMMA NotifyKeepsEvents ==
  ASSUME IInv, NEW kind \in {"job.sent", "barcode.no_match"}, NEW c \in Cutters,
         Notify(kind, c), UNCHANGED counters
  PROVE  /\ EventsOK' /\ CountsAccount' /\ lastError' \in 0..Len(events')
<1>1. TypeOK /\ EventsOK /\ CountsAccount
  BY DEF IInv
<1> DEFINE n == Len(events) + 1
<1>2. /\ DOMAIN events' = DOMAIN events \cup {n} /\ n \notin DOMAIN events
      /\ \A i \in DOMAIN events : events'[i] = events[i]
      /\ events'[n] = Event(kind, c) /\ Len(events') = Len(events) + 1
  BY <1>1, NotifyAdds
<1>3. events'[n].state = "trying" /\ events'[n].tries = 0
  BY <1>2 DEF Event
<1>4. lastError' = lastError /\ delivered' = delivered /\ failed' = failed
  BY DEF counters
<1>5. lastError \in 0..Len(events) /\ Len(events) \in Nat /\ DOMAIN events = 1..Len(events)
  BY <1>1, EventsTyped DEF TypeOK
<1> HIDE DEF n
<1>6. Of("delivered")' = Of("delivered") /\ Of("failed")' = Of("failed")
  BY <1>2, <1>3 DEF Of
<1>7. EventsOK'
  BY <1>1, <1>2, <1>3, OutboundAssumption DEF EventsOK, CountedForAReason, InFlight
<1>8. CountsAccount'
  BY <1>1, <1>2, <1>4, <1>5, <1>6 DEF CountsAccount
<1> QED BY <1>2, <1>4, <1>5, <1>7, <1>8

(* A thread changes no event but its own, and neither its kind nor cutter. *)
LEMMA ToldSame ==
  ASSUME DOMAIN events' = DOMAIN events,
         \A i \in DOMAIN events :
           events'[i].kind = events[i].kind /\ events'[i].cutter = events[i].cutter
  PROVE  \A c \in Cutters : Told(c)' = Told(c)
BY DEF Told

-----------------------------------------------------------------------------
(* The workers: their actions change no counter                            *)

LEMMA InitHolds == Init => IInv
<1> SUFFICES ASSUME Init PROVE IInv
  OBVIOUS
<1>1. events = <<>> /\ DOMAIN events = {}
  BY DEF Init
<1>2. TypeOK
  BY <1>1, EmptySeq DEF Init, TypeOK, Places
<1>3. ExchangesOK
  BY OutboundAssumption DEF Init, ExchangesOK, Exchanges, Following
<1>4. EventsOK
  BY <1>1 DEF EventsOK, CountedForAReason
<1>5. Of("delivered") = {} /\ Of("failed") = {} /\ \A c \in Cutters : Told(c) = {}
  BY <1>1 DEF Of, Told
<1>6. CountsAccount
  BY <1>5, FS_EmptySet DEF Init, CountsAccount
<1>7. ToldWhatWasSent
  BY <1>5, FS_EmptySet DEF Init, ToldWhatWasSent
<1> QED BY <1>2, <1>3, <1>4, <1>6, <1>7 DEF IInv

LEMMA Sorts ==
  /\ \A c \in Cutters : ExpectsReply(at[c]) <=> at[c] # "sequence"
  /\ Exchanges = {"selected", "regmark", "command_type", "sequence", "list"}
  /\ Places = Exchanges \cup {"idle", "tell"}
  /\ DOMAIN Following = {"selected", "regmark", "command_type"}
  /\ Following["selected"] = "regmark" /\ Following["regmark"] = "command_type"
  /\ Following["command_type"] = "sequence"
BY DEF Exchanges, Following, ExpectsReply, Places

(* The variables of the workers keep their types and ExchangesOK, and an   *)
(* unfinished event is kept in mind until it is told of.                   *)
WorkersOK ==
  /\ at \in [Cutters -> Places]
  /\ phase \in [Cutters -> {"none", "send", "sleep", "receive"}]
  /\ waited \in [Cutters -> Nat] /\ handed \in [Cutters -> Nat]
  /\ ExchangesOK

LEMMA BeginKeeps ==
  ASSUME WorkersOK, NEW c \in Cutters, NEW exchange \in Exchanges, Begin(c, exchange)
  PROVE  WorkersOK' /\ at' = [at EXCEPT ![c] = exchange]
BY OutboundAssumption, Sorts DEF WorkersOK, ExchangesOK, Begin

LEMMA GoToKeeps ==
  ASSUME WorkersOK, NEW c \in Cutters, NEW place \in {"idle", "tell"}, GoTo(c, place)
  PROVE  WorkersOK' /\ at' = [at EXCEPT ![c] = place]
<1>1. /\ at' = [at EXCEPT ![c] = place] /\ phase' = [phase EXCEPT ![c] = "none"]
      /\ waited' = waited /\ handed' = handed
  BY DEF GoTo
<1>2. place \notin Exchanges /\ place \in Places
  BY Sorts
<1> HIDE DEF Exchanges
<1> QED BY <1>1, <1>2 DEF WorkersOK, ExchangesOK

(* What the books say of a cutter.                                         *)
ToldOf(c) ==
  Cardinality(Told(c)) + untold[c] + (IF at[c] = "tell" THEN 1 ELSE 0) = sends[c]

Books ==
  /\ events \in Seq(EventType) /\ {delivered, failed, scans, restarts} \subseteq Nat
  /\ lastError \in 0..Len(events)
  /\ sends \in [Cutters -> Nat] /\ untold \in [Cutters -> Nat]

LEMMA Parts ==
  IInv <=> WorkersOK /\ Books /\ EventsOK /\ CountsAccount /\ \A c \in Cutters : ToldOf(c)
BY DEF IInv, TypeOK, WorkersOK, Books, ToldWhatWasSent, ToldOf

LEMMA PartsNext ==
  WorkersOK' /\ Books' /\ EventsOK' /\ CountsAccount' /\ (\A c \in Cutters : ToldOf(c)') => IInv'
BY DEF IInv, TypeOK, WorkersOK, Books, ToldWhatWasSent, ToldOf

(* A worker that moves to a place other than the one before the event.     *)
LEMMA WorkerMoves ==
  ASSUME IInv, WorkersOK', NEW c \in Cutters, NEW place \in Places \ {"tell"},
         at' = [at EXCEPT ![c] = place], at[c] # "tell",
         UNCHANGED <<events, counters, restarts, history>>, scans' \in Nat
  PROVE  IInv'
<1>1. Books'
  BY Parts DEF Books, counters, history
<1>2. EventsOK' /\ CountsAccount'
  BY Parts DEF EventsOK, CountsAccount, CountedForAReason, InFlight, Of, counters
<1>3. \A d \in Cutters : ToldOf(d)'
  <2>1. \A d \in Cutters : Told(d)' = Told(d) /\ untold'[d] = untold[d] /\ sends'[d] = sends[d]
    BY DEF Told, history
  <2>2. \A d \in Cutters : (at'[d] = "tell") <=> (at[d] = "tell")
    BY Parts DEF WorkersOK
  <2>3. ASSUME NEW d \in Cutters PROVE ToldOf(d)'
    <3>1. Cardinality(Told(d))' = Cardinality(Told(d))
      BY <2>1
    <3>2. ToldOf(d)
      BY Parts
    <3> QED BY <2>1, <2>2, <3>1, <3>2 DEF ToldOf
  <2> QED BY <2>3
<1> QED BY <1>1, <1>2, <1>3, PartsNext

-----------------------------------------------------------------------------
(* The actions of the workers                                              *)

LEMMA ScanKeeps ==
  ASSUME IInv, NEW c \in Cutters, ScanJob(c) \/ ScanNoMatch(c)
  PROVE  IInv'
<1>1. CASE ScanJob(c)
  <2>1. WorkersOK' /\ at' = [at EXCEPT ![c] = "selected"]
    BY <1>1, BeginKeeps, Parts, Sorts DEF ScanJob
  <2>2. at[c] # "tell" /\ scans' \in Nat /\ UNCHANGED <<events, counters, restarts, history>>
    BY <1>1, Parts DEF ScanJob, Scan, Books
  <2> QED BY <2>1, <2>2, WorkerMoves, Sorts
<1>2. CASE ScanNoMatch(c)
  <2>1. WorkersOK' /\ at' = [at EXCEPT ![c] = "list"] /\ at[c] = "idle"
    BY <1>2, BeginKeeps, Parts, Sorts DEF ScanNoMatch, Scan
  <2>2. Notify("barcode.no_match", c) /\ UNCHANGED <<counters, restarts, history>> /\ scans' \in Nat
    BY <1>2, Parts DEF ScanNoMatch, Scan, Books
  <2>3. TypeOK
    BY DEF IInv
  <2>4. EventsOK' /\ CountsAccount' /\ lastError' \in 0..Len(events')
    BY <2>2, NotifyKeepsEvents
  <2>5. Books'
    BY <2>2, <2>3, <2>4, NotifyAdds, Parts DEF Books, counters, history
  <2>6. ASSUME NEW d \in Cutters PROVE ToldOf(d)'
    <3>1. /\ DOMAIN events' = DOMAIN events \cup {Len(events) + 1}
          /\ \A i \in DOMAIN events : events'[i] = events[i]
          /\ events'[Len(events) + 1] = Event("barcode.no_match", c)
      BY <2>2, <2>3, NotifyAdds
    <3>2. events'[Len(events) + 1].kind = "barcode.no_match"
      BY <3>1 DEF Event
    <3>3. Told(d)' = Told(d)
      BY <3>1, <3>2 DEF Told
    <3>4. Cardinality(Told(d))' = Cardinality(Told(d))
      BY <3>3
    <3>5. (at'[d] = "tell") <=> (at[d] = "tell")
      BY <2>1, Parts DEF WorkersOK
    <3>6. untold'[d] = untold[d] /\ sends'[d] = sends[d] /\ ToldOf(d)
      BY <2>2, Parts DEF history
    <3> QED BY <3>4, <3>5, <3>6 DEF ToldOf
  <2> QED BY <2>1, <2>4, <2>5, <2>6, PartsNext
<1> QED BY <1>1, <1>2

LEMMA RaisedKeeps ==
  ASSUME IInv, NEW c \in Cutters, at[c] # "tell", Raised(c),
         UNCHANGED <<events, counters, scans, restarts, history>>
  PROVE  IInv'
<1>1. WorkersOK' /\ at' = [at EXCEPT ![c] = "idle"]
  BY GoToKeeps, Parts DEF Raised
<1>2. scans' \in Nat
  BY Parts DEF Books
<1> QED BY <1>1, <1>2, WorkerMoves, Sorts

(* A sequence that is sent has its event to come.                          *)
LEMMA ReturnedKeeps ==
  ASSUME IInv, NEW c \in Cutters, phase[c] # "none", Returned(c),
         UNCHANGED <<events, counters, scans, restarts>>
  PROVE  IInv'
<1>1. at[c] \in Exchanges /\ scans' \in Nat
  BY Parts DEF WorkersOK, ExchangesOK, Books
<1>2. CASE at[c] \in DOMAIN Following
  <2>1. Begin(c, Following[at[c]]) /\ UNCHANGED history
    BY <1>2, Sorts DEF Returned
  <2>2. Following[at[c]] \in Exchanges
    BY <1>2, Sorts
  <2>3. WorkersOK' /\ at' = [at EXCEPT ![c] = Following[at[c]]]
    BY <2>1, <2>2, BeginKeeps, Parts
  <2>4. Following[at[c]] \in Places \ {"tell"} /\ at[c] # "tell"
    BY <1>2, Sorts
  <2> QED BY <1>1, <2>1, <2>3, <2>4, WorkerMoves
<1>3. CASE at[c] = "list"
  <2>1. GoTo(c, "idle") /\ UNCHANGED history
    BY <1>3, Sorts DEF Returned
  <2>2. WorkersOK' /\ at' = [at EXCEPT ![c] = "idle"]
    BY <2>1, GoToKeeps, Parts
  <2> QED BY <1>1, <1>3, <2>1, <2>2, WorkerMoves, Sorts
<1>4. CASE at[c] = "sequence"
  <2>1. GoTo(c, "tell") /\ sends' = [sends EXCEPT ![c] = @ + 1] /\ untold' = untold
    BY <1>4, Sorts DEF Returned
  <2>2. WorkersOK' /\ at' = [at EXCEPT ![c] = "tell"]
    BY <2>1, GoToKeeps, Parts
  <2>3. Books' /\ EventsOK' /\ CountsAccount'
    BY <2>1, Parts DEF Books, EventsOK, CountsAccount, CountedForAReason, InFlight, Of, counters
  <2>4. ASSUME NEW d \in Cutters PROVE ToldOf(d)'
    <3>1. Cardinality(Told(d))' = Cardinality(Told(d)) /\ Cardinality(Told(d)) \in Nat
      BY SomeEventsFinite DEF Told, IInv
    <3>2. ToldOf(d) /\ untold[d] \in Nat /\ sends[d] \in Nat /\ at \in [Cutters -> Places]
      BY Parts DEF Books, WorkersOK
    <3>3. CASE d = c
      <4>1. at'[d] = "tell" /\ at[d] # "tell" /\ sends'[d] = sends[d] + 1
        BY <1>4, <2>1, <2>2, <3>2, <3>3, Parts DEF Books
      <4> QED BY <2>1, <3>1, <3>2, <4>1 DEF ToldOf
    <3>4. CASE d # c
      <4>1. at'[d] = at[d] /\ sends'[d] = sends[d]
        BY <2>1, <2>2, <3>2, <3>4, Parts DEF Books
      <4> QED BY <2>1, <3>1, <3>2, <4>1 DEF ToldOf
    <3> QED BY <3>3, <3>4
  <2> QED BY <2>2, <2>3, <2>4, PartsNext
<1> QED BY <1>1, <1>2, <1>3, <1>4, Sorts

(* A worker that stays where it is.                                        *)
LEMMA WorkerStays ==
  ASSUME IInv, WorkersOK', at' = at, UNCHANGED <<events, counters, scans, restarts, history>>
  PROVE  IInv'
<1>1. Books' /\ EventsOK' /\ CountsAccount'
  BY Parts DEF Books, EventsOK, CountsAccount, CountedForAReason, InFlight, Of, counters, history
<1>2. \A d \in Cutters : ToldOf(d)'
  BY Parts DEF ToldOf, Told, history
<1> QED BY <1>1, <1>2, PartsNext

LEMMA ExchangeKeeps ==
  ASSUME IInv, NEW c \in Cutters,
         SendFails(c) \/ WakeUp(c) \/ SendAll(c) \/ Reply(c) \/ ReplyFails(c)
  PROVE  IInv'
<1>1. phase[c] # "none" /\ at[c] # "tell" /\ at[c] \in Exchanges
  BY Parts, Sorts DEF SendFails, WakeUp, SendAll, Reply, ReplyFails, WorkersOK, ExchangesOK
<1>2. CASE SendFails(c)
  <2>1. CASE Raised(c)
    BY <1>1, <1>2, <2>1, RaisedKeeps DEF SendFails
  <2>2. CASE ~ Exhausted(c) /\ phase' = [phase EXCEPT ![c] = "sleep"] /\ UNCHANGED <<at, waited, handed>>
    <3>1. WorkersOK'
      BY <1>1, <1>2, <2>2, OutboundAssumption, Parts DEF WorkersOK, ExchangesOK, Exhausted, SendFails
    <3> QED BY <1>2, <2>2, <3>1, WorkerStays DEF SendFails
  <2> QED BY <1>2, <2>1, <2>2 DEF SendFails
<1>3. CASE WakeUp(c)
  <2>1. WorkersOK'
    BY <1>1, <1>3, OutboundAssumption, Parts DEF WorkersOK, ExchangesOK, WakeUp, Longer
  <2> QED BY <1>3, <2>1, WorkerStays DEF WakeUp
<1>4. CASE SendAll(c)
  <2>1. CASE ~ ExpectsReply(at[c]) /\ Returned(c)
    BY <1>1, <1>4, <2>1, ReturnedKeeps DEF SendAll
  <2>2. CASE /\ ExpectsReply(at[c]) /\ phase' = [phase EXCEPT ![c] = "receive"]
             /\ handed' = [handed EXCEPT ![c] = @ + 1] /\ UNCHANGED <<at, waited, history>>
    <3>1. WorkersOK'
      BY <1>1, <1>4, <2>2, OutboundAssumption, Parts DEF WorkersOK, ExchangesOK, SendAll, ExpectsReply
    <3> QED BY <1>4, <2>2, <3>1, WorkerStays DEF SendAll
  <2> QED BY <1>4, <2>1, <2>2 DEF SendAll
<1>5. CASE Reply(c)
  <2>1. CASE Returned(c)
    BY <1>1, <1>5, <2>1, ReturnedKeeps DEF Reply
  <2>2. CASE Rejected(c)
    BY <1>1, <1>5, <2>2, RaisedKeeps DEF Reply, Rejected
  <2> QED BY <1>5, <2>1, <2>2 DEF Reply
<1>6. CASE ReplyFails(c)
  BY <1>1, <1>6, RaisedKeeps DEF ReplyFails, RaisedAtOnce
<1> QED BY <1>2, <1>3, <1>4, <1>5, <1>6

LEMMA TellKeeps ==
  ASSUME IInv, NEW c \in Cutters, Tell(c)
  PROVE  IInv'
<1>1. TypeOK /\ at[c] = "tell"
  BY DEF IInv, Tell
<1>2. WorkersOK' /\ at' = [at EXCEPT ![c] = "idle"]
  BY GoToKeeps, Parts DEF Tell
<1>3. Notify("job.sent", c) /\ UNCHANGED <<counters, scans, restarts, history>>
  BY DEF Tell
<1>4. EventsOK' /\ CountsAccount' /\ lastError' \in 0..Len(events')
  BY <1>3, NotifyKeepsEvents
<1>5. /\ events' \in Seq(EventType) /\ DOMAIN events' = DOMAIN events \cup {Len(events) + 1}
      /\ Len(events) + 1 \notin DOMAIN events
      /\ \A i \in DOMAIN events : events'[i] = events[i]
      /\ events'[Len(events) + 1] = Event("job.sent", c)
  BY <1>1, <1>3, NotifyAdds
<1>6. Books'
  BY <1>3, <1>4, <1>5, Parts DEF Books, counters, history
<1>7. ASSUME NEW d \in Cutters PROVE ToldOf(d)'
  <2> DEFINE n == Len(events) + 1
  <2>1. events'[n].kind = "job.sent" /\ events'[n].cutter = c
    BY <1>5 DEF Event
  <2>2. IsFiniteSet(Told(d)) /\ Cardinality(Told(d)) \in Nat /\ Told(d) \subseteq DOMAIN events
    BY <1>1, SomeEventsFinite DEF Told
  <2>3. ToldOf(d) /\ untold'[d] = untold[d] /\ sends'[d] = sends[d] /\ untold[d] \in Nat
    BY <1>3, Parts DEF history, Books
  <2>4. at \in [Cutters -> Places]
    BY Parts DEF WorkersOK
  <2> HIDE DEF n
  <2>5. CASE d = c
    <3>1. Told(d)' = Told(d) \cup {n} /\ n \notin Told(d)
      BY <1>5, <2>1, <2>2, <2>5 DEF Told, n
    <3>2. Cardinality(Told(d) \cup {n}) = Cardinality(Told(d)) + 1
      BY <2>2, <3>1, FS_AddElement
    <3>3. Cardinality(Told(d))' = Cardinality(Told(d)) + 1
      BY <3>1, <3>2
    <3>4. at'[d] = "idle" /\ at[d] = "tell"
      BY <1>1, <1>2, <2>4, <2>5
    <3> QED BY <2>2, <2>3, <3>3, <3>4 DEF ToldOf
  <2>6. CASE d # c
    <3>1. Told(d)' = Told(d)
      BY <1>5, <2>1, <2>6 DEF Told, n
    <3>2. Cardinality(Told(d))' = Cardinality(Told(d)) /\ at'[d] = at[d]
      BY <1>2, <2>4, <2>6, <3>1
    <3> QED BY <2>3, <3>2 DEF ToldOf
  <2> QED BY <2>5, <2>6
<1> QED BY <1>2, <1>4, <1>6, <1>7, PartsNext

-----------------------------------------------------------------------------
(* The threads of the events                                               *)

(* Event i, that was in flight, is now e, and no other event has changed.  *)
Became(i, e) ==
  /\ i \in DOMAIN events /\ InFlight(i)
  /\ e \in EventType /\ e.kind = events[i].kind /\ e.cutter = events[i].cutter
  /\ events' = [events EXCEPT ![i] = e]

(* What the step of a thread leaves to be shown: its counts.               *)
LEMMA ThreadMoves ==
  ASSUME IInv, NEW i, NEW e, Became(i, e), UNCHANGED <<worker, scans, restarts, history>>,
         delivered' \in Nat, failed' \in Nat, lastError' \in 0..Len(events),
         e.state \in {"trying", "waiting"} => e.tries < Attempts,
         e.state = "delivered" => e.got,
         e.state = "failed" => e.tries = Attempts,
         CountsAccount'
  PROVE  IInv'
<1>1. TypeOK /\ events \in Seq(EventType)
  BY DEF IInv, TypeOK
<1>2. /\ events' \in Seq(EventType) /\ Len(events') = Len(events) /\ DOMAIN events' = DOMAIN events
      /\ events'[i] = e /\ \A j \in DOMAIN events \ {i} : events'[j] = events[j]
  BY <1>1, ExceptSeq DEF Became
<1>3. Books'
  BY <1>2, Parts DEF Books, history
<1>4. WorkersOK'
  BY Parts DEF WorkersOK, ExchangesOK, ExpectsReply, worker
<1>5. EventsOK'
  BY <1>2, Parts DEF EventsOK, CountedForAReason, InFlight, Became
<1>6. ASSUME NEW c \in Cutters PROVE ToldOf(c)'
  <2>1. Told(c)' = Told(c)
    BY <1>2, ToldSame DEF Became
  <2>2. Cardinality(Told(c))' = Cardinality(Told(c))
    BY <2>1
  <2>3. at' = at /\ sends' = sends /\ untold' = untold /\ ToldOf(c)
    BY Parts DEF worker, history
  <2> QED BY <2>2, <2>3 DEF ToldOf
<1> QED BY <1>3, <1>4, <1>5, <1>6, PartsNext

(* How the sets of ended events change with event i.                       *)
LEMMA OneMoreOf ==
  ASSUME IInv, NEW i, NEW e, Became(i, e), NEW state \in {"delivered", "failed"}
  PROVE  /\ e.state # state => Of(state)' = Of(state)
         /\ e.state = state => Cardinality(Of(state)') = Cardinality(Of(state)) + 1
         /\ Cardinality(Of(state)) \in Nat
<1>1. TypeOK /\ events \in Seq(EventType)
  BY DEF IInv, TypeOK
<1>2. /\ DOMAIN events' = DOMAIN events
      /\ events'[i] = e /\ \A j \in DOMAIN events \ {i} : events'[j] = events[j]
  BY <1>1 DEF Became
<1>3. i \in DOMAIN events /\ i \notin Of(state)
  BY DEF Became, InFlight, Of
<1>4. IsFiniteSet(Of(state)) /\ Cardinality(Of(state)) \in Nat
  BY <1>1, SomeEventsFinite DEF Of
<1>5. e.state # state => Of(state)' = Of(state)
  BY <1>2, <1>3 DEF Of
<1>6. e.state = state => Of(state)' = Of(state) \cup {i}
  BY <1>2, <1>3 DEF Of
<1>7. Cardinality(Of(state) \cup {i}) = Cardinality(Of(state)) + 1
  BY <1>3, <1>4, FS_AddElement
<1> QED BY <1>4, <1>5, <1>6, <1>7

LEMMA OneTryMore ==
  ASSUME IInv, NEW i \in DOMAIN events, InFlight(i)
  PROVE  events[i].tries + 1 \in 0..Attempts /\ events[i].got \in BOOLEAN
<1>1. events[i] \in EventType /\ events[i].tries < Attempts
  BY EventsTyped, Parts DEF IInv, EventsOK
<1>2. events[i].tries \in 0..Attempts /\ events[i].got \in BOOLEAN
  BY <1>1 DEF EventType
<1> QED BY <1>1, <1>2, OutboundAssumption

LEMMA DeliveredKeeps ==
  ASSUME IInv, NEW i \in DOMAIN events, Delivered(i)
  PROVE  IInv'
<1> DEFINE e == [events[i] EXCEPT !.state = "delivered", !.got = TRUE,
                                  !.tries = events[i].tries + 1]
<1>1. events[i] \in EventType /\ InFlight(i) /\ events[i].tries < Attempts
  BY EventsTyped, Parts DEF IInv, Delivered, InFlight, EventsOK
<1>2. /\ e \in EventType /\ e.kind = events[i].kind /\ e.cutter = events[i].cutter
      /\ e.state = "delivered" /\ e.got
  <2>1. events[i].tries + 1 \in 0..Attempts /\ "delivered" \in EventStates
    BY <1>1, OneTryMore DEF EventStates
  <2> QED BY <1>1, <2>1 DEF EventType
<1>3. events' = [events EXCEPT ![i] = e]
  BY <1>1 DEF Delivered, EventType
<1>4. Became(i, e) /\ e.state = "delivered" /\ e.got
  BY <1>1, <1>2, <1>3 DEF Became
<1>5. /\ delivered' = delivered + 1 /\ UNCHANGED <<failed, lastError>>
      /\ UNCHANGED <<worker, scans, restarts, history>>
  BY DEF Delivered
<1> HIDE DEF e
<1>6. Cardinality(Of("delivered")') = Cardinality(Of("delivered")) + 1 /\ Of("failed")' = Of("failed")
  BY <1>4, OneMoreOf
<1>7. lastError' # 0 => events'[lastError'].state = "failed"
  <2>1. SUFFICES ASSUME lastError # 0 PROVE events'[lastError].state = "failed"
    BY <1>5
  <2>2. events[lastError].state = "failed" /\ lastError \in DOMAIN events
    BY <2>1, EventsTyped DEF IInv, CountsAccount, TypeOK
  <2>3. lastError # i
    BY <1>1, <2>2 DEF InFlight
  <2> QED BY <1>3, <2>2, <2>3
<1>8. CountsAccount'
  BY <1>5, <1>6, <1>7, Parts DEF CountsAccount
<1>9. delivered' \in Nat /\ failed' \in Nat /\ lastError' \in 0..Len(events)
  BY <1>5, Parts DEF Books
<1> QED BY <1>4, <1>5, <1>8, <1>9, ThreadMoves

LEMMA AttemptFailsKeeps ==
  ASSUME IInv, NEW i \in DOMAIN events, AttemptFails(i)
  PROVE  IInv'
<1>1. events[i] \in EventType /\ InFlight(i) /\ events[i].tries < Attempts /\ events[i].tries \in Nat
  BY EventsTyped, Parts DEF IInv, AttemptFails, InFlight, EventsOK, EventType
<1>2. PICK got \in {events[i].got, TRUE} :
        events' = [events EXCEPT ![i].state = IF LastTry(i) THEN "failed" ELSE "waiting",
                                 ![i].got = got, ![i].tries = Counted(@)]
  BY DEF AttemptFails
<1> DEFINE e == [events[i] EXCEPT !.state = IF LastTry(i) THEN "failed" ELSE "waiting",
                                  !.got = got, !.tries = events[i].tries + 1]
<1>3. e \in EventType /\ e.kind = events[i].kind /\ e.cutter = events[i].cutter
  <2>1. events[i].tries + 1 \in 0..Attempts /\ got \in BOOLEAN
    BY <1>1, <1>2, OneTryMore
  <2>2. (IF LastTry(i) THEN "failed" ELSE "waiting") \in EventStates
    BY DEF EventStates
  <2> QED BY <1>1, <2>1, <2>2 DEF EventType
<1>4. events' = [events EXCEPT ![i] = e]
  BY <1>1, <1>2 DEF EventType, Counted
<1>5. /\ e.tries = events[i].tries + 1
      /\ LastTry(i) => e.state = "failed" /\ e.tries = Attempts
      /\ ~ LastTry(i) => e.state = "waiting" /\ e.tries < Attempts
  BY <1>1, OutboundAssumption DEF EventType, Counted, LastTry
<1>6. Became(i, e)
  BY <1>1, <1>3, <1>4 DEF Became
<1>7. /\ failed' = IF LastTry(i) THEN failed + 1 ELSE failed
      /\ lastError' = IF LastTry(i) THEN i ELSE lastError
      /\ delivered' = delivered /\ UNCHANGED <<worker, scans, restarts, history>>
  BY DEF AttemptFails, FailedEvents
<1> HIDE DEF e
<1>8. Of("delivered")' = Of("delivered")
  BY <1>5, <1>6, OneMoreOf
<1>9. Cardinality(Of("failed")') = failed' /\ failed \in Nat
  <2>1. failed = Cardinality(Of("failed")) /\ failed \in Nat
    BY Parts DEF CountsAccount, Books
  <2>2. CASE LastTry(i)
    BY <1>5, <1>6, <1>7, <2>1, <2>2, OneMoreOf
  <2>3. CASE ~ LastTry(i)
    BY <1>5, <1>6, <1>7, <2>1, <2>3, OneMoreOf
  <2> QED BY <2>2, <2>3
<1>10. lastError' # 0 => events'[lastError'].state = "failed"
  <2>1. CASE LastTry(i)
    BY <1>4, <1>5, <1>7, <2>1
  <2>2. CASE ~ LastTry(i) /\ lastError # 0
    <3>1. events[lastError].state = "failed" /\ lastError \in DOMAIN events
      BY <2>2, EventsTyped DEF IInv, CountsAccount, TypeOK
    <3>2. lastError # i
      BY <1>1, <3>1 DEF InFlight
    <3> QED BY <1>4, <1>7, <2>2, <3>1, <3>2
  <2> QED BY <1>7, <2>1, <2>2
<1>11. lastError' \in 0..Len(events) /\ ((lastError' = 0) <=> (failed' = 0))
  <2>1. i \in 1..Len(events) /\ Len(events) \in Nat
    BY EventsTyped DEF IInv
  <2>2. lastError \in 0..Len(events) /\ ((lastError = 0) <=> (failed = 0))
    BY Parts DEF Books, CountsAccount
  <2> QED BY <1>7, <1>9, <2>1, <2>2
<1>12. CountsAccount'
  BY <1>7, <1>8, <1>9, <1>10, <1>11, Parts DEF CountsAccount
<1>13. delivered' \in Nat /\ failed' \in Nat
  BY <1>7, <1>9, Parts DEF Books
<1> QED BY <1>5, <1>6, <1>7, <1>11, <1>12, <1>13, ThreadMoves

LEMMA NextAttemptKeeps ==
  ASSUME IInv, NEW i \in DOMAIN events, NextAttempt(i)
  PROVE  IInv'
<1> DEFINE e == [events[i] EXCEPT !.state = "trying"]
<1>1. events[i] \in EventType /\ InFlight(i) /\ events[i].tries < Attempts
  BY EventsTyped, Parts DEF IInv, NextAttempt, InFlight, EventsOK
<1>2. /\ e \in EventType /\ e.kind = events[i].kind /\ e.cutter = events[i].cutter
      /\ e.state = "trying" /\ e.tries < Attempts
  BY <1>1 DEF EventType, EventStates
<1>3. events' = [events EXCEPT ![i] = e]
  BY <1>1 DEF NextAttempt, EventType
<1>4. Became(i, e)
  BY <1>1, <1>2, <1>3 DEF Became
<1>5. UNCHANGED <<worker, counters, scans, restarts, history>>
  BY DEF NextAttempt
<1> HIDE DEF e
<1>6. Of("delivered")' = Of("delivered") /\ Of("failed")' = Of("failed")
  BY <1>2, <1>4, OneMoreOf
<1>7. lastError # 0 => events'[lastError].state = "failed"
  <2>1. lastError # 0 => events[lastError].state = "failed" /\ lastError \in DOMAIN events
    BY EventsTyped DEF IInv, CountsAccount, TypeOK
  <2> QED BY <1>1, <1>3, <2>1 DEF InFlight
<1>8. CountsAccount'
  BY <1>5, <1>6, <1>7, Parts DEF CountsAccount, counters
<1>9. delivered' \in Nat /\ failed' \in Nat /\ lastError' \in 0..Len(events)
  BY <1>5, Parts DEF Books, counters
<1> QED BY <1>2, <1>4, <1>5, <1>8, <1>9, ThreadMoves
-----------------------------------------------------------------------------
(* A restart ends every worker and thread, and begins the counts anew      *)

LEMMA RestartKeeps ==
  ASSUME IInv, Restart
  PROVE  IInv'
<1>1. TypeOK /\ events \in Seq(EventType) /\ DOMAIN events = 1..Len(events) /\ Len(events) \in Nat
  BY EventsTyped DEF IInv
<1> DEFINE e(i) == [events[i] EXCEPT !.state = IF InFlight(i) THEN "gone" ELSE "past"]
<1>2. events' = [i \in 1..Len(events) |-> e(i)]
  BY <1>1 DEF Restart
<1>3. ASSUME NEW i \in 1..Len(events)
      PROVE  /\ e(i) \in EventType /\ e(i).state \in {"gone", "past"}
             /\ e(i).kind = events[i].kind /\ e(i).cutter = events[i].cutter
  <2>1. events[i] \in EventType
    BY <1>1, EventsTyped
  <2> QED BY <2>1 DEF EventType, EventStates
<1> HIDE DEF e
<1>4. events' \in Seq(EventType) /\ Len(events') = Len(events)
  BY <1>1, <1>2, <1>3
<1>5. DOMAIN events' = DOMAIN events /\ \A i \in DOMAIN events : events'[i] = e(i)
  BY <1>1, <1>2
<1>6. \A i \in DOMAIN events : events'[i].state \in {"gone", "past"}
  BY <1>1, <1>3, <1>5
<1>7. /\ delivered' = 0 /\ failed' = 0 /\ lastError' = 0 /\ restarts' = restarts + 1
      /\ at' = [c \in Cutters |-> "idle"] /\ phase' = [c \in Cutters |-> "none"]
      /\ UNCHANGED <<waited, handed, scans, sends>>
      /\ untold' = [c \in Cutters |-> untold[c] + (IF at[c] = "tell" THEN 1 ELSE 0)]
  BY DEF Restart
<1>8. WorkersOK'
  BY <1>7, Sorts, Parts DEF WorkersOK, ExchangesOK
<1>9. Books'
  BY <1>4, <1>7, Parts DEF Books
<1>10. EventsOK'
  BY <1>5, <1>6 DEF EventsOK, CountedForAReason, InFlight
<1>11. Of("delivered")' = {} /\ Of("failed")' = {}
  BY <1>5, <1>6 DEF Of
<1>12. CountsAccount'
  BY <1>7, <1>11, FS_EmptySet DEF CountsAccount
<1>13. ASSUME NEW c \in Cutters PROVE ToldOf(c)'
  <2>1. Told(c)' = Told(c)
    BY <1>1, <1>3, <1>5, ToldSame
  <2>2. Cardinality(Told(c))' = Cardinality(Told(c)) /\ Cardinality(Told(c)) \in Nat
    BY <1>1, <2>1, SomeEventsFinite DEF Told
  <2>3. ToldOf(c) /\ untold[c] \in Nat /\ at'[c] = "idle" /\ sends'[c] = sends[c]
    BY <1>7, Parts DEF Books
  <2>4. untold'[c] = untold[c] + (IF at[c] = "tell" THEN 1 ELSE 0)
    BY <1>7
  <2> QED BY <2>2, <2>3, <2>4 DEF ToldOf
<1> QED BY <1>8, <1>9, <1>10, <1>12, <1>13, PartsNext

-----------------------------------------------------------------------------
(* The invariant, and what follows from it                                 *)

LEMMA UnchangedKeeps ==
  ASSUME IInv, UNCHANGED vars
  PROVE  IInv'
<1>1. WorkersOK'
  BY Parts DEF WorkersOK, ExchangesOK, ExpectsReply, vars, worker
<1> QED BY <1>1, WorkerStays DEF vars, worker

LEMMA StepKeeps == IInv /\ [Next]_vars => IInv'
<1> SUFFICES ASSUME IInv, [Next]_vars PROVE IInv'
  OBVIOUS
<1>1. CASE \E c \in Cutters : ScanJob(c) \/ ScanNoMatch(c) \/ Work(c)
  BY <1>1, ScanKeeps, ExchangeKeeps, TellKeeps DEF Work
<1>2. CASE \E i \in DOMAIN events : Deliver(i)
  BY <1>2, DeliveredKeeps, AttemptFailsKeeps, NextAttemptKeeps DEF Deliver
<1>3. CASE Restart
  BY <1>3, RestartKeeps
<1>4. CASE UNCHANGED vars
  BY <1>4, UnchangedKeeps
<1> QED BY <1>1, <1>2, <1>3, <1>4 DEF Next

LEMMA Invariance == Spec => []IInv
BY InitHolds, StepKeeps, PTL DEF Spec

(* Every variable keeps its type: no event is tried more than Attempts     *)
(* times.                                                                  *)
THEOREM TypeCorrect == Spec => []TypeOK
<1>1. IInv => TypeOK
  BY DEF IInv
<1> QED BY <1>1, Invariance, PTL

(* No retry sends a command a second time once all of it was sent.         *)
THEOREM OneWholeCorrect == Spec => []OneWholeCommand
<1>1. IInv => OneWholeCommand
  BY DEF IInv, ExchangesOK, OneWholeCommand
<1> QED BY <1>1, Invariance, PTL

(* An exchange waits for less than the budget and one interval, whatever   *)
(* the two are, as long as the interval is not 0.                          *)
THEOREM BudgetCorrect == Spec => []WaitsWithinBudget
<1>1. IInv => WaitsWithinBudget
  BY DEF IInv, ExchangesOK, WaitsWithinBudget
<1> QED BY <1>1, Invariance, PTL

(* The shared counters account for every event that has ended.             *)
THEOREM CountsCorrect == Spec => []CountsAccount
<1>1. IInv => CountsAccount
  BY DEF IInv
<1> QED BY <1>1, Invariance, PTL

(* No event is counted as delivered that has not got there, nor as failed  *)
(* with an attempt left.                                                   *)
THEOREM ReasonsCorrect == Spec => []CountedForAReason
<1>1. IInv => CountedForAReason
  BY DEF IInv, EventsOK
<1> QED BY <1>1, Invariance, PTL

(* The counts that the status page shows are true of the events.           *)
THEOREM CountsTrue == Spec => []CountsAreTrue
  BY CountsCorrect, ReasonsCorrect, PTL DEF CountsAreTrue

(* Every sequence sent is told of once, unless a restart comes in between. *)
THEOREM ToldCorrect == Spec => []ToldWhatWasSent
<1>1. IInv => ToldWhatWasSent
  BY DEF IInv
<1> QED BY <1>1, Invariance, PTL

=============================================================================
