--------------------------- MODULE ModelScheduler ---------------------------
(***************************************************************************)
(* One ServiceScheduler: its callers, its dispatcher thread, the threads   *)
(* of its executor, the threads that stop or inspect it, its waiting room  *)
(* and its circuit breaker.                                                *)
(*                                                                         *)
(* A model invocation is submitted once.  Every region under `_condition', *)
(* every breaker method and every transition of a future is one action.    *)
(* What a thread removes from the waiting room under the lock it settles   *)
(* after releasing it: `settler' says which thread still owes the          *)
(* settlement, and any other thread may act in between.                    *)
(***************************************************************************)
EXTENDS BreakerRules, DispatchOrder, FiniteSets

CONSTANTS
    Maximum,        \* maximum: slots of the service
    QueueLimit,     \* _queue_limit, 10 * maximum in the code
    ActorLimit,     \* _actor_limit, 2 * maximum in the code
    Cancellable     \* invocations whose context has a cancel_event

ASSUME SchedulerAssumption ==
    /\ IsFiniteSet(Work)
    /\ Maximum \in Nat \ {0}
    /\ QueueLimit \in Nat \ {0}
    /\ ActorLimit \in Nat \ {0}
    /\ Cancellable \subseteq Work

VARIABLES
    queued,             \* _queued
    actorQueued,        \* _actor_queued, 0 for an absent actor
    active,             \* _active
    shutdown,           \* _shutdown
    breaker,            \* _breaker
    dispatcher,         \* "awake", "asleep" in _wait, or "exited"
    life,               \* life[w]: how far invocation w has come
    future,             \* future[w]: state of its Future
    verdict,            \* verdict[w]: what its future will be settled with
    permit,             \* permit[w]: its breaker permit
    settler,            \* settler[w]: the thread that has taken w out
    cancelRequested,    \* cancel_events that are set
    expired             \* invocations whose deadline_at has passed

roomVars    == <<lanes, queued, actorQueued>>
controlVars == <<active, shutdown, dispatcher>>
workVars    == <<life, future, verdict, permit, settler>>
clientVars  == <<cancelRequested, expired>>
vars == <<roomVars, index, controlVars, breaker, workVars, clientVars>>

(***************************************************************************)
(* The way of an invocation: refused, or queued; from the waiting room     *)
(* taken out to be settled without a call, or claimed by the dispatcher,   *)
(* handed to the executor, calling the provider, recorded in the breaker   *)
(* (tripped if that opened it), about to drain, leaving its slot, done.    *)
(***************************************************************************)
Lives == {"new", "refused", "queued", "taken", "claimed", "ready", "calling",
          "recorded", "tripped", "draining", "leaving", "done"}

HoldingSlot == {"claimed", "ready", "calling", "recorded", "tripped",
                "draining", "leaving"}

Verdicts == {"none", "cancelled", "timeout", "full", "unavailable", "answer", "error"}

FutureStates == {"pending", "running"} \cup (Verdicts \ {"none"})

Nobody     == <<>>
Dispatcher == <<"dispatcher">>
Stopper    == <<"stopper">>
Inspector  == <<"inspector">>
Caller(w)  == <<"caller", w>>
Runner(w)  == <<"runner", w>>

Threads == {Dispatcher, Stopper, Inspector}
             \cup {Caller(w) : w \in Work} \cup {Runner(w) : w \in Work}

RoomTypeOK ==
    /\ lanes \in Lanes
    /\ index \in 1 .. Len(DispatchPattern)

ControlTypeOK ==
    /\ queued \in Nat
    /\ actorQueued \in [Actor -> Nat]
    /\ active \in Nat
    /\ shutdown \in BOOLEAN
    /\ breaker \in Breakers
    /\ dispatcher \in {"awake", "asleep", "exited"}
    /\ life \in [Work -> Lives]
    /\ future \in [Work -> FutureStates]
    /\ verdict \in [Work -> Verdicts]
    /\ permit \in [Work -> Permits \cup {NoPermit}]
    /\ settler \in [Work -> Threads \cup {Nobody}]
    /\ cancelRequested \in SUBSET Cancellable
    /\ expired \in SUBSET Work

TypeOK == RoomTypeOK /\ ControlTypeOK

Init ==
    /\ OrderInit
    /\ queued = 0 /\ actorQueued = [a \in Actor |-> 0]
    /\ active = 0 /\ shutdown = FALSE /\ dispatcher = "awake"
    /\ breaker = NewBreaker
    /\ life = [w \in Work |-> "new"]
    /\ future = [w \in Work |-> "pending"]
    /\ verdict = [w \in Work |-> "none"]
    /\ permit = [w \in Work |-> NoPermit]
    /\ settler = [w \in Work |-> Nobody]
    /\ cancelRequested = {} /\ expired = {}

-----------------------------------------------------------------------------
(* Helpers *)

Waiting == {w \in Work : life[w] = "queued"}

SlotHolders == {w \in Work : life[w] \in HoldingSlot}

Settled(w) == future[w] \notin {"pending", "running"}

Owes(thread) == \E w \in Work : settler[w] = thread

(* submit has returned the future to its caller. *)
Returned(w) == life[w] \notin {"new", "refused"} /\ ~Owes(Caller(w))

(* Faulty: the change is made without notifying. *)
FaultyWoken == dispatcher

(* notify and notify_all: the dispatcher is the only waiter. *)
Woken == IF dispatcher = "asleep" THEN "awake" ELSE dispatcher

(* Queued items that are cancelled or past their deadline. *)
Stale ==
    {w \in Waiting :
        future[w] = "cancelled" \/ w \in cancelRequested \/ w \in expired}

StaleVerdict(w) ==
    IF future[w] = "cancelled" \/ w \in cancelRequested THEN "cancelled" ELSE "timeout"

(***************************************************************************)
(* _collect_stale_locked, the first thing that submit, snapshot and the    *)
(* dispatch loop do under the lock: the stale items leave the waiting room *)
(* and its counters at once; `thread' settles them after the lock.         *)
(***************************************************************************)
ActorShare(a, S) == Cardinality({w \in S : ActorOf[w] = a})

RoomKept   == Without(lanes, Stale)
QueuedKept == queued - Cardinality(Stale)
ActorKept  == [a \in Actor |-> actorQueued[a] - ActorShare(a, Stale)]
LifeKept   == [w \in Work |-> IF w \in Stale THEN "taken" ELSE life[w]]
VerdictKept == [w \in Work |-> IF w \in Stale THEN StaleVerdict(w) ELSE verdict[w]]
SettlerKept(thread) == [w \in Work |-> IF w \in Stale THEN thread ELSE settler[w]]

CollectStale(thread) ==
    /\ lanes' = RoomKept /\ queued' = QueuedKept /\ actorQueued' = ActorKept
    /\ life' = LifeKept /\ verdict' = VerdictKept /\ settler' = SettlerKept(thread)

(* _take_all_queued_locked by `thread', which will settle all with v. *)
TakeAllQueued(thread, v) ==
    /\ lanes' = EmptyLanes /\ queued' = 0 /\ actorQueued' = [a \in Actor |-> 0]
    /\ verdict' = [w \in Work |-> IF life[w] = "queued" THEN v ELSE verdict[w]]
    /\ settler' = [w \in Work |-> IF life[w] = "queued" THEN thread ELSE settler[w]]

AllTaken == [w \in Work |-> IF life[w] = "queued" THEN "taken" ELSE life[w]]

-----------------------------------------------------------------------------
(* submit *)

Refusal(w) ==
    IF shutdown THEN "unavailable"
    ELSE IF w \in cancelRequested THEN "cancelled"
    ELSE IF w \in expired THEN "timeout"
    ELSE IF QueuedKept >= QueueLimit \/ ActorKept[ActorOf[w]] >= ActorLimit THEN "full"
    ELSE IF ~CanAdmit(breaker) THEN "unavailable"
    ELSE "none"

Accept(w) ==
    /\ life[w] = "new"
    /\ Refusal(w) = "none"
    /\ lanes' = Enqueued(RoomKept, w)
    /\ queued' = QueuedKept + 1
    /\ actorQueued' = [ActorKept EXCEPT ![ActorOf[w]] = @ + 1]
    /\ breaker' = Admitted(breaker)
    /\ permit' = [permit EXCEPT ![w] = PermitFrom(breaker)]
    /\ life' = [LifeKept EXCEPT ![w] = "queued"]
    /\ verdict' = VerdictKept
    /\ settler' = SettlerKept(Caller(w))
    /\ dispatcher' = Woken
    /\ UNCHANGED <<index, active, shutdown, future, clientVars>>

Refuse(w) ==
    /\ life[w] = "new"
    /\ Refusal(w) # "none"
    /\ lanes' = RoomKept /\ queued' = QueuedKept /\ actorQueued' = ActorKept
    /\ life' = [LifeKept EXCEPT ![w] = "refused"]
    /\ verdict' = [VerdictKept EXCEPT ![w] = Refusal(w)]
    /\ settler' = SettlerKept(Caller(w))
    /\ UNCHANGED <<index, controlVars, breaker, future, permit, clientVars>>

(* The caller settles the refused future last, then has it returned. *)
FinishRefusal(w) ==
    /\ life[w] = "refused"
    /\ ~Owes(Caller(w))
    /\ future' = [future EXCEPT ![w] = verdict[w]]
    /\ life' = [life EXCEPT ![w] = "done"]
    /\ UNCHANGED <<roomVars, index, controlVars, breaker, verdict, permit,
                   settler, clientVars>>

-----------------------------------------------------------------------------
(* Settlement of what was taken out: abandon the permit, then the future,   *)
(* unless its client cancelled it first.  A cancel() that takes effect      *)
(* calls _wake_if_cancelled.                                                *)

(* Faulty: the permit is dropped; a cancelled future is overwritten. *)
FaultyGivenBack(w) == breaker
FaultyFutureSettled(w) == verdict[w]

GivenBack(w) == Abandoned(breaker, permit[w])
FutureSettled(w) == IF future[w] = "pending" THEN verdict[w] ELSE future[w]

Settle(w) ==
    /\ life[w] = "taken"
    /\ breaker' = GivenBack(w)
    /\ future' = [future EXCEPT ![w] = FutureSettled(w)]
    /\ dispatcher' = IF future[w] = "pending" /\ verdict[w] = "cancelled"
                     THEN Woken ELSE dispatcher
    /\ life' = [life EXCEPT ![w] = "done"]
    /\ settler' = [settler EXCEPT ![w] = Nobody]
    /\ UNCHANGED <<roomVars, index, active, shutdown, verdict, permit, clientVars>>

-----------------------------------------------------------------------------
(* _dispatch_loop *)

DispatcherFree == dispatcher = "awake" /\ ~Owes(Dispatcher)

DispatcherCollects ==
    /\ DispatcherFree
    /\ Stale # {}
    /\ CollectStale(Dispatcher)
    /\ UNCHANGED <<index, controlVars, breaker, future, permit, clientVars>>

DispatcherExits ==
    /\ DispatcherFree
    /\ Stale = {}
    /\ shutdown
    /\ dispatcher' = "exited"
    /\ UNCHANGED <<roomVars, index, active, shutdown, breaker, workVars, clientVars>>

SlotFree == active < Maximum

Claim(w) ==
    /\ DispatcherFree
    /\ Stale = {}
    /\ ~shutdown
    /\ SlotFree /\ queued > 0
    /\ life[w] = "queued" /\ w = NextWork(lanes, index)
    /\ lanes' = AfterTake(lanes, index)
    /\ index' = IndexAfterTake(lanes, index)
    /\ queued' = queued - 1
    /\ actorQueued' = [actorQueued EXCEPT ![ActorOf[w]] = @ - 1]
    /\ active' = active + 1
    /\ life' = [life EXCEPT ![w] = "claimed"]
    /\ settler' = [settler EXCEPT ![w] = Dispatcher]
    /\ UNCHANGED <<shutdown, dispatcher, breaker, future, verdict, permit, clientVars>>

DispatcherWaits ==
    /\ DispatcherFree
    /\ Stale = {}
    /\ ~shutdown
    /\ ~SlotFree \/ queued = 0
    /\ dispatcher' = "asleep"
    /\ UNCHANGED <<roomVars, index, active, shutdown, breaker, workVars, clientVars>>

(* Faulty: cancel_events are not polled. *)
FaultyWaitIsBounded == Waiting \cap expired # {}

(***************************************************************************)
(* The wait ends by itself at the earliest deadline, and every 0.1 s when  *)
(* a queued item has a cancel_event to poll; with neither it has no limit. *)
(***************************************************************************)
WaitIsBounded == Waiting \cap (expired \cup Cancellable) # {}

WaitTimesOut ==
    /\ dispatcher = "asleep"
    /\ WaitIsBounded
    /\ dispatcher' = "awake"
    /\ UNCHANGED <<roomVars, index, active, shutdown, breaker, workVars, clientVars>>

(* set_running_or_notify_cancel, then executor.submit. *)
Start(w) ==
    /\ life[w] = "claimed"
    /\ future[w] = "pending"
    /\ future' = [future EXCEPT ![w] = "running"]
    /\ life' = [life EXCEPT ![w] = "ready"]
    /\ settler' = [settler EXCEPT ![w] = Nobody]
    /\ UNCHANGED <<roomVars, index, controlVars, breaker, verdict, permit, clientVars>>

(***************************************************************************)
(* The claimed item was cancelled by its client, or the executor refuses   *)
(* it: the dispatcher gives permit and slot back itself.                   *)
(***************************************************************************)
StartAborted(w) ==
    /\ life[w] = "claimed"
    /\ \/ future[w] = "cancelled" /\ UNCHANGED future
       \/ future[w] = "pending" /\ future' = [future EXCEPT ![w] = "unavailable"]
    /\ breaker' = GivenBack(w)
    /\ life' = [life EXCEPT ![w] = "leaving"]
    /\ UNCHANGED <<roomVars, index, controlVars, verdict, permit, settler, clientVars>>

-----------------------------------------------------------------------------
(* _execute *)

BeginCall(w) ==
    /\ life[w] = "ready"
    /\ w \notin expired \cup cancelRequested
    /\ life' = [life EXCEPT ![w] = "calling"]
    /\ UNCHANGED <<roomVars, index, controlVars, breaker, future, verdict, permit,
                   settler, clientVars>>

RecordOutcome(w, outcome) ==
    /\ breaker' = Recorded(breaker, permit[w], outcome)
    /\ life' = [life EXCEPT ![w] =
                  IF JustOpened(breaker, permit[w], outcome) THEN "tripped" ELSE "recorded"]
    /\ verdict' = [verdict EXCEPT ![w] = IF outcome = "ok" THEN "answer" ELSE "error"]
    /\ UNCHANGED <<roomVars, index, controlVars, future, permit, settler, clientVars>>

(* A deadline or a cancellation seen before the call is recorded as such. *)
SkipCall(w) ==
    /\ life[w] = "ready"
    /\ w \in expired \cup cancelRequested
    /\ RecordOutcome(w, IF w \in expired THEN "scheduling" ELSE "cancelled")

EndCall(w, outcome) ==
    /\ life[w] = "calling"
    /\ RecordOutcome(w, outcome)

(* Faulty: the runner that opened the breaker does not drain. *)
FaultyAfterDelivery(w) == "leaving"

AfterDelivery(w) == IF life[w] = "tripped" THEN "draining" ELSE "leaving"

DeliverOutcome(w) ==
    /\ life[w] \in {"recorded", "tripped"}
    /\ future' = [future EXCEPT ![w] = verdict[w]]
    /\ life' = [life EXCEPT ![w] = AfterDelivery(w)]
    /\ UNCHANGED <<roomVars, index, controlVars, breaker, verdict, permit,
                   settler, clientVars>>

(* _drain_unavailable: fail fast what waits for the service just lost. *)
DrainUnavailable(w) ==
    /\ life[w] = "draining"
    /\ TakeAllQueued(Runner(w), "unavailable")
    /\ life' = [AllTaken EXCEPT ![w] = "leaving"]
    /\ dispatcher' = Woken
    /\ UNCHANGED <<index, active, shutdown, breaker, future, permit, clientVars>>

(* Faulty: the slot is given back without notifying the dispatcher. *)
FaultyFinishActive(w) ==
    /\ life[w] = "leaving"
    /\ ~Owes(Runner(w))
    /\ active' = active - 1
    /\ life' = [life EXCEPT ![w] = "done"]
    /\ settler' = [settler EXCEPT ![w] = Nobody]
    /\ UNCHANGED <<roomVars, index, shutdown, dispatcher, breaker, future, verdict,
                   permit, clientVars>>

FinishActive(w) ==
    /\ life[w] = "leaving"
    /\ ~Owes(Runner(w))
    /\ active' = active - 1
    /\ dispatcher' = Woken
    /\ life' = [life EXCEPT ![w] = "done"]
    /\ settler' = [settler EXCEPT ![w] = Nobody]
    /\ UNCHANGED <<roomVars, index, shutdown, breaker, future, verdict, permit, clientVars>>

-----------------------------------------------------------------------------
(* snapshot and stop_admission *)

Snapshot ==
    /\ ~Owes(Inspector)
    /\ Stale # {}
    /\ CollectStale(Inspector)
    /\ UNCHANGED <<index, controlVars, breaker, future, permit, clientVars>>

StopAdmission ==
    /\ ~shutdown
    /\ shutdown' = TRUE
    /\ TakeAllQueued(Stopper, "cancelled")
    /\ life' = AllTaken
    /\ dispatcher' = Woken
    /\ UNCHANGED <<index, active, breaker, future, permit, clientVars>>

-----------------------------------------------------------------------------
(* Clients and the clock *)

ClientCancels(w) ==
    /\ Returned(w)
    /\ future[w] = "pending"
    /\ future' = [future EXCEPT ![w] = "cancelled"]
    /\ dispatcher' = Woken
    /\ UNCHANGED <<roomVars, index, active, shutdown, breaker, life, verdict,
                   permit, settler, clientVars>>

Unstarted(w) == life[w] \in {"new", "queued", "claimed", "ready"}

RequestCancel(w) ==
    /\ w \in Cancellable \ cancelRequested
    /\ Unstarted(w)
    /\ cancelRequested' = cancelRequested \cup {w}
    /\ UNCHANGED <<roomVars, index, controlVars, breaker, workVars, expired>>

Expire(w) ==
    /\ w \notin expired
    /\ Unstarted(w)
    /\ expired' = expired \cup {w}
    /\ UNCHANGED <<roomVars, index, controlVars, breaker, workVars, cancelRequested>>

CooldownElapses ==
    /\ breaker.state = "open" /\ ~breaker.cooled
    /\ breaker' = [breaker EXCEPT !.cooled = TRUE]
    /\ UNCHANGED <<roomVars, index, controlVars, workVars, clientVars>>

-----------------------------------------------------------------------------

CallerStep(w) == Accept(w) \/ Refuse(w) \/ FinishRefusal(w)

StartStep(w) == Start(w) \/ StartAborted(w)

RunnerStep(w) ==
    \/ BeginCall(w) \/ SkipCall(w) \/ DeliverOutcome(w)
    \/ DrainUnavailable(w) \/ FinishActive(w)

ProviderReturns(w) == \E outcome \in Outcomes : EndCall(w, outcome)

DispatcherStep ==
    \/ DispatcherCollects \/ DispatcherExits \/ DispatcherWaits
    \/ \E w \in Work : Claim(w)

ClientStep(w) == ClientCancels(w) \/ RequestCancel(w) \/ Expire(w)

Next ==
    \/ DispatcherStep \/ WaitTimesOut
    \/ \E w \in Work :
          \/ CallerStep(w) \/ Settle(w) \/ StartStep(w)
          \/ RunnerStep(w) \/ ProviderReturns(w) \/ ClientStep(w)
    \/ Snapshot \/ StopAdmission \/ CooldownElapses

Spec == Init /\ [][Next]_vars

(***************************************************************************)
(* The threads of the scheduler and the callers inside submit keep         *)
(* running; nothing is assumed of clients, of the provider or of the       *)
(* thread that may call snapshot or stop_admission, except that a thread   *)
(* that has taken items out goes on to settle them.                        *)
(***************************************************************************)
ThreadFairness ==
    /\ WF_vars(DispatcherStep) /\ WF_vars(WaitTimesOut)
    /\ \A w \in Work :
          /\ WF_vars(FinishRefusal(w)) /\ WF_vars(Settle(w))
          /\ WF_vars(StartStep(w)) /\ WF_vars(RunnerStep(w))

(* Every provider call ends (transports have timeouts), and time passes. *)
ProviderFairness ==
    /\ \A w \in Work : WF_vars(ProviderReturns(w))
    /\ WF_vars(CooldownElapses)

(* The provider is not among what the specification itself promises. *)
FairSpec == Spec /\ ThreadFairness

-----------------------------------------------------------------------------
(* Properties *)

(***************************************************************************)
(* The slot counter is the number of invocations that hold a slot, and     *)
(* never exceeds the service's max_concurrency: every path out of _execute *)
(* and out of the dispatcher gives the slot back exactly once.             *)
(***************************************************************************)
SlotAccounting ==
    /\ active = Cardinality(SlotHolders)
    /\ active <= Maximum

(***************************************************************************)
(* The counters that admission tests are exact after any mix of submits,   *)
(* takes, stale sweeps, drains and stops: an item is counted exactly while *)
(* it waits for its turn.                                                  *)
(***************************************************************************)
CountersExact ==
    /\ queued = Cardinality(Waiting)
    /\ \A a \in Actor : actorQueued[a] = ActorShare(a, Waiting)
    /\ queued <= QueueLimit
    /\ \A a \in Actor : actorQueued[a] <= ActorLimit

(***************************************************************************)
(* The waiting room holds what waits, each invocation once, in the queue   *)
(* of its own lane and actor; an actor has one turn in a lane exactly      *)
(* while it has a queue there; and while the counter says that something   *)
(* waits, the dispatcher finds an invocation that does, so that            *)
(* _take_next_locked never reaches its AssertionError.                     *)
(***************************************************************************)
RoomExact ==
    /\ \A p \in Priority : IsInjective(lanes.order[p])
    /\ \A p \in Priority, a \in Actor :
          /\ a \in Range(lanes.order[p]) <=> lanes.items[p][a] # <<>>
          /\ IsInjective(lanes.items[p][a])
          /\ Range(lanes.items[p][a]) =
               {w \in Waiting : PriorityOf[w] = p /\ ActorOf[w] = a}
    /\ queued > 0 => NextWork(lanes, index) \in Waiting

(***************************************************************************)
(* The waiting room, under all threads, is the one of DispatchOrder:       *)
(* submits, sweeps, claims, drains and stops are its arrivals,             *)
(* withdrawals, takes and drains, and nothing else touches the lanes or    *)
(* the place in the pattern.                                               *)
(***************************************************************************)
FollowsDispatchOrder == OrderSpec

(***************************************************************************)
(* No wake-up is lost: the dispatcher never sleeps on work it could start, *)
(* on a shutdown it should obey, or without a time limit on an item its    *)
(* client has already cancelled.                                           *)
(***************************************************************************)
NoLostWakeup ==
    dispatcher = "asleep" =>
        /\ ~shutdown
        /\ active >= Maximum \/ Waiting = {}
        /\ \A w \in Waiting : future[w] # "cancelled"

(***************************************************************************)
(* Fail fast: once the thread that saw the breaker open has drained the    *)
(* waiting room, nothing but the recovery probe waits for a service that   *)
(* is not known to work.                                                   *)
(***************************************************************************)
DrainOwed == \E w \in Work : life[w] \in {"tripped", "draining"}

OnlyProbeWaits ==
    breaker.state # "closed" /\ ~DrainOwed =>
        \A w \in Waiting :
            breaker.state = "half_open" /\ breaker.probe = permit[w]

(***************************************************************************)
(* An invocation in the executor owns a running future, which no client    *)
(* can cancel any more, so the result can be set without InvalidStateError;*)
(* conversely a running future always belongs to a thread that will set it.*)
(***************************************************************************)
RunningIffExecuting ==
    \A w \in Work :
        future[w] = "running" <=>
            life[w] \in {"ready", "calling", "recorded", "tripped"}

(***************************************************************************)
(* A future is settled at most once, whoever races for it: client,         *)
(* submitter, dispatcher, runner, drain or stop.                           *)
(***************************************************************************)
SettledOnce == [][\A w \in Work : Settled(w) => future'[w] = future[w]]_vars

(***************************************************************************)
(* The scheduler respects the breaker's contract: each permit it obtains   *)
(* is given back exactly once, on each of the ways an invocation can end.  *)
(***************************************************************************)
PermitStage ==
    [w \in Work |->
        IF life[w] \in {"new", "refused"} \/ permit[w] = NoPermit THEN "new"
        ELSE IF life[w] \in {"queued", "taken", "claimed", "ready", "calling"} THEN "held"
        ELSE "gone"]

Breaker == INSTANCE CircuitBreaker WITH Holder <- Work, stage <- PermitStage

UsesBreakerProperly == Breaker!Spec

SingleProbe == Breaker!SingleProbe

(***************************************************************************)
(* If provider calls end, every submitted invocation comes to an end its   *)
(* caller can see, whoever took it out of the queue.                       *)
(***************************************************************************)
EverySubmissionSettles ==
    ProviderFairness => \A w \in Work : life[w] # "new" ~> Settled(w)

(***************************************************************************)
(* If provider calls end, the dispatcher and all runners finish once the   *)
(* scheduler is stopped: shutdown() returns.                               *)
(***************************************************************************)
ShutdownCompletes ==
    ProviderFairness =>
        (shutdown ~> /\ dispatcher = "exited"
                     /\ \A w \in Work : life[w] \notin HoldingSlot \cup {"taken"})

(***************************************************************************)
(* A hung provider does not hold its queue hostage: a waiting invocation   *)
(* that is cancelled or reaches its deadline settles although no slot ever *)
(* becomes free.                                                           *)
(***************************************************************************)
StaleSettlesAnyway ==
    \A w \in Work : w \in Stale ~> Settled(w)
=============================================================================
