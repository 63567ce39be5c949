------------------------ MODULE ModelSchedulerProofs ------------------------
(***************************************************************************)
(* ModelScheduler proved for every finite set of invocations, every number *)
(* of slots, every queue limit and every dispatch pattern: its slots, its  *)
(* counters and its futures, the breaker's contract, wake-ups and the      *)
(* recovery probe; then its waiting room, which holds what the counters    *)
(* count, implements DispatchOrder and serves in turn.                     *)
(***************************************************************************)
EXTENDS ModelScheduler, DispatchFairness, FiniteSetTheorems,
        WellFoundedInduction, SequenceTheorems, TLAPS

(***************************************************************************)
(* What the three invariants need of an invocation on its way: whoever is  *)
(* about to settle it knows with what, and nobody has settled a future     *)
(* that submit has not yet handed out.                                     *)
(***************************************************************************)
VerdictReady ==
    \A w \in Work :
        life[w] \in {"refused", "taken", "recorded", "tripped"} => verdict[w] # "none"

PendingUntilReturned ==
    \A w \in Work : life[w] \in {"new", "refused"} => future[w] = "pending"

(***************************************************************************)
(* An invocation carries a permit from its admission on, and not before.   *)
(***************************************************************************)
HoldingPermit == {"queued", "taken", "claimed", "ready", "calling"}

PermitCarried ==
    \A w \in Work :
        /\ life[w] \in HoldingPermit => permit[w] \in Permits
        /\ life[w] \in {"new", "refused"} => permit[w] = NoPermit

SchedulerInv ==
    /\ ControlTypeOK
    /\ CountersExact
    /\ SlotAccounting
    /\ RunningIffExecuting
    /\ VerdictReady
    /\ PendingUntilReturned
    /\ PermitCarried

-----------------------------------------------------------------------------
(* The rules of the breaker keep a breaker a breaker. *)
LEMMA AdmitTypes ==
    ASSUME NEW b \in Breakers
    PROVE  Admitted(b) \in Breakers /\ PermitFrom(b) \in Permits
  BY DEF Breakers, Admitted, PermitFrom, Permits

LEMMA ReportTypes ==
    ASSUME NEW b \in Breakers, NEW p \in Permits
    PROVE  /\ Abandoned(b, p) \in Breakers
           /\ \A outcome \in Outcomes : Recorded(b, p, outcome) \in Breakers
  <1>1. 0 \in 0 .. (Threshold - 1) /\ b.epoch + 1 \in Nat
    BY BreakerAssumption DEF Breakers
  <1>2. Opened(b) \in Breakers /\ Closed(b) \in Breakers /\ BackToOpen(b) \in Breakers
        /\ Succeeded(b) \in Breakers
    BY <1>1 DEF Breakers, Opened, Closed, BackToOpen, Succeeded
  <1>3. TransientFailed(b) \in Breakers
    <2>1. CASE b.consecutive + 1 < Threshold
      <3>1. b.consecutive + 1 \in 0 .. (Threshold - 1)
        BY <2>1, BreakerAssumption DEF Breakers
      <3> QED
        BY <3>1, <2>1 DEF TransientFailed, Breakers
    <2>2. CASE ~(b.consecutive + 1 < Threshold)
      BY <1>2, <2>2 DEF TransientFailed
    <2> QED
      BY <2>1, <2>2
  <1>4. ASSUME NEW outcome \in Outcomes
        PROVE  CallRecorded(b, outcome) \in Breakers /\ ProbeRecorded(b, outcome) \in Breakers
    <2>1. outcome # "ok" => FailureKind(outcome) \in {"ignored", "fatal", "transient"}
      BY DEF FailureKind, Outcomes, Errors
    <2> QED
      BY <1>2, <1>3, <2>1 DEF CallRecorded, ProbeRecorded
  <1> QED
    BY <1>2, <1>4 DEF Abandoned, Recorded

-----------------------------------------------------------------------------
(* Counting *)

LEMMA WorkFinite ==
    ASSUME NEW S \in SUBSET Work
    PROVE  IsFiniteSet(S) /\ Cardinality(S) \in Nat
  BY SchedulerAssumption, FS_Subset, FS_CardinalityType

LEMMA ShareType ==
    ASSUME NEW S \in SUBSET Work, NEW a
    PROVE  ActorShare(a, S) \in Nat
  BY WorkFinite DEF ActorShare

LEMMA RemoveSubset ==
    ASSUME NEW S \in SUBSET Work, NEW T \in SUBSET S
    PROVE  /\ Cardinality(S \ T) = Cardinality(S) - Cardinality(T)
           /\ Cardinality(S \ T) <= Cardinality(S)
  <1>1. S \cap T = T
    OBVIOUS
  <1>2. IsFiniteSet(S) /\ Cardinality(S) \in Nat /\ Cardinality(T) \in Nat
    BY WorkFinite
  <1>3. Cardinality(S \ T) = Cardinality(S) - Cardinality(T)
    BY <1>1, <1>2, FS_Difference
  <1> QED
    BY <1>2, <1>3

(* Removing part of a set removes its share of every actor. *)
LEMMA RemovePart ==
    ASSUME NEW S \in SUBSET Work, NEW T \in SUBSET S, NEW a
    PROVE  /\ Cardinality(S \ T) = Cardinality(S) - Cardinality(T)
           /\ ActorShare(a, S \ T) = ActorShare(a, S) - ActorShare(a, T)
           /\ Cardinality(S \ T) <= Cardinality(S)
           /\ ActorShare(a, S \ T) <= ActorShare(a, S)
  <1>1. PICK Sa \in SUBSET Work : Sa = {w \in S : ActorOf[w] = a}
    OBVIOUS
  <1>2. PICK Ta \in SUBSET Sa : Ta = {w \in T : ActorOf[w] = a}
    BY <1>1
  <1>3. {w \in S \ T : ActorOf[w] = a} = Sa \ Ta
    BY <1>1, <1>2
  <1>4. /\ Cardinality(Sa \ Ta) = Cardinality(Sa) - Cardinality(Ta)
        /\ Cardinality(Sa \ Ta) <= Cardinality(Sa)
    BY RemoveSubset
  <1>5. /\ ActorShare(a, S) = Cardinality(Sa)
        /\ ActorShare(a, T) = Cardinality(Ta)
        /\ ActorShare(a, S \ T) = Cardinality(Sa \ Ta)
    BY <1>1, <1>2, <1>3 DEF ActorShare
  <1> QED
    BY <1>4, <1>5, RemoveSubset

(* Adding an invocation adds one to the total and to its own actor. *)
LEMMA AddOne ==
    ASSUME NEW S \in SUBSET Work, NEW w \in Work, w \notin S, NEW a
    PROVE  /\ Cardinality(S \cup {w}) = Cardinality(S) + 1
           /\ ActorShare(a, S \cup {w}) =
                ActorShare(a, S) + (IF ActorOf[w] = a THEN 1 ELSE 0)
  <1> DEFINE Sa == {v \in S : ActorOf[v] = a}
  <1>1. IsFiniteSet(S) /\ IsFiniteSet(Sa) /\ Cardinality(S) \in Nat /\ Cardinality(Sa) \in Nat
    BY WorkFinite
  <1>2. Cardinality(S \cup {w}) = Cardinality(S) + 1
    BY <1>1, FS_AddElement
  <1>3. CASE ActorOf[w] = a
    <2>1. {v \in S \cup {w} : ActorOf[v] = a} = Sa \cup {w} /\ w \notin Sa
      BY <1>3
    <2>2. Cardinality(Sa \cup {w}) = Cardinality(Sa) + 1
      BY <1>1, <2>1, FS_AddElement
    <2> QED
      BY <1>2, <1>3, <2>1, <2>2 DEF ActorShare
  <1>4. CASE ActorOf[w] # a
    <2>1. {v \in S \cup {w} : ActorOf[v] = a} = Sa
      BY <1>4
    <2> QED
      BY <1>1, <1>2, <1>4, <2>1 DEF ActorShare
  <1> QED
    BY <1>3, <1>4

LEMMA NothingQueued ==
    /\ Cardinality({}) = 0
    /\ \A a : ActorShare(a, {}) = 0
  <1>1. \A a : {w \in {} : ActorOf[w] = a} = {}
    OBVIOUS
  <1> QED
    BY <1>1, FS_EmptySet DEF ActorShare

LEMMA StaleIsQueued == Stale \subseteq Waiting /\ Waiting \subseteq Work
  BY DEF Stale, Waiting

(* What a stale sweep leaves behind, whichever thread makes it. *)
LEMMA SweepKeepsCounters ==
    ASSUME ControlTypeOK, CountersExact
    PROVE  /\ QueuedKept = Cardinality(Waiting \ Stale)
           /\ QueuedKept \in Nat /\ QueuedKept <= QueueLimit
           /\ \A a \in Actor :
                /\ ActorKept[a] = ActorShare(a, Waiting \ Stale)
                /\ ActorKept[a] \in Nat /\ ActorKept[a] <= ActorLimit
           /\ ActorKept \in [Actor -> Nat]
  
  <1>1. Waiting \in SUBSET Work /\ Stale \in SUBSET Waiting /\ Waiting \ Stale \in SUBSET Work
    BY StaleIsQueued
  <1>2. QueuedKept = Cardinality(Waiting \ Stale)
    BY <1>1, RemovePart DEF QueuedKept, CountersExact
  <1>3. QueuedKept \in Nat /\ QueuedKept <= QueueLimit
    <2>1. Cardinality(Waiting \ Stale) \in Nat /\ Cardinality(Waiting) \in Nat
      BY <1>1, WorkFinite
    <2>2. Cardinality(Waiting \ Stale) <= Cardinality(Waiting)
      BY <1>1, RemovePart
    <2> QED
      BY <1>2, <2>1, <2>2, SchedulerAssumption DEF CountersExact
  <1>4. ASSUME NEW a \in Actor
        PROVE  /\ ActorKept[a] = ActorShare(a, Waiting \ Stale)
               /\ ActorKept[a] \in Nat /\ ActorKept[a] <= ActorLimit
    <2>1. ActorKept[a] = ActorShare(a, Waiting \ Stale)
      <3>1. ActorKept[a] = ActorShare(a, Waiting) - ActorShare(a, Stale)
        BY DEF ActorKept, CountersExact
      <3>2. ActorShare(a, Waiting \ Stale) = ActorShare(a, Waiting) - ActorShare(a, Stale)
        BY <1>1, RemovePart
      <3> QED
        BY <3>1, <3>2
    <2>2. ActorShare(a, Waiting \ Stale) \in Nat /\ ActorShare(a, Waiting) \in Nat
      BY <1>1, ShareType
    <2>3. ActorShare(a, Waiting \ Stale) <= ActorShare(a, Waiting)
      BY <1>1, RemovePart
    <2> QED
      BY <2>1, <2>2, <2>3, SchedulerAssumption DEF CountersExact
  <1>5. ActorKept \in [Actor -> Nat]
    BY <1>4 DEF ActorKept
  <1> QED
    BY <1>2, <1>3, <1>4, <1>5

-----------------------------------------------------------------------------
LEMMA SchedulerInit == Init => SchedulerInv
  <1> SUFFICES ASSUME Init PROVE SchedulerInv
    OBVIOUS
  <1>0. breaker \in Breakers
    BY BreakerAssumption DEF Init, NewBreaker, Breakers
  <1>1. ControlTypeOK
    BY <1>0 DEF Init, ControlTypeOK, Lives, FutureStates, Verdicts
  <1>2. Waiting = {} /\ SlotHolders = {}
    BY DEF Init, Waiting, SlotHolders, HoldingSlot
  <1>3. CountersExact
    BY <1>2, NothingQueued, SchedulerAssumption DEF Init, CountersExact
  <1>4. SlotAccounting
    BY <1>2, NothingQueued, SchedulerAssumption DEF Init, SlotAccounting
  <1>5. RunningIffExecuting /\ VerdictReady /\ PendingUntilReturned /\ PermitCarried
    BY DEF Init, RunningIffExecuting, VerdictReady, PendingUntilReturned,
           PermitCarried, HoldingPermit
  <1> QED
    BY <1>1, <1>3, <1>4, <1>5 DEF SchedulerInv

-----------------------------------------------------------------------------
(* How the two counted sets, the slot holders and the queue, move. *)

(* Steps that neither claim nor release a slot. *)
LEMMA SlotsUntouched ==
    ASSUME SchedulerInv, active' = active, SlotHolders' = SlotHolders
    PROVE  SlotAccounting'
  BY DEF SchedulerInv, SlotAccounting

(* Steps that neither queue an invocation nor take one out. *)
LEMMA QueueUntouched ==
    ASSUME SchedulerInv, queued' = queued, actorQueued' = actorQueued,
           Waiting' = Waiting
    PROVE  CountersExact'
  BY DEF SchedulerInv, CountersExact, ActorShare

(* A stale sweep, by submit on behalf of a refused caller, snapshot or the dispatcher. *)
LEMMA SweepStep ==
    ASSUME SchedulerInv, queued' = QueuedKept, actorQueued' = ActorKept,
           Waiting' = Waiting \ Stale
    PROVE  CountersExact'
  <1>1. ControlTypeOK /\ CountersExact
    BY DEF SchedulerInv
  <1> QED
    BY <1>1, SweepKeepsCounters DEF CountersExact, ActorShare

(* A drain or a stop empties the waiting room. *)
LEMMA EmptyingStep ==
    ASSUME SchedulerInv, queued' = 0, actorQueued' = [a \in Actor |-> 0],
           Waiting' = {}
    PROVE  CountersExact'
  BY NothingQueued, SchedulerAssumption DEF CountersExact, ActorShare

LEMMA AcceptCounts ==
    ASSUME SchedulerInv, NEW w \in Work, Accept(w)
    PROVE  CountersExact'
  <1> DEFINE Unswept == Waiting \ Stale
  <1>1. Unswept \in SUBSET Work /\ w \notin Unswept /\ ActorOf[w] \in Actor
    BY DispatchAssumption DEF Accept, Waiting
  <1>2. Waiting' = Unswept \cup {w}
    BY DEF Accept, Waiting, LifeKept, Stale, SchedulerInv, ControlTypeOK
  <1>3. /\ QueuedKept = Cardinality(Unswept) /\ QueuedKept \in Nat
        /\ \A a \in Actor : ActorKept[a] = ActorShare(a, Unswept) /\ ActorKept[a] \in Nat
                               /\ ActorKept[a] <= ActorLimit
        /\ ActorKept \in [Actor -> Nat]
    BY SweepKeepsCounters DEF SchedulerInv
  <1>4. QueuedKept < QueueLimit /\ ActorKept[ActorOf[w]] < ActorLimit
    BY <1>1, <1>3, SchedulerAssumption DEF Accept, Refusal
  <1>5. queued' = Cardinality(Waiting') /\ queued' <= QueueLimit
    BY <1>1, <1>2, <1>3, <1>4, AddOne, SchedulerAssumption DEF Accept
  <1>6. ASSUME NEW a \in Actor
        PROVE  actorQueued'[a] = ActorShare(a, Waiting') /\ actorQueued'[a] <= ActorLimit
    <2>1. actorQueued'[a] = ActorKept[a] + (IF ActorOf[w] = a THEN 1 ELSE 0)
      BY <1>1, <1>3 DEF Accept
    <2>2. ActorShare(a, Unswept \cup {w}) =
            ActorShare(a, Unswept) + (IF ActorOf[w] = a THEN 1 ELSE 0)
      BY <1>1, AddOne
    <2> QED
      BY <1>2, <1>3, <1>4, <2>1, <2>2, SchedulerAssumption
  <1> QED
    BY <1>5, <1>6 DEF CountersExact, ActorShare

LEMMA ClaimCounts ==
    ASSUME SchedulerInv, NEW w \in Work, Claim(w)
    PROVE  CountersExact' /\ SlotAccounting'
  
  <1>1. Waiting \in SUBSET Work /\ {w} \in SUBSET Waiting /\ ActorOf[w] \in Actor
    BY DispatchAssumption DEF Claim, Waiting
  <1>2. Waiting' = Waiting \ {w}
    BY DEF Claim, Waiting, SchedulerInv, ControlTypeOK
  <1>3. Cardinality({w}) = 1 /\ \A a : ActorShare(a, {w}) = IF ActorOf[w] = a THEN 1 ELSE 0
    <2>1. Cardinality({w}) = 1 /\ Cardinality({}) = 0
      BY FS_Singleton, FS_EmptySet
    <2>2. ASSUME NEW a, ActorOf[w] = a PROVE ActorShare(a, {w}) = 1
      <3>1. {v \in {w} : ActorOf[v] = a} = {w}
        BY <2>2
      <3> QED
        BY <2>1, <3>1 DEF ActorShare
    <2>3. ASSUME NEW a, ActorOf[w] # a PROVE ActorShare(a, {w}) = 0
      <3>1. {v \in {w} : ActorOf[v] = a} = {}
        BY <2>3
      <3> QED
        BY <2>1, <3>1 DEF ActorShare
    <2> QED
      BY <2>1, <2>2, <2>3
  <1>4. /\ Cardinality(Waiting \ {w}) = Cardinality(Waiting) - 1
        /\ \A a : ActorShare(a, Waiting \ {w}) = ActorShare(a, Waiting) - (IF ActorOf[w] = a THEN 1 ELSE 0)
    BY <1>1, <1>3, RemovePart
  <1>5. Cardinality(Waiting) \in Nat /\ \A a : ActorShare(a, Waiting) \in Nat
    BY <1>1, WorkFinite, ShareType
  <1>6. CountersExact'
    <2>0. queued = Cardinality(Waiting) /\ queued <= QueueLimit /\ queued' = queued - 1
      BY DEF Claim, SchedulerInv, CountersExact
    <2>1. queued' = Cardinality(Waiting') /\ queued' <= QueueLimit
      BY <1>2, <1>4, <1>5, <2>0, SchedulerAssumption
    <2>2. ASSUME NEW a \in Actor
          PROVE  actorQueued'[a] = ActorShare(a, Waiting') /\ actorQueued'[a] <= ActorLimit
      <3>1. actorQueued'[a] = actorQueued[a] - (IF ActorOf[w] = a THEN 1 ELSE 0)
        BY DEF Claim, SchedulerInv, ControlTypeOK
      <3>2. actorQueued[a] = ActorShare(a, Waiting) /\ actorQueued[a] <= ActorLimit
        BY DEF SchedulerInv, CountersExact
      <3> QED
        BY <1>2, <1>4, <1>5, <3>1, <3>2, SchedulerAssumption
    <2> QED
      BY <2>1, <2>2 DEF CountersExact, ActorShare
  <1>7. SlotAccounting'
    <2>1. SlotHolders' = SlotHolders \cup {w} /\ w \notin SlotHolders
      BY DEF Claim, SlotHolders, HoldingSlot, SchedulerInv, ControlTypeOK
    <2>2. SlotHolders \in SUBSET Work
      BY DEF SlotHolders
    <2>3. Cardinality(SlotHolders \cup {w}) = Cardinality(SlotHolders) + 1
      BY <2>1, <2>2, AddOne
    <2>4. active = Cardinality(SlotHolders) /\ active' = active + 1 /\ active < Maximum
          /\ active \in Nat
      BY DEF Claim, SlotFree, SchedulerInv, SlotAccounting, ControlTypeOK
    <2> QED
      BY <2>1, <2>3, <2>4, SchedulerAssumption DEF SlotAccounting
  <1> QED
    BY <1>6, <1>7

LEMMA FinishCounts ==
    ASSUME SchedulerInv, NEW w \in Work, FinishActive(w)
    PROVE  SlotAccounting' /\ active' \in Nat
  <1>1. SlotHolders' = SlotHolders \ {w} /\ {w} \in SUBSET SlotHolders
    BY DEF FinishActive, SlotHolders, HoldingSlot, SchedulerInv, ControlTypeOK
  <1>2. SlotHolders \in SUBSET Work /\ SlotHolders' \in SUBSET Work
    BY <1>1 DEF SlotHolders
  <1>3. Cardinality(SlotHolders \ {w}) = Cardinality(SlotHolders) - 1
    <2>1. Cardinality({w}) = 1
      BY FS_Singleton
    <2> QED
      BY <1>1, <1>2, <2>1, RemoveSubset
  <1>4. active = Cardinality(SlotHolders) /\ active' = active - 1 /\ active <= Maximum
        /\ active \in Nat
    BY DEF FinishActive, SchedulerInv, SlotAccounting, ControlTypeOK
  <1>5. Cardinality(SlotHolders') \in Nat
    BY <1>2, WorkFinite
  <1> QED
    BY <1>1, <1>3, <1>4, <1>5, SchedulerAssumption DEF SlotAccounting

-----------------------------------------------------------------------------
(* Every action preserves the invariant. *)

(***************************************************************************)
(* A stale sweep as seen by one invocation: it was waiting and is now      *)
(* taken with a verdict, or nothing about it changed.                      *)
(***************************************************************************)
LEMMA SweepOfOne ==
    ASSUME ControlTypeOK, NEW v \in Work
    PROVE  \/ /\ v \in Stale /\ life[v] = "queued" /\ LifeKept[v] = "taken"
              /\ VerdictKept[v] \in Verdicts \ {"none"}
           \/ /\ v \notin Stale /\ LifeKept[v] = life[v]
              /\ VerdictKept[v] = verdict[v]
  BY DEF LifeKept, VerdictKept, Stale, Waiting, StaleVerdict, Verdicts

LEMMA SweepTypes ==
    ASSUME ControlTypeOK, NEW thread \in Threads
    PROVE  /\ LifeKept \in [Work -> Lives]
           /\ VerdictKept \in [Work -> Verdicts]
           /\ SettlerKept(thread) \in [Work -> Threads \cup {Nobody}]
  <1>1. \A v \in Work : LifeKept[v] \in Lives /\ VerdictKept[v] \in Verdicts
    BY SweepOfOne DEF ControlTypeOK, Lives
  <1>2. LifeKept \in [Work -> Lives] /\ VerdictKept \in [Work -> Verdicts]
    BY <1>1 DEF LifeKept, VerdictKept
  <1> QED
    BY <1>2 DEF SettlerKept, ControlTypeOK

(***************************************************************************)
(* What submit, snapshot and the dispatcher have in common: a sweep, then  *)
(* possibly one invocation w, new until now, set to lifeW.                 *)
(***************************************************************************)
LEMMA SweepFlow ==
    ASSUME SchedulerInv, NEW w \in Work, NEW thread \in Threads,
           NEW lifeW \in {"queued", "refused"},
           life[w] = "new",
           life' = [LifeKept EXCEPT ![w] = lifeW],
           verdict' \in [Work -> Verdicts],
           \A v \in Work \ {w} : verdict'[v] = VerdictKept[v],
           lifeW = "refused" => verdict'[w] # "none",
           future' = future,
           permit' \in [Work -> Permits \cup {NoPermit}],
           \A v \in Work \ {w} : permit'[v] = permit[v],
           IF lifeW = "queued" THEN permit'[w] \in Permits ELSE permit'[w] = NoPermit
    PROVE  /\ RunningIffExecuting' /\ VerdictReady'
           /\ PendingUntilReturned' /\ PermitCarried'
           /\ SlotHolders' = SlotHolders
           /\ Waiting' = IF lifeW = "queued" THEN (Waiting \ Stale) \cup {w}
                                             ELSE Waiting \ Stale
  <1>1. ControlTypeOK /\ LifeKept \in [Work -> Lives] /\ life \in [Work -> Lives]
    BY SweepTypes DEF SchedulerInv, ControlTypeOK
  <1>2. life'[w] = lifeW /\ future[w] = "pending" /\ permit[w] = NoPermit
    BY <1>1 DEF SchedulerInv, PendingUntilReturned, PermitCarried
  <1>3. ASSUME NEW v \in Work, v # w
        PROVE  \/ /\ v \in Stale /\ life[v] = "queued" /\ life'[v] = "taken"
                  /\ verdict'[v] \in Verdicts \ {"none"}
               \/ /\ v \notin Stale /\ life'[v] = life[v] /\ verdict'[v] = verdict[v]
    BY <1>1, <1>3, SweepOfOne
  <1>4. RunningIffExecuting'
    BY <1>2, <1>3 DEF SchedulerInv, RunningIffExecuting
  <1>5. VerdictReady'
    BY <1>2, <1>3 DEF SchedulerInv, VerdictReady
  <1>6. PendingUntilReturned'
    BY <1>2, <1>3 DEF SchedulerInv, PendingUntilReturned
  <1>7. PermitCarried'
    BY <1>2, <1>3 DEF SchedulerInv, PermitCarried, HoldingPermit
  <1>8. SlotHolders' = SlotHolders
    BY <1>2, <1>3 DEF SlotHolders, HoldingSlot
  <1>9. w \notin Waiting
    BY DEF Waiting
  <1>10. Waiting' = IF lifeW = "queued" THEN (Waiting \ Stale) \cup {w} ELSE Waiting \ Stale
    BY <1>2, <1>3, <1>9, StaleIsQueued DEF Waiting
  <1> QED
    BY <1>4, <1>5, <1>6, <1>7, <1>8, <1>10

LEMMA AcceptKeeps ==
    ASSUME SchedulerInv, NEW w \in Work, Accept(w)
    PROVE  SchedulerInv'
  <1>1. ControlTypeOK /\ Caller(w) \in Threads
    BY DEF SchedulerInv, Threads
  <1>2. Admitted(breaker) \in Breakers /\ PermitFrom(breaker) \in Permits
    BY <1>1, AdmitTypes DEF ControlTypeOK
  <1>3. permit' \in [Work -> Permits \cup {NoPermit}] /\ permit'[w] \in Permits
        /\ \A v \in Work \ {w} : permit'[v] = permit[v]
    BY <1>1, <1>2 DEF Accept, ControlTypeOK
  <1>4. /\ LifeKept \in [Work -> Lives] /\ VerdictKept \in [Work -> Verdicts]
        /\ SettlerKept(Caller(w)) \in [Work -> Threads \cup {Nobody}]
    BY <1>1, SweepTypes
  <1>5. life' \in [Work -> Lives]
    BY <1>4 DEF Accept, Lives
  <1>6. CountersExact'
    BY AcceptCounts
  <1>7. queued' \in Nat /\ actorQueued' \in [Actor -> Nat]
    <2>1. /\ QueuedKept \in Nat /\ ActorKept \in [Actor -> Nat]
          /\ \A a \in Actor : ActorKept[a] \in Nat
      BY SweepKeepsCounters DEF SchedulerInv
    <2>2. ActorOf[w] \in Actor
      BY DispatchAssumption
    <2> QED
      BY <2>1, <2>2 DEF Accept
  <1>8. ControlTypeOK'
    <2>1. /\ active' \in Nat /\ shutdown' \in BOOLEAN /\ breaker' \in Breakers
          /\ dispatcher' \in {"awake", "asleep", "exited"}
      BY <1>1, <1>2 DEF Accept, ControlTypeOK, Woken
    <2>2. /\ future' \in [Work -> FutureStates]
          /\ cancelRequested' \in SUBSET Cancellable /\ expired' \in SUBSET Work
      BY <1>1 DEF Accept, ControlTypeOK, clientVars
    <2>3. verdict' \in [Work -> Verdicts] /\ settler' \in [Work -> Threads \cup {Nobody}]
      BY <1>4 DEF Accept
    <2> QED
      BY <1>3, <1>5, <1>7, <2>1, <2>2, <2>3 DEF ControlTypeOK
  <1>9. /\ RunningIffExecuting' /\ VerdictReady' /\ PendingUntilReturned'
        /\ PermitCarried' /\ SlotHolders' = SlotHolders
    BY <1>1, <1>3, <1>4, SweepFlow DEF Accept
  <1>10. SlotAccounting'
    BY <1>9, SlotsUntouched DEF Accept
  <1> QED
    BY <1>6, <1>8, <1>9, <1>10 DEF SchedulerInv

LEMMA RefuseKeeps ==
    ASSUME SchedulerInv, NEW w \in Work, Refuse(w)
    PROVE  SchedulerInv'
  <1>1. ControlTypeOK /\ Caller(w) \in Threads
    BY DEF SchedulerInv, Threads
  <1>2. Refusal(w) \in Verdicts \ {"none"}
    BY DEF Refuse, Refusal, Verdicts
  <1>3. /\ LifeKept \in [Work -> Lives] /\ VerdictKept \in [Work -> Verdicts]
        /\ SettlerKept(Caller(w)) \in [Work -> Threads \cup {Nobody}]
    BY <1>1, SweepTypes
  <1>4. life' \in [Work -> Lives]
    BY <1>3 DEF Refuse, Lives
  <1>5. /\ verdict' \in [Work -> Verdicts] /\ verdict'[w] # "none"
        /\ \A v \in Work \ {w} : verdict'[v] = VerdictKept[v]
    BY <1>2, <1>3 DEF Refuse
  <1>6. permit' = permit /\ permit[w] = NoPermit /\ permit \in [Work -> Permits \cup {NoPermit}]
    BY <1>1 DEF Refuse, SchedulerInv, PermitCarried, ControlTypeOK
  <1>7. /\ RunningIffExecuting' /\ VerdictReady' /\ PendingUntilReturned'
        /\ PermitCarried' /\ SlotHolders' = SlotHolders /\ Waiting' = Waiting \ Stale
    BY <1>1, <1>5, <1>6, SweepFlow DEF Refuse
  <1>8. CountersExact'
    BY <1>7, SweepStep DEF Refuse
  <1>9. SlotAccounting'
    BY <1>7, SlotsUntouched DEF Refuse, controlVars
  <1>10. queued' \in Nat /\ actorQueued' \in [Actor -> Nat]
    BY <1>1, SweepKeepsCounters DEF Refuse, SchedulerInv
  <1>11. ControlTypeOK'
    BY <1>1, <1>3, <1>4, <1>5, <1>10 DEF Refuse, ControlTypeOK, controlVars, clientVars
  <1> QED
    BY <1>7, <1>8, <1>9, <1>11 DEF SchedulerInv

(* A sweep and nothing else: the dispatcher, and snapshot. *)
LEMMA CollectStaleKeeps ==
    ASSUME SchedulerInv, NEW thread \in Threads, CollectStale(thread),
           UNCHANGED <<index, controlVars, breaker, future, permit, clientVars>>
    PROVE  SchedulerInv'
  <1>1. ControlTypeOK
    BY DEF SchedulerInv
  <1>2. /\ LifeKept \in [Work -> Lives] /\ VerdictKept \in [Work -> Verdicts]
        /\ SettlerKept(thread) \in [Work -> Threads \cup {Nobody}]
    BY <1>1, SweepTypes
  <1>3. queued' \in Nat /\ actorQueued' \in [Actor -> Nat]
    BY <1>1, SweepKeepsCounters DEF CollectStale, SchedulerInv
  <1>4. ControlTypeOK'
    BY <1>1, <1>2, <1>3 DEF CollectStale, ControlTypeOK, controlVars, clientVars
  <1>5. ASSUME NEW v \in Work
        PROVE  \/ /\ v \in Stale /\ life[v] = "queued" /\ life'[v] = "taken"
                  /\ verdict'[v] \in Verdicts \ {"none"}
               \/ /\ v \notin Stale /\ life'[v] = life[v] /\ verdict'[v] = verdict[v]
    BY <1>1, SweepOfOne DEF CollectStale
  <1>6. RunningIffExecuting'
    BY <1>5 DEF SchedulerInv, RunningIffExecuting
  <1>7. VerdictReady' /\ PendingUntilReturned'
    BY <1>5 DEF SchedulerInv, VerdictReady, PendingUntilReturned
  <1>8. PermitCarried'
    BY <1>5 DEF SchedulerInv, PermitCarried, HoldingPermit
  <1>9. SlotHolders' = SlotHolders /\ Waiting' = Waiting \ Stale
    BY <1>5 DEF SlotHolders, HoldingSlot, Waiting
  <1>10. CountersExact'
    BY <1>9, SweepStep DEF CollectStale
  <1>11. SlotAccounting'
    BY <1>9, SlotsUntouched DEF controlVars
  <1> QED
    BY <1>4, <1>6, <1>7, <1>8, <1>10, <1>11 DEF SchedulerInv

LEMMA DispatcherCollectsKeeps ==
    ASSUME SchedulerInv, DispatcherCollects
    PROVE  SchedulerInv'
  BY CollectStaleKeeps DEF DispatcherCollects, Threads

LEMMA SnapshotKeeps ==
    ASSUME SchedulerInv, Snapshot
    PROVE  SchedulerInv'
  BY CollectStaleKeeps DEF Snapshot, Threads

LEMMA ClaimKeeps ==
    ASSUME SchedulerInv, NEW w \in Work, Claim(w)
    PROVE  SchedulerInv'
  <1>1. CountersExact' /\ SlotAccounting'
    BY ClaimCounts
  <1>2. queued' \in Nat /\ actorQueued' \in [Actor -> Nat]
    <2>1. Waiting' \in SUBSET Work
      BY DEF Waiting
    <2>2. \A a \in Actor : actorQueued'[a] \in Nat
      BY <1>1, <2>1, WorkFinite DEF CountersExact, ActorShare
    <2>3. queued' \in Nat
      BY <1>1, <2>1, WorkFinite DEF CountersExact
    <2> QED
      BY <2>2, <2>3 DEF Claim, SchedulerInv, ControlTypeOK
  <1>3. ControlTypeOK'
    BY <1>2 DEF Claim, SchedulerInv, ControlTypeOK, Lives, Threads, clientVars
  <1>4. RunningIffExecuting' /\ VerdictReady' /\ PendingUntilReturned' /\ PermitCarried'
    BY DEF Claim, SchedulerInv, ControlTypeOK, RunningIffExecuting, VerdictReady,
           PendingUntilReturned, PermitCarried, HoldingPermit
  <1> QED
    BY <1>1, <1>3, <1>4 DEF SchedulerInv

LEMMA CooldownElapsesKeeps ==
    ASSUME SchedulerInv, CooldownElapses
    PROVE  SchedulerInv'
  <1>1. breaker' \in Breakers
    BY DEF CooldownElapses, SchedulerInv, ControlTypeOK, Breakers
  <1>2. ControlTypeOK'
    BY <1>1 DEF CooldownElapses, SchedulerInv, ControlTypeOK, roomVars, controlVars,
                workVars, clientVars
  <1>3. Waiting' = Waiting /\ SlotHolders' = SlotHolders
    BY DEF CooldownElapses, Waiting, SlotHolders, workVars
  <1>4. CountersExact' /\ SlotAccounting'
    BY <1>3, QueueUntouched, SlotsUntouched DEF CooldownElapses, roomVars, controlVars
  <1>5. RunningIffExecuting' /\ VerdictReady' /\ PendingUntilReturned' /\ PermitCarried'
    BY DEF CooldownElapses, SchedulerInv, RunningIffExecuting, VerdictReady,
           PendingUntilReturned, PermitCarried, workVars
  <1> QED
    BY <1>2, <1>4, <1>5 DEF SchedulerInv

LEMMA FinishRefusalKeeps ==
    ASSUME SchedulerInv, NEW w \in Work, FinishRefusal(w)
    PROVE  SchedulerInv'
  <1>1. ControlTypeOK'
    BY DEF FinishRefusal, SchedulerInv, ControlTypeOK, Lives, VerdictReady, Verdicts,
        FutureStates, roomVars, controlVars, clientVars
  <1>2. RunningIffExecuting' /\ VerdictReady' /\ PendingUntilReturned' /\ PermitCarried'
    BY DEF FinishRefusal, SchedulerInv, ControlTypeOK, RunningIffExecuting,
        VerdictReady, PendingUntilReturned, PermitCarried, HoldingPermit, Verdicts
  <1>3. Waiting' = Waiting /\ SlotHolders' = SlotHolders
    BY DEF FinishRefusal, SchedulerInv, ControlTypeOK, Waiting, SlotHolders, HoldingSlot
  <1>4. CountersExact'
    BY <1>3, QueueUntouched DEF FinishRefusal, roomVars
  <1>5. SlotAccounting'
    BY <1>3, SlotsUntouched DEF FinishRefusal, controlVars
  <1> QED
    BY <1>1, <1>2, <1>4, <1>5 DEF SchedulerInv

LEMMA SettleKeeps ==
    ASSUME SchedulerInv, NEW w \in Work, Settle(w)
    PROVE  SchedulerInv'
  <1>0. Abandoned(breaker, permit[w]) \in Breakers
    BY ReportTypes DEF Settle, SchedulerInv, ControlTypeOK, PermitCarried, HoldingPermit
  <1>1. ControlTypeOK'
    BY <1>0 DEF Settle, SchedulerInv, ControlTypeOK, Lives, VerdictReady, Nobody,
        FutureSettled, GivenBack, Woken, Verdicts, FutureStates, roomVars, clientVars
  <1>2. RunningIffExecuting' /\ VerdictReady' /\ PendingUntilReturned' /\ PermitCarried'
    BY DEF Settle, SchedulerInv, ControlTypeOK, RunningIffExecuting, VerdictReady,
        PendingUntilReturned, PermitCarried, HoldingPermit, FutureSettled, Verdicts
  <1>3. Waiting' = Waiting /\ SlotHolders' = SlotHolders
    BY DEF Settle, SchedulerInv, ControlTypeOK, Waiting, SlotHolders, HoldingSlot
  <1>4. CountersExact'
    BY <1>3, QueueUntouched DEF Settle, roomVars
  <1>5. SlotAccounting'
    BY <1>3, SlotsUntouched DEF Settle
  <1> QED
    BY <1>1, <1>2, <1>4, <1>5 DEF SchedulerInv

LEMMA DispatcherExitsKeeps ==
    ASSUME SchedulerInv, DispatcherExits
    PROVE  SchedulerInv'
  <1>1. ControlTypeOK'
    BY DEF DispatcherExits, SchedulerInv, ControlTypeOK, roomVars, workVars, clientVars
  <1>2. RunningIffExecuting' /\ VerdictReady' /\ PendingUntilReturned' /\ PermitCarried'
    BY DEF DispatcherExits, SchedulerInv, RunningIffExecuting, VerdictReady,
        PendingUntilReturned, PermitCarried, workVars
  <1>3. Waiting' = Waiting /\ SlotHolders' = SlotHolders
    BY DEF DispatcherExits, Waiting, SlotHolders, workVars
  <1>4. CountersExact'
    BY <1>3, QueueUntouched DEF DispatcherExits, roomVars
  <1>5. SlotAccounting'
    BY <1>3, SlotsUntouched DEF DispatcherExits
  <1> QED
    BY <1>1, <1>2, <1>4, <1>5 DEF SchedulerInv

LEMMA DispatcherWaitsKeeps ==
    ASSUME SchedulerInv, DispatcherWaits
    PROVE  SchedulerInv'
  <1>1. ControlTypeOK'
    BY DEF DispatcherWaits, SchedulerInv, ControlTypeOK, roomVars, workVars, clientVars
  <1>2. RunningIffExecuting' /\ VerdictReady' /\ PendingUntilReturned' /\ PermitCarried'
    BY DEF DispatcherWaits, SchedulerInv, RunningIffExecuting, VerdictReady,
        PendingUntilReturned, PermitCarried, workVars
  <1>3. Waiting' = Waiting /\ SlotHolders' = SlotHolders
    BY DEF DispatcherWaits, Waiting, SlotHolders, workVars
  <1>4. CountersExact'
    BY <1>3, QueueUntouched DEF DispatcherWaits, roomVars
  <1>5. SlotAccounting'
    BY <1>3, SlotsUntouched DEF DispatcherWaits
  <1> QED
    BY <1>1, <1>2, <1>4, <1>5 DEF SchedulerInv

LEMMA WaitTimesOutKeeps ==
    ASSUME SchedulerInv, WaitTimesOut
    PROVE  SchedulerInv'
  <1>1. ControlTypeOK'
    BY DEF WaitTimesOut, SchedulerInv, ControlTypeOK, roomVars, workVars, clientVars
  <1>2. RunningIffExecuting' /\ VerdictReady' /\ PendingUntilReturned' /\ PermitCarried'
    BY DEF WaitTimesOut, SchedulerInv, RunningIffExecuting, VerdictReady,
        PendingUntilReturned, PermitCarried, workVars
  <1>3. Waiting' = Waiting /\ SlotHolders' = SlotHolders
    BY DEF WaitTimesOut, Waiting, SlotHolders, workVars
  <1>4. CountersExact'
    BY <1>3, QueueUntouched DEF WaitTimesOut, roomVars
  <1>5. SlotAccounting'
    BY <1>3, SlotsUntouched DEF WaitTimesOut
  <1> QED
    BY <1>1, <1>2, <1>4, <1>5 DEF SchedulerInv

LEMMA StartKeeps ==
    ASSUME SchedulerInv, NEW w \in Work, Start(w)
    PROVE  SchedulerInv'
  <1>1. ControlTypeOK'
    BY DEF Start, SchedulerInv, ControlTypeOK, Lives, Nobody, FutureStates, roomVars,
        controlVars, clientVars
  <1>2. RunningIffExecuting' /\ VerdictReady' /\ PendingUntilReturned' /\ PermitCarried'
    BY DEF Start, SchedulerInv, ControlTypeOK, RunningIffExecuting, VerdictReady,
        PendingUntilReturned, PermitCarried, HoldingPermit
  <1>3. Waiting' = Waiting /\ SlotHolders' = SlotHolders
    BY DEF Start, SchedulerInv, ControlTypeOK, Waiting, SlotHolders, HoldingSlot
  <1>4. CountersExact'
    BY <1>3, QueueUntouched DEF Start, roomVars
  <1>5. SlotAccounting'
    BY <1>3, SlotsUntouched DEF Start, controlVars
  <1> QED
    BY <1>1, <1>2, <1>4, <1>5 DEF SchedulerInv

LEMMA StartAbortedKeeps ==
    ASSUME SchedulerInv, NEW w \in Work, StartAborted(w)
    PROVE  SchedulerInv'
  <1>0. Abandoned(breaker, permit[w]) \in Breakers
    BY ReportTypes DEF StartAborted, SchedulerInv, ControlTypeOK, PermitCarried, HoldingPermit
  <1>1. ControlTypeOK'
    BY <1>0 DEF StartAborted, SchedulerInv, ControlTypeOK, Lives, GivenBack,
        FutureStates, Verdicts, roomVars, controlVars, clientVars
  <1>2. RunningIffExecuting' /\ VerdictReady' /\ PendingUntilReturned' /\ PermitCarried'
    BY DEF StartAborted, SchedulerInv, ControlTypeOK, RunningIffExecuting, VerdictReady,
        PendingUntilReturned, PermitCarried, HoldingPermit, Verdicts
  <1>3. Waiting' = Waiting /\ SlotHolders' = SlotHolders
    BY DEF StartAborted, SchedulerInv, ControlTypeOK, Waiting, SlotHolders, HoldingSlot
  <1>4. CountersExact'
    BY <1>3, QueueUntouched DEF StartAborted, roomVars
  <1>5. SlotAccounting'
    BY <1>3, SlotsUntouched DEF StartAborted, controlVars
  <1> QED
    BY <1>1, <1>2, <1>4, <1>5 DEF SchedulerInv

LEMMA BeginCallKeeps ==
    ASSUME SchedulerInv, NEW w \in Work, BeginCall(w)
    PROVE  SchedulerInv'
  <1>1. ControlTypeOK'
    BY DEF BeginCall, SchedulerInv, ControlTypeOK, Lives, roomVars, controlVars,
        clientVars
  <1>2. RunningIffExecuting' /\ VerdictReady' /\ PendingUntilReturned' /\ PermitCarried'
    BY DEF BeginCall, SchedulerInv, ControlTypeOK, RunningIffExecuting, VerdictReady,
        PendingUntilReturned, PermitCarried, HoldingPermit
  <1>3. Waiting' = Waiting /\ SlotHolders' = SlotHolders
    BY DEF BeginCall, SchedulerInv, ControlTypeOK, Waiting, SlotHolders, HoldingSlot
  <1>4. CountersExact'
    BY <1>3, QueueUntouched DEF BeginCall, roomVars
  <1>5. SlotAccounting'
    BY <1>3, SlotsUntouched DEF BeginCall, controlVars
  <1> QED
    BY <1>1, <1>2, <1>4, <1>5 DEF SchedulerInv

LEMMA RecordOutcomeKeeps ==
    ASSUME SchedulerInv, NEW w \in Work, NEW outcome \in Outcomes,
           life[w] \in {"ready", "calling"}, RecordOutcome(w, outcome)
    PROVE  SchedulerInv'
  <1>0. Recorded(breaker, permit[w], outcome) \in Breakers
    BY ReportTypes DEF RecordOutcome, SchedulerInv, ControlTypeOK, PermitCarried, HoldingPermit
  <1>1. ControlTypeOK'
    BY <1>0 DEF RecordOutcome, SchedulerInv, ControlTypeOK, Lives, Verdicts, roomVars,
        controlVars, clientVars
  <1>2. RunningIffExecuting' /\ VerdictReady' /\ PendingUntilReturned' /\ PermitCarried'
    BY DEF RecordOutcome, SchedulerInv, ControlTypeOK, RunningIffExecuting,
        VerdictReady, PendingUntilReturned, PermitCarried, HoldingPermit, Verdicts
  <1>3. Waiting' = Waiting /\ SlotHolders' = SlotHolders
    BY DEF RecordOutcome, SchedulerInv, ControlTypeOK, Waiting, SlotHolders, HoldingSlot
  <1>4. CountersExact'
    BY <1>3, QueueUntouched DEF RecordOutcome, roomVars
  <1>5. SlotAccounting'
    BY <1>3, SlotsUntouched DEF RecordOutcome, controlVars
  <1> QED
    BY <1>1, <1>2, <1>4, <1>5 DEF SchedulerInv

LEMMA DeliverOutcomeKeeps ==
    ASSUME SchedulerInv, NEW w \in Work, DeliverOutcome(w)
    PROVE  SchedulerInv'
  <1>1. ControlTypeOK'
    BY DEF DeliverOutcome, SchedulerInv, ControlTypeOK, Lives, VerdictReady,
        AfterDelivery, Verdicts, FutureStates, roomVars, controlVars, clientVars
  <1>2. RunningIffExecuting' /\ VerdictReady' /\ PendingUntilReturned' /\ PermitCarried'
    BY DEF DeliverOutcome, SchedulerInv, ControlTypeOK, RunningIffExecuting,
        VerdictReady, PendingUntilReturned, PermitCarried, HoldingPermit, AfterDelivery,
        Verdicts
  <1>3. Waiting' = Waiting /\ SlotHolders' = SlotHolders
    BY DEF DeliverOutcome, SchedulerInv, ControlTypeOK, Waiting, SlotHolders,
        HoldingSlot, AfterDelivery
  <1>4. CountersExact'
    BY <1>3, QueueUntouched DEF DeliverOutcome, roomVars
  <1>5. SlotAccounting'
    BY <1>3, SlotsUntouched DEF DeliverOutcome, controlVars
  <1> QED
    BY <1>1, <1>2, <1>4, <1>5 DEF SchedulerInv

LEMMA DrainUnavailableKeeps ==
    ASSUME SchedulerInv, NEW w \in Work, DrainUnavailable(w)
    PROVE  SchedulerInv'
  <1>1. ControlTypeOK'
    BY DEF DrainUnavailable, SchedulerInv, ControlTypeOK, Lives, TakeAllQueued,
        AllTaken, Woken, Threads, Verdicts, clientVars
  <1>2. RunningIffExecuting' /\ VerdictReady' /\ PendingUntilReturned' /\ PermitCarried'
    BY DEF DrainUnavailable, SchedulerInv, ControlTypeOK, RunningIffExecuting,
        VerdictReady, PendingUntilReturned, PermitCarried, HoldingPermit, TakeAllQueued,
        AllTaken, Verdicts
  <1>3. Waiting' = {} /\ SlotHolders' = SlotHolders
    BY DEF DrainUnavailable, SchedulerInv, ControlTypeOK, Waiting, SlotHolders,
        HoldingSlot, TakeAllQueued, AllTaken
  <1>4. CountersExact'
    BY <1>3, EmptyingStep DEF DrainUnavailable, TakeAllQueued
  <1>5. SlotAccounting'
    BY <1>3, SlotsUntouched DEF DrainUnavailable
  <1> QED
    BY <1>1, <1>2, <1>4, <1>5 DEF SchedulerInv

LEMMA FinishActiveKeeps ==
    ASSUME SchedulerInv, NEW w \in Work, FinishActive(w)
    PROVE  SchedulerInv'
  <1>1. ControlTypeOK'
    BY FinishCounts DEF FinishActive, SchedulerInv, ControlTypeOK, Lives, Nobody, Woken,
        roomVars, clientVars
  <1>2. RunningIffExecuting' /\ VerdictReady' /\ PendingUntilReturned' /\ PermitCarried'
    BY DEF FinishActive, SchedulerInv, ControlTypeOK, RunningIffExecuting, VerdictReady,
        PendingUntilReturned, PermitCarried, HoldingPermit
  <1>3. Waiting' = Waiting
    BY DEF FinishActive, SchedulerInv, ControlTypeOK, Waiting, SlotHolders, HoldingSlot
  <1>4. CountersExact'
    BY <1>3, QueueUntouched DEF FinishActive, roomVars
  <1>5. SlotAccounting'
    BY FinishCounts
  <1> QED
    BY <1>1, <1>2, <1>4, <1>5 DEF SchedulerInv

LEMMA StopAdmissionKeeps ==
    ASSUME SchedulerInv, StopAdmission
    PROVE  SchedulerInv'
  <1>1. ControlTypeOK'
    BY DEF StopAdmission, SchedulerInv, ControlTypeOK, Lives, TakeAllQueued, AllTaken,
        Woken, Threads, Verdicts, clientVars
  <1>2. RunningIffExecuting' /\ VerdictReady' /\ PendingUntilReturned' /\ PermitCarried'
    BY DEF StopAdmission, SchedulerInv, ControlTypeOK, RunningIffExecuting,
        VerdictReady, PendingUntilReturned, PermitCarried, HoldingPermit, TakeAllQueued,
        AllTaken, Verdicts
  <1>3. Waiting' = {} /\ SlotHolders' = SlotHolders
    BY DEF StopAdmission, SchedulerInv, ControlTypeOK, Waiting, SlotHolders,
        HoldingSlot, TakeAllQueued, AllTaken
  <1>4. CountersExact'
    BY <1>3, EmptyingStep DEF StopAdmission, TakeAllQueued
  <1>5. SlotAccounting'
    BY <1>3, SlotsUntouched DEF StopAdmission
  <1> QED
    BY <1>1, <1>2, <1>4, <1>5 DEF SchedulerInv

LEMMA ClientCancelsKeeps ==
    ASSUME SchedulerInv, NEW w \in Work, ClientCancels(w)
    PROVE  SchedulerInv'
  <1>1. ControlTypeOK'
    BY DEF ClientCancels, SchedulerInv, ControlTypeOK, Lives, Returned, Woken,
        FutureStates, Verdicts, roomVars, clientVars
  <1>2. RunningIffExecuting' /\ VerdictReady' /\ PendingUntilReturned' /\ PermitCarried'
    BY DEF ClientCancels, SchedulerInv, ControlTypeOK, RunningIffExecuting,
        VerdictReady, PendingUntilReturned, PermitCarried, HoldingPermit, Returned,
        Verdicts
  <1>3. Waiting' = Waiting /\ SlotHolders' = SlotHolders
    BY DEF ClientCancels, SchedulerInv, ControlTypeOK, Waiting, SlotHolders, HoldingSlot
  <1>4. CountersExact'
    BY <1>3, QueueUntouched DEF ClientCancels, roomVars
  <1>5. SlotAccounting'
    BY <1>3, SlotsUntouched DEF ClientCancels
  <1> QED
    BY <1>1, <1>2, <1>4, <1>5 DEF SchedulerInv

LEMMA RequestCancelKeeps ==
    ASSUME SchedulerInv, NEW w \in Work, RequestCancel(w)
    PROVE  SchedulerInv'
  <1>1. ControlTypeOK'
    BY DEF RequestCancel, SchedulerInv, ControlTypeOK, roomVars, controlVars, workVars
  <1>2. RunningIffExecuting' /\ VerdictReady' /\ PendingUntilReturned' /\ PermitCarried'
    BY DEF RequestCancel, SchedulerInv, RunningIffExecuting, VerdictReady,
        PendingUntilReturned, PermitCarried, workVars
  <1>3. Waiting' = Waiting /\ SlotHolders' = SlotHolders
    BY DEF RequestCancel, Waiting, SlotHolders, workVars
  <1>4. CountersExact'
    BY <1>3, QueueUntouched DEF RequestCancel, roomVars
  <1>5. SlotAccounting'
    BY <1>3, SlotsUntouched DEF RequestCancel, controlVars
  <1> QED
    BY <1>1, <1>2, <1>4, <1>5 DEF SchedulerInv

LEMMA ExpireKeeps ==
    ASSUME SchedulerInv, NEW w \in Work, Expire(w)
    PROVE  SchedulerInv'
  <1>1. ControlTypeOK'
    BY DEF Expire, SchedulerInv, ControlTypeOK, roomVars, controlVars, workVars
  <1>2. RunningIffExecuting' /\ VerdictReady' /\ PendingUntilReturned' /\ PermitCarried'
    BY DEF Expire, SchedulerInv, RunningIffExecuting, VerdictReady,
        PendingUntilReturned, PermitCarried, workVars
  <1>3. Waiting' = Waiting /\ SlotHolders' = SlotHolders
    BY DEF Expire, Waiting, SlotHolders, workVars
  <1>4. CountersExact'
    BY <1>3, QueueUntouched DEF Expire, roomVars
  <1>5. SlotAccounting'
    BY <1>3, SlotsUntouched DEF Expire, controlVars
  <1> QED
    BY <1>1, <1>2, <1>4, <1>5 DEF SchedulerInv

LEMMA SchedulerStep == SchedulerInv /\ [Next]_vars => SchedulerInv'
  <1> SUFFICES ASSUME SchedulerInv, [Next]_vars PROVE SchedulerInv'
    OBVIOUS
  <1>1. CASE DispatcherStep
    BY <1>1, DispatcherCollectsKeeps, DispatcherExitsKeeps, DispatcherWaitsKeeps, ClaimKeeps
    DEF DispatcherStep
  <1>2. CASE WaitTimesOut \/ Snapshot \/ StopAdmission \/ CooldownElapses
    BY <1>2, WaitTimesOutKeeps, SnapshotKeeps, StopAdmissionKeeps, CooldownElapsesKeeps
  <1>3. ASSUME NEW w \in Work, CallerStep(w) \/ Settle(w) \/ StartStep(w)
        PROVE  SchedulerInv'
    BY <1>3, AcceptKeeps, RefuseKeeps, FinishRefusalKeeps, SettleKeeps, StartKeeps,
       StartAbortedKeeps DEF CallerStep, StartStep
  <1>4. ASSUME NEW w \in Work, SkipCall(w) \/ ProviderReturns(w)
        PROVE  SchedulerInv'
    <2>1. \E outcome \in Outcomes : RecordOutcome(w, outcome)
      BY <1>4 DEF SkipCall, ProviderReturns, EndCall, Outcomes, Errors
    <2>2. life[w] \in {"ready", "calling"}
      BY <1>4 DEF SkipCall, ProviderReturns, EndCall
    <2> QED
      BY <2>1, <2>2, RecordOutcomeKeeps
  <1>5. ASSUME NEW w \in Work, RunnerStep(w)
        PROVE  SchedulerInv'
    BY <1>4, <1>5, BeginCallKeeps, DeliverOutcomeKeeps, DrainUnavailableKeeps, FinishActiveKeeps
    DEF RunnerStep
  <1>6. ASSUME NEW w \in Work, ClientStep(w)
        PROVE  SchedulerInv'
    BY <1>6, ClientCancelsKeeps, RequestCancelKeeps, ExpireKeeps DEF ClientStep
  <1>7. CASE UNCHANGED vars
    BY <1>7 DEF vars, roomVars, controlVars, workVars, clientVars, SchedulerInv, ControlTypeOK,
       CountersExact, SlotAccounting, RunningIffExecuting, VerdictReady, PendingUntilReturned,
       PermitCarried, Waiting, SlotHolders, ActorShare
  <1> QED
    BY <1>1, <1>2, <1>3, <1>4, <1>5, <1>6, <1>7 DEF Next

-----------------------------------------------------------------------------
(***************************************************************************)
(* For every number of slots and invocations: _active is the number of     *)
(* invocations holding a slot, and never more than the service's maximum.  *)
(***************************************************************************)
THEOREM SlotsAccounted == Spec => []SlotAccounting
  <1>1. SchedulerInv => SlotAccounting
    BY DEF SchedulerInv
  <1> QED
    BY <1>1, SchedulerInit, SchedulerStep, PTL DEF Spec

(***************************************************************************)
(* For every limit: _queued and _actor_queued count exactly the waiting    *)
(* invocations and stay within the limits admission enforces.              *)
(***************************************************************************)
THEOREM CountersStayExact == Spec => []CountersExact
  <1>1. SchedulerInv => CountersExact
    BY DEF SchedulerInv
  <1> QED
    BY <1>1, SchedulerInit, SchedulerStep, PTL DEF Spec

(***************************************************************************)
(* A future is running exactly while some thread of the executor is going  *)
(* to set its result.                                                      *)
(***************************************************************************)
THEOREM RunningIsExecuting == Spec => []RunningIffExecuting
  <1>1. SchedulerInv => RunningIffExecuting
    BY DEF SchedulerInv
  <1> QED
    BY <1>1, SchedulerInit, SchedulerStep, PTL DEF Spec

(***************************************************************************)
(* No step of any thread changes a future that is already settled.         *)
(***************************************************************************)
LEMMA SettledStays ==
    ASSUME SchedulerInv, [Next]_vars, NEW w \in Work, Settled(w)
    PROVE  future'[w] = future[w]
  <1>0. future \in [Work -> FutureStates]
    BY DEF SchedulerInv, ControlTypeOK
  <1>1. ASSUME NEW v \in Work, FinishRefusal(v) PROVE future'[w] = future[w]
    BY <1>0, <1>1 DEF FinishRefusal, SchedulerInv, PendingUntilReturned, Settled
  <1>2. ASSUME NEW v \in Work, Settle(v) PROVE future'[w] = future[w]
    BY <1>0, <1>2 DEF Settle, FutureSettled, Settled
  <1>3. ASSUME NEW v \in Work, StartStep(v) PROVE future'[w] = future[w]
    BY <1>0, <1>3 DEF StartStep, Start, StartAborted, Settled
  <1>4. ASSUME NEW v \in Work, DeliverOutcome(v) PROVE future'[w] = future[w]
    BY <1>0, <1>4 DEF DeliverOutcome, SchedulerInv, RunningIffExecuting, Settled
  <1>5. ASSUME NEW v \in Work, ClientCancels(v) PROVE future'[w] = future[w]
    BY <1>0, <1>5 DEF ClientCancels, Settled
  <1>6. ASSUME NEW v \in Work,
               \/ Accept(v) \/ Refuse(v) \/ BeginCall(v) \/ SkipCall(v) \/ ProviderReturns(v)
               \/ DrainUnavailable(v) \/ FinishActive(v) \/ RequestCancel(v) \/ Expire(v)
        PROVE  future' = future
    BY <1>6 DEF Accept, Refuse, BeginCall, SkipCall, ProviderReturns, EndCall, RecordOutcome,
                DrainUnavailable, FinishActive, RequestCancel, Expire, workVars
  <1>7. CASE DispatcherStep \/ WaitTimesOut \/ Snapshot \/ StopAdmission \/ CooldownElapses
    BY <1>7 DEF DispatcherStep, DispatcherCollects, DispatcherExits, DispatcherWaits, Claim,
                WaitTimesOut, Snapshot, StopAdmission, CooldownElapses, workVars
  <1>8. CASE UNCHANGED vars
    BY <1>8 DEF vars, workVars
  <1> QED
    BY <1>1, <1>2, <1>3, <1>4, <1>5, <1>6, <1>7, <1>8
    DEF Next, CallerStep, RunnerStep, ClientStep

(***************************************************************************)
(* Whoever races for a future, it is settled at most once.                 *)
(***************************************************************************)
THEOREM FutureSettledOnce == Spec => SettledOnce
  <1>1. SchedulerInv /\ [Next]_vars => [\A w \in Work : Settled(w) => future'[w] = future[w]]_vars
    BY SettledStays
  <1> QED
    BY <1>1, SchedulerInit, SchedulerStep, PTL DEF Spec, SettledOnce

-----------------------------------------------------------------------------
(* The scheduler implements the breaker's contract. *)

LEMMA SameRules ==
    /\ Breaker!NewBreaker = NewBreaker
    /\ Breaker!CanAdmit(breaker) = CanAdmit(breaker)
    /\ Breaker!Admitted(breaker) = Admitted(breaker)
    /\ Breaker!PermitFrom(breaker) = PermitFrom(breaker)
    /\ \A p : Breaker!Abandoned(breaker, p) = Abandoned(breaker, p)
    /\ \A p, outcome : Breaker!Recorded(breaker, p, outcome) = Recorded(breaker, p, outcome)
    /\ Breaker!Outcomes = Outcomes
  <1>1. /\ Breaker!NewBreaker = NewBreaker
        /\ Breaker!CanAdmit(breaker) = CanAdmit(breaker)
        /\ Breaker!Admitted(breaker) = Admitted(breaker)
        /\ Breaker!PermitFrom(breaker) = PermitFrom(breaker)
        /\ Breaker!Outcomes = Outcomes
    BY DEF Breaker!NewBreaker, NewBreaker, Breaker!CanAdmit, CanAdmit, Breaker!Admitted,
           Admitted, Breaker!PermitFrom, PermitFrom, Breaker!Outcomes, Outcomes,
           Breaker!Errors, Errors
  <1>2. \A p : Breaker!Abandoned(breaker, p) = Abandoned(breaker, p)
    BY DEF Breaker!Abandoned, Abandoned, Breaker!IsCurrentProbe, IsCurrentProbe,
           Breaker!BackToOpen, BackToOpen
  <1>3. \A p, outcome : Breaker!Recorded(breaker, p, outcome) = Recorded(breaker, p, outcome)
    BY DEF Breaker!Recorded, Recorded, Breaker!IsCurrentProbe, IsCurrentProbe,
           Breaker!BackToOpen, BackToOpen, Breaker!ProbeRecorded, ProbeRecorded,
           Breaker!CallRecorded, CallRecorded, Breaker!FailureKind, FailureKind,
           Breaker!Opened, Opened, Breaker!Closed, Closed,
           Breaker!TransientFailed, TransientFailed, Breaker!Succeeded, Succeeded
  <1> QED
    BY <1>1, <1>2, <1>3

LEMMA ContractInit == Init => Breaker!Init
  BY SameRules DEF Init, Breaker!Init, PermitStage

(* As long as a permit is held, or once it is gone, lives may move on. *)
AfterPermit == {"recorded", "tripped", "draining", "leaving", "done"}

LEMMA StagesKept ==
    ASSUME SchedulerInv, permit' = permit, breaker' = breaker,
           \A v \in Work :
              \/ life'[v] = life[v]
              \/ life[v] \in HoldingPermit /\ life'[v] \in HoldingPermit
              \/ life[v] \in AfterPermit /\ life'[v] \in AfterPermit
              \/ permit[v] = NoPermit
    PROVE  UNCHANGED Breaker!vars
  <1>1. ASSUME NEW v \in Work
        PROVE  PermitStage'[v] = PermitStage[v]
    BY <1>1 DEF PermitStage, HoldingPermit, AfterPermit
  <1>2. PermitStage' = PermitStage
    BY <1>1 DEF PermitStage
  <1> QED
    BY <1>2 DEF Breaker!vars

LEMMA AcceptAdmits ==
    ASSUME SchedulerInv, NEW w \in Work, Accept(w)
    PROVE  Breaker!Admit(w)
  <1>1. /\ ControlTypeOK /\ LifeKept \in [Work -> Lives]
        /\ permit \in [Work -> Permits \cup {NoPermit}]
    BY SweepTypes DEF SchedulerInv, ControlTypeOK, Threads
  <1>2. life[w] = "new" /\ PermitStage[w] = "new"
    BY DEF Accept, PermitStage
  <1>3. CanAdmit(breaker)
    BY DEF Accept, Refusal
  <1>4. /\ permit' = [permit EXCEPT ![w] = PermitFrom(breaker)]
        /\ breaker' = Admitted(breaker)
        /\ PermitFrom(breaker) # NoPermit
    BY AdmitTypes, BreakerAssumption DEF Accept, SchedulerInv, ControlTypeOK
  <1>5. PermitStage'[w] = "held"
    BY <1>1, <1>4 DEF Accept, PermitStage
  <1>6. ASSUME NEW v \in Work \ {w}
        PROVE  PermitStage'[v] = PermitStage[v]
    <2>1. permit'[v] = permit[v] /\ life'[v] = LifeKept[v]
      BY <1>1, <1>4 DEF Accept
    <2>2. LifeKept[v] = life[v] \/ (LifeKept[v] = "taken" /\ life[v] = "queued")
      BY <1>1, SweepOfOne
    <2> QED
      BY <2>1, <2>2 DEF PermitStage
  <1>7. PermitStage' = [PermitStage EXCEPT ![w] = "held"]
    BY <1>5, <1>6 DEF PermitStage
  <1> QED
    BY <1>2, <1>3, <1>4, <1>7, SameRules DEF Breaker!Admit

(* One invocation disposes of its permit; no other changes. *)
LEMMA DisposalMaps ==
    ASSUME SchedulerInv, NEW w \in Work, life[w] \in HoldingPermit,
           permit' = permit, NEW l \in AfterPermit, life' = [life EXCEPT ![w] = l]
    PROVE  PermitStage[w] = "held" /\ PermitStage' = [PermitStage EXCEPT ![w] = "gone"]
  <1>1. life \in [Work -> Lives] /\ permit[w] # NoPermit
    BY BreakerAssumption DEF SchedulerInv, ControlTypeOK, PermitCarried
  <1>2. PermitStage[w] = "held" /\ PermitStage'[w] = "gone"
    BY <1>1 DEF PermitStage, HoldingPermit, AfterPermit
  <1>3. \A v \in Work \ {w} : PermitStage'[v] = PermitStage[v]
    BY <1>1 DEF PermitStage
  <1> QED
    BY <1>2, <1>3 DEF PermitStage

LEMMA GivenBackAbandons ==
    ASSUME SchedulerInv, NEW w \in Work, Settle(w) \/ StartAborted(w)
    PROVE  Breaker!Abandon(w)
  <1>1. PermitStage[w] = "held" /\ PermitStage' = [PermitStage EXCEPT ![w] = "gone"]
    BY DisposalMaps DEF Settle, StartAborted, HoldingPermit, AfterPermit
  <1>2. breaker' = Abandoned(breaker, permit[w]) /\ permit' = permit
    BY DEF Settle, StartAborted, GivenBack
  <1> QED
    BY <1>1, <1>2, SameRules DEF Breaker!Abandon

LEMMA OutcomeRecords ==
    ASSUME SchedulerInv, NEW w \in Work, NEW outcome \in Outcomes,
           life[w] \in {"ready", "calling"}, RecordOutcome(w, outcome)
    PROVE  Breaker!Record(w, outcome)
  <1>1. PermitStage[w] = "held" /\ PermitStage' = [PermitStage EXCEPT ![w] = "gone"]
    BY DisposalMaps DEF RecordOutcome, HoldingPermit, AfterPermit
  <1>2. breaker' = Recorded(breaker, permit[w], outcome) /\ permit' = permit
    BY DEF RecordOutcome
  <1> QED
    BY <1>1, <1>2, SameRules DEF Breaker!Record

LEMMA ContractStep ==
    ASSUME SchedulerInv, [Next]_vars
    PROVE  [Breaker!Next]_(Breaker!vars)
  <1>0. life \in [Work -> Lives] /\ ControlTypeOK
    BY DEF SchedulerInv, ControlTypeOK
  <1>1. ASSUME NEW w \in Work, Accept(w)
        PROVE  Breaker!Next
    BY <1>1, AcceptAdmits DEF Breaker!Next
  <1>2. ASSUME NEW w \in Work, Settle(w) \/ StartAborted(w)
        PROVE  Breaker!Next
    BY <1>2, GivenBackAbandons DEF Breaker!Next
  <1>3. ASSUME NEW w \in Work, SkipCall(w) \/ ProviderReturns(w)
        PROVE  Breaker!Next
    <2>1. \E outcome \in Outcomes : RecordOutcome(w, outcome)
      BY <1>3 DEF SkipCall, ProviderReturns, EndCall, Outcomes, Errors
    <2>2. life[w] \in {"ready", "calling"}
      BY <1>3 DEF SkipCall, ProviderReturns, EndCall
    <2> QED
      BY <2>1, <2>2, OutcomeRecords, SameRules DEF Breaker!Next
  <1>4. CASE CooldownElapses
    <2>1. PermitStage' = PermitStage
      BY <1>4 DEF CooldownElapses, workVars, PermitStage
    <2> QED
      BY <1>4, <2>1 DEF CooldownElapses, workVars, Breaker!CooldownElapses, Breaker!Next
  <1>5. ASSUME NEW w \in Work, Refuse(w)
        PROVE  UNCHANGED Breaker!vars
    <2>1. LifeKept \in [Work -> Lives]
      BY <1>0, SweepTypes DEF Threads
    <2>2. \A v \in Work \ {w} : life'[v] = life[v] \/ (life[v] = "queued" /\ life'[v] = "taken")
      BY <1>0, <1>5, <2>1, SweepOfOne DEF Refuse
    <2>3. permit[w] = NoPermit
      BY <1>5 DEF Refuse, SchedulerInv, PermitCarried
    <2> QED
      BY <1>5, <2>2, <2>3, StagesKept DEF Refuse, HoldingPermit
  <1>6. ASSUME CollectStale(Dispatcher) \/ CollectStale(Inspector), UNCHANGED <<breaker, permit>>
        PROVE  UNCHANGED Breaker!vars
    <2>1. \A v \in Work : life'[v] = life[v] \/ (life[v] = "queued" /\ life'[v] = "taken")
      BY <1>0, <1>6, SweepOfOne DEF CollectStale
    <2> QED
      BY <1>6, <2>1, StagesKept DEF HoldingPermit
  <1>7. ASSUME NEW w \in Work, FinishRefusal(w)
        PROVE  UNCHANGED Breaker!vars
    <2>1. permit[w] = NoPermit
      BY <1>7 DEF FinishRefusal, SchedulerInv, PermitCarried
    <2> QED
      BY <1>0, <1>7, <2>1, StagesKept DEF FinishRefusal
  <1>8. ASSUME NEW w \in Work, Claim(w) \/ Start(w) \/ BeginCall(w)
        PROVE  UNCHANGED Breaker!vars
    BY <1>0, <1>8, StagesKept DEF Claim, Start, BeginCall, HoldingPermit
  <1>9. ASSUME NEW w \in Work, DeliverOutcome(w) \/ FinishActive(w)
        PROVE  UNCHANGED Breaker!vars
    BY <1>0, <1>9, StagesKept DEF DeliverOutcome, AfterDelivery, FinishActive, AfterPermit
  <1>10. ASSUME NEW w \in Work, DrainUnavailable(w)
         PROVE  UNCHANGED Breaker!vars
    BY <1>0, <1>10, StagesKept DEF DrainUnavailable, AllTaken, AfterPermit, HoldingPermit
  <1>11. CASE StopAdmission
    BY <1>0, <1>11, StagesKept DEF StopAdmission, AllTaken, HoldingPermit
  <1>12. ASSUME NEW w \in Work, ClientStep(w)
         PROVE  UNCHANGED Breaker!vars
    BY <1>12, StagesKept DEF ClientStep, ClientCancels, RequestCancel, Expire, workVars
  <1>13. CASE DispatcherExits \/ DispatcherWaits \/ WaitTimesOut \/ UNCHANGED vars
    BY <1>13, StagesKept DEF DispatcherExits, DispatcherWaits, WaitTimesOut, workVars, vars
  <1>14. CASE DispatcherCollects \/ Snapshot
    BY <1>6, <1>14 DEF DispatcherCollects, Snapshot
  <1>15. CASE \E w \in Work : CallerStep(w) \/ StartStep(w) \/ RunnerStep(w)
    BY <1>1, <1>2, <1>3, <1>5, <1>7, <1>8, <1>9, <1>10, <1>15
    DEF CallerStep, StartStep, RunnerStep
  <1>16. CASE DispatcherStep
    BY <1>8, <1>13, <1>14, <1>16 DEF DispatcherStep
  <1> QED
    BY <1>2, <1>3, <1>4, <1>11, <1>12, <1>13, <1>14, <1>15, <1>16 DEF Next

(***************************************************************************)
(* The scheduler implements the breaker's contract: in every behaviour, on *)
(* each of the ways an invocation can end, its permit is given back once.  *)
(***************************************************************************)
THEOREM BreakerContractKept == Spec => UsesBreakerProperly
  BY ContractInit, ContractStep, SchedulerInit, SchedulerStep, PTL
  DEF Spec, UsesBreakerProperly, Breaker!Spec

(* CircuitBreakerProofs, read for the scheduler's own breaker. *)
Proved ==
    INSTANCE CircuitBreakerProofs
    WITH Holder <- Work, stage <- PermitStage,
         outdated <- {}, lastKind <- "ok", streak <- {}

LEMMA ProvedRules ==
    /\ Proved!NewBreaker = NewBreaker
    /\ Proved!CanAdmit(breaker) = CanAdmit(breaker)
    /\ Proved!Admitted(breaker) = Admitted(breaker)
    /\ Proved!PermitFrom(breaker) = PermitFrom(breaker)
    /\ \A p : Proved!Abandoned(breaker, p) = Abandoned(breaker, p)
    /\ \A p, outcome : Proved!Recorded(breaker, p, outcome) = Recorded(breaker, p, outcome)
    /\ Proved!Outcomes = Outcomes
  <1>1. /\ Proved!NewBreaker = NewBreaker
        /\ Proved!CanAdmit(breaker) = CanAdmit(breaker)
        /\ Proved!Admitted(breaker) = Admitted(breaker)
        /\ Proved!PermitFrom(breaker) = PermitFrom(breaker)
        /\ Proved!Outcomes = Outcomes
    BY DEF Proved!NewBreaker, NewBreaker, Proved!CanAdmit, CanAdmit, Proved!Admitted,
           Admitted, Proved!PermitFrom, PermitFrom, Proved!Outcomes, Outcomes,
           Proved!Errors, Errors
  <1>2. \A p : Proved!Abandoned(breaker, p) = Abandoned(breaker, p)
    BY DEF Proved!Abandoned, Abandoned, Proved!IsCurrentProbe, IsCurrentProbe,
           Proved!BackToOpen, BackToOpen
  <1>3. \A p, outcome : Proved!Recorded(breaker, p, outcome) = Recorded(breaker, p, outcome)
    BY DEF Proved!Recorded, Recorded, Proved!IsCurrentProbe, IsCurrentProbe,
           Proved!BackToOpen, BackToOpen, Proved!ProbeRecorded, ProbeRecorded,
           Proved!CallRecorded, CallRecorded, Proved!FailureKind, FailureKind,
           Proved!Opened, Opened, Proved!Closed, Closed,
           Proved!TransientFailed, TransientFailed, Proved!Succeeded, Succeeded
  <1> QED
    BY <1>1, <1>2, <1>3

(***************************************************************************)
(* Whatever the scheduler's threads do, at most one recovery probe is out, *)
(* and the breaker is half-open exactly while one is.                      *)
(***************************************************************************)
THEOREM SchedulerProbesOnce == Spec => []SingleProbe
  <1>1. Breaker!Init => Proved!Init
    BY SameRules, ProvedRules DEF Breaker!Init, Proved!Init
  <1>2. [Breaker!Next]_(Breaker!vars) => [Proved!Next]_(Proved!vars)
    BY SameRules, ProvedRules
    DEF Breaker!vars, Proved!vars, Breaker!Next, Proved!Next, Breaker!Admit, Proved!Admit,
        Breaker!Abandon, Proved!Abandon, Breaker!Record, Proved!Record,
        Breaker!CooldownElapses, Proved!CooldownElapses
  <1>3. Breaker!Spec => Proved!Spec
    BY <1>1, <1>2, PTL DEF Breaker!Spec, Proved!Spec
  <1>4. Proved!Spec => []Proved!SingleProbe
    BY Proved!ProbeIsSingle, BreakerAssumption, PTL
    DEF Proved!BreakerAssumption, Proved!Permits, Permits
  <1>5. Proved!SingleProbe => SingleProbe
    BY DEF Proved!SingleProbe, SingleProbe, Breaker!SingleProbe, Proved!ProbesOut,
           Breaker!ProbesOut, Proved!Held, Breaker!Held
  <1> QED
    BY <1>3, <1>4, <1>5, BreakerContractKept, PTL DEF UsesBreakerProperly

-----------------------------------------------------------------------------
(* No wake-up is lost: a step that disturbs what the dispatcher sleeps on   *)
(* either wakes it or can only be taken by it while it is awake.            *)

LEMMA WakeInit == Init => NoLostWakeup
  BY DEF Init, NoLostWakeup

(* Steps that can only shrink what waits, with the slots as they were. *)
LEMMA SleepUndisturbed ==
    ASSUME NoLostWakeup, shutdown' = shutdown, active' = active,
           dispatcher' = dispatcher \/ dispatcher' # "asleep",
           Waiting' \subseteq Waiting,
           \A v \in Waiting : future'[v] = "cancelled" => future[v] = "cancelled"
    PROVE  NoLostWakeup'
  BY DEF NoLostWakeup

LEMMA WakeStep == SchedulerInv /\ NoLostWakeup /\ [Next]_vars => NoLostWakeup'
  <1> SUFFICES ASSUME SchedulerInv, NoLostWakeup, [Next]_vars PROVE NoLostWakeup'
    OBVIOUS
  <1>0. /\ ControlTypeOK /\ LifeKept \in [Work -> Lives]
        /\ life \in [Work -> Lives] /\ future \in [Work -> FutureStates]
    BY SweepTypes DEF SchedulerInv, ControlTypeOK, Threads
  <1>1. CASE DispatcherWaits
    <2>1. Waiting \in SUBSET Work /\ queued = Cardinality(Waiting)
      BY DEF Waiting, SchedulerInv, CountersExact
    <2>2. IsFiniteSet(Waiting)
      BY <2>1, WorkFinite
    <2>3. active < Maximum => Waiting = {}
      BY <1>1, <2>1, <2>2, FS_EmptySet DEF DispatcherWaits, SlotFree
    <2>4. active \in Nat
      BY <1>0 DEF ControlTypeOK
    <2>5. \A v \in Waiting : future[v] # "cancelled"
      BY <1>1 DEF DispatcherWaits, Stale
    <2>6. life' = life /\ future' = future /\ active' = active /\ shutdown' = FALSE
      BY <1>0, <1>1 DEF DispatcherWaits, workVars, ControlTypeOK
    <2> QED
      BY <2>3, <2>4, <2>5, <2>6, SchedulerAssumption DEF NoLostWakeup, Waiting
  <1>2. ASSUME NEW w \in Work,
               Accept(w) \/ FinishActive(w) \/ DrainUnavailable(w) \/ ClientCancels(w)
        PROVE  NoLostWakeup'
    BY <1>0, <1>2 DEF Accept, FinishActive, DrainUnavailable, ClientCancels, Woken, NoLostWakeup,
                      ControlTypeOK
  <1>3. CASE StopAdmission \/ WaitTimesOut \/ DispatcherExits
    BY <1>0, <1>3 DEF StopAdmission, WaitTimesOut, DispatcherExits, Woken, NoLostWakeup, ControlTypeOK
  <1>4. ASSUME NEW w \in Work, Claim(w) PROVE NoLostWakeup'
    BY <1>4 DEF Claim, DispatcherFree, NoLostWakeup
  <1>5. ASSUME NEW w \in Work, Refuse(w) PROVE NoLostWakeup'
    <2>1. Waiting' \subseteq Waiting
      BY <1>0, <1>5, SweepOfOne DEF Refuse, Waiting
    <2> QED
      BY <1>5, <2>1, SleepUndisturbed DEF Refuse, controlVars
  <1>6. CASE DispatcherCollects \/ Snapshot
    <2>1. Waiting' \subseteq Waiting
      BY <1>0, <1>6, SweepOfOne DEF DispatcherCollects, Snapshot, CollectStale, Waiting
    <2> QED
      BY <1>6, <2>1, SleepUndisturbed DEF DispatcherCollects, Snapshot, controlVars
  <1>7. ASSUME NEW w \in Work,
               \/ FinishRefusal(w) \/ Settle(w) \/ StartStep(w) \/ BeginCall(w)
               \/ DeliverOutcome(w)
        PROVE  NoLostWakeup'
    <2>1. /\ Waiting' \subseteq Waiting
          /\ \A v \in Waiting : future'[v] = future[v]
      BY <1>0, <1>7 DEF FinishRefusal, Settle, StartStep, Start, StartAborted, BeginCall,
                   DeliverOutcome, AfterDelivery, Waiting
    <2>2. /\ shutdown' = shutdown /\ active' = active
          /\ dispatcher' = dispatcher \/ dispatcher' # "asleep"
      BY <1>7 DEF FinishRefusal, Settle, StartStep, Start, StartAborted, BeginCall,
                   DeliverOutcome, controlVars, Woken
    <2> QED
      BY <2>1, <2>2, SleepUndisturbed
  <1>8. ASSUME NEW w \in Work, SkipCall(w) \/ ProviderReturns(w)
        PROVE  NoLostWakeup'
    <2>1. Waiting' \subseteq Waiting
      BY <1>0, <1>8 DEF SkipCall, ProviderReturns, EndCall, RecordOutcome, Waiting
    <2> QED
      BY <1>8, <2>1, SleepUndisturbed
      DEF SkipCall, ProviderReturns, EndCall, RecordOutcome, controlVars
  <1>9. ASSUME NEW w \in Work, RequestCancel(w) \/ Expire(w) PROVE NoLostWakeup'
    BY <1>9 DEF RequestCancel, Expire, NoLostWakeup, Waiting, controlVars, workVars
  <1>10. CASE CooldownElapses \/ UNCHANGED vars
    BY <1>10 DEF CooldownElapses, vars, NoLostWakeup, Waiting, controlVars, workVars
  <1> QED
    BY <1>1, <1>2, <1>3, <1>4, <1>5, <1>6, <1>7, <1>8, <1>9, <1>10
    DEF Next, DispatcherStep, CallerStep, RunnerStep, ClientStep

(***************************************************************************)
(* The dispatcher never sleeps on work it could start, on a shutdown, or   *)
(* on an item whose client has cancelled it, whatever the notifying        *)
(* threads do and in whatever order.                                       *)
(***************************************************************************)
THEOREM WakeupsKept == Spec => []NoLostWakeup
  BY WakeInit, WakeStep, SchedulerInit, SchedulerStep, PTL DEF Spec

-----------------------------------------------------------------------------
(* Fail fast.  SingleProbe is what makes it inductive: when a probe comes   *)
(* back without a verdict and the breaker is open again, no other item can  *)
(* be waiting on a permit equal to that probe's.                            *)

LEMMA ProbeWaitInit == Init => OnlyProbeWaits
  BY DEF Init, OnlyProbeWaits, Waiting

(* Steps that leave the breaker alone and let nothing more wait. *)
LEMMA WaitingUndisturbed ==
    ASSUME OnlyProbeWaits, breaker' = breaker, permit' = permit,
           Waiting' \subseteq Waiting, DrainOwed => DrainOwed'
    PROVE  OnlyProbeWaits'
  BY DEF OnlyProbeWaits

LEMMA DrainStaysOwed ==
    ASSUME \A v \in Work : life[v] \in {"tripped", "draining"} =>
                              life'[v] \in {"tripped", "draining"}
    PROVE  DrainOwed => DrainOwed'
  BY DEF DrainOwed

(* A probe that is not waiting itself has no double in the waiting room. *)
LEMMA ProbeHasNoDouble ==
    ASSUME SchedulerInv, SingleProbe, OnlyProbeWaits, ~DrainOwed,
           NEW w \in Work, life[w] \in {"taken", "claimed", "ready", "calling"},
           IsCurrentProbe(breaker, permit[w])
    PROVE  Waiting = {}
  <1>1. breaker.state = "half_open" /\ breaker.probe = permit[w] /\ permit[w].epoch = breaker.epoch
    BY DEF IsCurrentProbe
  <1>2. permit[w].half_open
    BY <1>1 DEF SingleProbe, Breaker!SingleProbe, Breaker!ProbesOut
  <1>3. w \in Breaker!ProbesOut
    <2>1. permit[w] # NoPermit
      BY BreakerAssumption DEF SchedulerInv, PermitCarried, HoldingPermit
    <2>2. PermitStage[w] = "held"
      BY <2>1 DEF PermitStage
    <2> QED
      BY <2>2, <1>1, <1>2 DEF Breaker!ProbesOut, Breaker!Held
  <1>4. ASSUME NEW v \in Waiting PROVE FALSE
    <2>1. v \in Work /\ life[v] = "queued"
      BY DEF Waiting
    <2>2. permit[v] = permit[w]
      BY <1>1, <1>4 DEF OnlyProbeWaits
    <2>3. PermitStage[v] = "held"
      BY <2>1, BreakerAssumption DEF PermitStage, SchedulerInv, PermitCarried, HoldingPermit
    <2>4. v \in Breaker!ProbesOut
      BY <2>1, <2>2, <2>3, <1>1, <1>2 DEF Breaker!ProbesOut, Breaker!Held
    <2> QED
      BY <2>1, <2>4, <1>3 DEF SingleProbe, Breaker!SingleProbe
  <1> QED
    BY <1>4

(* One invocation gives its permit back or reports its outcome. *)
LEMMA DisposalLeavesNoDouble ==
    ASSUME SchedulerInv, SingleProbe, OnlyProbeWaits,
           NEW w \in Work, life[w] \in {"taken", "claimed", "ready", "calling"},
           permit' = permit, NEW l \in AfterPermit, life' = [life EXCEPT ![w] = l],
           \/ breaker' = breaker
           \/ IsCurrentProbe(breaker, permit[w])
           \/ breaker'.state = "closed"
           \/ l = "tripped"
    PROVE  OnlyProbeWaits'
  <1>0. life \in [Work -> Lives]
    BY DEF SchedulerInv, ControlTypeOK
  <1>1. Waiting' \subseteq Waiting
    BY <1>0 DEF Waiting, AfterPermit
  <1>2. DrainOwed => DrainOwed'
    BY <1>0, DrainStaysOwed
  <1>3. CASE breaker' = breaker
    BY <1>1, <1>2, <1>3, WaitingUndisturbed
  <1>4. CASE IsCurrentProbe(breaker, permit[w])
    BY <1>1, <1>2, <1>4, ProbeHasNoDouble DEF OnlyProbeWaits
  <1>5. CASE breaker'.state = "closed"
    BY <1>5 DEF OnlyProbeWaits
  <1>6. CASE l = "tripped"
    BY <1>0, <1>6 DEF OnlyProbeWaits, DrainOwed
  <1> QED
    BY <1>3, <1>4, <1>5, <1>6

(* What reporting can do to a breaker, for the one who reports. *)
LEMMA ReportOpensOrKeeps ==
    ASSUME NEW b \in Breakers, NEW p \in Permits, NEW outcome \in Outcomes
    PROVE  \/ Recorded(b, p, outcome) = b
           \/ IsCurrentProbe(b, p)
           \/ Recorded(b, p, outcome).state = "closed"
           \/ JustOpened(b, p, outcome)
  <1>1. /\ Opened(b).state = "open" /\ Opened(b).epoch # b.epoch
        /\ Succeeded(b).state = b.state
        /\ b.consecutive + 1 < Threshold => TransientFailed(b).state = b.state
    BY DEF Breakers, Opened, Succeeded, TransientFailed
  <1>2. FailureKind(outcome) \in {"ignored", "fatal", "transient"}
    BY DEF FailureKind
  <1> QED
    BY <1>1, <1>2 DEF Recorded, JustOpened, CallRecorded, TransientFailed

LEMMA ProbeWaitStep ==
    SchedulerInv /\ SingleProbe /\ OnlyProbeWaits /\ [Next]_vars => OnlyProbeWaits'
  <1> SUFFICES ASSUME SchedulerInv, SingleProbe, OnlyProbeWaits, [Next]_vars
               PROVE  OnlyProbeWaits'
    OBVIOUS
  <1>0. /\ ControlTypeOK /\ LifeKept \in [Work -> Lives]
        /\ life \in [Work -> Lives] /\ permit \in [Work -> Permits \cup {NoPermit}]
        /\ breaker \in Breakers
    BY SweepTypes DEF SchedulerInv, ControlTypeOK, Threads
  <1>1. ASSUME NEW w \in Work, Accept(w) PROVE OnlyProbeWaits'
    <2>1. life[w] = "new" /\ CanAdmit(breaker)
      BY <1>1 DEF Accept, Refusal
    <2>2. breaker' = Admitted(breaker) /\ permit' = [permit EXCEPT ![w] = PermitFrom(breaker)]
          /\ life' = [LifeKept EXCEPT ![w] = "queued"]
      BY <1>1 DEF Accept
    <2>3. CASE breaker.state = "closed"
      BY <2>2, <2>3 DEF Admitted, OnlyProbeWaits
    <2>4. CASE breaker.state = "open"
      <3>1. DrainOwed => DrainOwed'
        BY <1>0, <2>1, <2>2, SweepOfOne, DrainStaysOwed
      <3>2. Waiting' \subseteq Waiting \cup {w}
        BY <1>0, <2>2, SweepOfOne DEF Waiting
      <3>3. ~DrainOwed => Waiting = {}
        BY <2>4 DEF OnlyProbeWaits
      <3>4. breaker'.state = "half_open" /\ breaker'.probe = PermitFrom(breaker)
        BY <1>0, <2>2, <2>4 DEF Admitted, Breakers
      <3>5. permit'[w] = PermitFrom(breaker)
        BY <1>0, <2>2
      <3> QED
        BY <3>1, <3>2, <3>3, <3>4, <3>5 DEF OnlyProbeWaits
    <2> QED
      BY <2>1, <2>3, <2>4 DEF CanAdmit
  <1>2. ASSUME NEW w \in Work, Refuse(w) PROVE OnlyProbeWaits'
    <2>1. Waiting' \subseteq Waiting /\ (DrainOwed => DrainOwed')
      BY <1>0, <1>2, SweepOfOne, DrainStaysOwed DEF Refuse, Waiting
    <2> QED
      BY <1>2, <2>1, WaitingUndisturbed DEF Refuse
  <1>3. CASE DispatcherCollects \/ Snapshot
    <2>1. Waiting' \subseteq Waiting /\ (DrainOwed => DrainOwed')
      BY <1>0, <1>3, SweepOfOne, DrainStaysOwed
      DEF DispatcherCollects, Snapshot, CollectStale, Waiting
    <2> QED
      BY <1>3, <2>1, WaitingUndisturbed DEF DispatcherCollects, Snapshot
  <1>4. ASSUME NEW w \in Work, Settle(w) \/ StartAborted(w) PROVE OnlyProbeWaits'
    <2>1. breaker' = breaker \/ IsCurrentProbe(breaker, permit[w])
      BY <1>4 DEF Settle, StartAborted, GivenBack, Abandoned
    <2> QED
      BY <1>4, <2>1, DisposalLeavesNoDouble DEF Settle, StartAborted, AfterPermit
  <1>5. ASSUME NEW w \in Work, NEW outcome \in Outcomes,
               life[w] \in {"ready", "calling"}, RecordOutcome(w, outcome)
        PROVE  OnlyProbeWaits'
    <2>1. permit[w] \in Permits
      BY <1>5 DEF SchedulerInv, PermitCarried, HoldingPermit
    <2>2. \/ Recorded(breaker, permit[w], outcome) = breaker
          \/ IsCurrentProbe(breaker, permit[w])
          \/ Recorded(breaker, permit[w], outcome).state = "closed"
          \/ JustOpened(breaker, permit[w], outcome)
      BY <1>0, <2>1, ReportOpensOrKeeps
    <2>3. CASE JustOpened(breaker, permit[w], outcome)
      <3>1. life' = [life EXCEPT ![w] = "tripped"] /\ permit' = permit
        BY <1>5, <2>3 DEF RecordOutcome
      <3> QED
        BY <1>5, <3>1, DisposalLeavesNoDouble DEF AfterPermit
    <2>4. CASE ~JustOpened(breaker, permit[w], outcome)
      <3>1. /\ life' = [life EXCEPT ![w] = "recorded"] /\ permit' = permit
            /\ breaker' = Recorded(breaker, permit[w], outcome)
        BY <1>5, <2>4 DEF RecordOutcome
      <3> QED
        BY <1>5, <2>2, <2>4, <3>1, DisposalLeavesNoDouble DEF AfterPermit
    <2> QED
      BY <2>3, <2>4
  <1>6. ASSUME NEW w \in Work, SkipCall(w) \/ ProviderReturns(w) PROVE OnlyProbeWaits'
    BY <1>5, <1>6 DEF SkipCall, ProviderReturns, EndCall, Outcomes, Errors
  <1>7. ASSUME NEW w \in Work, DrainUnavailable(w) PROVE OnlyProbeWaits'
    <2>1. Waiting' = {}
      BY <1>0, <1>7 DEF DrainUnavailable, AllTaken, Waiting
    <2> QED
      BY <2>1 DEF OnlyProbeWaits
  <1>8. CASE StopAdmission
    <2>1. Waiting' = {}
      BY <1>0, <1>8 DEF StopAdmission, AllTaken, Waiting
    <2> QED
      BY <2>1 DEF OnlyProbeWaits
  <1>9. ASSUME NEW w \in Work,
               \/ Claim(w) \/ FinishRefusal(w) \/ Start(w) \/ BeginCall(w)
               \/ DeliverOutcome(w) \/ FinishActive(w) \/ ClientStep(w)
        PROVE  OnlyProbeWaits'
    <2>1. Waiting' \subseteq Waiting
      BY <1>0, <1>9
      DEF Claim, FinishRefusal, Start, BeginCall, DeliverOutcome, AfterDelivery, FinishActive,
          ClientStep, ClientCancels, RequestCancel, Expire, workVars, Waiting
    <2>2. DrainOwed => DrainOwed'
      BY <1>0, <1>9, DrainStaysOwed
      DEF Claim, FinishRefusal, Start, BeginCall, DeliverOutcome, AfterDelivery, FinishActive,
          ClientStep, ClientCancels, RequestCancel, Expire, workVars
    <2>3. breaker' = breaker /\ permit' = permit
      BY <1>9
      DEF Claim, FinishRefusal, Start, BeginCall, DeliverOutcome, FinishActive,
          ClientStep, ClientCancels, RequestCancel, Expire, workVars
    <2> QED
      BY <2>1, <2>2, <2>3, WaitingUndisturbed
  <1>10. CASE DispatcherExits \/ DispatcherWaits \/ WaitTimesOut \/ UNCHANGED vars
    <2>1. life' = life /\ breaker' = breaker /\ permit' = permit
      BY <1>10 DEF DispatcherExits, DispatcherWaits, WaitTimesOut, vars, workVars
    <2> QED
      BY <2>1 DEF OnlyProbeWaits, DrainOwed, Waiting
  <1>11. CASE CooldownElapses
    <2>1. /\ life' = life /\ permit' = permit /\ breaker.state = "open"
          /\ breaker'.state = "open"
      BY <1>0, <1>11 DEF CooldownElapses, workVars, Breakers
    <2> QED
      BY <2>1 DEF OnlyProbeWaits, DrainOwed, Waiting
  <1> QED
    BY <1>1, <1>2, <1>3, <1>4, <1>6, <1>7, <1>8, <1>9, <1>10, <1>11
    DEF Next, DispatcherStep, CallerStep, StartStep, RunnerStep

(***************************************************************************)
(* Nothing but the recovery probe waits for a service that is not known to *)
(* work, once the thread that saw the breaker open has drained the waiting *)
(* room: whatever is admitted, swept, cancelled or given back meanwhile.   *)
(***************************************************************************)
THEOREM OnlyTheProbeWaits == Spec => []OnlyProbeWaits
  BY ProbeWaitInit, ProbeWaitStep, SchedulerInit, SchedulerStep, SchedulerProbesOnce, PTL
  DEF Spec

-----------------------------------------------------------------------------
(* A set of numbers that has 0 and, with each number, the next, is all.    *)
LEMMA Induction ==
    ASSUME NEW P, 0 \in P, \A n \in Nat : n \in P => n + 1 \in P
    PROVE  \A n \in Nat : n \in P
  <1> SUFFICES ASSUME NEW m \in Nat, m \notin P PROVE FALSE
    OBVIOUS
  <1> DEFINE T == {n \in Nat : n \notin P}
  <1>1. T \subseteq Nat /\ T # {}
    OBVIOUS
  <1>2. \E x \in T : \A y \in T : ~ (<<y, x>> \in OpToRel(<, Nat))
    <2> HIDE DEF T
    <2> QED
      BY <1>1, WFMin, NatLessThanWellFounded
  <1>3. PICK x \in T : \A y \in T : ~ (<<y, x>> \in OpToRel(<, Nat))
    BY <1>2
  <1>4. x \in Nat /\ x # 0 /\ x - 1 \in Nat /\ x - 1 < x /\ (x - 1) + 1 = x
    OBVIOUS
  <1>5. x - 1 \notin P
    BY <1>4
  <1>6. x - 1 \in T
    BY <1>4, <1>5
  <1>7. <<x - 1, x>> \in OpToRel(<, Nat)
    BY <1>4 DEF OpToRel
  <1> QED
    BY <1>3, <1>6, <1>7

LEMMA KeptFunction ==
    ASSUME NEW S, NEW s, Len(s) \in Nat
    PROVE  \E f : /\ f = [n \in 0 .. Len(s) |->
                            IF n = 0 THEN <<>>
                            ELSE IF s[n] \in S THEN Append(f[n - 1], s[n]) ELSE f[n - 1]]
                  /\ Kept(s, S) = f[Len(s)]
  <1> DEFINE Fills(f, m) == f = [n \in 0 .. m |->
                              IF n = 0 THEN <<>>
                              ELSE IF s[n] \in S THEN Append(f[n - 1], s[n]) ELSE f[n - 1]]
             P == {m \in Nat : \E f : Fills(f, m)}
  <1>1. 0 \in P
    <2>1. Fills([n \in 0 .. 0 |-> <<>>], 0)
      OBVIOUS
    <2> QED
      BY <2>1
  <1>2. ASSUME NEW m \in Nat, m \in P PROVE m + 1 \in P
    <2>1. PICK f : Fills(f, m)
      BY <1>2
    <2> DEFINE new == IF s[m + 1] \in S THEN Append(f[m], s[m + 1]) ELSE f[m]
               g == [n \in 0 .. m + 1 |-> IF n = m + 1 THEN new ELSE f[n]]
    <2>2. \A n \in 0 .. m : g[n] = f[n]
      OBVIOUS
    <2>3. \A n \in 0 .. m : f[n] = IF n = 0 THEN <<>>
                              ELSE IF s[n] \in S THEN Append(f[n - 1], s[n]) ELSE f[n - 1]
      BY <2>1
    <2>4. g[m + 1] = IF s[m + 1] \in S THEN Append(g[m], s[m + 1]) ELSE g[m]
      OBVIOUS
    <2>5. \A n \in 0 .. m + 1 : g[n] = IF n = 0 THEN <<>>
                              ELSE IF s[n] \in S THEN Append(g[n - 1], s[n]) ELSE g[n - 1]
      <3> SUFFICES ASSUME NEW n \in 0 .. m + 1
                   PROVE  g[n] = IF n = 0 THEN <<>>
                                 ELSE IF s[n] \in S THEN Append(g[n - 1], s[n]) ELSE g[n - 1]
        OBVIOUS
      <3> HIDE DEF g
      <3>1. CASE n = m + 1
        BY <3>1, <2>4
      <3>2. CASE n = 0
        BY <3>2, <2>2, <2>3
      <3>3. CASE n \in 1 .. m
        <4>1. n - 1 \in 0 .. m /\ n \in 0 .. m
          BY <3>3
        <4> QED
          BY <3>3, <4>1, <2>2, <2>3
      <3> QED
        BY <3>1, <3>2, <3>3
    <2>6. DOMAIN g = 0 .. m + 1 /\ g = [n \in 0 .. m + 1 |-> g[n]]
      OBVIOUS
    <2>7. Fills(g, m + 1)
      <3> HIDE DEF g
      <3> QED
        BY <2>5, <2>6
    <2>8. m + 1 \in Nat /\ \E h : Fills(h, m + 1)
      <3> HIDE DEF g, Fills
      <3> QED
        BY <2>7
    <2> QED
      <3> HIDE DEF Fills
      <3> QED
        BY <2>8
  <1>3. \E f : Fills(f, Len(s))
    <2> HIDE DEF P
    <2>1. Len(s) \in P
      BY <1>1, <1>2, Induction
    <2> QED
      BY <2>1 DEF P
  <1>4. PICK f : f = CHOOSE g : Fills(g, Len(s))
    OBVIOUS
  <1>5. Fills(f, Len(s))
    BY <1>3, <1>4
  <1>6. Kept(s, S) = f[Len(s)]
    BY <1>4 DEF Kept
  <1> QED
    BY <1>5, <1>6

(* k is the part of s up to place n that is in S; h[i] is where k[i] was.   *)
IsPart(k, s, n, S, h) ==
    /\ h \in [1 .. Len(k) -> 1 .. n]
    /\ \A i, j \in 1 .. Len(k) : i < j => h[i] < h[j]
    /\ \A i \in 1 .. Len(k) : k[i] = s[h[i]]
    /\ \A j \in 1 .. n : s[j] \in S <=> \E i \in 1 .. Len(k) : h[i] = j

LEMMA PartGrows ==
    ASSUME NEW T, NEW S, NEW s \in Seq(T), NEW n \in Nat, n + 1 <= Len(s),
           NEW k \in Seq(T), NEW h, IsPart(k, s, n, S, h)
    PROVE  /\ s[n + 1] \in S => /\ Append(k, s[n + 1]) \in Seq(T)
                                /\ \E g : IsPart(Append(k, s[n + 1]), s, n + 1, S, g)
           /\ s[n + 1] \notin S => IsPart(k, s, n + 1, S, h)
  <1>1. Len(k) \in Nat /\ s[n + 1] \in T /\ n + 1 \in 1 .. Len(s)
    BY ElementOfSeq
  <1>2. s[n + 1] \notin S => IsPart(k, s, n + 1, S, h)
    BY <1>1 DEF IsPart
  <1>3. ASSUME s[n + 1] \in S
        PROVE  Append(k, s[n + 1]) \in Seq(T) /\ \E g : IsPart(Append(k, s[n + 1]), s, n + 1, S, g)
    <2> DEFINE m == Append(k, s[n + 1])
               g == [i \in 1 .. Len(k) + 1 |-> IF i = Len(k) + 1 THEN n + 1 ELSE h[i]]
    <2>1. /\ m \in Seq(T) /\ Len(m) = Len(k) + 1
          /\ \A i \in 1 .. Len(k) : m[i] = k[i]
          /\ m[Len(k) + 1] = s[n + 1]
      BY <1>1, AppendProperties
    <2>2. /\ h \in [1 .. Len(k) -> 1 .. n]
          /\ \A i \in 1 .. Len(k) : h[i] \in 1 .. n
      BY DEF IsPart
    <2>3. /\ g \in [1 .. Len(k) + 1 -> 1 .. n + 1]
          /\ \A i \in 1 .. Len(k) : g[i] = h[i]
          /\ g[Len(k) + 1] = n + 1
      BY <1>1, <2>2
    <2> HIDE DEF m, g
    <2>4. \A i \in 1 .. Len(m) : i \in 1 .. Len(k) \/ i = Len(k) + 1
      BY <1>1, <2>1
    <2>5. \A i \in 1 .. Len(m) : m[i] = s[g[i]]
      BY <2>1, <2>3, <2>4 DEF IsPart
    <2>6. \A i, j \in 1 .. Len(m) : i < j => g[i] < g[j]
      <3> SUFFICES ASSUME NEW i \in 1 .. Len(m), NEW j \in 1 .. Len(m), i < j
                   PROVE  g[i] < g[j]
        OBVIOUS
      <3>1. i \in 1 .. Len(k)
        BY <1>1, <2>1
      <3>2. CASE j \in 1 .. Len(k)
        BY <2>3, <3>1, <3>2 DEF IsPart
      <3>3. CASE j = Len(k) + 1
        <4>1. h[i] \in 1 .. n /\ g[i] = h[i] /\ g[j] = n + 1
          BY <2>2, <2>3, <3>1, <3>3
        <4> QED
          BY <4>1
      <3> QED
        BY <2>4, <3>2, <3>3
    <2>7. \A j \in 1 .. n + 1 : s[j] \in S <=> \E i \in 1 .. Len(m) : g[i] = j
      <3> SUFFICES ASSUME NEW j \in 1 .. n + 1
                   PROVE  s[j] \in S <=> \E i \in 1 .. Len(m) : g[i] = j
        OBVIOUS
      <3>1. CASE j = n + 1
        <4>1. Len(k) + 1 \in 1 .. Len(m)
          BY <1>1, <2>1
        <4> QED
          BY <1>3, <2>3, <3>1, <4>1
      <3>2. CASE j \in 1 .. n
        <4>1. s[j] \in S <=> \E i \in 1 .. Len(k) : h[i] = j
          BY <3>2 DEF IsPart
        <4>2. j # n + 1 /\ 1 .. Len(k) \subseteq 1 .. Len(m)
          BY <1>1, <2>1, <3>2
        <4> QED
          BY <2>3, <2>4, <4>1, <4>2
      <3> QED
        BY <3>1, <3>2
    <2>8. IsPart(m, s, n + 1, S, g)
      BY <2>1, <2>3, <2>5, <2>6, <2>7 DEF IsPart
    <2> QED
      BY <2>1, <2>8 DEF m
  <1> QED
    BY <1>2, <1>3

LEMMA KeptIsPart ==
    ASSUME NEW T, NEW S, NEW s \in Seq(T)
    PROVE  Kept(s, S) \in Seq(T) /\ \E h : IsPart(Kept(s, S), s, Len(s), S, h)
  <1>1. Len(s) \in Nat
    OBVIOUS
  <1>2. PICK f : /\ f = [n \in 0 .. Len(s) |->
                              IF n = 0 THEN <<>>
                              ELSE IF s[n] \in S THEN Append(f[n - 1], s[n]) ELSE f[n - 1]]
                 /\ Kept(s, S) = f[Len(s)]
    BY <1>1, KeptFunction
  <1>3. /\ f[0] = <<>>
        /\ \A n \in 1 .. Len(s) :
              f[n] = IF s[n] \in S THEN Append(f[n - 1], s[n]) ELSE f[n - 1]
    <2>1. \A n \in 0 .. Len(s) :
             f[n] = IF n = 0 THEN <<>>
                    ELSE IF s[n] \in S THEN Append(f[n - 1], s[n]) ELSE f[n - 1]
      BY <1>2
    <2>2. 0 \in 0 .. Len(s) /\ \A n \in 1 .. Len(s) : n \in 0 .. Len(s) /\ n # 0
      BY <1>1
    <2> QED
      BY <2>1, <2>2
  <1> DEFINE Good(n) == f[n] \in Seq(T) /\ \E h : IsPart(f[n], s, n, S, h)
             P == {n \in Nat : n <= Len(s) => Good(n)}
  <1>4. 0 \in P
    <2>1. IsPart(<<>>, s, 0, S, <<>>)
      BY DEF IsPart
    <2>2. <<>> \in Seq(T)
      BY EmptySeq
    <2> QED
      BY <1>3, <2>1, <2>2
  <1>5. ASSUME NEW n \in Nat, n \in P PROVE n + 1 \in P
    <2> SUFFICES ASSUME n + 1 <= Len(s) PROVE Good(n + 1)
      OBVIOUS
    <2>1. Good(n)
      BY <1>1, <1>5
    <2>2. PICK h : IsPart(f[n], s, n, S, h)
      BY <2>1
    <2>3. f[n + 1] = IF s[n + 1] \in S THEN Append(f[n], s[n + 1]) ELSE f[n]
      <3>1. n + 1 \in 1 .. Len(s) /\ (n + 1) - 1 = n
        BY <1>1
      <3> QED
        BY <1>3, <3>1
    <2>4. f[n] \in Seq(T)
      BY <2>1
    <2>5. /\ s[n + 1] \in S => /\ Append(f[n], s[n + 1]) \in Seq(T)
                               /\ \E g : IsPart(Append(f[n], s[n + 1]), s, n + 1, S, g)
          /\ s[n + 1] \notin S => IsPart(f[n], s, n + 1, S, h)
      BY <2>2, <2>4, PartGrows
    <2> QED
      BY <2>3, <2>4, <2>5
  <1>6. Len(s) \in P
    <2> HIDE DEF P
    <2> QED
      BY <1>1, <1>4, <1>5, Induction
  <1> QED
    BY <1>1, <1>2, <1>6

LEMMA KeptWhole ==
    ASSUME NEW T, NEW S, NEW s \in Seq(T), \A i \in 1 .. Len(s) : s[i] \in S
    PROVE  Kept(s, S) = s
  <1>1. Len(s) \in Nat
    OBVIOUS
  <1>2. PICK f : /\ f = [n \in 0 .. Len(s) |->
                              IF n = 0 THEN <<>>
                              ELSE IF s[n] \in S THEN Append(f[n - 1], s[n]) ELSE f[n - 1]]
                 /\ Kept(s, S) = f[Len(s)]
    BY <1>1, KeptFunction
  <1>3. /\ f[0] = <<>>
        /\ \A n \in 1 .. Len(s) : f[n] = Append(f[n - 1], s[n])
    <2>1. \A n \in 0 .. Len(s) :
             f[n] = IF n = 0 THEN <<>>
                    ELSE IF s[n] \in S THEN Append(f[n - 1], s[n]) ELSE f[n - 1]
      BY <1>2
    <2>2. 0 \in 0 .. Len(s) /\ \A n \in 1 .. Len(s) : n \in 0 .. Len(s) /\ n # 0
      BY <1>1
    <2> QED
      BY <2>1, <2>2
  <1> DEFINE Good(n) == /\ f[n] \in Seq(T) /\ Len(f[n]) = n
                        /\ \A i \in 1 .. n : f[n][i] = s[i]
             P == {n \in Nat : n <= Len(s) => Good(n)}
  <1>4. 0 \in P
    <2>1. f[0] \in Seq(T) /\ Len(f[0]) = 0
      BY <1>3, EmptySeq
    <2> QED
      BY <2>1
  <1>5. ASSUME NEW n \in Nat, n \in P PROVE n + 1 \in P
    <2> SUFFICES ASSUME n + 1 <= Len(s) PROVE Good(n + 1)
      OBVIOUS
    <2>1. Good(n)
      BY <1>1, <1>5
    <2>2. f[n + 1] = Append(f[n], s[n + 1]) /\ s[n + 1] \in T
      <3>1. n + 1 \in 1 .. Len(s) /\ (n + 1) - 1 = n
        BY <1>1
      <3> QED
        BY <1>3, <3>1, ElementOfSeq
    <2>3. /\ Append(f[n], s[n + 1]) \in Seq(T)
          /\ Len(Append(f[n], s[n + 1])) = n + 1
          /\ \A i \in 1 .. n : Append(f[n], s[n + 1])[i] = f[n][i]
          /\ Append(f[n], s[n + 1])[n + 1] = s[n + 1]
      BY <2>1, <2>2, AppendProperties
    <2> QED
      BY <2>1, <2>2, <2>3
  <1>6. Len(s) \in P
    <2> HIDE DEF P
    <2> QED
      BY <1>1, <1>4, <1>5, Induction
  <1>7. Good(Len(s))
    BY <1>1, <1>6
  <1> QED
    BY <1>2, <1>7, SeqEqual

LEMMA KeptRange ==
    ASSUME NEW T, NEW S, NEW s \in Seq(T)
    PROVE  /\ Range(Kept(s, S)) = Range(s) \cap S
           /\ IsInjective(s) => IsInjective(Kept(s, S))
  <1>1. PICK k \in Seq(T) : k = Kept(s, S)
    BY KeptIsPart
  <1>2. PICK h : IsPart(k, s, Len(s), S, h)
    BY <1>1, KeptIsPart
  <1>3. DOMAIN k = 1 .. Len(k) /\ DOMAIN s = 1 .. Len(s) /\ Len(k) \in Nat /\ Len(s) \in Nat
    OBVIOUS
  <1>4. Range(k) \subseteq Range(s) \cap S
    BY <1>2, <1>3 DEF IsPart, Range
  <1>5. Range(s) \cap S \subseteq Range(k)
    BY <1>2, <1>3 DEF IsPart, Range
  <1>6. IsInjective(s) => IsInjective(k)
    BY <1>2, <1>3 DEF IsPart, IsInjective
  <1> QED
    BY <1>1, <1>4, <1>5, <1>6

-----------------------------------------------------------------------------
(* The waiting room: in each lane every actor with a queue has one turn.    *)
RoomShape(r) ==
    /\ r \in Lanes
    /\ \A p \in Priority : IsInjective(r.order[p])
    /\ \A p \in Priority, a \in Actor : a \in Range(r.order[p]) <=> r.items[p][a] # <<>>

LEMMA RoomTypes ==
    ASSUME NEW r, RoomShape(r)
    PROVE  /\ \A p \in Priority : r.order[p] \in Seq(Actor)
           /\ \A p \in Priority, a \in Actor : r.items[p][a] \in Seq(Work)
           /\ r.order \in [Priority -> Seq(Actor)]
           /\ r.items \in [Priority -> [Actor -> Seq(Work)]]
           /\ r = [order |-> r.order, items |-> r.items]
  BY DEF RoomShape, Lanes

LEMMA EmptyRoom == RoomShape(EmptyLanes)
  <1>1. \A S : <<>> \in Seq(S)
    BY EmptySeq
  <1>2. EmptyLanes \in Lanes
    BY <1>1 DEF EmptyLanes, Lanes
  <1>3. DOMAIN <<>> = {}
    OBVIOUS
  <1> QED
    BY <1>2, <1>3 DEF RoomShape, EmptyLanes, IsInjective, Range

LEMMA AppendNew ==
    ASSUME NEW T, NEW s \in Seq(T), NEW e \in T
    PROVE  /\ Range(Append(s, e)) = Range(s) \cup {e}
           /\ IsInjective(s) /\ e \notin Range(s) => IsInjective(Append(s, e))
  <1> DEFINE n == Append(s, e)
  <1>1. /\ n \in Seq(T) /\ Len(n) = Len(s) + 1 /\ Len(s) \in Nat
        /\ \A i \in 1 .. Len(s) : n[i] = s[i]
        /\ n[Len(s) + 1] = e
    BY AppendProperties
  <1> HIDE DEF n
  <1>2. DOMAIN n = 1 .. Len(s) + 1 /\ DOMAIN s = 1 .. Len(s)
    BY <1>1
  <1>3. \A i \in DOMAIN n : i \in DOMAIN s \/ i = Len(s) + 1
    BY <1>1, <1>2
  <1>4. Len(s) + 1 \in DOMAIN n /\ DOMAIN s \subseteq DOMAIN n
    BY <1>1, <1>2
  <1>5. Range(n) = Range(s) \cup {e}
    BY <1>1, <1>2, <1>3, <1>4 DEF Range
  <1>6. ASSUME IsInjective(s), e \notin Range(s) PROVE IsInjective(n)
    BY <1>1, <1>2, <1>3, <1>6 DEF IsInjective, Range
  <1> QED
    BY <1>5, <1>6 DEF n

LEMMA TailOf ==
    ASSUME NEW T, NEW s \in Seq(T), s # <<>>, IsInjective(s)
    PROVE  /\ Head(s) \in Range(s) /\ Head(s) \in T
           /\ Tail(s) \in Seq(T) /\ IsInjective(Tail(s))
           /\ Range(Tail(s)) = Range(s) \ {Head(s)}
  <1>1. /\ Len(s) \in Nat /\ Len(s) > 0 /\ Head(s) = s[1] /\ Tail(s) \in Seq(T)
        /\ Len(Tail(s)) = Len(s) - 1 /\ Head(s) \in T
        /\ \A i \in 1 .. Len(s) - 1 : Tail(s)[i] = s[i + 1]
    BY HeadTailProperties, EmptySeq
  <1>2. DOMAIN Tail(s) = 1 .. Len(s) - 1 /\ DOMAIN s = 1 .. Len(s)
    BY <1>1
  <1>3. \A i \in 1 .. Len(s) - 1 : i + 1 \in DOMAIN s /\ i + 1 # 1
    BY <1>1, <1>2
  <1>4. \A i \in DOMAIN s : i = 1 \/ (i - 1 \in 1 .. Len(s) - 1 /\ (i - 1) + 1 = i)
    BY <1>1, <1>2
  <1>5. 1 \in DOMAIN s
    BY <1>1, <1>2
  <1>6. Head(s) \in Range(s)
    BY <1>1, <1>5 DEF Range
  <1>7. IsInjective(Tail(s))
    BY <1>1, <1>2, <1>3 DEF IsInjective
  <1>8. Range(Tail(s)) \subseteq Range(s) \ {Head(s)}
    BY <1>1, <1>2, <1>3, <1>5 DEF IsInjective, Range
  <1>9. Range(s) \ {Head(s)} \subseteq Range(Tail(s))
    BY <1>1, <1>2, <1>4 DEF Range
  <1> QED
    BY <1>1, <1>6, <1>7, <1>8, <1>9

LEMMA EnqueuedIs ==
    ASSUME NEW r, RoomShape(r), NEW w \in Work
    PROVE  LET n == Enqueued(r, w)
               p == PriorityOf[w]
               a == ActorOf[w]
           IN  /\ RoomShape(n)
               /\ \A q \in Priority, b \in Actor :
                     n.items[q][b] = IF q = p /\ b = a THEN Append(r.items[q][b], w)
                                     ELSE r.items[q][b]
               /\ \A q \in Priority :
                     n.order[q] = IF q = p /\ r.items[p][a] = <<>>
                                  THEN Append(r.order[q], a) ELSE r.order[q]
  <1> DEFINE n == Enqueued(r, w)
             p == PriorityOf[w]
             a == ActorOf[w]
  <1>1. p \in Priority /\ a \in Actor
    BY DispatchAssumption
  <1>2. /\ \A q \in Priority : r.order[q] \in Seq(Actor)
        /\ \A q \in Priority, b \in Actor : r.items[q][b] \in Seq(Work)
        /\ r.order \in [Priority -> Seq(Actor)]
        /\ r.items \in [Priority -> [Actor -> Seq(Work)]]
    BY RoomTypes
  <1>3. /\ n.items = [r.items EXCEPT ![p][a] = Append(@, w)]
        /\ n.order = IF r.items[p][a] = <<>> THEN [r.order EXCEPT ![p] = Append(@, a)]
                     ELSE r.order
        /\ n = [order |-> n.order, items |-> n.items]
    BY DEF Enqueued
  <1>4. Append(r.items[p][a], w) \in Seq(Work) /\ Append(r.order[p], a) \in Seq(Actor)
    BY <1>1, <1>2, AppendProperties
  <1>5. Append(r.items[p][a], w) # <<>>
    <2>1. PICK s \in Seq(Work) : s = r.items[p][a]
      BY <1>1, <1>2
    <2>2. Append(s, w) # <<>>
      BY AppendProperties
    <2> QED
      BY <2>1, <2>2
  <1> HIDE DEF n, p, a
  <1>6. /\ \A q \in Priority, b \in Actor :
              n.items[q][b] = IF q = p /\ b = a THEN Append(r.items[q][b], w)
                              ELSE r.items[q][b]
        /\ n.items \in [Priority -> [Actor -> Seq(Work)]]
    BY <1>1, <1>2, <1>3, <1>4
  <1>7. /\ \A q \in Priority :
              n.order[q] = IF q = p /\ r.items[p][a] = <<>>
                           THEN Append(r.order[q], a) ELSE r.order[q]
        /\ n.order \in [Priority -> Seq(Actor)]
    BY <1>1, <1>2, <1>3, <1>4
  <1>8. n \in Lanes
    BY <1>3, <1>6, <1>7 DEF Lanes
  <1>9. r.items[p][a] = <<>> => /\ Range(Append(r.order[p], a)) = Range(r.order[p]) \cup {a}
                                /\ IsInjective(Append(r.order[p], a))
    <2>1. IsInjective(r.order[p]) /\ r.order[p] \in Seq(Actor)
      BY <1>1, <1>2 DEF RoomShape
    <2>2. r.items[p][a] = <<>> => a \notin Range(r.order[p])
      BY <1>1 DEF RoomShape
    <2> QED
      BY <1>1, <2>1, <2>2, AppendNew
  <1>10. ASSUME NEW q \in Priority PROVE IsInjective(n.order[q])
    BY <1>7, <1>9 DEF RoomShape
  <1>11. ASSUME NEW q \in Priority, NEW b \in Actor
         PROVE  b \in Range(n.order[q]) <=> n.items[q][b] # <<>>
    <2>1. b \in Range(r.order[q]) <=> r.items[q][b] # <<>>
      BY DEF RoomShape
    <2>2. n.items[q][b] # <<>> <=> r.items[q][b] # <<>> \/ (q = p /\ b = a)
      BY <1>5, <1>6
    <2>3. CASE q = p /\ r.items[p][a] = <<>>
      BY <1>7, <1>9, <2>1, <2>2, <2>3
    <2>4. CASE ~(q = p /\ r.items[p][a] = <<>>)
      BY <1>7, <2>1, <2>2, <2>4
    <2> QED
      BY <2>3, <2>4
  <1> QED
    BY <1>6, <1>7, <1>8, <1>10, <1>11 DEF RoomShape, n, p, a

(* n is r without what is in gone: queues and turns keep their order.       *)
IsWithout(n, r, gone) ==
    /\ \A q \in Priority, b \in Actor :
          /\ n.items[q][b] = Kept(r.items[q][b], Work \ gone)
          /\ n.items[q][b] # <<>> => r.items[q][b] # <<>>
    /\ \A q \in Priority : \E kept :
          /\ \A b \in Actor : b \in kept <=> n.items[q][b] # <<>>
          /\ n.order[q] = Kept(r.order[q], kept)

LEMMA WithoutIs ==
    ASSUME NEW r, RoomShape(r), NEW gone, NEW n, n = Without(r, gone)
    PROVE  RoomShape(n) /\ IsWithout(n, r, gone)
  <1>1. /\ \A q \in Priority : r.order[q] \in Seq(Actor)
        /\ \A q \in Priority, b \in Actor : r.items[q][b] \in Seq(Work)
    BY RoomTypes
  <1>2. /\ n.items = [q \in Priority |-> [b \in Actor |-> Kept(r.items[q][b], Work \ gone)]]
        /\ n.order = [q \in Priority |-> Kept(r.order[q], {b \in Actor : n.items[q][b] # <<>>})]
        /\ n = [order |-> n.order, items |-> n.items]
    BY DEF Without
  <1>3. /\ \A q \in Priority, b \in Actor :
              n.items[q][b] = Kept(r.items[q][b], Work \ gone)
        /\ \A q \in Priority :
              n.order[q] = Kept(r.order[q], {b \in Actor : n.items[q][b] # <<>>})
    BY <1>2
  <1>4. \A q \in Priority, b \in Actor : n.items[q][b] \in Seq(Work)
    BY <1>1, <1>3, KeptIsPart
  <1>5. \A q \in Priority : n.order[q] \in Seq(Actor)
    BY <1>1, <1>3, KeptIsPart
  <1>6. n \in Lanes
    BY <1>2, <1>4, <1>5 DEF Lanes
  <1>7. ASSUME NEW q \in Priority
        PROVE  /\ IsInjective(n.order[q])
               /\ Range(n.order[q]) = Range(r.order[q]) \cap {b \in Actor : n.items[q][b] # <<>>}
    <2>1. PICK kept : kept = {b \in Actor : n.items[q][b] # <<>>}
      OBVIOUS
    <2>2. r.order[q] \in Seq(Actor) /\ IsInjective(r.order[q])
      BY <1>1 DEF RoomShape
    <2>3. n.order[q] = Kept(r.order[q], kept)
      BY <1>3, <2>1
    <2> QED
      BY <2>1, <2>2, <2>3, KeptRange
  <1>8. ASSUME NEW q \in Priority, NEW b \in Actor, n.items[q][b] # <<>>
        PROVE  r.items[q][b] # <<>>
    <2>1. PICK s \in Seq(Work) : s = <<>> /\ Len(s) = 0
      BY EmptySeq
    <2>2. \A i \in 1 .. Len(s) : s[i] \in Work \ gone
      BY <2>1
    <2>3. Kept(s, Work \ gone) = s
      BY <2>2, KeptWhole
    <2> QED
      BY <1>3, <1>8, <2>1, <2>3
  <1>9. ASSUME NEW q \in Priority, NEW b \in Actor
        PROVE  b \in Range(n.order[q]) <=> n.items[q][b] # <<>>
    BY <1>7, <1>8 DEF RoomShape
  <1>10. ASSUME NEW q \in Priority
         PROVE  \E kept : /\ \A b \in Actor : b \in kept <=> n.items[q][b] # <<>>
                          /\ n.order[q] = Kept(r.order[q], kept)
    <2>1. PICK kept : kept = {b \in Actor : n.items[q][b] # <<>>}
      OBVIOUS
    <2> QED
      BY <1>3, <2>1
  <1> QED
    BY <1>3, <1>6, <1>7, <1>8, <1>9, <1>10 DEF RoomShape, IsWithout

LEMMA WithoutNothing ==
    ASSUME NEW r, RoomShape(r), NEW gone, gone \cap QueuedIn(r) = {}
    PROVE  Without(r, gone) = r
  <1>0. PICK n : n = Without(r, gone)
    OBVIOUS
  <1>1. /\ \A q \in Priority : r.order[q] \in Seq(Actor)
        /\ \A q \in Priority, b \in Actor : r.items[q][b] \in Seq(Work)
        /\ r.order \in [Priority -> Seq(Actor)]
        /\ r.items \in [Priority -> [Actor -> Seq(Work)]]
        /\ r = [order |-> r.order, items |-> r.items]
    BY RoomTypes
  <1>2. RoomShape(n) /\ IsWithout(n, r, gone)
    BY <1>0, WithoutIs
  <1>3. /\ n.order \in [Priority -> Seq(Actor)]
        /\ n.items \in [Priority -> [Actor -> Seq(Work)]]
        /\ n = [order |-> n.order, items |-> n.items]
    BY <1>2, RoomTypes
  <1>4. ASSUME NEW q \in Priority, NEW b \in Actor
        PROVE  n.items[q][b] = r.items[q][b]
    <2>1. PICK s \in Seq(Work) : s = r.items[q][b]
      BY <1>1
    <2>2. Range(s) \subseteq QueuedIn(r)
      BY <2>1 DEF QueuedIn
    <2>3. \A i \in 1 .. Len(s) : s[i] \in Work /\ s[i] \in Range(s)
      BY ElementOfSeq, LenProperties DEF Range
    <2>4. \A i \in 1 .. Len(s) : s[i] \in Work \ gone
      BY <2>2, <2>3
    <2>5. Kept(s, Work \ gone) = s
      BY <2>4, KeptWhole
    <2> QED
      BY <1>2, <2>1, <2>5 DEF IsWithout
  <1>5. ASSUME NEW q \in Priority PROVE n.order[q] = r.order[q]
    <2>1. PICK s \in Seq(Actor) : s = r.order[q]
      BY <1>1
    <2>2. PICK kept : /\ \A b \in Actor : b \in kept <=> n.items[q][b] # <<>>
                      /\ n.order[q] = Kept(r.order[q], kept)
      BY <1>2 DEF IsWithout
    <2>3. \A i \in 1 .. Len(s) : s[i] \in Actor /\ s[i] \in Range(s)
      BY ElementOfSeq, LenProperties DEF Range
    <2>4. \A i \in 1 .. Len(s) : s[i] \in kept
      BY <1>4, <2>1, <2>2, <2>3 DEF RoomShape
    <2>5. Kept(s, kept) = s
      BY <2>4, KeptWhole
    <2> QED
      BY <2>1, <2>2, <2>5
  <1>6. n.order = r.order /\ n.items = r.items
    BY <1>1, <1>3, <1>4, <1>5
  <1> QED
    BY <1>0, <1>1, <1>3, <1>6

LEMMA Positions ==
    /\ Len(DispatchPattern) \in Nat
    /\ \A k \in 1 .. Len(DispatchPattern) :
          DispatchPattern[k] \in Priority /\ Cycle(k) = k
    /\ \A k \in 1 .. 2 * Len(DispatchPattern) : Cycle(k) \in 1 .. Len(DispatchPattern)
    /\ \A k \in 1 .. Len(DispatchPattern) : Cycle(k + Len(DispatchPattern)) = k
  BY DispatchAssumption, ElementOfSeq DEF Cycle

(* From any position on, a lane that is not empty is found in one round.    *)
LEMMA FoundIs ==
    ASSUME NEW r, NEW i \in 1 .. Len(DispatchPattern),
           NEW p \in Priority, r.order[p] # <<>>
    PROVE  LET k == PositionFound(r, i)
           IN  /\ k \in i .. (i + Len(DispatchPattern) - 1)
               /\ Serves(r, k)
               /\ \A j \in i .. (k - 1) : ~Serves(r, j)
               /\ NextLane(r, i) \in Priority /\ r.order[NextLane(r, i)] # <<>>
               /\ IndexAfterTake(r, i) \in 1 .. Len(DispatchPattern)
  <1> DEFINE L == Len(DispatchPattern)
             Served == {k \in Nat : k \in i .. (i + L - 1) /\ Serves(r, k)}
  <1>1. L \in Nat /\ i \in Nat
    BY Positions
  <1>2. PICK q \in 1 .. L : DispatchPattern[q] = p
    BY DispatchAssumption
  <1>3. \E k \in i .. (i + L - 1) : Serves(r, k)
    <2>1. CASE q >= i
      <3>1. q \in i .. (i + L - 1) /\ Cycle(q) = q
        BY <1>1, <2>1, Positions
      <3> QED
        BY <1>2, <3>1 DEF Serves
    <2>2. CASE q < i
      <3>1. q + L \in i .. (i + L - 1) /\ Cycle(q + L) = q
        BY <1>1, <2>2, Positions
      <3> QED
        BY <1>2, <3>1 DEF Serves
    <2> QED
      BY <1>1, <2>1, <2>2
  <1>4. Served \subseteq Nat /\ Served # {}
    BY <1>1, <1>3
  <1>5. PICK k \in Served : \A j \in Served : ~ (<<j, k>> \in OpToRel(<, Nat))
    <2> HIDE DEF Served
    <2> QED
      BY <1>4, WFMin, NatLessThanWellFounded
  <1>6. k \in i .. (i + L - 1) /\ Serves(r, k)
    OBVIOUS
  <1>7. \A j \in i .. (k - 1) : ~Serves(r, j)
    <2> SUFFICES ASSUME NEW j \in i .. (k - 1), Serves(r, j) PROVE FALSE
      OBVIOUS
    <2>1. j \in Nat /\ k \in Nat /\ j < k /\ j \in i .. (i + L - 1)
      BY <1>1, <1>6
    <2>2. j \in Served
      BY <2>1
    <2>3. <<j, k>> \in OpToRel(<, Nat)
      BY <2>1 DEF OpToRel
    <2> QED
      BY <1>5, <2>2, <2>3
  <1>8. PICK f : f = PositionFound(r, i)
    OBVIOUS
  <1>9. /\ f \in i .. (i + L - 1) /\ Serves(r, f)
        /\ \A j \in i .. (f - 1) : ~Serves(r, j)
    BY <1>6, <1>7, <1>8 DEF PositionFound
  <1>10. f \in 1 .. 2 * L /\ f + 1 \in 1 .. 2 * L
    BY <1>1, <1>9
  <1>11. Cycle(f) \in 1 .. L /\ Cycle(f + 1) \in 1 .. L
    BY <1>10, Positions
  <1>12. DispatchPattern[Cycle(f)] \in Priority
    BY <1>11, Positions
  <1> QED
    BY <1>8, <1>9, <1>11, <1>12 DEF NextLane, IndexAfterTake, Serves

LEMMA TakeIs ==
    ASSUME NEW r, RoomShape(r), NEW i \in 1 .. Len(DispatchPattern),
           NEW q \in Priority, r.order[q] # <<>>
    PROVE  LET n == AfterTake(r, i)
               p == NextLane(r, i)
               a == NextActor(r, i)
           IN  /\ RoomShape(n)
               /\ p \in Priority /\ a \in Actor /\ a \in Range(r.order[p])
               /\ r.items[p][a] # <<>>
               /\ \A o \in Priority, b \in Actor :
                     n.items[o][b] = IF o = p /\ b = a THEN Tail(r.items[p][a])
                                     ELSE r.items[o][b]
               /\ \A o \in Priority :
                     n.order[o] = IF o # p THEN r.order[o]
                                  ELSE IF Tail(r.items[p][a]) = <<>> THEN Tail(r.order[p])
                                  ELSE Append(Tail(r.order[p]), a)
  <1> DEFINE n == AfterTake(r, i)
             p == NextLane(r, i)
             a == NextActor(r, i)
             rest == Tail(r.items[p][a])
             next == IF rest = <<>> THEN Tail(r.order[p]) ELSE Append(Tail(r.order[p]), a)
  <1>1. p \in Priority /\ r.order[p] # <<>>
    BY FoundIs
  <1>2. /\ \A o \in Priority : r.order[o] \in Seq(Actor)
        /\ \A o \in Priority, b \in Actor : r.items[o][b] \in Seq(Work)
        /\ r.order \in [Priority -> Seq(Actor)]
        /\ r.items \in [Priority -> [Actor -> Seq(Work)]]
    BY RoomTypes
  <1>3. a = Head(r.order[p])
    BY DEF NextActor
  <1>4. /\ n.items = [r.items EXCEPT ![p][a] = rest]
        /\ n.order = [r.order EXCEPT ![p] = next]
        /\ n = [order |-> n.order, items |-> n.items]
    BY DEF AfterTake
  <1> HIDE DEF n, p, a
  <1>5. /\ a \in Range(r.order[p]) /\ a \in Actor
        /\ Tail(r.order[p]) \in Seq(Actor) /\ IsInjective(Tail(r.order[p]))
        /\ Range(Tail(r.order[p])) = Range(r.order[p]) \ {a}
    <2>1. IsInjective(r.order[p]) /\ r.order[p] \in Seq(Actor)
      BY <1>1, <1>2 DEF RoomShape
    <2> QED
      BY <1>1, <1>3, <2>1, TailOf
  <1>6. r.items[p][a] # <<>> /\ r.items[p][a] \in Seq(Work)
    BY <1>1, <1>2, <1>5 DEF RoomShape
  <1>7. rest \in Seq(Work)
    BY <1>6, HeadTailProperties
  <1> HIDE DEF rest
  <1>8. /\ next \in Seq(Actor) /\ IsInjective(next)
        /\ Range(next) = IF rest = <<>> THEN Range(r.order[p]) \ {a} ELSE Range(r.order[p])
    <2>1. PICK t \in Seq(Actor) : t = Tail(r.order[p])
      BY <1>5
    <2>2. IsInjective(t) /\ Range(t) = Range(r.order[p]) \ {a} /\ a \notin Range(t)
      BY <1>5, <2>1
    <2>3. /\ Append(t, a) \in Seq(Actor) /\ IsInjective(Append(t, a))
          /\ Range(Append(t, a)) = Range(t) \cup {a}
      BY <1>5, <2>2, AppendNew, AppendProperties
    <2> QED
      BY <1>5, <2>1, <2>2, <2>3
  <1> HIDE DEF next
  <1>9. /\ \A o \in Priority, b \in Actor :
              n.items[o][b] = IF o = p /\ b = a THEN rest ELSE r.items[o][b]
        /\ n.items \in [Priority -> [Actor -> Seq(Work)]]
    <2>1. r.items[p] \in [Actor -> Seq(Work)]
      BY <1>1, <1>2
    <2>2. n.items = [r.items EXCEPT ![p] = [r.items[p] EXCEPT ![a] = rest]]
      BY <1>1, <1>2, <1>4
    <2>3. [r.items[p] EXCEPT ![a] = rest] \in [Actor -> Seq(Work)]
      BY <1>7, <2>1
    <2>4. n.items \in [Priority -> [Actor -> Seq(Work)]]
      BY <1>1, <1>2, <2>2, <2>3
    <2>5. n.items[p] = [r.items[p] EXCEPT ![a] = rest]
      BY <1>1, <1>2, <2>2
    <2>6. \A o \in Priority : o # p => n.items[o] = r.items[o]
      BY <1>2, <2>2
    <2>7. \A b \in Actor : n.items[p][b] = IF b = a THEN rest ELSE r.items[p][b]
      BY <1>5, <2>1, <2>5
    <2> QED
      BY <2>4, <2>6, <2>7
  <1>10. /\ \A o \in Priority : n.order[o] = IF o = p THEN next ELSE r.order[o]
         /\ n.order \in [Priority -> Seq(Actor)]
    BY <1>1, <1>2, <1>4, <1>8
  <1>11. n \in Lanes
    BY <1>4, <1>9, <1>10 DEF Lanes
  <1>12. ASSUME NEW o \in Priority PROVE IsInjective(n.order[o])
    BY <1>8, <1>10 DEF RoomShape
  <1>13. ASSUME NEW o \in Priority, NEW b \in Actor
         PROVE  b \in Range(n.order[o]) <=> n.items[o][b] # <<>>
    <2>1. b \in Range(r.order[o]) <=> r.items[o][b] # <<>>
      BY DEF RoomShape
    <2>2. CASE o = p
      BY <1>6, <1>8, <1>9, <1>10, <2>1, <2>2
    <2>3. CASE o # p
      BY <1>9, <1>10, <2>1, <2>3
    <2> QED
      BY <2>2, <2>3
  <1>14. RoomShape(n)
    BY <1>11, <1>12, <1>13 DEF RoomShape
  <1> QED
    BY <1>1, <1>5, <1>6, <1>9, <1>10, <1>14 DEF n, p, a, rest, next
-----------------------------------------------------------------------------
(* What waits in the room: each invocation of W once, in the queue of its   *)
(* own lane and actor.                                                      *)
Holds(r, W) ==
    \A p \in Priority, a \in Actor :
        /\ IsInjective(r.items[p][a])
        /\ Range(r.items[p][a]) = {w \in W : PriorityOf[w] = p /\ ActorOf[w] = a}

LEMMA EmptyHolds == Holds(EmptyLanes, {})
  <1>1. IsInjective(<<>>) /\ Range(<<>>) = {}
    BY DEF IsInjective, Range
  <1> QED
    BY <1>1 DEF Holds, EmptyLanes

LEMMA HeldIsQueued ==
    ASSUME NEW r, RoomShape(r), NEW W \in SUBSET Work, Holds(r, W)
    PROVE  /\ QueuedIn(r) = W
           /\ W # {} => \E q \in Priority : r.order[q] # <<>>
  <1>1. \A w \in W : PriorityOf[w] \in Priority /\ ActorOf[w] \in Actor
    BY DispatchAssumption
  <1>2. \A w \in W : w \in Range(r.items[PriorityOf[w]][ActorOf[w]])
    BY <1>1 DEF Holds
  <1>3. W \subseteq QueuedIn(r)
    BY <1>1, <1>2 DEF QueuedIn
  <1>4. QueuedIn(r) \subseteq W
    BY DEF Holds, QueuedIn
  <1>5. ASSUME NEW w \in W PROVE \E q \in Priority : r.order[q] # <<>>
    <2>1. r.items[PriorityOf[w]][ActorOf[w]] # <<>>
      <3>1. Range(<<>>) = {}
        BY DEF Range
      <3> QED
        BY <1>2, <3>1
    <2>2. ActorOf[w] \in Range(r.order[PriorityOf[w]])
      BY <1>1, <2>1 DEF RoomShape
    <2> QED
      BY <1>1, <2>2 DEF Range
  <1> QED
    BY <1>3, <1>4, <1>5

LEMMA EnqueuedHolds ==
    ASSUME NEW r, RoomShape(r), NEW W \in SUBSET Work, Holds(r, W),
           NEW w \in Work, w \notin W
    PROVE  Holds(Enqueued(r, w), W \cup {w})
  <1>1. PICK n : n = Enqueued(r, w)
    OBVIOUS
  <1>2. PICK p \in Priority, a \in Actor : p = PriorityOf[w] /\ a = ActorOf[w]
    BY DispatchAssumption
  <1>3. \A q \in Priority, b \in Actor :
           n.items[q][b] = IF q = p /\ b = a THEN Append(r.items[q][b], w)
                           ELSE r.items[q][b]
    BY <1>1, <1>2, EnqueuedIs
  <1>4. ASSUME NEW q \in Priority, NEW b \in Actor
        PROVE  /\ IsInjective(n.items[q][b])
               /\ Range(n.items[q][b]) =
                    {v \in W \cup {w} : PriorityOf[v] = q /\ ActorOf[v] = b}
    <2>1. PICK s \in Seq(Work) : s = r.items[q][b]
      BY RoomTypes
    <2>2. IsInjective(s) /\ Range(s) = {v \in W : PriorityOf[v] = q /\ ActorOf[v] = b}
      BY <2>1 DEF Holds
    <2>3. w \notin Range(s)
      BY <2>2
    <2>4. CASE q = p /\ b = a
      <3>1. n.items[q][b] = Append(s, w)
        BY <1>3, <2>1, <2>4
      <3>2. IsInjective(Append(s, w)) /\ Range(Append(s, w)) = Range(s) \cup {w}
        BY <2>2, <2>3, AppendNew
      <3> QED
        BY <1>2, <2>2, <2>4, <3>1, <3>2
    <2>5. CASE ~(q = p /\ b = a)
      <3>1. n.items[q][b] = s
        BY <1>3, <2>1, <2>5
      <3> QED
        BY <1>2, <2>2, <2>5, <3>1
    <2> QED
      BY <2>4, <2>5
  <1> QED
    BY <1>1, <1>4 DEF Holds

LEMMA WithoutHolds ==
    ASSUME NEW r, RoomShape(r), NEW W \in SUBSET Work, Holds(r, W), NEW gone
    PROVE  Holds(Without(r, gone), W \ gone)
  <1>1. PICK n : n = Without(r, gone)
    OBVIOUS
  <1>2. IsWithout(n, r, gone)
    BY <1>1, WithoutIs
  <1>3. ASSUME NEW q \in Priority, NEW b \in Actor
        PROVE  /\ IsInjective(n.items[q][b])
               /\ Range(n.items[q][b]) =
                    {v \in W \ gone : PriorityOf[v] = q /\ ActorOf[v] = b}
    <2>1. PICK s \in Seq(Work) : s = r.items[q][b]
      BY RoomTypes
    <2>2. IsInjective(s) /\ Range(s) = {v \in W : PriorityOf[v] = q /\ ActorOf[v] = b}
      BY <2>1 DEF Holds
    <2>3. PICK S : S = Work \ gone
      OBVIOUS
    <2>4. n.items[q][b] = Kept(s, S)
      BY <1>2, <2>1, <2>3 DEF IsWithout
    <2>5. IsInjective(Kept(s, S)) /\ Range(Kept(s, S)) = Range(s) \cap S
      BY <2>2, KeptRange
    <2> QED
      BY <2>2, <2>3, <2>4, <2>5
  <1> QED
    BY <1>1, <1>3 DEF Holds

LEMMA TakeHolds ==
    ASSUME NEW r, RoomShape(r), NEW W \in SUBSET Work, Holds(r, W),
           NEW i \in 1 .. Len(DispatchPattern), W # {}
    PROVE  /\ RoomShape(AfterTake(r, i))
           /\ IndexAfterTake(r, i) \in 1 .. Len(DispatchPattern)
           /\ NextWork(r, i) \in W
           /\ Holds(AfterTake(r, i), W \ {NextWork(r, i)})
  <1>0. PICK q \in Priority : r.order[q] # <<>>
    BY HeldIsQueued
  <1>1. PICK n : n = AfterTake(r, i)
    OBVIOUS
  <1>2. PICK p, a : p = NextLane(r, i) /\ a = NextActor(r, i)
    OBVIOUS
  <1>3. /\ RoomShape(n)
        /\ p \in Priority /\ a \in Actor
        /\ r.items[p][a] # <<>>
        /\ \A o \in Priority, b \in Actor :
              n.items[o][b] = IF o = p /\ b = a THEN Tail(r.items[p][a])
                              ELSE r.items[o][b]
    BY <1>0, <1>1, <1>2, TakeIs
  <1>4. IndexAfterTake(r, i) \in 1 .. Len(DispatchPattern)
    BY <1>0, FoundIs
  <1>5. PICK s \in Seq(Work) : s = r.items[p][a]
    BY <1>3, RoomTypes
  <1>6. IsInjective(s) /\ Range(s) = {v \in W : PriorityOf[v] = p /\ ActorOf[v] = a}
    BY <1>3, <1>5 DEF Holds
  <1>7. PICK w : w = Head(s)
    OBVIOUS
  <1>8. w = NextWork(r, i)
    BY <1>2, <1>5, <1>7 DEF NextWork
  <1>9. w \in Range(s) /\ IsInjective(Tail(s)) /\ Range(Tail(s)) = Range(s) \ {w}
    BY <1>3, <1>5, <1>6, <1>7, TailOf
  <1>10. w \in W /\ PriorityOf[w] = p /\ ActorOf[w] = a
    BY <1>6, <1>9
  <1>11. ASSUME NEW o \in Priority, NEW b \in Actor
         PROVE  /\ IsInjective(n.items[o][b])
                /\ Range(n.items[o][b]) =
                     {v \in W \ {w} : PriorityOf[v] = o /\ ActorOf[v] = b}
    <2>1. CASE o = p /\ b = a
      BY <1>3, <1>5, <1>6, <1>9, <1>10, <2>1
    <2>2. CASE ~(o = p /\ b = a)
      <3>1. n.items[o][b] = r.items[o][b]
        BY <1>3, <2>2
      <3> QED
        BY <1>10, <2>2, <3>1 DEF Holds
    <2> QED
      BY <2>1, <2>2
  <1>12. Holds(n, W \ {w})
    BY <1>11 DEF Holds
  <1> QED
    BY <1>1, <1>3, <1>4, <1>8, <1>10, <1>12
-----------------------------------------------------------------------------
(* What the steps of the scheduler do to its waiting room.                  *)

Adds(w) ==
    /\ w \notin Waiting
    /\ lanes' = Enqueued(Without(lanes, Stale), w) /\ index' = index
    /\ Waiting' = (Waiting \ Stale) \cup {w}

Sweeps ==
    /\ lanes' = Without(lanes, Stale) /\ index' = index
    /\ Waiting' = Waiting \ Stale

Takes ==
    /\ Waiting # {}
    /\ lanes' = AfterTake(lanes, index) /\ index' = IndexAfterTake(lanes, index)
    /\ Waiting' = Waiting \ {NextWork(lanes, index)}

Empties == lanes' = EmptyLanes /\ index' = index /\ Waiting' = {}

Leaves == lanes' = lanes /\ index' = index /\ Waiting' = Waiting

LEMMA RoomMoves ==
    ASSUME SchedulerInv, [Next]_vars
    PROVE  (\E w \in Work : Adds(w)) \/ Sweeps \/ Takes \/ Empties \/ Leaves
  <1>0. life \in [Work -> Lives] /\ ControlTypeOK /\ LifeKept \in [Work -> Lives]
    BY SweepTypes DEF SchedulerInv, ControlTypeOK, Threads
  <1>1. ASSUME NEW w \in Work, Accept(w) PROVE Adds(w)
    <2>1. Waiting' = (Waiting \ Stale) \cup {w}
      BY <1>0, <1>1 DEF Accept, Waiting, LifeKept, Stale
    <2> QED
      BY <1>1, <2>1 DEF Accept, Adds, Waiting, RoomKept
  <1>2. ASSUME NEW w \in Work, Refuse(w) PROVE Sweeps
    <2>1. Waiting' = Waiting \ Stale
      BY <1>0, <1>2 DEF Refuse, Waiting, LifeKept, Stale
    <2> QED
      BY <1>2, <2>1 DEF Refuse, Sweeps, RoomKept
  <1>3. CASE DispatcherCollects \/ Snapshot
    <2>1. Waiting' = Waiting \ Stale
      BY <1>0, <1>3
      DEF DispatcherCollects, Snapshot, CollectStale, Waiting, LifeKept, Stale
    <2> QED
      BY <1>3, <2>1 DEF DispatcherCollects, Snapshot, CollectStale, Sweeps, RoomKept
  <1>4. ASSUME NEW w \in Work, Claim(w) PROVE Takes
    <2>1. w = NextWork(lanes, index) /\ w \in Waiting
      BY <1>4 DEF Claim, Waiting
    <2>2. Waiting' = Waiting \ {w}
      BY <1>0, <1>4 DEF Claim, Waiting
    <2> QED
      BY <1>4, <2>1, <2>2 DEF Claim, Takes
  <1>5. ASSUME NEW w \in Work, DrainUnavailable(w) PROVE Empties
    <2>1. Waiting' = {}
      BY <1>0, <1>5 DEF DrainUnavailable, AllTaken, Waiting
    <2> QED
      BY <1>5, <2>1 DEF DrainUnavailable, TakeAllQueued, Empties
  <1>6. CASE StopAdmission
    <2>1. Waiting' = {}
      BY <1>0, <1>6 DEF StopAdmission, AllTaken, Waiting
    <2> QED
      BY <1>6, <2>1 DEF StopAdmission, TakeAllQueued, Empties
  <1>7. ASSUME NEW w \in Work,
               \/ FinishRefusal(w) \/ Settle(w) \/ StartStep(w) \/ BeginCall(w)
               \/ DeliverOutcome(w) \/ FinishActive(w)
        PROVE  Leaves
    <2>1. Waiting' = Waiting
      BY <1>0, <1>7 DEF FinishRefusal, Settle, StartStep, Start, StartAborted, BeginCall,
                        DeliverOutcome, AfterDelivery, FinishActive, Waiting
    <2> QED
      BY <1>7, <2>1 DEF FinishRefusal, Settle, StartStep, Start, StartAborted, BeginCall,
                        DeliverOutcome, FinishActive, roomVars, Leaves
  <1>8. ASSUME NEW w \in Work, SkipCall(w) \/ ProviderReturns(w) PROVE Leaves
    <2>1. Waiting' = Waiting
      BY <1>0, <1>8 DEF SkipCall, ProviderReturns, EndCall, RecordOutcome, Waiting
    <2> QED
      BY <1>8, <2>1 DEF SkipCall, ProviderReturns, EndCall, RecordOutcome, roomVars, Leaves
  <1>9. ASSUME NEW w \in Work, ClientStep(w) PROVE Leaves
    <2>1. life' = life
      BY <1>9 DEF ClientStep, ClientCancels, RequestCancel, Expire, workVars
    <2> QED
      BY <1>9, <2>1
      DEF ClientStep, ClientCancels, RequestCancel, Expire, roomVars, Leaves, Waiting
  <1>10. CASE DispatcherExits \/ DispatcherWaits \/ WaitTimesOut \/ CooldownElapses
              \/ UNCHANGED vars
    <2>1. life' = life
      BY <1>10 DEF DispatcherExits, DispatcherWaits, WaitTimesOut, CooldownElapses, vars,
                   workVars
    <2> QED
      BY <1>10, <2>1 DEF DispatcherExits, DispatcherWaits, WaitTimesOut, CooldownElapses,
                         vars, roomVars, Leaves, Waiting
  <1> QED
    BY <1>1, <1>2, <1>3, <1>4, <1>5, <1>6, <1>7, <1>8, <1>9, <1>10
    DEF Next, DispatcherStep, CallerStep, RunnerStep

(***************************************************************************)
(* The waiting room and the lives of the invocations agree.                *)
(***************************************************************************)
RoomInv ==
    /\ index \in 1 .. Len(DispatchPattern)
    /\ RoomShape(lanes)
    /\ Holds(lanes, Waiting)

LEMMA RoomInit == Init => RoomInv
  <1>1. Init => Waiting = {}
    BY DEF Init, Waiting
  <1>2. 1 \in 1 .. Len(DispatchPattern)
    BY DispatchAssumption, EmptySeq
  <1> QED
    BY <1>1, <1>2, EmptyRoom, EmptyHolds DEF Init, OrderInit, RoomInv

LEMMA RoomStep == SchedulerInv /\ RoomInv /\ [Next]_vars => RoomInv'
  <1> SUFFICES ASSUME SchedulerInv, RoomInv, [Next]_vars PROVE RoomInv'
    OBVIOUS
  <1>1. Waiting \in SUBSET Work /\ Waiting' \in SUBSET Work
    BY DEF Waiting
  <1>2. PICK r : r = Without(lanes, Stale)
    OBVIOUS
  <1>3. RoomShape(r) /\ Holds(r, Waiting \ Stale)
    BY <1>1, <1>2, WithoutIs, WithoutHolds DEF RoomInv
  <1>4. ASSUME NEW w \in Work, Adds(w) PROVE RoomInv'
    <2>1. RoomShape(Enqueued(r, w))
      BY <1>3, EnqueuedIs
    <2>2. Holds(Enqueued(r, w), (Waiting \ Stale) \cup {w})
      BY <1>1, <1>3, <1>4, EnqueuedHolds DEF Adds
    <2> QED
      BY <1>2, <1>4, <2>1, <2>2 DEF Adds, RoomInv
  <1>5. CASE Sweeps
    BY <1>2, <1>3, <1>5 DEF Sweeps, RoomInv
  <1>6. CASE Takes
    BY <1>1, <1>6, TakeHolds DEF Takes, RoomInv
  <1>7. CASE Empties
    BY <1>7, EmptyRoom, EmptyHolds DEF Empties, RoomInv
  <1>8. CASE Leaves
    BY <1>8 DEF Leaves, RoomInv
  <1> QED
    BY <1>4, <1>5, <1>6, <1>7, <1>8, RoomMoves

(***************************************************************************)
(* Every variable keeps its type, the waiting room included.               *)
(***************************************************************************)
THEOREM SchedulerTypeCorrect == Spec => []TypeOK
  <1>1. SchedulerInv /\ RoomInv => TypeOK
    BY DEF SchedulerInv, RoomInv, RoomShape, TypeOK, RoomTypeOK
  <1> QED
    BY <1>1, SchedulerInit, SchedulerStep, RoomInit, RoomStep, PTL DEF Spec

(***************************************************************************)
(* The waiting room holds what waits and the dispatcher finds it there.    *)
(***************************************************************************)
THEOREM RoomStaysExact == Spec => []RoomExact
  <1>1. ASSUME SchedulerInv, RoomInv, queued > 0 PROVE NextWork(lanes, index) \in Waiting
    <2>1. Waiting \in SUBSET Work /\ queued = Cardinality(Waiting)
      BY <1>1 DEF Waiting, SchedulerInv, CountersExact
    <2>2. Waiting # {}
      BY <1>1, <2>1, FS_EmptySet
    <2> QED
      BY <1>1, <2>1, <2>2, TakeHolds DEF RoomInv
  <1>2. SchedulerInv /\ RoomInv => RoomExact
    BY <1>1 DEF RoomExact, RoomInv, RoomShape, Holds
  <1> QED
    BY <1>2, SchedulerInit, SchedulerStep, RoomInit, RoomStep, PTL DEF Spec

-----------------------------------------------------------------------------
(* The scheduler implements the specification of its waiting room.          *)

LEMMA FollowsInit == Init => OrderInit
  BY DEF Init

LEMMA FollowsStep ==
    ASSUME SchedulerInv, RoomInv, [Next]_vars
    PROVE  [OrderNext]_(orderVars)
  <1>1. Waiting \in SUBSET Work /\ Stale \in SUBSET Waiting
    BY StaleIsQueued
  <1>2. QueuedIn(lanes) = Waiting
    BY <1>1, HeldIsQueued DEF RoomInv
  <1>3. Stale \in SUBSET QueuedIn(lanes)
    BY <1>1, <1>2
  <1>4. ASSUME NEW w \in Work, Adds(w) PROVE OrderNext
    <2>1. Arrive(Stale, w)
      BY <1>4 DEF Adds, Arrive
    <2> QED
      BY <1>3, <2>1 DEF OrderNext
  <1>5. CASE Sweeps /\ Stale # {}
    <2>1. Withdraw(Stale)
      BY <1>5 DEF Sweeps, Withdraw
    <2> QED
      BY <1>3, <2>1 DEF OrderNext
  <1>6. CASE Sweeps /\ Stale = {}
    <2>1. Without(lanes, Stale) = lanes
      BY <1>6, WithoutNothing DEF RoomInv
    <2> QED
      BY <1>6, <2>1 DEF Sweeps, orderVars
  <1>7. CASE Takes
    <2>1. Take
      BY <1>2, <1>7 DEF Takes, Take
    <2> QED
      BY <2>1 DEF OrderNext
  <1>8. CASE Empties
    <2>1. lanes' # lanes => Drain
      BY <1>8 DEF Empties, Drain
    <2> QED
      BY <1>8, <2>1 DEF Empties, OrderNext, orderVars
  <1>9. CASE Leaves
    BY <1>9 DEF Leaves, orderVars
  <1> QED
    BY <1>4, <1>5, <1>6, <1>7, <1>8, <1>9, RoomMoves

(***************************************************************************)
(* Whatever the scheduler's threads do, its waiting room moves as          *)
(* DispatchOrder says.                                                     *)
(***************************************************************************)
THEOREM RoomFollowsOrder == Spec => FollowsDispatchOrder
  BY FollowsInit, FollowsStep, SchedulerInit, SchedulerStep, RoomInit, RoomStep, PTL
  DEF Spec, FollowsDispatchOrder, OrderSpec

-----------------------------------------------------------------------------
(* What the room and its history are at any time, as DispatchFairness has   *)
(* them: the room is well formed, and a take has a lane to serve.           *)

OrderInv == index \in 1 .. Len(DispatchPattern) /\ RoomShape(lanes)

Serving(q) == q \in Priority /\ lanes.order[q] # <<>> /\ HTake

LEMMA TakeServes == OrderInv /\ HTake => \E q : Serving(q)
  <1> SUFFICES ASSUME OrderInv, HTake PROVE \E q : Serving(q)
    OBVIOUS
  <1>1. PICK q \in Priority, a \in Actor : Range(lanes.items[q][a]) # {}
    BY DEF HTake, Take, QueuedIn
  <1>2. lanes.items[q][a] # <<>>
    <2>1. Range(<<>>) = {}
      BY DEF Range
    <2> QED
      BY <1>1, <2>1
  <1>3. lanes.order[q] # <<>>
    BY <1>2 DEF OrderInv, RoomShape, Range
  <1> QED
    BY <1>3 DEF Serving

LEMMA OrderInvInit == HInit => OrderInv
  <1>1. 1 \in 1 .. Len(DispatchPattern)
    BY DispatchAssumption, EmptySeq
  <1> QED
    BY <1>1, EmptyRoom DEF HInit, OrderInit, OrderInv

LEMMA OrderInvStep == OrderInv /\ [HNext]_(hvars) => OrderInv'
  <1> SUFFICES ASSUME OrderInv, [HNext]_(hvars) PROVE OrderInv'
    OBVIOUS
  <1>1. ASSUME NEW gone, NEW w \in Work, HArrive(gone, w) PROVE OrderInv'
    <2>1. PICK r : r = Without(lanes, gone)
      OBVIOUS
    <2>2. RoomShape(r)
      BY <2>1, WithoutIs DEF OrderInv
    <2>3. RoomShape(Enqueued(r, w))
      BY <2>2, EnqueuedIs
    <2> QED
      BY <1>1, <2>1, <2>3 DEF HArrive, Arrive, OrderInv
  <1>2. ASSUME NEW gone, HWithdraw(gone) PROVE OrderInv'
    <2>1. RoomShape(lanes')
      BY <1>2, WithoutIs DEF HWithdraw, Withdraw, OrderInv
    <2> QED
      BY <1>2, <2>1 DEF HWithdraw, Withdraw, OrderInv
  <1>3. ASSUME NEW q, Serving(q) PROVE OrderInv'
    <2>1. RoomShape(AfterTake(lanes, index))
      BY <1>3, TakeIs DEF Serving, HTake, Take, OrderInv
    <2>2. IndexAfterTake(lanes, index) \in 1 .. Len(DispatchPattern)
      BY <1>3, FoundIs DEF Serving, HTake, Take, OrderInv
    <2> QED
      BY <1>3, <2>1, <2>2 DEF Serving, HTake, Take, OrderInv
  <1>4. CASE HDrain
    BY <1>4, EmptyRoom DEF HDrain, Drain, OrderInv
  <1>5. CASE UNCHANGED hvars
    BY <1>5 DEF OrderInv, hvars, orderVars
  <1> QED
    BY <1>1, <1>2, <1>3, <1>4, <1>5, TakeServes DEF HNext

-----------------------------------------------------------------------------
(* No lane starves.  The invariant says where the takes that passed a lane  *)
(* were made: at the positions just before the index.                       *)

PassedInv ==
    /\ passed \in [Priority -> Nat]
    /\ \A p \in Priority : /\ passed[p] < Len(DispatchPattern)
                           /\ NoTurn(p, index, passed[p])

(* From index i a turn is found at k: the places before the next index are  *)
(* the ones passed from i to k, then the ones before i.                     *)
LEMMA WindowMoves ==
    ASSUME NEW i \in 1 .. Len(DispatchPattern),
           NEW k \in i .. (i + Len(DispatchPattern) - 1),
           NEW n, n = Cycle(k + 1), NEW j \in 1 .. Len(DispatchPattern)
    PROVE  /\ j <= k + 1 - i => Before(n, j) = Cycle(k + 1 - j)
           /\ j > k + 1 - i => Before(n, j) = Before(i, j - (k + 1 - i))
  BY Positions DEF Cycle, Before

(* Every lane has a turn in one round of the pattern. *)
LEMMA RoundHasTurn ==
    ASSUME NEW p \in Priority, NEW i \in 1 .. Len(DispatchPattern),
           NEW g \in Nat, NoTurn(p, i, g)
    PROVE  g < Len(DispatchPattern)
  <1> SUFFICES ASSUME g >= Len(DispatchPattern) PROVE FALSE
    BY Positions
  <1>1. PICK q \in 1 .. Len(DispatchPattern) : DispatchPattern[q] = p
    BY DispatchAssumption
  <1>2. PICK j : j = IF i > q THEN i - q ELSE i - q + Len(DispatchPattern)
    OBVIOUS
  <1>3. j \in 1 .. g /\ Before(i, j) = q
    BY <1>2, Positions DEF Before
  <1> QED
    BY <1>1, <1>3 DEF NoTurn

LEMMA PassedInit == HInit => PassedInv
  <1>1. Len(DispatchPattern) \in Nat \ {0}
    BY DispatchAssumption, EmptySeq
  <1> QED
    BY <1>1 DEF HInit, PassedInv, NoTurn

LEMMA PassedQuietly ==
    ASSUME PassedInv, index' = index, NEW left, Observe(left, <<>>)
    PROVE  PassedInv'
  <1>1. passed' \in [Priority -> Nat]
    BY DEF PassedInv, Observe
  <1>2. ASSUME NEW p \in Priority
        PROVE  passed'[p] < Len(DispatchPattern) /\ NoTurn(p, index, passed'[p])
    <2>1. passed'[p] = 0 \/ passed'[p] = passed[p]
      BY DEF Observe
    <2>2. 0 < Len(DispatchPattern)
      BY DispatchAssumption, EmptySeq
    <2> QED
      BY <2>1, <2>2 DEF PassedInv, NoTurn
  <1> QED
    BY <1>1, <1>2 DEF PassedInv, NoTurn, Before

LEMMA PassedTake ==
    ASSUME OrderInv, PassedInv, NEW q, Serving(q)
    PROVE  PassedInv'
  <1> DEFINE L == Len(DispatchPattern)
  <1>1. PICK k, o, a : /\ k = PositionFound(lanes, index)
                       /\ o = NextLane(lanes, index) /\ a = NextActor(lanes, index)
    OBVIOUS
  <1>2. /\ k \in index .. (index + L - 1)
        /\ \A j \in index .. (k - 1) : ~Serves(lanes, j)
        /\ o = DispatchPattern[Cycle(k)] /\ o \in Priority
        /\ index' = Cycle(k + 1) /\ index' \in 1 .. L
    BY <1>1, FoundIs DEF Serving, HTake, Take, OrderInv, NextLane, IndexAfterTake
  <1>3. L \in Nat /\ index \in 1 .. L
    BY Positions DEF OrderInv
  <1>4. \A p \in Priority : p # o => lanes'.order[p] = lanes.order[p]
    BY <1>1, TakeIs DEF Serving, HTake, Take, OrderInv
  <1>5. passed' = [p \in Priority |->
                      IF lanes'.order[p] = <<>> THEN 0
                      ELSE IF o = p THEN 0 ELSE passed[p] + 1]
    BY <1>1 DEF Serving, HTake, Take, Observe
  <1>6. passed' \in [Priority -> Nat]
    BY <1>5 DEF PassedInv
  <1>7. ASSUME NEW p \in Priority
        PROVE  NoTurn(p, index', passed'[p])
    <2>1. CASE passed'[p] = 0
      BY <2>1 DEF NoTurn
    <2>2. CASE passed'[p] # 0
      <3>1. p # o /\ lanes.order[p] # <<>> /\ passed'[p] = passed[p] + 1
        BY <1>4, <1>5, <2>2
      <3>2. \A j \in index .. k : DispatchPattern[Cycle(j)] # p
        BY <1>2, <1>3, <3>1 DEF Serves
      <3>3. passed[p] \in Nat /\ passed[p] < L /\ NoTurn(p, index, passed[p])
        BY DEF PassedInv
      <3>4. ASSUME NEW j \in 1 .. passed[p] + 1
            PROVE  DispatchPattern[Before(index', j)] # p
        <4>1. j \in 1 .. L
          BY <1>3, <3>3
        <4>2. CASE j <= k + 1 - index
          <5>1. Before(index', j) = Cycle(k + 1 - j)
            BY <1>2, <1>3, <4>1, <4>2, WindowMoves
          <5>2. k + 1 - j \in index .. k
            BY <1>2, <1>3, <4>1, <4>2
          <5> QED
            BY <3>2, <5>1, <5>2
        <4>3. CASE j > k + 1 - index
          <5>1. Before(index', j) = Before(index, j - (k + 1 - index))
            BY <1>2, <1>3, <4>1, <4>3, WindowMoves
          <5>2. j - (k + 1 - index) \in 1 .. passed[p]
            BY <1>2, <1>3, <3>3, <4>3
          <5> QED
            BY <3>3, <5>1, <5>2 DEF NoTurn
        <4> QED
          BY <1>2, <1>3, <4>2, <4>3
      <3> QED
        BY <3>1, <3>4 DEF NoTurn
    <2> QED
      BY <2>1, <2>2
  <1>8. \A p \in Priority : passed'[p] < L
    BY <1>2, <1>6, <1>7, RoundHasTurn
  <1> QED
    BY <1>6, <1>7, <1>8 DEF PassedInv, NoTurn, Before

LEMMA PassedStep == OrderInv /\ PassedInv /\ [HNext]_(hvars) => PassedInv'
  <1> SUFFICES ASSUME OrderInv, PassedInv, [HNext]_(hvars) PROVE PassedInv'
    OBVIOUS
  <1>1. ASSUME NEW gone, NEW w \in Work, HArrive(gone, w) PROVE PassedInv'
    BY <1>1, PassedQuietly DEF HArrive, Arrive
  <1>2. ASSUME NEW gone, HWithdraw(gone) PROVE PassedInv'
    BY <1>2, PassedQuietly DEF HWithdraw, Withdraw
  <1>3. CASE HDrain
    BY <1>3, PassedQuietly DEF HDrain, Drain
  <1>4. CASE UNCHANGED hvars
    BY <1>4 DEF hvars, orderVars, PassedInv, NoTurn, Before
  <1> QED
    BY <1>1, <1>2, <1>3, <1>4, PassedTake, TakeServes DEF HNext

(***************************************************************************)
(* For every pattern in which each priority occurs, every set of actors    *)
(* and however arrivals, withdrawals and drains interleave with the takes: *)
(* a lane with waiting work is passed over at most as often in a row as    *)
(* some gap between two of its turns in the pattern.                       *)
(***************************************************************************)
THEOREM LanesNeverStarve == HSpec => []NoLaneStarves
  <1>1. OrderInv /\ PassedInv => NoLaneStarves
    BY DEF OrderInv, PassedInv, NoLaneStarves
  <1> QED
    BY <1>1, OrderInvInit, OrderInvStep, PassedInit, PassedStep, PTL DEF HSpec

-----------------------------------------------------------------------------
(* Round robin.  The invariant says where an actor stands that was served   *)
(* since another began to wait: behind it.                                  *)

Ahead(s, a, b) == \A i, j \in DOMAIN s : s[i] = a /\ s[j] = b => i < j

LEMMA AheadKept ==
    ASSUME NEW T, NEW S, NEW s \in Seq(T), NEW a, NEW b, Ahead(s, a, b)
    PROVE  Ahead(Kept(s, S), a, b)
  <1>1. PICK k \in Seq(T) : k = Kept(s, S)
    BY KeptIsPart
  <1>2. PICK h : IsPart(k, s, Len(s), S, h)
    BY <1>1, KeptIsPart
  <1>3. DOMAIN k = 1 .. Len(k) /\ DOMAIN s = 1 .. Len(s) /\ Len(k) \in Nat /\ Len(s) \in Nat
    OBVIOUS
  <1>4. ASSUME NEW i \in 1 .. Len(k), NEW j \in 1 .. Len(k), k[i] = a, k[j] = b
        PROVE  i < j
    <2>1. /\ h[i] \in 1 .. Len(s) /\ h[j] \in 1 .. Len(s)
          /\ s[h[i]] = a /\ s[h[j]] = b
      BY <1>2, <1>4 DEF IsPart
    <2>2. h[i] < h[j]
      BY <1>3, <2>1 DEF Ahead
    <2>3. j < i => h[j] < h[i]
      BY <1>2 DEF IsPart
    <2> QED
      BY <1>3, <2>1, <2>2, <2>3
  <1> QED
    BY <1>1, <1>3, <1>4 DEF Ahead

LEMMA AheadAppend ==
    ASSUME NEW T, NEW s \in Seq(T), NEW e \in T, NEW a, NEW b, Ahead(s, a, b), e # a
    PROVE  Ahead(Append(s, e), a, b)
  <1>1. PICK n : n = Append(s, e)
    OBVIOUS
  <1>2. /\ n \in Seq(T) /\ Len(n) = Len(s) + 1 /\ Len(s) \in Nat
        /\ \A i \in 1 .. Len(s) : n[i] = s[i]
        /\ n[Len(s) + 1] = e
    BY <1>1, AppendProperties
  <1>3. DOMAIN n = 1 .. Len(s) + 1 /\ DOMAIN s = 1 .. Len(s)
    BY <1>2
  <1>4. \A i \in DOMAIN n : i \in DOMAIN s \/ i = Len(s) + 1
    BY <1>2, <1>3
  <1>5. ASSUME NEW i \in DOMAIN n, NEW j \in DOMAIN n, n[i] = a, n[j] = b PROVE i < j
    <2>1. i \in DOMAIN s /\ s[i] = a
      BY <1>2, <1>3, <1>4, <1>5
    <2>2. CASE j \in DOMAIN s
      BY <1>2, <1>3, <1>5, <2>1, <2>2 DEF Ahead
    <2>3. CASE j = Len(s) + 1
      BY <1>2, <1>3, <2>1, <2>3
    <2> QED
      BY <1>4, <2>2, <2>3
  <1> QED
    BY <1>1, <1>5 DEF Ahead

LEMMA AheadTail ==
    ASSUME NEW T, NEW s \in Seq(T), s # <<>>, NEW a, NEW b, Ahead(s, a, b)
    PROVE  Ahead(Tail(s), a, b)
  <1>1. PICK t : t = Tail(s)
    OBVIOUS
  <1>2. /\ Len(s) \in Nat /\ Len(s) > 0 /\ t \in Seq(T) /\ Len(t) = Len(s) - 1
        /\ \A i \in 1 .. Len(s) - 1 : t[i] = s[i + 1]
    BY <1>1, HeadTailProperties, EmptySeq
  <1>3. DOMAIN t = 1 .. Len(s) - 1 /\ DOMAIN s = 1 .. Len(s)
    BY <1>2
  <1>4. \A i \in DOMAIN t : i + 1 \in DOMAIN s /\ i \in Nat
    BY <1>2, <1>3
  <1>5. ASSUME NEW i \in DOMAIN t, NEW j \in DOMAIN t, t[i] = a, t[j] = b PROVE i < j
    <2>1. s[i + 1] = a /\ s[j + 1] = b
      BY <1>2, <1>3, <1>5
    <2>2. i + 1 < j + 1
      BY <1>4, <2>1 DEF Ahead
    <2> QED
      BY <1>4, <2>2
  <1> QED
    BY <1>1, <1>5 DEF Ahead

(* Nobody in the lane is ahead of its head; its head, served, is behind all. *)
LEMMA HeadFirst ==
    ASSUME NEW T, NEW s \in Seq(T), s # <<>>, IsInjective(s), NEW a \in T
    PROVE  /\ a \in Range(s) => ~Ahead(s, a, Head(s))
           /\ Ahead(Tail(s), a, Head(s))
           /\ a # Head(s) => Ahead(Append(Tail(s), Head(s)), a, Head(s))
  <1>1. Head(s) \in T /\ Tail(s) \in Seq(T) /\ Range(Tail(s)) = Range(s) \ {Head(s)}
    BY TailOf
  <1>2. Len(s) \in Nat /\ Len(s) > 0 /\ Head(s) = s[1] /\ DOMAIN s = 1 .. Len(s)
    BY HeadTailProperties, EmptySeq
  <1>3. 1 \in DOMAIN s /\ \A i \in DOMAIN s : ~(i < 1)
    BY <1>2
  <1>4. a \in Range(s) => ~Ahead(s, a, Head(s))
    BY <1>2, <1>3 DEF Ahead, Range
  <1>5. Ahead(Tail(s), a, Head(s))
    BY <1>1 DEF Ahead, Range
  <1> QED
    BY <1>1, <1>4, <1>5, AheadAppend

OvertakenInv ==
    /\ overtaken \in [Priority -> [Actor -> [Actor -> 0 .. 1]]]
    /\ \A p \in Priority, a, b \in Actor :
          lanes.items[p][a] # <<>> /\ overtaken[p][a][b] = 1 => Ahead(lanes.order[p], a, b)

LEMMA OvertakenInit == HInit => OvertakenInv
  BY DEF HInit, NoneBy, OvertakenInv

(* A step that serves nobody, as long as it keeps the places of those who   *)
(* stay in the room.                                                        *)
LEMMA OvertakenQuietly ==
    ASSUME OvertakenInv, NEW left, Observe(left, <<>>),
           \A p \in Priority, a, b \in Actor :
              left.items[p][a] # <<>> =>
                 /\ lanes.items[p][a] # <<>>
                 /\ Ahead(lanes.order[p], a, b) => Ahead(lanes'.order[p], a, b)
    PROVE  OvertakenInv'
  <1>1. ASSUME NEW p \in Priority, NEW a \in Actor
        PROVE  overtaken'[p][a] = IF left.items[p][a] = <<>> THEN NoneBy
                                  ELSE overtaken[p][a]
    BY DEF Observe
  <1>2. NoneBy \in [Actor -> 0 .. 1] /\ \A b \in Actor : NoneBy[b] = 0
    BY DEF NoneBy
  <1>3. \A p \in Priority, a \in Actor : overtaken'[p][a] \in [Actor -> 0 .. 1]
    BY <1>1, <1>2 DEF OvertakenInv
  <1>4. overtaken' \in [Priority -> [Actor -> [Actor -> 0 .. 1]]]
    <2>1. overtaken' = [p \in Priority |-> [a \in Actor |-> overtaken'[p][a]]]
      BY DEF Observe
    <2> QED
      BY <1>3, <2>1
  <1>5. ASSUME NEW p \in Priority, NEW a \in Actor, NEW b \in Actor, overtaken'[p][a][b] = 1
        PROVE  Ahead(lanes'.order[p], a, b)
    <2>1. left.items[p][a] # <<>> /\ overtaken[p][a][b] = 1
      BY <1>1, <1>2, <1>5
    <2> QED
      BY <2>1 DEF OvertakenInv
  <1> QED
    BY <1>4, <1>5 DEF OvertakenInv

LEMMA PlacesKeptWithout ==
    ASSUME NEW r, RoomShape(r), NEW gone, NEW n, n = Without(r, gone),
           NEW p \in Priority, NEW a \in Actor, NEW b \in Actor, n.items[p][a] # <<>>
    PROVE  r.items[p][a] # <<>> /\ (Ahead(r.order[p], a, b) => Ahead(n.order[p], a, b))
  <1>1. IsWithout(n, r, gone)
    BY WithoutIs
  <1>2. PICK kept : n.order[p] = Kept(r.order[p], kept)
    BY <1>1 DEF IsWithout
  <1>3. r.order[p] \in Seq(Actor)
    BY RoomTypes
  <1> QED
    BY <1>1, <1>2, <1>3, AheadKept DEF IsWithout

LEMMA OvertakenTake ==
    ASSUME OrderInv, OvertakenInv, NEW q, Serving(q)
    PROVE  OvertakenInv'
  <1>1. PICK p, b, s : /\ p = NextLane(lanes, index) /\ b = NextActor(lanes, index)
                       /\ s = lanes.order[p]
    OBVIOUS
  <1>2. /\ p \in Priority /\ b \in Actor /\ b = Head(s) /\ s # <<>>
        /\ s \in Seq(Actor) /\ IsInjective(s)
    <2>1. p \in Priority /\ s # <<>> /\ b = Head(s)
      BY <1>1, FoundIs DEF Serving, HTake, Take, OrderInv, NextActor
    <2>2. b \in Actor
      BY <1>1, TakeIs DEF Serving, HTake, Take, OrderInv
    <2> QED
      BY <1>1, <2>1, <2>2, RoomTypes DEF OrderInv, RoomShape
  <1>3. /\ \A o \in Priority, a \in Actor :
              ~(o = p /\ a = b) => lanes'.items[o][a] = lanes.items[o][a]
        /\ \A o \in Priority : o # p => lanes'.order[o] = lanes.order[o]
        /\ lanes'.order[p] = Tail(s) \/ lanes'.order[p] = Append(Tail(s), b)
    <2>1. /\ RoomShape(lanes) /\ index \in 1 .. Len(DispatchPattern)
          /\ q \in Priority /\ lanes.order[q] # <<>> /\ lanes' = AfterTake(lanes, index)
      BY DEF Serving, HTake, Take, OrderInv
    <2>2. \A o \in Priority, a \in Actor :
             lanes'.items[o][a] = IF o = p /\ a = b THEN Tail(lanes.items[p][b])
                                  ELSE lanes.items[o][a]
      BY <1>1, <2>1, TakeIs
    <2>3. \A o \in Priority :
             lanes'.order[o] = IF o # p THEN lanes.order[o]
                               ELSE IF Tail(lanes.items[p][b]) = <<>> THEN Tail(s)
                               ELSE Append(Tail(s), b)
      BY <1>1, <2>1, TakeIs
    <2> QED
      BY <1>2, <2>2, <2>3
  <1>4. ASSUME NEW o \in Priority, NEW a \in Actor
        PROVE  overtaken'[o][a] =
                 IF lanes'.items[o][a] = <<>> \/ (o = p /\ a = b) THEN NoneBy
                 ELSE IF o = p THEN [overtaken[o][a] EXCEPT ![b] = @ + 1]
                 ELSE overtaken[o][a]
    BY <1>1 DEF Serving, HTake, Take, Observe
  <1>5. NoneBy \in [Actor -> 0 .. 1] /\ \A c \in Actor : NoneBy[c] = 0
    BY DEF NoneBy
  <1>6. ASSUME NEW o \in Priority, NEW a \in Actor, NEW c \in Actor,
               lanes'.items[o][a] # <<>>, ~(o = p /\ a = b),
               Ahead(lanes.order[o], a, c)
        PROVE  Ahead(lanes'.order[o], a, c)
    <2>1. CASE o # p
      BY <1>3, <1>6, <2>1
    <2>2. CASE o = p
      <3>1. Tail(s) \in Seq(Actor)
        BY <1>2, TailOf
      <3>2. Ahead(Tail(s), a, c)
        BY <1>1, <1>2, <1>6, <2>2, AheadTail
      <3>3. Ahead(Append(Tail(s), b), a, c)
        BY <1>2, <1>6, <2>2, <3>1, <3>2, AheadAppend
      <3> QED
        BY <1>3, <2>2, <3>2, <3>3
    <2> QED
      BY <2>1, <2>2
  <1>7. ASSUME NEW a \in Actor, a # b, lanes'.items[p][a] # <<>>
        PROVE  overtaken[p][a][b] = 0 /\ Ahead(lanes'.order[p], a, b)
    <2>1. lanes.items[p][a] # <<>>
      BY <1>2, <1>3, <1>7
    <2>2. a \in Range(s)
      BY <1>1, <1>2, <2>1 DEF OrderInv, RoomShape
    <2>3. ~Ahead(s, a, b) /\ Ahead(Tail(s), a, b) /\ Ahead(Append(Tail(s), b), a, b)
      BY <1>2, <1>7, <2>2, HeadFirst
    <2>4. overtaken[p][a][b] \in 0 .. 1 /\ overtaken[p][a][b] # 1
      BY <1>1, <1>2, <2>1, <2>3 DEF OvertakenInv
    <2>5. Ahead(lanes'.order[p], a, b)
      <3>1. CASE lanes'.order[p] = Tail(s)
        BY <2>3, <3>1
      <3>2. CASE lanes'.order[p] = Append(Tail(s), b)
        BY <2>3, <3>2
      <3> QED
        BY <1>3, <3>1, <3>2
    <2> QED
      BY <2>4, <2>5
  <1>8. ASSUME NEW o \in Priority, NEW a \in Actor
        PROVE  /\ overtaken'[o][a] \in [Actor -> 0 .. 1]
               /\ \A c \in Actor : lanes'.items[o][a] # <<>> /\ overtaken'[o][a][c] = 1
                     => Ahead(lanes'.order[o], a, c)
    <2>0. overtaken[o][a] \in [Actor -> 0 .. 1]
      BY DEF OvertakenInv
    <2>1. CASE lanes'.items[o][a] = <<>> \/ (o = p /\ a = b)
      <3>1. overtaken'[o][a] = NoneBy
        BY <1>4, <2>1
      <3>2. \A c \in Actor : overtaken'[o][a][c] # 1
        BY <1>5, <3>1
      <3> QED
        BY <1>5, <3>1, <3>2
    <2>2. CASE lanes'.items[o][a] # <<>> /\ o # p
      <3>1. overtaken'[o][a] = overtaken[o][a] /\ lanes.items[o][a] # <<>>
        BY <1>3, <1>4, <2>2
      <3> QED
        BY <1>6, <2>0, <2>2, <3>1 DEF OvertakenInv
    <2>3. CASE lanes'.items[o][a] # <<>> /\ o = p /\ a # b
      <3>1. /\ overtaken'[o][a] = [overtaken[o][a] EXCEPT ![b] = @ + 1]
            /\ lanes.items[o][a] # <<>>
        BY <1>3, <1>4, <2>3
      <3>2. overtaken[o][a][b] = 0 /\ Ahead(lanes'.order[o], a, b)
        BY <1>7, <2>3
      <3>3. /\ overtaken'[o][a] \in [Actor -> 0 .. 1]
            /\ \A c \in Actor : c # b => overtaken'[o][a][c] = overtaken[o][a][c]
        BY <1>2, <2>0, <3>1, <3>2
      <3>4. ASSUME NEW c \in Actor, c # b, overtaken'[o][a][c] = 1
            PROVE  Ahead(lanes'.order[o], a, c)
        BY <1>6, <2>3, <3>1, <3>3, <3>4 DEF OvertakenInv
      <3> QED
        BY <3>2, <3>3, <3>4
    <2> QED
      BY <2>1, <2>2, <2>3
  <1>9. overtaken' \in [Priority -> [Actor -> [Actor -> 0 .. 1]]]
    <2>1. overtaken' = [o \in Priority |-> [a \in Actor |-> overtaken'[o][a]]]
      BY DEF Serving, HTake, Take, Observe
    <2> QED
      BY <1>8, <2>1
  <1> QED
    BY <1>8, <1>9 DEF OvertakenInv

LEMMA OvertakenStep ==
    OrderInv /\ OvertakenInv /\ [HNext]_(hvars) => OvertakenInv'
  <1> SUFFICES ASSUME OrderInv, OvertakenInv, [HNext]_(hvars) PROVE OvertakenInv'
    OBVIOUS
  <1>1. ASSUME NEW gone, NEW w \in Work, HArrive(gone, w) PROVE OvertakenInv'
    <2>1. PICK r : r = Without(lanes, gone)
      OBVIOUS
    <2>2. RoomShape(r) /\ ActorOf[w] \in Actor /\ PriorityOf[w] \in Priority
      BY <2>1, WithoutIs, DispatchAssumption DEF OrderInv
    <2>3. ASSUME NEW p \in Priority, NEW a \in Actor, NEW b \in Actor,
                 r.items[p][a] # <<>>
          PROVE  /\ lanes.items[p][a] # <<>>
                 /\ Ahead(lanes.order[p], a, b) => Ahead(lanes'.order[p], a, b)
      <3>1. lanes.items[p][a] # <<>> /\ (Ahead(lanes.order[p], a, b) => Ahead(r.order[p], a, b))
        BY <2>1, <2>3, PlacesKeptWithout DEF OrderInv
      <3>2. lanes'.order[p] = IF p = PriorityOf[w] /\ r.items[PriorityOf[w]][ActorOf[w]] = <<>>
                              THEN Append(r.order[p], ActorOf[w]) ELSE r.order[p]
        BY <1>1, <2>1, <2>2, EnqueuedIs DEF HArrive, Arrive
      <3>3. p = PriorityOf[w] /\ r.items[PriorityOf[w]][ActorOf[w]] = <<>> => ActorOf[w] # a
        BY <2>3
      <3>4. r.order[p] \in Seq(Actor)
        BY <2>2, RoomTypes
      <3> QED
        BY <2>2, <3>1, <3>2, <3>3, <3>4, AheadAppend
    <2> QED
      BY <1>1, <2>1, <2>3, OvertakenQuietly DEF HArrive, Arrive
  <1>2. ASSUME NEW gone, HWithdraw(gone) PROVE OvertakenInv'
    <2>1. ASSUME NEW p \in Priority, NEW a \in Actor, NEW b \in Actor,
                 lanes'.items[p][a] # <<>>
          PROVE  /\ lanes.items[p][a] # <<>>
                 /\ Ahead(lanes.order[p], a, b) => Ahead(lanes'.order[p], a, b)
      BY <1>2, <2>1, PlacesKeptWithout DEF HWithdraw, Withdraw, OrderInv
    <2> QED
      BY <1>2, <2>1, OvertakenQuietly DEF HWithdraw, Withdraw
  <1>3. CASE HDrain
    <2>1. \A p \in Priority, a \in Actor : lanes'.items[p][a] = <<>>
      BY <1>3 DEF HDrain, Drain, EmptyLanes
    <2> QED
      BY <1>3, <2>1, OvertakenQuietly DEF HDrain, Drain
  <1>4. CASE UNCHANGED hvars
    BY <1>4 DEF OvertakenInv, hvars, orderVars
  <1> QED
    BY <1>1, <1>2, <1>3, <1>4, OvertakenTake, TakeServes DEF HNext

(***************************************************************************)
(* For every set of actors: while an actor waits in a lane, each other     *)
(* actor is served there at most once before it, whatever is enqueued      *)
(* behind it or withdrawn from any queue in between.                       *)
(***************************************************************************)
THEOREM ActorsTakeTurns == HSpec => []RoundRobin
  <1>1. OvertakenInv => RoundRobin
    BY DEF OvertakenInv, RoundRobin
  <1> QED
    BY <1>1, OrderInvInit, OrderInvStep, OvertakenInit, OvertakenStep, PTL DEF HSpec
=============================================================================
