---------------------------- MODULE DispatchRules ----------------------------
(***************************************************************************)
(* The waiting room of a ServiceScheduler: one lane per priority, in each  *)
(* lane a queue per actor, and the order in which actors are served.  An   *)
(* OrderedDict of deques is its key order (`order') and its values         *)
(* (`items'); the key of an actor is present exactly while its deque is    *)
(* not empty.                                                              *)
(***************************************************************************)
EXTENDS Naturals, Sequences, Functions

CONSTANTS
    Work,            \* model invocations
    Actor,           \* actor_id
    Priority,        \* ModelPriority
    ActorOf,         \* [Work -> Actor]
    PriorityOf,      \* [Work -> Priority]
    DispatchPattern  \* _DISPATCH_PATTERN, a sequence of priorities

ASSUME DispatchAssumption ==
    /\ ActorOf \in [Work -> Actor]
    /\ PriorityOf \in [Work -> Priority]
    /\ DispatchPattern \in Seq(Priority) \ {<<>>}
    /\ \A p \in Priority : \E k \in 1 .. Len(DispatchPattern) : DispatchPattern[k] = p

Lanes == [order : [Priority -> Seq(Actor)],
          items : [Priority -> [Actor -> Seq(Work)]]]

EmptyLanes == [order |-> [p \in Priority |-> <<>>],
               items |-> [p \in Priority |-> [a \in Actor |-> <<>>]]]

QueuedIn(lanes) ==
    UNION {Range(lanes.items[p][a]) : p \in Priority, a \in Actor}

(* submit: append to the actor's deque, a new key goes to the end. *)
Enqueued(lanes, w) ==
    LET p == PriorityOf[w]
        a == ActorOf[w]
    IN  [order |-> IF lanes.items[p][a] = <<>>
                   THEN [lanes.order EXCEPT ![p] = Append(@, a)]
                   ELSE lanes.order,
         items |-> [lanes.items EXCEPT ![p][a] = Append(@, w)]]

(* The elements of s that are in S, in their order: SelectSeq for a set.    *)
Kept(s, S) ==
    LET kept[n \in 0 .. Len(s)] ==
            IF n = 0 THEN <<>>
            ELSE IF s[n] \in S THEN Append(kept[n - 1], s[n]) ELSE kept[n - 1]
    IN  kept[Len(s)]

(* Faulty: an actor whose queue was rewritten goes to the end of its lane. *)
FaultyWithout(lanes, gone) ==
    LET kept == [p \in Priority |->
                    [a \in Actor |-> Kept(lanes.items[p][a], Work \ gone)]]
        same(p) == {a \in Actor : kept[p][a] = lanes.items[p][a]}
        shorter(p) == {a \in Actor \ same(p) : kept[p][a] # <<>>}
    IN  [order |-> [p \in Priority |->
                        Kept(lanes.order[p], same(p)) \o Kept(lanes.order[p], shorter(p))],
         items |-> kept]

(***************************************************************************)
(* _collect_stale_locked: the kept items stay in place, and reassigning an *)
(* existing key leaves the actor's place in the lane unchanged.            *)
(***************************************************************************)
Without(lanes, gone) ==
    LET kept == [p \in Priority |->
                    [a \in Actor |-> Kept(lanes.items[p][a], Work \ gone)]]
    IN  [order |-> [p \in Priority |->
                        Kept(lanes.order[p], {a \in Actor : kept[p][a] # <<>>})],
         items |-> kept]

(***************************************************************************)
(* _take_next_locked: from `index' on, cyclically, the first position of   *)
(* the pattern whose lane is not empty; there the first actor's oldest     *)
(* item.  An actor with items left goes to the end of its lane.  Positions *)
(* count from 1 and go once round at most.                                 *)
(***************************************************************************)
Cycle(k) == IF k > Len(DispatchPattern) THEN k - Len(DispatchPattern) ELSE k

Serves(lanes, k) == lanes.order[DispatchPattern[Cycle(k)]] # <<>>

PositionFound(lanes, index) ==
    CHOOSE k \in index .. (index + Len(DispatchPattern) - 1) :
        Serves(lanes, k) /\ \A j \in index .. (k - 1) : ~Serves(lanes, j)

NextLane(lanes, index) == DispatchPattern[Cycle(PositionFound(lanes, index))]

NextActor(lanes, index) == Head(lanes.order[NextLane(lanes, index)])

NextWork(lanes, index) ==
    Head(lanes.items[NextLane(lanes, index)][NextActor(lanes, index)])

AfterTake(lanes, index) ==
    LET p == NextLane(lanes, index)
        a == NextActor(lanes, index)
        rest == Tail(lanes.items[p][a])
    IN  [order |-> [lanes.order EXCEPT ![p] =
                        IF rest = <<>> THEN Tail(@) ELSE Append(Tail(@), a)],
         items |-> [lanes.items EXCEPT ![p][a] = rest]]

(* Faulty: every take starts the pattern again. *)
FaultyIndexReset(lanes, index) == 1

IndexAfterTake(lanes, index) == Cycle(PositionFound(lanes, index) + 1)
=============================================================================
