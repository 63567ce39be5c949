-------------------------- MODULE DispatchFairness --------------------------
(***************************************************************************)
(* DispatchOrder with the service history that fairness is about.          *)
(***************************************************************************)
EXTENDS DispatchOrder

VARIABLES
    passed,    \* passed[p]: takes since lane p last was empty or was served
    overtaken  \* overtaken[p][a][b]: times b was served in lane p since a
               \* began to wait there or was last served there

hvars == <<orderVars, passed, overtaken>>

NoneBy == [b \in Actor |-> 0]

HInit ==
    /\ OrderInit
    /\ passed = [p \in Priority |-> 0]
    /\ overtaken = [p \in Priority |-> [a \in Actor |-> NoneBy]]

(***************************************************************************)
(* `left' is the room without what the step removes, before what it adds;  *)
(* `served' is <<lane, actor>> of the item taken, or <<>>.                 *)
(***************************************************************************)
Observe(left, served) ==
    /\ passed' = [p \in Priority |->
         IF left.order[p] = <<>> THEN 0
         ELSE IF served = <<>> THEN passed[p]
         ELSE IF served[1] = p THEN 0 ELSE passed[p] + 1]
    /\ overtaken' = [p \in Priority |-> [a \in Actor |->
         IF left.items[p][a] = <<>> \/ served = <<p, a>> THEN NoneBy
         ELSE IF served # <<>> /\ served[1] = p
              THEN [overtaken[p][a] EXCEPT ![served[2]] = @ + 1]
         ELSE overtaken[p][a]]]

HArrive(gone, w) == Arrive(gone, w) /\ Observe(Without(lanes, gone), <<>>)

HWithdraw(gone) == Withdraw(gone) /\ Observe(lanes', <<>>)

HTake == Take /\ Observe(lanes', <<NextLane(lanes, index), NextActor(lanes, index)>>)

HDrain == Drain /\ Observe(lanes', <<>>)

HNext ==
    \/ \E w \in Work, gone \in SUBSET QueuedIn(lanes) : HArrive(gone, w)
    \/ \E gone \in SUBSET QueuedIn(lanes) : HWithdraw(gone)
    \/ HTake
    \/ HDrain

HSpec == HInit /\ [][HNext]_hvars

-----------------------------------------------------------------------------
(* Properties *)

(* The position j places before i, and whether p has no turn at any of the  *)
(* g positions before i.                                                    *)
Before(i, j) == IF i > j THEN i - j ELSE i - j + Len(DispatchPattern)

NoTurn(p, i, g) == \A j \in 1 .. g : DispatchPattern[Before(i, j)] # p

(***************************************************************************)
(* No lane starves: a lane with waiting work is passed over at most as     *)
(* often as the longest gap between its turns in the pattern, however      *)
(* arrivals and withdrawals move the index.                                *)
(***************************************************************************)
NoLaneStarves ==
    \A p \in Priority :
        /\ passed[p] < Len(DispatchPattern)
        /\ \E i \in 1 .. Len(DispatchPattern) : NoTurn(p, i, passed[p])

(***************************************************************************)
(* Round robin: while an actor waits in a lane, every other actor is       *)
(* served there at most once before it, even when items are withdrawn from *)
(* either queue.                                                           *)
(***************************************************************************)
RoundRobin ==
    \A p \in Priority, a, b \in Actor : overtaken[p][a][b] <= 1
=============================================================================
