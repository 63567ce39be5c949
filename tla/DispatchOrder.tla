---------------------------- MODULE DispatchOrder ----------------------------
(***************************************************************************)
(* The waiting room on its own, under any pattern of arrivals, withdrawals *)
(* (cancelled or expired items), drains and takes.  `Work' may stand for   *)
(* kinds of invocation here: a kind may wait several times, so that        *)
(* service is observed over many rounds of the pattern.  How many may wait *)
(* is for ModelScheduler to say, which extends this module by everything   *)
(* around the room and implements OrderSpec.                               *)
(***************************************************************************)
EXTENDS DispatchRules

VARIABLES
    lanes,
    index         \* _dispatch_index, counted from 1

orderVars == <<lanes, index>>

OrderInit == lanes = EmptyLanes /\ index = 1

(* submit: what became stale is removed first, under the same lock. *)
Arrive(gone, w) ==
    /\ lanes' = Enqueued(Without(lanes, gone), w)
    /\ UNCHANGED index

Withdraw(gone) ==
    /\ gone # {}
    /\ lanes' = Without(lanes, gone)
    /\ UNCHANGED index

Take ==
    /\ QueuedIn(lanes) # {}
    /\ lanes' = AfterTake(lanes, index)
    /\ index' = IndexAfterTake(lanes, index)

Drain == lanes # EmptyLanes /\ lanes' = EmptyLanes /\ UNCHANGED index

OrderNext ==
    \/ \E w \in Work, gone \in SUBSET QueuedIn(lanes) : Arrive(gone, w)
    \/ \E gone \in SUBSET QueuedIn(lanes) : Withdraw(gone)
    \/ Take
    \/ Drain

OrderSpec == OrderInit /\ [][OrderNext]_orderVars
=============================================================================
