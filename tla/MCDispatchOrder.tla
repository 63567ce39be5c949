--------------------------- MODULE MCDispatchOrder ---------------------------
(***************************************************************************)
(* DispatchFairness with the code's pattern, two actors in every lane, and *)
(* bounds on what waits; each actor may wait several times in a lane.      *)
(***************************************************************************)
EXTENDS DispatchFairness

CONSTANTS
    a1, a2, interactive, report, background,
    ActorLimit    \* bound on waiting items of one actor

(* Two kinds each to withdraw one and keep the other, where actors compete. *)
MCWork == {<<interactive, a, k>> : a \in Actor, k \in 1 .. 2}
             \cup {<<report, a1, 1>>, <<background, a2, 1>>}
MCActorOf == [w \in MCWork |-> w[2]]
MCPriorityOf == [w \in MCWork |-> w[1]]
MCPattern == [k \in 1 .. 11 |-> CASE k \in 1 .. 8 -> interactive
                                  [] k \in 9 .. 10 -> report
                                  [] k = 11 -> background]

WaitingOf(a) ==
    FoldFunction(+, 0, [p \in Priority |-> Len(lanes.items[p][a])])

Bounded == \A a \in Actor : WaitingOf(a)' <= ActorLimit

MCSpec == HInit /\ [][HNext /\ Bounded]_hvars

(***************************************************************************)
(* The gaps in numbers: background work is passed over ten times at most,  *)
(* reports nine times, interactive questions three times.                  *)
(***************************************************************************)
ASSUME GapsOfPattern ==
    \A p \in Priority, g \in 0 .. 10 :
        (\E i \in 1 .. 11 : NoTurn(p, i, g)) <=>
            g <= (CASE p = interactive -> 3 [] p = report -> 9 [] p = background -> 10)
=============================================================================
