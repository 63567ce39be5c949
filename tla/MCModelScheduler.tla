-------------------------- MODULE MCModelScheduler --------------------------
(***************************************************************************)
(* ModelScheduler with two actors and two priorities: w1 and w2 belong to  *)
(* one actor in different lanes, w3 to the other.                          *)
(***************************************************************************)
EXTENDS ModelScheduler

CONSTANTS w1, w2, w3, a1, a2, interactive, background

MCActorOf == [w \in Work |-> IF w \in {w1, w2} THEN a1 ELSE a2]

MCPriorityOf == [w \in Work |-> IF w \in {w1, w3} THEN interactive ELSE background]

(* Two turns of the first lane for one of the second; MCDispatchOrder has    *)
(* the code's pattern of eleven turns.                                       *)
MCPattern == <<interactive, interactive, background>>
=============================================================================
