-------------------------- MODULE MCCircuitBreaker --------------------------
(***************************************************************************)
(* CircuitBreaker with history variables, computed from the events alone  *)
(* and never from the breaker's epoch or counter.                          *)
(***************************************************************************)
EXTENDS CircuitBreaker

VARIABLES
    outdated,  \* holders admitted before the last opening or closing
    lastKind,  \* kind of the outcome recorded last
    streak     \* holders whose transient failures count since the last
               \* success, opening or closing

hvars == <<vars, outdated, lastKind, streak>>

HInit == Init /\ outdated = {} /\ lastKind = "ok" /\ streak = {}

(* A new period starts when a cooldown starts or the breaker closes. *)
PeriodEnds ==
    \/ breaker.state # "closed" /\ breaker'.state = "closed"
    \/ breaker.state = "closed" /\ breaker'.state = "open"
    \/ breaker.state = "half_open" /\ breaker'.state = "open" /\ ~breaker'.cooled

Observe ==
    outdated' = IF PeriodEnds THEN Held ELSE outdated

HRecord(h, outcome) ==
    /\ Record(h, outcome)
    /\ Observe
    /\ lastKind' = IF outcome = "ok" THEN "ok" ELSE FailureKind(outcome)
    /\ streak' = IF PeriodEnds THEN {}
                 ELSE IF h \in outdated THEN streak
                 ELSE IF outcome = "ok" THEN {}
                 ELSE IF FailureKind(outcome) = "transient" THEN streak \cup {h}
                 ELSE streak

HNext ==
    \/ \E h \in Holder :
          \/ (Admit(h) \/ Abandon(h)) /\ Observe /\ UNCHANGED <<lastKind, streak>>
          \/ \E outcome \in Outcomes : HRecord(h, outcome)
    \/ CooldownElapses /\ Observe /\ UNCHANGED <<lastKind, streak>>

HSpec == HInit /\ [][HNext]_hvars /\ Fairness

(***************************************************************************)
(* A late answer is inert: what a call admitted before the last opening or *)
(* closing reports can neither heal nor trip the breaker.                  *)
(***************************************************************************)
LateAnswerIsInert ==
    [][\A h \in outdated : stage[h] = "held" /\ stage'[h] = "gone"
            => UNCHANGED breaker]_hvars

(***************************************************************************)
(* A closed breaker opens only on a fatal failure or when Threshold        *)
(* different calls of this period failed transiently with no success       *)
(* between them.                                                           *)
(***************************************************************************)
OpensOnEvidence ==
    [][breaker.state = "closed" /\ breaker'.state = "open" =>
         \E h \in Held \ outdated :
            /\ stage'[h] = "gone"
            /\ \/ lastKind' = "fatal"
               \/ Cardinality(streak \cup {h}) >= Threshold]_hvars

=============================================================================
