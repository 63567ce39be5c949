--------------------------- MODULE CircuitBreaker ---------------------------
(***************************************************************************)
(* ServiceCircuitBreaker with its clients.  A holder is one admitted model *)
(* call: it is given a permit once and gives it back once, by abandoning   *)
(* it or by reporting how the call ended.  Holders act in any order, which *)
(* is what the threads of a scheduler do; every method runs under the      *)
(* breaker's own lock and is one action.                                   *)
(*                                                                         *)
(* This is also the contract that ModelScheduler is shown to respect: a    *)
(* permit obtained is disposed of exactly once.                            *)
(***************************************************************************)
EXTENDS BreakerRules, FiniteSets

CONSTANT Holder

VARIABLES
    breaker,   \* the ServiceCircuitBreaker
    permit,    \* permit[h]: the permit of holder h, NoPermit before admission
    stage      \* stage[h]: "new", "held" while h owns its permit, then "gone"

vars == <<breaker, permit, stage>>

TypeOK ==
    /\ breaker \in Breakers
    /\ permit \in [Holder -> Permits \cup {NoPermit}]
    /\ stage \in [Holder -> {"new", "held", "gone"}]
    /\ \A h \in Holder : stage[h] = "held" => permit[h] \in Permits

Init ==
    /\ breaker = NewBreaker
    /\ permit = [h \in Holder |-> NoPermit]
    /\ stage = [h \in Holder |-> "new"]

-----------------------------------------------------------------------------

Admit(h) ==
    /\ stage[h] = "new"
    /\ CanAdmit(breaker)
    /\ breaker' = Admitted(breaker)
    /\ permit' = [permit EXCEPT ![h] = PermitFrom(breaker)]
    /\ stage' = [stage EXCEPT ![h] = "held"]

Abandon(h) ==
    /\ stage[h] = "held"
    /\ breaker' = Abandoned(breaker, permit[h])
    /\ stage' = [stage EXCEPT ![h] = "gone"]
    /\ UNCHANGED permit

Record(h, outcome) ==
    /\ stage[h] = "held"
    /\ breaker' = Recorded(breaker, permit[h], outcome)
    /\ stage' = [stage EXCEPT ![h] = "gone"]
    /\ UNCHANGED permit

(* COOLDOWN_SECONDS pass on the monotonic clock. *)
CooldownElapses ==
    /\ breaker.state = "open" /\ ~breaker.cooled
    /\ breaker' = [breaker EXCEPT !.cooled = TRUE]
    /\ UNCHANGED <<permit, stage>>

Next ==
    \/ \E h \in Holder :
          \/ Admit(h)
          \/ Abandon(h)
          \/ \E outcome \in Outcomes : Record(h, outcome)
    \/ CooldownElapses

Spec == Init /\ [][Next]_vars

(***************************************************************************)
(* Calls end (the transport has a timeout) and time passes.                *)
(***************************************************************************)
Fairness ==
    /\ WF_vars(CooldownElapses)
    /\ \A h \in Holder :
          WF_vars(Abandon(h) \/ \E outcome \in Outcomes : Record(h, outcome))

FairSpec == Spec /\ Fairness

-----------------------------------------------------------------------------
(* Properties *)

Held == {h \in Holder : stage[h] = "held"}

ProbesOut == {h \in Held : permit[h].half_open /\ permit[h].epoch = breaker.epoch}

(***************************************************************************)
(* Half-open means exactly one live probe, and no other state has one.     *)
(* Since probes are recognised by value and an abandoned or inconclusive   *)
(* probe leaves the epoch alone, two probes of one epoch carry equal       *)
(* permits: were both alive, either could close or reopen for the other.   *)
(***************************************************************************)
SingleProbe ==
    /\ \A g, h \in ProbesOut : g = h
    /\ breaker.state = "half_open" <=> ProbesOut # {}
    /\ breaker.state = "half_open" => \A h \in ProbesOut : breaker.probe = permit[h]

(***************************************************************************)
(* The service is never locked out for good: from every state the breaker  *)
(* again reaches one in which it admits a call, whichever way its probes   *)
(* end (answer, error, queue timeout, cancellation).                       *)
(***************************************************************************)
AdmitsAgain == []<>CanAdmit(breaker)
=============================================================================
