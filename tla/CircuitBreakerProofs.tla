------------------------ MODULE CircuitBreakerProofs ------------------------
(***************************************************************************)
(* Type correctness and single-flight probing of CircuitBreaker, what a    *)
(* late answer may do and what opens a closed breaker, for every set of    *)
(* holders and every threshold.  The first section has the lemmas about    *)
(* the rules of BreakerRules.                                              *)
(***************************************************************************)
EXTENDS MCCircuitBreaker, FiniteSetTheorems, TLAPS

(* The rules keep a breaker a breaker. *)

LEMMA AdmittedType ==
    ASSUME NEW b \in Breakers
    PROVE  Admitted(b) \in Breakers /\ PermitFrom(b) \in Permits
  BY DEF Breakers, Admitted, PermitFrom, Permits

(* Opening and closing start a new epoch, with no probe out. *)
LEMMA NewEpoch ==
    ASSUME NEW b \in Breakers
    PROVE  /\ Opened(b) \in Breakers /\ Closed(b) \in Breakers
           /\ Opened(b).state = "open" /\ Closed(b).state = "closed"
           /\ Opened(b).epoch = b.epoch + 1 /\ Closed(b).epoch = b.epoch + 1
  <1>1. 0 \in 0 .. (Threshold - 1) /\ b.epoch + 1 \in Nat
    BY BreakerAssumption DEF Breakers
  <1>2. Opened(b) \in Breakers /\ Opened(b).state = "open" /\ Opened(b).epoch = b.epoch + 1
    BY <1>1 DEF Breakers, Opened
  <1>3. Closed(b) \in Breakers /\ Closed(b).state = "closed" /\ Closed(b).epoch = b.epoch + 1
    BY <1>1 DEF Breakers, Closed
  <1> QED
    BY <1>2, <1>3

LEMMA BackToOpenType ==
    ASSUME NEW b \in Breakers
    PROVE  /\ BackToOpen(b) \in Breakers
           /\ BackToOpen(b).state = "open" /\ BackToOpen(b).epoch = b.epoch
  BY DEF Breakers, BackToOpen

(***************************************************************************)
(* A permit given back with an outcome, or abandoned, does one of four     *)
(* things, and which one depends on whether it is the current probe.       *)
(***************************************************************************)
Kept(b, c) == c.state = b.state /\ c.epoch = b.epoch /\ c.probe = b.probe

Renewed(b, c) == c.state # "half_open" /\ c.epoch = b.epoch + 1

Reverted(b, c) == c.state = "open" /\ c.epoch = b.epoch

LEMMA RecordedEffect ==
    ASSUME NEW b \in Breakers, NEW p \in Permits, NEW outcome \in Outcomes
    PROVE  /\ Recorded(b, p, outcome) \in Breakers
           /\ \/ /\ Kept(b, Recorded(b, p, outcome))
                 /\ p.half_open => ~IsCurrentProbe(b, p)
              \/ /\ Renewed(b, Recorded(b, p, outcome))
                 /\ b.state = "half_open" => IsCurrentProbe(b, p)
              \/ Reverted(b, Recorded(b, p, outcome)) /\ IsCurrentProbe(b, p)
  <1> DEFINE Effect(c) ==
               \/ Kept(b, c) /\ (p.half_open => ~IsCurrentProbe(b, p))
               \/ Renewed(b, c) /\ (b.state = "half_open" => IsCurrentProbe(b, p))
               \/ Reverted(b, c) /\ IsCurrentProbe(b, p)
  <1> SUFFICES ASSUME NEW c, c = Recorded(b, p, outcome)
               PROVE  c \in Breakers /\ Effect(c)
    OBVIOUS
  <1>1. CASE p.epoch # b.epoch
    BY <1>1 DEF Recorded, Kept, IsCurrentProbe
  <1>2. CASE p.epoch = b.epoch /\ p.half_open /\ ~IsCurrentProbe(b, p)
    BY <1>2 DEF Recorded, Kept
  <1>3. CASE p.epoch = b.epoch /\ p.half_open /\ IsCurrentProbe(b, p)
    <2>1. c = ProbeRecorded(b, outcome)
      BY <1>3 DEF Recorded
    <2>2. c \in {Closed(b), BackToOpen(b), Opened(b)}
      BY <2>1 DEF ProbeRecorded
    <2> QED
      BY <1>3, <2>2, NewEpoch, BackToOpenType DEF Renewed, Reverted
  <1>4. CASE p.epoch = b.epoch /\ ~p.half_open /\ b.state # "closed"
    <2>1. c = b
      BY <1>4 DEF Recorded
    <2> QED
      BY <1>4, <2>1 DEF Kept
  <1>5. CASE p.epoch = b.epoch /\ ~p.half_open /\ b.state = "closed"
    <2>1. c = CallRecorded(b, outcome)
      BY <1>5 DEF Recorded
    <2>2. outcome # "ok" => FailureKind(outcome) \in {"ignored", "fatal", "transient"}
      BY DEF FailureKind, Outcomes, Errors
    <2>3. \/ c = b \/ c = Opened(b)
          \/ c = [b EXCEPT !.consecutive = 0]
          \/ c = [b EXCEPT !.consecutive = b.consecutive + 1] /\ b.consecutive + 1 < Threshold
      BY <2>1, <2>2 DEF CallRecorded, Succeeded, TransientFailed
    <2>4. CASE c = Opened(b)
      BY <2>4, <1>5, NewEpoch DEF Renewed
    <2>5. CASE c = b
      BY <2>5, <1>5 DEF Kept
    <2>6. CASE c = [b EXCEPT !.consecutive = 0]
      <3>1. 0 \in 0 .. (Threshold - 1)
        BY BreakerAssumption
      <3> QED
        BY <3>1, <2>6, <1>5 DEF Kept, Breakers
    <2>7. CASE /\ c = [b EXCEPT !.consecutive = b.consecutive + 1]
               /\ b.consecutive + 1 < Threshold
      <3>1. b.consecutive + 1 \in 0 .. (Threshold - 1)
        BY <2>7, BreakerAssumption DEF Breakers
      <3> QED
        BY <3>1, <2>7, <1>5 DEF Kept, Breakers
    <2> QED
      BY <2>3, <2>4, <2>5, <2>6, <2>7
  <1> QED
    BY <1>1, <1>2, <1>3, <1>4, <1>5 DEF Permits

LEMMA AbandonedEffect ==
    ASSUME NEW b \in Breakers, NEW p \in Permits
    PROVE  /\ Abandoned(b, p) \in Breakers
           /\ \/ Kept(b, Abandoned(b, p)) /\ ~IsCurrentProbe(b, p)
              \/ Reverted(b, Abandoned(b, p)) /\ IsCurrentProbe(b, p)
  BY BackToOpenType DEF Abandoned, Kept, Reverted
-----------------------------------------------------------------------------
(***************************************************************************)
(* SingleProbe is inductive once permits are known not to come from the    *)
(* future: an opening or closing increments the epoch, and must not turn a *)
(* permit already out into one of the new epoch.                           *)
(***************************************************************************)
NoFuturePermit == \A h \in Held : permit[h].epoch <= breaker.epoch

BreakerInv == TypeOK /\ SingleProbe /\ NoFuturePermit

-----------------------------------------------------------------------------
(***************************************************************************)
(* Giving a permit back preserves the invariant, however it is given back. *)
(***************************************************************************)
LEMMA DisposalKeepsInv ==
    ASSUME BreakerInv,
           NEW h \in Held,
           NEW c \in Breakers,
           breaker' = c,
           permit' = permit,
           stage' = [stage EXCEPT ![h] = "gone"],
           \/ Kept(breaker, c) /\ (permit[h].half_open => ~IsCurrentProbe(breaker, permit[h]))
           \/ /\ Renewed(breaker, c)
              /\ breaker.state = "half_open" => IsCurrentProbe(breaker, permit[h])
           \/ Reverted(breaker, c) /\ IsCurrentProbe(breaker, permit[h])
    PROVE  BreakerInv'
  <1>1. Held' = Held \ {h}
    BY DEF BreakerInv, TypeOK, Held
  <1>2. TypeOK'
    BY DEF BreakerInv, TypeOK, Held
  <1>3. \A g \in Held : permit[g] \in Permits /\ permit[g].epoch \in Nat
    BY DEF BreakerInv, TypeOK, Held, Permits
  <1>4. breaker.epoch \in Nat /\ breaker \in Breakers
    BY DEF BreakerInv, TypeOK, Breakers
  <1>5. CASE Kept(breaker, c) /\ (permit[h].half_open => ~IsCurrentProbe(breaker, permit[h]))
    <2>1. h \notin ProbesOut
      BY <1>5 DEF BreakerInv, SingleProbe, IsCurrentProbe, ProbesOut
    <2>2. ProbesOut' = ProbesOut
      BY <1>1, <1>5, <2>1 DEF ProbesOut, Kept
    <2>3. SingleProbe'
      BY <2>2, <1>5 DEF BreakerInv, SingleProbe, Kept
    <2>4. NoFuturePermit'
      BY <1>1, <1>5 DEF BreakerInv, NoFuturePermit, Kept
    <2> QED
      BY <1>2, <2>3, <2>4 DEF BreakerInv
  <1>6. CASE Renewed(breaker, c)
    <2>1. ProbesOut' = {}
      BY <1>1, <1>3, <1>4, <1>6 DEF ProbesOut, Renewed, BreakerInv, NoFuturePermit
    <2>2. SingleProbe'
      BY <2>1, <1>6 DEF SingleProbe, Renewed
    <2>3. NoFuturePermit'
      BY <1>1, <1>3, <1>4, <1>6 DEF BreakerInv, NoFuturePermit, Renewed
    <2> QED
      BY <1>2, <2>2, <2>3 DEF BreakerInv
  <1>7. CASE Reverted(breaker, c) /\ IsCurrentProbe(breaker, permit[h])
    <2>1. ProbesOut = {h}
      BY <1>7 DEF BreakerInv, SingleProbe, IsCurrentProbe, ProbesOut
    <2>2. ProbesOut' = {}
      BY <1>1, <1>7, <2>1 DEF ProbesOut, Reverted
    <2>3. SingleProbe'
      BY <2>2, <1>7 DEF SingleProbe, Reverted
    <2>4. NoFuturePermit'
      BY <1>1, <1>7 DEF BreakerInv, NoFuturePermit, Reverted
    <2> QED
      BY <1>2, <2>3, <2>4 DEF BreakerInv
  <1> QED
    BY <1>5, <1>6, <1>7

LEMMA BreakerInit == Init => BreakerInv
  <1> SUFFICES ASSUME Init PROVE BreakerInv
    OBVIOUS
  <1>1. TypeOK
    BY BreakerAssumption DEF Init, TypeOK, NewBreaker, Breakers
  <1>2. Held = {}
    BY DEF Init, Held
  <1> QED
    BY <1>1, <1>2 DEF Init, BreakerInv, SingleProbe, ProbesOut, NoFuturePermit, NewBreaker

LEMMA BreakerStep == BreakerInv /\ [Next]_vars => BreakerInv'
  <1> SUFFICES ASSUME BreakerInv, [Next]_vars PROVE BreakerInv'
    OBVIOUS
  <1>0. /\ breaker \in Breakers /\ breaker.epoch \in Nat
        /\ \A g \in Held : permit[g] \in Permits
    BY DEF BreakerInv, TypeOK, Held, Breakers
  <1>1. ASSUME NEW h \in Holder, Admit(h) PROVE BreakerInv'
    <2>1. Held' = Held \cup {h} /\ h \notin Held
      BY <1>1 DEF Admit, BreakerInv, TypeOK, Held
    <2>2. permit'[h] = PermitFrom(breaker) /\ \A g \in Held : permit'[g] = permit[g]
      BY <1>1, <2>1 DEF Admit, BreakerInv, TypeOK, Held
    <2>3. TypeOK'
      BY <1>1, <1>0, AdmittedType DEF Admit, BreakerInv, TypeOK
    <2>4. breaker'.epoch = breaker.epoch
      BY <1>1, <1>0 DEF Admit, Admitted, Breakers
    <2>5. NoFuturePermit'
      BY <2>1, <2>2, <2>4, <1>0 DEF BreakerInv, NoFuturePermit, PermitFrom
    <2>6. CASE breaker.state = "closed"
      <3>1. breaker' = breaker /\ ~PermitFrom(breaker).half_open
        BY <2>6, <1>1 DEF Admit, Admitted, PermitFrom
      <3>2. ProbesOut' = ProbesOut
        BY <3>1, <2>1, <2>2 DEF ProbesOut
      <3> QED
        BY <3>1, <3>2, <2>3, <2>5, <2>6 DEF BreakerInv, SingleProbe
    <2>7. CASE breaker.state = "open"
      <3>1. ProbesOut = {}
        BY <2>7 DEF BreakerInv, SingleProbe
      <3>2. /\ breaker'.state = "half_open" /\ breaker'.probe = PermitFrom(breaker)
            /\ PermitFrom(breaker).half_open /\ PermitFrom(breaker).epoch = breaker.epoch
        BY <2>7, <1>1, <1>0 DEF Admit, Admitted, PermitFrom, Breakers
      <3>3. ProbesOut' = {h}
        BY <3>1, <3>2, <2>1, <2>2, <2>4 DEF ProbesOut
      <3> QED
        BY <3>2, <3>3, <2>2, <2>3, <2>5 DEF BreakerInv, SingleProbe
    <2> QED
      BY <1>1, <2>6, <2>7 DEF Admit, CanAdmit
  <1>2. ASSUME NEW h \in Holder, Abandon(h) PROVE BreakerInv'
    <2>1. h \in Held
      BY <1>2 DEF Abandon, Held
    <2> QED
      BY <2>1, <1>2, <1>0, AbandonedEffect, DisposalKeepsInv DEF Abandon
  <1>3. ASSUME NEW h \in Holder, NEW outcome \in Outcomes, Record(h, outcome)
        PROVE BreakerInv'
    <2>1. h \in Held
      BY <1>3 DEF Record, Held
    <2> QED
      BY <2>1, <1>3, <1>0, RecordedEffect, DisposalKeepsInv DEF Record
  <1>4. CASE CooldownElapses
    <2>1. /\ breaker' \in Breakers
          /\ breaker'.state = breaker.state /\ breaker'.epoch = breaker.epoch
          /\ breaker'.probe = breaker.probe
      BY <1>4, <1>0 DEF CooldownElapses, Breakers
    <2>2. Held' = Held /\ ProbesOut' = ProbesOut /\ permit' = permit /\ stage' = stage
      BY <1>4, <2>1 DEF CooldownElapses, Held, ProbesOut
    <2> QED
      BY <2>1, <2>2 DEF BreakerInv, TypeOK, SingleProbe, NoFuturePermit
  <1>5. CASE UNCHANGED vars
    BY <1>5 DEF vars, BreakerInv, TypeOK, SingleProbe, NoFuturePermit, ProbesOut, Held
  <1> QED
    BY <1>1, <1>2, <1>3, <1>4, <1>5 DEF Next

(***************************************************************************)
(* The breaker is type correct in every reachable state.                   *)
(***************************************************************************)
THEOREM BreakerTypeCorrect == Spec => []TypeOK
  <1>1. BreakerInv => TypeOK
    BY DEF BreakerInv
  <1> QED
    BY <1>1, BreakerInit, BreakerStep, PTL DEF Spec

(***************************************************************************)
(* At any moment at most one recovery probe is out, and the breaker is     *)
(* half-open exactly while one is, for any number of concurrent callers.   *)
(***************************************************************************)
THEOREM ProbeIsSingle == Spec => []SingleProbe
  <1>1. BreakerInv => SingleProbe
    BY DEF BreakerInv
  <1> QED
    BY <1>1, BreakerInit, BreakerStep, PTL DEF Spec
-----------------------------------------------------------------------------
(***************************************************************************)
(* The history of HSpec beside the breaker.  A holder is outdated exactly  *)
(* when its permit is of an earlier epoch, and the breaker counts no more  *)
(* failures than different holders reported in this period.  That the      *)
(* cooldown is over while a probe is out tells a probe that comes back     *)
(* without a verdict from one that starts a new cooldown.                  *)
(***************************************************************************)
HistoryInv ==
    /\ \A h \in outdated : h \in Holder /\ stage[h] # "new"
    /\ \A h \in Held : h \in outdated <=> permit[h].epoch # breaker.epoch
    /\ breaker.state = "half_open" => breaker.cooled
    /\ IsFiniteSet(streak) /\ \A h \in streak : h \in Holder /\ stage[h] = "gone"
    /\ breaker.state = "closed" => breaker.consecutive <= Cardinality(streak)

EvidenceInv == BreakerInv /\ HistoryInv

(* An outdated holder and one that is not current leave the breaker alone. *)
LEMMA LateIsInert ==
    ASSUME EvidenceInv, NEW h \in Held, permit[h].epoch # breaker.epoch, NEW outcome \in Outcomes
    PROVE  /\ Recorded(breaker, permit[h], outcome) = breaker
           /\ Abandoned(breaker, permit[h]) = breaker
  BY DEF Recorded, Abandoned, IsCurrentProbe

(***************************************************************************)
(* The ways in which the report of a call changes the breaker.             *)
(***************************************************************************)
LEMMA ReportEffect ==
    ASSUME EvidenceInv, NEW h \in Held, NEW outcome \in Outcomes
    PROVE  LET b == breaker
               c == Recorded(b, permit[h], outcome)
           IN  \/ c = b /\ (h \in outdated \/ outcome # "ok" \/ b.state # "closed")
               \/ c = Closed(b) /\ b.state = "half_open"
               \/ c = Opened(b) /\ b.state = "half_open"
               \/ c = BackToOpen(b) /\ b.state = "half_open"
               \/ /\ b.state = "closed" /\ h \notin outdated
                  /\ \/ c = Succeeded(b) /\ outcome = "ok"
                     \/ c = Opened(b) /\ outcome # "ok" /\ FailureKind(outcome) = "fatal"
                     \/ /\ outcome # "ok" /\ FailureKind(outcome) = "transient"
                        /\ \/ c = Opened(b) /\ b.consecutive + 1 >= Threshold
                           \/ c = [b EXCEPT !.consecutive = b.consecutive + 1]
  <1> DEFINE c == Recorded(breaker, permit[h], outcome)
  <1>1. CASE permit[h].epoch # breaker.epoch
    <2>1. c = breaker /\ h \in outdated
      BY <1>1, LateIsInert DEF EvidenceInv, HistoryInv
    <2> QED
      BY <2>1
  <1>2. CASE permit[h].epoch = breaker.epoch /\ permit[h].half_open
    <2>1. h \in ProbesOut
      BY <1>2 DEF ProbesOut
    <2>2. breaker.state = "half_open" /\ breaker.probe = permit[h]
      BY <2>1 DEF EvidenceInv, BreakerInv, SingleProbe
    <2>3. c = ProbeRecorded(breaker, outcome)
      BY <1>2, <2>2 DEF Recorded, IsCurrentProbe
    <2>4. c \in {Closed(breaker), BackToOpen(breaker), Opened(breaker)}
      BY <2>3 DEF ProbeRecorded
    <2> QED
      BY <2>2, <2>4
  <1>3. CASE permit[h].epoch = breaker.epoch /\ ~permit[h].half_open /\ breaker.state # "closed"
    <2>1. c = breaker
      BY <1>3 DEF Recorded
    <2> QED
      BY <1>3, <2>1
  <1>4. CASE permit[h].epoch = breaker.epoch /\ ~permit[h].half_open /\ breaker.state = "closed"
    <2>1. c = CallRecorded(breaker, outcome) /\ h \notin outdated
      BY <1>4 DEF Recorded, EvidenceInv, HistoryInv
    <2>2. outcome # "ok" => FailureKind(outcome) \in {"ignored", "fatal", "transient"}
      BY DEF FailureKind, Outcomes, Errors
    <2>3. CASE outcome = "ok"
      BY <1>4, <2>1, <2>3 DEF CallRecorded
    <2>4. CASE outcome # "ok" /\ FailureKind(outcome) = "ignored"
      BY <1>4, <2>1, <2>4 DEF CallRecorded
    <2>5. CASE outcome # "ok" /\ FailureKind(outcome) = "fatal"
      BY <1>4, <2>1, <2>5 DEF CallRecorded
    <2>6. CASE outcome # "ok" /\ FailureKind(outcome) = "transient"
      <3>1. c = TransientFailed(breaker)
        BY <2>1, <2>6 DEF CallRecorded
      <3>2. breaker.consecutive \in Int /\ Threshold \in Int
        BY BreakerAssumption DEF EvidenceInv, BreakerInv, TypeOK, Breakers
      <3> QED
        BY <1>4, <2>1, <2>6, <3>1, <3>2 DEF TransientFailed
    <2> QED
      BY <2>2, <2>3, <2>4, <2>5, <2>6
  <1> QED
    BY <1>1, <1>2, <1>3, <1>4

(* What the rules write, in parts *)
LEMMA RuleParts ==
    ASSUME NEW b \in Breakers
    PROVE  /\ Closed(b).state = "closed" /\ Closed(b).consecutive = 0
           /\ Closed(b).epoch # b.epoch
           /\ Opened(b).state = "open" /\ ~Opened(b).cooled /\ Opened(b).epoch # b.epoch
           /\ BackToOpen(b).state = "open" /\ BackToOpen(b).cooled = b.cooled
           /\ BackToOpen(b).epoch = b.epoch
           /\ Succeeded(b).state = b.state /\ Succeeded(b).consecutive = 0
           /\ Succeeded(b).epoch = b.epoch
  BY DEF Closed, Opened, BackToOpen, Succeeded, Breakers

(***************************************************************************)
(* A holder that gives its permit back keeps the history true, whether its *)
(* period ends with that or goes on.                                       *)
(***************************************************************************)
LEMMA PeriodGoesOn ==
    ASSUME EvidenceInv, NEW h \in Held, stage' = [stage EXCEPT ![h] = "gone"], permit' = permit,
           breaker'.epoch = breaker.epoch, outdated' = outdated,
           breaker'.state = "half_open" => breaker'.cooled,
           streak' \in {streak, {}, streak \cup {h}},
           breaker'.state = "closed" => breaker'.consecutive <= Cardinality(streak')
    PROVE  HistoryInv'
  <1>1. Held' = Held \ {h} /\ \A g \in Holder : stage'[g] = IF g = h THEN "gone" ELSE stage[g]
    BY DEF EvidenceInv, BreakerInv, TypeOK, Held
  <1>2. \A g \in outdated' : g \in Holder /\ stage'[g] # "new"
    BY <1>1 DEF EvidenceInv, HistoryInv
  <1>3. \A g \in Held' : g \in outdated' <=> permit'[g].epoch # breaker'.epoch
    BY <1>1 DEF EvidenceInv, HistoryInv
  <1>4. IsFiniteSet(streak') /\ \A g \in streak' : g \in Holder /\ stage'[g] = "gone"
    <2>1. h \in Holder
      BY DEF Held
    <2>2. IsFiniteSet(streak) /\ \A g \in streak : g \in Holder /\ stage[g] = "gone"
      BY DEF EvidenceInv, HistoryInv
    <2>3. IsFiniteSet({}) /\ IsFiniteSet(streak \cup {h})
      BY <2>2, FS_EmptySet, FS_AddElement
    <2> QED
      BY <1>1, <2>1, <2>2, <2>3
  <1> QED
    BY <1>2, <1>3, <1>4 DEF HistoryInv

LEMMA PeriodOver ==
    ASSUME EvidenceInv, NEW h \in Held, stage' = [stage EXCEPT ![h] = "gone"], permit' = permit,
           breaker' \in {Closed(breaker), Opened(breaker)}, outdated' = Held, streak' = {}
    PROVE  HistoryInv'
  <1>1. Held' = Held \ {h} /\ \A g \in Holder : stage'[g] = IF g = h THEN "gone" ELSE stage[g]
    BY DEF EvidenceInv, BreakerInv, TypeOK, Held
  <1>2. breaker \in Breakers /\ breaker.epoch \in Nat
    BY DEF EvidenceInv, BreakerInv, TypeOK, Breakers
  <1>3. \A g \in Held : permit[g].epoch # breaker.epoch + 1
    BY <1>2 DEF EvidenceInv, BreakerInv, NoFuturePermit, TypeOK, Held, Permits
  <1>4. breaker'.epoch = breaker.epoch + 1 /\ breaker'.state \in {"open", "closed"}
        /\ (breaker'.state = "closed" => breaker'.consecutive = 0)
    BY <1>2, NewEpoch, RuleParts
  <1>5. IsFiniteSet(streak') /\ Cardinality(streak') = 0
    BY FS_EmptySet
  <1>6. \A g \in outdated' : g \in Holder /\ stage'[g] # "new"
    BY <1>1 DEF Held
  <1> QED
    BY <1>1, <1>3, <1>4, <1>5, <1>6 DEF HistoryInv

LEMMA HistoryInit == HInit => EvidenceInv
  <1> SUFFICES ASSUME HInit PROVE EvidenceInv
    OBVIOUS
  <1>1. BreakerInv /\ Held = {}
    BY BreakerInit DEF HInit, Init, Held
  <1>2. IsFiniteSet(streak) /\ Cardinality(streak) = 0
    BY FS_EmptySet DEF HInit
  <1> QED
    BY <1>1, <1>2 DEF EvidenceInv, HistoryInv, HInit, Init, NewBreaker

LEMMA HistoryReports ==
    ASSUME EvidenceInv, NEW h \in Holder, NEW outcome \in Outcomes, HRecord(h, outcome)
    PROVE  HistoryInv'
  <1>1. h \in Held /\ stage' = [stage EXCEPT ![h] = "gone"] /\ permit' = permit
        /\ breaker' = Recorded(breaker, permit[h], outcome)
    BY DEF HRecord, Record, Held
  <1>2. breaker \in Breakers /\ breaker.state \in {"closed", "open", "half_open"}
    BY DEF EvidenceInv, BreakerInv, TypeOK, Breakers
  <1>3. CASE \/ breaker' = Closed(breaker) /\ breaker.state = "half_open"
             \/ breaker' = Opened(breaker) /\ breaker.state # "open"
    <2>1. PeriodEnds
      BY <1>2, <1>3, RuleParts DEF PeriodEnds
    <2> QED
      BY <1>1, <1>3, <2>1, PeriodOver DEF HRecord, Observe
  <1>4. CASE breaker' = BackToOpen(breaker) /\ breaker.state = "half_open"
    <2>1. /\ breaker'.state = "open" /\ breaker'.cooled /\ breaker'.epoch = breaker.epoch
      BY <1>2, <1>4, RuleParts DEF EvidenceInv, HistoryInv
    <2>2. ~PeriodEnds
      BY <1>4, <2>1 DEF PeriodEnds
    <2>3. outdated' = outdated /\ streak' \in {streak, {}, streak \cup {h}}
      BY <2>2 DEF HRecord, Observe
    <2> QED
      BY <1>1, <2>1, <2>3, PeriodGoesOn
  <1>5. CASE breaker' = breaker /\ (h \in outdated \/ outcome # "ok" \/ breaker.state # "closed")
    <2>1. ~PeriodEnds
      BY <1>5 DEF PeriodEnds
    <2>2. outdated' = outdated /\ streak' \in {streak, {}, streak \cup {h}}
      BY <2>1 DEF HRecord, Observe
    <2>3. breaker.state = "closed" => streak' \in {streak, streak \cup {h}}
      BY <1>5, <2>1 DEF HRecord
    <2>4. /\ IsFiniteSet(streak) /\ Cardinality(streak) \in Nat
          /\ h \notin streak /\ Cardinality(streak \cup {h}) = Cardinality(streak) + 1
      BY <1>1, FS_AddElement, FS_CardinalityType DEF EvidenceInv, HistoryInv, Held
    <2>5. breaker.consecutive \in Nat
      BY BreakerAssumption DEF EvidenceInv, BreakerInv, TypeOK, Breakers
    <2>6. breaker'.state = "closed" => breaker'.consecutive <= Cardinality(streak')
      <3> SUFFICES ASSUME breaker.state = "closed"
                   PROVE  breaker.consecutive <= Cardinality(streak')
        BY <1>5
      <3>1. breaker.consecutive <= Cardinality(streak)
        BY DEF EvidenceInv, HistoryInv
      <3>2. CASE streak' = streak
        BY <3>1, <3>2
      <3>3. CASE streak' = streak \cup {h}
        BY <2>4, <2>5, <3>1, <3>3
      <3> QED
        BY <2>3, <3>2, <3>3
    <2> QED
      BY <1>1, <1>5, <2>2, <2>6, PeriodGoesOn DEF EvidenceInv, HistoryInv
  <1>6. CASE /\ breaker' = Succeeded(breaker) /\ outcome = "ok"
             /\ breaker.state = "closed" /\ h \notin outdated
    <2>1. /\ breaker'.state = "closed" /\ breaker'.consecutive = 0 /\ breaker'.epoch = breaker.epoch
      BY <1>2, <1>6, RuleParts
    <2>2. ~PeriodEnds
      BY <1>6, <2>1 DEF PeriodEnds
    <2>3. outdated' = outdated /\ streak' = {}
      BY <1>6, <2>2 DEF HRecord, Observe
    <2>4. breaker'.consecutive <= Cardinality(streak')
      BY <2>1, <2>3, FS_EmptySet
    <2> QED
      BY <1>1, <2>1, <2>3, <2>4, PeriodGoesOn
  <1>7. CASE /\ breaker' = [breaker EXCEPT !.consecutive = breaker.consecutive + 1]
             /\ outcome # "ok" /\ FailureKind(outcome) = "transient"
             /\ breaker.state = "closed" /\ h \notin outdated
    <2>1. /\ breaker'.state = "closed" /\ breaker'.consecutive = breaker.consecutive + 1
          /\ breaker'.epoch = breaker.epoch
      BY <1>2, <1>7 DEF Breakers
    <2>2. ~PeriodEnds
      BY <1>7, <2>1 DEF PeriodEnds
    <2>3. outdated' = outdated /\ streak' = streak \cup {h}
      BY <1>7, <2>2 DEF HRecord, Observe
    <2>4. /\ Cardinality(streak) \in Nat
          /\ Cardinality(streak \cup {h}) = Cardinality(streak) + 1
      BY <1>1, FS_AddElement, FS_CardinalityType DEF EvidenceInv, HistoryInv, Held
    <2>5. breaker.consecutive \in Nat
      BY BreakerAssumption DEF EvidenceInv, BreakerInv, TypeOK, Breakers
    <2>6. breaker'.consecutive <= Cardinality(streak')
      BY <1>7, <2>1, <2>3, <2>4, <2>5 DEF EvidenceInv, HistoryInv
    <2> QED
      BY <1>1, <2>1, <2>3, <2>6, PeriodGoesOn
  <1> QED
    BY <1>1, <1>3, <1>4, <1>5, <1>6, <1>7, ReportEffect

LEMMA HistoryStep == EvidenceInv /\ [HNext]_hvars => EvidenceInv'
  <1> SUFFICES ASSUME EvidenceInv, [HNext]_hvars PROVE EvidenceInv'
    OBVIOUS
  <1>1. BreakerInv'
    <2>1. [Next]_vars
      BY DEF HNext, Next, HRecord, hvars
    <2> QED
      BY <2>1, BreakerStep DEF EvidenceInv
  <1>2. breaker \in Breakers /\ breaker.state \in {"closed", "open", "half_open"}
    BY DEF EvidenceInv, BreakerInv, TypeOK, Breakers
  <1>3. ASSUME NEW h \in Holder, Admit(h), Observe, UNCHANGED <<lastKind, streak>>
        PROVE  HistoryInv'
    <2>1. /\ stage[h] = "new" /\ Held' = Held \cup {h}
          /\ \A g \in Holder : stage'[g] = IF g = h THEN "held" ELSE stage[g]
          /\ \A g \in Holder : permit'[g] = IF g = h THEN PermitFrom(breaker) ELSE permit[g]
      BY <1>3 DEF Admit, EvidenceInv, BreakerInv, TypeOK, Held
    <2>2. /\ breaker'.epoch = breaker.epoch /\ PermitFrom(breaker).epoch = breaker.epoch
          /\ \/ breaker' = breaker /\ breaker.state = "closed"
             \/ breaker.state = "open" /\ breaker'.state = "half_open" /\ breaker'.cooled
      BY <1>2, <1>3 DEF Admit, CanAdmit, Admitted, PermitFrom, Breakers
    <2>3. ~PeriodEnds
      BY <2>2 DEF PeriodEnds
    <2>4. outdated' = outdated /\ streak' = streak
      BY <1>3, <2>3 DEF Observe
    <2>5. \A g \in outdated' : g \in Holder /\ stage'[g] # "new"
      BY <2>1, <2>4 DEF EvidenceInv, HistoryInv
    <2>6. \A g \in Held' : g \in outdated' <=> permit'[g].epoch # breaker'.epoch
      <3>1. h \notin outdated
        BY <2>1 DEF EvidenceInv, HistoryInv
      <3>2. \A g \in Held : g # h /\ g \in Holder
        BY <2>1 DEF Held
      <3> QED
        BY <2>1, <2>2, <2>4, <3>1, <3>2 DEF EvidenceInv, HistoryInv
    <2>7. IsFiniteSet(streak') /\ \A g \in streak' : g \in Holder /\ stage'[g] = "gone"
      BY <2>1, <2>4 DEF EvidenceInv, HistoryInv
    <2>8. /\ breaker'.state = "half_open" => breaker'.cooled
          /\ breaker'.state = "closed" => breaker'.consecutive <= Cardinality(streak')
      BY <2>2, <2>4 DEF EvidenceInv, HistoryInv
    <2> QED
      BY <2>5, <2>6, <2>7, <2>8 DEF HistoryInv
  <1>4. ASSUME NEW h \in Holder, Abandon(h), Observe, UNCHANGED <<lastKind, streak>>
        PROVE  HistoryInv'
    <2>1. h \in Held /\ stage' = [stage EXCEPT ![h] = "gone"] /\ permit' = permit
      BY <1>4 DEF Abandon, Held
    <2>2. \/ breaker' = breaker
          \/ breaker.state = "half_open" /\ breaker' = BackToOpen(breaker)
      BY <1>4 DEF Abandon, Abandoned, IsCurrentProbe
    <2>3. ~PeriodEnds /\ breaker'.epoch = breaker.epoch
          /\ (breaker' = breaker \/ breaker'.state = "open")
      BY <1>2, <2>2, RuleParts DEF PeriodEnds, EvidenceInv, HistoryInv
    <2>4. outdated' = outdated /\ streak' = streak
      BY <1>4, <2>3 DEF Observe
    <2> QED
      BY <2>1, <2>3, <2>4, PeriodGoesOn DEF EvidenceInv, HistoryInv
  <1>5. ASSUME CooldownElapses, Observe, UNCHANGED <<lastKind, streak>> PROVE HistoryInv'
    <2>1. /\ breaker.state = "open" /\ breaker'.state = "open" /\ breaker'.epoch = breaker.epoch
          /\ permit' = permit /\ stage' = stage
      BY <1>2, <1>5 DEF CooldownElapses, Breakers
    <2>2. outdated' = outdated /\ streak' = streak /\ Held' = Held
      BY <1>5, <2>1 DEF Observe, PeriodEnds, Held
    <2> QED
      BY <2>1, <2>2 DEF EvidenceInv, HistoryInv
  <1>6. ASSUME UNCHANGED hvars PROVE HistoryInv'
    BY <1>6 DEF hvars, vars, EvidenceInv, HistoryInv, Held
  <1>7. HistoryInv'
    BY <1>3, <1>4, <1>5, <1>6, HistoryReports DEF HNext
  <1> QED
    BY <1>1, <1>7 DEF EvidenceInv

(***************************************************************************)
(* A late answer is inert: what a call admitted before the last opening or *)
(* closing reports changes nothing of the breaker.                         *)
(***************************************************************************)
THEOREM LateAnswersAreInert == HSpec => LateAnswerIsInert
  <1> DEFINE Inert ==
        \A h \in outdated : stage[h] = "held" /\ stage'[h] = "gone" => UNCHANGED breaker
  <1>1. EvidenceInv /\ [HNext]_hvars => [Inert]_hvars
    <2> SUFFICES ASSUME EvidenceInv, HNext, NEW h \in outdated,
                        stage[h] = "held", stage'[h] = "gone"
                 PROVE  breaker' = breaker
      OBVIOUS
    <2>1. h \in Held /\ permit[h].epoch # breaker.epoch
      BY DEF EvidenceInv, HistoryInv, Held
    <2>2. \A g \in Holder : Admit(g) => FALSE
      BY <2>1 DEF Admit, EvidenceInv, BreakerInv, TypeOK
    <2>3. ~CooldownElapses
      BY DEF CooldownElapses
    <2>4. ASSUME NEW g \in Holder, stage' = [stage EXCEPT ![g] = "gone"] PROVE g = h
      BY <2>1, <2>4 DEF EvidenceInv, BreakerInv, TypeOK, Held
    <2>5. \/ Abandon(h)
          \/ \E outcome \in Outcomes : Record(h, outcome)
      BY <2>2, <2>3, <2>4 DEF HNext, HRecord, Abandon, Record
    <2>6. CASE Abandon(h)
      BY <2>1, <2>6, LateIsInert DEF Abandon, Outcomes
    <2>7. ASSUME NEW outcome \in Outcomes, Record(h, outcome) PROVE breaker' = breaker
      BY <2>1, <2>7, LateIsInert DEF Record
    <2> QED
      BY <2>5, <2>6, <2>7
  <1> QED
    BY <1>1, HistoryInit, HistoryStep, PTL DEF HSpec, LateAnswerIsInert

(***************************************************************************)
(* A closed breaker opens only on a fatal failure, or when as many         *)
(* different calls of this period as the threshold asks for failed         *)
(* transiently with no success between them.                               *)
(***************************************************************************)
THEOREM OpeningNeedsEvidence == HSpec => OpensOnEvidence
  <1> DEFINE Evidence ==
        breaker.state = "closed" /\ breaker'.state = "open" =>
          \E h \in Held \ outdated :
            /\ stage'[h] = "gone"
            /\ \/ lastKind' = "fatal"
               \/ Cardinality(streak \cup {h}) >= Threshold
  <1>1. EvidenceInv /\ [HNext]_hvars => [Evidence]_hvars
    <2> SUFFICES ASSUME EvidenceInv, HNext, breaker.state = "closed", breaker'.state = "open"
                 PROVE  \E h \in Held \ outdated :
                          /\ stage'[h] = "gone"
                          /\ \/ lastKind' = "fatal"
                             \/ Cardinality(streak \cup {h}) >= Threshold
      OBVIOUS
    <2>1. breaker \in Breakers
      BY DEF EvidenceInv, BreakerInv, TypeOK
    <2>2. PICK h \in Holder, outcome \in Outcomes : HRecord(h, outcome)
      BY <2>1 DEF HNext, Admit, Admitted, Abandon, Abandoned, IsCurrentProbe, CooldownElapses
    <2>3. h \in Held /\ stage'[h] = "gone" /\ breaker' = Recorded(breaker, permit[h], outcome)
      BY <2>2 DEF HRecord, Record, Held, EvidenceInv, BreakerInv, TypeOK
    <2>4. /\ h \notin outdated /\ outcome # "ok"
          /\ \/ FailureKind(outcome) = "fatal"
             \/ breaker.consecutive + 1 >= Threshold
      <3>1. breaker'.state # "closed" /\ Succeeded(breaker).state = "closed"
            /\ [breaker EXCEPT !.consecutive = breaker.consecutive + 1].state = "closed"
        BY <2>1 DEF Succeeded, Breakers
      <3> QED
        BY <2>3, <3>1, ReportEffect
    <2>5. /\ Cardinality(streak) \in Nat /\ breaker.consecutive <= Cardinality(streak)
          /\ Cardinality(streak \cup {h}) = Cardinality(streak) + 1
      BY <2>3, FS_AddElement, FS_CardinalityType DEF EvidenceInv, HistoryInv, Held
    <2>6. breaker.consecutive \in Nat /\ Threshold \in Nat
      BY BreakerAssumption DEF EvidenceInv, BreakerInv, TypeOK, Breakers
    <2>7. \/ lastKind' = "fatal"
          \/ Cardinality(streak \cup {h}) >= Threshold
      BY <2>2, <2>4, <2>5, <2>6 DEF HRecord
    <2> QED
      BY <2>3, <2>4, <2>7
  <1> QED
    BY <1>1, HistoryInit, HistoryStep, PTL DEF HSpec, OpensOnEvidence
=============================================================================
