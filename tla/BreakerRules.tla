---------------------------- MODULE BreakerRules ----------------------------
(***************************************************************************)
(* The decisions of ServiceCircuitBreaker as operators on a breaker value. *)
(* A breaker is one record; an operator returns the record that a method   *)
(* leaves behind when it releases the breaker's lock.  The clock is        *)
(* abstracted to `cooled': COOLDOWN_SECONDS have passed since opened_at.   *)
(***************************************************************************)
EXTENDS Naturals

CONSTANTS
    Threshold,   \* TRANSIENT_THRESHOLD
    NoPermit     \* None, the value of _half_open_permit when no probe is out

(***************************************************************************)
(* Permits are frozen dataclasses: the code compares them by value.        *)
(***************************************************************************)
Permits == [epoch : Nat, half_open : BOOLEAN]

ASSUME BreakerAssumption ==
    /\ Threshold \in Nat \ {0}
    /\ NoPermit \notin Permits

Breakers ==
    [ state       : {"closed", "open", "half_open"},
      consecutive : 0 .. (Threshold - 1),
      epoch       : Nat,
      probe       : Permits \cup {NoPermit},
      cooled      : BOOLEAN ]

NewBreaker ==
    [ state |-> "closed", consecutive |-> 0, epoch |-> 0,
      probe |-> NoPermit, cooled |-> FALSE ]

(***************************************************************************)
(* What a call can end with, and how classify_provider_failure reads it.   *)
(* "malformed" is tested before the fallback for provider errors, of which *)
(* it is a subclass.                                                       *)
(***************************************************************************)
Errors == {"context", "scheduling", "cancelled", "malformed", "auth",
           "rate_limited", "server", "fatal_code", "connection",
           "provider", "unknown"}

Outcomes == Errors \cup {"ok"}

FailureKind(error) ==
    CASE error \in {"context", "scheduling", "cancelled", "malformed"} -> "ignored"
      [] error \in {"auth", "fatal_code"}                              -> "fatal"
      [] error \in {"rate_limited", "server", "connection", "provider"} -> "transient"
      [] OTHER                                                         -> "ignored"

-----------------------------------------------------------------------------
(* admit *)

CanAdmit(b) == b.state = "closed" \/ (b.state = "open" /\ b.cooled)

PermitFrom(b) == [epoch |-> b.epoch, half_open |-> b.state # "closed"]

(* Faulty: the probe is handed out without leaving "open". *)
FaultyAdmitted(b) == b

Admitted(b) ==
    IF b.state = "closed"
    THEN b
    ELSE [b EXCEPT !.state = "half_open", !.probe = PermitFrom(b)]

-----------------------------------------------------------------------------
(* abandon, record_success, record_failure *)

IsCurrentProbe(b, p) ==
    b.state = "half_open" /\ b.probe = p /\ p.epoch = b.epoch

(* Faulty: the permit is forgotten, the state is not restored. *)
FaultyBackToOpen(b) == [b EXCEPT !.probe = NoPermit]

(***************************************************************************)
(* The probe comes back without a verdict: the epoch and the elapsed       *)
(* cooldown are kept, so the next admission is a probe again.              *)
(***************************************************************************)
BackToOpen(b) == [b EXCEPT !.state = "open", !.probe = NoPermit]

Abandoned(b, p) == IF IsCurrentProbe(b, p) THEN BackToOpen(b) ELSE b

Opened(b) ==
    [b EXCEPT !.state = "open", !.consecutive = 0, !.epoch = @ + 1,
              !.probe = NoPermit, !.cooled = FALSE]

Closed(b) ==
    [b EXCEPT !.state = "closed", !.consecutive = 0, !.epoch = @ + 1,
              !.probe = NoPermit, !.cooled = FALSE]

ProbeRecorded(b, outcome) ==
    IF outcome \in {"ok", "malformed"} THEN Closed(b)
    ELSE IF FailureKind(outcome) = "ignored" THEN BackToOpen(b)
    ELSE Opened(b)

(* Faulty: a success leaves earlier transient failures counted. *)
FaultySucceeded(b) == b

Succeeded(b) == [b EXCEPT !.consecutive = 0]

TransientFailed(b) ==
    IF b.consecutive + 1 < Threshold THEN [b EXCEPT !.consecutive = @ + 1] ELSE Opened(b)

CallRecorded(b, outcome) ==
    IF outcome = "ok" THEN Succeeded(b)
    ELSE CASE FailureKind(outcome) = "ignored" -> b
           [] FailureKind(outcome) = "fatal" -> Opened(b)
           [] FailureKind(outcome) = "transient" -> TransientFailed(b)

(* Faulty: the permit's epoch is not compared. *)
FaultyRecorded(b, p, outcome) ==
    IF p.half_open
    THEN IF IsCurrentProbe(b, p) THEN ProbeRecorded(b, outcome) ELSE b
    ELSE IF b.state = "closed" THEN CallRecorded(b, outcome) ELSE b

Recorded(b, p, outcome) ==
    IF p.epoch # b.epoch THEN b
    ELSE IF p.half_open
         THEN IF IsCurrentProbe(b, p) THEN ProbeRecorded(b, outcome) ELSE b
    ELSE IF b.state = "closed" THEN CallRecorded(b, outcome) ELSE b

(* BreakerTransition.opened: the outcome started a new cooldown. *)
JustOpened(b, p, outcome) ==
    /\ Recorded(b, p, outcome).state = "open"
    /\ Recorded(b, p, outcome).epoch # b.epoch
=============================================================================
