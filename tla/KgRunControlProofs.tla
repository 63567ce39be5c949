------------------------- MODULE KgRunControlProofs -------------------------
(***************************************************************************)
(* The abort protocol is correct for any number of threads and children.   *)
(*                                                                         *)
(* The argument: `_publishing' is a lock on the publication of a control.  *)
(* At most one thread is between claiming an abort of a control and        *)
(* publishing it, and while it is there the control has no failure.  So    *)
(* the failure is written once, after the callback, by the thread whose    *)
(* reason the callback announced; and only that thread takes and wakes the *)
(* children, after the failure is there to be read.                        *)
(***************************************************************************)
EXTENDS KgRunControl, TLAPS

(* The thread has claimed the abort of its target and not yet published it. *)
Publishes(t) == doing[t] \in {"callback", "publish"}

(* The thread is past the publication and has children to wake. *)
Wakes(t) == doing[t] \in {"take", "wake"}

(* _publishing is held by exactly one thread, and only before a failure. *)
OnePublisher ==
    /\ \A t \in Thread : Publishes(t) => target[t] \in publishing
    /\ \A t, u \in Thread :
          Publishes(t) /\ Publishes(u) /\ target[t] = target[u] => t = u
    /\ \A c \in publishing : failure[c] = NoFailure

(* A thread that aborts brings a failure; the callback is the job's. *)
Aborters ==
    \A t \in Thread :
       /\ doing[t] \in {"claim", "claimQuietly", "callback", "publish", "take", "wake"}
             => reason[t] \in Failure
       /\ doing[t] \in {"callback", "take", "wake"} => target[t] = Job

(* The job's event and its failure are published together. *)
EventIsFailure == Job \in isSet <=> failure[Job] # NoFailure

(* What has been announced is, or is about to become, the job's failure. *)
AnnouncedIsPublished ==
    announced # NoFailure =>
       \/ failure[Job] = announced
       \/ /\ failure[Job] = NoFailure
          /\ \E t \in Thread : /\ doing[t] = "publish" /\ target[t] = Job
                               /\ reason[t] = announced

(* One thread at most takes and wakes the children of the aborted job. *)
OneWaker ==
    /\ \A t \in Thread : Wakes(t) => failure[Job] # NoFailure
    /\ \A t, u \in Thread : Wakes(t) /\ Wakes(u) => t = u
    /\ failure[Job] # NoFailure /\ children # {} => \E t \in Thread : doing[t] = "take"
    /\ waking # {} => \E t \in Thread : doing[t] = "wake"

ControlInv ==
    /\ TypeOK
    /\ OnePublisher
    /\ Aborters
    /\ EventIsFailure
    /\ AnnouncedIsPublished
    /\ OneWaker
    /\ WokenWithReason

-----------------------------------------------------------------------------
(* Types *)

LEMMA ControlTypeInit == ControlInit => TypeOK
  BY ControlAssumption DEF ControlInit, TypeOK, Controls, Phases

LEMMA ControlTypeStep == TypeOK /\ [ControlNext]_controlVars => TypeOK'
<1> SUFFICES ASSUME TypeOK, [ControlNext]_controlVars PROVE TypeOK'
  OBVIOUS
<1> USE DEF TypeOK, Controls, Phases, Go, Return, stateVars, callVars
<1>1. CASE UNCHANGED controlVars
  BY <1>1 DEF controlVars
<1>2. ASSUME NEW t \in Thread, ControlStep(t) PROVE TypeOK'
  <2>1. CASE ClaimAbort(t)
    BY <2>1 DEF ClaimAbort
  <2>2. CASE AbortLost(t)
    BY <2>2 DEF AbortLost
  <2>3. CASE RunCallback(t)
    BY <2>3 DEF RunCallback
  <2>4. CASE PublishFailure(t)
    BY <2>4 DEF PublishFailure
  <2>5. CASE TakeChildren(t)
    BY <2>5 DEF TakeChildren
  <2>6. CASE AbortDone(t)
    BY <2>6 DEF AbortDone
  <2>7. CASE CheckParent(t)
    BY <2>7 DEF CheckParent
  <2>8. CASE CheckOwn(t)
    BY <2>8 DEF CheckOwn
  <2>9. ASSUME NEW s \in Child, WakeChild(t, s) PROVE TypeOK'
    BY <2>9 DEF WakeChild
  <2> QED
    BY <1>2, <2>1, <2>2, <2>3, <2>4, <2>5, <2>6, <2>7, <2>8, <2>9 DEF ControlStep
<1>3. ASSUME NEW t \in Thread, NEW c \in born \cup {Job}, CallCheck(t, c) PROVE TypeOK'
  BY <1>3 DEF CallCheck
<1>4. ASSUME NEW t \in Thread, NEW c \in born \cup {Job}, NEW f \in Failure,
             NEW notify \in BOOLEAN, CallAbort(t, c, f, notify)
      PROVE  TypeOK'
  BY <1>4 DEF CallAbort
<1>5. ASSUME NEW t \in Thread, NEW s \in Child, NewChild(t, s) PROVE TypeOK'
  BY <1>5 DEF NewChild, Derive
<1>6. ASSUME NEW t \in Thread, NEW s \in Child, ReleaseChild(t, s) PROVE TypeOK'
  BY <1>6 DEF ReleaseChild
<1> QED
  BY <1>1, <1>2, <1>3, <1>4, <1>5, <1>6 DEF ControlNext, Call

(* Every variable of the control keeps its type. *)
THEOREM ControlTypeCorrect == ControlSpec => []TypeOK
  BY ControlTypeInit, ControlTypeStep, PTL DEF ControlSpec

-----------------------------------------------------------------------------
(* The invariant *)

LEMMA ControlInvInit == ControlInit => ControlInv
<1> SUFFICES ASSUME ControlInit PROVE ControlInv
  OBVIOUS
<1> USE DEF ControlInit
<1>1. TypeOK
  BY ControlTypeInit
<1>2. OnePublisher
  BY DEF OnePublisher, Publishes
<1>3. Aborters
  BY DEF Aborters
<1>4. EventIsFailure /\ AnnouncedIsPublished
  BY DEF EventIsFailure, AnnouncedIsPublished, Controls
<1>5. OneWaker
  BY DEF OneWaker, Wakes
<1>6. WokenWithReason
  BY DEF WokenWithReason, Aborted
<1> QED
  BY <1>1, <1>2, <1>3, <1>4, <1>5, <1>6 DEF ControlInv

(* The steps that only read the control: waiters, checks and calls. *)
Quiet(t) ==
    \/ AbortLost(t) \/ CheckParent(t) \/ CheckOwn(t)
    \/ \E c \in born \cup {Job} :
          \/ CallCheck(t, c)
          \/ \E f \in Failure, notify \in BOOLEAN : CallAbort(t, c, f, notify)

LEMMA QuietKeepsInv ==
    ASSUME ControlInv, TypeOK', NEW t \in Thread, Quiet(t) PROVE ControlInv'
<1>1. UNCHANGED stateVars
  BY DEF Quiet, AbortLost, CheckParent, CheckOwn, CallCheck, CallAbort
<1>2. doing[t] \notin {"callback", "publish", "take", "wake"}
  BY DEF Quiet, AbortLost, CheckParent, CheckOwn, CallCheck, CallAbort
<1>3. /\ doing'[t] \notin {"callback", "publish", "take", "wake"}
      /\ doing'[t] \in {"claim", "claimQuietly"} => reason'[t] \in Failure
  BY DEF Quiet, AbortLost, CheckParent, CheckOwn, CallCheck, CallAbort, Go, Return,
         ControlInv, TypeOK
<1>4. \A u \in Thread \ {t} : /\ doing'[u] = doing[u]
                              /\ target'[u] = target[u]
                              /\ reason'[u] = reason[u]
  BY DEF Quiet, AbortLost, CheckParent, CheckOwn, CallCheck, CallAbort, Go, Return,
         ControlInv, TypeOK
<1> USE <1>1, <1>2, <1>3, <1>4 DEF ControlInv, stateVars
<1>5. OnePublisher'
  BY DEF OnePublisher, Publishes
<1>6. Aborters'
  BY DEF Aborters
<1>7. EventIsFailure'
  BY DEF EventIsFailure
<1>8. AnnouncedIsPublished'
  BY DEF AnnouncedIsPublished
<1>9. OneWaker'
  BY DEF OneWaker, Wakes
<1>10. WokenWithReason'
  BY DEF WokenWithReason, Aborted
<1> QED
  BY <1>5, <1>6, <1>7, <1>8, <1>9, <1>10

LEMMA ClaimKeepsInv ==
    ASSUME ControlInv, TypeOK', NEW t \in Thread, ClaimAbort(t) PROVE ControlInv'
<1> USE DEF ControlInv, ClaimAbort, Go, TypeOK
<1>1. target[t] \in Controls /\ failure[target[t]] = NoFailure
  BY DEF First
<1>2. target[t] \notin publishing
  BY <1>1 DEF Blocked
<1>3. OnePublisher'
  BY <1>1, <1>2 DEF OnePublisher, Publishes
<1>4. Aborters'
  BY DEF Aborters
<1>5. EventIsFailure'
  BY DEF EventIsFailure
<1>6. AnnouncedIsPublished'
  BY DEF AnnouncedIsPublished
<1>7. OneWaker'
  BY DEF OneWaker, Wakes
<1>8. WokenWithReason'
  BY DEF WokenWithReason, Aborted
<1> QED
  BY <1>3, <1>4, <1>5, <1>6, <1>7, <1>8

LEMMA CallbackKeepsInv ==
    ASSUME ControlInv, TypeOK', NEW t \in Thread, RunCallback(t) PROVE ControlInv'
<1> USE DEF ControlInv, RunCallback, Go, TypeOK
<1>1. target[t] = Job /\ failure[Job] = NoFailure
  BY DEF Aborters, OnePublisher, Publishes
<1>2. announced = NoFailure
  BY <1>1 DEF AnnouncedIsPublished, OnePublisher, Publishes
<1>3. OnePublisher'
  BY DEF OnePublisher, Publishes
<1>4. Aborters'
  BY DEF Aborters
<1>5. EventIsFailure'
  BY DEF EventIsFailure
<1>6. AnnouncedIsPublished'
  BY <1>1, <1>2 DEF AnnouncedIsPublished
<1>7. OneWaker'
  BY DEF OneWaker, Wakes
<1>8. WokenWithReason'
  BY DEF WokenWithReason, Aborted
<1> QED
  BY <1>3, <1>4, <1>5, <1>6, <1>7, <1>8

LEMMA PublishKeepsInv ==
    ASSUME ControlInv, TypeOK', NEW t \in Thread, PublishFailure(t) PROVE ControlInv'
<1> USE DEF ControlInv, PublishFailure, Go, Return, TypeOK
<1>1. /\ target[t] \in Controls /\ target[t] \in publishing
      /\ failure[target[t]] = NoFailure
  BY DEF OnePublisher, Publishes
<1>2. reason[t] \in Failure /\ reason[t] # NoFailure
  BY ControlAssumption DEF Aborters
<1>3. failure'[target[t]] # NoFailure
  BY <1>1, <1>2
<1>4. \A c \in Controls : failure[c] # NoFailure => failure'[c] # NoFailure
  BY <1>1
<1>5. target[t] # Job => failure'[Job] = failure[Job]
  BY <1>1 DEF Controls
<1>6. OnePublisher'
  <2>1. \A u \in Thread : Publishes(u)' => u # t /\ Publishes(u) /\ target'[u] = target[u]
    BY DEF Publishes
  <2>2. \A u \in Thread : Publishes(u)' => target'[u] # target[t]
    BY <2>1 DEF OnePublisher, Publishes
  <2>3. \A c \in publishing' : c # target[t] /\ c \in publishing /\ failure'[c] = failure[c]
    BY <1>1
  <2> QED
    BY <2>1, <2>2, <2>3 DEF OnePublisher
<1>7. Aborters'
  BY <1>2 DEF Aborters
<1>8. EventIsFailure'
  BY <1>1, <1>3, <1>5 DEF EventIsFailure, Controls
<1>9. AnnouncedIsPublished'
  <2>1. CASE target[t] = Job
    BY <2>1, <1>1, <1>2 DEF AnnouncedIsPublished, OnePublisher, Publishes
  <2>2. CASE target[t] # Job
    BY <2>2, <1>5 DEF AnnouncedIsPublished
  <2> QED
    BY <2>1, <2>2
<1>10. OneWaker'
  <2>1. CASE target[t] = Job
    BY <2>1, <1>1, <1>3 DEF OneWaker, Wakes
  <2>2. CASE target[t] # Job
    BY <2>2, <1>5 DEF OneWaker, Wakes
  <2> QED
    BY <2>1, <2>2
<1>11. WokenWithReason'
  BY <1>3, <1>4, <1>1 DEF WokenWithReason, Aborted, Controls
<1> QED
  BY <1>6, <1>7, <1>8, <1>9, <1>10, <1>11

LEMMA TakeKeepsInv ==
    ASSUME ControlInv, TypeOK', NEW t \in Thread, TakeChildren(t) PROVE ControlInv'
<1> USE DEF ControlInv, TakeChildren, Go, TypeOK
<1>1. OnePublisher'
  BY DEF OnePublisher, Publishes
<1>2. Aborters'
  BY DEF Aborters
<1>3. EventIsFailure' /\ WokenWithReason'
  BY DEF EventIsFailure, WokenWithReason, Aborted
<1>4. AnnouncedIsPublished'
  BY DEF AnnouncedIsPublished
<1>5. OneWaker'
  BY DEF OneWaker, Wakes
<1> QED
  BY <1>1, <1>2, <1>3, <1>4, <1>5

LEMMA WakeKeepsInv ==
    ASSUME ControlInv, TypeOK', NEW t \in Thread, NEW s \in Child, WakeChild(t, s)
    PROVE  ControlInv'
<1> USE DEF ControlInv, WakeChild, callVars, TypeOK
<1>1. failure[Job] # NoFailure
  BY DEF OneWaker, Wakes
<1>2. OnePublisher'
  BY DEF OnePublisher, Publishes
<1>3. Aborters'
  BY DEF Aborters
<1>4. EventIsFailure'
  BY ControlAssumption DEF EventIsFailure
<1>5. AnnouncedIsPublished'
  BY DEF AnnouncedIsPublished
<1>6. OneWaker'
  BY DEF OneWaker, Wakes
<1>7. WokenWithReason'
  BY <1>1 DEF WokenWithReason
<1> QED
  BY <1>2, <1>3, <1>4, <1>5, <1>6, <1>7

LEMMA DoneKeepsInv ==
    ASSUME ControlInv, TypeOK', NEW t \in Thread, AbortDone(t) PROVE ControlInv'
<1> USE DEF ControlInv, AbortDone, Return, Go, stateVars, TypeOK
<1>1. OnePublisher'
  BY DEF OnePublisher, Publishes
<1>2. Aborters'
  BY DEF Aborters
<1>3. EventIsFailure' /\ WokenWithReason'
  BY DEF EventIsFailure, WokenWithReason, Aborted
<1>4. AnnouncedIsPublished'
  BY DEF AnnouncedIsPublished
<1>5. OneWaker'
  BY DEF OneWaker, Wakes
<1> QED
  BY <1>1, <1>2, <1>3, <1>4, <1>5

LEMMA ChildKeepsInv ==
    ASSUME ControlInv, TypeOK', NEW t \in Thread, NEW s \in Child,
           NewChild(t, s) \/ ReleaseChild(t, s)
    PROVE  ControlInv'
<1> USE DEF ControlInv, NewChild, ReleaseChild, Derive, callVars, TypeOK
<1>1. OnePublisher'
  BY DEF OnePublisher, Publishes
<1>2. Aborters'
  BY DEF Aborters
<1>3. EventIsFailure'
  BY ControlAssumption DEF EventIsFailure
<1>4. AnnouncedIsPublished'
  BY DEF AnnouncedIsPublished
<1>5. OneWaker'
  BY DEF OneWaker, Wakes, EventIsFailure
<1>6. WokenWithReason'
  BY DEF WokenWithReason, Aborted, EventIsFailure
<1> QED
  BY <1>1, <1>2, <1>3, <1>4, <1>5, <1>6

LEMMA ControlInvStep == ControlInv /\ [ControlNext]_controlVars => ControlInv'
<1> SUFFICES ASSUME ControlInv, [ControlNext]_controlVars PROVE ControlInv'
  OBVIOUS
<1>1. TypeOK'
  BY ControlTypeStep DEF ControlInv
<1>2. CASE UNCHANGED controlVars
  BY <1>1, <1>2 DEF controlVars, stateVars, callVars, ControlInv, OnePublisher,
     Publishes, Aborters, EventIsFailure, AnnouncedIsPublished, OneWaker, Wakes,
     WokenWithReason, Aborted
<1>3. ASSUME NEW t \in Thread, ControlStep(t) \/ Call(t) PROVE ControlInv'
  <2>1. CASE Quiet(t)
    BY <1>1, <2>1, QuietKeepsInv
  <2>2. CASE ClaimAbort(t)
    BY <1>1, <2>2, ClaimKeepsInv
  <2>3. CASE RunCallback(t)
    BY <1>1, <2>3, CallbackKeepsInv
  <2>4. CASE PublishFailure(t)
    BY <1>1, <2>4, PublishKeepsInv
  <2>5. CASE TakeChildren(t)
    BY <1>1, <2>5, TakeKeepsInv
  <2>6. CASE AbortDone(t)
    BY <1>1, <2>6, DoneKeepsInv
  <2>7. ASSUME NEW s \in Child, WakeChild(t, s) PROVE ControlInv'
    BY <1>1, <2>7, WakeKeepsInv
  <2>8. ASSUME NEW s \in Child, NewChild(t, s) \/ ReleaseChild(t, s) PROVE ControlInv'
    BY <1>1, <2>8, ChildKeepsInv
  <2> QED
    BY <1>3, <2>1, <2>2, <2>3, <2>4, <2>5, <2>6, <2>7, <2>8 DEF ControlStep, Call, Quiet
<1> QED
  BY <1>2, <1>3 DEF ControlNext

LEMMA ControlInvariant == ControlSpec => []ControlInv
  BY ControlInvInit, ControlInvStep, PTL DEF ControlSpec

-----------------------------------------------------------------------------
(* The properties *)

(* No one learns of an abort before its callback has returned. *)
THEOREM AbortAnnouncedFirst == ControlSpec => []AnnouncedBeforeKnown
<1>1. ControlInv => AnnouncedBeforeKnown
  BY DEF ControlInv, AnnouncedBeforeKnown, EventIsFailure, AnnouncedIsPublished,
         OnePublisher, Publishes
<1> QED
  BY <1>1, ControlInvariant, PTL

(* A wake-up always has a failure behind it. *)
THEOREM WakeUpHasReason == ControlSpec => []WokenWithReason
<1>1. ControlInv => WokenWithReason
  BY DEF ControlInv
<1> QED
  BY <1>1, ControlInvariant, PTL

(* Whoever learns of an abort learns of one that has been announced. *)
THEOREM AbortPublishedFirst == ControlSpec => []AbortIsPublished
<1>1. AnnouncedBeforeKnown /\ WokenWithReason => AbortIsPublished
  BY DEF AbortIsPublished
<1> QED
  BY <1>1, AbortAnnouncedFirst, WakeUpHasReason, PTL

(* When the aborting thread has returned, no registered child is unwoken. *)
THEOREM ChildrenWoken == ControlSpec => []EveryChildWoken
<1>1. ControlInv => EveryChildWoken
  BY DEF ControlInv, EveryChildWoken, EventIsFailure, OneWaker
<1> QED
  BY <1>1, ControlInvariant, PTL

(* A control's first failure is never replaced. *)
THEOREM FailureIsFinal == ControlSpec => FirstFailureWins
<1>1. ASSUME ControlInv, [ControlNext]_controlVars, NEW c \in Controls,
             failure[c] # NoFailure
      PROVE  failure'[c] = failure[c]
  <2>1. CASE \E t \in Thread : PublishFailure(t)
    BY <1>1, <2>1 DEF PublishFailure, ControlInv, OnePublisher, Publishes, TypeOK
  <2>2. CASE ~\E t \in Thread : PublishFailure(t)
    BY <1>1, <2>2 DEF ControlNext, ControlStep, Call, controlVars, stateVars, ClaimAbort,
       AbortLost, RunCallback, TakeChildren, AbortDone, CheckParent, CheckOwn, WakeChild,
       CallCheck, CallAbort, NewChild, ReleaseChild
  <2> QED
    BY <2>1, <2>2
<1>2. ControlInv /\ [ControlNext]_controlVars =>
         [\A c \in Controls : failure[c] # NoFailure => failure'[c] = failure[c]]_controlVars
  BY <1>1
<1> QED
  BY <1>2, ControlInvariant, PTL DEF ControlSpec, FirstFailureWins
=============================================================================
