---------------------------- MODULE KgRunControl ----------------------------
(***************************************************************************)
(* KgExtractionRunControl: the abort protocol of one knowledge-graph run.  *)
(* The control of the whole job has children, one per source analysed, and *)
(* any thread may abort a control, ask whether it is aborted, derive or    *)
(* release a child.  Here the threads call in any order.                   *)
(*                                                                         *)
(* Every region under `_lock' or `_children_lock' is one action; the       *)
(* on_abort callback runs outside of both, between claiming an abort and   *)
(* publishing it.                                                          *)
(***************************************************************************)
EXTENDS Naturals, FiniteSets

CONSTANTS
    Job,         \* the control of the whole job
    Child,       \* the controls of its sources
    Thread,
    Failure,     \* classified failures, KgBuildFailure
    NoFailure

ASSUME ControlAssumption ==
    /\ Job \notin Child
    /\ NoFailure \notin Failure

VARIABLES
    failure,     \* failure[c]: _failure of control c
    isSet,       \* controls whose _event is set
    publishing,  \* controls whose _publishing is TRUE
    children,    \* _children of the job's control
    born,        \* children that exist
    waking,      \* children taken from _children, their events still to be set
    announced,   \* the failure on_abort has published, if it has
    doing,       \* doing[t]: where thread t is inside the control
    target,      \* target[t]: the control it has called
    reason,      \* reason[t]: the failure it aborts with
    told         \* told[t]: what its last call returned or raised, if anything

stateVars == <<failure, isSet, publishing, children, born, waking, announced>>
callVars  == <<doing, target, reason, told>>
controlVars == <<stateVars, callVars>>

Controls == Child \cup {Job}

Phases == {"idle", "claim", "claimQuietly", "callback", "publish", "take", "wake",
           "checkParent", "checkOwn"}

(* Types; a child is registered or about to be woken, never both. *)
TypeOK ==
    /\ failure \in [Controls -> Failure \cup {NoFailure}]
    /\ isSet \in SUBSET Controls
    /\ publishing \in SUBSET Controls
    /\ born \in SUBSET Child /\ children \in SUBSET born /\ waking \in SUBSET born
    /\ children \cap waking = {}
    /\ announced \in Failure \cup {NoFailure}
    /\ doing \in [Thread -> Phases]
    /\ target \in [Thread -> Controls]
    /\ reason \in [Thread -> Failure \cup {NoFailure}]
    /\ told \in [Thread -> Failure \cup {NoFailure}]

ControlInit ==
    /\ failure = [c \in Controls |-> NoFailure]
    /\ isSet = {} /\ publishing = {} /\ children = {} /\ born = {} /\ waking = {}
    /\ announced = NoFailure
    /\ doing = [t \in Thread |-> "idle"]
    /\ target = [t \in Thread |-> Job]
    /\ reason = [t \in Thread |-> NoFailure]
    /\ told = [t \in Thread |-> NoFailure]

-----------------------------------------------------------------------------
(* Helpers *)

(* Where a thread has to wait on _lock: an abort is being published. *)
Blocked(c) == c \in publishing /\ failure[c] = NoFailure

(* The `aborted' property of a control. *)
Aborted(c) == c \in isSet \/ Job \in isSet

Go(t, phase) == doing' = [doing EXCEPT ![t] = phase]

(* The call returns, or raises KgBuildAborted, with f. *)
Return(t, f) ==
    /\ Go(t, "idle")
    /\ told' = [told EXCEPT ![t] = f]
    /\ UNCHANGED <<target, reason>>

-----------------------------------------------------------------------------
(* abort *)

CallAbort(t, c, f, notify) ==
    /\ doing[t] = "idle"
    /\ Go(t, IF notify THEN "claim" ELSE "claimQuietly")
    /\ target' = [target EXCEPT ![t] = c]
    /\ reason' = [reason EXCEPT ![t] = f]
    /\ told' = [told EXCEPT ![t] = NoFailure]
    /\ UNCHANGED stateVars

First(c) == failure[c] = NoFailure

(* Faulty: the event is set when the abort is claimed. *)
FaultyClaimAbort(t) ==
    LET c == target[t] IN
    /\ doing[t] \in {"claim", "claimQuietly"}
    /\ ~Blocked(c) /\ First(c)
    /\ publishing' = publishing \cup {c}
    /\ isSet' = isSet \cup {c}
    /\ Go(t, IF doing[t] = "claim" /\ c = Job THEN "callback" ELSE "publish")
    /\ UNCHANGED <<failure, children, born, waking, announced, target, reason, told>>

ClaimAbort(t) ==
    LET c == target[t] IN
    /\ doing[t] \in {"claim", "claimQuietly"}
    /\ ~Blocked(c)
    /\ First(c)
    /\ publishing' = publishing \cup {c}
    /\ Go(t, IF doing[t] = "claim" /\ c = Job THEN "callback" ELSE "publish")
    /\ UNCHANGED <<failure, isSet, children, born, waking, announced, target, reason, told>>

AbortLost(t) ==
    LET c == target[t] IN
    /\ doing[t] \in {"claim", "claimQuietly"}
    /\ ~Blocked(c)
    /\ ~First(c)
    /\ Return(t, failure[c])
    /\ UNCHANGED stateVars

(* Faulty: an on_abort that raises ends the abort. *)
FaultyRunCallback(t) ==
    /\ doing[t] = "callback"
    /\ \/ announced' = reason[t] /\ Go(t, "publish") /\ UNCHANGED told
       \/ announced' = announced /\ Go(t, "idle") /\ UNCHANGED told
    /\ UNCHANGED <<failure, isSet, publishing, children, born, waking, target, reason>>

(* on_abort: whether it publishes the failure or raises, the abort goes on. *)
RunCallback(t) ==
    /\ doing[t] = "callback"
    /\ announced' \in {announced, reason[t]}
    /\ Go(t, "publish")
    /\ UNCHANGED <<failure, isSet, publishing, children, born, waking, target, reason, told>>

(* A child has no children of its own: its abort ends here. *)
PublishFailure(t) ==
    LET c == target[t] IN
    /\ doing[t] = "publish"
    /\ failure' = [failure EXCEPT ![c] = reason[t]]
    /\ isSet' = isSet \cup {c}
    /\ publishing' = publishing \ {c}
    /\ IF c = Job
         THEN Go(t, "take") /\ UNCHANGED <<target, reason, told>>
         ELSE Return(t, reason[t])
    /\ UNCHANGED <<children, born, waking, announced>>

(* Under _children_lock the children are copied and forgotten. *)
TakeChildren(t) ==
    /\ doing[t] = "take"
    /\ waking' = children
    /\ children' = {}
    /\ Go(t, "wake")
    /\ UNCHANGED <<failure, isSet, publishing, born, announced, target, reason, told>>

WakeChild(t, s) ==
    /\ doing[t] = "wake"
    /\ s \in waking
    /\ isSet' = isSet \cup {s}
    /\ waking' = waking \ {s}
    /\ UNCHANGED <<failure, publishing, children, born, announced, callVars>>

AbortDone(t) ==
    /\ doing[t] = "wake"
    /\ waking = {}
    /\ Return(t, reason[t])
    /\ UNCHANGED stateVars

-----------------------------------------------------------------------------
(* raise_if_aborted: the parent first, then the control itself *)

CallCheck(t, c) ==
    /\ doing[t] = "idle"
    /\ Go(t, IF c = Job THEN "checkOwn" ELSE "checkParent")
    /\ target' = [target EXCEPT ![t] = c]
    /\ told' = [told EXCEPT ![t] = NoFailure]
    /\ UNCHANGED <<stateVars, reason>>

CheckParent(t) ==
    /\ doing[t] = "checkParent"
    /\ ~Blocked(Job)
    /\ IF failure[Job] # NoFailure
         THEN Return(t, failure[Job])
         ELSE Go(t, "checkOwn") /\ UNCHANGED <<target, reason, told>>
    /\ UNCHANGED stateVars

CheckOwn(t) ==
    /\ doing[t] = "checkOwn"
    /\ ~Blocked(target[t])
    /\ Return(t, failure[target[t]])
    /\ UNCHANGED stateVars

-----------------------------------------------------------------------------
(* child and release_child *)

(* Faulty: a child is registered whether or not the job is aborted. *)
FaultyDerive(s) ==
    /\ children' = children \cup {s} /\ UNCHANGED isSet

(* A child of an aborted job is born aborted, any other is registered. *)
Derive(s) ==
    IF Job \in isSet
      THEN isSet' = isSet \cup {s} /\ UNCHANGED children
      ELSE children' = children \cup {s} /\ UNCHANGED isSet

NewChild(t, s) ==
    /\ doing[t] = "idle"
    /\ s \notin born
    /\ born' = born \cup {s}
    /\ Derive(s)
    /\ UNCHANGED <<failure, publishing, waking, announced, callVars>>

ReleaseChild(t, s) ==
    /\ doing[t] = "idle"
    /\ s \in born
    /\ children' = children \ {s}
    /\ UNCHANGED <<failure, isSet, publishing, born, waking, announced, callVars>>

-----------------------------------------------------------------------------

(* The steps of a call once it has been made. *)
ControlStep(t) ==
    \/ ClaimAbort(t) \/ AbortLost(t) \/ RunCallback(t) \/ PublishFailure(t)
    \/ TakeChildren(t) \/ AbortDone(t) \/ CheckParent(t) \/ CheckOwn(t)
    \/ \E s \in Child : WakeChild(t, s)

Call(t) ==
    \/ \E c \in born \cup {Job} :
          \/ CallCheck(t, c)
          \/ \E f \in Failure, notify \in BOOLEAN : CallAbort(t, c, f, notify)
    \/ \E s \in Child : NewChild(t, s) \/ ReleaseChild(t, s)

ControlNext == \E t \in Thread : ControlStep(t) \/ Call(t)

ControlSpec == ControlInit /\ [][ControlNext]_controlVars

(* The threads keep running; nobody has to call. *)
FairControlSpec == ControlSpec /\ \A t \in Thread : WF_controlVars(ControlStep(t))

-----------------------------------------------------------------------------
(* Properties *)

(* The first failure of a control is its failure for good. *)
FirstFailureWins ==
    [][\A c \in Controls : failure[c] # NoFailure => failure'[c] = failure[c]]_controlVars

(***************************************************************************)
(* Nobody can learn of an abort, by its event or its failure, before the   *)
(* callback that makes it durable has returned, and the failure announced  *)
(* is the one everybody is told.                                           *)
(***************************************************************************)
AnnouncedBeforeKnown ==
    /\ Job \in isSet \/ failure[Job] # NoFailure =>
          \A t \in Thread : ~(target[t] = Job /\ doing[t] = "callback")
    /\ announced # NoFailure /\ failure[Job] # NoFailure => announced = failure[Job]

(***************************************************************************)
(* Whoever finds a control aborted, or is woken by its event, finds a      *)
(* failure to raise: it never takes the wake-up for a normal end.          *)
(***************************************************************************)
WokenWithReason ==
    \A c \in Controls : Aborted(c) => failure[c] # NoFailure \/ failure[Job] # NoFailure

(* The two together, the promise of the abort: announced, then known. *)
AbortIsPublished == AnnouncedBeforeKnown /\ WokenWithReason

(***************************************************************************)
(* No child sleeps through an abort of the job: once the aborting thread   *)
(* has returned no child is left registered and unwoken, not even one      *)
(* derived between the event and the wake-ups.                             *)
(***************************************************************************)
EveryChildWoken ==
    /\ Job \in isSet
    /\ \A t \in Thread : doing[t] \notin {"take", "wake"}
    => children = {} /\ waking = {}

(* Every call of the control returns. *)
CallsReturn == \A t \in Thread : doing[t] # "idle" ~> doing[t] = "idle"
=============================================================================
