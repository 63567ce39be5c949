----------------------------- MODULE ReportJobs -----------------------------
(***************************************************************************)
(* One deep report: the row that says how far it is, the requests that     *)
(* claim it for the next phase (create, confirm the question, generate),   *)
(* the background worker each of them starts, the edit of its outline, the *)
(* cancel and the deletion, the registry of cancel events and the gate     *)
(* that bounds the generations of the process.                             *)
(*                                                                         *)
(* A request and the worker it starts are one process: at[x] says what it  *)
(* does next.  A step is one statement on the row, one operation on the    *)
(* registry or on the gate, or the engine's work between two of these.     *)
(***************************************************************************)
EXTENDS Naturals

CONSTANTS
    Creator,    \* the request that creates the report
    Confirm, Generate, Edit, Cancel, Delete,    \* the requests that may follow
    None,
    Capacity    \* ReportGenerationGate.capacity

Worker == {Creator} \cup Confirm \cup Generate
Process == Worker \cup Edit \cup Cancel \cup Delete

ASSUME ReportAssumption ==
    /\ Creator \notin Confirm \cup Generate \cup Edit \cup Cancel \cup Delete
    /\ Confirm \cap (Generate \cup Edit \cup Cancel \cup Delete) = {}
    /\ Generate \cap (Edit \cup Cancel \cup Delete) = {}
    /\ Edit \cap (Cancel \cup Delete) = {} /\ Cancel \cap Delete = {}
    /\ None \notin Process
    /\ Capacity \in Nat \ {0}

VARIABLES
    status, outline, content,   \* the row; an outline is named after who wrote it, and so is what was generated from it
    auto,       \* auto_generate_requested
    at,         \* at[x]: what x does next
    seen,       \* seen[x]: the outline that the generation of x has read
    registry,   \* whose cancel event is registered for the report
    signalled,  \* the workers whose event is set
    told,       \* told[c]: what the cancel request c answers
    permits,    \* free permits of the gate
    elsewhere,  \* permits that generations of other reports hold
    overtaken   \* history: the edits that a claim of the generation has overtaken

row == <<status, outline, content>>
gate == <<permits, elsewhere>>
vars == <<status, outline, content, auto, at, seen, registry, signalled, told,
          permits, elsewhere, overtaken>>

InFlight == {"pending", "planning", "generating"}
Final == {"done", "cancelled"}
Absent == {"none", "deleted"}
Sticky == Final \cup {"failed"} \cup Absent
Statuses == InFlight \cup Sticky \cup {"intent_ready", "outline_ready"}

Launch == {"registering", "submitting", "starting"}
PlanPoints == {"understanding", "contracting", "publishing", "planning", "outlining"}
Slot == {"holding", "writing", "completing"}
GenerationPoints == {"opening", "waiting", "failing", "stopping"} \cup Slot
Points == Launch \cup PlanPoints \cup GenerationPoints
            \cup {"new", "confirming", "claiming", "releasing", "unregistering",
                  "saving", "rereading", "signalling", "ended"}

Author == Worker \cup Edit

TypeOK ==
    /\ status \in Statuses
    /\ outline \in Author \cup {None} /\ content \in Author \cup {None}
    /\ auto \in BOOLEAN
    /\ at \in [Process -> Points]
    /\ seen \in [Worker -> Author \cup {None}]
    /\ registry \in Worker \cup {None} /\ signalled \subseteq Worker
    /\ told \in [Cancel -> Statuses]
    /\ permits \in Nat /\ elsewhere \in Nat
    /\ overtaken \subseteq Edit

Init ==
    /\ status = "none" /\ outline = None /\ content = None
    /\ auto \in BOOLEAN
    /\ at = [x \in Process |-> "new"]
    /\ seen = [x \in Worker |-> None]
    /\ registry = None /\ signalled = {}
    /\ told = [c \in Cancel |-> "none"]
    /\ elsewhere \in 0 .. Capacity /\ permits = Capacity - elsewhere
    /\ overtaken = {}

Goes(x, from, to) == at[x] = from /\ at' = [at EXCEPT ![x] = to]

(* update_report: a terminal row keeps its status and everything else. *)
Writable == status \notin Sticky
Updated(s) == IF Writable THEN s ELSE status
Update(s) == status' = Updated(s)

Stop(x, from) == x \in signalled /\ Goes(x, from, "unregistering") /\ Update("cancelled")
Fail(x, from) == Goes(x, from, "unregistering") /\ Update("failed")

-----------------------------------------------------------------------------
(* The requests *)

Create(x) ==
    /\ x = Creator /\ status = "none"
    /\ status' = "pending"
    /\ Goes(x, "new", "registering")
    /\ UNCHANGED <<outline, content, auto, seen, registry, signalled, told, gate, overtaken>>

AskToConfirm(x) ==
    /\ x \in Confirm /\ status = "intent_ready"
    /\ Goes(x, "new", "confirming")
    /\ UNCHANGED <<row, auto, seen, registry, signalled, told, gate, overtaken>>

AskToGenerate(x) ==
    /\ x \in Generate
    /\ status = "outline_ready" \/ (status = "failed" /\ outline # None)
    /\ Goes(x, "new", "claiming")
    /\ UNCHANGED <<row, auto, seen, registry, signalled, told, gate, overtaken>>

(* The new event takes the place of the one of the phase before, whose      *)
(* worker may not have unregistered yet.                                    *)
Register(x) ==
    /\ Goes(x, "registering", "submitting")
    /\ registry' = x
    /\ UNCHANGED <<row, auto, seen, signalled, told, gate, overtaken>>

Submit(x) ==
    /\ \/ Goes(x, "submitting", "starting") /\ UNCHANGED status
       \/ Fail(x, "submitting")
    /\ UNCHANGED <<outline, content, auto, seen, registry, signalled, told, gate, overtaken>>

(* Faulty: the event that is registered is removed, whosever it is. *)
FaultyUnregister(x) ==
    /\ Goes(x, "unregistering", "ended")
    /\ registry' = None
    /\ seen' = [seen EXCEPT ![x] = None]
    /\ UNCHANGED <<row, auto, signalled, told, gate, overtaken>>

Unregister(x) ==
    /\ Goes(x, "unregistering", "ended")
    /\ registry' = IF registry = x THEN None ELSE registry
    /\ seen' = [seen EXCEPT ![x] = None]
    /\ UNCHANGED <<row, auto, signalled, told, gate, overtaken>>

-----------------------------------------------------------------------------
(* The start of a worker: the row is read once more, the ceiling entered *)

FirstStage(x) ==
    CASE x = Creator -> "understanding" [] x \in Confirm -> "planning" [] OTHER -> "opening"

StartWorker(x) ==
    /\ status # "deleted"
    /\ IF status = "cancelled" \/ x \in signalled
       THEN Goes(x, "starting", "unregistering")
       ELSE Goes(x, "starting", FirstStage(x))
    /\ UNCHANGED <<row, auto, seen, registry, signalled, told, gate, overtaken>>

(* Only a generation depends on what is read. *)
StartUnread(x) ==
    /\ IF x \in Generate THEN Fail(x, "starting")
       ELSE Goes(x, "starting", FirstStage(x)) /\ UNCHANGED status
    /\ UNCHANGED <<outline, content, auto, seen, registry, signalled, told, gate, overtaken>>

(* A stop ends it quietly: the row is cancelled already. *)
CeilingFails(x) ==
    /\ at[x] \in {"understanding", "planning", "opening"}
    /\ at' = [at EXCEPT ![x] = "unregistering"]
    /\ IF x \in signalled THEN UNCHANGED status ELSE Update("failed")
    /\ UNCHANGED <<outline, content, auto, seen, registry, signalled, told, gate, overtaken>>

-----------------------------------------------------------------------------
(* prepare_intent, and the automatic confirmation of a clear question *)

Understand(x) ==
    /\ Goes(x, "understanding", "contracting")
    /\ Update("planning")
    /\ UNCHANGED <<outline, content, auto, seen, registry, signalled, told, gate, overtaken>>

Contract(x) ==
    /\ \/ x \notin signalled /\ Goes(x, "contracting", "publishing") /\ UNCHANGED status
       \/ Stop(x, "contracting")
       \/ Fail(x, "contracting")
    /\ UNCHANGED <<outline, content, auto, seen, registry, signalled, told, gate, overtaken>>

PublishIntent(x) ==
    /\ \E clear \in BOOLEAN :
         Goes(x, "publishing", IF auto /\ clear THEN "confirming" ELSE "unregistering")
    /\ Update("intent_ready")
    /\ UNCHANGED <<outline, content, auto, seen, registry, signalled, told, gate, overtaken>>

(* claim_report_intent, by the owner's request or by the worker itself *)
ClaimIntent(x) ==
    /\ IF status = "intent_ready"
       THEN /\ status' = "planning"
            /\ Goes(x, "confirming", IF x = Creator THEN "planning" ELSE "registering")
       ELSE /\ UNCHANGED status
            /\ Goes(x, "confirming", IF x = Creator THEN "unregistering" ELSE "ended")
    /\ UNCHANGED <<outline, content, auto, seen, registry, signalled, told, gate, overtaken>>

(* The scope is no longer valid, the answer is refused, or anything failed. *)
LeaveIntent(x) ==
    /\ Goes(x, "confirming", IF x = Creator THEN "unregistering" ELSE "ended")
    /\ UNCHANGED <<row, auto, seen, registry, signalled, told, gate, overtaken>>

-----------------------------------------------------------------------------
(* plan_outline; what it came to is not looked at before the claim *)

BeginPlan(x) ==
    /\ Goes(x, "planning", "outlining")
    /\ Update("planning")
    /\ UNCHANGED <<outline, content, auto, seen, registry, signalled, told, gate, overtaken>>

EndPlan(x) ==
    /\ Goes(x, "outlining", IF auto THEN "claiming" ELSE "unregistering")
    /\ \/ /\ Update("outline_ready")
          /\ outline' = IF Writable THEN x ELSE outline
       \/ Update("failed") /\ UNCHANGED outline
       \/ x \in signalled /\ Update("cancelled") /\ UNCHANGED outline
    /\ UNCHANGED <<content, auto, seen, registry, signalled, told, gate, overtaken>>

-----------------------------------------------------------------------------
(* claim_report_generation, by a request or by the worker of an automatic   *)
(* report                                                                   *)

(* Faulty: the row is not compared again. *)
FaultyClaimable == Writable \/ status = "failed"

Claimable == status \in {"outline_ready", "failed"}

ClaimGeneration(x) ==
    /\ IF Claimable
       THEN /\ status' = "generating" /\ content' = None
            /\ Goes(x, "claiming", IF x \in Generate THEN "registering" ELSE "opening")
            /\ overtaken' = overtaken \cup {e \in Edit : at[e] = "saving"}
       ELSE /\ UNCHANGED <<status, content, overtaken>>
            /\ Goes(x, "claiming", IF x \in Generate THEN "ended" ELSE "unregistering")
    /\ UNCHANGED <<outline, auto, seen, registry, signalled, told, gate>>

-----------------------------------------------------------------------------
(* _generate_run *)

OpenOutline(x) ==
    /\ IF status = "deleted" \/ outline = None
       THEN Fail(x, "opening") /\ UNCHANGED seen
       ELSE /\ Goes(x, "opening", "waiting")
            /\ seen' = [seen EXCEPT ![x] = outline]
            /\ UNCHANGED status
    /\ UNCHANGED <<outline, content, auto, registry, signalled, told, gate, overtaken>>

(* The loop of the gate: a cancelled worker leaves it, one that finds no    *)
(* permit says so, one that has taken a permit may have been signalled just *)
(* before.                                                                  *)
WaitForGate(x) ==
    /\ \/ Stop(x, "waiting") /\ UNCHANGED permits
       \/ /\ permits = 0
          /\ Goes(x, "waiting", "waiting") /\ Update("generating") /\ UNCHANGED permits
       \/ /\ permits > 0 /\ permits' = permits - 1
          /\ Goes(x, "waiting", "holding") /\ UNCHANGED status
    /\ UNCHANGED <<outline, content, auto, seen, registry, signalled, told, elsewhere, overtaken>>

BeginWriting(x) ==
    /\ Goes(x, "holding", "writing")
    /\ Update("generating")
    /\ UNCHANGED <<outline, content, auto, seen, registry, signalled, told, gate, overtaken>>

FinishWriting(x) ==
    /\ \/ /\ x \notin signalled
          /\ Goes(x, "writing", "completing") /\ UNCHANGED <<status, content>>
       \/ (* no section has a body: what there is goes into the failed row *)
          /\ Goes(x, "writing", "releasing")
          /\ Update("failed") /\ content' = IF Writable THEN seen[x] ELSE content
    /\ UNCHANGED <<outline, auto, seen, registry, signalled, told, gate, overtaken>>

Complete(x) ==
    /\ Goes(x, "completing", "releasing")
    /\ IF status = "generating" THEN status' = "done" /\ content' = seen[x]
                                ELSE UNCHANGED <<status, content>>
    /\ UNCHANGED <<outline, auto, seen, registry, signalled, told, gate, overtaken>>

(* Faulty: a permit is only given back after a generation that returned. *)
FaultyUnwind(x) ==
    /\ at[x] \in Slot
    /\ at' = [at EXCEPT ![x] = IF x \in signalled THEN "stopping" ELSE "failing"]
    /\ UNCHANGED <<row, auto, seen, registry, signalled, told, gate, overtaken>>

(* An exception leaves the gate first; then the handler writes the row. *)
Unwind(x) ==
    /\ at[x] \in Slot
    /\ \E to \in {"stopping", "failing"} :
         /\ to = "stopping" => x \in signalled
         /\ at' = [at EXCEPT ![x] = to]
    /\ permits' = permits + 1
    /\ UNCHANGED <<row, auto, seen, registry, signalled, told, elsewhere, overtaken>>

HandleException(x) ==
    /\ Stop(x, "stopping") \/ Fail(x, "failing")
    /\ UNCHANGED <<outline, content, auto, seen, registry, signalled, told, gate, overtaken>>

Release(x) ==
    /\ Goes(x, "releasing", "unregistering")
    /\ permits' = permits + 1
    /\ UNCHANGED <<row, auto, seen, registry, signalled, told, elsewhere, overtaken>>

(* A generation of another report ends. *)
OtherEnds ==
    /\ elsewhere > 0
    /\ elsewhere' = elsewhere - 1 /\ permits' = permits + 1
    /\ UNCHANGED <<row, auto, at, seen, registry, signalled, told, overtaken>>

-----------------------------------------------------------------------------
(* The edit of the outline reads the row, checks the proposal, and writes *)

(* Faulty: the status is not looked at. *)
FaultyEditable == Writable

Editable == status = "outline_ready"

ReadForEdit(e) ==
    /\ Editable
    /\ Goes(e, "new", "saving")
    /\ UNCHANGED <<row, auto, seen, registry, signalled, told, gate, overtaken>>

SaveOutline(e) ==
    /\ Goes(e, "saving", "ended")
    /\ outline' = IF Writable THEN e ELSE outline
    /\ UNCHANGED <<status, content, auto, seen, registry, signalled, told, gate, overtaken>>

-----------------------------------------------------------------------------
(* The cancel: the row first, then what became of it, then the event *)

CancelRow(c) ==
    /\ status \notin Absent
    /\ Goes(c, "new", "rereading")
    /\ Update("cancelled")
    /\ UNCHANGED <<outline, content, auto, seen, registry, signalled, told, gate, overtaken>>

RereadRow(c) ==
    /\ told' = [told EXCEPT ![c] = status]
    /\ Goes(c, "rereading", IF status = "cancelled" THEN "signalling" ELSE "ended")
    /\ UNCHANGED <<row, auto, seen, registry, signalled, gate, overtaken>>

Signal(c) ==
    /\ Goes(c, "signalling", "ended")
    /\ signalled' = signalled \cup ({registry} \ {None})
    /\ UNCHANGED <<row, auto, seen, registry, told, gate, overtaken>>

DeleteRow(d) ==
    /\ status \notin Absent
    /\ Goes(d, "new", "ended")
    /\ status' = "deleted" /\ content' = None
    /\ UNCHANGED <<outline, auto, seen, registry, signalled, told, gate, overtaken>>

-----------------------------------------------------------------------------
LaunchStep(x) == Register(x) \/ Submit(x) \/ StartWorker(x) \/ StartUnread(x)

PlanStep(x) ==
    \/ Understand(x) \/ Contract(x) \/ PublishIntent(x) \/ ClaimIntent(x)
    \/ BeginPlan(x) \/ EndPlan(x)

GenerationStep(x) ==
    \/ ClaimGeneration(x) \/ OpenOutline(x) \/ BeginWriting(x) \/ FinishWriting(x)
    \/ Complete(x) \/ HandleException(x) \/ Release(x)

WorkerStep(x) ==
    LaunchStep(x) \/ PlanStep(x) \/ GenerationStep(x) \/ Unregister(x)

CancelStep(c) == RereadRow(c) \/ Signal(c)

Next ==
    \/ \E x \in Worker :
         \/ Create(x) \/ AskToConfirm(x) \/ AskToGenerate(x)
         \/ WorkerStep(x) \/ WaitForGate(x)
         \/ CeilingFails(x) \/ LeaveIntent(x) \/ Unwind(x)
    \/ OtherEnds
    \/ \E e \in Edit : ReadForEdit(e) \/ SaveOutline(e)
    \/ \E c \in Cancel : CancelRow(c) \/ CancelStep(c)
    \/ \E d \in Delete : DeleteRow(d)

Spec == Init /\ [][Next]_vars

(* Requests that have claimed the row go on, threads run, engines end, and  *)
(* the generations of other reports give their permits back.  Nothing makes *)
(* an engine fail, and no client has to ask for anything.                   *)
FairSpec ==
    /\ Spec
    /\ \A x \in Worker : WF_vars(WorkerStep(x)) /\ WF_vars(WaitForGate(x))
    /\ WF_vars(OtherEnds)

-----------------------------------------------------------------------------
(* Properties *)

(* x has claimed the row and will still write what becomes of it. *)
Generates(x) ==
    at[x] \in GenerationPoints \/ (x \in Generate /\ at[x] \in Launch)
Plans(x) ==
    at[x] \in PlanPoints \/ (x \notin Generate /\ at[x] \in Launch)
Owns(x) == Generates(x) \/ Plans(x)

(***************************************************************************)
(* A row on which work is going on has one worker, whatever requests,      *)
(* automatic claims, retries and edits ran into each other: no second one  *)
(* plans or generates beside it, and no worker leaves the row behind in a  *)
(* state that nobody will end.                                             *)
(***************************************************************************)
OneOwner ==
    /\ \A x, y \in Worker : Owns(x) /\ Owns(y) => x = y
    /\ status \in InFlight => \E x \in Worker : Owns(x)

(***************************************************************************)
(* What a cancel answers stays true: a report reported as cancelled or as  *)
(* done is never anything else while it exists.  And when it has returned, *)
(* a requested generation that still runs has been signalled, although the *)
(* worker of the phase before may have unregistered after it.              *)
(***************************************************************************)
CancelStops ==
    \A c \in Cancel :
      /\ told[c] \in Final => status \in {told[c], "deleted"}
      /\ told[c] = "cancelled" /\ at[c] = "ended" =>
           \A x \in Generate : at[x] \in {"waiting"} \cup Slot => x \in signalled

(***************************************************************************)
(* A finished report was generated from the outline it shows, except if an *)
(* edit had found the outline ready before the generation was claimed and  *)
(* wrote its own afterwards.                                               *)
(***************************************************************************)
DoneMatchesOutline ==
    status = "done" => content # None /\ (content = outline \/ outline \in overtaken)

(***************************************************************************)
(* Work on a report ends: the row comes to rest at a gate of its owner or  *)
(* in a terminal state, also when the permit of the generation gate was    *)
(* taken or an earlier generation had failed in it.                        *)
(***************************************************************************)
ReportSettles == status \in InFlight ~> status \notin InFlight
=============================================================================
