----------------------------- MODULE KgAdmission -----------------------------
(***************************************************************************)
(* Who may rewrite the knowledge graph of one notebook: the in-process     *)
(* marker of an analysis (kg_building), the slot of maintenance passes     *)
(* (KgMaintenanceJobs.jobs), the lock that arbitrates between them and the *)
(* durable row of the running analysis, unique for a notebook.             *)
(*                                                                         *)
(* A caller is one attempt: an analysis, an analysis for an indexing       *)
(* pipeline, a standalone delete (an `erasure'), a maintenance pass, or    *)
(* the maintenance pass that deletes the graph.  Another process may run   *)
(* its own analysis at any time; it shares the durable row only.           *)
(***************************************************************************)
EXTENDS Naturals, FiniteSets

CONSTANTS
    Analysis,    \* build and rebuild jobs run by _run_notebook_kg_job
    Pipeline,    \* rebuild jobs run by execute_indexing_pipeline_rebuild
    Erasure,     \* callers of the standalone delete_notebook_kg
    Pass,        \* relink and unified-rebuild passes
    Deletion,    \* passes that delete the graph
    Nobody, Other

Builder    == Analysis \cup Pipeline
Marking    == Builder \cup Erasure    \* those that reserve kg_building
Maintainer == Pass \cup Deletion      \* those that claim the slot
Caller     == Marking \cup Maintainer

ASSUME AdmissionAssumption ==
    /\ Analysis \cap Pipeline = {} /\ Builder \cap Erasure = {}
    /\ Pass \cap Deletion = {} /\ Marking \cap Maintainer = {}
    /\ Nobody \notin Caller /\ Other \notin Caller /\ Nobody # Other

VARIABLES
    arbiter,    \* the holder of kg_cross_admission_lock
    building,   \* the notebook is in kg_building
    slot,       \* jobs[notebook]: whose entry it is and its status
    row,        \* whose durable kg_build_jobs row is running
    at,         \* at[c]: how far attempt c has come
    displaced   \* displaced[c]: the slot entry that c's claim replaced

vars == <<arbiter, building, slot, row, at, displaced>>

(* The way of an analysis or an erasure, then of a maintenance pass.  *)
MarkingPhases ==
    {"checkSlot", "yielding", "creating", "releasing", "submitting", "unsubmitted", "queued",
     "building", "publishing", "lost", "tail", "relinking", "erasing", "finishing", "unmarking"}
ClaimPhases ==
    {"checkMarker", "revoking", "probing", "withdrawing", "handing", "waiting", "passing",
     "settling"}
Phases == MarkingPhases \cup ClaimPhases \cup {"new", "refused", "done"}

Slots == [job : Caller \cup {Nobody}, status : {"none", "running", "ended"}]

EmptySlot == [job |-> Nobody, status |-> "none"]

(* Types; a slot is idle exactly when it holds nobody's entry. *)
TypeOK ==
    /\ arbiter \in Caller \cup {Nobody}
    /\ building \in BOOLEAN
    /\ slot \in Slots
    /\ slot.status = "none" <=> slot.job = Nobody
    /\ row \in Builder \cup {Nobody, Other}
    /\ at \in [Caller -> Phases]
    /\ displaced \in [Caller -> Slots]

Init ==
    /\ arbiter = Nobody /\ building = FALSE /\ slot = EmptySlot
    /\ row \in {Nobody, Other}
    /\ at = [c \in Caller |-> "new"]
    /\ displaced = [c \in Caller |-> EmptySlot]

Move(c, from, to) ==
    /\ at[c] = from
    /\ at' = [at EXCEPT ![c] = to]

-----------------------------------------------------------------------------
(* prepare_notebook_kg_job and delete_notebook_kg: reserve the marker, then *)
(* look at the slot, all under the arbitration lock                         *)

(* Faulty: admissions are not arbitrated. *)
FaultyTakes(c) == UNCHANGED arbiter

Takes(c) == arbiter = Nobody /\ arbiter' = c

Reserve(c) ==
    /\ c \in Marking
    /\ ~building
    /\ Takes(c)
    /\ Move(c, "new", "checkSlot")
    /\ building' = TRUE
    /\ UNCHANGED <<slot, row, displaced>>

(* Faulty: whoever is refused takes the marker with it. *)
FaultyRefuseBuilding(c) ==
    /\ c \in Marking
    /\ arbiter = Nobody /\ building
    /\ Move(c, "new", "refused")
    /\ building' = FALSE
    /\ UNCHANGED <<arbiter, slot, row, displaced>>

(* KgBuildAlreadyRunning *)
RefuseBuilding(c) ==
    /\ c \in Marking
    /\ arbiter = Nobody /\ building
    /\ Move(c, "new", "refused")
    /\ UNCHANGED <<arbiter, building, slot, row, displaced>>

Busy == slot.status = "running"

(* Faulty: the slot is not looked at. *)
FaultyPassCheck(c) ==
    /\ Move(c, "checkSlot", IF c \in Erasure THEN "erasing" ELSE "creating")
    /\ arbiter' = Nobody
    /\ UNCHANGED <<building, slot, row, displaced>>

PassCheck(c) ==
    /\ ~Busy
    /\ Move(c, "checkSlot", IF c \in Erasure THEN "erasing" ELSE "creating")
    /\ arbiter' = Nobody
    /\ UNCHANGED <<building, slot, row, displaced>>

FailCheck(c) ==
    /\ Busy
    /\ Move(c, "checkSlot", "yielding")
    /\ UNCHANGED <<arbiter, building, slot, row, displaced>>

Yield(c) ==
    /\ Move(c, "yielding", "refused")
    /\ building' = FALSE
    /\ arbiter' = IF arbiter = c THEN Nobody ELSE arbiter
    /\ UNCHANGED <<slot, row, displaced>>

-----------------------------------------------------------------------------
(* An analysis, from its durable row to the release of its marker *)

CreateRow(c) ==
    /\ row = Nobody
    /\ Move(c, "creating", "submitting")
    /\ row' = c
    /\ UNCHANGED <<arbiter, building, slot, displaced>>

(* Another row is running, the write fails, or the row is written but not   *)
(* read back: then it stays.                                                *)
CreateFails(c) ==
    /\ Move(c, "creating", "releasing")
    /\ row' = row \/ (row = Nobody /\ row' = c)
    /\ UNCHANGED <<arbiter, building, slot, displaced>>

(* Faulty: a failed preparation keeps its reservation. *)
FaultyRelease(c) ==
    /\ Move(c, "releasing", "refused")
    /\ UNCHANGED <<arbiter, building, slot, row, displaced>>

Release(c) ==
    /\ Move(c, "releasing", "refused")
    /\ building' = FALSE
    /\ UNCHANGED <<arbiter, slot, row, displaced>>

(* The job goes to the background pool, or is refused there.  A pipeline    *)
(* rebuild is first attached to its notebook: refused, or with an exception *)
(* that nobody handles.                                                     *)
Submit(c) ==
    /\ \/ Move(c, "submitting", "queued")
       \/ Move(c, "submitting", "unsubmitted")
       \/ c \in Pipeline /\ Move(c, "submitting", "lost")
    /\ UNCHANGED <<arbiter, building, slot, row, displaced>>

(* A write that ends the row, and possibly fails. *)
MayEndRow(c) == row' \in {row, IF row = c THEN Nobody ELSE row}

(* fail_notebook_kg_job_submission lowers the marker only once it has ended *)
(* the row and read it back; else `lost' has marker, and perhaps row.       *)
FailSubmission(c) ==
    /\ \/ Move(c, "unsubmitted", "unmarking") /\ row = c /\ row' = Nobody
       \/ Move(c, "unsubmitted", "lost") /\ MayEndRow(c)
    /\ UNCHANGED <<arbiter, building, slot, displaced>>

StartBuild(c) ==
    /\ row = c
    /\ Move(c, "queued", "building")
    /\ building' = (building \/ c \in Analysis)
    /\ UNCHANGED <<arbiter, slot, row, displaced>>

(* The job cannot read its row, or does not find it running.  That is       *)
(* before its try: nobody ends the row or lowers the marker.  A pipeline    *)
(* rebuild comes there after its chunks.                                    *)
StartRaises(c) ==
    /\ \/ c \in Analysis /\ Move(c, "queued", "lost")
       \/ c \in Pipeline /\ Move(c, "building", "lost")
    /\ UNCHANGED <<arbiter, building, slot, row, displaced>>

BuildFails(c) ==
    /\ Move(c, "building", "finishing")
    /\ UNCHANGED <<arbiter, building, slot, row, displaced>>

BuildSucceeds(c) ==
    /\ c \in Analysis
    /\ Move(c, "building", "tail")
    /\ UNCHANGED <<arbiter, building, slot, row, displaced>>

(* A pipeline rebuild with a knowledge model ends its row when it publishes *)
(* and has its tail after it.                                               *)
PublishRow(c) ==
    /\ c \in Pipeline
    /\ Move(c, "building", "tail")
    /\ row' = Nobody
    /\ UNCHANGED <<arbiter, building, slot, displaced>>

(* Without one, finish_indexing_pipeline_job publishes; it also ends a      *)
(* rebuild whose chunks failed.  The row ends with the publication or its   *)
(* refusal; an incomplete stage or an exception, before or after the row's  *)
(* end, leaves the marker.                                                  *)
PublishWithoutModel(c) ==
    /\ c \in Pipeline
    /\ Move(c, "building", "publishing")
    /\ UNCHANGED <<arbiter, building, slot, row, displaced>>

Published(c) ==
    /\ Move(c, "publishing", "unmarking")
    /\ row' = IF row = c THEN Nobody ELSE row
    /\ UNCHANGED <<arbiter, building, slot, displaced>>

PublishRaises(c) ==
    /\ Move(c, "publishing", "lost")
    /\ MayEndRow(c)
    /\ UNCHANGED <<arbiter, building, slot, displaced>>

(* _relink_after_build: the tail claims the slot past its own marker. *)
ClaimTail(c) ==
    /\ arbiter = Nobody /\ ~Busy
    /\ Move(c, "tail", "relinking")
    /\ slot' = [job |-> c, status |-> "running"]
    /\ UNCHANGED <<arbiter, building, row, displaced>>

AfterTail(c) == IF row = c THEN "finishing" ELSE "unmarking"

(* No relinking is wanted, or its claim fails. *)
SkipTail(c) ==
    /\ Move(c, "tail", AfterTail(c))
    /\ UNCHANGED <<arbiter, building, slot, row, displaced>>

(* settle: only while the entry is still this attempt's. *)
Ended(c) == IF slot.job = c THEN [slot EXCEPT !.status = "ended"] ELSE slot

EndTail(c) ==
    /\ Move(c, "relinking", AfterTail(c))
    /\ slot' = Ended(c)
    /\ UNCHANGED <<arbiter, building, row, displaced>>

(* finish is tried, and whatever comes of it the finally lowers the marker. *)
FinishRow(c) ==
    /\ Move(c, "finishing", "unmarking")
    /\ MayEndRow(c)
    /\ UNCHANGED <<arbiter, building, slot, displaced>>

EndErasure(c) ==
    /\ Move(c, "erasing", "unmarking")
    /\ UNCHANGED <<arbiter, building, slot, row, displaced>>

Unmark(c) ==
    /\ Move(c, "unmarking", "done")
    /\ building' = FALSE
    /\ UNCHANGED <<arbiter, slot, row, displaced>>

-----------------------------------------------------------------------------
(* KgMaintenanceJobs: claim, run and settle *)

Register(c) ==
    /\ c \in Maintainer
    /\ ~Busy
    /\ Takes(c)
    /\ Move(c, "new", "checkMarker")
    /\ displaced' = [displaced EXCEPT ![c] = slot]
    /\ slot' = [job |-> c, status |-> "running"]
    /\ UNCHANGED <<building, row>>

RefuseBusy(c) ==
    /\ c \in Maintainer
    /\ arbiter = Nobody /\ Busy
    /\ Move(c, "new", "refused")
    /\ UNCHANGED <<arbiter, building, slot, row, displaced>>

(* Faulty: the marker is not looked at. *)
FaultyPassMarker(c) ==
    /\ Move(c, "checkMarker", IF c \in Deletion THEN "probing" ELSE "handing")
    /\ arbiter' = Nobody
    /\ UNCHANGED <<building, slot, row, displaced>>

PassMarker(c) ==
    /\ ~building
    /\ Move(c, "checkMarker", IF c \in Deletion THEN "probing" ELSE "handing")
    /\ arbiter' = Nobody
    /\ UNCHANGED <<building, slot, row, displaced>>

FailMarker(c) ==
    /\ building
    /\ Move(c, "checkMarker", "revoking")
    /\ UNCHANGED <<arbiter, building, slot, row, displaced>>

(* Faulty: the entry is deleted. *)
FaultyRestored(c) == IF slot.job = c THEN EmptySlot ELSE slot

Restored(c) == IF slot.job = c THEN displaced[c] ELSE slot

Revoke(c) ==
    /\ Move(c, "revoking", "refused")
    /\ slot' = Restored(c)
    /\ arbiter' = IF arbiter = c THEN Nobody ELSE arbiter
    /\ UNCHANGED <<building, row, displaced>>

(* The durable rows are probed after the arbitration. *)
ProbeClear(c) ==
    /\ row = Nobody
    /\ Move(c, "probing", "handing")
    /\ UNCHANGED <<arbiter, building, slot, row, displaced>>

(* A row is running, or the probe fails. *)
ProbeRefuses(c) ==
    /\ Move(c, "probing", "withdrawing")
    /\ UNCHANGED <<arbiter, building, slot, row, displaced>>

Withdraw(c) ==
    /\ Move(c, "withdrawing", "refused")
    /\ slot' = Restored(c)
    /\ UNCHANGED <<arbiter, building, row, displaced>>

Hand(c) ==
    /\ \/ Move(c, "handing", "waiting")
       \/ Move(c, "handing", "settling")
    /\ UNCHANGED <<arbiter, building, slot, row, displaced>>

StartPass(c) ==
    /\ Move(c, "waiting", "passing")
    /\ UNCHANGED <<arbiter, building, slot, row, displaced>>

(* The algorithm returns or raises. *)
EndPass(c) ==
    /\ Move(c, "passing", "settling")
    /\ UNCHANGED <<arbiter, building, slot, row, displaced>>

Settle(c) ==
    /\ Move(c, "settling", "done")
    /\ slot' = Ended(c)
    /\ UNCHANGED <<arbiter, building, row, displaced>>

-----------------------------------------------------------------------------
(* Another process starts and ends an analysis of its own. *)

OtherStarts ==
    /\ row = Nobody /\ row' = Other
    /\ UNCHANGED <<arbiter, building, slot, at, displaced>>

OtherEnds ==
    /\ row = Other /\ row' = Nobody
    /\ UNCHANGED <<arbiter, building, slot, at, displaced>>

Arrive(c) == Reserve(c) \/ RefuseBuilding(c) \/ Register(c) \/ RefuseBusy(c)

BuildStep(c) ==
    \/ PassCheck(c) \/ FailCheck(c) \/ Yield(c)
    \/ CreateRow(c) \/ CreateFails(c) \/ Release(c)
    \/ Submit(c) \/ FailSubmission(c) \/ StartBuild(c) \/ StartRaises(c)
    \/ BuildFails(c) \/ BuildSucceeds(c) \/ PublishRow(c)
    \/ PublishWithoutModel(c) \/ Published(c) \/ PublishRaises(c)
    \/ ClaimTail(c) \/ SkipTail(c) \/ EndTail(c)
    \/ FinishRow(c) \/ EndErasure(c) \/ Unmark(c)

PassStep(c) ==
    \/ PassMarker(c) \/ FailMarker(c) \/ Revoke(c)
    \/ ProbeClear(c) \/ ProbeRefuses(c) \/ Withdraw(c)
    \/ Hand(c) \/ StartPass(c) \/ EndPass(c) \/ Settle(c)

Next ==
    \/ \E c \in Caller : Arrive(c) \/ BuildStep(c) \/ PassStep(c)
    \/ OtherStarts \/ OtherEnds

Spec == Init /\ [][Next]_vars

(* Threads keep running, the pool gets to its queue, and jobs end. *)
FairSpec == Spec /\ \A c \in Caller : WF_vars(BuildStep(c) \/ PassStep(c))

-----------------------------------------------------------------------------
(* Properties *)

(* The attempts that are reading or rewriting the graph. *)
Working ==
    {c \in Caller : at[c] \in {"building", "publishing", "tail", "relinking", "erasing",
                               "passing"}}

(***************************************************************************)
(* No two attempts of this process work on the graph at once: neither two  *)
(* analyses, nor two passes, nor an analysis and a pass, nor an erasure    *)
(* and any of them.                                                        *)
(***************************************************************************)
OneAtATime == \A c, d \in Working : c = d

(***************************************************************************)
(* The marker is up exactly while some attempt holds it, and only one      *)
(* does: nobody lowers another's marker.  An attempt that is `lost' holds  *)
(* its marker for ever; ClaimsGivenBack says who can be.                   *)
(***************************************************************************)
MarkerIsOwned ==
    /\ building <=> \E c \in Caller : at[c] \in MarkingPhases
    /\ \A c, d \in Caller :
          at[c] \in MarkingPhases /\ at[d] \in MarkingPhases => c = d

(***************************************************************************)
(* The tail of an analysis never loses the slot to a pass: whoever         *)
(* registers while the analysis holds its marker withdraws before the      *)
(* arbitration ends.  In one process the skip that _relink_after_build     *)
(* provides for (knowledge_lifecycle.py:4099-4115, 4132-4148) is never     *)
(* taken.                                                                  *)
(***************************************************************************)
TailFindsSlotFree ==
    \A c \in Caller : at[c] = "tail" /\ arbiter = Nobody => ~Busy

(***************************************************************************)
(* The result of a pass is not lost to a refused claim: once a pass has    *)
(* settled, the slot reads as running or as ended, never again as idle.    *)
(***************************************************************************)
ResultKept ==
    (\E c \in Maintainer : at[c] = "done") => slot.status # "none"

(* Attempts that have won the arbitration and still hold what they won. *)
Admitted(c) ==
    \/ at[c] \in MarkingPhases \ {"checkSlot", "yielding"}
    \/ at[c] \in ClaimPhases \ {"checkMarker", "revoking"}

(* The step in which an attempt finds the marker or the slot taken. *)
IsRefused(c) ==
    \/ at[c] = "new" /\ at'[c] = "refused"
    \/ at[c] = "checkSlot" /\ at'[c] = "yielding"
    \/ at[c] = "checkMarker" /\ at'[c] = "revoking"

(***************************************************************************)
(* The first to enter the arbitration wins it: an attempt is refused for   *)
(* the marker or the slot only while some other attempt is admitted; two   *)
(* attempts never refuse each other.                                       *)
(***************************************************************************)
FirstWins ==
    [][\A c \in Caller :
         IsRefused(c) => \E d \in Caller \ {c} : Admitted(d)]_vars

(***************************************************************************)
(* Neither claim stays.  The slot comes free.  The marker does, too, on    *)
(* every path of a standalone delete, of a refused preparation and of an   *)
(* analysis that has entered its try; it may stay only with a builder that *)
(* is lost: it could not read its row at the start, the failure of its     *)
(* submission could not be recorded, or finish_indexing_pipeline_job (or   *)
(* attaching the rebuild) raised.                                          *)
(***************************************************************************)
ClaimsGivenBack ==
    /\ Busy ~> ~Busy
    /\ building ~> ~building \/ \E c \in Builder : at[c] = "lost"
    /\ (\E c \in Analysis : at[c] = "building") ~> ~building

(***************************************************************************)
(* Without any exception, as the comment at the reservation says           *)
(* (knowledge_lifecycle.py:3613-3616).                                     *)
(***************************************************************************)
ReservationReleased == building ~> ~building
=============================================================================
