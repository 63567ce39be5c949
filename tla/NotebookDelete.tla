--------------------------- MODULE NotebookDelete ---------------------------
(***************************************************************************)
(* The deletion of one notebook: the window in which the owner may take it *)
(* back, the durable job with its phases, and the processes whose sweepers *)
(* and delete pools (one thread each) work it off.                         *)
(*                                                                         *)
(* A process may end at any step and come back; it keeps no state.  A slow *)
(* worker may be taken for dead and its lease given to another.  Builds    *)
(* and uploads let in before the deletion go on beside it.                 *)
(***************************************************************************)
EXTENDS Naturals

CONSTANTS
    Process,
    Writer,         \* who builds the graph, uploads a source or builds the scale index
    Units,          \* the steps of PHASE_3_PLAN are 1..Units
    MaxAttempts,    \* _MAX_DELETE_ATTEMPTS
    MaxTrouble,     \* crashes, errors, lost claims and slow workers in a behaviour
    Nobody,
    Known           \* the files of the sources there are at the request

ASSUME DeleteAssumption ==
    /\ Units \in Nat \ {0} /\ MaxAttempts \in Nat \ {0} /\ MaxTrouble \in Nat
    /\ Process \cap Writer = {} /\ Nobody \notin Process \cup Writer /\ Known \notin Writer

VARIABLES
    notebook,    \* its status; `due' is pending_delete past its deadline
    cancelling,  \* a cancel has read its instant inside the window
    undone,      \* history: the last request was taken back
    job,         \* the row of notebook_delete_jobs, and its side table
    rows,        \* the units of phase 3 that still have rows
    disk,        \* source files: the known ones, and late ones of uploads
    archived,    \* how often the activity was archived
    run,         \* run[p]: what the delete pool of p does
    sweeper,     \* sweeper[p]: what the sweeper of p has listed
    claim,       \* who holds the lock of the notebook's artifacts
    writer,      \* writer[w]: how far a build or an upload has come
    outside,     \* history: what happened outside the program's control
    trouble

jobVars == <<job, run>>
worldVars == <<rows, disk, archived>>
askVars == <<cancelling, undone>>
vars == <<notebook, cancelling, undone, job, rows, disk, archived, run, sweeper, claim,
          writer, outside, trouble>>

Phases == {"mark", "paths", "quiesce", "rows", "files"}
Active == {"queued", "waiting", "running"}

NoJob == [id |-> 0, status |-> "none", phase |-> "mark", cursor |-> 1, lease |-> Nobody,
          stale |-> FALSE, attempts |-> 0, recorded |-> FALSE]
Idle == [pc |-> "idle", job |-> 0, phase |-> "mark", residual |-> FALSE, at |-> 1]
Resting == [doing |-> "idle", attempts |-> 0]

Claiming == {"rows", "deleting", "advancing", "rowsDone", "files", "unlinking", "filesDone",
             "final", "finalizing", "sweeping", "leaving"}
Working == Claiming \cup {"leased", "paths", "recorded", "quiesce", "claiming"}
Points == Working \cup {"idle", "submitted", "read", "failing"}

Admissions == {"toBuild", "toUpload", "toIndex"}

Jobs == [id : Nat, status : Active \cup {"none", "failed"}, phase : Phases,
         cursor : 1 .. Units, lease : Process \cup {Nobody}, stale : BOOLEAN,
         attempts : Nat, recorded : BOOLEAN]
Runs == [pc : Points, job : Nat, phase : Phases, residual : BOOLEAN, at : 1 .. Units]

TypeOK ==
    /\ notebook \in {"live", "pending", "due", "deleting", "gone"}
    /\ cancelling \in BOOLEAN /\ undone \in BOOLEAN
    /\ job \in Jobs
    /\ rows \subseteq 1 .. Units /\ disk \subseteq {Known} \cup Writer
    /\ archived \in Nat
    /\ run \in [Process -> Runs]
    /\ sweeper \in [Process -> [doing : {"idle", "promoting", "recreating"}, attempts : Nat]]
    /\ claim \in Process \cup Writer \cup {Nobody}
    /\ writer \in [Writer -> Admissions \cup {"out", "building", "late", "landed", "indexing", "left"}]
    /\ outside \subseteq {"vanished", "cut"}
    /\ trouble \in 0 .. MaxTrouble

Init ==
    /\ notebook = "live" /\ cancelling = FALSE /\ undone = FALSE
    /\ job = NoJob
    /\ rows = 1 .. Units /\ disk = {Known} /\ archived = 0
    /\ run = [p \in Process |-> Idle] /\ sweeper = [p \in Process |-> Resting]
    /\ claim = Nobody
    /\ writer = [w \in Writer |-> "out"]
    /\ outside = {} /\ trouble = 0

Goes(p, from, to) ==
    /\ run[p].pc = from
    /\ run' = [run EXCEPT ![p].pc = to]

Trouble == trouble < MaxTrouble /\ trouble' = trouble + 1

-----------------------------------------------------------------------------
(* The window: T1, T2 and T3 are compare-and-set on the notebook's row *)

Inserted(id, attempts) ==
    [NoJob EXCEPT !.id = id, !.status = "queued", !.attempts = attempts]

(* _submit: a job the pool refuses, or has already, stays for the sweeper. *)
MaySubmit(p, id) ==
    \/ run' = run
    \/ /\ run[p].pc = "idle"
       /\ run' = [run EXCEPT ![p] = [Idle EXCEPT !.pc = "submitted", !.job = id]]

RequestPending ==
    /\ notebook = "live"
    /\ notebook' = "pending" /\ undone' = FALSE
    \* the instant of a sweep in progress is before the new deadline
    /\ sweeper' = [p \in Process |-> IF sweeper[p].doing = "promoting" THEN Resting ELSE sweeper[p]]
    /\ UNCHANGED <<cancelling, job, worldVars, run, claim, writer, outside, trouble>>

(* request: the immediate tombstone *)
Request(p) ==
    /\ notebook = "live"
    /\ notebook' = "deleting" /\ undone' = FALSE
    /\ job' = Inserted(job.id + 1, 0)
    /\ MaySubmit(p, job.id + 1)
    /\ UNCHANGED <<cancelling, worldVars, sweeper, claim, writer, outside, trouble>>

WindowCloses ==
    /\ notebook = "pending" /\ notebook' = "due"
    /\ UNCHANGED <<askVars, jobVars, worldVars, sweeper, claim, writer, outside, trouble>>

ReadCancelInstant ==
    /\ notebook \in {"live", "pending"} /\ ~cancelling
    /\ cancelling' = TRUE
    /\ UNCHANGED <<notebook, undone, jobVars, worldVars, sweeper, claim, writer, outside, trouble>>

(* The instant was read before the transaction: a window that has closed    *)
(* since, and was not promoted, is still given back.                        *)
Cancel ==
    /\ cancelling /\ cancelling' = FALSE
    /\ LET open == notebook \in {"pending", "due"} IN
         /\ notebook' = IF open THEN "live" ELSE notebook
         /\ undone' = (undone \/ open)
    /\ UNCHANGED <<jobVars, worldVars, sweeper, claim, writer, outside, trouble>>

ListDue(p) ==
    /\ notebook = "due" /\ sweeper[p].doing = "idle"
    /\ sweeper' = [sweeper EXCEPT ![p].doing = "promoting"]
    /\ UNCHANGED <<notebook, askVars, jobVars, worldVars, claim, writer, outside, trouble>>

(* Faulty: the status is not compared again. *)
FaultyPromote(p) ==
    /\ sweeper[p].doing = "promoting"
    /\ sweeper' = [sweeper EXCEPT ![p] = Resting]
    /\ notebook' = "deleting"
    /\ job' = Inserted(job.id + 1, 0)
    /\ MaySubmit(p, job.id + 1)
    /\ UNCHANGED <<askVars, worldVars, claim, writer, outside, trouble>>

Promote(p) ==
    /\ sweeper[p].doing = "promoting"
    /\ sweeper' = [sweeper EXCEPT ![p] = Resting]
    /\ \/ /\ notebook = "due"
          /\ notebook' = "deleting"
          /\ job' = Inserted(job.id + 1, 0)
          /\ MaySubmit(p, job.id + 1)
       \/ /\ notebook # "due"
          /\ UNCHANGED <<notebook, jobVars>>
    /\ UNCHANGED <<askVars, worldVars, claim, writer, outside, trouble>>

-----------------------------------------------------------------------------
(* The sweeper: it resumes stale jobs and makes a new one for a failed one *)

SweepStale(p) ==
    /\ job.status \in Active /\ job.stale
    /\ run[p].pc = "idle"
    /\ run' = [run EXCEPT ![p] = [Idle EXCEPT !.pc = "submitted", !.job = job.id]]
    /\ UNCHANGED <<notebook, askVars, job, worldVars, sweeper, claim, writer, outside, trouble>>

ListMissing(p) ==
    /\ notebook = "deleting" /\ job.status = "failed" /\ job.attempts < MaxAttempts
    /\ sweeper[p].doing = "idle"
    /\ sweeper' = [sweeper EXCEPT ![p] = [doing |-> "recreating", attempts |-> job.attempts]]
    /\ UNCHANGED <<notebook, askVars, jobVars, worldVars, claim, writer, outside, trouble>>

(* Faulty: the phase of the failed job is kept, its side table is not. *)
FaultyRecreated(a) == [Inserted(job.id + 1, a) EXCEPT !.phase = job.phase]

Recreated(a) == Inserted(job.id + 1, a)

(* Failed rows and their side tables are purged in the same transaction;    *)
(* where another process was faster, its job is taken.                      *)
Recreate(p) ==
    /\ sweeper[p].doing = "recreating"
    /\ sweeper' = [sweeper EXCEPT ![p] = Resting]
    /\ job' = IF job.status \in Active THEN job ELSE Recreated(sweeper[p].attempts)
    /\ MaySubmit(p, job'.id)
    /\ UNCHANGED <<notebook, askVars, worldVars, claim, writer, outside, trouble>>

-----------------------------------------------------------------------------
(* run: the lease, and what every later write and every batch asks *)

Owns(p) == job.status = "running" /\ job.id = run[p].job /\ job.lease = p
HasRow(p) == job.status # "none" /\ job.id = run[p].job

(* _still_owned *)
StillOwned(p) == Owns(p) /\ (run[p].residual \/ notebook = "deleting")

(* An UPDATE fenced by the lease, which is also the heartbeat *)
Beaten == [job EXCEPT !.stale = FALSE]
Advanced(p, phase, cursor) ==
    IF Owns(p) THEN [Beaten EXCEPT !.phase = phase, !.cursor = cursor] ELSE job
Parked(p, status) ==
    IF Owns(p) THEN [Beaten EXCEPT !.status = status] ELSE job

ReadJob(p) ==
    /\ run[p].pc = "submitted"
    /\ run' = [run EXCEPT ![p] =
                 IF HasRow(p) /\ job.status \in Active
                 THEN [@ EXCEPT !.pc = "read", !.phase = job.phase] ELSE Idle]
    /\ UNCHANGED <<notebook, askVars, job, worldVars, sweeper, claim, writer, outside, trouble>>

(* Faulty: a running row is never taken over. *)
FaultyFree == job.status \in {"queued", "waiting"}

Free == job.status \in {"queued", "waiting"} \/ (job.status = "running" /\ job.stale)

(* mark_running *)
TakeLease(p) ==
    /\ run[p].pc = "read"
    /\ LET won == HasRow(p) /\ Free IN
         /\ job' = IF won THEN [Beaten EXCEPT !.status = "running", !.lease = p] ELSE job
         /\ run' = [run EXCEPT ![p] = IF won THEN [@ EXCEPT !.pc = "leased"] ELSE Idle]
    /\ UNCHANGED <<notebook, askVars, worldVars, sweeper, claim, writer, outside, trouble>>

Enter(phase) ==
    CASE phase = "mark" -> "paths"
      [] phase = "paths" -> "quiesce"
      [] OTHER -> "claiming"

LookForNotebook(p) ==
    /\ run[p].pc = "leased"
    /\ run' = [run EXCEPT ![p].residual = (notebook = "gone"), ![p].pc = Enter(run[p].phase)]
    /\ UNCHANGED <<notebook, askVars, job, worldVars, sweeper, claim, writer, outside, trouble>>

(* materialize_paths_page: the paths of all source rows *)
RecordPaths(p) ==
    /\ run[p].pc = "paths"
    /\ job' = IF Owns(p) THEN [Beaten EXCEPT !.recorded = @ \/ notebook # "gone"] ELSE job
    /\ run' = [run EXCEPT ![p] = IF Owns(p) THEN [@ EXCEPT !.pc = "recorded"] ELSE Idle]
    /\ UNCHANGED <<notebook, askVars, worldVars, sweeper, claim, writer, outside, trouble>>

EndPaths(p) ==
    /\ run[p].pc = "recorded"
    /\ job' = Advanced(p, "paths", 1)
    /\ run' = [run EXCEPT ![p] =
                 IF Owns(p) THEN [@ EXCEPT !.pc = "quiesce", !.phase = "paths"] ELSE Idle]
    /\ UNCHANGED <<notebook, askVars, worldVars, sweeper, claim, writer, outside, trouble>>

BuildRuns == \E w \in Writer : writer[w] \in {"building", "late"}

(* Faulty: after the timeout the deletion goes on. *)
FaultyQuiesced(p) ==
    /\ Goes(p, "quiesce", "claiming")
    /\ job' = Advanced(p, "quiesce", 1)
    /\ UNCHANGED <<notebook, askVars, worldVars, sweeper, claim, writer, outside, trouble>>

Quiesced(p) ==
    /\ ~BuildRuns
    /\ run[p].pc = "quiesce"
    /\ run' = [run EXCEPT ![p].pc = "claiming", ![p].phase = "quiesce"]
    /\ job' = Advanced(p, "quiesce", 1)
    /\ UNCHANGED <<notebook, askVars, worldVars, sweeper, claim, writer, outside, trouble>>

(* One round of waiting, with a heartbeat *)
KeepWaiting(p) ==
    /\ BuildRuns
    /\ run[p].pc = "quiesce"
    /\ job' = Advanced(p, "paths", 1)
    /\ UNCHANGED <<notebook, askVars, run, worldVars, sweeper, claim, writer, outside, trouble>>

StopWaiting(p) ==
    /\ BuildRuns
    /\ run[p].pc = "quiesce"
    /\ job' = Parked(p, "waiting")
    /\ run' = [run EXCEPT ![p] = Idle]
    /\ UNCHANGED <<notebook, askVars, worldVars, sweeper, claim, writer, outside, trouble>>

-----------------------------------------------------------------------------
(* Phases 3 to 5, under the claim *)

Resume(phase) ==
    CASE phase = "rows" -> "files"
      [] phase = "files" -> "final"
      [] OTHER -> "rows"

(* _phase_rows reads the row again for its cursor. *)
TakeClaim(p) ==
    /\ run[p].pc = "claiming" /\ claim = Nobody
    /\ run[p].phase # "quiesce" \/ HasRow(p)
    /\ claim' = p
    /\ run' = [run EXCEPT ![p].pc = Resume(run[p].phase),
                          ![p].at = IF job.phase = "quiesce" THEN job.cursor ELSE 1]
    /\ UNCHANGED <<notebook, askVars, job, worldVars, sweeper, writer, outside, trouble>>

(* get raises KeyError: finish has nothing to settle. *)
RowMissing(p) ==
    /\ run[p].pc = "claiming" /\ claim = Nobody
    /\ run[p].phase = "quiesce" /\ ~HasRow(p)
    /\ run' = [run EXCEPT ![p].pc = "failing"]
    /\ UNCHANGED <<notebook, askVars, job, worldVars, sweeper, claim, writer, outside, trouble>>

ClaimBusy(p) ==
    /\ run[p].pc = "claiming" /\ claim # Nobody
    /\ job' = Parked(p, "queued")
    /\ run' = [run EXCEPT ![p] = Idle]
    /\ UNCHANGED <<notebook, askVars, worldVars, sweeper, claim, writer, outside, trouble>>

(* _batch_ok: the lease and the notebook in one read, then the claim *)
Gate(p, from, to) ==
    /\ run[p].pc = from
    /\ run' = [run EXCEPT ![p].pc = IF StillOwned(p) /\ claim = p THEN to ELSE "leaving"]
    /\ job' = IF StillOwned(p) /\ claim # p THEN Parked(p, "queued") ELSE job
    /\ UNCHANGED <<notebook, askVars, worldVars, sweeper, claim, writer, outside, trouble>>

BatchOk(p) ==
    \/ Gate(p, "rows", "deleting")
    \/ Gate(p, "files", "unlinking")
    \/ Gate(p, "final", "finalizing")

(* A page of the unit is deleted, or it is found empty. *)
DeletePage(p) ==
    /\ run[p].pc = "deleting"
    /\ LET u == run[p].at IN
         \/ /\ u \in rows
            /\ rows' = rows \ {u}
            /\ run' = [run EXCEPT ![p].pc = "advancing"]
         \/ /\ u \notin rows /\ u < Units
            /\ run' = [run EXCEPT ![p].pc = "rows", ![p].at = u + 1]
            /\ UNCHANGED rows
         \/ /\ u \notin rows /\ u = Units
            /\ run' = [run EXCEPT ![p].pc = "rowsDone"]
            /\ UNCHANGED rows
    /\ UNCHANGED <<notebook, askVars, job, disk, archived, sweeper, claim, writer, outside, trouble>>

SaveCursor(p) ==
    /\ Goes(p, "advancing", "rows")
    /\ job' = Advanced(p, "quiesce", run[p].at)
    /\ UNCHANGED <<notebook, askVars, worldVars, sweeper, claim, writer, outside, trouble>>

EndRows(p) ==
    /\ run[p].pc = "rowsDone"
    /\ run' = [run EXCEPT ![p].pc = "files", ![p].phase = "rows"]
    /\ job' = Advanced(p, "rows", 1)
    /\ UNCHANGED <<notebook, askVars, worldVars, sweeper, claim, writer, outside, trouble>>

(* The files of the side table; a later gate and its roots are the same again. *)
Unlink(p) ==
    /\ Goes(p, "unlinking", "filesDone")
    /\ disk' = IF HasRow(p) /\ job.recorded THEN disk \ {Known} ELSE disk
    /\ UNCHANGED <<notebook, askVars, job, rows, archived, sweeper, claim, writer, outside, trouble>>

EndFiles(p) ==
    /\ run[p].pc = "filesDone"
    /\ run' = [run EXCEPT ![p].pc = "final", ![p].phase = "files"]
    /\ job' = Advanced(p, "files", 1)
    /\ UNCHANGED <<notebook, askVars, worldVars, sweeper, claim, writer, outside, trouble>>

(* Faulty: the notebook's row is not looked for in the transaction. *)
FaultyArchives == TRUE

Archives == notebook # "gone"

(* Faulty: the lease is not compared in the transaction. *)
FaultyFenced(p) == FALSE

(* cleanup_job_on: the row is there under another lease. *)
Fenced(p) == HasRow(p) /\ job.lease # p

(* One transaction: archive, delete the notebook, delete the job's row *)
Finalize(p) ==
    /\ run[p].pc = "finalizing" /\ ~run[p].residual /\ ~Fenced(p)
    /\ notebook' = "gone"
    /\ archived' = IF Archives THEN archived + 1 ELSE archived
    /\ rows' = {}
    /\ job' = IF HasRow(p) THEN [NoJob EXCEPT !.id = job.id] ELSE job
    /\ run' = [run EXCEPT ![p].pc = "sweeping"]
    /\ UNCHANGED <<askVars, disk, sweeper, claim, writer, outside, trouble>>

(* StaleLeaseFinalizeError rolls all of it back. *)
FinalizeFenced(p) ==
    /\ run[p].pc = "finalizing" /\ ~run[p].residual /\ Fenced(p)
    /\ run' = [run EXCEPT ![p].pc = "failing"]
    /\ claim' = IF claim = p THEN Nobody ELSE claim
    /\ UNCHANGED <<notebook, askVars, job, worldVars, sweeper, writer, outside, trouble>>

FinishResidual(p) ==
    /\ run[p].pc = "finalizing" /\ run[p].residual
    /\ LET settled == HasRow(p) /\ job.lease = p IN
         /\ job' = IF settled THEN [NoJob EXCEPT !.id = job.id] ELSE job
         /\ run' = [run EXCEPT ![p].pc = IF settled THEN "sweeping" ELSE "leaving"]
    /\ UNCHANGED <<notebook, askVars, worldVars, sweeper, claim, writer, outside, trouble>>

(* The whole directory is removed; errors are ignored (`cut'). *)
SweepStragglers(p) ==
    /\ Goes(p, "sweeping", "leaving")
    /\ disk' \in SUBSET disk
    /\ outside' = IF disk' = {} THEN outside ELSE outside \cup {"cut"}
    /\ UNCHANGED <<notebook, askVars, job, rows, archived, sweeper, claim, writer, trouble>>

Leave(p) ==
    /\ run[p].pc = "leaving"
    /\ run' = [run EXCEPT ![p] = Idle]
    /\ claim' = IF claim = p THEN Nobody ELSE claim
    /\ UNCHANGED <<notebook, askVars, job, worldVars, sweeper, writer, outside, trouble>>

FailedRow == [job EXCEPT !.status = "failed", !.attempts = @ + 1]

(* finish('failed'), fenced by the lease *)
FailJob(p) ==
    /\ run[p].pc = "failing"
    /\ run' = [run EXCEPT ![p] = Idle]
    /\ job' = IF HasRow(p) /\ job.lease = p /\ job.status \in Active THEN FailedRow ELSE job
    /\ UNCHANGED <<notebook, askVars, worldVars, sweeper, claim, writer, outside, trouble>>

-----------------------------------------------------------------------------
(* Builds and uploads, which check the notebook once *)

(* A file has a name of its own: what an upload left is not written again. *)
Admit(w) ==
    /\ writer[w] = "out" /\ notebook = "live" /\ w \notin disk
    /\ \E purpose \in Admissions : writer' = [writer EXCEPT ![w] = purpose]
    /\ UNCHANGED <<notebook, askVars, jobVars, worldVars, sweeper, claim, outside, trouble>>

(* The row of a build is inserted without looking at the notebook again. *)
BeginBuild(w) ==
    /\ writer[w] = "toBuild" /\ notebook # "gone"
    /\ writer' = [writer EXCEPT ![w] = IF notebook = "deleting" THEN "late" ELSE "building"]
    /\ UNCHANGED <<notebook, askVars, jobVars, worldVars, sweeper, claim, outside, trouble>>

EndBuild(w) ==
    /\ writer[w] \in {"building", "late"} \/ (writer[w] = "toBuild" /\ notebook = "gone")
    /\ writer' = [writer EXCEPT ![w] = "out"]
    /\ UNCHANGED <<notebook, askVars, jobVars, worldVars, sweeper, claim, outside, trouble>>

(* write_upload *)
LandFile(w) ==
    /\ writer[w] = "toUpload"
    /\ writer' = [writer EXCEPT ![w] = "landed"]
    /\ disk' = disk \cup {w}
    /\ UNCHANGED <<notebook, askVars, jobVars, rows, archived, sweeper, claim, outside, trouble>>

(* The source's row makes the file a known one; beside a deletion it may    *)
(* come too late to be listed.  A refused row, as without the notebook,     *)
(* takes the file back.                                                     *)
InsertRow(w) ==
    /\ writer[w] = "landed"
    /\ writer' = [writer EXCEPT ![w] = "out"]
    /\ \/ disk' = disk \ {w}
       \/ notebook = "deleting" /\ UNCHANGED disk
    /\ UNCHANGED <<notebook, askVars, jobVars, rows, archived, sweeper, claim, outside, trouble>>

(* How an upload ends that does not take its file back: the last sweep will *)
(* take it with the directory, or is over.                                  *)
Abandoned == IF notebook = "gone" THEN "left" ELSE "out"

(* Whether the refused row is there after all cannot be found out, or the   *)
(* file cannot be removed: it is kept.                                      *)
KeepFile(w) ==
    /\ writer[w] = "landed"
    /\ writer' = [writer EXCEPT ![w] = Abandoned]
    /\ UNCHANGED <<notebook, askVars, jobVars, worldVars, sweeper, claim, outside, trouble>>

(* _claim_scale_build: the lock is free, or the build is refused. *)
ClaimIndex(w) ==
    /\ writer[w] = "toIndex"
    /\ writer' = [writer EXCEPT ![w] = IF claim = Nobody THEN "indexing" ELSE "out"]
    /\ claim' = IF claim = Nobody THEN w ELSE claim
    /\ UNCHANGED <<notebook, askVars, jobVars, worldVars, sweeper, outside, trouble>>

EndIndex(w) ==
    /\ writer[w] = "indexing"
    /\ writer' = [writer EXCEPT ![w] = "out"]
    /\ claim' = IF claim = w THEN Nobody ELSE claim
    /\ UNCHANGED <<notebook, askVars, jobVars, worldVars, sweeper, outside, trouble>>

-----------------------------------------------------------------------------
(* Time and misfortune *)

Attended == \E p \in Process : run[p].pc \in Working /\ Owns(p)

(* A row nobody works on grows stale. *)
Ages ==
    /\ job.status \in Active /\ ~job.stale /\ ~Attended
    /\ job' = [job EXCEPT !.stale = TRUE]
    /\ UNCHANGED <<notebook, askVars, worldVars, run, sweeper, claim, writer, outside, trouble>>

(* Its worker is slow, or cut off from the database, and the session that   *)
(* holds its claim breaks: the row looks stale while it works.              *)
LooksDead ==
    /\ job.status = "running" /\ ~job.stale /\ Attended /\ Trouble
    /\ job' = [job EXCEPT !.stale = TRUE]
    /\ claim' \in {claim} \cup (IF claim \in Process THEN {Nobody} ELSE {})
    /\ UNCHANGED <<notebook, askVars, worldVars, run, sweeper, writer, outside>>

(* What of a writer is not a durable row ends with its process. *)
Mortal == {w \in Writer : writer[w] \in Admissions \cup {"landed", "indexing"}}

(* A process ends, with the uploads and the builds of the index in it; a    *)
(* row of a build is ended by the recovery (EndBuild).                      *)
Crash(p) ==
    /\ Trouble
    /\ run' = [run EXCEPT ![p] = Idle] /\ sweeper' = [sweeper EXCEPT ![p] = Resting]
    /\ outside' = outside \cup (IF run[p].pc = "sweeping" THEN {"cut"} ELSE {})
    /\ \E dead \in SUBSET Mortal :
         /\ run[p] # Idle \/ dead # {}
         /\ claim' = IF claim \in {p} \cup dead THEN Nobody ELSE claim
         /\ writer' = [w \in Writer |->
                         IF w \notin dead THEN writer[w]
                         ELSE IF writer[w] = "landed" THEN Abandoned ELSE "out"]
    /\ UNCHANGED <<notebook, askVars, job, worldVars>>

(* An exception in a phase; the claim is released on the way out. *)
Raises(p) ==
    /\ Trouble
    /\ run[p].pc \in Working \ {"leased", "sweeping", "leaving"}
    /\ run' = [run EXCEPT ![p].pc = "failing"]
    /\ claim' = IF claim = p THEN Nobody ELSE claim
    /\ UNCHANGED <<notebook, askVars, job, worldVars, sweeper, writer, outside>>

(* The session that holds the advisory lock breaks. *)
LoseClaim ==
    /\ claim \in Process /\ Trouble /\ claim' = Nobody
    /\ UNCHANGED <<notebook, askVars, jobVars, worldVars, sweeper, writer, outside>>

(* The row is deleted behind the program's back; its contents go with it. *)
Vanish ==
    /\ notebook = "deleting" /\ Trouble
    /\ notebook' = "gone" /\ rows' = {} /\ outside' = outside \cup {"vanished"}
    /\ UNCHANGED <<askVars, jobVars, disk, archived, sweeper, claim, writer>>

RunStep(p) ==
    \/ ReadJob(p) \/ TakeLease(p) \/ LookForNotebook(p)
    \/ RecordPaths(p) \/ EndPaths(p)
    \/ Quiesced(p) \/ KeepWaiting(p) \/ StopWaiting(p)
    \/ TakeClaim(p) \/ RowMissing(p) \/ ClaimBusy(p)
    \/ BatchOk(p) \/ DeletePage(p) \/ SaveCursor(p) \/ EndRows(p)
    \/ Unlink(p) \/ EndFiles(p)
    \/ Finalize(p) \/ FinalizeFenced(p) \/ FinishResidual(p)
    \/ SweepStragglers(p) \/ Leave(p) \/ FailJob(p)

SweepStep(p) ==
    ListDue(p) \/ Promote(p) \/ SweepStale(p) \/ ListMissing(p) \/ Recreate(p)

WriterStep(w) ==
    \/ BeginBuild(w) \/ EndBuild(w)
    \/ LandFile(w) \/ InsertRow(w) \/ KeepFile(w)
    \/ ClaimIndex(w) \/ EndIndex(w)

Next ==
    \/ RequestPending \/ WindowCloses \/ ReadCancelInstant \/ Cancel
    \/ \E p \in Process : Request(p) \/ RunStep(p) \/ SweepStep(p) \/ Crash(p) \/ Raises(p)
    \/ \E w \in Writer : Admit(w) \/ WriterStep(w)
    \/ Ages \/ LooksDead \/ LoseClaim \/ Vanish

Spec == Init /\ [][Next]_vars

(* Pools, sweepers and writers go on, and what nobody attends to grows old. *)
FairSpec ==
    /\ Spec
    /\ WF_vars(Ages)
    /\ \A p \in Process : WF_vars(RunStep(p)) /\ WF_vars(SweepStep(p))
    /\ \A w \in Writer : WF_vars(WriterStep(w))

-----------------------------------------------------------------------------
(* Properties *)

Intact == rows = 1 .. Units /\ Known \in disk /\ archived = 0

(***************************************************************************)
(* A deletion taken back is taken back for good: the notebook is live with *)
(* all it had until somebody asks again, whatever sweepers had listed; and *)
(* before the promotion nothing of it is touched.                          *)
(***************************************************************************)
UndoHolds ==
    /\ undone => notebook = "live"
    /\ notebook \notin {"deleting", "gone"} => Intact

(***************************************************************************)
(* Rows and files go only after the builds that had begun when the         *)
(* notebook was marked have ended, however often the job is parked, taken  *)
(* over or made anew.                                                      *)
(***************************************************************************)
QuiescedBeforeRows ==
    notebook = "deleting" /\ ~Intact => \A w \in Writer : writer[w] # "building"

(***************************************************************************)
(* The activity of a deleted notebook is archived exactly once, although   *)
(* two workers may reach the last transaction: the second does not replace *)
(* the archive by an empty one.                                            *)
(***************************************************************************)
ArchivedOnce ==
    /\ archived <= 1
    /\ notebook = "gone" /\ "vanished" \notin outside => archived = 1

AtRest ==
    /\ \A p \in Process : run[p].pc = "idle"
    /\ \A w \in Writer : writer[w] \in {"out", "left"}

(***************************************************************************)
(* The files of the sources are gone before the rows that name them, also  *)
(* when a failed job was replaced.  Files of uploads that came late are    *)
(* gone at the end, those abandoned before it included, unless the last    *)
(* sweep did not happen or did not succeed (`outside'), or the upload      *)
(* outlived the notebook and then ended with its process, or could not     *)
(* find out whether its row is there (`left').                             *)
(***************************************************************************)
NoFileLeft ==
    notebook = "gone" /\ outside = {} =>
        /\ Known \notin disk
        /\ AtRest => disk \subseteq {w \in Writer : writer[w] = "left"}

(***************************************************************************)
(* Only the owner of the job ends a notebook: a worker that was taken for  *)
(* dead does not, even between its last check and its last transaction.    *)
(***************************************************************************)
OwnerEnds ==
    [][notebook' = "gone" /\ notebook # "gone" /\ outside' = outside =>
         \E p \in Process : run[p].pc = "finalizing" /\ run'[p] # run[p]
                           /\ (HasRow(p) => job.lease = p)]_vars

GivenUp == job.status = "failed" /\ job.attempts >= MaxAttempts

(***************************************************************************)
(* A deletion that was promoted comes to its end or is given up after all  *)
(* its attempts: crashes, slow workers, lost claims and quiesce timeouts   *)
(* leave nothing that no sweeper picks up.                                 *)
(***************************************************************************)
DeletionEnds == notebook = "deleting" ~> notebook = "gone" \/ GivenUp
=============================================================================
