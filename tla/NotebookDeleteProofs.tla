------------------------ MODULE NotebookDeleteProofs ------------------------
(***************************************************************************)
(* An undone deletion touches nothing, a deletion waits for the builds,    *)
(* archives once and leaves no file, and only the owner of the job ends a  *)
(* notebook: for any number of processes, builds, uploads and misfortunes, *)
(* any number of units and any number of attempts.                         *)
(*                                                                         *)
(* The argument: there is no job and no worker before the tombstone, and   *)
(* the tombstone is for good.  Phases are written by workers that have     *)
(* passed them, so a phase after quiesce, in the row or remembered by a    *)
(* worker, says that the builds have ended, and none begins any more.  The *)
(* number of a job never returns: while a worker finds the row of its job, *)
(* the side table is the one that it filled, and when it has emptied it    *)
(* the known files are gone.  Whatever lands later is there until somebody *)
(* sweeps, and after that as long as its upload is at work; what such an   *)
(* upload then leaves is marked as left.                                   *)
(***************************************************************************)
EXTENDS NotebookDelete, TLAPS

Past == {"quiesce", "rows", "files"}

(* Before the tombstone nobody works, and there is no job. *)
NothingEarly ==
    notebook \notin {"deleting", "gone"} =>
      /\ job = NoJob
      /\ \A p \in Process : run[p] = Idle /\ sweeper[p].doing # "recreating"

Undo == NothingEarly /\ UndoHolds

(* Who is past the wait, or has read that the job is, has seen builds end. *)
PastIsQuiet ==
    (\/ job.phase \in Past
     \/ \E p \in Process : run[p].phase \in Past \/ run[p].pc \in Claiming \cup {"claiming"})
      => \A w \in Writer : writer[w] # "building"

Quiet == PastIsQuiet /\ QuiescedBeforeRows

(* The archive is written with the end of the notebook. *)
Archive ==
    /\ ArchivedOnce
    /\ notebook # "gone" => archived = 0
    /\ "vanished" \in outside => notebook = "gone"

(* Jobs are numbered: a worker's job is the current one or an earlier one. *)
Numbered == \A p \in Process : run[p].job <= job.id

(* The side table of a job that is past its phase lists the known files. *)
Recorded ==
    notebook # "gone" =>
      /\ job.phase # "mark" => job.recorded
      /\ \A p \in Process : HasRow(p) =>
           /\ run[p].phase # "mark" => job.recorded
           /\ run[p].pc \in {"recorded", "quiesce", "claiming"} \cup Claiming => job.recorded

(* A job that is past its files, or whose worker is, has removed them. *)
KnownGone ==
    notebook # "gone" =>
      /\ job.phase = "files" => Known \notin disk
      /\ \A p \in Process :
           /\ HasRow(p) /\ (run[p].phase = "files" \/ run[p].pc \in {"filesDone", "final"})
                => Known \notin disk
           /\ run[p].pc = "finalizing" => Known \notin disk

(* After the end, files are there while somebody is still to sweep, or as   *)
(* long as their upload is at work, or because it ended and left them.      *)
LateFiles ==
    notebook = "gone" /\ outside = {} =>
      /\ Known \notin disk
      /\ \/ \E p \in Process : run[p].pc = "sweeping"
         \/ disk \subseteq {w \in Writer : writer[w] \in {"landed", "left"}}

Files == Numbered /\ Recorded /\ KnownGone /\ LateFiles

DeleteInv == TypeOK /\ Undo /\ Quiet /\ Archive /\ Files


-----------------------------------------------------------------------------
(* The points of a worker's code and the phases of a job, by name *)
LEMMA Names ==
  /\ {"idle", "submitted", "read", "leased", "failing"} \subseteq Points
  /\ {"paths", "recorded", "quiesce", "claiming", "rows", "deleting"} \subseteq Points
  /\ {"advancing", "rowsDone", "files", "unlinking"} \subseteq Points
  /\ {"filesDone", "final", "finalizing", "sweeping", "leaving"} \subseteq Points
  /\ {"mark", "paths", "quiesce", "rows", "files"} \subseteq Phases
  /\ {"queued", "waiting", "running"} \subseteq Active
  BY DEF Points, Working, Claiming, Phases, Active

(* What a worker remembers and the row say of their types *)
LEMMA TypeParts ==
  ASSUME TypeOK
  PROVE  /\ job \in Jobs /\ run \in [Process -> Runs] /\ Idle \in Runs
         /\ \A p \in Process : run[p] \in Runs
         /\ job.id \in Nat /\ job.id + 1 \in Nat /\ 1 \in 1 .. Units /\ job.phase \in Phases
         /\ \A p \in Process :
              run[p].at \in 1 .. Units /\ run[p].phase \in Phases /\ run[p].job \in Nat
         /\ sweeper \in [Process -> [doing : {"idle", "promoting", "recreating"}, attempts : Nat]]
         /\ \A p \in Process : sweeper[p].attempts \in Nat
  <1>1. 1 \in 1 .. Units
    BY DeleteAssumption
  <1>2. Idle \in Runs
    BY <1>1, Names DEF Runs, Idle
  <1>3. job \in Jobs /\ run \in [Process -> Runs] /\ \A p \in Process : run[p] \in Runs
    BY DEF TypeOK
  <1>4. job.id \in Nat /\ job.id + 1 \in Nat /\ job.phase \in Phases
    BY <1>3 DEF Jobs
  <1>5. ASSUME NEW p \in Process
        PROVE  run[p].at \in 1 .. Units /\ run[p].phase \in Phases /\ run[p].job \in Nat
    <2>1. run[p] \in Runs
      BY <1>3
    <2> QED
      BY <2>1 DEF Runs
  <1>6. /\ sweeper \in [Process -> [doing : {"idle", "promoting", "recreating"}, attempts : Nat]]
        /\ \A p \in Process : sweeper[p].attempts \in Nat
    BY DEF TypeOK
  <1> QED
    BY <1>1, <1>2, <1>3, <1>4, <1>5, <1>6

(* A job that waits for the only thread of the pool *)
LEMMA Submitted ==
  ASSUME NEW i \in Nat
  PROVE  LET new == [Idle EXCEPT !.pc = "submitted", !.job = i]
         IN  new \in Runs /\ new.pc = "submitted" /\ new.job = i /\ new.phase = "mark"
  <1> DEFINE old == Idle
             taken == [old EXCEPT !.pc = "submitted"]
  <1>1. old \in Runs /\ old.phase = "mark"
    BY DeleteAssumption, Names DEF Runs, Idle
  <1> HIDE DEF old
  <1>2. taken \in Runs /\ taken.pc = "submitted" /\ taken.phase = "mark"
    BY <1>1, Names DEF Runs
  <1> HIDE DEF taken
  <1>3. /\ [taken EXCEPT !.job = i] \in Runs /\ [taken EXCEPT !.job = i].pc = "submitted"
        /\ [taken EXCEPT !.job = i].job = i /\ [taken EXCEPT !.job = i].phase = "mark"
    BY <1>2 DEF Runs
  <1> QED
    BY <1>3 DEF taken, old

(* A worker that moves on, and what it notes as it does *)
LEMMA WorkerMoves ==
  ASSUME NEW r \in Runs, NEW c \in Points, NEW f \in Phases, NEW u \in 1 .. Units,
         NEW b \in BOOLEAN
  PROVE  /\ [r EXCEPT !.pc = c] \in Runs
         /\ [r EXCEPT !.pc = c, !.phase = f] \in Runs
         /\ [r EXCEPT !.pc = c, !.at = u] \in Runs
         /\ [r EXCEPT !.residual = b, !.pc = c] \in Runs
  BY DEF Runs

(* Writes to the row of a job leave a row *)
LEMMA RowWrites ==
  ASSUME TypeOK, NEW p \in Process, NEW f \in Phases, NEW c \in 1 .. Units,
         NEW s \in Active \cup {"failed"}
  PROVE  /\ Advanced(p, f, c) \in Jobs /\ Parked(p, s) \in Jobs
         /\ FailedRow \in Jobs /\ [NoJob EXCEPT !.id = job.id] \in Jobs
         /\ [Beaten EXCEPT !.status = "running", !.lease = p] \in Jobs
  <1>1. job \in Jobs
    BY TypeParts
  <1>2. Advanced(p, f, c) \in Jobs /\ Parked(p, s) \in Jobs
    BY <1>1 DEF Advanced, Parked, Beaten, Jobs
  <1>3. FailedRow \in Jobs
    <2>1. /\ job.attempts + 1 \in Nat
          /\ FailedRow = [job EXCEPT !.status = "failed", !.attempts = job.attempts + 1]
      BY <1>1 DEF FailedRow, Jobs
    <2> QED
      BY <1>1, <2>1 DEF Jobs
  <1>4. [NoJob EXCEPT !.id = job.id] \in Jobs
    BY <1>1, TypeParts, Names DEF NoJob, Jobs
  <1>5. [Beaten EXCEPT !.status = "running", !.lease = p] \in Jobs
    BY <1>1, Names DEF Beaten, Jobs
  <1> QED
    BY <1>2, <1>3, <1>4, <1>5

(* The row of a new job *)
LEMMA NewRow ==
  ASSUME NEW i \in Nat, NEW a \in Nat
  PROVE  /\ Inserted(i, a) \in Jobs
         /\ Inserted(i, a).id = i /\ Inserted(i, a).status = "queued"
         /\ Inserted(i, a).phase = "mark" /\ Inserted(i, a).lease = Nobody
         /\ Inserted(i, a).recorded = FALSE
  <1> DEFINE old == NoJob
             one == [old EXCEPT !.id = i]
             two == [one EXCEPT !.status = "queued"]
  <1>1. old \in Jobs /\ old.phase = "mark" /\ old.lease = Nobody /\ old.recorded = FALSE
    BY DeleteAssumption, Names DEF Jobs, NoJob
  <1> HIDE DEF old
  <1>2. /\ one \in Jobs /\ one.id = i /\ one.phase = "mark"
        /\ one.lease = Nobody /\ one.recorded = FALSE
    BY <1>1 DEF Jobs
  <1> HIDE DEF one
  <1>3. two \in Jobs /\ two.id = i /\ two.status = "queued" /\ two.phase = "mark"
        /\ two.lease = Nobody /\ two.recorded = FALSE
    BY <1>2, Names DEF Jobs
  <1> HIDE DEF two
  <1>4. /\ [two EXCEPT !.attempts = a] \in Jobs
        /\ [two EXCEPT !.attempts = a].id = i /\ [two EXCEPT !.attempts = a].status = "queued"
        /\ [two EXCEPT !.attempts = a].phase = "mark" /\ [two EXCEPT !.attempts = a].lease = Nobody
        /\ [two EXCEPT !.attempts = a].recorded = FALSE
    BY <1>3 DEF Jobs
  <1> QED
    BY <1>4 DEF Inserted, two, one, old

(* A process takes a job, or it does not. *)
LEMMA Submits ==
  ASSUME TypeOK, NEW p \in Process, NEW i \in Nat, MaySubmit(p, i)
  PROVE  /\ run' \in [Process -> Runs]
         /\ \A q \in Process :
              \/ run'[q] = run[q]
              \/ /\ run[q].pc = "idle" /\ q = p
                 /\ run'[q].pc = "submitted" /\ run'[q].job = i /\ run'[q].phase = "mark"
  <1>1. CASE run' = run
    BY <1>1, TypeParts
  <1>2. CASE run[p].pc = "idle"
             /\ run' = [run EXCEPT ![p] = [Idle EXCEPT !.pc = "submitted", !.job = i]]
    <2> DEFINE new == [Idle EXCEPT !.pc = "submitted", !.job = i]
    <2>1. new \in Runs
      BY Submitted, Zenon
    <2>2. new.pc = "submitted" /\ new.job = i /\ new.phase = "mark"
      BY Submitted, Zenon
    <2> HIDE DEF new
    <2>3. run' = [run EXCEPT ![p] = new]
      BY <1>2 DEF new
    <2> QED
      BY <1>2, <2>1, <2>2, <2>3, TypeParts
  <1> QED
    BY <1>1, <1>2 DEF MaySubmit

(* The row of the next job *)
LEMMA NextRow ==
  ASSUME TypeOK, NEW a \in Nat, job' = Inserted(job.id + 1, a)
  PROVE  /\ job' \in Jobs
         /\ job'.id = job.id + 1 /\ job'.status = "queued" /\ job'.phase = "mark"
         /\ job'.lease = Nobody /\ job'.recorded = FALSE
  <1>1. job.id + 1 \in Nat
    BY TypeParts
  <1> QED
    BY <1>1, NewRow, Zenon

(* A request or a promotion makes the next job. *)
LEMMA NewJobs ==
  ASSUME TypeOK, NEW p \in Process, NEW a \in Nat,
         job' = Inserted(job.id + 1, a), MaySubmit(p, job.id + 1)
  PROVE  /\ run' \in [Process -> Runs] /\ job' \in Jobs
         /\ job'.id = job.id + 1 /\ job'.status = "queued" /\ job'.phase = "mark"
         /\ job'.lease = Nobody /\ job'.recorded = FALSE
         /\ \A q \in Process :
              \/ run'[q] = run[q]
              \/ /\ run[q].pc = "idle" /\ q = p
                 /\ run'[q].pc = "submitted" /\ run'[q].job = job.id + 1 /\ run'[q].phase = "mark"
  <1>1. job.id + 1 \in Nat
    BY TypeParts
  <1>2. /\ job' \in Jobs
        /\ job'.id = job.id + 1 /\ job'.status = "queued" /\ job'.phase = "mark"
        /\ job'.lease = Nobody /\ job'.recorded = FALSE
    BY NextRow, Zenon
  <1>3. /\ run' \in [Process -> Runs]
        /\ \A q \in Process :
              \/ run'[q] = run[q]
              \/ /\ run[q].pc = "idle" /\ q = p
                 /\ run'[q].pc = "submitted" /\ run'[q].job = job.id + 1 /\ run'[q].phase = "mark"
    BY <1>1, Submits, Zenon
  <1> QED
    BY <1>2, <1>3

(* A sweeper finds a job that another process made, or makes the next one. *)
LEMMA Recreates ==
  ASSUME TypeOK, NEW p \in Process, Recreate(p)
  PROVE  /\ run' \in [Process -> Runs] /\ job' \in Jobs
         /\ \/ job' = job
            \/ /\ job'.id = job.id + 1 /\ job'.status = "queued" /\ job'.phase = "mark"
               /\ job'.lease = Nobody /\ job'.recorded = FALSE
         /\ \A q \in Process :
              \/ run'[q] = run[q]
              \/ /\ run[q].pc = "idle" /\ q = p
                 /\ run'[q].pc = "submitted" /\ run'[q].job = job'.id /\ run'[q].phase = "mark"
         /\ sweeper[p].doing = "recreating" /\ sweeper' = [sweeper EXCEPT ![p] = Resting]
         /\ UNCHANGED <<notebook, askVars, worldVars, claim, writer, outside, trouble>>
  <1>1. /\ sweeper[p].doing = "recreating" /\ sweeper' = [sweeper EXCEPT ![p] = Resting]
        /\ UNCHANGED <<notebook, askVars, worldVars, claim, writer, outside, trouble>>
        /\ MaySubmit(p, job'.id)
    BY DEF Recreate
  <1>2. \/ job' = job
        \/ job' = Inserted(job.id + 1, sweeper[p].attempts)
    BY DEF Recreate, Recreated
  <1>3. /\ job' \in Jobs
        /\ \/ job' = job
           \/ /\ job'.id = job.id + 1 /\ job'.status = "queued" /\ job'.phase = "mark"
              /\ job'.lease = Nobody /\ job'.recorded = FALSE
    <2>1. job.id + 1 \in Nat /\ sweeper[p].attempts \in Nat /\ job \in Jobs
      BY TypeParts
    <2>2. CASE job' = job
      BY <2>1, <2>2
    <2>3. CASE job' = Inserted(job.id + 1, sweeper[p].attempts)
      BY <2>1, <2>3, NextRow
    <2> QED
      BY <1>2, <2>2, <2>3
  <1>4. job'.id \in Nat
    BY <1>3 DEF Jobs
  <1>5. /\ run' \in [Process -> Runs]
        /\ \A q \in Process :
              \/ run'[q] = run[q]
              \/ /\ run[q].pc = "idle" /\ q = p
                 /\ run'[q].pc = "submitted" /\ run'[q].job = job'.id /\ run'[q].phase = "mark"
    BY <1>1, <1>4, Submits, Zenon
  <1> QED
    BY <1>1, <1>3, <1>5

(* A check moves one worker and may give back its job. *)
LEMMA Checks ==
  ASSUME TypeOK, NEW p \in Process, BatchOk(p)
  PROVE  /\ run' \in [Process -> Runs] /\ job' \in Jobs
         /\ \A q \in Process :
              /\ run'[q].job = run[q].job /\ run'[q].phase = run[q].phase
              /\ run'[q].residual = run[q].residual
              /\ \/ run'[q].pc = run[q].pc
                 \/ q = p /\ run'[q].pc = "leaving"
                 \/ run[q].pc = "rows" /\ run'[q].pc = "deleting"
                 \/ run[q].pc = "files" /\ run'[q].pc = "unlinking"
                 \/ /\ run[q].pc = "final" /\ run'[q].pc = "finalizing"
                    /\ StillOwned(q) /\ claim = q
         /\ run[p].pc \in {"rows", "files", "final"}
         /\ job'.id = job.id /\ job'.phase = job.phase /\ job'.recorded = job.recorded
         /\ job'.lease = job.lease /\ (job'.status = "none" <=> job.status = "none")
         /\ UNCHANGED <<notebook, askVars, worldVars, sweeper, claim, writer, outside, trouble>>
  <1> SUFFICES ASSUME NEW from \in {"rows", "files", "final"},
                      NEW to \in {"deleting", "unlinking", "finalizing"},
                      \/ from = "rows" /\ to = "deleting"
                      \/ from = "files" /\ to = "unlinking"
                      \/ from = "final" /\ to = "finalizing",
                      Gate(p, from, to)
               PROVE  /\ run' \in [Process -> Runs] /\ job' \in Jobs
                      /\ \A q \in Process :
                           /\ run'[q].job = run[q].job /\ run'[q].phase = run[q].phase
                           /\ run'[q].residual = run[q].residual
                           /\ \/ run'[q].pc = run[q].pc
                              \/ /\ q = p /\ run[q].pc = from
                                 /\ \/ run'[q].pc = "leaving"
                                    \/ run'[q].pc = to /\ StillOwned(q) /\ claim = q
                      /\ run[p].pc \in {"rows", "files", "final"}
                      /\ job'.id = job.id /\ job'.phase = job.phase
                      /\ job'.recorded = job.recorded /\ job'.lease = job.lease
                      /\ (job'.status = "none" <=> job.status = "none")
                      /\ UNCHANGED <<notebook, askVars, worldVars, sweeper, claim, writer,
                                     outside, trouble>>
    BY DEF BatchOk
  <1> DEFINE c == IF StillOwned(p) /\ claim = p THEN to ELSE "leaving"
  <1>1. run[p].pc = from /\ run' = [run EXCEPT ![p].pc = c]
    BY DEF Gate
  <1>2. c \in Points /\ (c = "leaving" \/ (c = to /\ StillOwned(p) /\ claim = p))
    <2>1. "leaving" \in Points /\ to \in Points
      BY Names
    <2>2. CASE StillOwned(p) /\ claim = p
      BY <2>1, <2>2
    <2>3. CASE ~(StillOwned(p) /\ claim = p)
      BY <2>1, <2>3
    <2> QED
      BY <2>2, <2>3
  <1> HIDE DEF c
  <1>3. run' \in [Process -> Runs]
    <2>1. [run[p] EXCEPT !.pc = c] \in Runs
      BY <1>2, TypeParts DEF Runs
    <2> QED
      BY <1>1, <2>1, TypeParts
  <1>4. \A q \in Process :
          /\ run'[q].job = run[q].job /\ run'[q].phase = run[q].phase
          /\ run'[q].residual = run[q].residual
          /\ run'[q].pc = IF q = p THEN c ELSE run[q].pc
    BY <1>1, TypeParts DEF Runs
  <1>5. job' = job \/ (Owns(p) /\ job' = [Beaten EXCEPT !.status = "queued"])
    <2>1. CASE StillOwned(p) /\ claim # p
      BY <2>1 DEF Gate, Parked, StillOwned
    <2>2. CASE ~(StillOwned(p) /\ claim # p)
      BY <2>2 DEF Gate
    <2> QED
      BY <2>1, <2>2
  <1>6. /\ job' \in Jobs
        /\ job'.id = job.id /\ job'.phase = job.phase /\ job'.recorded = job.recorded
        /\ job'.lease = job.lease /\ (job'.status = "none" <=> job.status = "none")
    BY <1>5, TypeParts, Names DEF Beaten, Jobs, Owns
  <1> QED
    BY <1>1, <1>2, <1>3, <1>4, <1>6 DEF Gate

(* A page moves the worker to the next page, to the next unit or past the units. *)
LEMMA Pages ==
  ASSUME TypeOK, NEW p \in Process, DeletePage(p)
  PROVE  /\ run' \in [Process -> Runs]
         /\ run[p].pc = "deleting" /\ rows' \subseteq rows
         /\ \A q \in Process :
              /\ run'[q].job = run[q].job /\ run'[q].phase = run[q].phase
              /\ run'[q].residual = run[q].residual
              /\ \/ run'[q].pc = run[q].pc
                 \/ q = p /\ run'[q].pc \in {"advancing", "rows", "rowsDone"}
         /\ UNCHANGED <<notebook, askVars, job, disk, archived, sweeper, claim, writer, outside,
                        trouble>>
  <1>1. /\ run[p].pc = "deleting" /\ rows' \subseteq rows
        /\ UNCHANGED <<notebook, askVars, job, disk, archived, sweeper, claim, writer, outside,
                       trouble>>
    BY DEF DeletePage
  <1>2. PICK new \in Runs :
           /\ run' = [run EXCEPT ![p] = new]
           /\ new.pc \in {"advancing", "rows", "rowsDone"}
           /\ new.job = run[p].job /\ new.phase = run[p].phase /\ new.residual = run[p].residual
    <2> DEFINE at(c) == [run[p] EXCEPT !.pc = c]
    <2>a. ASSUME NEW c \in {"advancing", "rows", "rowsDone"}
          PROVE  /\ at(c) \in Runs /\ at(c).pc = c /\ at(c).job = run[p].job
                 /\ at(c).phase = run[p].phase /\ at(c).residual = run[p].residual
      BY TypeParts, Names DEF Runs
    <2>1. CASE run' = [run EXCEPT ![p].pc = "advancing"]
      <3>1. run' = [run EXCEPT ![p] = at("advancing")]
        BY <2>1
      <3> QED
        BY <2>a, <3>1
    <2>2. CASE run[p].at < Units /\ run' = [run EXCEPT ![p].pc = "rows", ![p].at = run[p].at + 1]
      <3> DEFINE new == [run[p] EXCEPT !.pc = "rows", !.at = run[p].at + 1]
      <3>1. run[p].at + 1 \in 1 .. Units
        BY <2>2, TypeParts, DeleteAssumption
      <3>2. new \in Runs /\ run' = [run EXCEPT ![p] = new]
        BY <2>2, <3>1, TypeParts, Names DEF Runs
      <3>3. /\ new.pc = "rows" /\ new.job = run[p].job /\ new.phase = run[p].phase
            /\ new.residual = run[p].residual
        BY TypeParts DEF Runs
      <3> QED
        BY <3>2, <3>3
    <2>3. CASE run' = [run EXCEPT ![p].pc = "rowsDone"]
      <3>1. run' = [run EXCEPT ![p] = at("rowsDone")]
        BY <2>3
      <3> QED
        BY <2>a, <3>1
    <2> QED
      BY <2>1, <2>2, <2>3 DEF DeletePage
  <1>3. run' \in [Process -> Runs] /\ \A q \in Process : run'[q] = IF q = p THEN new ELSE run[q]
    BY <1>2, TypeParts
  <1> QED
    BY <1>1, <1>2, <1>3


(* A crash ends uploads and index builds, but no build that has a row, and  *)
(* it leaves the files of uploads that outlived the notebook.               *)
LEMMA Crashes ==
  ASSUME TypeOK, NEW x \in Process, Crash(x)
  PROVE  /\ TypeOK'
         /\ UNCHANGED <<notebook, cancelling, undone, job, rows, disk, archived>>
         /\ run' = [run EXCEPT ![x] = Idle] /\ sweeper' = [sweeper EXCEPT ![x] = Resting]
         /\ outside' = outside \cup (IF run[x].pc = "sweeping" THEN {"cut"} ELSE {})
         /\ \A w \in Writer : writer'[w] = "building" => writer[w] = "building"
         /\ notebook = "gone" =>
              \A w \in Writer : writer[w] \in {"landed", "left"} => writer'[w] \in {"landed", "left"}
  <1>1. PICK dead \in SUBSET Mortal :
          /\ claim' = IF claim \in {x} \cup dead THEN Nobody ELSE claim
          /\ writer' = [w \in Writer |->
                          IF w \notin dead THEN writer[w]
                          ELSE IF writer[w] = "landed" THEN Abandoned ELSE "out"]
    BY DEF Crash
  <1>2. run' \in [Process -> Runs]
    BY TypeParts, Names DEF Crash, Runs
  <1>3. claim' \in Process \cup Writer \cup {Nobody}
    BY <1>1 DEF TypeOK
  <1>4. ASSUME NEW w \in Writer
        PROVE  /\ writer'[w] \in {writer[w], "out", "left"}
               /\ notebook = "gone" /\ writer[w] \in {"landed", "left"}
                    => writer'[w] \in {"landed", "left"}
    BY <1>1 DEF Abandoned, Mortal, Admissions
  <1>5. writer' \in [Writer -> Admissions \cup {"out", "building", "late", "landed",
                                               "indexing", "left"}]
    BY <1>1, <1>4 DEF TypeOK
  <1>6. /\ UNCHANGED <<notebook, cancelling, undone, job, rows, disk, archived>>
        /\ run' = [run EXCEPT ![x] = Idle] /\ sweeper' = [sweeper EXCEPT ![x] = Resting]
        /\ outside' = outside \cup (IF run[x].pc = "sweeping" THEN {"cut"} ELSE {})
        /\ Trouble
    BY DEF Crash, askVars, worldVars
  <1>7. sweeper' \in [Process -> [doing : {"idle", "promoting", "recreating"}, attempts : Nat]]
    BY <1>6 DEF TypeOK, Resting
  <1>8. TypeOK'
    BY <1>2, <1>3, <1>5, <1>6, <1>7, DeleteAssumption DEF TypeOK, Trouble
  <1> QED
    BY <1>4, <1>6, <1>8

(* Each step moves a worker to a point of its code and writes rows of their types. *)
LEMMA TypesKept ==
  ASSUME TypeOK, [Next]_vars
  PROVE  TypeOK'
  <1> USE DeleteAssumption DEF jobVars, worldVars, askVars, TypeOK,
          Trouble, Resting, Admissions
  <1>1. CASE RequestPending
    BY <1>1 DEF RequestPending
  <1>2. CASE WindowCloses
    BY <1>2 DEF WindowCloses
  <1>3. CASE ReadCancelInstant
    BY <1>3 DEF ReadCancelInstant
  <1>4. CASE Cancel
    BY <1>4 DEF Cancel
  <1>5. ASSUME NEW x \in Process, Request(x) PROVE TypeOK'
    BY <1>5, NewJobs DEF Request
  <1>6. ASSUME NEW x \in Process, ReadJob(x) PROVE TypeOK'
    <2>1. [run[x] EXCEPT !.pc = "read", !.phase = job.phase] \in Runs
      BY TypeParts, Names, WorkerMoves
    <2>2. run' = [run EXCEPT ![x] = [run[x] EXCEPT !.pc = "read", !.phase = job.phase]]
          \/ run' = [run EXCEPT ![x] = Idle]
      BY <1>6 DEF ReadJob, HasRow
    <2>3. run' \in [Process -> Runs]
      BY <2>1, <2>2, TypeParts
    <2> QED
      BY <1>6, <2>3 DEF ReadJob
  <1>7. ASSUME NEW x \in Process, TakeLease(x) PROVE TypeOK'
    <2>1. job' \in Jobs
      BY <1>7, TypeParts, Names DEF TakeLease, Jobs, Beaten
    <2>2. run' \in [Process -> Runs]
      BY <1>7, TypeParts, Names DEF TakeLease, Runs
    <2> QED
      BY <1>7, <2>1, <2>2 DEF TakeLease
  <1>8. ASSUME NEW x \in Process, LookForNotebook(x) PROVE TypeOK'
    <2>1. Enter(run[x].phase) \in Points /\ (notebook = "gone") \in BOOLEAN /\ run[x] \in Runs
      BY TypeParts, Names DEF Enter
    <2>2. run' =
            [run EXCEPT ![x] = [run[x] EXCEPT !.residual = (notebook = "gone"),
                                              !.pc = Enter(run[x].phase)]]
      BY <1>8 DEF LookForNotebook
    <2>3. run' \in [Process -> Runs]
      BY <2>1, <2>2, WorkerMoves, TypeParts, Zenon
    <2> QED
      BY <1>8, <2>3 DEF LookForNotebook
  <1>9. ASSUME NEW x \in Process, RecordPaths(x) PROVE TypeOK'
    <2>1. job' \in Jobs
      BY <1>9, TypeParts, Names DEF RecordPaths, Jobs, Beaten
    <2>2. run' \in [Process -> Runs]
      BY <1>9, TypeParts, Names DEF RecordPaths, Runs
    <2> QED
      BY <1>9, <2>1, <2>2 DEF RecordPaths
  <1>10. ASSUME NEW x \in Process, EndPaths(x) PROVE TypeOK'
    <2>1. job' \in Jobs
      BY <1>10, TypeParts, Names DEF EndPaths, Jobs, Advanced, Beaten
    <2>2. run' \in [Process -> Runs]
      BY <1>10, TypeParts, Names DEF EndPaths, Runs
    <2> QED
      BY <1>10, <2>1, <2>2 DEF EndPaths
  <1>11. ASSUME NEW x \in Process, Quiesced(x) PROVE TypeOK'
    <2>1. job' \in Jobs
      BY <1>11, RowWrites, TypeParts, Names DEF Quiesced
    <2>2. run' = [run EXCEPT ![x] = [run[x] EXCEPT !.pc = "claiming", !.phase = "quiesce"]]
      BY <1>11 DEF Quiesced
    <2>3. [run[x] EXCEPT !.pc = "claiming", !.phase = "quiesce"] \in Runs
      BY TypeParts, Names, WorkerMoves
    <2>4. run' \in [Process -> Runs]
      BY <2>2, <2>3, TypeParts
    <2> QED
      BY <1>11, <2>1, <2>4 DEF Quiesced
  <1>12. ASSUME NEW x \in Process, KeepWaiting(x) PROVE TypeOK'
    <2>1. job' \in Jobs
      BY <1>12, TypeParts, Names DEF KeepWaiting, Jobs, Advanced, Beaten
    <2> QED
      BY <1>12, <2>1 DEF KeepWaiting
  <1>13. ASSUME NEW x \in Process, StopWaiting(x) PROVE TypeOK'
    <2>1. job' \in Jobs
      BY <1>13, TypeParts, Names DEF StopWaiting, Jobs, Parked, Beaten
    <2>2. run' \in [Process -> Runs]
      BY <1>13, TypeParts, Names DEF StopWaiting, Runs
    <2> QED
      BY <1>13, <2>1, <2>2 DEF StopWaiting
  <1>14. ASSUME NEW x \in Process, TakeClaim(x) PROVE TypeOK'
    <2> DEFINE c == Resume(run[x].phase)
               u == IF job.phase = "quiesce" THEN job.cursor ELSE 1
    <2>1. c \in Points /\ u \in 1 .. Units /\ run[x] \in Runs
      BY TypeParts, Names DEF Resume, Jobs
    <2>2. run' = [run EXCEPT ![x] = [run[x] EXCEPT !.pc = c, !.at = u]]
      BY <1>14 DEF TakeClaim
    <2> HIDE DEF c, u
    <2>3. [run[x] EXCEPT !.pc = c, !.at = u] \in Runs
      BY <2>1 DEF Runs
    <2>4. run' \in [Process -> Runs]
      BY <2>2, <2>3, TypeParts
    <2> QED
      BY <1>14, <2>4 DEF TakeClaim
  <1>15. ASSUME NEW x \in Process, RowMissing(x) PROVE TypeOK'
    <2>1. run' \in [Process -> Runs]
      BY <1>15, TypeParts, Names DEF RowMissing, Runs
    <2> QED
      BY <1>15, <2>1 DEF RowMissing
  <1>16. ASSUME NEW x \in Process, ClaimBusy(x) PROVE TypeOK'
    <2>1. job' \in Jobs
      BY <1>16, TypeParts, Names DEF ClaimBusy, Jobs, Parked, Beaten
    <2>2. run' \in [Process -> Runs]
      BY <1>16, TypeParts, Names DEF ClaimBusy, Runs
    <2> QED
      BY <1>16, <2>1, <2>2 DEF ClaimBusy
  <1>17. ASSUME NEW x \in Process, BatchOk(x) PROVE TypeOK'
    <2>1. /\ run' \in [Process -> Runs] /\ job' \in Jobs
          /\ UNCHANGED <<notebook, askVars, worldVars, sweeper, claim, writer, outside, trouble>>
      BY <1>17, Checks
    <2> QED
      BY <2>1
  <1>18. ASSUME NEW x \in Process, DeletePage(x) PROVE TypeOK'
    <2>1. /\ run' \in [Process -> Runs] /\ rows' \subseteq rows
          /\ UNCHANGED <<notebook, askVars, job, disk, archived, sweeper, claim, writer,
                        outside, trouble>>
      BY <1>18, Pages
    <2> QED
      BY <2>1
  <1>19. ASSUME NEW x \in Process, SaveCursor(x) PROVE TypeOK'
    <2>1. job' \in Jobs
      BY <1>19, RowWrites, TypeParts, Names DEF SaveCursor
    <2>2. run' \in [Process -> Runs]
      BY <1>19, TypeParts, Names DEF SaveCursor, Runs, Goes
    <2> QED
      BY <1>19, <2>1, <2>2 DEF SaveCursor
  <1>20. ASSUME NEW x \in Process, EndRows(x) PROVE TypeOK'
    <2>1. job' \in Jobs
      BY <1>20, RowWrites, TypeParts, Names DEF EndRows
    <2>2. run' = [run EXCEPT ![x] = [run[x] EXCEPT !.pc = "files", !.phase = "rows"]]
      BY <1>20 DEF EndRows
    <2>3. [run[x] EXCEPT !.pc = "files", !.phase = "rows"] \in Runs
      BY TypeParts, Names, WorkerMoves
    <2>4. run' \in [Process -> Runs]
      BY <2>2, <2>3, TypeParts
    <2> QED
      BY <1>20, <2>1, <2>4 DEF EndRows
  <1>21. ASSUME NEW x \in Process, Unlink(x) PROVE TypeOK'
    <2>1. run' \in [Process -> Runs]
      BY <1>21, TypeParts, Names DEF Unlink, Runs, Goes
    <2> QED
      BY <1>21, <2>1 DEF Unlink
  <1>22. ASSUME NEW x \in Process, EndFiles(x) PROVE TypeOK'
    <2>1. job' \in Jobs
      BY <1>22, RowWrites, TypeParts, Names DEF EndFiles
    <2>2. run' = [run EXCEPT ![x] = [run[x] EXCEPT !.pc = "final", !.phase = "files"]]
      BY <1>22 DEF EndFiles
    <2>3. [run[x] EXCEPT !.pc = "final", !.phase = "files"] \in Runs
      BY TypeParts, Names, WorkerMoves
    <2>4. run' \in [Process -> Runs]
      BY <2>2, <2>3, TypeParts
    <2> QED
      BY <1>22, <2>1, <2>4 DEF EndFiles
  <1>23. ASSUME NEW x \in Process, Finalize(x) PROVE TypeOK'
    <2>1. job' \in Jobs
      BY <1>23, TypeParts, Names DEF Finalize, Jobs, NoJob
    <2>2. run' \in [Process -> Runs]
      BY <1>23, TypeParts, Names DEF Finalize, Runs
    <2> QED
      BY <1>23, <2>1, <2>2 DEF Finalize
  <1>24. ASSUME NEW x \in Process, FinalizeFenced(x) PROVE TypeOK'
    <2>1. run' \in [Process -> Runs]
      BY <1>24, TypeParts, Names DEF FinalizeFenced, Runs
    <2> QED
      BY <1>24, <2>1 DEF FinalizeFenced
  <1>25. ASSUME NEW x \in Process, FinishResidual(x) PROVE TypeOK'
    <2>1. job' \in Jobs
      BY <1>25, RowWrites, TypeParts, Names DEF FinishResidual
    <2>2. ASSUME NEW c \in {"sweeping", "leaving"}
          PROVE  [run[x] EXCEPT !.pc = c] \in Runs
      BY TypeParts, Names, WorkerMoves
    <2>3. \/ run' = [run EXCEPT ![x] = [run[x] EXCEPT !.pc = "sweeping"]]
          \/ run' = [run EXCEPT ![x] = [run[x] EXCEPT !.pc = "leaving"]]
      BY <1>25 DEF FinishResidual, HasRow
    <2>4. run' \in [Process -> Runs]
      BY <2>2, <2>3, TypeParts
    <2> QED
      BY <1>25, <2>1, <2>4 DEF FinishResidual
  <1>26. ASSUME NEW x \in Process, SweepStragglers(x) PROVE TypeOK'
    <2>1. run' \in [Process -> Runs]
      BY <1>26, TypeParts, Names DEF SweepStragglers, Runs, Goes
    <2> QED
      BY <1>26, <2>1 DEF SweepStragglers
  <1>27. ASSUME NEW x \in Process, Leave(x) PROVE TypeOK'
    <2>1. run' \in [Process -> Runs]
      BY <1>27, TypeParts, Names DEF Leave, Runs
    <2> QED
      BY <1>27, <2>1 DEF Leave
  <1>28. ASSUME NEW x \in Process, FailJob(x) PROVE TypeOK'
    <2>1. job' \in Jobs
      BY <1>28, RowWrites, TypeParts, Names DEF FailJob
    <2>2. run' \in [Process -> Runs]
      BY <1>28, TypeParts, Names DEF FailJob, Runs
    <2> QED
      BY <1>28, <2>1, <2>2 DEF FailJob
  <1>29. ASSUME NEW x \in Process, ListDue(x) PROVE TypeOK'
    BY <1>29 DEF ListDue
  <1>30. ASSUME NEW x \in Process, Promote(x) PROVE TypeOK'
    <2>1. CASE notebook = "due"
      BY <1>30, <2>1, NewJobs DEF Promote
    <2>2. CASE notebook # "due"
      BY <1>30, <2>2, TypeParts DEF Promote
    <2> QED
      BY <2>1, <2>2
  <1>31. ASSUME NEW x \in Process, SweepStale(x) PROVE TypeOK'
    <2>1. run' \in [Process -> Runs]
      BY <1>31, TypeParts, Names DEF SweepStale, Runs
    <2> QED
      BY <1>31, <2>1 DEF SweepStale
  <1>32. ASSUME NEW x \in Process, ListMissing(x) PROVE TypeOK'
    BY <1>32 DEF Jobs, ListMissing
  <1>33. ASSUME NEW x \in Process, Recreate(x) PROVE TypeOK'
    <2>1. /\ run' \in [Process -> Runs] /\ job' \in Jobs
          /\ sweeper' = [sweeper EXCEPT ![x] = Resting]
          /\ UNCHANGED <<notebook, askVars, worldVars, claim, writer, outside, trouble>>
      BY <1>33, Recreates
    <2>2. sweeper' \in [Process -> [doing : {"idle", "promoting", "recreating"}, attempts : Nat]]
      BY <2>1
    <2> QED
      BY <2>1, <2>2
  <1>34. ASSUME NEW x \in Process, Crash(x) PROVE TypeOK'
    BY <1>34, Crashes
  <1>35. ASSUME NEW x \in Process, Raises(x) PROVE TypeOK'
    <2>1. run' \in [Process -> Runs]
      BY <1>35, TypeParts, Names DEF Raises, Runs
    <2> QED
      BY <1>35, <2>1 DEF Raises
  <1>36. ASSUME NEW x \in Writer, Admit(x) PROVE TypeOK'
    BY <1>36 DEF Admit
  <1>37. ASSUME NEW x \in Writer, BeginBuild(x) PROVE TypeOK'
    BY <1>37 DEF BeginBuild
  <1>38. ASSUME NEW x \in Writer, EndBuild(x) PROVE TypeOK'
    BY <1>38 DEF EndBuild
  <1>39. ASSUME NEW x \in Writer, LandFile(x) PROVE TypeOK'
    BY <1>39 DEF LandFile
  <1>40. ASSUME NEW x \in Writer, InsertRow(x) PROVE TypeOK'
    BY <1>40 DEF InsertRow
  <1>41. ASSUME NEW x \in Writer, KeepFile(x) PROVE TypeOK'
    BY <1>41 DEF Abandoned, KeepFile
  <1>42. ASSUME NEW x \in Writer, ClaimIndex(x) PROVE TypeOK'
    BY <1>42 DEF ClaimIndex
  <1>43. ASSUME NEW x \in Writer, EndIndex(x) PROVE TypeOK'
    BY <1>43 DEF EndIndex
  <1>44. CASE Ages
    <2>1. job' \in Jobs
      BY <1>44, TypeParts, Names DEF Ages, Jobs
    <2> QED
      BY <1>44, <2>1 DEF Ages
  <1>45. CASE LooksDead
    <2>1. job' \in Jobs
      BY <1>45, TypeParts, Names DEF LooksDead, Jobs
    <2> QED
      BY <1>45, <2>1 DEF LooksDead
  <1>46. CASE LoseClaim
    BY <1>46 DEF LoseClaim
  <1>47. CASE Vanish
    BY <1>47 DEF Vanish
  <1>48. CASE UNCHANGED vars
    BY <1>48 DEF vars
  <1> QED
    BY <1>1, <1>2, <1>3, <1>4, <1>5, <1>6, <1>7, <1>8, <1>9, <1>10, <1>11,
       <1>12, <1>13, <1>14, <1>15, <1>16, <1>17, <1>18, <1>19, <1>20, <1>21,
       <1>22, <1>23, <1>24, <1>25, <1>26, <1>27, <1>28, <1>29, <1>30, <1>31,
       <1>32, <1>33, <1>34, <1>35, <1>36, <1>37, <1>38, <1>39, <1>40, <1>41, <1>42,
       <1>43, <1>44, <1>45, <1>46, <1>47, <1>48 DEF Next, RunStep, SweepStep,
       WriterStep

(* Only a promotion or an immediate request makes a job, and nothing before it. *)
LEMMA UndoKept ==
  ASSUME TypeOK, Undo, [Next]_vars
  PROVE  Undo'
  <1> USE DeleteAssumption DEF Goes, Trouble, jobVars, worldVars,
          askVars, Undo, NothingEarly, UndoHolds, Intact, NoJob, Idle, Resting
  <1>1. CASE RequestPending
    BY <1>1 DEF Jobs, RequestPending, Runs, TypeOK
  <1>2. CASE WindowCloses
    BY <1>2 DEF Jobs, Runs, TypeOK, WindowCloses
  <1>3. CASE ReadCancelInstant
    BY <1>3 DEF Jobs, ReadCancelInstant, Runs, TypeOK
  <1>4. CASE Cancel
    BY <1>4 DEF Cancel, Jobs, Runs, TypeOK
  <1>5. ASSUME NEW x \in Process, Request(x) PROVE Undo'
    BY <1>5, NewJobs, TypeParts DEF Request
  <1>6. ASSUME NEW x \in Process, ReadJob(x) PROVE Undo'
    BY <1>6 DEF HasRow, Jobs, ReadJob, Runs, TypeOK
  <1>7. ASSUME NEW x \in Process, TakeLease(x) PROVE Undo'
    BY <1>7 DEF Beaten, Free, HasRow, Jobs, Runs, TakeLease, TypeOK
  <1>8. ASSUME NEW x \in Process, LookForNotebook(x) PROVE Undo'
    BY <1>8 DEF Enter, Jobs, LookForNotebook, Runs, TypeOK
  <1>9. ASSUME NEW x \in Process, RecordPaths(x) PROVE Undo'
    BY <1>9 DEF Beaten, Jobs, Owns, RecordPaths, Runs, TypeOK
  <1>10. ASSUME NEW x \in Process, EndPaths(x) PROVE Undo'
    BY <1>10 DEF Advanced, Beaten, EndPaths, Jobs, Owns, Runs, TypeOK
  <1>11. ASSUME NEW x \in Process, Quiesced(x) PROVE Undo'
    BY <1>11 DEF Advanced, Beaten, BuildRuns, Jobs, Owns, Quiesced, Runs,
         TypeOK
  <1>12. ASSUME NEW x \in Process, KeepWaiting(x) PROVE Undo'
    BY <1>12 DEF Advanced, Beaten, BuildRuns, Jobs, KeepWaiting, Owns, Runs,
         TypeOK
  <1>13. ASSUME NEW x \in Process, StopWaiting(x) PROVE Undo'
    BY <1>13 DEF Beaten, BuildRuns, Jobs, Owns, Parked, Runs, StopWaiting,
         TypeOK
  <1>14. ASSUME NEW x \in Process, TakeClaim(x) PROVE Undo'
    BY <1>14 DEF HasRow, Jobs, Resume, Runs, TakeClaim, TypeOK
  <1>15. ASSUME NEW x \in Process, RowMissing(x) PROVE Undo'
    BY <1>15 DEF HasRow, Jobs, RowMissing, Runs, TypeOK
  <1>16. ASSUME NEW x \in Process, ClaimBusy(x) PROVE Undo'
    BY <1>16 DEF Beaten, ClaimBusy, Jobs, Owns, Parked, Runs, TypeOK
  <1>17. ASSUME NEW x \in Process, BatchOk(x) PROVE Undo'
    BY <1>17, Checks, TypeParts
  <1>18. ASSUME NEW x \in Process, DeletePage(x) PROVE Undo'
    BY <1>18, Pages, TypeParts
  <1>19. ASSUME NEW x \in Process, SaveCursor(x) PROVE Undo'
    BY <1>19 DEF Advanced, Beaten, Jobs, Owns, Runs, SaveCursor, TypeOK
  <1>20. ASSUME NEW x \in Process, EndRows(x) PROVE Undo'
    BY <1>20 DEF Advanced, Beaten, EndRows, Jobs, Owns, Runs, TypeOK
  <1>21. ASSUME NEW x \in Process, Unlink(x) PROVE Undo'
    BY <1>21 DEF HasRow, Jobs, Runs, TypeOK, Unlink
  <1>22. ASSUME NEW x \in Process, EndFiles(x) PROVE Undo'
    BY <1>22 DEF Advanced, Beaten, EndFiles, Jobs, Owns, Runs, TypeOK
  <1>23. ASSUME NEW x \in Process, Finalize(x) PROVE Undo'
    BY <1>23 DEF Archives, Fenced, Finalize, HasRow, Jobs, Runs, TypeOK
  <1>24. ASSUME NEW x \in Process, FinalizeFenced(x) PROVE Undo'
    BY <1>24 DEF Fenced, FinalizeFenced, HasRow, Jobs, Runs, TypeOK
  <1>25. ASSUME NEW x \in Process, FinishResidual(x) PROVE Undo'
    BY <1>25 DEF FinishResidual, HasRow, Jobs, Runs, TypeOK
  <1>26. ASSUME NEW x \in Process, SweepStragglers(x) PROVE Undo'
    BY <1>26 DEF Jobs, Runs, SweepStragglers, TypeOK
  <1>27. ASSUME NEW x \in Process, Leave(x) PROVE Undo'
    BY <1>27 DEF Jobs, Leave, Runs, TypeOK
  <1>28. ASSUME NEW x \in Process, FailJob(x) PROVE Undo'
    BY <1>28 DEF FailJob, FailedRow, HasRow, Jobs, Runs, TypeOK
  <1>29. ASSUME NEW x \in Process, ListDue(x) PROVE Undo'
    BY <1>29 DEF Jobs, ListDue, Runs, TypeOK
  <1>30. ASSUME NEW x \in Process, Promote(x) PROVE Undo'
    <2>1. CASE notebook = "due"
      BY <1>30, <2>1, NewJobs DEF Promote
    <2>2. CASE notebook # "due"
      BY <1>30, <2>2, TypeParts DEF Promote
    <2> QED
      BY <2>1, <2>2
  <1>31. ASSUME NEW x \in Process, SweepStale(x) PROVE Undo'
    BY <1>31 DEF Jobs, Runs, SweepStale, TypeOK
  <1>32. ASSUME NEW x \in Process, ListMissing(x) PROVE Undo'
    BY <1>32 DEF Jobs, ListMissing, Runs, TypeOK
  <1>33. ASSUME NEW x \in Process, Recreate(x) PROVE Undo'
    <2>1. notebook \in {"deleting", "gone"} /\ notebook' = notebook /\ undone' = undone
      BY <1>33, Recreates
    <2> QED
      BY <2>1
  <1>34. ASSUME NEW x \in Process, Crash(x) PROVE Undo'
    <2>1. /\ UNCHANGED <<notebook, undone, job, rows, disk, archived>>
          /\ run' = [run EXCEPT ![x] = Idle] /\ sweeper' = [sweeper EXCEPT ![x] = Resting]
      BY <1>34, Crashes
    <2> QED
      BY <2>1 DEF TypeOK
  <1>35. ASSUME NEW x \in Process, Raises(x) PROVE Undo'
    BY <1>35 DEF Claiming, Jobs, Raises, Runs, TypeOK, Working
  <1>36. ASSUME NEW x \in Writer, Admit(x) PROVE Undo'
    BY <1>36 DEF Admit, Jobs, Runs, TypeOK
  <1>37. ASSUME NEW x \in Writer, BeginBuild(x) PROVE Undo'
    BY <1>37 DEF BeginBuild, Jobs, Runs, TypeOK
  <1>38. ASSUME NEW x \in Writer, EndBuild(x) PROVE Undo'
    BY <1>38 DEF EndBuild, Jobs, Runs, TypeOK
  <1>39. ASSUME NEW x \in Writer, LandFile(x) PROVE Undo'
    BY <1>39 DEF Jobs, LandFile, Runs, TypeOK
  <1>40. ASSUME NEW x \in Writer, InsertRow(x) PROVE Undo'
    BY <1>40 DEF InsertRow, Jobs, Runs, TypeOK
  <1>41. ASSUME NEW x \in Writer, KeepFile(x) PROVE Undo'
    BY <1>41 DEF Abandoned, KeepFile, Jobs, Runs, TypeOK
  <1>42. ASSUME NEW x \in Writer, ClaimIndex(x) PROVE Undo'
    BY <1>42 DEF ClaimIndex, Jobs, Runs, TypeOK
  <1>43. ASSUME NEW x \in Writer, EndIndex(x) PROVE Undo'
    BY <1>43 DEF EndIndex, Jobs, Runs, TypeOK
  <1>44. CASE Ages
    BY <1>44 DEF Active, Ages, Attended, Jobs, Owns, Runs, TypeOK
  <1>45. CASE LooksDead
    BY <1>45 DEF Attended, Jobs, LooksDead, Owns, Runs, TypeOK
  <1>46. CASE LoseClaim
    BY <1>46 DEF Jobs, LoseClaim, Runs, TypeOK
  <1>47. CASE Vanish
    BY <1>47 DEF Jobs, Runs, TypeOK, Vanish
  <1>48. CASE UNCHANGED vars
    BY <1>48 DEF vars
  <1> HIDE DEF Undo
  <1> QED
    BY <1>1, <1>2, <1>3, <1>4, <1>5, <1>6, <1>7, <1>8, <1>9, <1>10, <1>11,
       <1>12, <1>13, <1>14, <1>15, <1>16, <1>17, <1>18, <1>19, <1>20, <1>21,
       <1>22, <1>23, <1>24, <1>25, <1>26, <1>27, <1>28, <1>29, <1>30, <1>31,
       <1>32, <1>33, <1>34, <1>35, <1>36, <1>37, <1>38, <1>39, <1>40, <1>41, <1>42,
       <1>43, <1>44, <1>45, <1>46, <1>47, <1>48 DEF Next, RunStep, SweepStep,
       WriterStep

(* A phase after quiesce is only written by a worker that has passed it. *)
LEMMA QuietKept ==
  ASSUME TypeOK, Undo, Quiet, Archive, [Next]_vars
  PROVE  Quiet'
  <1> USE DeleteAssumption DEF Goes, Trouble, jobVars, worldVars,
          askVars, Quiet, PastIsQuiet, QuiescedBeforeRows, Undo, NothingEarly,
          UndoHolds, Intact, Past, Archive, Idle, NoJob, Phases, Claiming
  <1>1. CASE RequestPending
    BY <1>1 DEF Jobs, RequestPending, Runs, TypeOK
  <1>2. CASE WindowCloses
    BY <1>2 DEF Jobs, Runs, TypeOK, WindowCloses
  <1>3. CASE ReadCancelInstant
    BY <1>3 DEF Jobs, ReadCancelInstant, Runs, TypeOK
  <1>4. CASE Cancel
    BY <1>4 DEF Cancel, Jobs, Runs, TypeOK
  <1>5. ASSUME NEW x \in Process, Request(x) PROVE Quiet'
    BY <1>5, NewJobs, TypeParts DEF Request
  <1>6. ASSUME NEW x \in Process, ReadJob(x) PROVE Quiet'
    BY <1>6 DEF HasRow, Jobs, ReadJob, Runs, TypeOK
  <1>7. ASSUME NEW x \in Process, TakeLease(x) PROVE Quiet'
    BY <1>7 DEF Beaten, Free, HasRow, Jobs, Runs, TakeLease, TypeOK
  <1>8. ASSUME NEW x \in Process, LookForNotebook(x) PROVE Quiet'
    BY <1>8 DEF Enter, Jobs, LookForNotebook, Runs, TypeOK
  <1>9. ASSUME NEW x \in Process, RecordPaths(x) PROVE Quiet'
    BY <1>9 DEF Beaten, Jobs, Owns, RecordPaths, Runs, TypeOK
  <1>10. ASSUME NEW x \in Process, EndPaths(x) PROVE Quiet'
    BY <1>10 DEF Advanced, Beaten, EndPaths, Jobs, Owns, Runs, TypeOK
  <1>11. ASSUME NEW x \in Process, Quiesced(x) PROVE Quiet'
    BY <1>11 DEF Advanced, Beaten, BuildRuns, Jobs, Owns, Quiesced, Runs,
         TypeOK
  <1>12. ASSUME NEW x \in Process, KeepWaiting(x) PROVE Quiet'
    BY <1>12 DEF Advanced, Beaten, BuildRuns, Jobs, KeepWaiting, Owns, Runs,
         TypeOK
  <1>13. ASSUME NEW x \in Process, StopWaiting(x) PROVE Quiet'
    BY <1>13 DEF Beaten, BuildRuns, Jobs, Owns, Parked, Runs, StopWaiting,
         TypeOK
  <1>14. ASSUME NEW x \in Process, TakeClaim(x) PROVE Quiet'
    BY <1>14 DEF HasRow, Jobs, Resume, Runs, TakeClaim, TypeOK
  <1>15. ASSUME NEW x \in Process, RowMissing(x) PROVE Quiet'
    BY <1>15 DEF HasRow, Jobs, RowMissing, Runs, TypeOK
  <1>16. ASSUME NEW x \in Process, ClaimBusy(x) PROVE Quiet'
    BY <1>16 DEF Beaten, ClaimBusy, Jobs, Owns, Parked, Runs, TypeOK
  <1>17. ASSUME NEW x \in Process, BatchOk(x) PROVE Quiet'
    BY <1>17, Checks, TypeParts
  <1>18. ASSUME NEW x \in Process, DeletePage(x) PROVE Quiet'
    BY <1>18, Pages, TypeParts
  <1>19. ASSUME NEW x \in Process, SaveCursor(x) PROVE Quiet'
    BY <1>19 DEF Advanced, Beaten, Jobs, Owns, Runs, SaveCursor, TypeOK
  <1>20. ASSUME NEW x \in Process, EndRows(x) PROVE Quiet'
    BY <1>20 DEF Advanced, Beaten, EndRows, Jobs, Owns, Runs, TypeOK
  <1>21. ASSUME NEW x \in Process, Unlink(x) PROVE Quiet'
    BY <1>21 DEF HasRow, Jobs, Runs, TypeOK, Unlink
  <1>22. ASSUME NEW x \in Process, EndFiles(x) PROVE Quiet'
    BY <1>22 DEF Advanced, Beaten, EndFiles, Jobs, Owns, Runs, TypeOK
  <1>23. ASSUME NEW x \in Process, Finalize(x) PROVE Quiet'
    BY <1>23 DEF Archives, Fenced, Finalize, HasRow, Jobs, Runs, TypeOK
  <1>24. ASSUME NEW x \in Process, FinalizeFenced(x) PROVE Quiet'
    BY <1>24 DEF Fenced, FinalizeFenced, HasRow, Jobs, Runs, TypeOK
  <1>25. ASSUME NEW x \in Process, FinishResidual(x) PROVE Quiet'
    BY <1>25 DEF FinishResidual, HasRow, Jobs, Runs, TypeOK
  <1>26. ASSUME NEW x \in Process, SweepStragglers(x) PROVE Quiet'
    BY <1>26 DEF Jobs, Runs, SweepStragglers, TypeOK
  <1>27. ASSUME NEW x \in Process, Leave(x) PROVE Quiet'
    BY <1>27 DEF Jobs, Leave, Runs, TypeOK
  <1>28. ASSUME NEW x \in Process, FailJob(x) PROVE Quiet'
    BY <1>28 DEF FailJob, FailedRow, HasRow, Jobs, Runs, TypeOK
  <1>29. ASSUME NEW x \in Process, ListDue(x) PROVE Quiet'
    BY <1>29 DEF Jobs, ListDue, Runs, TypeOK
  <1>30. ASSUME NEW x \in Process, Promote(x) PROVE Quiet'
    BY <1>30, NewJobs, TypeParts DEF Promote, Resting
  <1>31. ASSUME NEW x \in Process, SweepStale(x) PROVE Quiet'
    BY <1>31 DEF Jobs, Runs, SweepStale, TypeOK
  <1>32. ASSUME NEW x \in Process, ListMissing(x) PROVE Quiet'
    BY <1>32 DEF Jobs, ListMissing, Runs, TypeOK
  <1>33. ASSUME NEW x \in Process, Recreate(x) PROVE Quiet'
    <2>1. /\ notebook \in {"deleting", "gone"} /\ notebook' = notebook /\ writer' = writer
          /\ rows' = rows /\ disk' = disk /\ archived' = archived
      BY <1>33, Recreates
    <2>2. job'.phase \in Past => job.phase \in Past
      BY <1>33, Recreates
    <2>3. ASSUME NEW q \in Process,
                 run'[q].phase \in Past \/ run'[q].pc \in Claiming \cup {"claiming"}
          PROVE  run[q].phase \in Past \/ run[q].pc \in Claiming \cup {"claiming"}
      BY <1>33, <2>3, Recreates
    <2> QED
      BY <2>1, <2>2, <2>3
  <1>34. ASSUME NEW x \in Process, Crash(x) PROVE Quiet'
    <2>1. /\ UNCHANGED <<notebook, job, rows, disk, archived>>
          /\ run' = [run EXCEPT ![x] = Idle]
          /\ \A w \in Writer : writer'[w] = "building" => writer[w] = "building"
      BY <1>34, Crashes
    <2> QED
      BY <2>1 DEF TypeOK
  <1>35. ASSUME NEW x \in Process, Raises(x) PROVE Quiet'
    BY <1>35 DEF Jobs, Raises, Runs, TypeOK
  <1>36. ASSUME NEW x \in Writer, Admit(x) PROVE Quiet'
    BY <1>36 DEF Admit, Jobs, Runs, TypeOK
  <1>37. ASSUME NEW x \in Writer, BeginBuild(x) PROVE Quiet'
    BY <1>37 DEF BeginBuild, Jobs, Runs, TypeOK
  <1>38. ASSUME NEW x \in Writer, EndBuild(x) PROVE Quiet'
    BY <1>38 DEF EndBuild, Jobs, Runs, TypeOK
  <1>39. ASSUME NEW x \in Writer, LandFile(x) PROVE Quiet'
    BY <1>39 DEF Jobs, LandFile, Runs, TypeOK
  <1>40. ASSUME NEW x \in Writer, InsertRow(x) PROVE Quiet'
    BY <1>40 DEF InsertRow, Jobs, Runs, TypeOK
  <1>41. ASSUME NEW x \in Writer, KeepFile(x) PROVE Quiet'
    BY <1>41 DEF Abandoned, KeepFile, Jobs, Runs, TypeOK
  <1>42. ASSUME NEW x \in Writer, ClaimIndex(x) PROVE Quiet'
    BY <1>42 DEF ClaimIndex, Jobs, Runs, TypeOK
  <1>43. ASSUME NEW x \in Writer, EndIndex(x) PROVE Quiet'
    BY <1>43 DEF EndIndex, Jobs, Runs, TypeOK
  <1>44. CASE Ages
    BY <1>44 DEF Ages, Attended, Jobs, Owns, Runs, TypeOK
  <1>45. CASE LooksDead
    BY <1>45 DEF Attended, Jobs, LooksDead, Owns, Runs, TypeOK
  <1>46. CASE LoseClaim
    BY <1>46 DEF Jobs, LoseClaim, Runs, TypeOK
  <1>47. CASE Vanish
    BY <1>47 DEF Jobs, Runs, TypeOK, Vanish
  <1>48. CASE UNCHANGED vars
    BY <1>48 DEF vars
  <1> QED
    BY <1>1, <1>2, <1>3, <1>4, <1>5, <1>6, <1>7, <1>8, <1>9, <1>10, <1>11,
       <1>12, <1>13, <1>14, <1>15, <1>16, <1>17, <1>18, <1>19, <1>20, <1>21,
       <1>22, <1>23, <1>24, <1>25, <1>26, <1>27, <1>28, <1>29, <1>30, <1>31,
       <1>32, <1>33, <1>34, <1>35, <1>36, <1>37, <1>38, <1>39, <1>40, <1>41, <1>42,
       <1>43, <1>44, <1>45, <1>46, <1>47, <1>48 DEF Next, RunStep, SweepStep,
       WriterStep

(* The archive is only written with the last transaction. *)
LEMMA ArchiveKept ==
  ASSUME TypeOK, Undo, Archive, [Next]_vars
  PROVE  Archive'
  <1> USE DeleteAssumption DEF Goes, Trouble, jobVars, worldVars,
          askVars, Archive, ArchivedOnce, Undo, NothingEarly, Idle
  <1>1. CASE RequestPending
    BY <1>1 DEF Jobs, RequestPending, Runs, TypeOK
  <1>2. CASE WindowCloses
    BY <1>2 DEF Jobs, Runs, TypeOK, WindowCloses
  <1>3. CASE ReadCancelInstant
    BY <1>3 DEF Jobs, ReadCancelInstant, Runs, TypeOK
  <1>4. CASE Cancel
    BY <1>4 DEF Cancel, Jobs, Runs, TypeOK
  <1>5. ASSUME NEW x \in Process, Request(x) PROVE Archive'
    BY <1>5, NewJobs, TypeParts DEF NoJob, Request
  <1>6. ASSUME NEW x \in Process, ReadJob(x) PROVE Archive'
    BY <1>6 DEF HasRow, Jobs, ReadJob, Runs, TypeOK
  <1>7. ASSUME NEW x \in Process, TakeLease(x) PROVE Archive'
    BY <1>7 DEF Beaten, Free, HasRow, Jobs, Runs, TakeLease, TypeOK
  <1>8. ASSUME NEW x \in Process, LookForNotebook(x) PROVE Archive'
    BY <1>8 DEF Enter, Jobs, LookForNotebook, Runs, TypeOK
  <1>9. ASSUME NEW x \in Process, RecordPaths(x) PROVE Archive'
    BY <1>9 DEF Beaten, Jobs, Owns, RecordPaths, Runs, TypeOK
  <1>10. ASSUME NEW x \in Process, EndPaths(x) PROVE Archive'
    BY <1>10 DEF Advanced, Beaten, EndPaths, Jobs, Owns, Runs, TypeOK
  <1>11. ASSUME NEW x \in Process, Quiesced(x) PROVE Archive'
    BY <1>11 DEF Advanced, Beaten, BuildRuns, Jobs, Owns, Quiesced, Runs,
         TypeOK
  <1>12. ASSUME NEW x \in Process, KeepWaiting(x) PROVE Archive'
    BY <1>12 DEF Advanced, Beaten, BuildRuns, Jobs, KeepWaiting, Owns, Runs,
         TypeOK
  <1>13. ASSUME NEW x \in Process, StopWaiting(x) PROVE Archive'
    BY <1>13 DEF Beaten, BuildRuns, Jobs, Owns, Parked, Runs, StopWaiting,
         TypeOK
  <1>14. ASSUME NEW x \in Process, TakeClaim(x) PROVE Archive'
    BY <1>14 DEF HasRow, Jobs, Resume, Runs, TakeClaim, TypeOK
  <1>15. ASSUME NEW x \in Process, RowMissing(x) PROVE Archive'
    BY <1>15 DEF HasRow, Jobs, RowMissing, Runs, TypeOK
  <1>16. ASSUME NEW x \in Process, ClaimBusy(x) PROVE Archive'
    BY <1>16 DEF Beaten, ClaimBusy, Jobs, Owns, Parked, Runs, TypeOK
  <1>17. ASSUME NEW x \in Process, BatchOk(x) PROVE Archive'
    BY <1>17, Checks, TypeParts
  <1>18. ASSUME NEW x \in Process, DeletePage(x) PROVE Archive'
    BY <1>18, Pages, TypeParts
  <1>19. ASSUME NEW x \in Process, SaveCursor(x) PROVE Archive'
    BY <1>19 DEF Advanced, Beaten, Jobs, Owns, Runs, SaveCursor, TypeOK
  <1>20. ASSUME NEW x \in Process, EndRows(x) PROVE Archive'
    BY <1>20 DEF Advanced, Beaten, EndRows, Jobs, Owns, Runs, TypeOK
  <1>21. ASSUME NEW x \in Process, Unlink(x) PROVE Archive'
    BY <1>21 DEF HasRow, Jobs, Runs, TypeOK, Unlink
  <1>22. ASSUME NEW x \in Process, EndFiles(x) PROVE Archive'
    BY <1>22 DEF Advanced, Beaten, EndFiles, Jobs, Owns, Runs, TypeOK
  <1>23. ASSUME NEW x \in Process, Finalize(x) PROVE Archive'
    BY <1>23 DEF Archives, Fenced, Finalize, HasRow, Jobs, NoJob, Runs, TypeOK
  <1>24. ASSUME NEW x \in Process, FinalizeFenced(x) PROVE Archive'
    BY <1>24 DEF Fenced, FinalizeFenced, HasRow, Jobs, Runs, TypeOK
  <1>25. ASSUME NEW x \in Process, FinishResidual(x) PROVE Archive'
    BY <1>25 DEF FinishResidual, HasRow, Jobs, NoJob, Runs, TypeOK
  <1>26. ASSUME NEW x \in Process, SweepStragglers(x) PROVE Archive'
    BY <1>26 DEF Jobs, Runs, SweepStragglers, TypeOK
  <1>27. ASSUME NEW x \in Process, Leave(x) PROVE Archive'
    BY <1>27 DEF Jobs, Leave, Runs, TypeOK
  <1>28. ASSUME NEW x \in Process, FailJob(x) PROVE Archive'
    BY <1>28 DEF FailJob, FailedRow, HasRow, Jobs, Runs, TypeOK
  <1>29. ASSUME NEW x \in Process, ListDue(x) PROVE Archive'
    BY <1>29 DEF Jobs, ListDue, Runs, TypeOK
  <1>30. ASSUME NEW x \in Process, Promote(x) PROVE Archive'
    BY <1>30, NewJobs, TypeParts DEF NoJob, Promote, Resting
  <1>31. ASSUME NEW x \in Process, SweepStale(x) PROVE Archive'
    BY <1>31 DEF Jobs, Runs, SweepStale, TypeOK
  <1>32. ASSUME NEW x \in Process, ListMissing(x) PROVE Archive'
    BY <1>32 DEF Jobs, ListMissing, Runs, TypeOK
  <1>33. ASSUME NEW x \in Process, Recreate(x) PROVE Archive'
    <2>1. notebook' = notebook /\ archived' = archived /\ outside' = outside
      BY <1>33, Recreates
    <2> QED
      BY <2>1
  <1>34. ASSUME NEW x \in Process, Crash(x) PROVE Archive'
    BY <1>34 DEF Crash, Jobs, Resting, Runs, TypeOK
  <1>35. ASSUME NEW x \in Process, Raises(x) PROVE Archive'
    BY <1>35 DEF Jobs, Raises, Runs, TypeOK
  <1>36. ASSUME NEW x \in Writer, Admit(x) PROVE Archive'
    BY <1>36 DEF Admit, Jobs, Runs, TypeOK
  <1>37. ASSUME NEW x \in Writer, BeginBuild(x) PROVE Archive'
    BY <1>37 DEF BeginBuild, Jobs, Runs, TypeOK
  <1>38. ASSUME NEW x \in Writer, EndBuild(x) PROVE Archive'
    BY <1>38 DEF EndBuild, Jobs, Runs, TypeOK
  <1>39. ASSUME NEW x \in Writer, LandFile(x) PROVE Archive'
    BY <1>39 DEF Jobs, LandFile, Runs, TypeOK
  <1>40. ASSUME NEW x \in Writer, InsertRow(x) PROVE Archive'
    BY <1>40 DEF InsertRow, Jobs, Runs, TypeOK
  <1>41. ASSUME NEW x \in Writer, KeepFile(x) PROVE Archive'
    BY <1>41 DEF Abandoned, KeepFile, Jobs, Runs, TypeOK
  <1>42. ASSUME NEW x \in Writer, ClaimIndex(x) PROVE Archive'
    BY <1>42 DEF ClaimIndex, Jobs, Runs, TypeOK
  <1>43. ASSUME NEW x \in Writer, EndIndex(x) PROVE Archive'
    BY <1>43 DEF EndIndex, Jobs, Runs, TypeOK
  <1>44. CASE Ages
    BY <1>44 DEF Ages, Attended, Jobs, Owns, Runs, TypeOK
  <1>45. CASE LooksDead
    BY <1>45 DEF Attended, Jobs, LooksDead, Owns, Runs, TypeOK
  <1>46. CASE LoseClaim
    BY <1>46 DEF Jobs, LoseClaim, Runs, TypeOK
  <1>47. CASE Vanish
    BY <1>47 DEF Jobs, Runs, TypeOK, Vanish
  <1>48. CASE UNCHANGED vars
    BY <1>48 DEF vars
  <1> QED
    BY <1>1, <1>2, <1>3, <1>4, <1>5, <1>6, <1>7, <1>8, <1>9, <1>10, <1>11,
       <1>12, <1>13, <1>14, <1>15, <1>16, <1>17, <1>18, <1>19, <1>20, <1>21,
       <1>22, <1>23, <1>24, <1>25, <1>26, <1>27, <1>28, <1>29, <1>30, <1>31,
       <1>32, <1>33, <1>34, <1>35, <1>36, <1>37, <1>38, <1>39, <1>40, <1>41, <1>42,
       <1>43, <1>44, <1>45, <1>46, <1>47, <1>48 DEF Next, RunStep, SweepStep,
       WriterStep

(* A new job has a number that no worker knows yet. *)
LEMMA NumbersKept ==
  ASSUME TypeOK, Undo, Numbered, [Next]_vars
  PROVE  Numbered'
  <1> USE DeleteAssumption DEF Goes, Trouble, jobVars, worldVars,
          askVars, Numbered, Undo, NothingEarly, Idle, NoJob, HasRow
  <1>1. CASE RequestPending
    BY <1>1 DEF Jobs, RequestPending, Runs, TypeOK
  <1>2. CASE WindowCloses
    BY <1>2 DEF Jobs, Runs, TypeOK, WindowCloses
  <1>3. CASE ReadCancelInstant
    BY <1>3 DEF Jobs, ReadCancelInstant, Runs, TypeOK
  <1>4. CASE Cancel
    BY <1>4 DEF Cancel, Jobs, Runs, TypeOK
  <1>5. ASSUME NEW x \in Process, Request(x) PROVE Numbered'
    <2>1. /\ job'.id = job.id + 1
          /\ \A q \in Process : run'[q].job = run[q].job \/ run'[q].job = job.id + 1
      BY <1>5, NewJobs DEF Request
    <2> QED
      BY <2>1, TypeParts
  <1>6. ASSUME NEW x \in Process, ReadJob(x) PROVE Numbered'
    BY <1>6 DEF Jobs, ReadJob, Runs, TypeOK
  <1>7. ASSUME NEW x \in Process, TakeLease(x) PROVE Numbered'
    BY <1>7 DEF Beaten, Free, Jobs, Runs, TakeLease, TypeOK
  <1>8. ASSUME NEW x \in Process, LookForNotebook(x) PROVE Numbered'
    BY <1>8 DEF Enter, Jobs, LookForNotebook, Runs, TypeOK
  <1>9. ASSUME NEW x \in Process, RecordPaths(x) PROVE Numbered'
    BY <1>9 DEF Beaten, Jobs, Owns, RecordPaths, Runs, TypeOK
  <1>10. ASSUME NEW x \in Process, EndPaths(x) PROVE Numbered'
    BY <1>10 DEF Advanced, Beaten, EndPaths, Jobs, Owns, Runs, TypeOK
  <1>11. ASSUME NEW x \in Process, Quiesced(x) PROVE Numbered'
    BY <1>11 DEF Advanced, Beaten, BuildRuns, Jobs, Owns, Quiesced, Runs,
         TypeOK
  <1>12. ASSUME NEW x \in Process, KeepWaiting(x) PROVE Numbered'
    BY <1>12 DEF Advanced, Beaten, BuildRuns, Jobs, KeepWaiting, Owns, Runs,
         TypeOK
  <1>13. ASSUME NEW x \in Process, StopWaiting(x) PROVE Numbered'
    BY <1>13 DEF Beaten, BuildRuns, Jobs, Owns, Parked, Runs, StopWaiting,
         TypeOK
  <1>14. ASSUME NEW x \in Process, TakeClaim(x) PROVE Numbered'
    BY <1>14 DEF Jobs, Resume, Runs, TakeClaim, TypeOK
  <1>15. ASSUME NEW x \in Process, RowMissing(x) PROVE Numbered'
    BY <1>15 DEF Jobs, RowMissing, Runs, TypeOK
  <1>16. ASSUME NEW x \in Process, ClaimBusy(x) PROVE Numbered'
    BY <1>16 DEF Beaten, ClaimBusy, Jobs, Owns, Parked, Runs, TypeOK
  <1>17. ASSUME NEW x \in Process, BatchOk(x) PROVE Numbered'
    BY <1>17, Checks, TypeParts
  <1>18. ASSUME NEW x \in Process, DeletePage(x) PROVE Numbered'
    BY <1>18, Pages, TypeParts
  <1>19. ASSUME NEW x \in Process, SaveCursor(x) PROVE Numbered'
    BY <1>19 DEF Advanced, Beaten, Jobs, Owns, Runs, SaveCursor, TypeOK
  <1>20. ASSUME NEW x \in Process, EndRows(x) PROVE Numbered'
    BY <1>20 DEF Advanced, Beaten, EndRows, Jobs, Owns, Runs, TypeOK
  <1>21. ASSUME NEW x \in Process, Unlink(x) PROVE Numbered'
    BY <1>21 DEF Jobs, Runs, TypeOK, Unlink
  <1>22. ASSUME NEW x \in Process, EndFiles(x) PROVE Numbered'
    BY <1>22 DEF Advanced, Beaten, EndFiles, Jobs, Owns, Runs, TypeOK
  <1>23. ASSUME NEW x \in Process, Finalize(x) PROVE Numbered'
    BY <1>23 DEF Archives, Fenced, Finalize, Jobs, Runs, TypeOK
  <1>24. ASSUME NEW x \in Process, FinalizeFenced(x) PROVE Numbered'
    BY <1>24 DEF Fenced, FinalizeFenced, Jobs, Runs, TypeOK
  <1>25. ASSUME NEW x \in Process, FinishResidual(x) PROVE Numbered'
    BY <1>25 DEF FinishResidual, Jobs, Runs, TypeOK
  <1>26. ASSUME NEW x \in Process, SweepStragglers(x) PROVE Numbered'
    BY <1>26 DEF Jobs, Runs, SweepStragglers, TypeOK
  <1>27. ASSUME NEW x \in Process, Leave(x) PROVE Numbered'
    BY <1>27 DEF Jobs, Leave, Runs, TypeOK
  <1>28. ASSUME NEW x \in Process, FailJob(x) PROVE Numbered'
    BY <1>28 DEF FailJob, FailedRow, Jobs, Runs, TypeOK
  <1>29. ASSUME NEW x \in Process, ListDue(x) PROVE Numbered'
    BY <1>29 DEF Jobs, ListDue, Runs, TypeOK
  <1>30. ASSUME NEW x \in Process, Promote(x) PROVE Numbered'
    <2>1. CASE notebook = "due"
      <3>1. /\ job'.id = job.id + 1
            /\ \A q \in Process : run'[q].job = run[q].job \/ run'[q].job = job.id + 1
        BY <1>30, <2>1, NewJobs DEF Promote
      <3> QED
        BY <3>1, TypeParts
    <2>2. CASE notebook # "due"
      BY <1>30, <2>2 DEF Promote
    <2> QED
      BY <2>1, <2>2
  <1>31. ASSUME NEW x \in Process, SweepStale(x) PROVE Numbered'
    BY <1>31 DEF Jobs, Runs, SweepStale, TypeOK
  <1>32. ASSUME NEW x \in Process, ListMissing(x) PROVE Numbered'
    BY <1>32 DEF Jobs, ListMissing, Runs, TypeOK
  <1>33. ASSUME NEW x \in Process, Recreate(x) PROVE Numbered'
    <2>1. /\ job'.id = job.id \/ job'.id = job.id + 1
          /\ \A q \in Process : run'[q].job = run[q].job \/ run'[q].job = job'.id
      BY <1>33, Recreates
    <2> QED
      BY <2>1, TypeParts
  <1>34. ASSUME NEW x \in Process, Crash(x) PROVE Numbered'
    BY <1>34 DEF Crash, Jobs, Resting, Runs, TypeOK
  <1>35. ASSUME NEW x \in Process, Raises(x) PROVE Numbered'
    BY <1>35 DEF Jobs, Raises, Runs, TypeOK
  <1>36. ASSUME NEW x \in Writer, Admit(x) PROVE Numbered'
    BY <1>36 DEF Admit, Jobs, Runs, TypeOK
  <1>37. ASSUME NEW x \in Writer, BeginBuild(x) PROVE Numbered'
    BY <1>37 DEF BeginBuild, Jobs, Runs, TypeOK
  <1>38. ASSUME NEW x \in Writer, EndBuild(x) PROVE Numbered'
    BY <1>38 DEF EndBuild, Jobs, Runs, TypeOK
  <1>39. ASSUME NEW x \in Writer, LandFile(x) PROVE Numbered'
    BY <1>39 DEF Jobs, LandFile, Runs, TypeOK
  <1>40. ASSUME NEW x \in Writer, InsertRow(x) PROVE Numbered'
    BY <1>40 DEF InsertRow, Jobs, Runs, TypeOK
  <1>41. ASSUME NEW x \in Writer, KeepFile(x) PROVE Numbered'
    BY <1>41 DEF Abandoned, KeepFile, Jobs, Runs, TypeOK
  <1>42. ASSUME NEW x \in Writer, ClaimIndex(x) PROVE Numbered'
    BY <1>42 DEF ClaimIndex, Jobs, Runs, TypeOK
  <1>43. ASSUME NEW x \in Writer, EndIndex(x) PROVE Numbered'
    BY <1>43 DEF EndIndex, Jobs, Runs, TypeOK
  <1>44. CASE Ages
    BY <1>44 DEF Ages, Attended, Jobs, Owns, Runs, TypeOK
  <1>45. CASE LooksDead
    BY <1>45 DEF Attended, Jobs, LooksDead, Owns, Runs, TypeOK
  <1>46. CASE LoseClaim
    BY <1>46 DEF Jobs, LoseClaim, Runs, TypeOK
  <1>47. CASE Vanish
    BY <1>47 DEF Jobs, Runs, TypeOK, Vanish
  <1>48. CASE UNCHANGED vars
    BY <1>48 DEF vars
  <1> QED
    BY <1>1, <1>2, <1>3, <1>4, <1>5, <1>6, <1>7, <1>8, <1>9, <1>10, <1>11,
       <1>12, <1>13, <1>14, <1>15, <1>16, <1>17, <1>18, <1>19, <1>20, <1>21,
       <1>22, <1>23, <1>24, <1>25, <1>26, <1>27, <1>28, <1>29, <1>30, <1>31,
       <1>32, <1>33, <1>34, <1>35, <1>36, <1>37, <1>38, <1>39, <1>40, <1>41, <1>42,
       <1>43, <1>44, <1>45, <1>46, <1>47, <1>48 DEF Next, RunStep, SweepStep,
       WriterStep

(* The phase goes on from `mark' only after the paths were recorded for this job. *)
LEMMA RecordedKept ==
  ASSUME TypeOK, Undo, Numbered, Recorded, [Next]_vars
  PROVE  Recorded'
  <1> USE DeleteAssumption DEF Goes, Trouble, jobVars, worldVars,
          askVars, Recorded, Undo, NothingEarly, Idle, NoJob, HasRow,
          Numbered, Claiming
  <1>1. CASE RequestPending
    BY <1>1 DEF Jobs, RequestPending, Runs, TypeOK
  <1>2. CASE WindowCloses
    BY <1>2 DEF Jobs, Runs, TypeOK, WindowCloses
  <1>3. CASE ReadCancelInstant
    BY <1>3 DEF Jobs, ReadCancelInstant, Runs, TypeOK
  <1>4. CASE Cancel
    BY <1>4 DEF Cancel, Jobs, Runs, TypeOK
  <1>5. ASSUME NEW x \in Process, Request(x) PROVE Recorded'
    <2>1. /\ job'.phase = "mark"
          /\ \A q \in Process : run'[q].phase = "mark" /\ run'[q].pc \in {"idle", "submitted"}
      <3>1. \A q \in Process : run[q].phase = "mark" /\ run[q].pc = "idle"
        BY <1>5 DEF Request
      <3>2. /\ job'.phase = "mark"
            /\ \A q \in Process :
                 run'[q] = run[q] \/ (run'[q].phase = "mark" /\ run'[q].pc = "submitted")
        BY <1>5, NewJobs DEF Request
      <3> QED
        BY <3>1, <3>2
    <2> QED
      BY <2>1
  <1>6. ASSUME NEW x \in Process, ReadJob(x) PROVE Recorded'
    BY <1>6 DEF Jobs, ReadJob, Runs, TypeOK
  <1>7. ASSUME NEW x \in Process, TakeLease(x) PROVE Recorded'
    BY <1>7 DEF Beaten, Free, Jobs, Runs, TakeLease, TypeOK
  <1>8. ASSUME NEW x \in Process, LookForNotebook(x) PROVE Recorded'
    BY <1>8 DEF Enter, Jobs, LookForNotebook, Runs, TypeOK
  <1>9. ASSUME NEW x \in Process, RecordPaths(x) PROVE Recorded'
    BY <1>9 DEF Beaten, Jobs, Owns, RecordPaths, Runs, TypeOK
  <1>10. ASSUME NEW x \in Process, EndPaths(x) PROVE Recorded'
    BY <1>10 DEF Advanced, Beaten, EndPaths, Jobs, Owns, Runs, TypeOK
  <1>11. ASSUME NEW x \in Process, Quiesced(x) PROVE Recorded'
    BY <1>11 DEF Advanced, Beaten, BuildRuns, Jobs, Owns, Quiesced, Runs,
         TypeOK
  <1>12. ASSUME NEW x \in Process, KeepWaiting(x) PROVE Recorded'
    BY <1>12 DEF Advanced, Beaten, BuildRuns, Jobs, KeepWaiting, Owns, Runs,
         TypeOK
  <1>13. ASSUME NEW x \in Process, StopWaiting(x) PROVE Recorded'
    BY <1>13 DEF Beaten, BuildRuns, Jobs, Owns, Parked, Runs, StopWaiting,
         TypeOK
  <1>14. ASSUME NEW x \in Process, TakeClaim(x) PROVE Recorded'
    BY <1>14 DEF Jobs, Resume, Runs, TakeClaim, TypeOK
  <1>15. ASSUME NEW x \in Process, RowMissing(x) PROVE Recorded'
    BY <1>15 DEF Jobs, RowMissing, Runs, TypeOK
  <1>16. ASSUME NEW x \in Process, ClaimBusy(x) PROVE Recorded'
    BY <1>16 DEF Beaten, ClaimBusy, Jobs, Owns, Parked, Runs, TypeOK
  <1>17. ASSUME NEW x \in Process, BatchOk(x) PROVE Recorded'
    <2>1. /\ notebook' = notebook /\ job'.phase = job.phase /\ job'.recorded = job.recorded
          /\ \A q \in Process : /\ HasRow(q)' <=> HasRow(q)
                                /\ run'[q].phase = run[q].phase
      BY <1>17, Checks
    <2>2. ASSUME NEW q \in Process,
                 run'[q].pc \in {"recorded", "quiesce", "claiming"} \cup Claiming
          PROVE  run[q].pc \in {"recorded", "quiesce", "claiming"} \cup Claiming
      BY <1>17, <2>2, Checks
    <2> QED
      BY <2>1, <2>2
  <1>18. ASSUME NEW x \in Process, DeletePage(x) PROVE Recorded'
    BY <1>18, Pages, TypeParts
  <1>19. ASSUME NEW x \in Process, SaveCursor(x) PROVE Recorded'
    BY <1>19 DEF Advanced, Beaten, Jobs, Owns, Runs, SaveCursor, TypeOK
  <1>20. ASSUME NEW x \in Process, EndRows(x) PROVE Recorded'
    BY <1>20 DEF Advanced, Beaten, EndRows, Jobs, Owns, Runs, TypeOK
  <1>21. ASSUME NEW x \in Process, Unlink(x) PROVE Recorded'
    BY <1>21 DEF Jobs, Runs, TypeOK, Unlink
  <1>22. ASSUME NEW x \in Process, EndFiles(x) PROVE Recorded'
    BY <1>22 DEF Advanced, Beaten, EndFiles, Jobs, Owns, Runs, TypeOK
  <1>23. ASSUME NEW x \in Process, Finalize(x) PROVE Recorded'
    BY <1>23 DEF Archives, Fenced, Finalize, Jobs, Runs, TypeOK
  <1>24. ASSUME NEW x \in Process, FinalizeFenced(x) PROVE Recorded'
    BY <1>24 DEF Fenced, FinalizeFenced, Jobs, Runs, TypeOK
  <1>25. ASSUME NEW x \in Process, FinishResidual(x) PROVE Recorded'
    BY <1>25 DEF FinishResidual, Jobs, Runs, TypeOK
  <1>26. ASSUME NEW x \in Process, SweepStragglers(x) PROVE Recorded'
    BY <1>26 DEF Jobs, Runs, SweepStragglers, TypeOK
  <1>27. ASSUME NEW x \in Process, Leave(x) PROVE Recorded'
    BY <1>27 DEF Jobs, Leave, Runs, TypeOK
  <1>28. ASSUME NEW x \in Process, FailJob(x) PROVE Recorded'
    BY <1>28 DEF FailJob, FailedRow, Jobs, Runs, TypeOK
  <1>29. ASSUME NEW x \in Process, ListDue(x) PROVE Recorded'
    BY <1>29 DEF Jobs, ListDue, Runs, TypeOK
  <1>30. ASSUME NEW x \in Process, Promote(x) PROVE Recorded'
    <2>1. CASE notebook = "due"
      <3>1. /\ job'.phase = "mark"
            /\ \A q \in Process : run'[q].phase = "mark" /\ run'[q].pc \in {"idle", "submitted"}
        <4>1. \A q \in Process : run[q].phase = "mark" /\ run[q].pc = "idle"
          BY <2>1
        <4>2. /\ job'.phase = "mark"
              /\ \A q \in Process :
                   run'[q] = run[q] \/ (run'[q].phase = "mark" /\ run'[q].pc = "submitted")
          BY <1>30, <2>1, NewJobs DEF Promote
        <4> QED
          BY <4>1, <4>2
      <3> QED
        BY <3>1
    <2>2. CASE notebook # "due"
      BY <1>30, <2>2 DEF Promote
    <2> QED
      BY <2>1, <2>2
  <1>31. ASSUME NEW x \in Process, SweepStale(x) PROVE Recorded'
    BY <1>31 DEF Jobs, Runs, SweepStale, TypeOK
  <1>32. ASSUME NEW x \in Process, ListMissing(x) PROVE Recorded'
    BY <1>32 DEF Jobs, ListMissing, Runs, TypeOK
  <1>33. ASSUME NEW x \in Process, Recreate(x) PROVE Recorded'
    <2>1. /\ notebook' = notebook /\ disk' = disk
          /\ \A q \in Process :
               \/ run'[q] = run[q]
               \/ run'[q].phase = "mark" /\ run'[q].pc = "submitted"
      BY <1>33, Recreates
    <2>2. CASE job' = job
      BY <2>1, <2>2
    <2>3. CASE job'.id = job.id + 1 /\ job'.phase = "mark"
      <3>1. \A q \in Process : run'[q] = run[q] => job'.id # run'[q].job
        BY <2>3, TypeParts
      <3> QED
        BY <2>1, <2>3, <3>1
    <2> QED
      BY <1>33, <2>2, <2>3, Recreates
  <1>34. ASSUME NEW x \in Process, Crash(x) PROVE Recorded'
    BY <1>34 DEF Crash, Jobs, Resting, Runs, TypeOK
  <1>35. ASSUME NEW x \in Process, Raises(x) PROVE Recorded'
    BY <1>35 DEF Jobs, Raises, Runs, TypeOK
  <1>36. ASSUME NEW x \in Writer, Admit(x) PROVE Recorded'
    BY <1>36 DEF Admit, Jobs, Runs, TypeOK
  <1>37. ASSUME NEW x \in Writer, BeginBuild(x) PROVE Recorded'
    BY <1>37 DEF BeginBuild, Jobs, Runs, TypeOK
  <1>38. ASSUME NEW x \in Writer, EndBuild(x) PROVE Recorded'
    BY <1>38 DEF EndBuild, Jobs, Runs, TypeOK
  <1>39. ASSUME NEW x \in Writer, LandFile(x) PROVE Recorded'
    BY <1>39 DEF Jobs, LandFile, Runs, TypeOK
  <1>40. ASSUME NEW x \in Writer, InsertRow(x) PROVE Recorded'
    BY <1>40 DEF InsertRow, Jobs, Runs, TypeOK
  <1>41. ASSUME NEW x \in Writer, KeepFile(x) PROVE Recorded'
    BY <1>41 DEF Abandoned, KeepFile, Jobs, Runs, TypeOK
  <1>42. ASSUME NEW x \in Writer, ClaimIndex(x) PROVE Recorded'
    BY <1>42 DEF ClaimIndex, Jobs, Runs, TypeOK
  <1>43. ASSUME NEW x \in Writer, EndIndex(x) PROVE Recorded'
    BY <1>43 DEF EndIndex, Jobs, Runs, TypeOK
  <1>44. CASE Ages
    BY <1>44 DEF Ages, Attended, Jobs, Owns, Runs, TypeOK
  <1>45. CASE LooksDead
    BY <1>45 DEF Attended, Jobs, LooksDead, Owns, Runs, TypeOK
  <1>46. CASE LoseClaim
    BY <1>46 DEF Jobs, LoseClaim, Runs, TypeOK
  <1>47. CASE Vanish
    BY <1>47 DEF Jobs, Runs, TypeOK, Vanish
  <1>48. CASE UNCHANGED vars
    BY <1>48 DEF vars
  <1> QED
    BY <1>1, <1>2, <1>3, <1>4, <1>5, <1>6, <1>7, <1>8, <1>9, <1>10, <1>11,
       <1>12, <1>13, <1>14, <1>15, <1>16, <1>17, <1>18, <1>19, <1>20, <1>21,
       <1>22, <1>23, <1>24, <1>25, <1>26, <1>27, <1>28, <1>29, <1>30, <1>31,
       <1>32, <1>33, <1>34, <1>35, <1>36, <1>37, <1>38, <1>39, <1>40, <1>41, <1>42,
       <1>43, <1>44, <1>45, <1>46, <1>47, <1>48 DEF Next, RunStep, SweepStep,
       WriterStep

(* Files are passed, in the row or by a worker, only when the side table was emptied. *)
LEMMA KnownGoneKept ==
  ASSUME TypeOK, Undo, Numbered, Recorded, KnownGone, [Next]_vars
  PROVE  KnownGone'
  <1> USE DeleteAssumption DEF Goes, Trouble, jobVars, worldVars,
          askVars, KnownGone, Undo, NothingEarly, Idle, NoJob, HasRow,
          Numbered, Recorded, Claiming
  <1>1. CASE RequestPending
    BY <1>1 DEF Jobs, RequestPending, Runs, TypeOK
  <1>2. CASE WindowCloses
    BY <1>2 DEF Jobs, Runs, TypeOK, WindowCloses
  <1>3. CASE ReadCancelInstant
    BY <1>3 DEF Jobs, ReadCancelInstant, Runs, TypeOK
  <1>4. CASE Cancel
    BY <1>4 DEF Cancel, Jobs, Runs, TypeOK
  <1>5. ASSUME NEW x \in Process, Request(x) PROVE KnownGone'
    <2>1. /\ job'.phase = "mark"
          /\ \A q \in Process : run'[q].phase = "mark" /\ run'[q].pc \in {"idle", "submitted"}
      <3>1. \A q \in Process : run[q].phase = "mark" /\ run[q].pc = "idle"
        BY <1>5 DEF Request
      <3>2. /\ job'.phase = "mark"
            /\ \A q \in Process :
                 run'[q] = run[q] \/ (run'[q].phase = "mark" /\ run'[q].pc = "submitted")
        BY <1>5, NewJobs DEF Request
      <3> QED
        BY <3>1, <3>2
    <2> QED
      BY <2>1
  <1>6. ASSUME NEW x \in Process, ReadJob(x) PROVE KnownGone'
    BY <1>6 DEF Jobs, ReadJob, Runs, TypeOK
  <1>7. ASSUME NEW x \in Process, TakeLease(x) PROVE KnownGone'
    BY <1>7 DEF Beaten, Free, Jobs, Runs, TakeLease, TypeOK
  <1>8. ASSUME NEW x \in Process, LookForNotebook(x) PROVE KnownGone'
    BY <1>8 DEF Enter, Jobs, LookForNotebook, Runs, TypeOK
  <1>9. ASSUME NEW x \in Process, RecordPaths(x) PROVE KnownGone'
    BY <1>9 DEF Beaten, Jobs, Owns, RecordPaths, Runs, TypeOK
  <1>10. ASSUME NEW x \in Process, EndPaths(x) PROVE KnownGone'
    BY <1>10 DEF Advanced, Beaten, EndPaths, Jobs, Owns, Runs, TypeOK
  <1>11. ASSUME NEW x \in Process, Quiesced(x) PROVE KnownGone'
    BY <1>11 DEF Advanced, Beaten, BuildRuns, Jobs, Owns, Quiesced, Runs,
         TypeOK
  <1>12. ASSUME NEW x \in Process, KeepWaiting(x) PROVE KnownGone'
    BY <1>12 DEF Advanced, Beaten, BuildRuns, Jobs, KeepWaiting, Owns, Runs,
         TypeOK
  <1>13. ASSUME NEW x \in Process, StopWaiting(x) PROVE KnownGone'
    BY <1>13 DEF Beaten, BuildRuns, Jobs, Owns, Parked, Runs, StopWaiting,
         TypeOK
  <1>14. ASSUME NEW x \in Process, TakeClaim(x) PROVE KnownGone'
    BY <1>14 DEF Jobs, Resume, Runs, TakeClaim, TypeOK
  <1>15. ASSUME NEW x \in Process, RowMissing(x) PROVE KnownGone'
    BY <1>15 DEF Jobs, RowMissing, Runs, TypeOK
  <1>16. ASSUME NEW x \in Process, ClaimBusy(x) PROVE KnownGone'
    BY <1>16 DEF Beaten, ClaimBusy, Jobs, Owns, Parked, Runs, TypeOK
  <1>17. ASSUME NEW x \in Process, BatchOk(x) PROVE KnownGone'
    <2>1. /\ notebook' = notebook /\ job'.phase = job.phase /\ disk' = disk
          /\ \A q \in Process : /\ HasRow(q)' <=> HasRow(q)
                                /\ run'[q].phase = run[q].phase
      BY <1>17, Checks
    <2>2. ASSUME NEW q \in Process, run'[q].pc \in {"filesDone", "final", "finalizing"}
          PROVE  \/ run'[q].pc = run[q].pc
                 \/ run[q].pc = "final" /\ run'[q].pc = "finalizing" /\ HasRow(q)
      BY <1>17, <2>2, Checks DEF StillOwned, Owns
    <2> QED
      BY <2>1, <2>2
  <1>18. ASSUME NEW x \in Process, DeletePage(x) PROVE KnownGone'
    BY <1>18, Pages, TypeParts
  <1>19. ASSUME NEW x \in Process, SaveCursor(x) PROVE KnownGone'
    BY <1>19 DEF Advanced, Beaten, Jobs, Owns, Runs, SaveCursor, TypeOK
  <1>20. ASSUME NEW x \in Process, EndRows(x) PROVE KnownGone'
    BY <1>20 DEF Advanced, Beaten, EndRows, Jobs, Owns, Runs, TypeOK
  <1>21. ASSUME NEW x \in Process, Unlink(x) PROVE KnownGone'
    BY <1>21 DEF Jobs, Runs, TypeOK, Unlink
  <1>22. ASSUME NEW x \in Process, EndFiles(x) PROVE KnownGone'
    BY <1>22 DEF Advanced, Beaten, EndFiles, Jobs, Owns, Runs, TypeOK
  <1>23. ASSUME NEW x \in Process, Finalize(x) PROVE KnownGone'
    BY <1>23 DEF Archives, Fenced, Finalize, Jobs, Runs, TypeOK
  <1>24. ASSUME NEW x \in Process, FinalizeFenced(x) PROVE KnownGone'
    BY <1>24 DEF Fenced, FinalizeFenced, Jobs, Runs, TypeOK
  <1>25. ASSUME NEW x \in Process, FinishResidual(x) PROVE KnownGone'
    BY <1>25 DEF FinishResidual, Jobs, Runs, TypeOK
  <1>26. ASSUME NEW x \in Process, SweepStragglers(x) PROVE KnownGone'
    BY <1>26 DEF Jobs, Runs, SweepStragglers, TypeOK
  <1>27. ASSUME NEW x \in Process, Leave(x) PROVE KnownGone'
    BY <1>27 DEF Jobs, Leave, Runs, TypeOK
  <1>28. ASSUME NEW x \in Process, FailJob(x) PROVE KnownGone'
    BY <1>28 DEF FailJob, FailedRow, Jobs, Runs, TypeOK
  <1>29. ASSUME NEW x \in Process, ListDue(x) PROVE KnownGone'
    BY <1>29 DEF Jobs, ListDue, Runs, TypeOK
  <1>30. ASSUME NEW x \in Process, Promote(x) PROVE KnownGone'
    <2>1. CASE notebook = "due"
      <3>1. /\ job'.phase = "mark"
            /\ \A q \in Process : run'[q].phase = "mark" /\ run'[q].pc \in {"idle", "submitted"}
        <4>1. \A q \in Process : run[q].phase = "mark" /\ run[q].pc = "idle"
          BY <2>1
        <4>2. /\ job'.phase = "mark"
              /\ \A q \in Process :
                   run'[q] = run[q] \/ (run'[q].phase = "mark" /\ run'[q].pc = "submitted")
          BY <1>30, <2>1, NewJobs DEF Promote
        <4> QED
          BY <4>1, <4>2
      <3> QED
        BY <3>1
    <2>2. CASE notebook # "due"
      BY <1>30, <2>2 DEF Promote
    <2> QED
      BY <2>1, <2>2
  <1>31. ASSUME NEW x \in Process, SweepStale(x) PROVE KnownGone'
    BY <1>31 DEF Jobs, Runs, SweepStale, TypeOK
  <1>32. ASSUME NEW x \in Process, ListMissing(x) PROVE KnownGone'
    BY <1>32 DEF Jobs, ListMissing, Runs, TypeOK
  <1>33. ASSUME NEW x \in Process, Recreate(x) PROVE KnownGone'
    <2>1. /\ notebook' = notebook /\ disk' = disk
          /\ \A q \in Process :
               \/ run'[q] = run[q]
               \/ run'[q].phase = "mark" /\ run'[q].pc = "submitted"
      BY <1>33, Recreates
    <2>2. CASE job' = job
      BY <2>1, <2>2
    <2>3. CASE job'.id = job.id + 1 /\ job'.phase = "mark"
      <3>1. \A q \in Process : run'[q] = run[q] => job'.id # run'[q].job
        BY <2>3, TypeParts
      <3> QED
        BY <2>1, <2>3, <3>1
    <2> QED
      BY <1>33, <2>2, <2>3, Recreates
  <1>34. ASSUME NEW x \in Process, Crash(x) PROVE KnownGone'
    BY <1>34 DEF Crash, Jobs, Resting, Runs, TypeOK
  <1>35. ASSUME NEW x \in Process, Raises(x) PROVE KnownGone'
    BY <1>35 DEF Jobs, Raises, Runs, TypeOK
  <1>36. ASSUME NEW x \in Writer, Admit(x) PROVE KnownGone'
    BY <1>36 DEF Admit, Jobs, Runs, TypeOK
  <1>37. ASSUME NEW x \in Writer, BeginBuild(x) PROVE KnownGone'
    BY <1>37 DEF BeginBuild, Jobs, Runs, TypeOK
  <1>38. ASSUME NEW x \in Writer, EndBuild(x) PROVE KnownGone'
    BY <1>38 DEF EndBuild, Jobs, Runs, TypeOK
  <1>39. ASSUME NEW x \in Writer, LandFile(x) PROVE KnownGone'
    BY <1>39 DEF Jobs, LandFile, Runs, TypeOK
  <1>40. ASSUME NEW x \in Writer, InsertRow(x) PROVE KnownGone'
    BY <1>40 DEF InsertRow, Jobs, Runs, TypeOK
  <1>41. ASSUME NEW x \in Writer, KeepFile(x) PROVE KnownGone'
    BY <1>41 DEF Abandoned, KeepFile, Jobs, Runs, TypeOK
  <1>42. ASSUME NEW x \in Writer, ClaimIndex(x) PROVE KnownGone'
    BY <1>42 DEF ClaimIndex, Jobs, Runs, TypeOK
  <1>43. ASSUME NEW x \in Writer, EndIndex(x) PROVE KnownGone'
    BY <1>43 DEF EndIndex, Jobs, Runs, TypeOK
  <1>44. CASE Ages
    BY <1>44 DEF Ages, Attended, Jobs, Owns, Runs, TypeOK
  <1>45. CASE LooksDead
    BY <1>45 DEF Attended, Jobs, LooksDead, Owns, Runs, TypeOK
  <1>46. CASE LoseClaim
    BY <1>46 DEF Jobs, LoseClaim, Runs, TypeOK
  <1>47. CASE Vanish
    BY <1>47 DEF Jobs, Runs, TypeOK, Vanish
  <1>48. CASE UNCHANGED vars
    BY <1>48 DEF vars
  <1> QED
    BY <1>1, <1>2, <1>3, <1>4, <1>5, <1>6, <1>7, <1>8, <1>9, <1>10, <1>11,
       <1>12, <1>13, <1>14, <1>15, <1>16, <1>17, <1>18, <1>19, <1>20, <1>21,
       <1>22, <1>23, <1>24, <1>25, <1>26, <1>27, <1>28, <1>29, <1>30, <1>31,
       <1>32, <1>33, <1>34, <1>35, <1>36, <1>37, <1>38, <1>39, <1>40, <1>41, <1>42,
       <1>43, <1>44, <1>45, <1>46, <1>47, <1>48 DEF Next, RunStep, SweepStep,
       WriterStep

(* Whoever ends the notebook sweeps, unless its process ends. *)
LEMMA LateFilesKept ==
  ASSUME TypeOK, Undo, KnownGone, LateFiles, [Next]_vars
  PROVE  LateFiles'
  <1> USE DeleteAssumption DEF Goes, Trouble, jobVars, worldVars,
          askVars, LateFiles, Undo, NothingEarly, Idle, NoJob, HasRow,
          KnownGone, Claiming
  <1>1. CASE RequestPending
    BY <1>1 DEF Jobs, RequestPending, Runs, TypeOK
  <1>2. CASE WindowCloses
    BY <1>2 DEF Jobs, Runs, TypeOK, WindowCloses
  <1>3. CASE ReadCancelInstant
    BY <1>3 DEF Jobs, ReadCancelInstant, Runs, TypeOK
  <1>4. CASE Cancel
    BY <1>4 DEF Cancel, Jobs, Runs, TypeOK
  <1>5. ASSUME NEW x \in Process, Request(x) PROVE LateFiles'
    BY <1>5, NewJobs, TypeParts DEF Request
  <1>6. ASSUME NEW x \in Process, ReadJob(x) PROVE LateFiles'
    BY <1>6 DEF Jobs, ReadJob, Runs, TypeOK
  <1>7. ASSUME NEW x \in Process, TakeLease(x) PROVE LateFiles'
    BY <1>7 DEF Beaten, Free, Jobs, Runs, TakeLease, TypeOK
  <1>8. ASSUME NEW x \in Process, LookForNotebook(x) PROVE LateFiles'
    BY <1>8 DEF Enter, Jobs, LookForNotebook, Runs, TypeOK
  <1>9. ASSUME NEW x \in Process, RecordPaths(x) PROVE LateFiles'
    BY <1>9 DEF Beaten, Jobs, Owns, RecordPaths, Runs, TypeOK
  <1>10. ASSUME NEW x \in Process, EndPaths(x) PROVE LateFiles'
    BY <1>10 DEF Advanced, Beaten, EndPaths, Jobs, Owns, Runs, TypeOK
  <1>11. ASSUME NEW x \in Process, Quiesced(x) PROVE LateFiles'
    BY <1>11 DEF Advanced, Beaten, BuildRuns, Jobs, Owns, Quiesced, Runs,
         TypeOK
  <1>12. ASSUME NEW x \in Process, KeepWaiting(x) PROVE LateFiles'
    BY <1>12 DEF Advanced, Beaten, BuildRuns, Jobs, KeepWaiting, Owns, Runs,
         TypeOK
  <1>13. ASSUME NEW x \in Process, StopWaiting(x) PROVE LateFiles'
    BY <1>13 DEF Beaten, BuildRuns, Jobs, Owns, Parked, Runs, StopWaiting,
         TypeOK
  <1>14. ASSUME NEW x \in Process, TakeClaim(x) PROVE LateFiles'
    BY <1>14 DEF Jobs, Resume, Runs, TakeClaim, TypeOK
  <1>15. ASSUME NEW x \in Process, RowMissing(x) PROVE LateFiles'
    BY <1>15 DEF Jobs, RowMissing, Runs, TypeOK
  <1>16. ASSUME NEW x \in Process, ClaimBusy(x) PROVE LateFiles'
    BY <1>16 DEF Beaten, ClaimBusy, Jobs, Owns, Parked, Runs, TypeOK
  <1>17. ASSUME NEW x \in Process, BatchOk(x) PROVE LateFiles'
    <2>1. /\ notebook' = notebook /\ disk' = disk /\ outside' = outside /\ writer' = writer
          /\ \A q \in Process : run[q].pc = "sweeping" => run'[q].pc = "sweeping"
      BY <1>17, Checks
    <2> QED
      BY <2>1
  <1>18. ASSUME NEW x \in Process, DeletePage(x) PROVE LateFiles'
    BY <1>18, Pages, TypeParts
  <1>19. ASSUME NEW x \in Process, SaveCursor(x) PROVE LateFiles'
    BY <1>19 DEF Advanced, Beaten, Jobs, Owns, Runs, SaveCursor, TypeOK
  <1>20. ASSUME NEW x \in Process, EndRows(x) PROVE LateFiles'
    BY <1>20 DEF Advanced, Beaten, EndRows, Jobs, Owns, Runs, TypeOK
  <1>21. ASSUME NEW x \in Process, Unlink(x) PROVE LateFiles'
    BY <1>21 DEF Jobs, Runs, TypeOK, Unlink
  <1>22. ASSUME NEW x \in Process, EndFiles(x) PROVE LateFiles'
    BY <1>22 DEF Advanced, Beaten, EndFiles, Jobs, Owns, Runs, TypeOK
  <1>23. ASSUME NEW x \in Process, Finalize(x) PROVE LateFiles'
    BY <1>23 DEF Archives, Fenced, Finalize, Jobs, Runs, TypeOK
  <1>24. ASSUME NEW x \in Process, FinalizeFenced(x) PROVE LateFiles'
    BY <1>24 DEF Fenced, FinalizeFenced, Jobs, Runs, TypeOK
  <1>25. ASSUME NEW x \in Process, FinishResidual(x) PROVE LateFiles'
    BY <1>25 DEF FinishResidual, Jobs, Runs, TypeOK
  <1>26. ASSUME NEW x \in Process, SweepStragglers(x) PROVE LateFiles'
    BY <1>26 DEF Jobs, Runs, SweepStragglers, TypeOK
  <1>27. ASSUME NEW x \in Process, Leave(x) PROVE LateFiles'
    BY <1>27 DEF Jobs, Leave, Runs, TypeOK
  <1>28. ASSUME NEW x \in Process, FailJob(x) PROVE LateFiles'
    BY <1>28 DEF FailJob, FailedRow, Jobs, Runs, TypeOK
  <1>29. ASSUME NEW x \in Process, ListDue(x) PROVE LateFiles'
    BY <1>29 DEF Jobs, ListDue, Runs, TypeOK
  <1>30. ASSUME NEW x \in Process, Promote(x) PROVE LateFiles'
    BY <1>30, NewJobs, TypeParts DEF Promote, Resting
  <1>31. ASSUME NEW x \in Process, SweepStale(x) PROVE LateFiles'
    BY <1>31 DEF Jobs, Runs, SweepStale, TypeOK
  <1>32. ASSUME NEW x \in Process, ListMissing(x) PROVE LateFiles'
    BY <1>32 DEF Jobs, ListMissing, Runs, TypeOK
  <1>33. ASSUME NEW x \in Process, Recreate(x) PROVE LateFiles'
    <2>1. /\ notebook' = notebook /\ disk' = disk /\ outside' = outside /\ writer' = writer
          /\ \A q \in Process : run[q].pc = "sweeping" => run'[q].pc = "sweeping"
      BY <1>33, Recreates
    <2> QED
      BY <2>1
  <1>34. ASSUME NEW x \in Process, Crash(x) PROVE LateFiles'
    <2>1. /\ UNCHANGED <<notebook, disk>> /\ run' = [run EXCEPT ![x] = Idle]
          /\ outside' = outside \cup (IF run[x].pc = "sweeping" THEN {"cut"} ELSE {})
          /\ notebook = "gone" =>
               \A w \in Writer : writer[w] \in {"landed", "left"}
                                 => writer'[w] \in {"landed", "left"}
      BY <1>34, Crashes
    <2> QED
      BY <2>1 DEF TypeOK
  <1>35. ASSUME NEW x \in Process, Raises(x) PROVE LateFiles'
    BY <1>35 DEF Jobs, Raises, Runs, TypeOK
  <1>36. ASSUME NEW x \in Writer, Admit(x) PROVE LateFiles'
    BY <1>36 DEF Admit, Jobs, Runs, TypeOK
  <1>37. ASSUME NEW x \in Writer, BeginBuild(x) PROVE LateFiles'
    BY <1>37 DEF BeginBuild, Jobs, Runs, TypeOK
  <1>38. ASSUME NEW x \in Writer, EndBuild(x) PROVE LateFiles'
    BY <1>38 DEF EndBuild, Jobs, Runs, TypeOK
  <1>39. ASSUME NEW x \in Writer, LandFile(x) PROVE LateFiles'
    BY <1>39 DEF Jobs, LandFile, Runs, TypeOK
  <1>40. ASSUME NEW x \in Writer, InsertRow(x) PROVE LateFiles'
    BY <1>40 DEF InsertRow, Jobs, Runs, TypeOK
  <1>41. ASSUME NEW x \in Writer, KeepFile(x) PROVE LateFiles'
    BY <1>41 DEF Abandoned, KeepFile, Jobs, Runs, TypeOK
  <1>42. ASSUME NEW x \in Writer, ClaimIndex(x) PROVE LateFiles'
    BY <1>42 DEF ClaimIndex, Jobs, Runs, TypeOK
  <1>43. ASSUME NEW x \in Writer, EndIndex(x) PROVE LateFiles'
    BY <1>43 DEF EndIndex, Jobs, Runs, TypeOK
  <1>44. CASE Ages
    BY <1>44 DEF Ages, Attended, Jobs, Owns, Runs, TypeOK
  <1>45. CASE LooksDead
    BY <1>45 DEF Attended, Jobs, LooksDead, Owns, Runs, TypeOK
  <1>46. CASE LoseClaim
    BY <1>46 DEF Jobs, LoseClaim, Runs, TypeOK
  <1>47. CASE Vanish
    BY <1>47 DEF Jobs, Runs, TypeOK, Vanish
  <1>48. CASE UNCHANGED vars
    BY <1>48 DEF vars
  <1> QED
    BY <1>1, <1>2, <1>3, <1>4, <1>5, <1>6, <1>7, <1>8, <1>9, <1>10, <1>11,
       <1>12, <1>13, <1>14, <1>15, <1>16, <1>17, <1>18, <1>19, <1>20, <1>21,
       <1>22, <1>23, <1>24, <1>25, <1>26, <1>27, <1>28, <1>29, <1>30, <1>31,
       <1>32, <1>33, <1>34, <1>35, <1>36, <1>37, <1>38, <1>39, <1>40, <1>41, <1>42,
       <1>43, <1>44, <1>45, <1>46, <1>47, <1>48 DEF Next, RunStep, SweepStep,
       WriterStep

-----------------------------------------------------------------------------
(***************************************************************************)
(* The invariant holds initially and is kept by every step.                *)
(***************************************************************************)
LEMMA DeleteInvHolds == Spec => []DeleteInv
  <1>1. Init => DeleteInv
    <2> SUFFICES ASSUME Init PROVE DeleteInv
      OBVIOUS
    <2> USE DeleteAssumption DEF Init, Idle, NoJob, Resting
    <2>1. TypeOK
      <3>1. Idle \in Runs /\ job \in Jobs
        BY Names DEF Runs, Jobs
      <3>2. /\ run \in [Process -> Runs]
            /\ sweeper \in [Process -> [doing : {"idle", "promoting", "recreating"}, attempts : Nat]]
        BY <3>1
      <3> QED
        <4>1. /\ rows \subseteq 1 .. Units /\ disk \subseteq {Known} \cup Writer
              /\ archived \in Nat /\ outside \subseteq {"vanished", "cut"}
              /\ trouble \in 0 .. MaxTrouble
          OBVIOUS
        <4>2. /\ writer \in [Writer -> Admissions \cup
                                      {"out", "building", "late", "landed", "indexing", "left"}]
              /\ claim \in Process \cup Writer \cup {Nobody}
              /\ notebook \in {"live", "pending", "due", "deleting", "gone"}
              /\ cancelling \in BOOLEAN /\ undone \in BOOLEAN
          OBVIOUS
        <4> QED
          BY <3>1, <3>2, <4>1, <4>2, Zenon DEF TypeOK
    <2>2. Undo
      BY DEF Undo, NothingEarly, UndoHolds, Intact
    <2>3. Quiet
      BY DEF Quiet, PastIsQuiet, QuiescedBeforeRows
    <2>4. Archive
      BY DEF Archive, ArchivedOnce
    <2>5. Files
      BY DEF Files, Numbered, Recorded, KnownGone, LateFiles, HasRow
    <2> QED
      BY <2>1, <2>2, <2>3, <2>4, <2>5 DEF DeleteInv
  <1>2. DeleteInv /\ [Next]_vars => DeleteInv'
    BY TypesKept, UndoKept, QuietKept, ArchiveKept, NumbersKept, RecordedKept, KnownGoneKept,
       LateFilesKept DEF DeleteInv, Files
  <1> QED
    BY <1>1, <1>2, PTL DEF Spec

(***************************************************************************)
(* The variables keep their types: workers are at points of their code,    *)
(* and rows have phases and owners.                                        *)
(***************************************************************************)
THEOREM DeleteTypeCorrect == Spec => []TypeOK
  <1>1. DeleteInv => TypeOK
    BY DEF DeleteInv
  <1> QED
    BY <1>1, DeleteInvHolds, PTL

(***************************************************************************)
(* A deletion taken back is taken back for good, and before the promotion  *)
(* nothing of the notebook is touched.                                     *)
(***************************************************************************)
THEOREM UndoIsSafe == Spec => []UndoHolds
  <1>1. DeleteInv => UndoHolds
    BY DEF DeleteInv, Undo
  <1> QED
    BY <1>1, DeleteInvHolds, PTL

(***************************************************************************)
(* Rows and files go only after the builds that had begun have ended.      *)
(***************************************************************************)
THEOREM BuildsEndFirst == Spec => []QuiescedBeforeRows
  <1>1. DeleteInv => QuiescedBeforeRows
    BY DEF DeleteInv, Quiet
  <1> QED
    BY <1>1, DeleteInvHolds, PTL

(***************************************************************************)
(* The activity is archived exactly once, whoever reaches the last         *)
(* transaction.                                                            *)
(***************************************************************************)
THEOREM ArchiveIsSingle == Spec => []ArchivedOnce
  <1>1. DeleteInv => ArchivedOnce
    BY DEF DeleteInv, Archive
  <1> QED
    BY <1>1, DeleteInvHolds, PTL

(***************************************************************************)
(* No file outlives its notebook, known or late, unless the last sweep did *)
(* not happen or succeed, somebody deleted the row by hand, or an upload   *)
(* that outlived the notebook ended without taking its file back.          *)
(***************************************************************************)
THEOREM FilesGo == Spec => []NoFileLeft
  <1>1. DeleteInv => NoFileLeft
    <2> SUFFICES ASSUME DeleteInv, notebook = "gone", outside = {}
                 PROVE  /\ Known \notin disk
                        /\ AtRest => disk \subseteq {w \in Writer : writer[w] = "left"}
      BY DEF NoFileLeft
    <2> QED
      BY DEF DeleteInv, Files, LateFiles, AtRest
  <1> QED
    BY <1>1, DeleteInvHolds, PTL

(***************************************************************************)
(* Only the owner of the job ends a notebook; a worker whose lease was     *)
(* taken away does not, even after its last check.                         *)
(***************************************************************************)
THEOREM OnlyOwnerEnds == Spec => OwnerEnds
  <1> DEFINE Ended ==
        notebook' = "gone" /\ notebook # "gone" /\ outside' = outside =>
          \E p \in Process : run[p].pc = "finalizing" /\ run'[p] # run[p]
                            /\ (HasRow(p) => job.lease = p)
  <1>1. DeleteInv /\ [Next]_vars => [Ended]_vars
    <2> SUFFICES ASSUME DeleteInv, Next, notebook' = "gone", notebook # "gone", outside' = outside
                 PROVE  \E p \in Process : /\ run[p].pc = "finalizing" /\ run'[p] # run[p]
                                           /\ HasRow(p) => job.lease = p
      BY DEF vars
    <2>1. \/ \E p \in Process : Finalize(p)
          \/ Vanish
      <3>1. ASSUME NEW p \in Process, RunStep(p) PROVE Finalize(p)
        BY <3>1 DEF RunStep, ReadJob, TakeLease, LookForNotebook, RecordPaths, EndPaths, Quiesced,
                    KeepWaiting, StopWaiting, TakeClaim, RowMissing, ClaimBusy, BatchOk, Gate,
                    DeletePage, SaveCursor, EndRows, Unlink, EndFiles, FinalizeFenced,
                    FinishResidual, SweepStragglers, Leave, FailJob
      <3>2. ASSUME NEW p \in Process PROVE ~Request(p) /\ ~SweepStep(p) /\ ~Crash(p) /\ ~Raises(p)
        BY DEF Request, SweepStep, ListDue, Promote, SweepStale, ListMissing, Recreate, Crash,
               Raises, jobVars
      <3>3. ASSUME NEW w \in Writer PROVE ~Admit(w) /\ ~WriterStep(w)
        BY DEF Admit, WriterStep, BeginBuild, EndBuild, LandFile, InsertRow, KeepFile,
               ClaimIndex, EndIndex
      <3>4. /\ ~RequestPending /\ ~WindowCloses /\ ~ReadCancelInstant /\ ~Cancel
            /\ ~Ages /\ ~LooksDead /\ ~LoseClaim
        BY DEF RequestPending, WindowCloses, ReadCancelInstant, Cancel, Ages, LooksDead, LoseClaim
      <3> QED
        BY <3>1, <3>2, <3>3, <3>4 DEF Next
    <2>2. ~Vanish
      BY DEF Vanish, DeleteInv, Archive
    <2>3. PICK p \in Process : Finalize(p)
      BY <2>1, <2>2
    <2>4. run[p].pc = "finalizing" /\ run'[p].pc = "sweeping" /\ ~Fenced(p)
      BY <2>3 DEF Finalize, DeleteInv, TypeOK
    <2> QED
      BY <2>4 DEF Fenced
  <1> QED
    BY <1>1, DeleteInvHolds, PTL DEF Spec, OwnerEnds
=============================================================================
