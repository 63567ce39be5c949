-------------------------- MODULE ReportJobsProofs --------------------------
(***************************************************************************)
(* A report has one worker at a time, its cancels stay true and its result *)
(* fits its outline, for any number of confirmations, generations, edits,  *)
(* cancels and deletions, and any capacity of the gate.                    *)
(*                                                                         *)
(* The argument: whoever has claimed the row owns it until it has written  *)
(* what becomes of it, and the status says which phase it is in unless a   *)
(* cancel or a deletion came in between.  A claim compares the status with *)
(* one in which nobody owns the row, so it makes the only owner.  An event *)
(* is only set after the row was cancelled, so a worker that obeys it      *)
(* leaves nothing in flight.  The owner of a requested generation is the   *)
(* one that is registered, because an earlier worker removes only its own  *)
(* event; hence the signal reaches it, or it has yet to read the row.  And *)
(* while a generation owns the row the outline changes only by edits that  *)
(* its claim has overtaken.                                                *)
(***************************************************************************)
EXTENDS ReportJobs, TLAPS

(* Where a row stays that was cancelled while somebody owned it *)
Dead == {"cancelled", "deleted"}

(* The status is the phase of the owner, or the row is dead. *)
StageFits ==
    \A x \in Worker :
      /\ Generates(x) => status \in {"generating"} \cup Dead
      /\ Plans(x) => status \in {"pending", "planning"} \cup Dead

(* The worker of a requested generation does nothing else. *)
GeneratesOnly ==
    \A x \in Generate : at[x] \notin PlanPoints \cup {"confirming"}

Ownership == OneOwner /\ StageFits /\ GeneratesOnly

(* The row is cancelled before a signal, and an answer is what it remains. *)
SignalsAreLate ==
    /\ signalled # {} => status \in Dead
    /\ \A c \in Cancel :
         /\ at[c] = "signalling" => told[c] = "cancelled"
         /\ told[c] \in Final => status \in {told[c], "deleted"}

(* A requested generation is registered from before its start to its end. *)
Registered ==
    \A x \in Generate :
      at[x] \in {"submitting", "starting"} \cup GenerationPoints => registry = x

(* After a cancel has returned, a generation that was started is signalled. *)
CancelReaches ==
    \A c \in Cancel : told[c] = "cancelled" /\ at[c] = "ended" =>
        \A x \in Generate : at[x] \in GenerationPoints => x \in signalled

Cancels == SignalsAreLate /\ Registered /\ CancelReaches

EditsOvertaken ==
    \A e \in Edit : status = "generating" /\ at[e] = "saving" => e \in overtaken

(* What a generation has read is what the row shows, edits aside. *)
SeenFits ==
    \A x \in Worker : status = "generating" /\ at[x] \in {"waiting"} \cup Slot =>
        seen[x] # None /\ (seen[x] = outline \/ outline \in overtaken)

Outlines == EditsOvertaken /\ SeenFits /\ DoneMatchesOutline

ReportInv == TypeOK /\ Ownership /\ Cancels /\ Outlines

-----------------------------------------------------------------------------

(* Each step moves a process to a point of its own code and writes values of *)
(* the row's types.                                                         *)
LEMMA TypesKept ==
  ASSUME TypeOK, [Next]_vars
  PROVE  TypeOK'
  <1> USE ReportAssumption DEF Worker, Process, Goes, Update, Updated,
          Writable, TypeOK, row, gate, Statuses, Points, Author, Final,
          Absent, Sticky, InFlight, Launch, PlanPoints, GenerationPoints, Slot
  <1>1. ASSUME NEW x \in Worker, Create(x) PROVE TypeOK'
    BY <1>1 DEF Create
  <1>2. ASSUME NEW x \in Worker, AskToConfirm(x) PROVE TypeOK'
    BY <1>2 DEF AskToConfirm
  <1>3. ASSUME NEW x \in Worker, AskToGenerate(x) PROVE TypeOK'
    BY <1>3 DEF AskToGenerate
  <1>4. ASSUME NEW x \in Worker, Register(x) PROVE TypeOK'
    BY <1>4 DEF Register
  <1>5. ASSUME NEW x \in Worker, Submit(x) PROVE TypeOK'
    BY <1>5 DEF Fail, Submit
  <1>6. ASSUME NEW x \in Worker, StartWorker(x) PROVE TypeOK'
    BY <1>6 DEF FirstStage, StartWorker
  <1>7. ASSUME NEW x \in Worker, StartUnread(x) PROVE TypeOK'
    BY <1>7 DEF Fail, FirstStage, StartUnread
  <1>8. ASSUME NEW x \in Worker, CeilingFails(x) PROVE TypeOK'
    BY <1>8 DEF CeilingFails
  <1>9. ASSUME NEW x \in Worker, Understand(x) PROVE TypeOK'
    BY <1>9 DEF Understand
  <1>10. ASSUME NEW x \in Worker, Contract(x) PROVE TypeOK'
    BY <1>10 DEF Contract, Fail, Stop
  <1>11. ASSUME NEW x \in Worker, PublishIntent(x) PROVE TypeOK'
    BY <1>11 DEF PublishIntent
  <1>12. ASSUME NEW x \in Worker, ClaimIntent(x) PROVE TypeOK'
    BY <1>12 DEF ClaimIntent
  <1>13. ASSUME NEW x \in Worker, LeaveIntent(x) PROVE TypeOK'
    BY <1>13 DEF LeaveIntent
  <1>14. ASSUME NEW x \in Worker, BeginPlan(x) PROVE TypeOK'
    BY <1>14 DEF BeginPlan
  <1>15. ASSUME NEW x \in Worker, EndPlan(x) PROVE TypeOK'
    BY <1>15 DEF EndPlan
  <1>16. ASSUME NEW x \in Worker, ClaimGeneration(x) PROVE TypeOK'
    BY <1>16 DEF ClaimGeneration, Claimable
  <1>17. ASSUME NEW x \in Worker, OpenOutline(x) PROVE TypeOK'
    BY <1>17 DEF Fail, OpenOutline
  <1>18. ASSUME NEW x \in Worker, WaitForGate(x) PROVE TypeOK'
    BY <1>18 DEF Stop, WaitForGate
  <1>19. ASSUME NEW x \in Worker, BeginWriting(x) PROVE TypeOK'
    BY <1>19 DEF BeginWriting
  <1>20. ASSUME NEW x \in Worker, FinishWriting(x) PROVE TypeOK'
    BY <1>20 DEF FinishWriting
  <1>21. ASSUME NEW x \in Worker, Complete(x) PROVE TypeOK'
    BY <1>21 DEF Complete
  <1>22. ASSUME NEW x \in Worker, Unwind(x) PROVE TypeOK'
    BY <1>22 DEF Unwind
  <1>23. ASSUME NEW x \in Worker, HandleException(x) PROVE TypeOK'
    BY <1>23 DEF Fail, HandleException, Stop
  <1>24. ASSUME NEW x \in Worker, Release(x) PROVE TypeOK'
    BY <1>24 DEF Release
  <1>25. ASSUME NEW x \in Worker, Unregister(x) PROVE TypeOK'
    BY <1>25 DEF Unregister
  <1>26. CASE OtherEnds
    BY <1>26 DEF OtherEnds
  <1>27. ASSUME NEW x \in Edit, ReadForEdit(x) PROVE TypeOK'
    BY <1>27 DEF Editable, ReadForEdit
  <1>28. ASSUME NEW x \in Edit, SaveOutline(x) PROVE TypeOK'
    BY <1>28 DEF SaveOutline
  <1>29. ASSUME NEW x \in Cancel, CancelRow(x) PROVE TypeOK'
    BY <1>29 DEF CancelRow
  <1>30. ASSUME NEW x \in Cancel, RereadRow(x) PROVE TypeOK'
    BY <1>30 DEF RereadRow
  <1>31. ASSUME NEW x \in Cancel, Signal(x) PROVE TypeOK'
    BY <1>31 DEF Signal
  <1>32. ASSUME NEW x \in Delete, DeleteRow(x) PROVE TypeOK'
    BY <1>32 DEF DeleteRow
  <1>33. CASE UNCHANGED vars
    BY <1>33 DEF vars
  <1> QED
    BY <1>1, <1>2, <1>3, <1>4, <1>5, <1>6, <1>7, <1>8, <1>9, <1>10, <1>11,
       <1>12, <1>13, <1>14, <1>15, <1>16, <1>17, <1>18, <1>19, <1>20, <1>21,
       <1>22, <1>23, <1>24, <1>25, <1>26, <1>27, <1>28, <1>29, <1>30, <1>31,
       <1>32, <1>33 DEF Next, WorkerStep, LaunchStep, PlanStep,
       GenerationStep, CancelStep

(* Only a claim makes an owner, and only where there is none; an owner that *)
(* leaves has written a status that is not in flight, or finds a dead row.  *)
LEMMA OwnershipKept ==
  ASSUME TypeOK, Ownership, SignalsAreLate, [Next]_vars
  PROVE  Ownership'
  <1> USE ReportAssumption DEF Worker, Process, Goes, Update, Updated,
          Writable, TypeOK, Ownership, OneOwner, StageFits, GeneratesOnly,
          Owns, Plans, Generates, row, Final, Absent, Sticky, InFlight,
          Launch, PlanPoints, GenerationPoints, Slot, Dead
  <1>1. ASSUME NEW x \in Worker, Create(x) PROVE Ownership'
    BY <1>1 DEF Create
  <1>2. ASSUME NEW x \in Worker, AskToConfirm(x) PROVE Ownership'
    BY <1>2 DEF AskToConfirm
  <1>3. ASSUME NEW x \in Worker, AskToGenerate(x) PROVE Ownership'
    BY <1>3 DEF AskToGenerate
  <1>4. ASSUME NEW x \in Worker, Register(x) PROVE Ownership'
    BY <1>4 DEF Register
  <1>5. ASSUME NEW x \in Worker, Submit(x) PROVE Ownership'
    BY <1>5 DEF Fail, Submit
  <1>6. ASSUME NEW x \in Worker, StartWorker(x) PROVE Ownership'
    BY <1>6 DEF FirstStage, SignalsAreLate, StartWorker
  <1>7. ASSUME NEW x \in Worker, StartUnread(x) PROVE Ownership'
    BY <1>7 DEF Fail, FirstStage, StartUnread
  <1>8. ASSUME NEW x \in Worker, CeilingFails(x) PROVE Ownership'
    BY <1>8 DEF CeilingFails, SignalsAreLate
  <1>9. ASSUME NEW x \in Worker, Understand(x) PROVE Ownership'
    BY <1>9 DEF Understand
  <1>10. ASSUME NEW x \in Worker, Contract(x) PROVE Ownership'
    BY <1>10 DEF Contract, Fail, Stop
  <1>11. ASSUME NEW x \in Worker, PublishIntent(x) PROVE Ownership'
    BY <1>11 DEF PublishIntent
  <1>12. ASSUME NEW x \in Worker, ClaimIntent(x) PROVE Ownership'
    BY <1>12 DEF ClaimIntent
  <1>13. ASSUME NEW x \in Worker, LeaveIntent(x) PROVE Ownership'
    BY <1>13 DEF LeaveIntent
  <1>14. ASSUME NEW x \in Worker, BeginPlan(x) PROVE Ownership'
    BY <1>14 DEF BeginPlan
  <1>15. ASSUME NEW x \in Worker, EndPlan(x) PROVE Ownership'
    BY <1>15 DEF EndPlan
  <1>16. ASSUME NEW x \in Worker, ClaimGeneration(x) PROVE Ownership'
    BY <1>16 DEF ClaimGeneration, Claimable
  <1>17. ASSUME NEW x \in Worker, OpenOutline(x) PROVE Ownership'
    BY <1>17 DEF Fail, OpenOutline
  <1>18. ASSUME NEW x \in Worker, WaitForGate(x) PROVE Ownership'
    BY <1>18 DEF Stop, WaitForGate
  <1>19. ASSUME NEW x \in Worker, BeginWriting(x) PROVE Ownership'
    BY <1>19 DEF BeginWriting
  <1>20. ASSUME NEW x \in Worker, FinishWriting(x) PROVE Ownership'
    BY <1>20 DEF FinishWriting
  <1>21. ASSUME NEW x \in Worker, Complete(x) PROVE Ownership'
    BY <1>21 DEF Complete
  <1>22. ASSUME NEW x \in Worker, Unwind(x) PROVE Ownership'
    BY <1>22 DEF Unwind
  <1>23. ASSUME NEW x \in Worker, HandleException(x) PROVE Ownership'
    BY <1>23 DEF Fail, HandleException, Stop
  <1>24. ASSUME NEW x \in Worker, Release(x) PROVE Ownership'
    BY <1>24 DEF Release
  <1>25. ASSUME NEW x \in Worker, Unregister(x) PROVE Ownership'
    BY <1>25 DEF Unregister
  <1>26. CASE OtherEnds
    BY <1>26 DEF OtherEnds
  <1>27. ASSUME NEW x \in Edit, ReadForEdit(x) PROVE Ownership'
    BY <1>27 DEF Editable, ReadForEdit
  <1>28. ASSUME NEW x \in Edit, SaveOutline(x) PROVE Ownership'
    BY <1>28 DEF SaveOutline
  <1>29. ASSUME NEW x \in Cancel, CancelRow(x) PROVE Ownership'
    BY <1>29 DEF CancelRow
  <1>30. ASSUME NEW x \in Cancel, RereadRow(x) PROVE Ownership'
    BY <1>30 DEF RereadRow
  <1>31. ASSUME NEW x \in Cancel, Signal(x) PROVE Ownership'
    BY <1>31 DEF Signal
  <1>32. ASSUME NEW x \in Delete, DeleteRow(x) PROVE Ownership'
    BY <1>32 DEF DeleteRow
  <1>33. CASE UNCHANGED vars
    BY <1>33 DEF vars, gate
  <1> QED
    BY <1>1, <1>2, <1>3, <1>4, <1>5, <1>6, <1>7, <1>8, <1>9, <1>10, <1>11,
       <1>12, <1>13, <1>14, <1>15, <1>16, <1>17, <1>18, <1>19, <1>20, <1>21,
       <1>22, <1>23, <1>24, <1>25, <1>26, <1>27, <1>28, <1>29, <1>30, <1>31,
       <1>32, <1>33 DEF Next, WorkerStep, LaunchStep, PlanStep,
       GenerationStep, CancelStep

(* A cancelled or finished row stays so; the owner's event is the registered *)
(* one when the signal comes, and who starts later reads the row.           *)
LEMMA CancelsKept ==
  ASSUME TypeOK, Ownership, Cancels, [Next]_vars
  PROVE  Cancels'
  <1> USE ReportAssumption DEF Worker, Process, Goes, Update, Updated,
          Writable, TypeOK, Cancels, SignalsAreLate, Registered,
          CancelReaches, row, Final, Absent, Sticky, InFlight, Launch,
          PlanPoints, GenerationPoints, Slot, Dead
  <1>1. ASSUME NEW x \in Worker, Create(x) PROVE Cancels'
    BY <1>1 DEF Create
  <1>2. ASSUME NEW x \in Worker, AskToConfirm(x) PROVE Cancels'
    BY <1>2 DEF AskToConfirm
  <1>3. ASSUME NEW x \in Worker, AskToGenerate(x) PROVE Cancels'
    BY <1>3 DEF AskToGenerate
  <1>4. ASSUME NEW x \in Worker, Register(x) PROVE Cancels'
    BY <1>4 DEF Generates, OneOwner, Ownership, Owns, Plans, Register
  <1>5. ASSUME NEW x \in Worker, Submit(x) PROVE Cancels'
    BY <1>5 DEF Fail, Submit
  <1>6. ASSUME NEW x \in Worker, StartWorker(x) PROVE Cancels'
    BY <1>6 DEF FirstStage, StartWorker
  <1>7. ASSUME NEW x \in Worker, StartUnread(x) PROVE Cancels'
    BY <1>7 DEF Fail, FirstStage, StartUnread
  <1>8. ASSUME NEW x \in Worker, CeilingFails(x) PROVE Cancels'
    BY <1>8 DEF CeilingFails
  <1>9. ASSUME NEW x \in Worker, Understand(x) PROVE Cancels'
    BY <1>9 DEF Understand
  <1>10. ASSUME NEW x \in Worker, Contract(x) PROVE Cancels'
    BY <1>10 DEF Contract, Fail, Stop
  <1>11. ASSUME NEW x \in Worker, PublishIntent(x) PROVE Cancels'
    BY <1>11 DEF PublishIntent
  <1>12. ASSUME NEW x \in Worker, ClaimIntent(x) PROVE Cancels'
    BY <1>12 DEF ClaimIntent
  <1>13. ASSUME NEW x \in Worker, LeaveIntent(x) PROVE Cancels'
    BY <1>13 DEF LeaveIntent
  <1>14. ASSUME NEW x \in Worker, BeginPlan(x) PROVE Cancels'
    BY <1>14 DEF BeginPlan
  <1>15. ASSUME NEW x \in Worker, EndPlan(x) PROVE Cancels'
    BY <1>15 DEF EndPlan
  <1>16. ASSUME NEW x \in Worker, ClaimGeneration(x) PROVE Cancels'
    BY <1>16 DEF ClaimGeneration, Claimable
  <1>17. ASSUME NEW x \in Worker, OpenOutline(x) PROVE Cancels'
    BY <1>17 DEF Fail, OpenOutline
  <1>18. ASSUME NEW x \in Worker, WaitForGate(x) PROVE Cancels'
    BY <1>18 DEF Stop, WaitForGate
  <1>19. ASSUME NEW x \in Worker, BeginWriting(x) PROVE Cancels'
    BY <1>19 DEF BeginWriting
  <1>20. ASSUME NEW x \in Worker, FinishWriting(x) PROVE Cancels'
    BY <1>20 DEF FinishWriting
  <1>21. ASSUME NEW x \in Worker, Complete(x) PROVE Cancels'
    BY <1>21 DEF Complete
  <1>22. ASSUME NEW x \in Worker, Unwind(x) PROVE Cancels'
    BY <1>22 DEF Unwind
  <1>23. ASSUME NEW x \in Worker, HandleException(x) PROVE Cancels'
    BY <1>23 DEF Fail, HandleException, Stop
  <1>24. ASSUME NEW x \in Worker, Release(x) PROVE Cancels'
    BY <1>24 DEF Release
  <1>25. ASSUME NEW x \in Worker, Unregister(x) PROVE Cancels'
    BY <1>25 DEF Unregister
  <1>26. CASE OtherEnds
    BY <1>26 DEF OtherEnds
  <1>27. ASSUME NEW x \in Edit, ReadForEdit(x) PROVE Cancels'
    BY <1>27 DEF Editable, ReadForEdit
  <1>28. ASSUME NEW x \in Edit, SaveOutline(x) PROVE Cancels'
    BY <1>28 DEF SaveOutline
  <1>29. ASSUME NEW x \in Cancel, CancelRow(x) PROVE Cancels'
    BY <1>29 DEF CancelRow
  <1>30. ASSUME NEW x \in Cancel, RereadRow(x) PROVE Cancels'
    BY <1>30 DEF RereadRow
  <1>31. ASSUME NEW x \in Cancel, Signal(x) PROVE Cancels'
    BY <1>31 DEF Signal
  <1>32. ASSUME NEW x \in Delete, DeleteRow(x) PROVE Cancels'
    BY <1>32 DEF DeleteRow
  <1>33. CASE UNCHANGED vars
    BY <1>33 DEF vars, gate
  <1> QED
    BY <1>1, <1>2, <1>3, <1>4, <1>5, <1>6, <1>7, <1>8, <1>9, <1>10, <1>11,
       <1>12, <1>13, <1>14, <1>15, <1>16, <1>17, <1>18, <1>19, <1>20, <1>21,
       <1>22, <1>23, <1>24, <1>25, <1>26, <1>27, <1>28, <1>29, <1>30, <1>31,
       <1>32, <1>33 DEF Next, WorkerStep, LaunchStep, PlanStep,
       GenerationStep, CancelStep

(* While a generation owns the row, nobody plans, and an edit that is still to *)
(* be written has been overtaken by the claim.                              *)
LEMMA OutlinesKept ==
  ASSUME TypeOK, Ownership, Outlines, [Next]_vars
  PROVE  Outlines'
  <1> USE ReportAssumption DEF Worker, Process, Goes, Update, Updated,
          Writable, TypeOK, Outlines, EditsOvertaken, SeenFits,
          DoneMatchesOutline, row, Final, Absent, Sticky, InFlight, Launch,
          PlanPoints, GenerationPoints, Slot, Dead
  <1>1. ASSUME NEW x \in Worker, Create(x) PROVE Outlines'
    BY <1>1 DEF Create
  <1>2. ASSUME NEW x \in Worker, AskToConfirm(x) PROVE Outlines'
    BY <1>2 DEF AskToConfirm
  <1>3. ASSUME NEW x \in Worker, AskToGenerate(x) PROVE Outlines'
    BY <1>3 DEF AskToGenerate
  <1>4. ASSUME NEW x \in Worker, Register(x) PROVE Outlines'
    BY <1>4 DEF Register
  <1>5. ASSUME NEW x \in Worker, Submit(x) PROVE Outlines'
    BY <1>5 DEF Fail, Submit
  <1>6. ASSUME NEW x \in Worker, StartWorker(x) PROVE Outlines'
    BY <1>6 DEF FirstStage, StartWorker
  <1>7. ASSUME NEW x \in Worker, StartUnread(x) PROVE Outlines'
    BY <1>7 DEF Fail, FirstStage, StartUnread
  <1>8. ASSUME NEW x \in Worker, CeilingFails(x) PROVE Outlines'
    BY <1>8 DEF CeilingFails
  <1>9. ASSUME NEW x \in Worker, Understand(x) PROVE Outlines'
    BY <1>9 DEF Understand
  <1>10. ASSUME NEW x \in Worker, Contract(x) PROVE Outlines'
    BY <1>10 DEF Contract, Fail, Stop
  <1>11. ASSUME NEW x \in Worker, PublishIntent(x) PROVE Outlines'
    BY <1>11 DEF PublishIntent
  <1>12. ASSUME NEW x \in Worker, ClaimIntent(x) PROVE Outlines'
    BY <1>12 DEF ClaimIntent
  <1>13. ASSUME NEW x \in Worker, LeaveIntent(x) PROVE Outlines'
    BY <1>13 DEF LeaveIntent
  <1>14. ASSUME NEW x \in Worker, BeginPlan(x) PROVE Outlines'
    BY <1>14 DEF BeginPlan
  <1>15. ASSUME NEW x \in Worker, EndPlan(x) PROVE Outlines'
    BY <1>15 DEF EndPlan
  <1>16. ASSUME NEW x \in Worker, ClaimGeneration(x) PROVE Outlines'
    BY <1>16 DEF ClaimGeneration, Claimable, Generates, Ownership, StageFits
  <1>17. ASSUME NEW x \in Worker, OpenOutline(x) PROVE Outlines'
    BY <1>17 DEF Fail, OpenOutline
  <1>18. ASSUME NEW x \in Worker, WaitForGate(x) PROVE Outlines'
    BY <1>18 DEF Generates, Ownership, StageFits, Stop, WaitForGate
  <1>19. ASSUME NEW x \in Worker, BeginWriting(x) PROVE Outlines'
    BY <1>19 DEF BeginWriting, Generates, Ownership, StageFits
  <1>20. ASSUME NEW x \in Worker, FinishWriting(x) PROVE Outlines'
    BY <1>20 DEF FinishWriting
  <1>21. ASSUME NEW x \in Worker, Complete(x) PROVE Outlines'
    BY <1>21 DEF Complete
  <1>22. ASSUME NEW x \in Worker, Unwind(x) PROVE Outlines'
    BY <1>22 DEF Unwind
  <1>23. ASSUME NEW x \in Worker, HandleException(x) PROVE Outlines'
    BY <1>23 DEF Fail, HandleException, Stop
  <1>24. ASSUME NEW x \in Worker, Release(x) PROVE Outlines'
    BY <1>24 DEF Release
  <1>25. ASSUME NEW x \in Worker, Unregister(x) PROVE Outlines'
    BY <1>25 DEF Unregister
  <1>26. CASE OtherEnds
    BY <1>26 DEF OtherEnds
  <1>27. ASSUME NEW x \in Edit, ReadForEdit(x) PROVE Outlines'
    BY <1>27 DEF Editable, ReadForEdit
  <1>28. ASSUME NEW x \in Edit, SaveOutline(x) PROVE Outlines'
    BY <1>28 DEF SaveOutline
  <1>29. ASSUME NEW x \in Cancel, CancelRow(x) PROVE Outlines'
    BY <1>29 DEF CancelRow
  <1>30. ASSUME NEW x \in Cancel, RereadRow(x) PROVE Outlines'
    BY <1>30 DEF RereadRow
  <1>31. ASSUME NEW x \in Cancel, Signal(x) PROVE Outlines'
    BY <1>31 DEF Signal
  <1>32. ASSUME NEW x \in Delete, DeleteRow(x) PROVE Outlines'
    BY <1>32 DEF DeleteRow
  <1>33. CASE UNCHANGED vars
    BY <1>33 DEF vars, gate
  <1> QED
    BY <1>1, <1>2, <1>3, <1>4, <1>5, <1>6, <1>7, <1>8, <1>9, <1>10, <1>11,
       <1>12, <1>13, <1>14, <1>15, <1>16, <1>17, <1>18, <1>19, <1>20, <1>21,
       <1>22, <1>23, <1>24, <1>25, <1>26, <1>27, <1>28, <1>29, <1>30, <1>31,
       <1>32, <1>33 DEF Next, WorkerStep, LaunchStep, PlanStep,
       GenerationStep, CancelStep

-----------------------------------------------------------------------------
(***************************************************************************)
(* The invariant holds initially and is kept by every step.                *)
(***************************************************************************)
LEMMA ReportInvHolds == Spec => []ReportInv
  <1>1. Init => ReportInv
    <2> SUFFICES ASSUME Init PROVE ReportInv
      OBVIOUS
    <2> USE ReportAssumption DEF Init, Worker, Process
    <2>1. TypeOK
      BY DEF TypeOK, Statuses, Sticky, Absent, Points, Author
    <2>2. Ownership
      BY DEF Ownership, OneOwner, StageFits, GeneratesOnly, Owns, Plans, Generates, InFlight,
             PlanPoints, GenerationPoints, Launch, Slot
    <2>3. Cancels
      BY DEF Cancels, SignalsAreLate, Registered, CancelReaches, Final, GenerationPoints, Slot
    <2>4. Outlines
      BY DEF Outlines, EditsOvertaken, SeenFits, DoneMatchesOutline
    <2> QED
      BY <2>1, <2>2, <2>3, <2>4 DEF ReportInv
  <1>2. ReportInv /\ [Next]_vars => ReportInv'
    BY TypesKept, OwnershipKept, CancelsKept, OutlinesKept DEF ReportInv, Cancels
  <1> QED
    BY <1>1, <1>2, PTL DEF Spec

(***************************************************************************)
(* The variables keep their types: processes are at points of their code,  *)
(* outlines have authors, and permits are numbers.                         *)
(***************************************************************************)
THEOREM ReportTypeCorrect == Spec => []TypeOK
  <1>1. ReportInv => TypeOK
    BY DEF ReportInv
  <1> QED
    BY <1>1, ReportInvHolds, PTL

(***************************************************************************)
(* One worker owns a report on which work is going on: no claim, retry or  *)
(* automatic start makes a second one, and none leaves the row behind in   *)
(* flight.                                                                 *)
(***************************************************************************)
THEOREM ReportHasOneOwner == Spec => []OneOwner
  <1>1. ReportInv => OneOwner
    BY DEF ReportInv, Ownership
  <1> QED
    BY <1>1, ReportInvHolds, PTL

(***************************************************************************)
(* What a cancel answers stays true, and when it has returned, a requested *)
(* generation that still runs has been signalled.                          *)
(***************************************************************************)
THEOREM ReportCancelStops == Spec => []CancelStops
  <1>1. ReportInv => CancelStops
    BY DEF ReportInv, Cancels, SignalsAreLate, CancelReaches, CancelStops, GenerationPoints
  <1> QED
    BY <1>1, ReportInvHolds, PTL

(***************************************************************************)
(* A finished report was generated from the outline it shows, unless an    *)
(* edit that its claim had overtaken was written afterwards.               *)
(***************************************************************************)
THEOREM ReportMatchesOutline == Spec => []DoneMatchesOutline
  <1>1. ReportInv => DoneMatchesOutline
    BY DEF ReportInv, Outlines
  <1> QED
    BY <1>1, ReportInvHolds, PTL
=============================================================================
