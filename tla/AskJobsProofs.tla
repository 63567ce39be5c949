---------------------------- MODULE AskJobsProofs ----------------------------
(***************************************************************************)
(* One job per key, no conversation lost under a question or left without  *)
(* an answer, and no ending that the row contradicts, for any number of    *)
(* submissions, cancels and deletions, any keys, and any number of         *)
(* restarts and failed statements.                                         *)
(*                                                                         *)
(* The argument: a submission has no job before it inserts, so a key is    *)
(* free exactly when no row has it, and the index settles who inserts.     *)
(* The row lock of a conversation has one holder, so nobody removes it     *)
(* between a submission's look and its insert.  Whoever removes it later   *)
(* finds every job in it ended and takes their answers along, or finds no  *)
(* answer in it.  While its worker is at work a job runs, or was cancelled *)
(* or deleted; so a worker that reports a cancel has a row that says so or *)
(* will write it, and only the stored answer makes a job done.  As long as *)
(* nothing fails, whoever ends in a conversation without an answer sweeps  *)
(* it, and finds it in use only if somebody else still comes to sweep.     *)
(***************************************************************************)
EXTENDS AskJobs, TLAPS

(* A submission that has not inserted has no job. *)
NotYet ==
    \A a \in Ask :
      at[a] \in {"new", "looking", "ensuring", "inserting", "rereading"} => job[a] = "none"

(* Jobs and conversations are spoken of only after they were made. *)
MadeFirst ==
    /\ \A x \in Actor : of[x] # None => job[of[x]] # "none"
    /\ \A a \in Ask : job[a] # "none" => of[a] = a
    /\ \A x \in Actor : conv[x] \notin {None, x} => job[conv[x]] # "none"
    /\ \A c \in convs : job[c] # "none"

(* The row lock of a conversation has one holder. *)
OneHolder ==
    \A x, y \in Actor :
      at[x] \in Held /\ at[y] \in Held /\ conv[x] = conv[y] => x = y

(* A submission inserts into a conversation that is there, or its own. *)
FoundOrOwn ==
    \A a \in Ask : at[a] = "inserting" => conv[a] = a \/ conv[a] \in convs

Rooms == NotYet /\ MadeFirst /\ OneHolder /\ FoundOrOwn

Gone == {"cancelled", "deleted"}

(* The job of a worker at work runs, unless it was cancelled or deleted. *)
WorksOnRunning ==
    \A a \in Ask :
      /\ at[a] \in {"registering", "preparing", "prepared", "thinking", "saving"}
            => job[a] \in {"running"} \cup Gone
      /\ at[a] = "answering" => job[a] = "running"

(* Events are set for jobs whose row was cancelled first. *)
SignalledLate ==
    /\ \A a \in signalled : job[a] \in Gone
    /\ \A x \in Cancel : at[x] = "signalling" => of[x] # None /\ job[of[x]] \in Gone

(* What a worker or a follower has concluded agrees with the row, or will  *)
(* once _finish has written it.                                            *)
Concluded ==
    \A a \in Ask :
      /\ ending[a] # "none" =>
           at[a] \in {"finishing", "unregistering", "tidying", "sweeping", "ended"}
      /\ ending[a] = "final" => of[a] # None /\ job[of[a]] \in {"done", "deleted"}
      /\ ending[a] = "cancelled" =>
           /\ of[a] # None
           /\ job[of[a]] \in Gone \cup (IF at[a] = "finishing" THEN {"running"} ELSE {})

(* The worker that has given up its place in the registry is not there. *)
Unregistered ==
    \A a \in Ask :
      /\ at[a] \in {"tidying", "sweeping"} => a \notin registry
      /\ at[a] = "ended" /\ of[a] = a /\ ending[a] # "none" => a \notin registry

(* A follower follows the job of another submission, a worker finishes its own. *)
FollowsOther ==
    \A a \in Ask :
      /\ at[a] \in {"following", "fetching"} => of[a] \notin {None, a}
      /\ at[a] = "finishing" => of[a] = a

(* Only a stored answer makes a job done. *)
DoneIsAnswered == answers = {a \in Ask : job[a] = "done"}

Outcomes ==
    /\ WorksOnRunning /\ SignalledLate /\ Concluded
    /\ Unregistered /\ FollowsOther /\ DoneIsAnswered

(* As long as no statement failed and no process ended, the worker of a     *)
(* running job is at work, and a conversation without an answer is still   *)
(* going to be looked at by somebody's cleanup.                            *)
AtWork == {"registering", "preparing", "prepared", "thinking", "saving", "answering"}

WillSweep(x) ==
    \/ at[x] \in AtWork \cup {"signalling", "tidying", "sweeping"}
    \/ x \in Ask /\ at[x] \in {"finishing", "unregistering"} /\ ending[x] # "final"

RunsAtWork == \A a \in Ask : job[a] = "running" => at[a] \in AtWork \cup {"finishing"}

Watched(c) ==
    \/ \E a \in answers : conv[a] = c
    \/ \E x \in Ask \cup Cancel : conv[x] = c /\ WillSweep(x)

Tidy == trouble = 0 => RunsAtWork /\ (\A c \in convs : Watched(c))

AskInv == TypeOK /\ Rooms /\ OneJobPerKey /\ ConversationKept /\ Outcomes /\ Tidy

-----------------------------------------------------------------------------

(* Each step moves an actor to a point of its code and writes values of the *)
(* rows' types.                                                             *)
LEMMA TypesKept ==
  ASSUME TypeOK, [Next]_vars
  PROVE  TypeOK'
  <1> USE AskAssumption DEF Actor, Goes, Trouble, Stored, ConvFree,
          JobFree, storeVars, eventVars, TypeOK, Points, Held, Requesting,
          Executing, Terminal, Endings
  <1>1. ASSUME NEW x \in Ask, Submit(x) PROVE TypeOK'
    BY <1>1 DEF Submit
  <1>2. ASSUME NEW x \in Ask, Lookup(x) PROVE TypeOK'
    BY <1>2 DEF Attach, Lookup, Made
  <1>3. ASSUME NEW x \in Ask, Reread(x) PROVE TypeOK'
    BY <1>3 DEF Attach, Made, Reread
  <1>4. ASSUME NEW x \in Ask, EnsureConversation(x) PROVE TypeOK'
    BY <1>4 DEF EnsureConversation
  <1>5. ASSUME NEW x \in Ask, InsertJob(x) PROVE TypeOK'
    BY <1>5 DEF InsertJob, KeyTaken, Made
  <1>6. ASSUME NEW x \in Ask, InsertCollides(x) PROVE TypeOK'
    BY <1>6 DEF InsertCollides, KeyTaken, Made
  <1>7. ASSUME NEW x \in Ask, StartWorker(x) PROVE TypeOK'
    BY <1>7 DEF StartWorker
  <1>8. ASSUME NEW x \in Ask, StartFails(x) PROVE TypeOK'
    BY <1>8 DEF StartFails
  <1>9. ASSUME NEW x \in Ask, PrepareTurn(x) PROVE TypeOK'
    BY <1>9 DEF Concludes, PrepareTurn
  <1>10. ASSUME NEW x \in Ask, CheckStillRunning(x) PROVE TypeOK'
    BY <1>10 DEF CheckStillRunning, Concludes
  <1>11. ASSUME NEW x \in Ask, Think(x) PROVE TypeOK'
    BY <1>11 DEF Concludes, Think
  <1>12. ASSUME NEW x \in Ask, LockJob(x) PROVE TypeOK'
    BY <1>12 DEF Concludes, LockJob
  <1>13. ASSUME NEW x \in Ask, SaveAnswer(x) PROVE TypeOK'
    BY <1>13 DEF Concludes, SaveAnswer
  <1>14. ASSUME NEW x \in Ask, FinishJob(x) PROVE TypeOK'
    BY <1>14 DEF FinishJob, Finished, StatusFor
  <1>15. ASSUME NEW x \in Ask, Unregister(x) PROVE TypeOK'
    BY <1>15 DEF Unregister
  <1>16. ASSUME NEW x \in Ask, FinishRaises(x) PROVE TypeOK'
    BY <1>16 DEF FinishRaises
  <1>17. ASSUME NEW x \in Ask \cup Cancel, LockForCleanup(x) PROVE TypeOK'
    BY <1>17 DEF LockForCleanup
  <1>18. ASSUME NEW x \in Ask \cup Cancel, Cleanup(x) PROVE TypeOK'
    BY <1>18 DEF Cleanup, InUse
  <1>19. ASSUME NEW x \in Ask, Follow(x) PROVE TypeOK'
    BY <1>19 DEF Ends, Follow
  <1>20. ASSUME NEW x \in Ask, FetchAnswer(x) PROVE TypeOK'
    BY <1>20 DEF Ends, FetchAnswer
  <1>21. ASSUME NEW x \in Ask, StopFollowing(x) PROVE TypeOK'
    BY <1>21 DEF StopFollowing
  <1>22. ASSUME NEW x \in Cancel, CancelRow(x) PROVE TypeOK'
    BY <1>22 DEF CancelRow
  <1>23. ASSUME NEW x \in Cancel, Signal(x) PROVE TypeOK'
    BY <1>23 DEF Signal
  <1>24. ASSUME NEW x \in Delete, LockForDeletion(x) PROVE TypeOK'
    BY <1>24 DEF LockForDeletion
  <1>25. ASSUME NEW x \in Delete, RemoveConversation(x) PROVE TypeOK'
    BY <1>25 DEF JobsIn, RemoveConversation, Removes
  <1>26. CASE Restart
    BY <1>26 DEF Restart
  <1>27. CASE UNCHANGED vars
    BY <1>27 DEF vars
  <1> QED
    BY <1>1, <1>2, <1>3, <1>4, <1>5, <1>6, <1>7, <1>8, <1>9, <1>10, <1>11,
       <1>12, <1>13, <1>14, <1>15, <1>16, <1>17, <1>18, <1>19, <1>20, <1>21,
       <1>22, <1>23, <1>24, <1>25, <1>26, <1>27 DEF Next, AskStep,
       RequestStep, WorkerStep, CleanupStep, FollowerStep, CancelStep

(* Nothing is spoken of before it is made, and locks exclude each other: the *)
(* conversation of a new question is named after it, so nobody holds it.    *)
LEMMA RoomsKept ==
  ASSUME TypeOK, Rooms, WorksOnRunning, [Next]_vars
  PROVE  Rooms'
  <1> USE AskAssumption DEF Actor, Goes, Trouble, Stored, ConvFree,
          JobFree, storeVars, eventVars, TypeOK, Rooms, NotYet, MadeFirst,
          OneHolder, FoundOrOwn, Held
  <1>1. ASSUME NEW x \in Ask, Submit(x) PROVE Rooms'
    BY <1>1 DEF Submit
  <1>2. ASSUME NEW x \in Ask, Lookup(x) PROVE Rooms'
    BY <1>2 DEF Attach, Lookup, Made
  <1>3. ASSUME NEW x \in Ask, Reread(x) PROVE Rooms'
    BY <1>3 DEF Attach, Made, Reread
  <1>4. ASSUME NEW x \in Ask, EnsureConversation(x) PROVE Rooms'
    BY <1>4 DEF EnsureConversation
  <1>5. ASSUME NEW x \in Ask, InsertJob(x) PROVE Rooms'
    BY <1>5 DEF InsertJob, KeyTaken, Made
  <1>6. ASSUME NEW x \in Ask, InsertCollides(x) PROVE Rooms'
    BY <1>6 DEF InsertCollides, KeyTaken, Made
  <1>7. ASSUME NEW x \in Ask, StartWorker(x) PROVE Rooms'
    BY <1>7 DEF StartWorker
  <1>8. ASSUME NEW x \in Ask, StartFails(x) PROVE Rooms'
    BY <1>8 DEF StartFails
  <1>9. ASSUME NEW x \in Ask, PrepareTurn(x) PROVE Rooms'
    BY <1>9 DEF Concludes, PrepareTurn
  <1>10. ASSUME NEW x \in Ask, CheckStillRunning(x) PROVE Rooms'
    BY <1>10 DEF CheckStillRunning, Concludes
  <1>11. ASSUME NEW x \in Ask, Think(x) PROVE Rooms'
    BY <1>11 DEF Concludes, Think
  <1>12. ASSUME NEW x \in Ask, LockJob(x) PROVE Rooms'
    BY <1>12 DEF Concludes, LockJob
  <1>13. ASSUME NEW x \in Ask, SaveAnswer(x) PROVE Rooms'
    BY <1>13 DEF Concludes, SaveAnswer, WorksOnRunning
  <1>14. ASSUME NEW x \in Ask, FinishJob(x) PROVE Rooms'
    BY <1>14 DEF FinishJob, Finished, StatusFor
  <1>15. ASSUME NEW x \in Ask, Unregister(x) PROVE Rooms'
    BY <1>15 DEF Unregister
  <1>16. ASSUME NEW x \in Ask, FinishRaises(x) PROVE Rooms'
    BY <1>16 DEF FinishRaises
  <1>17. ASSUME NEW x \in Ask \cup Cancel, LockForCleanup(x) PROVE Rooms'
    BY <1>17 DEF LockForCleanup
  <1>18. ASSUME NEW x \in Ask \cup Cancel, Cleanup(x) PROVE Rooms'
    BY <1>18 DEF Cleanup, InUse
  <1>19. ASSUME NEW x \in Ask, Follow(x) PROVE Rooms'
    BY <1>19 DEF Ends, Follow
  <1>20. ASSUME NEW x \in Ask, FetchAnswer(x) PROVE Rooms'
    BY <1>20 DEF Ends, FetchAnswer
  <1>21. ASSUME NEW x \in Ask, StopFollowing(x) PROVE Rooms'
    BY <1>21 DEF StopFollowing
  <1>22. ASSUME NEW x \in Cancel, CancelRow(x) PROVE Rooms'
    BY <1>22 DEF CancelRow
  <1>23. ASSUME NEW x \in Cancel, Signal(x) PROVE Rooms'
    BY <1>23 DEF Signal
  <1>24. ASSUME NEW x \in Delete, LockForDeletion(x) PROVE Rooms'
    BY <1>24 DEF LockForDeletion
  <1>25. ASSUME NEW x \in Delete, RemoveConversation(x) PROVE Rooms'
    BY <1>25 DEF JobsIn, RemoveConversation, Removes
  <1>26. CASE Restart
    BY <1>26 DEF Restart
  <1>27. CASE UNCHANGED vars
    BY <1>27 DEF vars
  <1> QED
    BY <1>1, <1>2, <1>3, <1>4, <1>5, <1>6, <1>7, <1>8, <1>9, <1>10, <1>11,
       <1>12, <1>13, <1>14, <1>15, <1>16, <1>17, <1>18, <1>19, <1>20, <1>21,
       <1>22, <1>23, <1>24, <1>25, <1>26, <1>27 DEF Next, AskStep,
       RequestStep, WorkerStep, CleanupStep, FollowerStep, CancelStep

(* A row appears only while the index has none of its key, and keys are chosen *)
(* before there is a row.                                                   *)
LEMMA KeysKept ==
  ASSUME TypeOK, Rooms, OneJobPerKey, WorksOnRunning, [Next]_vars
  PROVE  OneJobPerKey'
  <1> USE AskAssumption DEF Actor, Goes, Trouble, Stored, ConvFree,
          JobFree, storeVars, eventVars, TypeOK, OneJobPerKey, Rooms, NotYet,
          MadeFirst
  <1>1. ASSUME NEW x \in Ask, Submit(x) PROVE OneJobPerKey'
    BY <1>1 DEF Submit
  <1>2. ASSUME NEW x \in Ask, Lookup(x) PROVE OneJobPerKey'
    BY <1>2 DEF Attach, Lookup, Made
  <1>3. ASSUME NEW x \in Ask, Reread(x) PROVE OneJobPerKey'
    BY <1>3 DEF Attach, Made, Reread
  <1>4. ASSUME NEW x \in Ask, EnsureConversation(x) PROVE OneJobPerKey'
    BY <1>4 DEF EnsureConversation
  <1>5. ASSUME NEW x \in Ask, InsertJob(x) PROVE OneJobPerKey'
    BY <1>5 DEF InsertJob, KeyTaken, Made
  <1>6. ASSUME NEW x \in Ask, InsertCollides(x) PROVE OneJobPerKey'
    BY <1>6 DEF InsertCollides, KeyTaken, Made
  <1>7. ASSUME NEW x \in Ask, StartWorker(x) PROVE OneJobPerKey'
    BY <1>7 DEF StartWorker
  <1>8. ASSUME NEW x \in Ask, StartFails(x) PROVE OneJobPerKey'
    BY <1>8 DEF StartFails
  <1>9. ASSUME NEW x \in Ask, PrepareTurn(x) PROVE OneJobPerKey'
    BY <1>9 DEF Concludes, PrepareTurn
  <1>10. ASSUME NEW x \in Ask, CheckStillRunning(x) PROVE OneJobPerKey'
    BY <1>10 DEF CheckStillRunning, Concludes
  <1>11. ASSUME NEW x \in Ask, Think(x) PROVE OneJobPerKey'
    BY <1>11 DEF Concludes, Think
  <1>12. ASSUME NEW x \in Ask, LockJob(x) PROVE OneJobPerKey'
    BY <1>12 DEF Concludes, LockJob
  <1>13. ASSUME NEW x \in Ask, SaveAnswer(x) PROVE OneJobPerKey'
    BY <1>13 DEF Concludes, SaveAnswer, WorksOnRunning
  <1>14. ASSUME NEW x \in Ask, FinishJob(x) PROVE OneJobPerKey'
    BY <1>14 DEF FinishJob, Finished, StatusFor
  <1>15. ASSUME NEW x \in Ask, Unregister(x) PROVE OneJobPerKey'
    BY <1>15 DEF Unregister
  <1>16. ASSUME NEW x \in Ask, FinishRaises(x) PROVE OneJobPerKey'
    BY <1>16 DEF FinishRaises
  <1>17. ASSUME NEW x \in Ask \cup Cancel, LockForCleanup(x) PROVE OneJobPerKey'
    BY <1>17 DEF LockForCleanup
  <1>18. ASSUME NEW x \in Ask \cup Cancel, Cleanup(x) PROVE OneJobPerKey'
    BY <1>18 DEF Cleanup, InUse
  <1>19. ASSUME NEW x \in Ask, Follow(x) PROVE OneJobPerKey'
    BY <1>19 DEF Ends, Follow
  <1>20. ASSUME NEW x \in Ask, FetchAnswer(x) PROVE OneJobPerKey'
    BY <1>20 DEF Ends, FetchAnswer
  <1>21. ASSUME NEW x \in Ask, StopFollowing(x) PROVE OneJobPerKey'
    BY <1>21 DEF StopFollowing
  <1>22. ASSUME NEW x \in Cancel, CancelRow(x) PROVE OneJobPerKey'
    BY <1>22 DEF CancelRow
  <1>23. ASSUME NEW x \in Cancel, Signal(x) PROVE OneJobPerKey'
    BY <1>23 DEF Signal
  <1>24. ASSUME NEW x \in Delete, LockForDeletion(x) PROVE OneJobPerKey'
    BY <1>24 DEF LockForDeletion
  <1>25. ASSUME NEW x \in Delete, RemoveConversation(x) PROVE OneJobPerKey'
    BY <1>25 DEF JobsIn, RemoveConversation, Removes
  <1>26. CASE Restart
    BY <1>26 DEF Restart
  <1>27. CASE UNCHANGED vars
    BY <1>27 DEF vars
  <1> QED
    BY <1>1, <1>2, <1>3, <1>4, <1>5, <1>6, <1>7, <1>8, <1>9, <1>10, <1>11,
       <1>12, <1>13, <1>14, <1>15, <1>16, <1>17, <1>18, <1>19, <1>20, <1>21,
       <1>22, <1>23, <1>24, <1>25, <1>26, <1>27 DEF Next, AskStep,
       RequestStep, WorkerStep, CleanupStep, FollowerStep, CancelStep

(* A cleanup and a deletion look at every job of the conversation they hold; *)
(* and a job is made only in one that is there.                             *)
LEMMA ConversationsKept ==
  ASSUME TypeOK, Rooms, DoneIsAnswered, ConversationKept, [Next]_vars
  PROVE  ConversationKept'
  <1> USE AskAssumption DEF Actor, Goes, Trouble, Stored, ConvFree,
          JobFree, storeVars, eventVars, TypeOK, ConversationKept,
          DoneIsAnswered, Rooms, NotYet, MadeFirst, FoundOrOwn
  <1>1. ASSUME NEW x \in Ask, Submit(x) PROVE ConversationKept'
    BY <1>1 DEF Submit
  <1>2. ASSUME NEW x \in Ask, Lookup(x) PROVE ConversationKept'
    BY <1>2 DEF Attach, Lookup, Made
  <1>3. ASSUME NEW x \in Ask, Reread(x) PROVE ConversationKept'
    BY <1>3 DEF Attach, Made, Reread
  <1>4. ASSUME NEW x \in Ask, EnsureConversation(x) PROVE ConversationKept'
    BY <1>4 DEF EnsureConversation
  <1>5. ASSUME NEW x \in Ask, InsertJob(x) PROVE ConversationKept'
    BY <1>5 DEF InsertJob, KeyTaken, Made
  <1>6. ASSUME NEW x \in Ask, InsertCollides(x) PROVE ConversationKept'
    BY <1>6 DEF InsertCollides, KeyTaken, Made
  <1>7. ASSUME NEW x \in Ask, StartWorker(x) PROVE ConversationKept'
    BY <1>7 DEF StartWorker
  <1>8. ASSUME NEW x \in Ask, StartFails(x) PROVE ConversationKept'
    BY <1>8 DEF StartFails
  <1>9. ASSUME NEW x \in Ask, PrepareTurn(x) PROVE ConversationKept'
    BY <1>9 DEF Concludes, PrepareTurn
  <1>10. ASSUME NEW x \in Ask, CheckStillRunning(x) PROVE ConversationKept'
    BY <1>10 DEF CheckStillRunning, Concludes
  <1>11. ASSUME NEW x \in Ask, Think(x) PROVE ConversationKept'
    BY <1>11 DEF Concludes, Think
  <1>12. ASSUME NEW x \in Ask, LockJob(x) PROVE ConversationKept'
    BY <1>12 DEF Concludes, LockJob
  <1>13. ASSUME NEW x \in Ask, SaveAnswer(x) PROVE ConversationKept'
    BY <1>13 DEF Concludes, SaveAnswer
  <1>14. ASSUME NEW x \in Ask, FinishJob(x) PROVE ConversationKept'
    BY <1>14 DEF FinishJob, Finished, StatusFor
  <1>15. ASSUME NEW x \in Ask, Unregister(x) PROVE ConversationKept'
    BY <1>15 DEF Unregister
  <1>16. ASSUME NEW x \in Ask, FinishRaises(x) PROVE ConversationKept'
    BY <1>16 DEF FinishRaises
  <1>17. ASSUME NEW x \in Ask \cup Cancel, LockForCleanup(x) PROVE ConversationKept'
    BY <1>17 DEF LockForCleanup
  <1>18. ASSUME NEW x \in Ask \cup Cancel, Cleanup(x) PROVE ConversationKept'
    BY <1>18 DEF Cleanup, InUse
  <1>19. ASSUME NEW x \in Ask, Follow(x) PROVE ConversationKept'
    BY <1>19 DEF Ends, Follow
  <1>20. ASSUME NEW x \in Ask, FetchAnswer(x) PROVE ConversationKept'
    BY <1>20 DEF Ends, FetchAnswer
  <1>21. ASSUME NEW x \in Ask, StopFollowing(x) PROVE ConversationKept'
    BY <1>21 DEF StopFollowing
  <1>22. ASSUME NEW x \in Cancel, CancelRow(x) PROVE ConversationKept'
    BY <1>22 DEF CancelRow
  <1>23. ASSUME NEW x \in Cancel, Signal(x) PROVE ConversationKept'
    BY <1>23 DEF Signal
  <1>24. ASSUME NEW x \in Delete, LockForDeletion(x) PROVE ConversationKept'
    BY <1>24 DEF LockForDeletion
  <1>25. ASSUME NEW x \in Delete, RemoveConversation(x) PROVE ConversationKept'
    BY <1>25 DEF JobsIn, RemoveConversation, Removes
  <1>26. CASE Restart
    BY <1>26 DEF Restart
  <1>27. CASE UNCHANGED vars
    BY <1>27 DEF vars
  <1> QED
    BY <1>1, <1>2, <1>3, <1>4, <1>5, <1>6, <1>7, <1>8, <1>9, <1>10, <1>11,
       <1>12, <1>13, <1>14, <1>15, <1>16, <1>17, <1>18, <1>19, <1>20, <1>21,
       <1>22, <1>23, <1>24, <1>25, <1>26, <1>27 DEF Next, AskStep,
       RequestStep, WorkerStep, CleanupStep, FollowerStep, CancelStep

(* A worker's job leaves `running' only for the row its worker reports, or by *)
(* a cancel or a deletion, which nobody overwrites.                         *)
LEMMA OutcomesKept ==
  ASSUME TypeOK, Rooms, Outcomes, [Next]_vars
  PROVE  Outcomes'
  <1> USE AskAssumption DEF Actor, Goes, Trouble, Stored, ConvFree,
          JobFree, storeVars, eventVars, TypeOK, Rooms, NotYet, MadeFirst,
          Outcomes, WorksOnRunning, SignalledLate, Concluded, Unregistered,
          FollowsOther, DoneIsAnswered, Gone
  <1>1. ASSUME NEW x \in Ask, Submit(x) PROVE Outcomes'
    BY <1>1 DEF Submit
  <1>2. ASSUME NEW x \in Ask, Lookup(x) PROVE Outcomes'
    BY <1>2 DEF Attach, Lookup, Made
  <1>3. ASSUME NEW x \in Ask, Reread(x) PROVE Outcomes'
    BY <1>3 DEF Attach, Made, Reread
  <1>4. ASSUME NEW x \in Ask, EnsureConversation(x) PROVE Outcomes'
    BY <1>4 DEF EnsureConversation
  <1>5. ASSUME NEW x \in Ask, InsertJob(x) PROVE Outcomes'
    BY <1>5 DEF InsertJob, KeyTaken, Made
  <1>6. ASSUME NEW x \in Ask, InsertCollides(x) PROVE Outcomes'
    BY <1>6 DEF InsertCollides, KeyTaken, Made
  <1>7. ASSUME NEW x \in Ask, StartWorker(x) PROVE Outcomes'
    BY <1>7 DEF StartWorker
  <1>8. ASSUME NEW x \in Ask, StartFails(x) PROVE Outcomes'
    BY <1>8 DEF StartFails
  <1>9. ASSUME NEW x \in Ask, PrepareTurn(x) PROVE Outcomes'
    BY <1>9 DEF Concludes, PrepareTurn
  <1>10. ASSUME NEW x \in Ask, CheckStillRunning(x) PROVE Outcomes'
    BY <1>10 DEF CheckStillRunning, Concludes
  <1>11. ASSUME NEW x \in Ask, Think(x) PROVE Outcomes'
    BY <1>11 DEF Concludes, Think
  <1>12. ASSUME NEW x \in Ask, LockJob(x) PROVE Outcomes'
    BY <1>12 DEF Concludes, LockJob
  <1>13. ASSUME NEW x \in Ask, SaveAnswer(x) PROVE Outcomes'
    <2> USE <1>13 DEF SaveAnswer, Concludes
    <2>1. job[x] = "running" /\ at[x] = "answering"
      OBVIOUS
    <2>2. CASE conv[x] \in convs
      <3>1. /\ job' = [job EXCEPT ![x] = "done"] /\ answers' = answers \cup {x}
            /\ at' = [at EXCEPT ![x] = "finishing"] /\ ending' = [ending EXCEPT ![x] = "final"]
        BY <2>2
      <3>2. of[x] = x
        BY <2>1
      <3>3. \A a \in Ask : a # x => job'[a] = job[a]
        BY <3>1
      <3>4. job'[x] = "done"
        BY <3>1
      <3>5. WorksOnRunning'
        BY <3>1, <3>3
      <3>6. SignalledLate'
        BY <2>1, <3>1, <3>3
      <3>7. Concluded'
        BY <2>1, <3>1, <3>2, <3>3, <3>4
      <3>8. Unregistered' /\ FollowsOther'
        BY <3>1, <3>2
      <3>9. DoneIsAnswered'
        BY <3>1, <3>3, <3>4
      <3> QED
        BY <3>5, <3>6, <3>7, <3>8, <3>9
    <2>3. CASE conv[x] \notin convs
      BY <2>1, <2>3
    <2> QED
      BY <2>2, <2>3
  <1>14. ASSUME NEW x \in Ask, FinishJob(x) PROVE Outcomes'
    BY <1>14 DEF FinishJob, Finished, StatusFor
  <1>15. ASSUME NEW x \in Ask, Unregister(x) PROVE Outcomes'
    BY <1>15 DEF Unregister
  <1>16. ASSUME NEW x \in Ask, FinishRaises(x) PROVE Outcomes'
    BY <1>16 DEF FinishRaises
  <1>17. ASSUME NEW x \in Ask \cup Cancel, LockForCleanup(x) PROVE Outcomes'
    BY <1>17 DEF LockForCleanup
  <1>18. ASSUME NEW x \in Ask \cup Cancel, Cleanup(x) PROVE Outcomes'
    BY <1>18 DEF Cleanup, InUse
  <1>19. ASSUME NEW x \in Ask, Follow(x) PROVE Outcomes'
    BY <1>19 DEF Ends, Follow
  <1>20. ASSUME NEW x \in Ask, FetchAnswer(x) PROVE Outcomes'
    BY <1>20 DEF Ends, FetchAnswer
  <1>21. ASSUME NEW x \in Ask, StopFollowing(x) PROVE Outcomes'
    BY <1>21 DEF StopFollowing
  <1>22. ASSUME NEW x \in Cancel, CancelRow(x) PROVE Outcomes'
    <2> USE DEF CancelRow
    <2>1. PICK a \in Ask :
            /\ job[a] \notin {"none", "deleted"} /\ at[a] # "answering"
            /\ IF job[a] = "running"
               THEN /\ job' = [job EXCEPT ![a] = "cancelled"]
                    /\ of' = [of EXCEPT ![x] = a] /\ conv' = [conv EXCEPT ![x] = conv[a]]
                    /\ at' = [at EXCEPT ![x] = "signalling"]
               ELSE /\ at' = [at EXCEPT ![x] = "ended"] /\ UNCHANGED <<job, of, conv>>
      BY <1>22
    <2>2. /\ UNCHANGED <<answers, registry, signalled, ending>> /\ x \notin Ask
          /\ \A b \in Ask : at'[b] = at[b] /\ of'[b] = of[b]
      BY <1>22, <2>1
    <2>3. CASE job[a] = "running"
      <3>1. job' = [job EXCEPT ![a] = "cancelled"]
        BY <2>1, <2>3
      <3>2. WorksOnRunning'
        BY <2>1, <2>2, <3>1
      <3>3. SignalledLate'
        BY <2>1, <2>2, <2>3, <3>1
      <3>4. Concluded'
        BY <2>2, <2>3, <3>1
      <3>5. Unregistered' /\ FollowsOther'
        BY <2>2
      <3>6. DoneIsAnswered'
        BY <2>2, <2>3, <3>1
      <3> QED
        BY <3>2, <3>3, <3>4, <3>5, <3>6
    <2>4. CASE job[a] # "running"
      BY <2>1, <2>2, <2>4
    <2> QED
      BY <2>3, <2>4
  <1>23. ASSUME NEW x \in Cancel, Signal(x) PROVE Outcomes'
    BY <1>23 DEF Signal
  <1>24. ASSUME NEW x \in Delete, LockForDeletion(x) PROVE Outcomes'
    BY <1>24 DEF LockForDeletion
  <1>25. ASSUME NEW x \in Delete, RemoveConversation(x) PROVE Outcomes'
    <2> USE <1>25 DEF RemoveConversation, Removes
    <2> DEFINE gone == JobsIn(conv[x])
    <2>1. /\ UNCHANGED <<of, registry, signalled, ending>> /\ x \notin Ask /\ x \notin Cancel
          /\ \A y \in Ask \cup Cancel : at'[y] = at[y]
      OBVIOUS
    <2>2. CASE \E a \in gone : job[a] = "running"
      BY <2>1, <2>2
    <2>3. CASE ~(\E a \in gone : job[a] = "running")
      <3>1. /\ job' = [a \in Ask |-> IF a \in gone THEN "deleted" ELSE job[a]]
            /\ answers' = answers \ gone
        BY <2>3
      <3>2. \A a \in Ask : job'[a] = IF a \in gone THEN "deleted" ELSE job[a]
        BY <3>1
      <3>3. \A a \in Ask : a \in gone => job[a] # "running"
        BY <2>3
      <3> HIDE DEF gone
      <3>4. WorksOnRunning'
        BY <2>1, <3>2, <3>3
      <3>5. SignalledLate'
        BY <2>1, <3>2
      <3>6. Concluded'
        BY <2>1, <3>2
      <3>7. Unregistered' /\ FollowsOther'
        BY <2>1
      <3>8. DoneIsAnswered'
        BY <3>1, <3>2
      <3> QED
        BY <3>4, <3>5, <3>6, <3>7, <3>8
    <2> QED
      BY <2>2, <2>3
  <1>26. CASE Restart
    BY <1>26 DEF Restart
  <1>27. CASE UNCHANGED vars
    BY <1>27 DEF vars
  <1> QED
    BY <1>1, <1>2, <1>3, <1>4, <1>5, <1>6, <1>7, <1>8, <1>9, <1>10, <1>11,
       <1>12, <1>13, <1>14, <1>15, <1>16, <1>17, <1>18, <1>19, <1>20, <1>21,
       <1>22, <1>23, <1>24, <1>25, <1>26, <1>27 DEF Next, AskStep,
       RequestStep, WorkerStep, CleanupStep, FollowerStep, CancelStep


(* What nobody was watching cannot appear: a witness keeps its conversation *)
(* and goes on towards its cleanup, unless another takes its place.         *)
LEMMA WatchKept ==
  ASSUME \A c \in convs : Watched(c),
         \A c \in convs' : c \in convs \/ Watched(c)',
         \A c \in convs', a \in answers :
            conv[a] = c => (a \in answers' /\ conv'[a] = c) \/ Watched(c)',
         \A c \in convs', x \in Ask \cup Cancel :
            conv[x] = c /\ WillSweep(x) =>
               (conv'[x] = c /\ WillSweep(x)') \/ Watched(c)'
  PROVE  \A c \in convs' : Watched(c)'
  BY DEF Watched

(* A step of somebody who does not change what conversations hold. *)
LEMMA OnTheirWay ==
  ASSUME Tidy, trouble' = trouble, convs' \subseteq convs, conv' = conv,
         answers \subseteq answers', trouble = 0 => RunsAtWork',
         \A y \in Ask \cup Cancel :
            WillSweep(y) /\ conv[y] \in convs' => WillSweep(y)' \/ Watched(conv[y])'
  PROVE  Tidy'
  <1> SUFFICES ASSUME trouble = 0 PROVE \A c \in convs' : Watched(c)'
    BY DEF Tidy
  <1> QED
    BY WatchKept DEF Tidy

(* Whoever ends in an empty conversation sweeps it, or sees one who will. *)
LEMMA TidyKept ==
  ASSUME TypeOK, Rooms, Outcomes, Tidy, [Next]_vars
  PROVE  Tidy'
  <1> USE AskAssumption DEF Actor, Goes, Trouble, Stored, ConvFree, JobFree,
          storeVars, eventVars, TypeOK, Rooms, NotYet, MadeFirst, Outcomes, Concluded,
          DoneIsAnswered, Gone
  <1>1. ASSUME NEW x \in Ask, Submit(x) PROVE Tidy'
    <2> SUFFICES ASSUME trouble = 0 PROVE RunsAtWork' /\ (\A c \in convs' : Watched(c)')
      BY <1>1 DEF Submit, Tidy
    <2>1. RunsAtWork'
      BY <1>1 DEF Submit, RunsAtWork, AtWork, Tidy
    <2>2. \A c \in convs' : c \in convs \/ Watched(c)'
      BY <1>1 DEF Submit, Watched, WillSweep, AtWork
    <2>3. \A c \in convs', a \in answers :
             conv[a] = c => (a \in answers' /\ conv'[a] = c) \/ Watched(c)'
      BY <1>1 DEF Submit
    <2>4. \A c \in convs', y \in Ask \cup Cancel :
             conv[y] = c /\ WillSweep(y) => (conv'[y] = c /\ WillSweep(y)') \/ Watched(c)'
      BY <1>1 DEF Submit, WillSweep, AtWork, Watched
    <2> QED
      BY <2>1, <2>2, <2>3, <2>4, WatchKept DEF Tidy
  <1>2. ASSUME NEW x \in Ask, Lookup(x) PROVE Tidy'
    <2> SUFFICES ASSUME trouble = 0 PROVE RunsAtWork' /\ (\A c \in convs' : Watched(c)')
      BY <1>2 DEF Lookup, Attach, Tidy
    <2>1. RunsAtWork'
      BY <1>2 DEF Lookup, Attach, RunsAtWork, AtWork, Tidy
    <2>2. \A c \in convs' : c \in convs \/ Watched(c)'
      BY <1>2 DEF Lookup, Attach, Watched, WillSweep, AtWork
    <2>3. \A c \in convs', a \in answers :
             conv[a] = c => (a \in answers' /\ conv'[a] = c) \/ Watched(c)'
      BY <1>2 DEF Lookup, Attach
    <2>4. \A c \in convs', y \in Ask \cup Cancel :
             conv[y] = c /\ WillSweep(y) => (conv'[y] = c /\ WillSweep(y)') \/ Watched(c)'
      BY <1>2 DEF Lookup, Attach, WillSweep, AtWork, Watched
    <2> QED
      BY <2>1, <2>2, <2>3, <2>4, WatchKept DEF Tidy
  <1>3. ASSUME NEW x \in Ask, Reread(x) PROVE Tidy'
    <2> SUFFICES ASSUME trouble = 0 PROVE RunsAtWork' /\ (\A c \in convs' : Watched(c)')
      BY <1>3 DEF Reread, Attach, Tidy
    <2>1. RunsAtWork'
      BY <1>3 DEF Reread, Attach, RunsAtWork, AtWork, Tidy
    <2>2. \A c \in convs' : c \in convs \/ Watched(c)'
      BY <1>3 DEF Reread, Attach, Watched, WillSweep, AtWork
    <2>3. \A c \in convs', a \in answers :
             conv[a] = c => (a \in answers' /\ conv'[a] = c) \/ Watched(c)'
      BY <1>3 DEF Reread, Attach
    <2>4. \A c \in convs', y \in Ask \cup Cancel :
             conv[y] = c /\ WillSweep(y) => (conv'[y] = c /\ WillSweep(y)') \/ Watched(c)'
      BY <1>3 DEF Reread, Attach, WillSweep, AtWork, Watched
    <2> QED
      BY <2>1, <2>2, <2>3, <2>4, WatchKept DEF Tidy
  <1>4. ASSUME NEW x \in Ask, EnsureConversation(x) PROVE Tidy'
    <2> SUFFICES ASSUME trouble = 0 PROVE RunsAtWork' /\ (\A c \in convs' : Watched(c)')
      BY <1>4 DEF EnsureConversation, Tidy
    <2>1. RunsAtWork'
      BY <1>4 DEF EnsureConversation, RunsAtWork, AtWork, Tidy
    <2>2. \A c \in convs' : c \in convs \/ Watched(c)'
      BY <1>4 DEF EnsureConversation, Watched, WillSweep, AtWork
    <2>3. \A c \in convs', a \in answers :
             conv[a] = c => (a \in answers' /\ conv'[a] = c) \/ Watched(c)'
      BY <1>4 DEF EnsureConversation
    <2>4. \A c \in convs', y \in Ask \cup Cancel :
             conv[y] = c /\ WillSweep(y) => (conv'[y] = c /\ WillSweep(y)') \/ Watched(c)'
      BY <1>4 DEF EnsureConversation, WillSweep, AtWork, Watched
    <2> QED
      BY <2>1, <2>2, <2>3, <2>4, WatchKept DEF Tidy
  <1>5. ASSUME NEW x \in Ask, InsertJob(x) PROVE Tidy'
    <2> SUFFICES ASSUME trouble = 0 PROVE RunsAtWork' /\ (\A c \in convs' : Watched(c)')
      BY <1>5 DEF InsertJob, Tidy
    <2>1. RunsAtWork'
      BY <1>5 DEF InsertJob, RunsAtWork, AtWork, Tidy
    <2>2. \A c \in convs' : c \in convs \/ Watched(c)'
      BY <1>5 DEF InsertJob, Watched, WillSweep, AtWork
    <2>3. \A c \in convs', a \in answers :
             conv[a] = c => (a \in answers' /\ conv'[a] = c) \/ Watched(c)'
      BY <1>5 DEF InsertJob
    <2>4. \A c \in convs', y \in Ask \cup Cancel :
             conv[y] = c /\ WillSweep(y) => (conv'[y] = c /\ WillSweep(y)') \/ Watched(c)'
      BY <1>5 DEF InsertJob, WillSweep, AtWork, Watched
    <2> QED
      BY <2>1, <2>2, <2>3, <2>4, WatchKept DEF Tidy
  <1>6. ASSUME NEW x \in Ask, InsertCollides(x) PROVE Tidy'
    <2>1. trouble = 0 => RunsAtWork'
      BY <1>6 DEF InsertCollides, RunsAtWork, AtWork, Tidy
    <2>2. \A y \in Ask \cup Cancel :
             WillSweep(y) /\ conv[y] \in convs' => WillSweep(y)' \/ Watched(conv[y])'
      BY <1>6 DEF InsertCollides, WillSweep, AtWork
    <2> QED
      BY <1>6, <2>1, <2>2, OnTheirWay DEF InsertCollides
  <1>7. ASSUME NEW x \in Ask, StartWorker(x) PROVE Tidy'
    <2>1. trouble = 0 => RunsAtWork'
      BY <1>7 DEF StartWorker, RunsAtWork, AtWork, Tidy
    <2>2. \A y \in Ask \cup Cancel :
             WillSweep(y) /\ conv[y] \in convs' => WillSweep(y)' \/ Watched(conv[y])'
      BY <1>7 DEF StartWorker, WillSweep, AtWork
    <2> QED
      BY <1>7, <2>1, <2>2, OnTheirWay DEF StartWorker
  <1>8. ASSUME NEW x \in Ask, StartFails(x) PROVE Tidy'
    BY <1>8 DEF StartFails, Tidy
  <1>9. ASSUME NEW x \in Ask, PrepareTurn(x) PROVE Tidy'
    <2>1. trouble = 0 => RunsAtWork'
      BY <1>9 DEF PrepareTurn, Concludes, RunsAtWork, AtWork, Tidy
    <2>2. \A y \in Ask \cup Cancel :
             WillSweep(y) /\ conv[y] \in convs' => WillSweep(y)' \/ Watched(conv[y])'
      BY <1>9 DEF PrepareTurn, Concludes, WillSweep, AtWork
    <2> QED
      BY <1>9, <2>1, <2>2, OnTheirWay DEF PrepareTurn, Concludes
  <1>10. ASSUME NEW x \in Ask, CheckStillRunning(x) PROVE Tidy'
    <2>1. trouble = 0 => RunsAtWork'
      BY <1>10 DEF CheckStillRunning, Concludes, RunsAtWork, AtWork, Tidy
    <2>2. \A y \in Ask \cup Cancel :
             WillSweep(y) /\ conv[y] \in convs' => WillSweep(y)' \/ Watched(conv[y])'
      BY <1>10 DEF CheckStillRunning, Concludes, WillSweep, AtWork
    <2> QED
      BY <1>10, <2>1, <2>2, OnTheirWay DEF CheckStillRunning, Concludes
  <1>11. ASSUME NEW x \in Ask, Think(x) PROVE Tidy'
    <2>1. trouble = 0 => RunsAtWork'
      BY <1>11 DEF Think, Concludes, RunsAtWork, AtWork, Tidy
    <2>2. \A y \in Ask \cup Cancel :
             WillSweep(y) /\ conv[y] \in convs' => WillSweep(y)' \/ Watched(conv[y])'
      BY <1>11 DEF Think, Concludes, WillSweep, AtWork
    <2> QED
      BY <1>11, <2>1, <2>2, OnTheirWay DEF Think, Concludes
  <1>12. ASSUME NEW x \in Ask, LockJob(x) PROVE Tidy'
    <2>1. trouble = 0 => RunsAtWork'
      BY <1>12 DEF LockJob, Concludes, RunsAtWork, AtWork, Tidy
    <2>2. \A y \in Ask \cup Cancel :
             WillSweep(y) /\ conv[y] \in convs' => WillSweep(y)' \/ Watched(conv[y])'
      BY <1>12 DEF LockJob, Concludes, WillSweep, AtWork
    <2> QED
      BY <1>12, <2>1, <2>2, OnTheirWay DEF LockJob, Concludes
  <1>13. ASSUME NEW x \in Ask, SaveAnswer(x) PROVE Tidy'
    <2>1. trouble = 0 => RunsAtWork'
      BY <1>13 DEF SaveAnswer, Concludes, RunsAtWork, AtWork, Tidy
    <2>2. \A y \in Ask \cup Cancel :
             WillSweep(y) /\ conv[y] \in convs' => WillSweep(y)' \/ Watched(conv[y])'
      BY <1>13 DEF SaveAnswer, Concludes, WillSweep, AtWork, Watched
    <2> QED
      BY <1>13, <2>1, <2>2, OnTheirWay DEF SaveAnswer, Concludes
  <1>14. ASSUME NEW x \in Ask, FinishJob(x) PROVE Tidy'
    <2>1. trouble = 0 => RunsAtWork'
      BY <1>14 DEF FinishJob, Finished, StatusFor, RunsAtWork, AtWork, Tidy
    <2>2. \A y \in Ask \cup Cancel :
             WillSweep(y) /\ conv[y] \in convs' => WillSweep(y)' \/ Watched(conv[y])'
      BY <1>14 DEF FinishJob, Finished, StatusFor, WillSweep, AtWork
    <2> QED
      BY <1>14, <2>1, <2>2, OnTheirWay DEF FinishJob, Finished, StatusFor
  <1>15. ASSUME NEW x \in Ask, Unregister(x) PROVE Tidy'
    <2>1. trouble = 0 => RunsAtWork'
      BY <1>15 DEF Unregister, RunsAtWork, AtWork, Tidy
    <2>2. \A y \in Ask \cup Cancel :
             WillSweep(y) /\ conv[y] \in convs' => WillSweep(y)' \/ Watched(conv[y])'
      BY <1>15 DEF Unregister, WillSweep, AtWork
    <2> QED
      BY <1>15, <2>1, <2>2, OnTheirWay DEF Unregister
  <1>16. ASSUME NEW x \in Ask, FinishRaises(x) PROVE Tidy'
    BY <1>16 DEF FinishRaises, Tidy
  <1>17. ASSUME NEW x \in Ask \cup Cancel, LockForCleanup(x) PROVE Tidy'
    <2>1. trouble = 0 => RunsAtWork'
      BY <1>17 DEF LockForCleanup, RunsAtWork, AtWork, Tidy
    <2>2. \A y \in Ask \cup Cancel :
             WillSweep(y) /\ conv[y] \in convs' => WillSweep(y)' \/ Watched(conv[y])'
      BY <1>17 DEF LockForCleanup, WillSweep, AtWork
    <2> QED
      BY <1>17, <2>1, <2>2, OnTheirWay DEF LockForCleanup
  <1>18. ASSUME NEW x \in Ask \cup Cancel, Cleanup(x) PROVE Tidy'
    <2>1. trouble = 0 => RunsAtWork'
      BY <1>18 DEF Cleanup, RunsAtWork, AtWork, Tidy
    <2>2. /\ at' = [at EXCEPT ![x] = "ended"] /\ at[x] = "sweeping"
          /\ UNCHANGED <<conv, job, answers, ending, trouble>> /\ convs' \subseteq convs
          /\ conv[x] \in convs' => InUse(conv[x])
      BY <1>18 DEF Cleanup
    <2>3. ASSUME trouble = 0, conv[x] \in convs' PROVE Watched(conv[x])'
      <3>1. PICK a \in Ask : conv[a] = conv[x] /\ of[a] = a /\ (a \in answers \/ job[a] = "running")
        BY <2>2, <2>3 DEF InUse
      <3>2. CASE a \in answers
        BY <2>2, <3>1, <3>2 DEF Watched
      <3>3. CASE job[a] = "running"
        <4>1. at[a] \in AtWork \cup {"finishing"} /\ ending[a] # "final"
          BY <2>3, <3>1, <3>3 DEF Tidy, RunsAtWork
        <4>2. at'[a] = at[a]
          BY <2>2, <4>1 DEF AtWork
        <4>3. WillSweep(a)'
          BY <2>2, <4>1, <4>2 DEF WillSweep
        <4> QED
          BY <2>2, <3>1, <4>3 DEF Watched
      <3> QED
        BY <3>1, <3>2, <3>3
    <2>4. \A y \in Ask \cup Cancel : y # x /\ WillSweep(y) => WillSweep(y)'
      BY <2>2 DEF WillSweep
    <2>5. CASE trouble = 0
      BY <2>1, <2>2, <2>3, <2>4, <2>5, OnTheirWay
    <2>6. CASE trouble # 0
      BY <2>2, <2>6 DEF Tidy
    <2> QED
      BY <2>5, <2>6
  <1>19. ASSUME NEW x \in Ask, Follow(x) PROVE Tidy'
    <2>1. trouble = 0 => RunsAtWork'
      BY <1>19 DEF Follow, Ends, RunsAtWork, AtWork, Tidy
    <2>2. \A y \in Ask \cup Cancel :
             WillSweep(y) /\ conv[y] \in convs' => WillSweep(y)' \/ Watched(conv[y])'
      BY <1>19 DEF Follow, Ends, WillSweep, AtWork
    <2> QED
      BY <1>19, <2>1, <2>2, OnTheirWay DEF Follow, Ends
  <1>20. ASSUME NEW x \in Ask, FetchAnswer(x) PROVE Tidy'
    <2>1. trouble = 0 => RunsAtWork'
      BY <1>20 DEF FetchAnswer, Ends, RunsAtWork, AtWork, Tidy
    <2>2. \A y \in Ask \cup Cancel :
             WillSweep(y) /\ conv[y] \in convs' => WillSweep(y)' \/ Watched(conv[y])'
      BY <1>20 DEF FetchAnswer, Ends, WillSweep, AtWork
    <2> QED
      BY <1>20, <2>1, <2>2, OnTheirWay DEF FetchAnswer, Ends
  <1>21. ASSUME NEW x \in Ask, StopFollowing(x) PROVE Tidy'
    <2>1. trouble = 0 => RunsAtWork'
      BY <1>21 DEF StopFollowing, RunsAtWork, AtWork, Tidy
    <2>2. \A y \in Ask \cup Cancel :
             WillSweep(y) /\ conv[y] \in convs' => WillSweep(y)' \/ Watched(conv[y])'
      BY <1>21 DEF StopFollowing, WillSweep, AtWork
    <2> QED
      BY <1>21, <2>1, <2>2, OnTheirWay DEF StopFollowing
  <1>22. ASSUME NEW x \in Cancel, CancelRow(x) PROVE Tidy'
    <2> SUFFICES ASSUME trouble = 0 PROVE RunsAtWork' /\ (\A c \in convs' : Watched(c)')
      BY <1>22 DEF CancelRow, Tidy
    <2>1. RunsAtWork'
      BY <1>22 DEF CancelRow, RunsAtWork, AtWork, Tidy
    <2>2. \A c \in convs' : c \in convs \/ Watched(c)'
      BY <1>22 DEF CancelRow, Watched, WillSweep, AtWork
    <2>3. \A c \in convs', a \in answers :
             conv[a] = c => (a \in answers' /\ conv'[a] = c) \/ Watched(c)'
      BY <1>22 DEF CancelRow
    <2>4. \A c \in convs', y \in Ask \cup Cancel :
             conv[y] = c /\ WillSweep(y) => (conv'[y] = c /\ WillSweep(y)') \/ Watched(c)'
      BY <1>22 DEF CancelRow, WillSweep, AtWork, Watched
    <2> QED
      BY <2>1, <2>2, <2>3, <2>4, WatchKept DEF Tidy
  <1>23. ASSUME NEW x \in Cancel, Signal(x) PROVE Tidy'
    <2>1. trouble = 0 => RunsAtWork'
      BY <1>23 DEF Signal, RunsAtWork, AtWork, Tidy
    <2>2. \A y \in Ask \cup Cancel :
             WillSweep(y) /\ conv[y] \in convs' => WillSweep(y)' \/ Watched(conv[y])'
      BY <1>23 DEF Signal, WillSweep, AtWork
    <2> QED
      BY <1>23, <2>1, <2>2, OnTheirWay DEF Signal
  <1>24. ASSUME NEW x \in Delete, LockForDeletion(x) PROVE Tidy'
    <2> SUFFICES ASSUME trouble = 0 PROVE RunsAtWork' /\ (\A c \in convs' : Watched(c)')
      BY <1>24 DEF LockForDeletion, Tidy
    <2>1. RunsAtWork'
      BY <1>24 DEF LockForDeletion, RunsAtWork, AtWork, Tidy
    <2>2. \A c \in convs' : c \in convs \/ Watched(c)'
      BY <1>24 DEF LockForDeletion, Watched, WillSweep, AtWork
    <2>3. \A c \in convs', a \in answers :
             conv[a] = c => (a \in answers' /\ conv'[a] = c) \/ Watched(c)'
      BY <1>24 DEF LockForDeletion
    <2>4. \A c \in convs', y \in Ask \cup Cancel :
             conv[y] = c /\ WillSweep(y) => (conv'[y] = c /\ WillSweep(y)') \/ Watched(c)'
      BY <1>24 DEF LockForDeletion, WillSweep, AtWork, Watched
    <2> QED
      BY <2>1, <2>2, <2>3, <2>4, WatchKept DEF Tidy
  <1>25. ASSUME NEW x \in Delete, RemoveConversation(x) PROVE Tidy'
    <2> SUFFICES ASSUME trouble = 0 PROVE RunsAtWork' /\ (\A c \in convs' : Watched(c)')
      BY <1>25 DEF RemoveConversation, Removes, Tidy
    <2>1. RunsAtWork'
      BY <1>25 DEF RemoveConversation, Removes, RunsAtWork, AtWork, Tidy
    <2>2. \A c \in convs' : c \in convs \/ Watched(c)'
      BY <1>25 DEF RemoveConversation, Removes, Watched, WillSweep, AtWork
    <2>3. \A c \in convs', a \in answers :
             conv[a] = c => (a \in answers' /\ conv'[a] = c) \/ Watched(c)'
      <3> DEFINE gone == JobsIn(conv[x])
      <3>1. \/ answers' = answers /\ convs' = convs
            \/ answers' = answers \ gone /\ convs' = convs \ {conv[x]}
        BY <1>25 DEF RemoveConversation, Removes
      <3>2. conv' = conv
        BY <1>25 DEF RemoveConversation, Removes
      <3>3. \A a \in gone : conv[a] = conv[x]
        BY DEF JobsIn
      <3> HIDE DEF gone
      <3> QED
        BY <3>1, <3>2, <3>3
    <2>4. /\ conv' = conv /\ ending' = ending
          /\ \A y \in Ask \cup Cancel : at'[y] = at[y]
      BY <1>25 DEF RemoveConversation, Removes
    <2>5. \A y \in Ask \cup Cancel : WillSweep(y) => WillSweep(y)'
      BY <2>4 DEF WillSweep
    <2> QED
      BY <2>1, <2>2, <2>3, <2>4, <2>5, WatchKept DEF Tidy
  <1>26. CASE Restart
    BY <1>26 DEF Restart, Tidy
  <1>27. CASE UNCHANGED vars
    BY <1>27 DEF vars, Tidy, RunsAtWork, Watched, WillSweep
  <1> QED
    BY <1>1, <1>2, <1>3, <1>4, <1>5, <1>6, <1>7, <1>8, <1>9, <1>10, <1>11,
       <1>12, <1>13, <1>14, <1>15, <1>16, <1>17, <1>18, <1>19, <1>20, <1>21,
       <1>22, <1>23, <1>24, <1>25, <1>26, <1>27 DEF Next, AskStep,
       RequestStep, WorkerStep, CleanupStep, FollowerStep, CancelStep

-----------------------------------------------------------------------------
(***************************************************************************)
(* The invariant holds initially and is kept by every step.                *)
(***************************************************************************)
LEMMA AskInvHolds == Spec => []AskInv
  <1>1. Init => AskInv
    <2> SUFFICES ASSUME Init PROVE AskInv
      OBVIOUS
    <2> USE AskAssumption DEF Init, Actor
    <2>1. TypeOK
      BY DEF TypeOK, Points
    <2>2. Rooms
      BY DEF Rooms, NotYet, MadeFirst, OneHolder, FoundOrOwn, Held
    <2>3. OneJobPerKey /\ ConversationKept
      BY DEF OneJobPerKey, ConversationKept
    <2>4. Outcomes
      BY DEF Outcomes, WorksOnRunning, SignalledLate, Concluded, Unregistered, FollowsOther,
             DoneIsAnswered
    <2>5. Tidy
      BY DEF Tidy, RunsAtWork
    <2> QED
      BY <2>1, <2>2, <2>3, <2>4, <2>5 DEF AskInv
  <1>2. AskInv /\ [Next]_vars => AskInv'
    BY TypesKept, RoomsKept, KeysKept, ConversationsKept, OutcomesKept, TidyKept
    DEF AskInv, Outcomes
  <1> QED
    BY <1>1, <1>2, PTL DEF Spec

(***************************************************************************)
(* The variables keep their types: actors are at points of their code and  *)
(* rows have statuses.                                                     *)
(***************************************************************************)
THEOREM AskTypeCorrect == Spec => []TypeOK
  <1>1. AskInv => TypeOK
    BY DEF AskInv
  <1> QED
    BY <1>1, AskInvHolds, PTL

(***************************************************************************)
(* One key has one job, however many submissions of it race.               *)
(***************************************************************************)
THEOREM KeyHasOneJob == Spec => []OneJobPerKey
  <1>1. AskInv => OneJobPerKey
    BY DEF AskInv
  <1> QED
    BY <1>1, AskInvHolds, PTL

(***************************************************************************)
(* The conversation of a running job or of an answer is there.             *)
(***************************************************************************)
THEOREM ConversationsStay == Spec => []ConversationKept
  <1>1. AskInv => ConversationKept
    BY DEF AskInv
  <1> QED
    BY <1>1, AskInvHolds, PTL

(***************************************************************************)
(* Every ending agrees with the row of the job: done exactly if answered,  *)
(* never an answer after an acknowledged cancel.                           *)
(***************************************************************************)
THEOREM EndingsAreTrue == Spec => []EndingIsTrue
  <1>1. AskInv => EndingIsTrue
    BY DEF AskInv, Outcomes, Concluded, Unregistered, DoneIsAnswered, EndingIsTrue, Gone
  <1> QED
    BY <1>1, AskInvHolds, PTL

(***************************************************************************)
(* When nobody is at work and nothing has failed, every conversation has   *)
(* an answer, however many questions ended in it at once.                  *)
(***************************************************************************)
THEOREM NothingStaysEmpty == Spec => []NothingLeftEmpty
  <1>1. AskInv => NothingLeftEmpty
    BY DEF AskInv, Tidy, Watched, WillSweep, AtWork, AtRest, NothingLeftEmpty, Actor
  <1> QED
    BY <1>1, AskInvHolds, PTL
=============================================================================
