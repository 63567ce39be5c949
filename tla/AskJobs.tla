------------------------------ MODULE AskJobs ------------------------------
(***************************************************************************)
(* Questions asked in one notebook: a durable job for each submission, the *)
(* worker that runs it detached from its connection, the submissions that  *)
(* repeat a client's key and follow the job that is there, the explicit    *)
(* cancel, the deletion of conversations, and the restart of the process.  *)
(*                                                                         *)
(* The store is the PostgreSQL one, statement by statement: a step that    *)
(* ends in the middle of a transaction keeps its row locks, and what it    *)
(* has not committed nobody sees.  In SQLite these transactions exclude    *)
(* each other, so its behaviours are among these.                          *)
(***************************************************************************)
EXTENDS Naturals

CONSTANTS
    Ask,        \* submissions; the job one makes and the conversation it opens are named after it
    Cancel,     \* calls of the cancel endpoint
    Delete,     \* deletions of a conversation
    Key, NoKey, \* client_request_id
    None,
    MaxTrouble  \* restarts and failed statements in a behaviour

Actor == Ask \cup Cancel \cup Delete

ASSUME AskAssumption ==
    /\ Ask \cap Cancel = {} /\ Ask \cap Delete = {} /\ Cancel \cap Delete = {}
    /\ None \notin Ask /\ NoKey \notin Key
    /\ MaxTrouble \in Nat

VARIABLES
    key,        \* key[a]: the client_request_id of a submission
    at,         \* at[x]: what x does next
    of,         \* of[x]: the job a submission made or follows, a cancel is about
    conv,       \* conv[x]: the conversation of the job, of the cleanup, of the deletion
    job,        \* job[a]: the status of the row of the job of a
    convs,      \* the rows of conversations
    answers,    \* the jobs whose answer has a row
    registry,   \* the jobs in the AskCancellationRegistry
    signalled,  \* the jobs whose cancel event is set
    ending,     \* ending[a]: what the stream of a is told, or will be
    trouble

storeVars == <<job, convs, answers>>
eventVars == <<registry, signalled>>
vars == <<key, at, of, conv, job, convs, answers, registry, signalled, ending, trouble>>

Terminal == {"done", "cancelled", "failed", "interrupted"}
Endings == {"final", "cancelled", "error"}

Held == {"inserting", "prepared", "sweeping", "removing"}
Requesting == {"looking", "ensuring", "inserting", "rereading", "registering"}
Executing == {"preparing", "prepared", "thinking", "saving", "answering",
              "finishing", "unregistering", "tidying", "sweeping"}
Points == Requesting \cup Executing \cup Held
            \cup {"new", "following", "fetching", "signalling", "ended"}

TypeOK ==
    /\ key \in [Ask -> Key \cup {NoKey}]
    /\ at \in [Actor -> Points]
    /\ of \in [Actor -> Ask \cup {None}] /\ conv \in [Actor -> Ask \cup {None}]
    /\ job \in [Ask -> Terminal \cup {"none", "running", "deleted"}]
    /\ convs \subseteq Ask /\ answers \subseteq Ask
    /\ registry \subseteq Ask /\ signalled \subseteq Ask
    /\ ending \in [Ask -> Endings \cup {"none"}]
    /\ trouble \in 0 .. MaxTrouble

Init ==
    /\ key = [a \in Ask |-> NoKey]
    /\ at = [x \in Actor |-> "new"]
    /\ of = [x \in Actor |-> None] /\ conv = [x \in Actor |-> None]
    /\ job = [a \in Ask |-> "none"] /\ convs = {} /\ answers = {}
    /\ registry = {} /\ signalled = {}
    /\ ending = [a \in Ask |-> "none"] /\ trouble = 0

Goes(x, from, to) == at[x] = from /\ at' = [at EXCEPT ![x] = to]
Trouble == trouble < MaxTrouble /\ trouble' = trouble + 1

Stored(a) == job[a] \notin {"none", "deleted"}
Made(k) == {a \in Ask : key[a] = k /\ k # NoKey /\ Stored(a)}

(* Row locks: in the midst of its transaction x holds the row of its        *)
(* conversation, and a worker that saves its answer the row of its job.     *)
ConvFree(c) == \A x \in Actor : ~(at[x] \in Held /\ conv[x] = c)
JobFree(a) == at[a] # "answering"

-----------------------------------------------------------------------------
(* The request: attach to the job of the key, or make one *)

Submit(a) ==
    /\ \E c \in convs \cup {None} : conv' = [conv EXCEPT ![a] = c]
    /\ \E k \in Key \cup {NoKey} :
         /\ key' = [key EXCEPT ![a] = k]
         /\ Goes(a, "new", IF k = NoKey THEN "ensuring" ELSE "looking")
    /\ UNCHANGED <<of, storeVars, eventVars, ending, trouble>>

(* A read of the committed rows of the key, in the transaction or after a   *)
(* violation of the unique index.  The earlier ones, of attach_existing,    *)
(* find the job or come to the same lookup.                                 *)
Attach(a, from, otherwise) ==
    /\ at[a] = from
    /\ \/ \E b \in Made(key[a]) :
            /\ of' = [of EXCEPT ![a] = b] /\ conv' = [conv EXCEPT ![a] = conv[b]]
            /\ at' = [at EXCEPT ![a] = "following"]
       \/ /\ Made(key[a]) = {}
          /\ UNCHANGED <<of, conv>>
          /\ at' = [at EXCEPT ![a] = otherwise]
    /\ UNCHANGED <<key, storeVars, eventVars, ending, trouble>>

Lookup(a) == Attach(a, "looking", "ensuring")
(* None is there any more: the violation is raised to the client. *)
Reread(a) == Attach(a, "rereading", "ended")

(* Faulty: without FOR UPDATE, a conversation that is being deleted is seen. *)
FaultyEnsureConversation(a) ==
    /\ conv' = [conv EXCEPT ![a] = IF @ \in convs THEN @ ELSE a]
    /\ Goes(a, "ensuring", "inserting")
    /\ UNCHANGED <<key, of, storeVars, eventVars, ending, trouble>>

EnsureConversation(a) ==
    /\ ConvFree(conv[a])
    /\ conv' = [conv EXCEPT ![a] = IF @ \in convs THEN @ ELSE a]
    /\ Goes(a, "ensuring", "inserting")
    /\ UNCHANGED <<key, of, storeVars, eventVars, ending, trouble>>

(* Faulty: no unique index behind the lookup. *)
FaultyKeyTaken(a) == FALSE

(* idx_ask_jobs_client_request *)
KeyTaken(a) == Made(key[a]) # {}

InsertJob(a) ==
    /\ ~KeyTaken(a)
    /\ job' = [job EXCEPT ![a] = "running"]
    /\ convs' = IF conv[a] = a THEN convs \cup {a} ELSE convs
    /\ of' = [of EXCEPT ![a] = a]
    /\ Goes(a, "inserting", "registering")
    /\ UNCHANGED <<key, conv, answers, eventVars, ending, trouble>>

InsertCollides(a) ==
    /\ KeyTaken(a)
    /\ Goes(a, "inserting", "rereading")
    /\ UNCHANGED <<key, of, conv, storeVars, eventVars, ending, trouble>>

(* The registry, the started event, and the thread of the worker *)
StartWorker(a) ==
    /\ registry' = registry \cup {a}
    /\ Goes(a, "registering", "preparing")
    /\ UNCHANGED <<key, of, conv, storeVars, signalled, ending, trouble>>

(* No thread: the job fails and the client gets the exception. *)
StartFails(a) ==
    /\ Trouble
    /\ registry' = registry \cup {a}
    /\ Goes(a, "registering", "finishing")
    /\ ending' = [ending EXCEPT ![a] = "error"]
    /\ UNCHANGED <<key, of, conv, storeVars, signalled>>

-----------------------------------------------------------------------------
(* The worker *)

(* What it has come to: _finish, then the terminal event *)
Concludes(a, from, how) ==
    /\ Goes(a, from, "finishing")
    /\ ending' = [ending EXCEPT ![a] = how]

(* prepare_turn_for_job: the conversation is locked, the job only read. *)
PrepareTurn(a) ==
    /\ ConvFree(conv[a])
    /\ IF conv[a] \in convs
       THEN Goes(a, "preparing", "prepared") /\ UNCHANGED ending
       ELSE Concludes(a, "preparing", "cancelled")
    /\ UNCHANGED <<key, of, conv, storeVars, eventVars, trouble>>

CheckStillRunning(a) ==
    /\ IF job[a] = "running"
       THEN Goes(a, "prepared", "thinking") /\ UNCHANGED ending
       ELSE Concludes(a, "prepared", "cancelled")
    /\ UNCHANGED <<key, of, conv, storeVars, eventVars, trouble>>

Think(a) ==
    /\ \/ Goes(a, "thinking", "saving") /\ UNCHANGED ending
       \/ Concludes(a, "thinking", "error")
       \/ a \in signalled /\ Concludes(a, "thinking", "cancelled")
    /\ UNCHANGED <<key, of, conv, storeVars, eventVars, trouble>>

(* save_answer_for_job: the job is locked, then its conversation. *)
LockJob(a) ==
    /\ CASE job[a] = "running" -> Goes(a, "saving", "answering") /\ UNCHANGED ending
         [] Stored(a) /\ job[a] # "running" -> Concludes(a, "saving", "cancelled")
         [] OTHER -> Concludes(a, "saving", "error")
    /\ UNCHANGED <<key, of, conv, storeVars, eventVars, trouble>>

SaveAnswer(a) ==
    /\ ConvFree(conv[a])
    /\ IF conv[a] \in convs
       THEN /\ answers' = answers \cup {a}
            /\ job' = [job EXCEPT ![a] = "done"]
            /\ Concludes(a, "answering", "final")
       ELSE /\ Concludes(a, "answering", "error")
            /\ UNCHANGED <<job, answers>>
    /\ UNCHANGED <<key, of, conv, convs, eventVars, trouble>>

-----------------------------------------------------------------------------
(* _finish: the row if it still runs, the registry, the empty conversation; *)
(* then the terminal event and the sentinel end the stream                  *)

StatusFor(how) ==
    CASE how = "final" -> "done" [] how = "cancelled" -> "cancelled" [] OTHER -> "failed"

(* Faulty: the status that is there is not compared. *)
FaultyFinished(a) ==
    IF Stored(a) THEN [job EXCEPT ![a] = StatusFor(ending[a])] ELSE job

Finished(a) ==
    IF job[a] = "running" THEN [job EXCEPT ![a] = StatusFor(ending[a])] ELSE job

FinishJob(a) ==
    /\ job' = Finished(a)
    /\ Goes(a, "finishing", "unregistering")
    /\ UNCHANGED <<key, of, conv, convs, answers, eventVars, ending, trouble>>

(* A row that was deleted meanwhile has taken its conversation along. *)
Unregister(a) ==
    /\ registry' = registry \ {a}
    /\ Goes(a, "unregistering", IF ending[a] = "final" THEN "ended" ELSE "tidying")
    /\ UNCHANGED <<key, of, conv, storeVars, signalled, ending, trouble>>

(* A statement of _finish raises.  After the answer the worker goes through *)
(* the handler of failures; inside a handler only the sentinel follows.     *)
FinishRaises(a) ==
    /\ Trouble
    /\ at[a] \in {"finishing", "tidying"}
    /\ IF ending[a] = "final"
       THEN /\ ending' = [ending EXCEPT ![a] = "error"] /\ UNCHANGED at
       ELSE /\ ending' = [ending EXCEPT ![a] = "none"]
            /\ at' = [at EXCEPT ![a] = "ended"]
    /\ UNCHANGED <<key, of, conv, storeVars, eventVars>>

(* cleanup_empty_conversation *)
LockForCleanup(x) ==
    /\ ConvFree(conv[x])
    /\ Goes(x, "tidying", IF conv[x] \in convs THEN "sweeping" ELSE "ended")
    /\ UNCHANGED <<key, of, conv, storeVars, eventVars, ending, trouble>>

(* Faulty: a job that has ended still counts. *)
FaultyInUse(c) == \E a \in Ask : conv[a] = c /\ Stored(a) /\ of[a] = a

InUse(c) ==
    \E a \in Ask : conv[a] = c /\ of[a] = a /\ (a \in answers \/ job[a] = "running")

Cleanup(x) ==
    /\ convs' = IF InUse(conv[x]) THEN convs ELSE convs \ {conv[x]}
    /\ Goes(x, "sweeping", "ended")
    /\ UNCHANGED <<key, of, conv, job, answers, eventVars, ending, trouble>>

-----------------------------------------------------------------------------
(* _follow: what the row of another submission's job says *)

Ends(a, how) ==
    /\ at' = [at EXCEPT ![a] = "ended"]
    /\ ending' = [ending EXCEPT ![a] = how]

Follow(a) ==
    /\ at[a] = "following"
    /\ LET status == job[of[a]] IN
         /\ status # "running"
         /\ CASE status = "done" -> at' = [at EXCEPT ![a] = "fetching"] /\ UNCHANGED ending
              [] status = "cancelled" -> Ends(a, "cancelled")
              [] OTHER -> Ends(a, "error")
    /\ UNCHANGED <<key, of, conv, storeVars, eventVars, trouble>>

FetchAnswer(a) ==
    /\ at[a] = "fetching"
    /\ Ends(a, IF of[a] \in answers THEN "final" ELSE "error")
    /\ UNCHANGED <<key, of, conv, storeVars, eventVars, trouble>>

(* The connection is closed; a worker would not care. *)
StopFollowing(a) ==
    /\ Goes(a, "following", "ended")
    /\ UNCHANGED <<key, of, conv, storeVars, eventVars, ending, trouble>>

-----------------------------------------------------------------------------
(* The cancel endpoint *)

CancelRow(x) ==
    /\ at[x] = "new"
    /\ \E a \in Ask :
         /\ Stored(a) /\ JobFree(a)
         /\ IF job[a] = "running"
            THEN /\ job' = [job EXCEPT ![a] = "cancelled"]
                 /\ of' = [of EXCEPT ![x] = a] /\ conv' = [conv EXCEPT ![x] = conv[a]]
                 /\ at' = [at EXCEPT ![x] = "signalling"]
            ELSE /\ at' = [at EXCEPT ![x] = "ended"] /\ UNCHANGED <<job, of, conv>>
    /\ UNCHANGED <<key, convs, answers, eventVars, ending, trouble>>

Signal(x) ==
    /\ Goes(x, "signalling", "tidying")
    /\ signalled' = IF of[x] \in registry THEN signalled \cup {of[x]} ELSE signalled
    /\ UNCHANGED <<key, of, conv, storeVars, registry, ending, trouble>>

-----------------------------------------------------------------------------
(* delete_conversation *)

LockForDeletion(x) ==
    /\ at[x] = "new"
    /\ \E c \in convs :
         /\ ConvFree(c)
         /\ conv' = [conv EXCEPT ![x] = c]
         /\ at' = [at EXCEPT ![x] = "removing"]
    /\ UNCHANGED <<key, of, storeVars, eventVars, ending, trouble>>

JobsIn(c) == {a \in Ask : conv[a] = c /\ of[a] = a /\ Stored(a)}

Removes(x) ==
    /\ Goes(x, "removing", "ended")
    /\ LET gone == JobsIn(conv[x]) IN
         IF \E a \in gone : job[a] = "running"
         THEN UNCHANGED storeVars
         ELSE /\ job' = [a \in Ask |-> IF a \in gone THEN "deleted" ELSE job[a]]
              /\ answers' = answers \ gone
              /\ convs' = convs \ {conv[x]}
    /\ UNCHANGED <<key, of, conv, eventVars, ending, trouble>>

(* Faulty: the jobs are locked after their conversation. *)
FaultyRemoveConversation(x) == Removes(x) /\ \A a \in JobsIn(conv[x]) : JobFree(a)

RemoveConversation(x) == Removes(x)

-----------------------------------------------------------------------------
(* The process ends and starts again; before it serves, it settles what it  *)
(* finds running, unless that statement fails.                              *)
Restart ==
    /\ Trouble
    /\ at' = [x \in Actor |-> IF at[x] = "new" THEN "new" ELSE "ended"]
    /\ ending' = [a \in Ask |-> IF at[a] = "ended" THEN ending[a] ELSE "none"]
    /\ \/ job' = [a \in Ask |-> IF job[a] = "running" THEN "interrupted" ELSE job[a]]
       \/ job' = job
    /\ registry' = {} /\ signalled' = {}
    /\ UNCHANGED <<key, of, conv, convs, answers>>

RequestStep(a) ==
    \/ Lookup(a) \/ EnsureConversation(a) \/ InsertJob(a) \/ InsertCollides(a)
    \/ Reread(a) \/ StartWorker(a)

WorkerStep(a) ==
    \/ PrepareTurn(a) \/ CheckStillRunning(a) \/ Think(a) \/ LockJob(a) \/ SaveAnswer(a)
    \/ FinishJob(a) \/ Unregister(a)

CleanupStep(x) == LockForCleanup(x) \/ Cleanup(x)
FollowerStep(a) == Follow(a) \/ FetchAnswer(a)

AskStep(a) == RequestStep(a) \/ WorkerStep(a) \/ CleanupStep(a) \/ FollowerStep(a)
CancelStep(x) == Signal(x) \/ CleanupStep(x)

Next ==
    \/ \E a \in Ask :
         Submit(a) \/ AskStep(a) \/ StartFails(a) \/ FinishRaises(a) \/ StopFollowing(a)
    \/ \E x \in Cancel : CancelRow(x) \/ CancelStep(x)
    \/ \E x \in Delete : LockForDeletion(x) \/ RemoveConversation(x)
    \/ Restart

Spec == Init /\ [][Next]_vars

(* Threads go on, engines end, and transactions that have begun end. *)
FairSpec ==
    /\ Spec
    /\ \A a \in Ask : WF_vars(AskStep(a))
    /\ \A x \in Cancel : WF_vars(CancelStep(x))
    /\ \A x \in Delete : WF_vars(RemoveConversation(x))

-----------------------------------------------------------------------------
(* Properties *)

(***************************************************************************)
(* One key has one job, however many submissions of it look, miss it and   *)
(* insert at the same time; and whoever repeats the key follows that job.  *)
(***************************************************************************)
OneJobPerKey ==
    /\ \A a, b \in Ask : a # b /\ key[a] = key[b] /\ key[a] # NoKey => ~(Stored(a) /\ Stored(b))
    /\ \A a \in Ask : at[a] \in {"following", "fetching"} => key[of[a]] = key[a]

(***************************************************************************)
(* The conversation of a running job or of an answer is there: no cleanup  *)
(* of a cancelled question and no deletion takes it away from a question   *)
(* that is just being asked or answered in it.                             *)
(***************************************************************************)
ConversationKept ==
    \A a \in Ask : job[a] = "running" \/ a \in answers => conv[a] \in convs

(***************************************************************************)
(* A job is done exactly if its answer is stored, so a cancel that was     *)
(* acknowledged leaves none; a stream, of the worker or of a follower,     *)
(* that tells `final' or `cancelled' tells what the row says (an `error'   *)
(* may also be the stream's own, and is compared with nothing); and no end *)
(* is told while its job is registered.                                    *)
(***************************************************************************)
EndingIsTrue ==
    /\ answers = {a \in Ask : job[a] = "done"}
    /\ \A a \in Ask : at[a] = "ended" =>
         /\ ending[a] = "final" => job[of[a]] \in {"done", "deleted"}
         /\ ending[a] = "cancelled" => job[of[a]] \in {"cancelled", "deleted"}
         /\ of[a] = a /\ ending[a] # "none" => a \notin registry

AtRest == \A x \in Actor : at[x] \in {"new", "ended"}

(***************************************************************************)
(* When nobody is at work no conversation is left without an answer: of    *)
(* two questions that end in it at once, the last one sees that it is      *)
(* empty.  Restarts and failed statements may leave one.                   *)
(***************************************************************************)
NothingLeftEmpty ==
    AtRest /\ trouble = 0 => \A c \in convs : \E a \in answers : conv[a] = c

(* A row that a failed statement or a failed recovery left running *)
Orphaned(b) == job[b] = "running" /\ at[b] = "ended"

(***************************************************************************)
(* Every stream comes to its end, that of a follower too, also after a     *)
(* restart, unless it follows a row that nobody will end; the locks of     *)
(* answers, cleanups and deletions never wait for one another in a circle. *)
(***************************************************************************)
StreamsEnd ==
    \A a \in Ask :
        at[a] # "new" ~> at[a] = "ended" \/ (at[a] = "following" /\ Orphaned(of[a]))
=============================================================================
