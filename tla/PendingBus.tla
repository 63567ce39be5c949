----------------------------- MODULE PendingBus -----------------------------
(***************************************************************************)
(* The pending-actions bell of one user: PendingBus and the connections of *)
(* me_pending_stream.                                                      *)
(*                                                                         *)
(* Jobs commit changes on their threads, then recompute a snapshot there   *)
(* and hand it to the event loop, which copies it into the queue of every  *)
(* connection; a connection shows a first snapshot of its own and then the *)
(* queued ones that carry a higher number.  A snapshot is put together     *)
(* from several separate reads, its parts, and another thread may commit   *)
(* between two of them.                                                    *)
(*                                                                         *)
(* Bound: MaxChanges limits the changes a job makes before it finishes.    *)
(***************************************************************************)
EXTENDS Naturals, Sequences, FiniteSets

CONSTANTS
    Jobs,        \* threads that change what the bell shows
    Conns,       \* connections, each used once; a reconnection is another one
    Events,      \* transient events (index_done, ...), each emitted once
    NoEvent,
    Parts,       \* what pending_actions reads separately
    Missing,     \* in place of a part that was not read
    MaxChanges

ASSUME BusAssumption ==
    /\ IsFiniteSet(Conns)
    /\ Jobs \cap Conns = {}
    /\ NoEvent \notin Events
    /\ Missing \notin Nat
    /\ MaxChanges \in Nat

Readers == Jobs \cup Conns

VARIABLES
    world,       \* world[k]: the committed version of part k
    bound,       \* _loop is set
    subscribers, \* _subscribers of the user
    recent,      \* the last publication is inside the throttling window
    lastNumber,  \* _snapshot_seq of the user
    calls,       \* callbacks handed to the loop and not run
    buffer,      \* _buffer of the user
    expired,     \* events that outlived the ttl in the buffer (history)
    stage,       \* where each reader is
    number,      \* the number its snapshot carries; of a connection, last_seq
    left,        \* the parts it has still to read
    seen,        \* what it has read; of a connection, what it shows
    running,     \* jobs between their first and their last change
    throttled,   \* jobs inside mark_dirty_throttled
    failed,      \* the highest number whose snapshot was never made (history)
    queue,       \* queue[c]: the queue of connection c
    replay,      \* replay[c]: flushed events c has still to show
    shown,       \* shown[c]: the events c has shown, in order
    emitting     \* emitting[e]: how far the emission of e has come

busVars  == <<world, bound, subscribers, recent, lastNumber, calls, buffer, expired, failed>>
readVars == <<stage, number, left, seen>>
jobVars  == <<running, throttled>>
connVars == <<queue, replay, shown>>
pendingVars == <<busVars, readVars, jobVars, connVars, emitting>>

Stages == {"idle", "changed", "look", "window", "numbering", "reading",
           "new", "opening", "registered", "listening", "closed"}

(* Connections whose queue is registered. *)
Open == {c \in Conns : stage[c] \in {"registered", "reading", "listening"}}

Versions == Nat \cup {Missing}
Unread   == [k \in Parts |-> Missing]
Messages == [event : Events \cup {NoEvent}, number : Nat, seen : [Parts -> Versions]]

Snapshot(n, v) == [event |-> NoEvent, number |-> n, seen |-> v]
Event(e) == [event |-> e, number |-> 0, seen |-> Unread]

(* Types, and each stage belongs to a job or to a connection. *)
TypeOK ==
    /\ world \in [Parts -> Nat]
    /\ bound \in BOOLEAN /\ recent \in BOOLEAN
    /\ subscribers \in Nat /\ lastNumber \in Nat /\ failed \in Nat
    /\ calls \in Seq(Messages)
    /\ buffer \in SUBSET Events /\ expired \in SUBSET Events
    /\ stage \in [Readers -> Stages]
    /\ \A j \in Jobs : stage[j] \in {"idle", "changed", "look", "window", "numbering", "reading"}
    /\ \A c \in Conns : stage[c] \in {"new", "opening", "registered", "reading", "listening", "closed"}
    /\ number \in [Readers -> Nat]
    /\ left \in [Readers -> SUBSET Parts]
    /\ seen \in [Readers -> [Parts -> Versions]]
    /\ running \in SUBSET Jobs /\ throttled \in SUBSET Jobs
    /\ queue \in [Conns -> Seq(Messages)]
    /\ replay \in [Conns -> SUBSET Events]
    /\ shown \in [Conns -> Seq(Events)]
    /\ emitting \in [Events -> {"no", "noLoop", "yes"}]

Init ==
    /\ world = [k \in Parts |-> 0]
    /\ bound = FALSE /\ subscribers = 0 /\ recent \in BOOLEAN
    /\ lastNumber = 0 /\ calls = <<>> /\ buffer = {} /\ expired = {} /\ failed = 0
    /\ stage = [r \in Readers |-> IF r \in Jobs THEN "idle" ELSE "new"]
    /\ number = [r \in Readers |-> 0]
    /\ left = [r \in Readers |-> {}]
    /\ seen = [r \in Readers |-> Unread]
    /\ running = {} /\ throttled = {}
    /\ queue = [c \in Conns |-> <<>>]
    /\ replay = [c \in Conns |-> {}]
    /\ shown = [c \in Conns |-> <<>>]
    /\ emitting = [e \in Events |-> "no"]

Go(r, s) == stage' = [stage EXCEPT ![r] = s]

-----------------------------------------------------------------------------
(* A job changes the world, and then calls mark_dirty or its throttled form *)

Change(j, k) ==
    /\ stage[j] = "idle"
    /\ world' = [world EXCEPT ![k] = @ + 1]
    /\ Go(j, "changed")
    /\ UNCHANGED <<bound, subscribers, recent, lastNumber, calls, buffer, expired, failed,
                   number, left, seen, connVars, emitting>>

(* The first change of a job is published without throttling. *)
Begin(j, k) ==
    /\ j \notin running
    /\ world[k] < MaxChanges
    /\ Change(j, k)
    /\ running' = running \cup {j}
    /\ UNCHANGED throttled

(* Progress goes through mark_dirty_throttled. *)
Progress(j, k) ==
    /\ j \in running
    /\ world[k] < MaxChanges
    /\ Change(j, k)
    /\ throttled' = throttled \cup {j}
    /\ UNCHANGED running

(* The last change, of a short job the only one, is not throttled either. *)
Finish(j, k) ==
    /\ j \in running \/ world[k] < MaxChanges
    /\ Change(j, k)
    /\ running' = running \ {j}
    /\ UNCHANGED throttled

(* A job gives its publication up and returns. *)
Skip(j) ==
    /\ Go(j, "idle")
    /\ throttled' = throttled \ {j}
    /\ UNCHANGED <<busVars, number, left, seen, running, connVars, emitting>>

Pass(j, s) ==
    /\ Go(j, s)
    /\ UNCHANGED <<busVars, number, left, seen, running, connVars, emitting>>

NoLoop(j) == stage[j] = "changed" /\ ~bound /\ Skip(j)

LoopFound(j) == stage[j] = "changed" /\ bound /\ Pass(j, "look") /\ UNCHANGED throttled

NobodyWatches(j) == stage[j] = "look" /\ subscribers = 0 /\ Skip(j)

Watched(j) ==
    /\ stage[j] = "look" /\ subscribers > 0
    /\ Pass(j, IF j \in throttled THEN "window" ELSE "numbering")
    /\ UNCHANGED throttled

TooSoon(j) == stage[j] = "window" /\ recent /\ Skip(j)

(* The throttled form calls mark_dirty, which asks both questions again. *)
WindowPassed(j) ==
    /\ stage[j] = "window" /\ ~recent
    /\ Pass(j, "changed")
    /\ throttled' = throttled \ {j}

WindowPasses ==
    /\ recent
    /\ recent' = FALSE
    /\ UNCHANGED <<world, bound, subscribers, lastNumber, calls, buffer, expired, failed,
                   readVars, jobVars, connVars, emitting>>

-----------------------------------------------------------------------------
(* A snapshot: its number first, then the reads *)

(* allocate_snapshot_seq, and the reads have begun. *)
TakeNumber(r) ==
    /\ lastNumber' = lastNumber + 1
    /\ number' = [number EXCEPT ![r] = lastNumber + 1]
    /\ left' = [left EXCEPT ![r] = Parts]
    /\ seen' = [seen EXCEPT ![r] = Unread]
    /\ Go(r, "reading")

StartRecompute(j) ==
    /\ stage[j] = "numbering"
    /\ TakeNumber(j)
    /\ recent' = TRUE
    /\ UNCHANGED <<world, bound, subscribers, calls, buffer, expired, failed, jobVars,
                   connVars, emitting>>

ReadPart(r, k) ==
    /\ stage[r] = "reading" /\ k \in left[r]
    /\ left' = [left EXCEPT ![r] = @ \ {k}]
    /\ seen' = [seen EXCEPT ![r][k] = world[k]]
    /\ UNCHANGED <<busVars, stage, number, jobVars, connVars, emitting>>

(* Some reads fail without failing the snapshot: their part is left out. *)
PartUnreadable(r, k) ==
    /\ stage[r] = "reading" /\ k \in left[r]
    /\ left' = [left EXCEPT ![r] = @ \ {k}]
    /\ UNCHANGED <<busVars, stage, number, seen, jobVars, connVars, emitting>>

(* Its local variables end with it. *)
Forget(r) ==
    /\ number' = [number EXCEPT ![r] = 0]
    /\ left' = [left EXCEPT ![r] = {}]
    /\ seen' = [seen EXCEPT ![r] = Unread]

HigherOf(m, n) == IF m > n THEN m ELSE n

(* The recompute raises; the publication is lost and the job goes on. *)
RecomputeFails(j) ==
    /\ stage[j] = "reading"
    /\ Go(j, "idle")
    /\ Forget(j)
    /\ failed' = HigherOf(failed, number[j])
    /\ UNCHANGED <<world, bound, subscribers, recent, lastNumber, calls, buffer, expired,
                   jobVars, connVars, emitting>>

HandToLoop(j) ==
    /\ stage[j] = "reading" /\ left[j] = {}
    /\ Go(j, "idle")
    /\ Forget(j)
    /\ calls' = Append(calls, Snapshot(number[j], seen[j]))
    /\ UNCHANGED <<world, bound, subscribers, recent, lastNumber, buffer, expired, failed,
                   jobVars, connVars, emitting>>

-----------------------------------------------------------------------------
(* emit *)

EmitToLoop(e) ==
    /\ emitting[e] = "no" /\ bound
    /\ emitting' = [emitting EXCEPT ![e] = "yes"]
    /\ calls' = Append(calls, Event(e))
    /\ UNCHANGED <<world, bound, subscribers, recent, lastNumber, buffer, expired, failed,
                   readVars, jobVars, connVars>>

EmitFindsNoLoop(e) ==
    /\ emitting[e] = "no" /\ ~bound
    /\ emitting' = [emitting EXCEPT ![e] = "noLoop"]
    /\ UNCHANGED <<busVars, readVars, jobVars, connVars>>

BufferEvent(e) ==
    /\ emitting[e] = "noLoop"
    /\ emitting' = [emitting EXCEPT ![e] = "yes"]
    /\ buffer' = buffer \cup {e}
    /\ UNCHANGED <<world, bound, subscribers, recent, lastNumber, calls, expired, failed,
                   readVars, jobVars, connVars>>

(* The ttl of a buffered event passes: no flush returns it any more. *)
Expire(e) ==
    /\ e \in buffer
    /\ buffer' = buffer \ {e}
    /\ expired' = expired \cup {e}
    /\ UNCHANGED <<world, bound, subscribers, recent, lastNumber, calls, failed,
                   readVars, jobVars, connVars, emitting>>

-----------------------------------------------------------------------------
(* The loop runs its callbacks in the order they were handed to it *)

ToEveryQueue(m) == [c \in Conns |-> IF c \in Open THEN Append(queue[c], m) ELSE queue[c]]

(* Faulty: an event nobody is connected for is dropped like a snapshot. *)
FaultyNobody(m) == FALSE

(* An event waits in the buffer for the next connection. *)
KeptForLater(m) == m.event # NoEvent /\ Open = {}

RunCall ==
    /\ calls # <<>>
    /\ calls' = Tail(calls)
    /\ queue' = ToEveryQueue(Head(calls))
    /\ buffer' = IF KeptForLater(Head(calls)) THEN buffer \cup {Head(calls).event} ELSE buffer
    /\ UNCHANGED <<world, bound, subscribers, recent, lastNumber, expired, failed, readVars,
                   jobVars, replay, shown, emitting>>

-----------------------------------------------------------------------------
(* A connection *)

Connect(c) ==
    /\ stage[c] = "new"
    /\ bound' = TRUE
    /\ Go(c, "opening")
    /\ UNCHANGED <<world, subscribers, recent, lastNumber, calls, buffer, expired, failed,
                   number, left, seen, jobVars, connVars, emitting>>

(* register and flush_buffer run without giving the loop away. *)
Register(c) ==
    /\ stage[c] = "opening"
    /\ Go(c, "registered")
    /\ subscribers' = subscribers + 1
    /\ replay' = [replay EXCEPT ![c] = buffer]
    /\ buffer' = {}
    /\ UNCHANGED <<world, bound, recent, lastNumber, calls, expired, failed, number, left,
                   seen, jobVars, queue, shown, emitting>>

ReplayEvent(c, e) ==
    /\ stage[c] = "registered" /\ e \in replay[c]
    /\ replay' = [replay EXCEPT ![c] = @ \ {e}]
    /\ shown' = [shown EXCEPT ![c] = Append(@, e)]
    /\ UNCHANGED <<busVars, readVars, jobVars, queue, emitting>>

StartInitial(c) ==
    /\ stage[c] = "registered" /\ replay[c] = {}
    /\ TakeNumber(c)
    /\ UNCHANGED <<world, bound, subscribers, recent, calls, buffer, expired, failed,
                   jobVars, connVars, emitting>>

(* Faulty: the first snapshot gets its number when it is sent. *)
FaultyShowInitial(c) ==
    /\ stage[c] = "reading" /\ left[c] = {}
    /\ Go(c, "listening")
    /\ lastNumber' = lastNumber + 1
    /\ number' = [number EXCEPT ![c] = lastNumber + 1]
    /\ UNCHANGED <<world, bound, subscribers, recent, calls, buffer, expired, failed, left,
                   seen, jobVars, connVars, emitting>>

ShowInitial(c) ==
    /\ stage[c] = "reading" /\ left[c] = {}
    /\ Go(c, "listening")
    /\ UNCHANGED <<busVars, number, left, seen, jobVars, connVars, emitting>>

Superseded(c, m) == m.event = NoEvent /\ m.number <= number[c]

TakeSnapshot(c) ==
    LET m == Head(queue[c]) IN
    /\ stage[c] = "listening" /\ queue[c] # <<>>
    /\ m.event = NoEvent /\ ~Superseded(c, m)
    /\ queue' = [queue EXCEPT ![c] = Tail(@)]
    /\ number' = [number EXCEPT ![c] = m.number]
    /\ seen' = [seen EXCEPT ![c] = m.seen]
    /\ UNCHANGED <<busVars, stage, left, jobVars, replay, shown, emitting>>

DropSnapshot(c) ==
    /\ stage[c] = "listening" /\ queue[c] # <<>>
    /\ Superseded(c, Head(queue[c]))
    /\ queue' = [queue EXCEPT ![c] = Tail(@)]
    /\ UNCHANGED <<busVars, readVars, jobVars, replay, shown, emitting>>

TakeEvent(c) ==
    /\ stage[c] = "listening" /\ queue[c] # <<>>
    /\ Head(queue[c]).event # NoEvent
    /\ queue' = [queue EXCEPT ![c] = Tail(@)]
    /\ shown' = [shown EXCEPT ![c] = Append(@, Head(queue[c]).event)]
    /\ UNCHANGED <<busVars, readVars, jobVars, replay, emitting>>

Fewer == subscribers - 1

(* The client goes away or the first snapshot fails; unregister runs.  What *)
(* the queue held goes with it.                                             *)
Close(c) ==
    /\ c \in Open
    /\ Go(c, "closed")
    /\ subscribers' = Fewer
    /\ Forget(c)
    /\ UNCHANGED <<world, bound, recent, lastNumber, calls, buffer, expired, failed,
                   jobVars, connVars, emitting>>

-----------------------------------------------------------------------------

JobStep(j) ==
    \/ \E k \in Parts : Begin(j, k) \/ Progress(j, k)
    \/ \E k \in Parts : Finish(j, k)
    \/ NoLoop(j) \/ LoopFound(j) \/ NobodyWatches(j) \/ Watched(j)
    \/ TooSoon(j) \/ WindowPassed(j)
    \/ StartRecompute(j) \/ RecomputeFails(j) \/ HandToLoop(j)

ConnStep(c) ==
    \/ Connect(c) \/ Register(c) \/ StartInitial(c) \/ ShowInitial(c)
    \/ \E e \in Events : ReplayEvent(c, e)
    \/ TakeSnapshot(c) \/ DropSnapshot(c) \/ TakeEvent(c)
    \/ Close(c)

ReadStep(r) == \E k \in Parts : ReadPart(r, k) \/ PartUnreadable(r, k)

EmitStep(e) == EmitToLoop(e) \/ EmitFindsNoLoop(e) \/ BufferEvent(e) \/ Expire(e)

Next ==
    \/ \E j \in Jobs : JobStep(j)
    \/ \E c \in Conns : ConnStep(c)
    \/ \E r \in Readers : ReadStep(r)
    \/ \E e \in Events : EmitStep(e)
    \/ RunCall
    \/ WindowPasses

PendingSpec == Init /\ [][Next]_pendingVars

(* The threads and the loop keep running, reads end, a job that began       *)
(* finishes; nobody has to begin, to connect or to go away.                 *)
Fairness ==
    /\ \A j \in Jobs :
        /\ WF_pendingVars(j \in running /\ \E k \in Parts : Finish(j, k))
        /\ WF_pendingVars(NoLoop(j) \/ LoopFound(j) \/ NobodyWatches(j) \/ Watched(j))
        /\ WF_pendingVars(TooSoon(j) \/ WindowPassed(j) \/ StartRecompute(j) \/ HandToLoop(j))
    /\ \A c \in Conns :
        /\ WF_pendingVars(Register(c) \/ StartInitial(c) \/ ShowInitial(c))
        /\ WF_pendingVars(\E e \in Events : ReplayEvent(c, e))
        /\ WF_pendingVars(TakeSnapshot(c) \/ DropSnapshot(c) \/ TakeEvent(c))
    /\ \A r \in Readers : WF_pendingVars(\E k \in Parts : ReadPart(r, k))
    /\ WF_pendingVars(RunCall)

FairPendingSpec == PendingSpec /\ Fairness

-----------------------------------------------------------------------------
(* Properties *)

(* A job has changed the world, or is about to, and has not numbered the    *)
(* publication of its last change yet.                                      *)
Owing ==
    \E j \in Jobs :
        \/ j \in running
        \/ stage[j] \in {"changed", "look", "window", "numbering"}

(* Nothing is on its way to connection c. *)
Settled(c) ==
    /\ ~Owing
    /\ \A j \in Jobs : stage[j] = "idle"
    /\ calls = <<>>
    /\ stage[c] = "listening" /\ queue[c] = <<>>

(* Connection c shows the world, but for the parts that could not be read,  *)
(* or a later snapshot than the one it shows was lost.                      *)
UpToDate(c) ==
    \/ \A k \in Parts : seen[c][k] \in {world[k], Missing}
    \/ number[c] < failed

(* No order of the recomputes, of their delivery, of connecting and of      *)
(* throttling leaves a connection on an old snapshot: once nothing is on    *)
(* its way, it shows what is committed (pending_bus.py:33-37, the numbers   *)
(* taken before the reads; system_routes.py:358-362, registration before    *)
(* the first snapshot; pending_bus.py:147-149, the unthrottled last call).  *)
NobodyLeftBehind == \A c \in Conns : Settled(c) => UpToDate(c)

(* The mirror that job threads read agrees with the connections of the loop *)
(* (pending_bus.py:22-26, the comment on _subscribers).                     *)
MirrorExact == subscribers = Cardinality(Open)

Occurrences(s, e) == Cardinality({i \in DOMAIN s : s[i] = e})

InMessages(s, e) == Cardinality({i \in DOMAIN s : s[i].event = e})

TimesHanded(c, e) ==
    InMessages(queue[c], e) + Occurrences(shown[c], e) + (IF e \in replay[c] THEN 1 ELSE 0)

(* An emitted event is with the loop, in the buffer, expired there, or with *)
(* the connections, and in one of these places only; and no connection gets *)
(* it twice, whether it was flushed to it or sent to it live.               *)
EventKept ==
    \A e \in Events :
        /\ LET places == { <<"loop", InMessages(calls, e) > 0>>, <<"buffer", e \in buffer>>,
                           <<"expired", e \in expired>>,
                           <<"connections", \E c \in Conns : TimesHanded(c, e) > 0>> }
           IN  Cardinality({p \in places : p[2]}) = (IF emitting[e] = "yes" THEN 1 ELSE 0)
        /\ \A c \in Conns : TimesHanded(c, e) <= 1

(* Every connection that stays open ends with the committed state on show,  *)
(* whatever was throttled, superseded or raced on the way.                  *)
BellCatchesUp ==
    \A c \in Conns :
        <>[](stage[c] \in {"new", "closed"} \/ (stage[c] = "listening" /\ UpToDate(c)))

NoNewerThan(v, w) ==
    \A k \in Parts : v[k] # Missing /\ w[k] # Missing => v[k] <= w[k]

(* The comment of system_routes.py:369-372: of two concurrent recomputes    *)
(* the one that began first read no newer a world, so it may be dropped.    *)
DroppedIsNoNewer ==
    [][\A c \in Conns :
        DropSnapshot(c) => NoNewerThan(Head(queue[c]).seen, seen[c])]_pendingVars
=============================================================================
