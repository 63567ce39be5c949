-------------------------- MODULE PendingBusProofs --------------------------
(***************************************************************************)
(* The bell is current once nothing is on its way, and no event is lost or *)
(* shown twice, for any number of jobs, connections, events and parts.     *)
(*                                                                         *)
(* The argument: when the last job that owes a publication takes its       *)
(* number t, nothing is committed any more.  Every snapshot numbered from  *)
(* t on starts its reads later, so whatever it has read is the world.  An  *)
(* open connection shows such a snapshot, or one is on its way to it, or   *)
(* one has failed; and what is numbered lower cannot displace it.  If the  *)
(* last publication is skipped instead, nobody is registered, and whoever  *)
(* registers later takes a number of its own.                              *)
(*                                                                         *)
(* Events: how often one is among the callbacks, in a queue or shown is    *)
(* counted, and each step moves it on by one from a place to the next.     *)
(***************************************************************************)
EXTENDS PendingBus, FiniteSetTheorems, TLAPS

(* The messages of a queue. *)
Held(s) == {s[i] : i \in DOMAIN s}

(* Only a running job is throttled, so a skipped publication is not a last one. *)
ThrottledRuns ==
    /\ throttled \subseteq running
    /\ \A j \in throttled : stage[j] \in {"changed", "look", "window"}
    /\ \A j \in Jobs : stage[j] = "window" => j \in throttled

(* The loop is known to the jobs before anybody can be registered. *)
LoopFirst == \A c \in Conns : stage[c] # "new" => bound

NumbersGiven ==
    /\ \A r \in Readers : number[r] <= lastNumber
    /\ \A m \in Held(calls) : m.number <= lastNumber
    /\ \A c \in Conns : \A m \in Held(queue[c]) : m.number <= lastNumber

Fresh(v) == \A k \in Parts : v[k] \in {world[k], Missing}

(* Every snapshot from number t on, finished or not, has read the world as  *)
(* it is now.                                                               *)
FreshFrom(t) ==
    /\ \A r \in Readers : stage[r] \in {"reading", "listening"} /\ number[r] >= t => Fresh(seen[r])
    /\ \A m \in Held(calls) : m.number >= t => Fresh(m.seen)
    /\ \A c \in Conns : \A m \in Held(queue[c]) : m.number >= t => Fresh(m.seen)

(* Connection c shows such a snapshot, or one is on its way to it or lost.  *)
Coming(c, t) ==
    \/ stage[c] = "registered"
    \/ number[c] >= t
    \/ failed >= t
    \/ \E m \in Held(calls) : m.event = NoEvent /\ m.number >= t
    \/ \E m \in Held(queue[c]) : m.event = NoEvent /\ m.number >= t
    \/ \E j \in Jobs : stage[j] = "reading" /\ number[j] >= t

AllComing(t) == \A c \in Open : Coming(c, t)

Covered ==
    Owing \/ \E t \in Nat : t <= lastNumber + 1 /\ FreshFrom(t) /\ AllComing(t)

(* A connection gets what was flushed for it when it registers. *)
ReplayEmpty == \A c \in Conns : stage[c] \in {"new", "opening"} => replay[c] = {}

HandedOver(e) == \E c \in Conns : TimesHanded(c, e) > 0

(* Where an event is, and that it is in one place. *)
OnePlace(e) ==
    /\ emitting[e] = "yes" <=>
         InMessages(calls, e) > 0 \/ e \in buffer \/ e \in expired \/ HandedOver(e)
    /\ InMessages(calls, e) > 0 => e \notin buffer /\ e \notin expired /\ ~HandedOver(e)
    /\ e \in buffer => e \notin expired /\ ~HandedOver(e)
    /\ e \in expired => ~HandedOver(e)

OneCopy(e) ==
    /\ InMessages(calls, e) <= 1
    /\ \A c \in Conns : TimesHanded(c, e) <= 1

EventInv == ReplayEmpty /\ (\A e \in Events : OnePlace(e) /\ OneCopy(e))

BusInv ==
    /\ TypeOK
    /\ MirrorExact
    /\ ThrottledRuns
    /\ LoopFirst
    /\ NumbersGiven
    /\ Covered
    /\ EventInv

-----------------------------------------------------------------------------
(* What a queue holds after an append, and before the removal of its head *)

LEMMA HeldAppend ==
    ASSUME NEW S, NEW s \in Seq(S), NEW m \in S
    PROVE  Held(Append(s, m)) = Held(s) \cup {m}
<1>1. DOMAIN s = 1 .. Len(s) /\ DOMAIN Append(s, m) = 1 .. Len(s) + 1 /\ Len(s) \in Nat
  OBVIOUS
<1>2. \A i \in DOMAIN s : Append(s, m)[i] = s[i]
  OBVIOUS
<1>3. Append(s, m)[Len(s) + 1] = m
  OBVIOUS
<1> QED
  BY <1>1, <1>2, <1>3 DEF Held

LEMMA HeldTail ==
    ASSUME NEW S, NEW s \in Seq(S), s # <<>>
    PROVE  /\ Head(s) \in S /\ Tail(s) \in Seq(S)
           /\ Held(s) = {Head(s)} \cup Held(Tail(s))
<1>1. /\ Head(s) \in S /\ Tail(s) \in Seq(S) /\ Len(s) \in Nat \ {0} /\ Head(s) = s[1]
      /\ Len(Tail(s)) = Len(s) - 1 /\ DOMAIN s = 1 .. Len(s)
      /\ DOMAIN Tail(s) = 1 .. (Len(s) - 1)
  OBVIOUS
<1>2. \A i \in DOMAIN Tail(s) : Tail(s)[i] = s[i + 1]
  OBVIOUS
<1>3. Held(s) \subseteq {Head(s)} \cup Held(Tail(s))
  <2>1. SUFFICES ASSUME NEW i \in 1 .. Len(s), i # 1 PROVE s[i] \in Held(Tail(s))
    BY <1>1 DEF Held
  <2>2. i - 1 \in DOMAIN Tail(s) /\ (i - 1) + 1 = i
    BY <1>1, <2>1
  <2> QED
    BY <1>2, <2>2 DEF Held
<1>4. {Head(s)} \cup Held(Tail(s)) \subseteq Held(s)
  <2>1. Head(s) \in Held(s)
    BY <1>1 DEF Held
  <2>2. ASSUME NEW i \in DOMAIN Tail(s) PROVE Tail(s)[i] \in Held(s)
    <3>1. i + 1 \in DOMAIN s
      BY <1>1, <2>2
    <3> QED
      BY <1>2, <3>1 DEF Held
  <2> QED
    BY <2>1, <2>2 DEF Held
<1> QED
  BY <1>1, <1>3, <1>4

LEMMA HeldIn ==
    ASSUME NEW S, NEW s \in Seq(S)
    PROVE  Held(s) \subseteq S
  BY DEF Held

-----------------------------------------------------------------------------
(* How often an event is in a queue, and has been shown *)

LEMMA PositionsFinite ==
    ASSUME NEW n \in Nat, NEW P \in SUBSET (1 .. n)
    PROVE  IsFiniteSet(P) /\ Cardinality(P) \in Nat
<1>1. IsFiniteSet(1 .. n)
  BY FS_Interval
<1>2. IsFiniteSet(P)
  BY <1>1, FS_Subset
<1> QED
  BY <1>2, FS_CardinalityType

(* One place more at the end. *)
LEMMA PositionsGrow ==
    ASSUME NEW n \in Nat, NEW P \in SUBSET (1 .. n)
    PROVE  Cardinality(P \cup {n + 1}) = Cardinality(P) + 1
<1>1. IsFiniteSet(P)
  BY PositionsFinite
<1>2. n + 1 \notin P
  OBVIOUS
<1> QED
  BY <1>1, <1>2, FS_AddElement

(* What follows the first place moves up by one. *)
LEMMA PositionsShift ==
    ASSUME NEW n \in Nat \ {0}, NEW P \in SUBSET (1 .. n),
           NEW Q, Q = {i \in 1 .. (n - 1) : i + 1 \in P}
    PROVE  Cardinality(Q) = Cardinality(P) - (IF 1 \in P THEN 1 ELSE 0)
<1>0. IsFiniteSet(P) /\ Cardinality(P) \in Nat
  BY PositionsFinite
<1>1. IsFiniteSet(Q)
  <2>1. Q \in SUBSET (1 .. (n - 1)) /\ n - 1 \in Nat
    OBVIOUS
  <2> QED
    BY <2>1, PositionsFinite
<1> DEFINE up == [i \in Q |-> i + 1]
<1>2. up \in Bijection(Q, P \ {1})
  <2>1. up \in [Q -> P \ {1}]
    OBVIOUS
  <2>2. \A i, j \in Q : up[i] = up[j] => i = j
    OBVIOUS
  <2>3. \A k \in P \ {1} : \E i \in Q : up[i] = k
    <3> TAKE k \in P \ {1}
    <3>1. k - 1 \in Q /\ (k - 1) + 1 = k
      OBVIOUS
    <3> QED
      BY <3>1
  <2> HIDE DEF up
  <2> QED
    BY <2>1, <2>2, <2>3 DEF Bijection, Injection, Surjection, IsInjective
<1>3. Cardinality(Q) = Cardinality(P \ {1})
  BY <1>1, <1>2, FS_Bijection DEF ExistsBijection
<1>4. Cardinality(P \ {1}) = IF 1 \in P THEN Cardinality(P) - 1 ELSE Cardinality(P)
  BY <1>0, FS_RemoveElement
<1> QED
  BY <1>0, <1>3, <1>4

LEMMA MessagesCounted ==
    ASSUME NEW s \in Seq(Messages), NEW e
    PROVE  InMessages(s, e) \in Nat
<1>1. Len(s) \in Nat /\ {i \in DOMAIN s : s[i].event = e} \subseteq 1 .. Len(s)
  OBVIOUS
<1> QED
  BY <1>1, PositionsFinite DEF InMessages

LEMMA ShownCounted ==
    ASSUME NEW s \in Seq(Events), NEW e
    PROVE  Occurrences(s, e) \in Nat
<1>1. Len(s) \in Nat /\ {i \in DOMAIN s : s[i] = e} \subseteq 1 .. Len(s)
  OBVIOUS
<1> QED
  BY <1>1, PositionsFinite DEF Occurrences

LEMMA MessageAppended ==
    ASSUME NEW s \in Seq(Messages), NEW m \in Messages, NEW e
    PROVE  InMessages(Append(s, m), e) = InMessages(s, e) + (IF m.event = e THEN 1 ELSE 0)
<1> DEFINE P == {i \in DOMAIN s : s[i].event = e}
           Q == {i \in DOMAIN Append(s, m) : Append(s, m)[i].event = e}
<1>1. DOMAIN s = 1 .. Len(s) /\ DOMAIN Append(s, m) = 1 .. Len(s) + 1 /\ Len(s) \in Nat
  OBVIOUS
<1>2. \A i \in DOMAIN s : Append(s, m)[i] = s[i]
  OBVIOUS
<1>3. Append(s, m)[Len(s) + 1] = m
  OBVIOUS
<1>4. Q = IF m.event = e THEN P \cup {Len(s) + 1} ELSE P
  BY <1>1, <1>2, <1>3
<1>5. P \in SUBSET (1 .. Len(s)) /\ Cardinality(P) \in Nat
  BY <1>1, PositionsFinite
<1> HIDE DEF P, Q
<1>6. Cardinality(Q) = Cardinality(P) + (IF m.event = e THEN 1 ELSE 0)
  BY <1>1, <1>4, <1>5, PositionsGrow
<1> QED
  BY <1>6 DEF InMessages, P, Q

LEMMA EventShown ==
    ASSUME NEW s \in Seq(Events), NEW x \in Events, NEW e
    PROVE  Occurrences(Append(s, x), e) = Occurrences(s, e) + (IF x = e THEN 1 ELSE 0)
<1> DEFINE P == {i \in DOMAIN s : s[i] = e}
           Q == {i \in DOMAIN Append(s, x) : Append(s, x)[i] = e}
<1>1. DOMAIN s = 1 .. Len(s) /\ DOMAIN Append(s, x) = 1 .. Len(s) + 1 /\ Len(s) \in Nat
  OBVIOUS
<1>2. \A i \in DOMAIN s : Append(s, x)[i] = s[i]
  OBVIOUS
<1>3. Append(s, x)[Len(s) + 1] = x
  OBVIOUS
<1>4. Q = IF x = e THEN P \cup {Len(s) + 1} ELSE P
  BY <1>1, <1>2, <1>3
<1>5. P \in SUBSET (1 .. Len(s)) /\ Cardinality(P) \in Nat
  BY <1>1, PositionsFinite
<1> HIDE DEF P, Q
<1>6. Cardinality(Q) = Cardinality(P) + (IF x = e THEN 1 ELSE 0)
  BY <1>1, <1>4, <1>5, PositionsGrow
<1> QED
  BY <1>6 DEF Occurrences, P, Q

LEMMA MessageTaken ==
    ASSUME NEW s \in Seq(Messages), s # <<>>, NEW e
    PROVE  InMessages(Tail(s), e) = InMessages(s, e) - (IF Head(s).event = e THEN 1 ELSE 0)
<1> DEFINE P == {i \in DOMAIN s : s[i].event = e}
           Q == {i \in DOMAIN Tail(s) : Tail(s)[i].event = e}
<1>1. /\ Len(s) \in Nat \ {0} /\ Head(s) = s[1] /\ DOMAIN s = 1 .. Len(s)
      /\ DOMAIN Tail(s) = 1 .. (Len(s) - 1)
  OBVIOUS
<1>2. \A i \in DOMAIN Tail(s) : Tail(s)[i] = s[i + 1]
  OBVIOUS
<1>3. Q = {i \in 1 .. (Len(s) - 1) : i + 1 \in P}
  BY <1>1, <1>2
<1>4. P \in SUBSET (1 .. Len(s)) /\ (1 \in P <=> Head(s).event = e)
  BY <1>1
<1> HIDE DEF P, Q
<1>5. Cardinality(Q) = Cardinality(P) - (IF Head(s).event = e THEN 1 ELSE 0)
  BY <1>1, <1>3, <1>4, PositionsShift
<1> QED
  BY <1>5 DEF InMessages, P, Q

-----------------------------------------------------------------------------
(* Types *)

LEMMA HeldMessages ==
    ASSUME TypeOK
    PROVE  /\ \A m \in Held(calls) : m \in Messages /\ m.number \in Nat
           /\ \A c \in Conns : \A m \in Held(queue[c]) : m \in Messages /\ m.number \in Nat
<1>1. \A m \in Messages : m.number \in Nat
  BY DEF Messages
<1>2. calls \in Seq(Messages) /\ \A c \in Conns : queue[c] \in Seq(Messages)
  BY DEF TypeOK
<1> QED
  BY <1>1, <1>2, HeldIn

LEMMA PendingTypeInit == Init => TypeOK
<1> SUFFICES ASSUME Init PROVE TypeOK
  OBVIOUS
<1>1. stage \in [Readers -> Stages] /\ \A c \in Conns : stage[c] = "new"
  BY BusAssumption DEF Init, Readers, Stages
<1>2. /\ \A j \in Jobs : stage[j] = "idle"
      /\ world \in [Parts -> Nat] /\ bound \in BOOLEAN /\ recent \in BOOLEAN
      /\ subscribers \in Nat /\ lastNumber \in Nat /\ failed \in Nat
      /\ buffer \in SUBSET Events /\ expired \in SUBSET Events
      /\ running \in SUBSET Jobs /\ throttled \in SUBSET Jobs
  BY DEF Init, Readers
<1>6. calls \in Seq(Messages)
  BY DEF Init
<1>3. number \in [Readers -> Nat] /\ left \in [Readers -> SUBSET Parts]
      /\ replay \in [Conns -> SUBSET Events]
      /\ emitting \in [Events -> {"no", "noLoop", "yes"}]
  BY DEF Init
<1>4. seen \in [Readers -> [Parts -> Versions]]
  BY DEF Init, Unread, Versions
<1>5. queue \in [Conns -> Seq(Messages)] /\ shown \in [Conns -> Seq(Events)]
  BY DEF Init
<1> QED
  BY <1>1, <1>2, <1>3, <1>4, <1>5, <1>6 DEF TypeOK

LEMMA SnapshotType ==
    ASSUME NEW n \in Nat, NEW v \in [Parts -> Versions] PROVE Snapshot(n, v) \in Messages
  BY DEF Snapshot, Messages

LEMMA EventType ==
    ASSUME NEW e \in Events PROVE Event(e) \in Messages
  BY DEF Event, Messages, Unread, Versions

LEMMA PendingTypeStep == TypeOK /\ MirrorExact /\ [Next]_pendingVars => TypeOK'
<1> SUFFICES ASSUME TypeOK, MirrorExact, [Next]_pendingVars PROVE TypeOK'
  OBVIOUS
<1> USE BusAssumption DEF TypeOK, Stages, Readers, Go, Skip, Pass, Forget, TakeNumber,
   Change,
      pendingVars, busVars, readVars, jobVars, connVars
<1>1. CASE UNCHANGED pendingVars
  BY <1>1 DEF pendingVars, busVars, readVars, jobVars, connVars
<1>2. ASSUME NEW j \in Jobs, NoLoop(j) PROVE TypeOK'
  BY <1>2 DEF NoLoop
<1>3. ASSUME NEW j \in Jobs, LoopFound(j) PROVE TypeOK'
  BY <1>3 DEF LoopFound
<1>4. ASSUME NEW j \in Jobs, NobodyWatches(j) PROVE TypeOK'
  BY <1>4 DEF NobodyWatches
<1>5. ASSUME NEW j \in Jobs, Watched(j) PROVE TypeOK'
  BY <1>5 DEF Watched
<1>6. ASSUME NEW j \in Jobs, TooSoon(j) PROVE TypeOK'
  BY <1>6 DEF TooSoon
<1>7. ASSUME NEW j \in Jobs, WindowPassed(j) PROVE TypeOK'
  BY <1>7 DEF WindowPassed
<1>8. ASSUME NEW j \in Jobs, StartRecompute(j) PROVE TypeOK'
  BY <1>8 DEF StartRecompute, Unread, Versions
<1>9. ASSUME NEW j \in Jobs, RecomputeFails(j) PROVE TypeOK'
  BY <1>9 DEF RecomputeFails, Unread, Versions, HigherOf
<1>10. ASSUME NEW j \in Jobs, HandToLoop(j) PROVE TypeOK'
  BY <1>10, SnapshotType DEF HandToLoop, Unread, Versions
<1>11. ASSUME NEW j \in Jobs, NEW k \in Parts, Begin(j, k) PROVE TypeOK'
  BY <1>11 DEF Begin
<1>12. ASSUME NEW j \in Jobs, NEW k \in Parts, Progress(j, k) PROVE TypeOK'
  BY <1>12 DEF Progress
<1>13. ASSUME NEW j \in Jobs, NEW k \in Parts, Finish(j, k) PROVE TypeOK'
  BY <1>13 DEF Finish
<1>14. ASSUME NEW c \in Conns, Connect(c) PROVE TypeOK'
  BY <1>14 DEF Connect
<1>15. ASSUME NEW c \in Conns, Register(c) PROVE TypeOK'
  BY <1>15 DEF Register
<1>16. ASSUME NEW c \in Conns, StartInitial(c) PROVE TypeOK'
  BY <1>16 DEF StartInitial, Unread, Versions
<1>17. ASSUME NEW c \in Conns, ShowInitial(c) PROVE TypeOK'
  BY <1>17 DEF ShowInitial
<1>18. ASSUME NEW c \in Conns, TakeSnapshot(c) PROVE TypeOK'
  <2>1. Head(queue[c]) \in Messages /\ Tail(queue[c]) \in Seq(Messages)
    BY <1>18, HeldTail DEF TakeSnapshot
  <2>2. Head(queue[c]).number \in Nat /\ Head(queue[c]).seen \in [Parts -> Versions]
    BY <2>1 DEF Messages
  <2> QED
    BY <1>18, <2>1, <2>2 DEF TakeSnapshot
<1>19. ASSUME NEW c \in Conns, DropSnapshot(c) PROVE TypeOK'
  BY <1>19, HeldTail DEF DropSnapshot
<1>20. ASSUME NEW c \in Conns, TakeEvent(c) PROVE TypeOK'
  <2>1. Head(queue[c]) \in Messages /\ Tail(queue[c]) \in Seq(Messages)
    BY <1>20, HeldTail DEF TakeEvent
  <2>2. Head(queue[c]).event \in Events
    BY <1>20, <2>1 DEF TakeEvent, Messages
  <2> QED
    BY <1>20, <2>1, <2>2 DEF TakeEvent
<1>21. ASSUME NEW c \in Conns, Close(c) PROVE TypeOK'
  <2>1. IsFiniteSet(Open) /\ Open # {}
    BY <1>21, FS_Subset DEF Close, Open
  <2>2. subscribers \in Nat \ {0}
    BY <2>1, FS_EmptySet, FS_CardinalityType DEF MirrorExact
  <2> QED
    BY <1>21, <2>2 DEF Close, Unread, Versions, Fewer
<1>22. ASSUME NEW c \in Conns, NEW e \in Events, ReplayEvent(c, e) PROVE TypeOK'
  BY <1>22 DEF ReplayEvent
<1>23. ASSUME NEW r \in Readers, NEW k \in Parts, ReadPart(r, k) PROVE TypeOK'
  BY <1>23 DEF ReadPart, Versions
<1>24. ASSUME NEW r \in Readers, NEW k \in Parts, PartUnreadable(r, k) PROVE TypeOK'
  BY <1>24 DEF PartUnreadable
<1>25. ASSUME NEW e \in Events, EmitToLoop(e) PROVE TypeOK'
  BY <1>25, EventType DEF EmitToLoop
<1>26. ASSUME NEW e \in Events, EmitFindsNoLoop(e) PROVE TypeOK'
  BY <1>26 DEF EmitFindsNoLoop
<1>27. ASSUME NEW e \in Events, BufferEvent(e) PROVE TypeOK'
  BY <1>27 DEF BufferEvent
<1>28. ASSUME NEW e \in Events, Expire(e) PROVE TypeOK'
  BY <1>28 DEF Expire
<1>29. CASE RunCall
  <2>1. Head(calls) \in Messages /\ Tail(calls) \in Seq(Messages)
    BY <1>29, HeldTail DEF RunCall
  <2>2. Head(calls).event \in Events \cup {NoEvent}
    BY <2>1 DEF Messages
  <2>3. queue' \in [Conns -> Seq(Messages)]
    BY <1>29, <2>1 DEF RunCall, ToEveryQueue
  <2>4. buffer' \in SUBSET Events
    BY <1>29, <2>2 DEF RunCall, KeptForLater
  <2> QED
    BY <1>29, <2>1, <2>3, <2>4 DEF RunCall
<1>30. CASE WindowPasses
  BY <1>30 DEF WindowPasses
<1> QED
  BY <1>1, <1>2, <1>3, <1>4, <1>5, <1>6, <1>7, <1>8, <1>9, <1>10, <1>11, <1>12, <1>13,
     <1>14, <1>15, <1>16, <1>17, <1>18, <1>19, <1>20, <1>21, <1>22, <1>23, <1>24,
     <1>25, <1>26, <1>27, <1>28, <1>29, <1>30
  DEF Next, JobStep, ConnStep, ReadStep, EmitStep

-----------------------------------------------------------------------------
(* The smaller parts of the invariant *)

LEMMA MirrorStep == TypeOK /\ MirrorExact /\ [Next]_pendingVars => MirrorExact'
<1> SUFFICES ASSUME TypeOK, MirrorExact, [Next]_pendingVars PROVE MirrorExact'
  OBVIOUS
<1>a. IsFiniteSet(Open)
  BY BusAssumption, FS_Subset DEF Open
<1>b. ASSUME Open' = Open, subscribers' = subscribers PROVE MirrorExact'
  BY <1>b DEF MirrorExact
<1>c. \A c \in Open : Cardinality(Open \ {c}) = Cardinality(Open) - 1
  BY <1>a, FS_RemoveElement
<1> USE BusAssumption DEF TypeOK, Open, Readers, Go, Skip, Pass, TakeNumber, Change,
      pendingVars, busVars, readVars, jobVars, connVars
<1>1. CASE UNCHANGED pendingVars
  BY <1>1, <1>b DEF pendingVars
<1>2. ASSUME NEW j \in Jobs, NoLoop(j) PROVE MirrorExact'
  BY <1>2, <1>b DEF NoLoop
<1>3. ASSUME NEW j \in Jobs, LoopFound(j) PROVE MirrorExact'
  BY <1>3, <1>b DEF LoopFound
<1>4. ASSUME NEW j \in Jobs, NobodyWatches(j) PROVE MirrorExact'
  BY <1>4, <1>b DEF NobodyWatches
<1>5. ASSUME NEW j \in Jobs, Watched(j) PROVE MirrorExact'
  BY <1>5, <1>b DEF Watched
<1>6. ASSUME NEW j \in Jobs, TooSoon(j) PROVE MirrorExact'
  BY <1>6, <1>b DEF TooSoon
<1>7. ASSUME NEW j \in Jobs, WindowPassed(j) PROVE MirrorExact'
  BY <1>7, <1>b DEF WindowPassed
<1>8. ASSUME NEW j \in Jobs, StartRecompute(j) PROVE MirrorExact'
  BY <1>8, <1>b DEF StartRecompute
<1>9. ASSUME NEW j \in Jobs, RecomputeFails(j) PROVE MirrorExact'
  BY <1>9, <1>b DEF RecomputeFails
<1>10. ASSUME NEW j \in Jobs, HandToLoop(j) PROVE MirrorExact'
  BY <1>10, <1>b DEF HandToLoop
<1>11. ASSUME NEW j \in Jobs, NEW k \in Parts, Begin(j, k) PROVE MirrorExact'
  BY <1>11, <1>b DEF Begin
<1>12. ASSUME NEW j \in Jobs, NEW k \in Parts, Progress(j, k) PROVE MirrorExact'
  BY <1>12, <1>b DEF Progress
<1>13. ASSUME NEW j \in Jobs, NEW k \in Parts, Finish(j, k) PROVE MirrorExact'
  BY <1>13, <1>b DEF Finish
<1>14. ASSUME NEW c \in Conns, Connect(c) PROVE MirrorExact'
  BY <1>14, <1>b DEF Connect
<1>15. ASSUME NEW c \in Conns, Register(c) PROVE MirrorExact'
  <2>1. Open' = Open \cup {c} /\ c \notin Open /\ subscribers' = subscribers + 1
    BY <1>15 DEF Register
  <2> QED
    BY <2>1, <1>a, FS_AddElement DEF MirrorExact
<1>16. ASSUME NEW c \in Conns, StartInitial(c) PROVE MirrorExact'
  BY <1>16, <1>b DEF StartInitial
<1>17. ASSUME NEW c \in Conns, ShowInitial(c) PROVE MirrorExact'
  BY <1>17, <1>b DEF ShowInitial
<1>18. ASSUME NEW c \in Conns, TakeSnapshot(c) PROVE MirrorExact'
  BY <1>18, <1>b DEF TakeSnapshot
<1>19. ASSUME NEW c \in Conns, DropSnapshot(c) PROVE MirrorExact'
  BY <1>19, <1>b DEF DropSnapshot
<1>20. ASSUME NEW c \in Conns, TakeEvent(c) PROVE MirrorExact'
  BY <1>20, <1>b DEF TakeEvent
<1>21. ASSUME NEW c \in Conns, Close(c) PROVE MirrorExact'
  <2>1. Open' = Open \ {c} /\ c \in Open /\ subscribers' = subscribers - 1
    BY <1>21 DEF Close, Fewer
  <2> QED
    BY <2>1, <1>c DEF MirrorExact
<1>22. ASSUME NEW c \in Conns, NEW e \in Events, ReplayEvent(c, e) PROVE MirrorExact'
  BY <1>22, <1>b DEF ReplayEvent
<1>23. ASSUME NEW r \in Readers, NEW k \in Parts, ReadPart(r, k) PROVE MirrorExact'
  BY <1>23, <1>b DEF ReadPart
<1>24. ASSUME NEW r \in Readers, NEW k \in Parts, PartUnreadable(r, k) PROVE MirrorExact'
  BY <1>24, <1>b DEF PartUnreadable
<1>25. ASSUME NEW e \in Events, EmitToLoop(e) PROVE MirrorExact'
  BY <1>25, <1>b DEF EmitToLoop
<1>26. ASSUME NEW e \in Events, EmitFindsNoLoop(e) PROVE MirrorExact'
  BY <1>26, <1>b DEF EmitFindsNoLoop
<1>27. ASSUME NEW e \in Events, BufferEvent(e) PROVE MirrorExact'
  BY <1>27, <1>b DEF BufferEvent
<1>28. ASSUME NEW e \in Events, Expire(e) PROVE MirrorExact'
  BY <1>28, <1>b DEF Expire
<1>29. CASE RunCall
  BY <1>29, <1>b DEF RunCall
<1>30. CASE WindowPasses
  BY <1>30, <1>b DEF WindowPasses
<1> QED
  BY <1>1, <1>2, <1>3, <1>4, <1>5, <1>6, <1>7, <1>8, <1>9, <1>10, <1>11, <1>12, <1>13,
     <1>14, <1>15, <1>16, <1>17, <1>18, <1>19, <1>20, <1>21, <1>22, <1>23, <1>24,
     <1>25, <1>26, <1>27, <1>28, <1>29, <1>30
  DEF Next, JobStep, ConnStep, ReadStep, EmitStep

LEMMA ThrottledRunsStep == TypeOK /\ ThrottledRuns /\ [Next]_pendingVars => ThrottledRuns'
<1> SUFFICES ASSUME TypeOK, ThrottledRuns, [Next]_pendingVars PROVE ThrottledRuns'
  OBVIOUS
<1>m. /\ \A m \in Held(calls) : m.number \in Nat
      /\ \A c \in Conns : \A m \in Held(queue[c]) : m.number \in Nat
  BY HeldMessages
<1> USE BusAssumption DEF TypeOK, ThrottledRuns, Readers, Go, Skip, Pass, TakeNumber,
   Change,
      pendingVars, busVars, readVars, jobVars, connVars
<1>1. CASE UNCHANGED pendingVars
  BY <1>1 DEF pendingVars, busVars, readVars, jobVars, connVars
<1>2. ASSUME NEW j \in Jobs, NoLoop(j) PROVE ThrottledRuns'
  BY <1>2 DEF NoLoop
<1>3. ASSUME NEW j \in Jobs, LoopFound(j) PROVE ThrottledRuns'
  BY <1>3 DEF LoopFound
<1>4. ASSUME NEW j \in Jobs, NobodyWatches(j) PROVE ThrottledRuns'
  BY <1>4 DEF NobodyWatches
<1>5. ASSUME NEW j \in Jobs, Watched(j) PROVE ThrottledRuns'
  BY <1>5 DEF Watched
<1>6. ASSUME NEW j \in Jobs, TooSoon(j) PROVE ThrottledRuns'
  BY <1>6 DEF TooSoon
<1>7. ASSUME NEW j \in Jobs, WindowPassed(j) PROVE ThrottledRuns'
  BY <1>7 DEF WindowPassed
<1>8. ASSUME NEW j \in Jobs, StartRecompute(j) PROVE ThrottledRuns'
  BY <1>8 DEF StartRecompute
<1>9. ASSUME NEW j \in Jobs, RecomputeFails(j) PROVE ThrottledRuns'
  BY <1>9 DEF RecomputeFails
<1>10. ASSUME NEW j \in Jobs, HandToLoop(j) PROVE ThrottledRuns'
  BY <1>10 DEF HandToLoop
<1>11. ASSUME NEW j \in Jobs, NEW k \in Parts, Begin(j, k) PROVE ThrottledRuns'
  BY <1>11 DEF Begin
<1>12. ASSUME NEW j \in Jobs, NEW k \in Parts, Progress(j, k) PROVE ThrottledRuns'
  BY <1>12 DEF Progress
<1>13. ASSUME NEW j \in Jobs, NEW k \in Parts, Finish(j, k) PROVE ThrottledRuns'
  BY <1>13 DEF Finish
<1>14. ASSUME NEW c \in Conns, Connect(c) PROVE ThrottledRuns'
  BY <1>14 DEF Connect
<1>15. ASSUME NEW c \in Conns, Register(c) PROVE ThrottledRuns'
  BY <1>15 DEF Register
<1>16. ASSUME NEW c \in Conns, StartInitial(c) PROVE ThrottledRuns'
  BY <1>16 DEF StartInitial
<1>17. ASSUME NEW c \in Conns, ShowInitial(c) PROVE ThrottledRuns'
  BY <1>17 DEF ShowInitial
<1>18. ASSUME NEW c \in Conns, TakeSnapshot(c) PROVE ThrottledRuns'
  BY <1>18 DEF TakeSnapshot
<1>19. ASSUME NEW c \in Conns, DropSnapshot(c) PROVE ThrottledRuns'
  BY <1>19 DEF DropSnapshot
<1>20. ASSUME NEW c \in Conns, TakeEvent(c) PROVE ThrottledRuns'
  BY <1>20 DEF TakeEvent
<1>21. ASSUME NEW c \in Conns, Close(c) PROVE ThrottledRuns'
  BY <1>21 DEF Close
<1>22. ASSUME NEW c \in Conns, NEW e \in Events, ReplayEvent(c, e) PROVE ThrottledRuns'
  BY <1>22 DEF ReplayEvent
<1>23. ASSUME NEW r \in Readers, NEW k \in Parts, ReadPart(r, k) PROVE ThrottledRuns'
  BY <1>23 DEF ReadPart
<1>24. ASSUME NEW r \in Readers, NEW k \in Parts, PartUnreadable(r, k) PROVE ThrottledRuns'
  BY <1>24 DEF PartUnreadable
<1>25. ASSUME NEW e \in Events, EmitToLoop(e) PROVE ThrottledRuns'
  BY <1>25 DEF EmitToLoop
<1>26. ASSUME NEW e \in Events, EmitFindsNoLoop(e) PROVE ThrottledRuns'
  BY <1>26 DEF EmitFindsNoLoop
<1>27. ASSUME NEW e \in Events, BufferEvent(e) PROVE ThrottledRuns'
  BY <1>27 DEF BufferEvent
<1>28. ASSUME NEW e \in Events, Expire(e) PROVE ThrottledRuns'
  BY <1>28 DEF Expire
<1>29. CASE RunCall
  BY <1>29 DEF RunCall
<1>30. CASE WindowPasses
  BY <1>30 DEF WindowPasses
<1> QED
  BY <1>1, <1>2, <1>3, <1>4, <1>5, <1>6, <1>7, <1>8, <1>9, <1>10, <1>11, <1>12, <1>13,
     <1>14, <1>15, <1>16, <1>17, <1>18, <1>19, <1>20, <1>21, <1>22, <1>23, <1>24,
     <1>25, <1>26, <1>27, <1>28, <1>29, <1>30
  DEF Next, JobStep, ConnStep, ReadStep, EmitStep

LEMMA LoopFirstStep == TypeOK /\ LoopFirst /\ [Next]_pendingVars => LoopFirst'
<1> SUFFICES ASSUME TypeOK, LoopFirst, [Next]_pendingVars PROVE LoopFirst'
  OBVIOUS
<1>m. /\ \A m \in Held(calls) : m.number \in Nat
      /\ \A c \in Conns : \A m \in Held(queue[c]) : m.number \in Nat
  BY HeldMessages
<1> USE BusAssumption DEF TypeOK, LoopFirst, Readers, Go, Skip, Pass, TakeNumber, Change,
      pendingVars, busVars, readVars, jobVars, connVars
<1>1. CASE UNCHANGED pendingVars
  BY <1>1 DEF pendingVars, busVars, readVars, jobVars, connVars
<1>2. ASSUME NEW j \in Jobs, NoLoop(j) PROVE LoopFirst'
  BY <1>2 DEF NoLoop
<1>3. ASSUME NEW j \in Jobs, LoopFound(j) PROVE LoopFirst'
  BY <1>3 DEF LoopFound
<1>4. ASSUME NEW j \in Jobs, NobodyWatches(j) PROVE LoopFirst'
  BY <1>4 DEF NobodyWatches
<1>5. ASSUME NEW j \in Jobs, Watched(j) PROVE LoopFirst'
  BY <1>5 DEF Watched
<1>6. ASSUME NEW j \in Jobs, TooSoon(j) PROVE LoopFirst'
  BY <1>6 DEF TooSoon
<1>7. ASSUME NEW j \in Jobs, WindowPassed(j) PROVE LoopFirst'
  BY <1>7 DEF WindowPassed
<1>8. ASSUME NEW j \in Jobs, StartRecompute(j) PROVE LoopFirst'
  BY <1>8 DEF StartRecompute
<1>9. ASSUME NEW j \in Jobs, RecomputeFails(j) PROVE LoopFirst'
  BY <1>9 DEF RecomputeFails
<1>10. ASSUME NEW j \in Jobs, HandToLoop(j) PROVE LoopFirst'
  BY <1>10 DEF HandToLoop
<1>11. ASSUME NEW j \in Jobs, NEW k \in Parts, Begin(j, k) PROVE LoopFirst'
  BY <1>11 DEF Begin
<1>12. ASSUME NEW j \in Jobs, NEW k \in Parts, Progress(j, k) PROVE LoopFirst'
  BY <1>12 DEF Progress
<1>13. ASSUME NEW j \in Jobs, NEW k \in Parts, Finish(j, k) PROVE LoopFirst'
  BY <1>13 DEF Finish
<1>14. ASSUME NEW c \in Conns, Connect(c) PROVE LoopFirst'
  BY <1>14 DEF Connect
<1>15. ASSUME NEW c \in Conns, Register(c) PROVE LoopFirst'
  BY <1>15 DEF Register
<1>16. ASSUME NEW c \in Conns, StartInitial(c) PROVE LoopFirst'
  BY <1>16 DEF StartInitial
<1>17. ASSUME NEW c \in Conns, ShowInitial(c) PROVE LoopFirst'
  BY <1>17 DEF ShowInitial
<1>18. ASSUME NEW c \in Conns, TakeSnapshot(c) PROVE LoopFirst'
  BY <1>18 DEF TakeSnapshot
<1>19. ASSUME NEW c \in Conns, DropSnapshot(c) PROVE LoopFirst'
  BY <1>19 DEF DropSnapshot
<1>20. ASSUME NEW c \in Conns, TakeEvent(c) PROVE LoopFirst'
  BY <1>20 DEF TakeEvent
<1>21. ASSUME NEW c \in Conns, Close(c) PROVE LoopFirst'
  BY <1>21 DEF Close, Open
<1>22. ASSUME NEW c \in Conns, NEW e \in Events, ReplayEvent(c, e) PROVE LoopFirst'
  BY <1>22 DEF ReplayEvent
<1>23. ASSUME NEW r \in Readers, NEW k \in Parts, ReadPart(r, k) PROVE LoopFirst'
  BY <1>23 DEF ReadPart
<1>24. ASSUME NEW r \in Readers, NEW k \in Parts, PartUnreadable(r, k) PROVE LoopFirst'
  BY <1>24 DEF PartUnreadable
<1>25. ASSUME NEW e \in Events, EmitToLoop(e) PROVE LoopFirst'
  BY <1>25 DEF EmitToLoop
<1>26. ASSUME NEW e \in Events, EmitFindsNoLoop(e) PROVE LoopFirst'
  BY <1>26 DEF EmitFindsNoLoop
<1>27. ASSUME NEW e \in Events, BufferEvent(e) PROVE LoopFirst'
  BY <1>27 DEF BufferEvent
<1>28. ASSUME NEW e \in Events, Expire(e) PROVE LoopFirst'
  BY <1>28 DEF Expire
<1>29. CASE RunCall
  BY <1>29 DEF RunCall
<1>30. CASE WindowPasses
  BY <1>30 DEF WindowPasses
<1> QED
  BY <1>1, <1>2, <1>3, <1>4, <1>5, <1>6, <1>7, <1>8, <1>9, <1>10, <1>11, <1>12, <1>13,
     <1>14, <1>15, <1>16, <1>17, <1>18, <1>19, <1>20, <1>21, <1>22, <1>23, <1>24,
     <1>25, <1>26, <1>27, <1>28, <1>29, <1>30
  DEF Next, JobStep, ConnStep, ReadStep, EmitStep

LEMMA NumbersGivenStep == TypeOK /\ NumbersGiven /\ [Next]_pendingVars => NumbersGiven'
<1> SUFFICES ASSUME TypeOK, NumbersGiven, [Next]_pendingVars PROVE NumbersGiven'
  OBVIOUS
<1>m. /\ \A m \in Held(calls) : m.number \in Nat
      /\ \A c \in Conns : \A m \in Held(queue[c]) : m.number \in Nat
  BY HeldMessages
<1> USE BusAssumption DEF TypeOK, NumbersGiven, Readers, Go, Skip, Pass, Change,
      pendingVars, busVars, readVars, jobVars, connVars
<1>1. CASE UNCHANGED pendingVars
  BY <1>1 DEF pendingVars, busVars, readVars, jobVars, connVars
<1>2. ASSUME NEW j \in Jobs, NoLoop(j) PROVE NumbersGiven'
  BY <1>2 DEF NoLoop
<1>3. ASSUME NEW j \in Jobs, LoopFound(j) PROVE NumbersGiven'
  BY <1>3 DEF LoopFound
<1>4. ASSUME NEW j \in Jobs, NobodyWatches(j) PROVE NumbersGiven'
  BY <1>4 DEF NobodyWatches
<1>5. ASSUME NEW j \in Jobs, Watched(j) PROVE NumbersGiven'
  BY <1>5 DEF Watched
<1>6. ASSUME NEW j \in Jobs, TooSoon(j) PROVE NumbersGiven'
  BY <1>6 DEF TooSoon
<1>7. ASSUME NEW j \in Jobs, WindowPassed(j) PROVE NumbersGiven'
  BY <1>7 DEF WindowPassed
<1>8. ASSUME NEW j \in Jobs, StartRecompute(j) PROVE NumbersGiven'
  BY <1>8, <1>m DEF StartRecompute, TakeNumber
<1>9. ASSUME NEW j \in Jobs, RecomputeFails(j) PROVE NumbersGiven'
  BY <1>9 DEF RecomputeFails, Forget
<1>10. ASSUME NEW j \in Jobs, HandToLoop(j) PROVE NumbersGiven'
  <2>1. Snapshot(number[j], seen[j]) \in Messages
    BY <1>10, SnapshotType DEF HandToLoop
  <2>2. Held(calls') = Held(calls) \cup {Snapshot(number[j], seen[j])}
    BY <1>10, <2>1, HeldAppend DEF HandToLoop
  <2> QED
    BY <1>10, <2>2 DEF HandToLoop, Snapshot, Forget
<1>11. ASSUME NEW j \in Jobs, NEW k \in Parts, Begin(j, k) PROVE NumbersGiven'
  BY <1>11 DEF Begin
<1>12. ASSUME NEW j \in Jobs, NEW k \in Parts, Progress(j, k) PROVE NumbersGiven'
  BY <1>12 DEF Progress
<1>13. ASSUME NEW j \in Jobs, NEW k \in Parts, Finish(j, k) PROVE NumbersGiven'
  BY <1>13 DEF Finish
<1>14. ASSUME NEW c \in Conns, Connect(c) PROVE NumbersGiven'
  BY <1>14 DEF Connect
<1>15. ASSUME NEW c \in Conns, Register(c) PROVE NumbersGiven'
  BY <1>15 DEF Register
<1>16. ASSUME NEW c \in Conns, StartInitial(c) PROVE NumbersGiven'
  BY <1>16, <1>m DEF StartInitial, TakeNumber
<1>17. ASSUME NEW c \in Conns, ShowInitial(c) PROVE NumbersGiven'
  BY <1>17 DEF ShowInitial
<1>18. ASSUME NEW c \in Conns, TakeSnapshot(c) PROVE NumbersGiven'
  <2>1. Held(queue[c]) = {Head(queue[c])} \cup Held(Tail(queue[c]))
    BY <1>18, HeldTail DEF TakeSnapshot
  <2> QED
    BY <1>18, <2>1 DEF TakeSnapshot
<1>19. ASSUME NEW c \in Conns, DropSnapshot(c) PROVE NumbersGiven'
  <2>1. Held(queue[c]) = {Head(queue[c])} \cup Held(Tail(queue[c]))
    BY <1>19, HeldTail DEF DropSnapshot
  <2> QED
    BY <1>19, <2>1 DEF DropSnapshot
<1>20. ASSUME NEW c \in Conns, TakeEvent(c) PROVE NumbersGiven'
  <2>1. Held(queue[c]) = {Head(queue[c])} \cup Held(Tail(queue[c]))
    BY <1>20, HeldTail DEF TakeEvent
  <2> QED
    BY <1>20, <2>1 DEF TakeEvent
<1>21. ASSUME NEW c \in Conns, Close(c) PROVE NumbersGiven'
  BY <1>21 DEF Close, Forget
<1>22. ASSUME NEW c \in Conns, NEW e \in Events, ReplayEvent(c, e) PROVE NumbersGiven'
  BY <1>22 DEF ReplayEvent
<1>23. ASSUME NEW r \in Readers, NEW k \in Parts, ReadPart(r, k) PROVE NumbersGiven'
  BY <1>23 DEF ReadPart
<1>24. ASSUME NEW r \in Readers, NEW k \in Parts, PartUnreadable(r, k) PROVE NumbersGiven'
  BY <1>24 DEF PartUnreadable
<1>25. ASSUME NEW e \in Events, EmitToLoop(e) PROVE NumbersGiven'
  <2>1. Held(calls') = Held(calls) \cup {Event(e)}
    BY <1>25, EventType, HeldAppend DEF EmitToLoop
  <2> QED
    BY <1>25, <2>1 DEF EmitToLoop, Event
<1>26. ASSUME NEW e \in Events, EmitFindsNoLoop(e) PROVE NumbersGiven'
  BY <1>26 DEF EmitFindsNoLoop
<1>27. ASSUME NEW e \in Events, BufferEvent(e) PROVE NumbersGiven'
  BY <1>27 DEF BufferEvent
<1>28. ASSUME NEW e \in Events, Expire(e) PROVE NumbersGiven'
  BY <1>28 DEF Expire
<1>29. CASE RunCall
  <2>1. Head(calls) \in Messages /\ Held(calls) = {Head(calls)} \cup Held(calls')
    BY <1>29, HeldTail DEF RunCall
  <2>2. \A c \in Conns : Held(queue'[c]) \subseteq Held(queue[c]) \cup {Head(calls)}
    BY <1>29, <2>1, HeldAppend DEF RunCall, ToEveryQueue
  <2> QED
    BY <1>29, <2>1, <2>2 DEF RunCall
<1>30. CASE WindowPasses
  BY <1>30 DEF WindowPasses
<1> QED
  BY <1>1, <1>2, <1>3, <1>4, <1>5, <1>6, <1>7, <1>8, <1>9, <1>10, <1>11, <1>12, <1>13,
     <1>14, <1>15, <1>16, <1>17, <1>18, <1>19, <1>20, <1>21, <1>22, <1>23, <1>24,
     <1>25, <1>26, <1>27, <1>28, <1>29, <1>30
  DEF Next, JobStep, ConnStep, ReadStep, EmitStep

-----------------------------------------------------------------------------
(* A step that leaves jobs owing has nothing to show; any other keeps the   *)
(* threshold t, or sets a new one when the last job stops owing.            *)

LEMMA CoveredStep == BusInv /\ [Next]_pendingVars => Covered'
<1> SUFFICES ASSUME BusInv, [Next]_pendingVars, ~Owing' PROVE Covered'
  BY DEF Covered
<1>a. TypeOK /\ ThrottledRuns /\ LoopFirst /\ NumbersGiven
  BY DEF BusInv
<1>m. /\ \A m \in Held(calls) : m.number \in Nat
      /\ \A c \in Conns : \A m \in Held(queue[c]) : m.number \in Nat
  BY HeldMessages, <1>a
<1>n. lastNumber \in Nat
  BY <1>a DEF TypeOK
<1>p. ASSUME ~Owing
      PROVE  \E t \in Nat : t <= lastNumber + 1 /\ FreshFrom(t) /\ AllComing(t)
  BY <1>p DEF BusInv, Covered
<1> USE DEF TypeOK, Go, Skip, Pass, Forget, TakeNumber, Change, Readers,
        jobVars, readVars, busVars, connVars
<1>1. CASE UNCHANGED pendingVars
  <2>1. ~Owing
    BY <1>1, <1>a DEF pendingVars, Owing
  <2>2. PICK t \in Nat : t <= lastNumber + 1 /\ FreshFrom(t) /\ AllComing(t)
    BY <2>1, <1>p
  <2>3. FreshFrom(t)'
    BY <1>1, <2>2, <1>a, <1>m DEF pendingVars, FreshFrom, Fresh
  <2>4. AllComing(t)'
    BY <1>1, <2>2, <1>a, <1>m DEF pendingVars, AllComing, Coming, Open
  <2>5. t <= lastNumber' + 1
    BY <1>1, <1>n, <2>2 DEF pendingVars
  <2> QED
    BY <2>2, <2>3, <2>4, <2>5, Zenon DEF Covered
<1>2. ASSUME NEW j \in Jobs, NoLoop(j) PROVE Covered'
  <2>1. Open' = {}
    BY <1>2, <1>a DEF NoLoop, LoopFirst, Open
  <2>2. PICK t \in Nat : t = lastNumber + 1
    BY <1>n
  <2>3. FreshFrom(t)'
    BY <1>2, <2>2, <1>a, <1>m, <1>n DEF NoLoop, FreshFrom, NumbersGiven
  <2>4. AllComing(t)'
    BY <2>1 DEF AllComing
  <2>5. t <= lastNumber' + 1
    BY <1>2, <1>n, <2>2 DEF NoLoop
  <2> QED
    BY <2>2, <2>3, <2>4, <2>5, Zenon DEF Covered
<1>3. ASSUME NEW j \in Jobs, LoopFound(j) PROVE Covered'
  <2>1. Owing'
    BY <1>3, <1>a DEF LoopFound, Owing, ThrottledRuns
  <2> QED
    BY <2>1
<1>4. ASSUME NEW j \in Jobs, NobodyWatches(j) PROVE Covered'
  <2>1. Open' = {}
    <3>1. Open = {}
      <4>1. IsFiniteSet(Open) /\ Cardinality(Open) = 0
        BY <1>4, <1>a, BusAssumption, FS_Subset DEF NobodyWatches, MirrorExact, BusInv, Open
      <4> QED
        BY <4>1, FS_EmptySet
    <3> QED
      BY <1>4, <3>1, <1>a, BusAssumption DEF NobodyWatches, Open
  <2>2. PICK t \in Nat : t = lastNumber + 1
    BY <1>n
  <2>3. FreshFrom(t)'
    BY <1>4, <2>2, <1>a, <1>m, <1>n DEF NobodyWatches, FreshFrom, NumbersGiven
  <2>4. AllComing(t)'
    BY <2>1 DEF AllComing
  <2>5. t <= lastNumber' + 1
    BY <1>4, <1>n, <2>2 DEF NobodyWatches
  <2> QED
    BY <2>2, <2>3, <2>4, <2>5, Zenon DEF Covered
<1>5. ASSUME NEW j \in Jobs, Watched(j) PROVE Covered'
  <2>1. Owing'
    BY <1>5, <1>a DEF Watched, Owing, ThrottledRuns
  <2> QED
    BY <2>1
<1>6. ASSUME NEW j \in Jobs, TooSoon(j) PROVE Covered'
  <2>1. Owing'
    BY <1>6, <1>a DEF TooSoon, Owing, ThrottledRuns
  <2> QED
    BY <2>1
<1>7. ASSUME NEW j \in Jobs, WindowPassed(j) PROVE Covered'
  <2>1. Owing'
    BY <1>7, <1>a DEF WindowPassed, Owing, ThrottledRuns
  <2> QED
    BY <2>1
<1>8. ASSUME NEW j \in Jobs, StartRecompute(j) PROVE Covered'
  <2>2. PICK t \in Nat : t = lastNumber + 1
    BY <1>n
  <2>3. FreshFrom(t)'
    BY <1>8, <2>2, <1>a, <1>m, <1>n DEF StartRecompute, FreshFrom, Fresh, Unread,
       NumbersGiven
  <2>4. AllComing(t)'
    BY <1>8, <2>2, <1>a, <1>n DEF StartRecompute, AllComing, Coming, Open
  <2>5. t <= lastNumber' + 1
    BY <1>8, <1>n, <2>2 DEF StartRecompute
  <2> QED
    BY <2>2, <2>3, <2>4, <2>5, Zenon DEF Covered
<1>9. ASSUME NEW j \in Jobs, RecomputeFails(j) PROVE Covered'
  <2>1. ~Owing
    BY <1>9, <1>a DEF RecomputeFails, Owing
  <2>2. PICK t \in Nat : t <= lastNumber + 1 /\ FreshFrom(t) /\ AllComing(t)
    BY <2>1, <1>p
  <2>3. FreshFrom(t)'
    BY <1>9, <2>2, <1>a, <1>m DEF RecomputeFails, FreshFrom, Fresh
  <2>4. AllComing(t)'
    <3> SUFFICES ASSUME NEW d \in Conns, d \in Open' PROVE Coming(d, t)'
      BY DEF AllComing, Open
    <3>1. d \in Open /\ Coming(d, t)
      BY <1>9, <2>2, <1>a DEF RecomputeFails, AllComing, Open
    <3> QED
      BY <1>9, <3>1, <1>a, <1>m DEF RecomputeFails, HigherOf, Coming
  <2>5. t <= lastNumber' + 1
    BY <1>9, <1>n, <2>2 DEF RecomputeFails
  <2> QED
    BY <2>2, <2>3, <2>4, <2>5, Zenon DEF Covered
<1>10. ASSUME NEW j \in Jobs, HandToLoop(j) PROVE Covered'
  <2>1. ~Owing
    BY <1>10, <1>a DEF HandToLoop, Owing
  <2>2. PICK t \in Nat : t <= lastNumber + 1 /\ FreshFrom(t) /\ AllComing(t)
    BY <2>1, <1>p
  <2>h. Snapshot(number[j], seen[j]) \in Messages
    BY <1>a, SnapshotType
  <2>i. Held(calls') = Held(calls) \cup {Snapshot(number[j], seen[j])}
    BY <1>10, <1>a, <2>h, HeldAppend DEF HandToLoop
  <2>j. /\ Snapshot(number[j], seen[j]).number = number[j]
        /\ Snapshot(number[j], seen[j]).seen = seen[j]
        /\ Snapshot(number[j], seen[j]).event = NoEvent
    BY DEF Snapshot
  <2>3. FreshFrom(t)'
    <3>1. number[j] >= t => Fresh(seen[j])
      BY <1>10, <2>2 DEF HandToLoop, FreshFrom
    <3>2. world' = world
      BY <1>10 DEF HandToLoop
    <3>3. \A m \in Held(calls') : m.number >= t => Fresh(m.seen)
      BY <2>i, <2>j, <3>1, <2>2 DEF FreshFrom
    <3> QED
      BY <1>10, <2>2, <3>2, <3>3, <1>a DEF HandToLoop, FreshFrom, Fresh
  <2>4. AllComing(t)'
    <3> SUFFICES ASSUME NEW d \in Conns, d \in Open' PROVE Coming(d, t)'
      BY DEF AllComing, Open
    <3>1. d \in Open /\ Coming(d, t) /\ d # j
      BY <1>10, <2>2, <1>a, BusAssumption DEF HandToLoop, AllComing, Open
    <3>2. CASE number[j] >= t
      BY <3>2, <2>i, <2>j DEF Coming
    <3>3. CASE ~(number[j] >= t)
      BY <1>10, <3>1, <3>3, <2>i, <1>a DEF HandToLoop, Coming
    <3> QED
      BY <3>2, <3>3
  <2>5. t <= lastNumber' + 1
    BY <1>10, <1>n, <2>2 DEF HandToLoop
  <2> QED
    BY <2>2, <2>3, <2>4, <2>5, Zenon DEF Covered
<1>11. ASSUME NEW j \in Jobs, NEW k \in Parts, Begin(j, k) PROVE Covered'
  <2>1. Owing'
    BY <1>11, <1>a DEF Begin, Owing, ThrottledRuns
  <2> QED
    BY <2>1
<1>12. ASSUME NEW j \in Jobs, NEW k \in Parts, Progress(j, k) PROVE Covered'
  <2>1. Owing'
    BY <1>12, <1>a DEF Progress, Owing, ThrottledRuns
  <2> QED
    BY <2>1
<1>13. ASSUME NEW j \in Jobs, NEW k \in Parts, Finish(j, k) PROVE Covered'
  <2>1. Owing'
    BY <1>13, <1>a DEF Finish, Owing, ThrottledRuns
  <2> QED
    BY <2>1
<1>14. ASSUME NEW c \in Conns, Connect(c) PROVE Covered'
  <2>1. ~Owing
    BY <1>14, <1>a DEF Connect, Owing
  <2>2. PICK t \in Nat : t <= lastNumber + 1 /\ FreshFrom(t) /\ AllComing(t)
    BY <2>1, <1>p
  <2>3. FreshFrom(t)'
    BY <1>14, <2>2, <1>a, <1>m DEF Connect, FreshFrom, Fresh
  <2>4. AllComing(t)'
    BY <1>14, <2>2, <1>a, <1>m DEF Connect, AllComing, Coming, Open
  <2>5. t <= lastNumber' + 1
    BY <1>14, <1>n, <2>2 DEF Connect
  <2> QED
    BY <2>2, <2>3, <2>4, <2>5, Zenon DEF Covered
<1>15. ASSUME NEW c \in Conns, Register(c) PROVE Covered'
  <2>1. ~Owing
    BY <1>15, <1>a DEF Register, Owing
  <2>2. PICK t \in Nat : t <= lastNumber + 1 /\ FreshFrom(t) /\ AllComing(t)
    BY <2>1, <1>p
  <2>3. FreshFrom(t)'
    BY <1>15, <2>2, <1>a, <1>m DEF Register, FreshFrom, Fresh
  <2>4. AllComing(t)'
    <3> SUFFICES ASSUME NEW d \in Conns, d \in Open' PROVE Coming(d, t)'
      BY DEF AllComing, Open
    <3> QED
      BY <1>15, <2>2, <1>a DEF Register, AllComing, Coming, Open
  <2>5. t <= lastNumber' + 1
    BY <1>15, <1>n, <2>2 DEF Register
  <2> QED
    BY <2>2, <2>3, <2>4, <2>5, Zenon DEF Covered
<1>16. ASSUME NEW c \in Conns, StartInitial(c) PROVE Covered'
  <2>1. ~Owing
    BY <1>16, <1>a DEF StartInitial, Owing
  <2>2. PICK t \in Nat : t <= lastNumber + 1 /\ FreshFrom(t) /\ AllComing(t)
    BY <2>1, <1>p
  <2>3. FreshFrom(t)'
    BY <1>16, <2>2, <1>a, <1>m DEF StartInitial, FreshFrom, Fresh, Unread
  <2>4. AllComing(t)'
    <3> SUFFICES ASSUME NEW d \in Conns, d \in Open' PROVE Coming(d, t)'
      BY DEF AllComing, Open
    <3>1. d \in Open /\ Coming(d, t)
      BY <1>16, <2>2, <1>a DEF StartInitial, AllComing, Open
    <3> QED
      BY <1>16, <3>1, <1>a, <1>m, <1>n, <2>2 DEF StartInitial, Coming
  <2>5. t <= lastNumber' + 1
    BY <1>16, <1>n, <2>2 DEF StartInitial
  <2> QED
    BY <2>2, <2>3, <2>4, <2>5, Zenon DEF Covered
<1>17. ASSUME NEW c \in Conns, ShowInitial(c) PROVE Covered'
  <2>1. ~Owing
    BY <1>17, <1>a DEF ShowInitial, Owing
  <2>2. PICK t \in Nat : t <= lastNumber + 1 /\ FreshFrom(t) /\ AllComing(t)
    BY <2>1, <1>p
  <2>3. FreshFrom(t)'
    BY <1>17, <2>2, <1>a, <1>m DEF ShowInitial, FreshFrom, Fresh
  <2>4. AllComing(t)'
    <3> SUFFICES ASSUME NEW d \in Conns, d \in Open' PROVE Coming(d, t)'
      BY DEF AllComing, Open
    <3>1. d \in Open /\ Coming(d, t)
      BY <1>17, <2>2, <1>a DEF ShowInitial, AllComing, Open
    <3> QED
      BY <1>17, <3>1, <1>a, <1>m, BusAssumption DEF ShowInitial, Coming
  <2>5. t <= lastNumber' + 1
    BY <1>17, <1>n, <2>2 DEF ShowInitial
  <2> QED
    BY <2>2, <2>3, <2>4, <2>5, Zenon DEF Covered
<1>18. ASSUME NEW c \in Conns, TakeSnapshot(c) PROVE Covered'
  <2>1. ~Owing
    BY <1>18, <1>a DEF TakeSnapshot, Owing
  <2>2. PICK t \in Nat : t <= lastNumber + 1 /\ FreshFrom(t) /\ AllComing(t)
    BY <2>1, <1>p
  <2>h. /\ Head(queue[c]) \in Messages
        /\ Held(queue[c]) = {Head(queue[c])} \cup Held(Tail(queue[c]))
    BY <1>18, <1>a, HeldTail DEF TakeSnapshot
  <2>3. FreshFrom(t)'
    BY <1>18, <2>h, <2>2, <1>a, <1>m DEF TakeSnapshot, FreshFrom, Fresh
  <2>4. AllComing(t)'
    <3> SUFFICES ASSUME NEW d \in Conns, d \in Open' PROVE Coming(d, t)'
      BY DEF AllComing, Open
    <3>1. d \in Open /\ Coming(d, t)
      BY <1>18, <2>2, <1>a DEF TakeSnapshot, AllComing, Open
    <3>2. Head(queue[c]).number \in Nat /\ number[c] \in Nat
      BY <2>h, <1>a DEF Messages
    <3>3. CASE d # c
      BY <1>18, <3>1, <3>3, <1>a, BusAssumption DEF TakeSnapshot, Coming
    <3>4. CASE d = c
      BY <1>18, <3>1, <3>2, <3>4, <2>h, <1>a, BusAssumption DEF TakeSnapshot,
         Superseded, Coming
    <3> QED
      BY <3>3, <3>4
  <2>5. t <= lastNumber' + 1
    BY <1>18, <1>n, <2>2 DEF TakeSnapshot
  <2> QED
    BY <2>2, <2>3, <2>4, <2>5, Zenon DEF Covered
<1>19. ASSUME NEW c \in Conns, DropSnapshot(c) PROVE Covered'
  <2>1. ~Owing
    BY <1>19, <1>a DEF DropSnapshot, Owing
  <2>2. PICK t \in Nat : t <= lastNumber + 1 /\ FreshFrom(t) /\ AllComing(t)
    BY <2>1, <1>p
  <2>h. /\ Head(queue[c]) \in Messages
        /\ Held(queue[c]) = {Head(queue[c])} \cup Held(Tail(queue[c]))
    BY <1>19, <1>a, HeldTail DEF DropSnapshot
  <2>3. FreshFrom(t)'
    BY <1>19, <2>h, <2>2, <1>a, <1>m DEF DropSnapshot, FreshFrom, Fresh
  <2>4. AllComing(t)'
    <3> SUFFICES ASSUME NEW d \in Conns, d \in Open' PROVE Coming(d, t)'
      BY DEF AllComing, Open
    <3>1. d \in Open /\ Coming(d, t)
      BY <1>19, <2>2, <1>a DEF DropSnapshot, AllComing, Open
    <3>2. Head(queue[c]).number \in Nat /\ number[c] \in Nat
      BY <2>h, <1>a DEF Messages
    <3>3. CASE d # c
      BY <1>19, <3>1, <3>3, <1>a, BusAssumption DEF DropSnapshot, Coming
    <3>4. CASE d = c
      BY <1>19, <3>1, <3>2, <3>4, <2>h, <1>a, BusAssumption DEF DropSnapshot,
         Superseded, Coming
    <3> QED
      BY <3>3, <3>4
  <2>5. t <= lastNumber' + 1
    BY <1>19, <1>n, <2>2 DEF DropSnapshot
  <2> QED
    BY <2>2, <2>3, <2>4, <2>5, Zenon DEF Covered
<1>20. ASSUME NEW c \in Conns, TakeEvent(c) PROVE Covered'
  <2>1. ~Owing
    BY <1>20, <1>a DEF TakeEvent, Owing
  <2>2. PICK t \in Nat : t <= lastNumber + 1 /\ FreshFrom(t) /\ AllComing(t)
    BY <2>1, <1>p
  <2>h. /\ Head(queue[c]) \in Messages
        /\ Held(queue[c]) = {Head(queue[c])} \cup Held(Tail(queue[c]))
    BY <1>20, <1>a, HeldTail DEF TakeEvent
  <2>3. FreshFrom(t)'
    BY <1>20, <2>h, <2>2, <1>a, <1>m DEF TakeEvent, FreshFrom, Fresh
  <2>4. AllComing(t)'
    <3> SUFFICES ASSUME NEW d \in Conns, d \in Open' PROVE Coming(d, t)'
      BY DEF AllComing, Open
    <3>1. d \in Open /\ Coming(d, t)
      BY <1>20, <2>2, <1>a DEF TakeEvent, AllComing, Open
    <3> QED
      BY <1>20, <3>1, <1>a, <1>m, <2>h DEF TakeEvent, Coming
  <2>5. t <= lastNumber' + 1
    BY <1>20, <1>n, <2>2 DEF TakeEvent
  <2> QED
    BY <2>2, <2>3, <2>4, <2>5, Zenon DEF Covered
<1>21. ASSUME NEW c \in Conns, Close(c) PROVE Covered'
  <2>1. ~Owing
    BY <1>21, <1>a DEF Close, Owing
  <2>2. PICK t \in Nat : t <= lastNumber + 1 /\ FreshFrom(t) /\ AllComing(t)
    BY <2>1, <1>p
  <2>3. FreshFrom(t)'
    BY <1>21, <2>2, <1>a, <1>m DEF Close, Open, FreshFrom, Fresh
  <2>4. AllComing(t)'
    <3> SUFFICES ASSUME NEW d \in Conns, d \in Open' PROVE Coming(d, t)'
      BY DEF AllComing, Open
    <3>1. d \in Open /\ Coming(d, t)
      BY <1>21, <2>2, <1>a DEF Close, AllComing, Open
    <3> QED
      BY <1>21, <3>1, <1>a, <1>m, BusAssumption DEF Close, Coming, Open
  <2>5. t <= lastNumber' + 1
    BY <1>21, <1>n, <2>2 DEF Close
  <2> QED
    BY <2>2, <2>3, <2>4, <2>5, Zenon DEF Covered
<1>22. ASSUME NEW c \in Conns, NEW e \in Events, ReplayEvent(c, e) PROVE Covered'
  <2>1. ~Owing
    BY <1>22, <1>a DEF ReplayEvent, Owing
  <2>2. PICK t \in Nat : t <= lastNumber + 1 /\ FreshFrom(t) /\ AllComing(t)
    BY <2>1, <1>p
  <2>3. FreshFrom(t)'
    BY <1>22, <2>2, <1>a, <1>m DEF ReplayEvent, FreshFrom, Fresh
  <2>4. AllComing(t)'
    BY <1>22, <2>2, <1>a, <1>m DEF ReplayEvent, AllComing, Coming, Open
  <2>5. t <= lastNumber' + 1
    BY <1>22, <1>n, <2>2 DEF ReplayEvent
  <2> QED
    BY <2>2, <2>3, <2>4, <2>5, Zenon DEF Covered
<1>23. ASSUME NEW r \in Readers, NEW k \in Parts, ReadPart(r, k) PROVE Covered'
  <2>1. ~Owing
    BY <1>23, <1>a DEF ReadPart, Owing
  <2>2. PICK t \in Nat : t <= lastNumber + 1 /\ FreshFrom(t) /\ AllComing(t)
    BY <2>1, <1>p
  <2>3. FreshFrom(t)'
    BY <1>23, <2>2, <1>a, <1>m DEF ReadPart, FreshFrom, Fresh
  <2>4. AllComing(t)'
    BY <1>23, <2>2, <1>a, <1>m DEF ReadPart, AllComing, Coming, Open
  <2>5. t <= lastNumber' + 1
    BY <1>23, <1>n, <2>2 DEF ReadPart
  <2> QED
    BY <2>2, <2>3, <2>4, <2>5, Zenon DEF Covered
<1>24. ASSUME NEW r \in Readers, NEW k \in Parts, PartUnreadable(r, k) PROVE Covered'
  <2>1. ~Owing
    BY <1>24, <1>a DEF PartUnreadable, Owing
  <2>2. PICK t \in Nat : t <= lastNumber + 1 /\ FreshFrom(t) /\ AllComing(t)
    BY <2>1, <1>p
  <2>3. FreshFrom(t)'
    BY <1>24, <2>2, <1>a, <1>m DEF PartUnreadable, FreshFrom, Fresh
  <2>4. AllComing(t)'
    BY <1>24, <2>2, <1>a, <1>m DEF PartUnreadable, AllComing, Coming, Open
  <2>5. t <= lastNumber' + 1
    BY <1>24, <1>n, <2>2 DEF PartUnreadable
  <2> QED
    BY <2>2, <2>3, <2>4, <2>5, Zenon DEF Covered
<1>25. ASSUME NEW e \in Events, EmitToLoop(e) PROVE Covered'
  <2>1. ~Owing
    BY <1>25, <1>a DEF EmitToLoop, Owing
  <2>2. PICK t \in Nat : t <= lastNumber + 1 /\ FreshFrom(t) /\ AllComing(t)
    BY <2>1, <1>p
  <2>h. Held(calls') = Held(calls) \cup {Event(e)}
    BY <1>25, <1>a, EventType, HeldAppend DEF EmitToLoop
  <2>3. FreshFrom(t)'
    <3>1. Fresh(Event(e).seen) /\ world' = world
      BY <1>25 DEF EmitToLoop, Event, Unread, Fresh
    <3>2. \A m \in Held(calls') : m.number >= t => Fresh(m.seen)
      BY <2>h, <3>1, <2>2 DEF FreshFrom
    <3> QED
      BY <1>25, <2>2, <3>1, <3>2 DEF EmitToLoop, FreshFrom, Fresh
  <2>4. AllComing(t)'
    <3> SUFFICES ASSUME NEW d \in Conns, d \in Open' PROVE Coming(d, t)'
      BY DEF AllComing, Open
    <3>1. d \in Open /\ Coming(d, t)
      BY <1>25, <2>2, <1>a DEF EmitToLoop, AllComing, Open
    <3> QED
      BY <1>25, <3>1, <1>a, <1>m, <2>h DEF EmitToLoop, Coming
  <2>5. t <= lastNumber' + 1
    BY <1>25, <1>n, <2>2 DEF EmitToLoop
  <2> QED
    BY <2>2, <2>3, <2>4, <2>5, Zenon DEF Covered
<1>26. ASSUME NEW e \in Events, EmitFindsNoLoop(e) PROVE Covered'
  <2>1. ~Owing
    BY <1>26, <1>a DEF EmitFindsNoLoop, Owing
  <2>2. PICK t \in Nat : t <= lastNumber + 1 /\ FreshFrom(t) /\ AllComing(t)
    BY <2>1, <1>p
  <2>3. FreshFrom(t)'
    BY <1>26, <2>2, <1>a, <1>m DEF EmitFindsNoLoop, FreshFrom, Fresh
  <2>4. AllComing(t)'
    BY <1>26, <2>2, <1>a, <1>m DEF EmitFindsNoLoop, AllComing, Coming, Open
  <2>5. t <= lastNumber' + 1
    BY <1>26, <1>n, <2>2 DEF EmitFindsNoLoop
  <2> QED
    BY <2>2, <2>3, <2>4, <2>5, Zenon DEF Covered
<1>27. ASSUME NEW e \in Events, BufferEvent(e) PROVE Covered'
  <2>1. ~Owing
    BY <1>27, <1>a DEF BufferEvent, Owing
  <2>2. PICK t \in Nat : t <= lastNumber + 1 /\ FreshFrom(t) /\ AllComing(t)
    BY <2>1, <1>p
  <2>3. FreshFrom(t)'
    BY <1>27, <2>2, <1>a, <1>m DEF BufferEvent, FreshFrom, Fresh
  <2>4. AllComing(t)'
    BY <1>27, <2>2, <1>a, <1>m DEF BufferEvent, AllComing, Coming, Open
  <2>5. t <= lastNumber' + 1
    BY <1>27, <1>n, <2>2 DEF BufferEvent
  <2> QED
    BY <2>2, <2>3, <2>4, <2>5, Zenon DEF Covered
<1>28. ASSUME NEW e \in Events, Expire(e) PROVE Covered'
  <2>1. ~Owing
    BY <1>28, <1>a DEF Expire, Owing
  <2>2. PICK t \in Nat : t <= lastNumber + 1 /\ FreshFrom(t) /\ AllComing(t)
    BY <2>1, <1>p
  <2>3. FreshFrom(t)'
    BY <1>28, <2>2, <1>a, <1>m DEF Expire, FreshFrom, Fresh
  <2>4. AllComing(t)'
    BY <1>28, <2>2, <1>a, <1>m DEF Expire, AllComing, Coming, Open
  <2>5. t <= lastNumber' + 1
    BY <1>28, <1>n, <2>2 DEF Expire
  <2> QED
    BY <2>2, <2>3, <2>4, <2>5, Zenon DEF Covered
<1>29. CASE RunCall
  <2>1. ~Owing
    BY <1>29, <1>a DEF RunCall, Owing
  <2>2. PICK t \in Nat : t <= lastNumber + 1 /\ FreshFrom(t) /\ AllComing(t)
    BY <2>1, <1>p
  <2>h. Head(calls) \in Messages /\ Held(calls) = {Head(calls)} \cup Held(calls')
    BY <1>29, <1>a, HeldTail DEF RunCall
  <2>i. \A c \in Conns : Held(queue'[c]) \subseteq Held(queue[c]) \cup {Head(calls)}
    BY <1>29, <1>a, <2>h, HeldAppend DEF RunCall, ToEveryQueue
  <2>j. \A c \in Open : Held(queue'[c]) = Held(queue[c]) \cup {Head(calls)}
    BY <1>29, <1>a, <2>h, HeldAppend DEF RunCall, ToEveryQueue, Open
  <2>3. FreshFrom(t)'
    BY <1>29, <2>h, <2>i, <2>2, <1>a, <1>m DEF RunCall, FreshFrom, Fresh
  <2>4. AllComing(t)'
    <3> SUFFICES ASSUME NEW d \in Conns, d \in Open' PROVE Coming(d, t)'
      BY DEF AllComing, Open
    <3>1. d \in Open /\ Coming(d, t)
      BY <1>29, <2>2, <1>a DEF RunCall, AllComing, Open
    <3> QED
      BY <1>29, <3>1, <1>a, <1>m, <2>h, <2>j DEF RunCall, Coming
  <2>5. t <= lastNumber' + 1
    BY <1>29, <1>n, <2>2 DEF RunCall
  <2> QED
    BY <2>2, <2>3, <2>4, <2>5, Zenon DEF Covered
<1>30. CASE WindowPasses
  <2>1. ~Owing
    BY <1>30, <1>a DEF WindowPasses, Owing
  <2>2. PICK t \in Nat : t <= lastNumber + 1 /\ FreshFrom(t) /\ AllComing(t)
    BY <2>1, <1>p
  <2>3. FreshFrom(t)'
    BY <1>30, <2>2, <1>a, <1>m DEF WindowPasses, FreshFrom, Fresh
  <2>4. AllComing(t)'
    BY <1>30, <2>2, <1>a, <1>m DEF WindowPasses, AllComing, Coming, Open
  <2>5. t <= lastNumber' + 1
    BY <1>30, <1>n, <2>2 DEF WindowPasses
  <2> QED
    BY <2>2, <2>3, <2>4, <2>5, Zenon DEF Covered
<1> QED
  BY <1>1, <1>2, <1>3, <1>4, <1>5, <1>6, <1>7, <1>8, <1>9, <1>10, <1>11, <1>12, <1>13,
     <1>14, <1>15, <1>16, <1>17, <1>18, <1>19, <1>20, <1>21, <1>22, <1>23, <1>24,
     <1>25, <1>26, <1>27, <1>28, <1>29, <1>30
  DEF Next, JobStep, ConnStep, ReadStep, EmitStep

-----------------------------------------------------------------------------
(* Events: each step moves one from a place to the next, or leaves it *)

LEMMA CountsAreNatural ==
    ASSUME TypeOK, NEW e
    PROVE  /\ InMessages(calls, e) \in Nat
           /\ \A c \in Conns : /\ InMessages(queue[c], e) \in Nat
                               /\ Occurrences(shown[c], e) \in Nat
                               /\ TimesHanded(c, e) \in Nat
<1>1. calls \in Seq(Messages)
      /\ \A c \in Conns : queue[c] \in Seq(Messages) /\ shown[c] \in Seq(Events)
  BY DEF TypeOK
<1>2. InMessages(calls, e) \in Nat
  BY <1>1, MessagesCounted
<1>3. ASSUME NEW c \in Conns
      PROVE  InMessages(queue[c], e) \in Nat /\ Occurrences(shown[c], e) \in Nat
  BY <1>1, MessagesCounted, ShownCounted
<1> QED
  BY <1>2, <1>3 DEF TimesHanded

(* Nothing is moved, though calls and queues may gain or lose snapshots. *)
LEMMA EventsStay ==
    ASSUME EventInv, ReplayEmpty', UNCHANGED <<buffer, expired, emitting>>,
           \A e \in Events : InMessages(calls', e) = InMessages(calls, e),
           \A e \in Events, c \in Conns : TimesHanded(c, e)' = TimesHanded(c, e)
    PROVE  EventInv'
<1>1. \A e \in Events : HandedOver(e)' <=> HandedOver(e)
  BY DEF HandedOver
<1> QED
  BY <1>1 DEF EventInv, OnePlace, OneCopy

LEMMA NothingMoved ==
    ASSUME EventInv, UNCHANGED <<calls, buffer, expired, emitting, connVars>>,
           \A c \in Conns : stage'[c] \in {"new", "opening"} => stage[c] \in {"new", "opening"}
    PROVE  EventInv'
<1>1. ReplayEmpty'
  BY DEF EventInv, ReplayEmpty, connVars
<1>2. \A e \in Events, c \in Conns : TimesHanded(c, e)' = TimesHanded(c, e)
  BY DEF TimesHanded, connVars
<1> QED
  BY <1>1, <1>2, EventsStay

(* One event moves: e, to the place the step says. *)
LEMMA OneMoves ==
    ASSUME EventInv, ReplayEmpty', NEW e \in Events, OnePlace(e)', OneCopy(e)',
           \A d \in Events \ {e} :
              /\ d \in buffer' <=> d \in buffer
              /\ d \in expired' <=> d \in expired
              /\ emitting'[d] = emitting[d]
              /\ InMessages(calls', d) = InMessages(calls, d)
              /\ \A c \in Conns : TimesHanded(c, d)' = TimesHanded(c, d)
    PROVE  EventInv'
<1>1. \A d \in Events \ {e} : HandedOver(d)' <=> HandedOver(d)
  BY DEF HandedOver
<1>2. ASSUME NEW d \in Events \ {e} PROVE OnePlace(d)' /\ OneCopy(d)'
  BY <1>1 DEF EventInv, OnePlace, OneCopy
<1> QED
  BY <1>2 DEF EventInv

LEMMA RunCallMoves ==
    ASSUME TypeOK, EventInv, RunCall
    PROVE  EventInv'
<1> DEFINE m == Head(calls)
<1>1. /\ calls \in Seq(Messages) /\ calls # <<>> /\ calls' = Tail(calls)
      /\ m \in Messages /\ m.event \in Events \cup {NoEvent}
      /\ UNCHANGED <<stage, replay, shown, expired, emitting>>
  <2>1. calls \in Seq(Messages) /\ calls # <<>>
    BY DEF RunCall, TypeOK
  <2>2. m \in Messages
    BY <2>1, HeldTail
  <2> QED
    BY <2>1, <2>2 DEF RunCall, readVars, Messages
<1>2. /\ queue' = ToEveryQueue(m)
      /\ buffer' = IF KeptForLater(m) THEN buffer \cup {m.event} ELSE buffer
  BY DEF RunCall
<1> HIDE DEF m
<1>3. ASSUME NEW e
      PROVE  InMessages(calls', e) = InMessages(calls, e) - (IF m.event = e THEN 1 ELSE 0)
  BY <1>1, MessageTaken DEF m
<1>4. ASSUME NEW e, NEW c \in Conns
      PROVE  TimesHanded(c, e)' =
                TimesHanded(c, e) + (IF c \in Open /\ m.event = e THEN 1 ELSE 0)
  <2>1. queue[c] \in Seq(Messages)
    BY DEF TypeOK
  <2>2. queue'[c] = IF c \in Open THEN Append(queue[c], m) ELSE queue[c]
    BY <1>2 DEF ToEveryQueue
  <2>3. InMessages(queue'[c], e) =
           InMessages(queue[c], e) + (IF c \in Open /\ m.event = e THEN 1 ELSE 0)
    <3>1. CASE c \in Open
      BY <1>1, <2>1, <2>2, <3>1, MessageAppended
    <3>2. CASE c \notin Open
      <4>1. InMessages(queue[c], e) \in Nat
        BY CountsAreNatural
      <4> QED
        BY <2>2, <3>2, <4>1
    <3> QED
      BY <3>1, <3>2
  <2>4. InMessages(queue[c], e) \in Nat /\ Occurrences(shown[c], e) \in Nat
    BY CountsAreNatural
  <2> QED
    BY <1>1, <2>3, <2>4 DEF TimesHanded
<1>5. ReplayEmpty'
  BY <1>1 DEF EventInv, ReplayEmpty
<1>6. \A e \in Events, c \in Conns : TimesHanded(c, e) \in Nat
  BY CountsAreNatural
<1>7. \A e \in Events : InMessages(calls, e) \in Nat /\ InMessages(calls', e) \in Nat
  <2>1. calls' \in Seq(Messages)
    BY <1>1, HeldTail
  <2> QED
    BY <2>1, CountsAreNatural, MessagesCounted
<1>8. CASE m.event = NoEvent
  <2>1. \A e \in Events : m.event # e
    BY <1>8, BusAssumption
  <2>2. buffer' = buffer
    BY <1>2, <1>8 DEF KeptForLater
  <2>3. \A e \in Events : InMessages(calls', e) = InMessages(calls, e)
    BY <1>3, <1>7, <2>1
  <2>4. \A e \in Events, c \in Conns : TimesHanded(c, e)' = TimesHanded(c, e)
    BY <1>4, <1>6, <2>1
  <2> QED
    BY <1>1, <1>5, <2>2, <2>3, <2>4, EventsStay
<1>9. ASSUME NEW e \in Events, m.event = e PROVE EventInv'
  <2>1. e # NoEvent
    BY <1>9, BusAssumption
  <2>2. OnePlace(e) /\ OneCopy(e)
    BY DEF EventInv
  <2>3. InMessages(calls, e) = 1 /\ InMessages(calls', e) = 0
    <3>1. InMessages(calls', e) = InMessages(calls, e) - 1
      BY <1>3, <1>9
    <3>2. InMessages(calls, e) \in Nat /\ InMessages(calls', e) \in Nat
      BY <1>7, <2>1
    <3>3. InMessages(calls, e) <= 1
      BY <2>2 DEF OneCopy
    <3> QED
      BY <3>1, <3>2, <3>3
  <2>4. /\ emitting[e] = "yes" /\ e \notin buffer /\ e \notin expired
        /\ \A c \in Conns : TimesHanded(c, e) = 0
    <3>1. \A c \in Conns : ~(TimesHanded(c, e) > 0) /\ TimesHanded(c, e) \in Nat
      BY <1>6, <2>1, <2>2, <2>3 DEF OnePlace, HandedOver
    <3>2. \A c \in Conns : TimesHanded(c, e) = 0
      BY <3>1
    <3> QED
      BY <2>2, <2>3, <3>2 DEF OnePlace
  <2>5. \A c \in Conns : TimesHanded(c, e)' = IF c \in Open THEN 1 ELSE 0
    BY <1>4, <1>9, <2>4
  <2>6. e \in buffer' <=> Open = {}
    BY <1>2, <1>9, <2>1, <2>4 DEF KeptForLater
  <2>7. HandedOver(e)' <=> Open # {}
    <3>1. HandedOver(e)' <=> \E c \in Conns : TimesHanded(c, e)' > 0
      BY DEF HandedOver
    <3>2. Open \subseteq Conns
      BY DEF Open
    <3> QED
      BY <2>5, <3>1, <3>2
  <2>8. OnePlace(e)' /\ OneCopy(e)'
    <3>1. expired' = expired /\ emitting' = emitting
      BY <1>1
    <3>2. \A c \in Conns : TimesHanded(c, e)' <= 1
      BY <2>5
    <3> QED
      BY <2>3, <2>4, <2>6, <2>7, <3>1, <3>2 DEF OnePlace, OneCopy
  <2>9. ASSUME NEW d \in Events \ {e}
        PROVE  /\ d \in buffer' <=> d \in buffer
               /\ d \in expired' <=> d \in expired
               /\ emitting'[d] = emitting[d]
               /\ InMessages(calls', d) = InMessages(calls, d)
               /\ \A c \in Conns : TimesHanded(c, d)' = TimesHanded(c, d)
    <3>1. m.event # d /\ d \in Events
      BY <1>9, <2>9
    <3>2. InMessages(calls', d) = InMessages(calls, d)
      BY <1>3, <1>7, <3>1
    <3>3. \A c \in Conns : TimesHanded(c, d)' = TimesHanded(c, d)
      BY <1>4, <1>6, <3>1
    <3> QED
      BY <1>1, <1>2, <3>1, <3>2, <3>3
  <2> QED
    BY <1>5, <2>8, <2>9, OneMoves
<1> QED
  BY <1>1, <1>8, <1>9

LEMMA RegisterMoves ==
    ASSUME TypeOK, EventInv, NEW c \in Conns, Register(c)
    PROVE  EventInv'
<1>1. /\ stage[c] = "opening" /\ replay[c] = {} /\ stage \in [Readers -> Stages]
      /\ stage' = [stage EXCEPT ![c] = "registered"]
      /\ replay' = [replay EXCEPT ![c] = buffer] /\ buffer' = {}
      /\ UNCHANGED <<calls, expired, queue, shown, emitting>>
  BY DEF Register, Go, EventInv, ReplayEmpty, TypeOK
<1>2. ReplayEmpty'
  BY <1>1 DEF EventInv, ReplayEmpty, Readers, TypeOK
<1>3. ASSUME NEW e \in Events, NEW d \in Conns
      PROVE  TimesHanded(d, e)' = TimesHanded(d, e) + (IF d = c /\ e \in buffer THEN 1 ELSE 0)
  <2>1. InMessages(queue[d], e) \in Nat /\ Occurrences(shown[d], e) \in Nat
    BY CountsAreNatural
  <2>2. replay'[d] = IF d = c THEN buffer ELSE replay[d]
    BY <1>1 DEF TypeOK
  <2> QED
    BY <1>1, <2>1, <2>2 DEF TimesHanded
<1>4. ASSUME NEW e \in Events PROVE OnePlace(e)' /\ OneCopy(e)'
  <2>1. OnePlace(e) /\ OneCopy(e) /\ \A d \in Conns : TimesHanded(d, e) \in Nat
    BY CountsAreNatural DEF EventInv
  <2>2. CASE e \in buffer
    <3>1. \A d \in Conns : ~(TimesHanded(d, e) > 0) /\ TimesHanded(d, e) \in Nat
      BY <2>1, <2>2 DEF OnePlace, HandedOver
    <3>2. \A d \in Conns : TimesHanded(d, e)' = IF d = c THEN 1 ELSE 0
      BY <1>3, <2>2, <3>1
    <3>3. HandedOver(e)' /\ \A d \in Conns : TimesHanded(d, e)' <= 1
      BY <3>2 DEF HandedOver
    <3> QED
      BY <1>1, <2>1, <2>2, <3>3 DEF OnePlace, OneCopy
  <2>3. CASE e \notin buffer
    <3>1. \A d \in Conns : TimesHanded(d, e)' = TimesHanded(d, e)
      BY <1>3, <2>1, <2>3
    <3>2. HandedOver(e)' <=> HandedOver(e)
      BY <3>1 DEF HandedOver
    <3> QED
      BY <1>1, <2>1, <2>3, <3>1, <3>2 DEF OnePlace, OneCopy
  <2> QED
    BY <2>2, <2>3
<1> QED
  BY <1>2, <1>4 DEF EventInv

LEMMA EmissionMoves ==
    ASSUME TypeOK, EventInv, NEW e \in Events, EmitStep(e)
    PROVE  EventInv'
<1>1. OnePlace(e) /\ OneCopy(e) /\ emitting \in [Events -> {"no", "noLoop", "yes"}]
  BY DEF EventInv, TypeOK
<1>2. UNCHANGED <<stage, connVars>>
  BY DEF EmitStep, EmitToLoop, EmitFindsNoLoop, BufferEvent, Expire, readVars, connVars
<1>3. ReplayEmpty'
  BY <1>2 DEF EventInv, ReplayEmpty, connVars
<1>4. \A d \in Events, c \in Conns : TimesHanded(c, d)' = TimesHanded(c, d)
  BY <1>2 DEF TimesHanded, connVars
<1>5. HandedOver(e)' <=> HandedOver(e)
  BY <1>4 DEF HandedOver
<1>6. \A c \in Conns : TimesHanded(c, e)' <= 1
  BY <1>1, <1>4 DEF OneCopy
<1>7. InMessages(calls, e) \in Nat
  BY CountsAreNatural
<1>8. CASE EmitToLoop(e)
  <2>1. /\ emitting[e] = "no" /\ emitting' = [emitting EXCEPT ![e] = "yes"]
        /\ UNCHANGED <<buffer, expired>>
    BY <1>8 DEF EmitToLoop
  <2>2. ASSUME NEW d
        PROVE  InMessages(calls', d) = InMessages(calls, d) + (IF d = e THEN 1 ELSE 0)
    <3>1. calls \in Seq(Messages) /\ Event(e) \in Messages /\ calls' = Append(calls, Event(e))
      BY <1>8, EventType DEF EmitToLoop, TypeOK
    <3>2. Event(e).event = e
      BY DEF Event
    <3> QED
      BY <3>1, <3>2, MessageAppended
  <2>3. \A d \in Events \ {e} : InMessages(calls', d) = InMessages(calls, d)
    BY <2>2, CountsAreNatural
  <2>4. InMessages(calls', e) = 1
    BY <1>1, <1>7, <2>1, <2>2 DEF OnePlace
  <2>5. OnePlace(e)' /\ OneCopy(e)'
    BY <1>1, <1>5, <1>6, <2>1, <2>4 DEF OnePlace, OneCopy
  <2> QED
    BY <1>1, <1>3, <1>4, <2>1, <2>3, <2>5, OneMoves
<1>9. CASE EmitFindsNoLoop(e)
  <2>1. /\ emitting[e] = "no" /\ emitting' = [emitting EXCEPT ![e] = "noLoop"]
        /\ UNCHANGED <<calls, buffer, expired>>
    BY <1>9 DEF EmitFindsNoLoop, busVars
  <2>2. OnePlace(e)' /\ OneCopy(e)'
    BY <1>1, <1>5, <1>6, <2>1 DEF OnePlace, OneCopy
  <2> QED
    BY <1>1, <1>3, <1>4, <2>1, <2>2, OneMoves
<1>10. CASE BufferEvent(e)
  <2>1. /\ emitting[e] = "noLoop" /\ emitting' = [emitting EXCEPT ![e] = "yes"]
        /\ buffer' = buffer \cup {e} /\ UNCHANGED <<calls, expired>>
    BY <1>10 DEF BufferEvent
  <2>2. OnePlace(e)' /\ OneCopy(e)'
    BY <1>1, <1>5, <1>6, <2>1 DEF OnePlace, OneCopy
  <2> QED
    BY <1>1, <1>3, <1>4, <2>1, <2>2, OneMoves
<1>11. CASE Expire(e)
  <2>1. /\ e \in buffer /\ buffer' = buffer \ {e} /\ expired' = expired \cup {e}
        /\ UNCHANGED <<calls, emitting>>
    BY <1>11 DEF Expire
  <2>2. OnePlace(e)' /\ OneCopy(e)'
    BY <1>1, <1>5, <1>6, <2>1 DEF OnePlace, OneCopy
  <2> QED
    BY <1>1, <1>3, <1>4, <2>1, <2>2, OneMoves
<1> QED
  BY <1>8, <1>9, <1>10, <1>11 DEF EmitStep

(* A connection shows what it got, or drops a snapshot: its counts stay. *)
LEMMA ShowingKeeps ==
    ASSUME TypeOK, EventInv, NEW c \in Conns,
           \/ \E e \in Events : ReplayEvent(c, e)
           \/ TakeSnapshot(c) \/ DropSnapshot(c) \/ TakeEvent(c)
    PROVE  EventInv'
<1>1. /\ queue \in [Conns -> Seq(Messages)] /\ shown \in [Conns -> Seq(Events)]
      /\ replay \in [Conns -> SUBSET Events]
      /\ stage' = stage /\ UNCHANGED <<calls, buffer, expired, emitting>>
  BY DEF TypeOK, ReplayEvent, TakeSnapshot, DropSnapshot, TakeEvent, busVars, readVars
<1>2. \/ replay' = replay
      \/ stage[c] = "registered" /\ (\A d \in Conns \ {c} : replay'[d] = replay[d])
  BY <1>1 DEF ReplayEvent, TakeSnapshot, DropSnapshot, TakeEvent
<1>3. ReplayEmpty'
  BY <1>1, <1>2 DEF EventInv, ReplayEmpty
<1>4. ASSUME NEW e \in Events
      PROVE  TimesHanded(c, e)' = TimesHanded(c, e)
  <2>1. /\ InMessages(queue[c], e) \in Nat /\ Occurrences(shown[c], e) \in Nat
        /\ queue[c] \in Seq(Messages) /\ shown[c] \in Seq(Events)
    BY <1>1, CountsAreNatural
  <2>2. ASSUME NEW d \in Events, ReplayEvent(c, d) PROVE TimesHanded(c, e)' = TimesHanded(c, e)
    <3>1. /\ d \in replay[c] /\ queue'[c] = queue[c]
          /\ replay'[c] = replay[c] \ {d} /\ shown'[c] = Append(shown[c], d)
      BY <1>1, <2>2 DEF ReplayEvent
    <3>2. Occurrences(shown'[c], e) = Occurrences(shown[c], e) + (IF d = e THEN 1 ELSE 0)
      BY <2>1, <3>1, EventShown
    <3> QED
      BY <2>1, <3>1, <3>2 DEF TimesHanded
  <2>3. CASE TakeSnapshot(c) \/ DropSnapshot(c)
    <3>1. /\ queue[c] # <<>> /\ Head(queue[c]).event = NoEvent
          /\ replay'[c] = replay[c] /\ shown'[c] = shown[c] /\ queue'[c] = Tail(queue[c])
      BY <1>1, <2>3 DEF TakeSnapshot, DropSnapshot, Superseded
    <3>2. Head(queue[c]).event # e
      BY <3>1, BusAssumption
    <3>3. InMessages(queue'[c], e) = InMessages(queue[c], e)
      BY <2>1, <3>1, <3>2, MessageTaken
    <3> QED
      BY <3>1, <3>3 DEF TimesHanded
  <2>4. CASE TakeEvent(c)
    <3>1. /\ queue[c] # <<>> /\ Head(queue[c]) \in Messages /\ replay'[c] = replay[c]
          /\ Head(queue[c]).event # NoEvent /\ queue'[c] = Tail(queue[c])
          /\ shown'[c] = Append(shown[c], Head(queue[c]).event)
      BY <1>1, <2>1, <2>4, HeldTail DEF TakeEvent
    <3>2. Head(queue[c]).event \in Events
      BY <3>1 DEF Messages
    <3>3. InMessages(queue'[c], e) =
             InMessages(queue[c], e) - (IF Head(queue[c]).event = e THEN 1 ELSE 0)
      BY <2>1, <3>1, MessageTaken
    <3>4. Occurrences(shown'[c], e) =
             Occurrences(shown[c], e) + (IF Head(queue[c]).event = e THEN 1 ELSE 0)
      BY <2>1, <3>1, <3>2, EventShown
    <3> QED
      BY <2>1, <3>1, <3>3, <3>4 DEF TimesHanded
  <2> QED
    BY <2>2, <2>3, <2>4
<1>5. ASSUME NEW e \in Events, NEW d \in Conns \ {c}
      PROVE  TimesHanded(d, e)' = TimesHanded(d, e)
  <2>1. queue'[d] = queue[d] /\ shown'[d] = shown[d] /\ replay'[d] = replay[d]
    BY <1>1 DEF ReplayEvent, TakeSnapshot, DropSnapshot, TakeEvent
  <2> QED
    BY <2>1 DEF TimesHanded
<1> QED
  BY <1>1, <1>3, <1>4, <1>5, EventsStay

LEMMA EventStep == TypeOK /\ EventInv /\ [Next]_pendingVars => EventInv'
<1> SUFFICES ASSUME TypeOK, EventInv, [Next]_pendingVars PROVE EventInv'
  OBVIOUS
<1>0. stage \in [Readers -> Stages] /\ Jobs \cap Conns = {}
  BY BusAssumption DEF TypeOK
<1>1. ASSUME NEW j \in Jobs, HandToLoop(j) PROVE EventInv'
  <2>1. /\ calls' = Append(calls, Snapshot(number[j], seen[j]))
        /\ stage' = [stage EXCEPT ![j] = "idle"]
        /\ UNCHANGED <<buffer, expired, emitting, connVars>>
    BY <1>1 DEF HandToLoop, Go
  <2>2. ReplayEmpty'
    BY <1>0, <2>1 DEF EventInv, ReplayEmpty, connVars
  <2>3. \A e \in Events, c \in Conns : TimesHanded(c, e)' = TimesHanded(c, e)
    BY <2>1 DEF TimesHanded, connVars
  <2>4. calls \in Seq(Messages) /\ Snapshot(number[j], seen[j]) \in Messages
    BY SnapshotType DEF TypeOK, Readers
  <2>5. ASSUME NEW e \in Events PROVE InMessages(calls', e) = InMessages(calls, e)
    <3>1. Snapshot(number[j], seen[j]).event # e
      BY BusAssumption DEF Snapshot
    <3>2. InMessages(calls, e) \in Nat
      BY CountsAreNatural
    <3> QED
      BY <2>1, <2>4, <3>1, <3>2, MessageAppended
  <2> QED
    BY <2>1, <2>2, <2>3, <2>5, EventsStay
<1>2. ASSUME NEW j \in Jobs,
             \/ \E k \in Parts : Begin(j, k) \/ Progress(j, k) \/ Finish(j, k)
             \/ NoLoop(j) \/ LoopFound(j) \/ NobodyWatches(j) \/ Watched(j)
             \/ TooSoon(j) \/ WindowPassed(j) \/ StartRecompute(j) \/ RecomputeFails(j)
      PROVE  EventInv'
  <2>1. UNCHANGED <<calls, buffer, expired, emitting, connVars>>
    BY <1>2
    DEF Begin, Progress, Finish, Change, NoLoop, LoopFound, NobodyWatches, Watched, TooSoon,
        WindowPassed, StartRecompute, RecomputeFails, Skip, Pass, busVars
  <2>2. \/ \E s : stage' = [stage EXCEPT ![j] = s]
        \/ stage' = stage
    BY <1>2
    DEF Begin, Progress, Finish, Change, NoLoop, LoopFound, NobodyWatches, Watched, TooSoon,
        WindowPassed, StartRecompute, RecomputeFails, Skip, Pass, TakeNumber, Go
  <2>3. \A c \in Conns : stage'[c] = stage[c]
    BY <1>0, <2>2 DEF Readers
  <2> QED
    BY <2>1, <2>3, NothingMoved
<1>3. ASSUME NEW c \in Conns, Connect(c) \/ StartInitial(c) \/ ShowInitial(c) \/ Close(c)
      PROVE  EventInv'
  <2>1. UNCHANGED <<calls, buffer, expired, emitting, connVars>>
    BY <1>3 DEF Connect, StartInitial, ShowInitial, Close, busVars
  <2>2. \A d \in Conns : stage'[d] \in {"new", "opening"} => stage[d] \in {"new", "opening"}
    BY <1>0, <1>3 DEF Connect, StartInitial, ShowInitial, Close, TakeNumber, Go, Readers
  <2> QED
    BY <2>1, <2>2, NothingMoved
<1>4. ASSUME NEW c \in Conns, Register(c) PROVE EventInv'
  BY <1>4, RegisterMoves
<1>5. ASSUME NEW c \in Conns,
             \/ \E e \in Events : ReplayEvent(c, e)
             \/ TakeSnapshot(c) \/ DropSnapshot(c) \/ TakeEvent(c)
      PROVE  EventInv'
  BY <1>5, ShowingKeeps
<1>6. ASSUME NEW r \in Readers, ReadStep(r) PROVE EventInv'
  <2>1. UNCHANGED <<stage, calls, buffer, expired, emitting, connVars>>
    BY <1>6 DEF ReadStep, ReadPart, PartUnreadable, busVars
  <2> QED
    BY <2>1, NothingMoved
<1>7. ASSUME NEW e \in Events, EmitStep(e) PROVE EventInv'
  BY <1>7, EmissionMoves
<1>8. CASE RunCall
  BY <1>8, RunCallMoves
<1>9. CASE WindowPasses \/ UNCHANGED pendingVars
  <2>1. UNCHANGED <<stage, calls, buffer, expired, emitting, connVars>>
    BY <1>9 DEF WindowPasses, pendingVars, busVars, readVars
  <2> QED
    BY <2>1, NothingMoved
<1> QED
  BY <1>1, <1>2, <1>3, <1>4, <1>5, <1>6, <1>7, <1>8, <1>9 DEF Next, JobStep, ConnStep

-----------------------------------------------------------------------------
(* The invariant and what follows from it *)

LEMMA BusInvInit == Init => BusInv
<1> SUFFICES ASSUME Init PROVE BusInv
  OBVIOUS
<1>1. TypeOK
  BY PendingTypeInit
<1>2. Open = {} /\ subscribers = 0
  BY BusAssumption DEF Init, Open, Readers
<1>3. MirrorExact
  BY <1>2, FS_EmptySet DEF MirrorExact
<1>4. ThrottledRuns /\ LoopFirst
  BY BusAssumption DEF Init, ThrottledRuns, LoopFirst, Readers
<1>5. Held(calls) = {} /\ \A c \in Conns : Held(queue[c]) = {}
  BY DEF Init, Held
<1>6. NumbersGiven
  BY <1>5 DEF Init, NumbersGiven
<1>7. FreshFrom(0) /\ AllComing(0)
  BY <1>2, <1>5, BusAssumption DEF Init, FreshFrom, AllComing, Readers
<1>8. Covered
  BY <1>7 DEF Init, Covered
<1>9. EventInv
  <2>1. ReplayEmpty
    BY DEF Init, ReplayEmpty
  <2>2. ASSUME NEW e \in Events
        PROVE  InMessages(calls, e) = 0 /\ \A c \in Conns : TimesHanded(c, e) = 0
    <3>1. \A x : InMessages(<<>>, x) = 0 /\ Occurrences(<<>>, x) = 0
      BY FS_EmptySet DEF InMessages, Occurrences
    <3> QED
      BY <3>1 DEF Init, TimesHanded
  <2> QED
    BY <2>1, <2>2 DEF Init, EventInv, OnePlace, OneCopy, HandedOver
<1> QED
  BY <1>1, <1>3, <1>4, <1>6, <1>8, <1>9 DEF BusInv

LEMMA BusInvStep == BusInv /\ [Next]_pendingVars => BusInv'
<1> SUFFICES ASSUME BusInv, [Next]_pendingVars PROVE BusInv'
  OBVIOUS
<1>1. TypeOK /\ MirrorExact /\ ThrottledRuns /\ LoopFirst /\ NumbersGiven
  BY DEF BusInv
<1>2. TypeOK' /\ MirrorExact'
  BY <1>1, PendingTypeStep, MirrorStep
<1>3. ThrottledRuns' /\ LoopFirst' /\ NumbersGiven'
  BY <1>1, ThrottledRunsStep, LoopFirstStep, NumbersGivenStep
<1>4. Covered'
  BY CoveredStep
<1>5. EventInv'
  BY <1>1, EventStep DEF BusInv
<1> QED
  BY <1>2, <1>3, <1>4, <1>5 DEF BusInv

LEMMA BusInvariant == PendingSpec => []BusInv
  BY BusInvInit, BusInvStep, PTL DEF PendingSpec

(* Every variable of the bell keeps its type, for any number of jobs,      *)
(* connections, events and parts (PendingBus.__init__).                    *)
THEOREM PendingTypeCorrect == PendingSpec => []TypeOK
<1>1. BusInv => TypeOK
  BY DEF BusInv
<1> QED
  BY <1>1, BusInvariant, PTL

(* The mirror the job threads read is the number of registered connections *)
(* (register and unregister).                                               *)
THEOREM MirrorStaysExact == PendingSpec => []MirrorExact
<1>1. BusInv => MirrorExact
  BY DEF BusInv
<1> QED
  BY <1>1, BusInvariant, PTL

(* Once nothing is on its way to a connection it shows the committed state, *)
(* whatever the order in which snapshots were numbered, read, delivered and *)
(* superseded (mark_dirty, mark_dirty_throttled, me_pending_stream).        *)
THEOREM BellIsCurrent == PendingSpec => []NobodyLeftBehind
<1>1. ASSUME BusInv PROVE NobodyLeftBehind
  <2> SUFFICES ASSUME NEW c \in Conns, Settled(c) PROVE UpToDate(c)
    BY DEF NobodyLeftBehind
  <2>1. PICK t \in Nat : FreshFrom(t) /\ AllComing(t)
    BY <1>1 DEF BusInv, Covered, Settled
  <2>2. Held(calls) = {} /\ Held(queue[c]) = {}
    BY DEF Settled, Held
  <2>3. c \in Open /\ stage[c] = "listening" /\ \A j \in Jobs : stage[j] = "idle"
    BY DEF Settled, Open
  <2>4. number[c] >= t \/ failed >= t
    BY <2>1, <2>2, <2>3 DEF AllComing, Coming
  <2>5. CASE number[c] >= t
    BY <2>1, <2>3, <2>5 DEF FreshFrom, Fresh, UpToDate, Readers
  <2>6. CASE ~(number[c] >= t)
    <3>1. number[c] \in Nat /\ failed \in Nat
      BY <1>1 DEF BusInv, TypeOK, Readers
    <3> QED
      BY <2>4, <2>6, <3>1 DEF UpToDate
  <2> QED
    BY <2>5, <2>6
<1> QED
  BY <1>1, BusInvariant, PTL

(* Of four places of which at most one is taken, one or none is. *)
LEMMA PlacesCounted ==
    ASSUME NEW L \in BOOLEAN, NEW B \in BOOLEAN, NEW X \in BOOLEAN, NEW C \in BOOLEAN,
           L => ~B /\ ~X /\ ~C, B => ~X /\ ~C, X => ~C
    PROVE  Cardinality({p \in {<<"loop", L>>, <<"buffer", B>>, <<"expired", X>>,
                                <<"connections", C>>} : p[2]})
              = IF L \/ B \/ X \/ C THEN 1 ELSE 0
<1> DEFINE taken == {p \in {<<"loop", L>>, <<"buffer", B>>, <<"expired", X>>,
                            <<"connections", C>>} : p[2]}
<1>1. taken = (IF L THEN {<<"loop", L>>} ELSE {}) \cup (IF B THEN {<<"buffer", B>>} ELSE {})
             \cup (IF X THEN {<<"expired", X>>} ELSE {})
             \cup (IF C THEN {<<"connections", C>>} ELSE {})
  OBVIOUS
<1> HIDE DEF taken
<1> SUFFICES Cardinality(taken) = IF L \/ B \/ X \/ C THEN 1 ELSE 0
  BY DEF taken
<1>2. CASE ~(L \/ B \/ X \/ C)
  <2>1. taken = {}
    BY <1>1, <1>2
  <2> QED
    BY <1>2, <2>1, FS_EmptySet
<1>3. CASE L \/ B \/ X \/ C
  <2>1. PICK p : taken = {p}
    BY <1>1, <1>3
  <2>2. Cardinality({p}) = 1
    BY FS_Singleton
  <2> QED
    BY <1>3, <2>1, <2>2
<1> QED
  BY <1>2, <1>3

(* An event is never lost and never shown twice: it is with the loop, in    *)
(* the buffer, expired, or with the connections, however emitting, running  *)
(* the callbacks, connecting and flushing interleave (emit, _deliver,       *)
(* flush_buffer).                                                           *)
THEOREM EventsAreKept == PendingSpec => []EventKept
<1>1. ASSUME BusInv PROVE EventKept
  <2> SUFFICES ASSUME NEW e \in Events
               PROVE  /\ Cardinality({p \in {<<"loop", InMessages(calls, e) > 0>>,
                              <<"buffer", e \in buffer>>, <<"expired", e \in expired>>,
                              <<"connections", \E c \in Conns : TimesHanded(c, e) > 0>>} : p[2]})
                            = (IF emitting[e] = "yes" THEN 1 ELSE 0)
                      /\ \A c \in Conns : TimesHanded(c, e) <= 1
    BY DEF EventKept
  <2>1. OnePlace(e) /\ OneCopy(e)
    BY <1>1 DEF BusInv, EventInv
  <2> DEFINE L == InMessages(calls, e) > 0
             B == e \in buffer
             X == e \in expired
             C == \E c \in Conns : TimesHanded(c, e) > 0
  <2>2. /\ L \in BOOLEAN /\ B \in BOOLEAN /\ X \in BOOLEAN /\ C \in BOOLEAN
    OBVIOUS
  <2>3. /\ L => ~B /\ ~X /\ ~C
        /\ B => ~X /\ ~C
        /\ X => ~C
        /\ emitting[e] = "yes" <=> L \/ B \/ X \/ C
    BY <2>1 DEF OnePlace, HandedOver
  <2> HIDE DEF L, B, X, C
  <2>4. Cardinality({p \in {<<"loop", L>>, <<"buffer", B>>, <<"expired", X>>,
                            <<"connections", C>>} : p[2]})
           = IF L \/ B \/ X \/ C THEN 1 ELSE 0
    BY <2>2, <2>3, PlacesCounted
  <2>5. Cardinality({p \in {<<"loop", L>>, <<"buffer", B>>, <<"expired", X>>,
                            <<"connections", C>>} : p[2]})
           = IF emitting[e] = "yes" THEN 1 ELSE 0
    BY <2>3, <2>4
  <2> QED
    BY <2>1, <2>5 DEF OneCopy, L, B, X, C
<1> QED
  BY <1>1, BusInvariant, PTL
=============================================================================
