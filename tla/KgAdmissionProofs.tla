------------------------- MODULE KgAdmissionProofs -------------------------
(***************************************************************************)
(* Admission to a notebook's graph is exclusive, for any number of         *)
(* attempts of every kind.                                                 *)
(*                                                                         *)
(* The argument: the marker and the slot each have one owner, found from   *)
(* how far the attempts have come, and the owner of the arbitration lock   *)
(* is the only attempt between taking its own claim and looking at the     *)
(* other one.  So an admitted holder of the marker and a holder of the     *)
(* slot can meet only while the latter is still inside the arbitration,    *)
(* where it will see the marker and withdraw.                              *)
(***************************************************************************)
EXTENDS KgAdmission, TLAPS

(* Inside the arbitration lock. *)
Arbitrating == {"checkSlot", "yielding", "checkMarker", "revoking"}

(* Holding the slot. *)
SlotPhases == ClaimPhases \cup {"relinking"}

(* Remembering the entry to put back. *)
Revocable == {"checkMarker", "revoking", "probing", "withdrawing"}

Sides ==
    \A c \in Caller :
       /\ at[c] \in MarkingPhases => c \in Marking
       /\ at[c] = "creating" => c \in Builder
       /\ at[c] \in ClaimPhases => c \in Maintainer

ArbiterIsInside == \A c \in Caller : arbiter = c <=> at[c] \in Arbitrating

SlotIsOwned ==
    /\ Busy => \E c \in Caller : at[c] \in SlotPhases
    /\ \A c \in Caller : at[c] \in SlotPhases => Busy /\ slot.job = c

(* A holder of the slot beside an admitted marker is about to see it. *)
Apart ==
    \A b, m \in Caller :
       at[b] \in MarkingPhases \ {"checkSlot", "yielding"} /\ at[m] \in ClaimPhases
          => at[m] \in {"checkMarker", "revoking"}

(* What a revocation would put back. *)
DisplacedIsOld ==
    \A c \in Caller : at[c] \in Revocable =>
       /\ displaced[c].status # "running"
       /\ displaced[c].status = "none" <=> displaced[c].job = Nobody
       /\ (\E d \in Maintainer : at[d] = "done") => displaced[c].status = "ended"

AdmissionInv ==
    /\ TypeOK
    /\ Sides
    /\ MarkerIsOwned
    /\ ArbiterIsInside
    /\ SlotIsOwned
    /\ Apart
    /\ DisplacedIsOld
    /\ ResultKept

-----------------------------------------------------------------------------
(* Steps that leave the marker, the slot and the lock as they are *)

(* Only the progress of c changes. *)
Only(c, to) ==
    /\ at' = [at EXCEPT ![c] = to]
    /\ UNCHANGED <<arbiter, building, slot, displaced>>

LEMMA InvInit == Init => AdmissionInv
<1> SUFFICES ASSUME Init PROVE AdmissionInv
  OBVIOUS
<1> USE AdmissionAssumption DEF Init, EmptySlot
<1>1. TypeOK
  BY DEF TypeOK, Slots, Phases
<1>2. Sides /\ MarkerIsOwned /\ Apart
  BY DEF Sides, MarkerIsOwned, Apart, MarkingPhases, ClaimPhases
<1>3. ArbiterIsInside
  BY DEF ArbiterIsInside, Arbitrating
<1>4. SlotIsOwned
  BY DEF SlotIsOwned, SlotPhases, ClaimPhases, Busy
<1>5. DisplacedIsOld /\ ResultKept
  BY DEF DisplacedIsOld, Revocable, ResultKept, Caller
<1> QED
  BY <1>1, <1>2, <1>3, <1>4, <1>5 DEF AdmissionInv

(* The phases that hold the marker and neither the lock nor the slot. *)
Marked == MarkingPhases \ (Arbitrating \cup {"relinking"})

(* An admitted attempt goes on; a newcomer is refused; the holder of the    *)
(* lock finds the other claim.                                              *)
Progress(c, to) ==
    \/ at[c] \in Marked /\ to \in Marked \ {"creating"}
    \/ /\ at[c] \in ClaimPhases \ Arbitrating /\ to \in ClaimPhases \ Arbitrating
       /\ to \in Revocable => at[c] \in Revocable
    \/ at[c] = "new" /\ to = "refused"
    \/ at[c] = "checkSlot" /\ to = "yielding"
    \/ at[c] = "checkMarker" /\ to = "revoking"

LEMMA ProgressKeepsInv ==
    ASSUME AdmissionInv, NEW c \in Caller, NEW to, Progress(c, to), Only(c, to),
           row' \in Builder \cup {Nobody, Other}
    PROVE  AdmissionInv'
<1> USE DEF AdmissionInv, Only, Progress, Marked, MarkingPhases, ClaimPhases, Arbitrating,
            Revocable
<1>1. TypeOK'
  BY DEF TypeOK, Phases
<1>2. /\ at'[c] = to
      /\ \A d \in Caller \ {c} : at'[d] = at[d]
  BY DEF TypeOK
<1>3. Sides'
  BY <1>2 DEF Sides
<1>4. MarkerIsOwned'
  BY <1>2 DEF MarkerIsOwned
<1>5. ArbiterIsInside'
  BY <1>2 DEF ArbiterIsInside
<1>6. SlotIsOwned'
  BY <1>2 DEF SlotIsOwned, SlotPhases, Busy
<1>7. Apart'
  BY <1>2 DEF Apart
<1>8. \A d \in Maintainer : at'[d] = "done" => at[d] = "done"
  BY <1>2 DEF Caller
<1>9. DisplacedIsOld'
  BY <1>2, <1>8 DEF DisplacedIsOld
<1>10. ResultKept'
  BY <1>8 DEF ResultKept
<1> QED
  BY <1>1, <1>3, <1>4, <1>5, <1>6, <1>7, <1>9, <1>10

-----------------------------------------------------------------------------
(* Steps that take or give up the marker, the slot or the lock *)

(* The marker is taken inside the lock. *)
LEMMA ReserveKeepsInv == ASSUME AdmissionInv, NEW c \in Caller, Reserve(c) PROVE AdmissionInv'
<1> USE AdmissionAssumption DEF AdmissionInv, Move, Reserve, Takes, MarkingPhases, ClaimPhases, Arbitrating
<1>1. /\ at[c] = "new"
      /\ at'[c] = "checkSlot"
      /\ \A d \in Caller \ {c} : at'[d] = at[d]
  BY DEF TypeOK
<1>2. TypeOK'
  BY <1>1 DEF TypeOK, Phases, Slots, Caller
<1>3. Sides'
  BY <1>1 DEF Sides, Caller, Marking
<1>4. MarkerIsOwned'
  BY <1>1 DEF MarkerIsOwned
<1>5. ArbiterIsInside'
  BY <1>1 DEF ArbiterIsInside
<1>6. SlotIsOwned'
  BY <1>1 DEF SlotIsOwned, SlotPhases, Busy
<1>7. Apart'
  BY <1>1 DEF Apart
<1>8. DisplacedIsOld'
  BY <1>1 DEF DisplacedIsOld, Revocable
<1>9. ResultKept'
  BY <1>1 DEF ResultKept
<1> QED
  BY <1>2, <1>3, <1>4, <1>5, <1>6, <1>7, <1>8, <1>9

(* The slot was free: the lock is given up, the marker kept. *)
LEMMA PassCheckKeepsInv == ASSUME AdmissionInv, NEW c \in Caller, PassCheck(c) PROVE AdmissionInv'
<1> USE AdmissionAssumption DEF AdmissionInv, Move, PassCheck, MarkingPhases, ClaimPhases, Arbitrating
<1>1. /\ at[c] = "checkSlot"
      /\ at'[c] \in {"erasing", "creating"}
      /\ \A d \in Caller \ {c} : at'[d] = at[d]
  BY DEF TypeOK
<1>2. TypeOK'
  BY <1>1 DEF TypeOK, Phases, Slots, Caller
<1>3. Sides'
  BY <1>1 DEF Sides, Caller, Marking
<1>4. MarkerIsOwned'
  BY <1>1 DEF MarkerIsOwned
<1>5. ArbiterIsInside'
  BY <1>1 DEF ArbiterIsInside
<1>6. SlotIsOwned'
  BY <1>1 DEF SlotIsOwned, SlotPhases, Busy
<1>7. Apart'
  BY <1>1 DEF Apart, SlotIsOwned, SlotPhases, Busy
<1>8. DisplacedIsOld'
  BY <1>1 DEF DisplacedIsOld, Revocable
<1>9. ResultKept'
  BY <1>1 DEF ResultKept
<1> QED
  BY <1>2, <1>3, <1>4, <1>5, <1>6, <1>7, <1>8, <1>9

(* The marker and the lock are given up. *)
LEMMA YieldKeepsInv == ASSUME AdmissionInv, NEW c \in Caller, Yield(c) PROVE AdmissionInv'
<1> USE AdmissionAssumption DEF AdmissionInv, Move, Yield, MarkingPhases, ClaimPhases, Arbitrating
<1>1. /\ at[c] = "yielding"
      /\ at'[c] = "refused"
      /\ \A d \in Caller \ {c} : at'[d] = at[d]
  BY DEF TypeOK
<1>2. TypeOK'
  BY <1>1 DEF TypeOK, Phases, Slots, Caller
<1>3. Sides'
  BY <1>1 DEF Sides, Caller, Marking
<1>4. MarkerIsOwned'
  BY <1>1 DEF MarkerIsOwned
<1>5. ArbiterIsInside'
  BY <1>1 DEF ArbiterIsInside
<1>6. SlotIsOwned'
  BY <1>1 DEF SlotIsOwned, SlotPhases, Busy
<1>7. Apart'
  BY <1>1 DEF Apart
<1>8. DisplacedIsOld'
  BY <1>1 DEF DisplacedIsOld, Revocable
<1>9. ResultKept'
  BY <1>1 DEF ResultKept
<1> QED
  BY <1>2, <1>3, <1>4, <1>5, <1>6, <1>7, <1>8, <1>9

(* A failed preparation lowers its marker. *)
LEMMA ReleaseKeepsInv == ASSUME AdmissionInv, NEW c \in Caller, Release(c) PROVE AdmissionInv'
<1> USE AdmissionAssumption DEF AdmissionInv, Move, Release, MarkingPhases, ClaimPhases, Arbitrating
<1>1. /\ at[c] = "releasing"
      /\ at'[c] = "refused"
      /\ \A d \in Caller \ {c} : at'[d] = at[d]
  BY DEF TypeOK
<1>2. TypeOK'
  BY <1>1 DEF TypeOK, Phases, Slots, Caller
<1>3. Sides'
  BY <1>1 DEF Sides, Caller, Marking
<1>4. MarkerIsOwned'
  BY <1>1 DEF MarkerIsOwned
<1>5. ArbiterIsInside'
  BY <1>1 DEF ArbiterIsInside
<1>6. SlotIsOwned'
  BY <1>1 DEF SlotIsOwned, SlotPhases, Busy
<1>7. Apart'
  BY <1>1 DEF Apart
<1>8. DisplacedIsOld'
  BY <1>1 DEF DisplacedIsOld, Revocable
<1>9. ResultKept'
  BY <1>1 DEF ResultKept
<1> QED
  BY <1>2, <1>3, <1>4, <1>5, <1>6, <1>7, <1>8, <1>9

(* The end of an analysis lowers its marker. *)
LEMMA UnmarkKeepsInv == ASSUME AdmissionInv, NEW c \in Caller, Unmark(c) PROVE AdmissionInv'
<1> USE AdmissionAssumption DEF AdmissionInv, Move, Unmark, MarkingPhases, ClaimPhases, Arbitrating
<1>1. /\ at[c] = "unmarking"
      /\ at'[c] = "done"
      /\ \A d \in Caller \ {c} : at'[d] = at[d]
  BY DEF TypeOK
<1>2. TypeOK'
  BY <1>1 DEF TypeOK, Phases, Slots, Caller
<1>3. Sides'
  BY <1>1 DEF Sides, Caller, Marking
<1>4. MarkerIsOwned'
  BY <1>1 DEF MarkerIsOwned
<1>5. ArbiterIsInside'
  BY <1>1 DEF ArbiterIsInside
<1>6. SlotIsOwned'
  BY <1>1 DEF SlotIsOwned, SlotPhases, Busy
<1>7. Apart'
  BY <1>1 DEF Apart
<1>c. c \notin Maintainer
  BY <1>1 DEF Sides
<1>8. DisplacedIsOld'
  BY <1>1, <1>c DEF DisplacedIsOld, Revocable, Caller
<1>9. ResultKept'
  BY <1>1, <1>c DEF ResultKept, Caller
<1> QED
  BY <1>2, <1>3, <1>4, <1>5, <1>6, <1>7, <1>8, <1>9

(* The tail takes the slot when nobody arbitrates. *)
LEMMA ClaimTailKeepsInv == ASSUME AdmissionInv, NEW c \in Caller, ClaimTail(c) PROVE AdmissionInv'
<1> USE AdmissionAssumption DEF AdmissionInv, Move, ClaimTail, MarkingPhases, ClaimPhases, Arbitrating
<1>1. /\ at[c] = "tail"
      /\ at'[c] = "relinking"
      /\ \A d \in Caller \ {c} : at'[d] = at[d]
  BY DEF TypeOK
<1>2. TypeOK'
  BY <1>1 DEF TypeOK, Phases, Slots, Caller
<1>3. Sides'
  BY <1>1 DEF Sides, Caller, Marking
<1>4. MarkerIsOwned'
  BY <1>1 DEF MarkerIsOwned
<1>5. ArbiterIsInside'
  BY <1>1 DEF ArbiterIsInside
<1>6. SlotIsOwned'
  BY <1>1 DEF SlotIsOwned, SlotPhases, Busy
<1>7. Apart'
  BY <1>1 DEF Apart
<1>8. DisplacedIsOld'
  BY <1>1 DEF DisplacedIsOld, Revocable
<1>9. ResultKept'
  BY <1>1 DEF ResultKept
<1> QED
  BY <1>2, <1>3, <1>4, <1>5, <1>6, <1>7, <1>8, <1>9

(* The tail settles its entry. *)
LEMMA EndTailKeepsInv == ASSUME AdmissionInv, NEW c \in Caller, EndTail(c) PROVE AdmissionInv'
<1> USE AdmissionAssumption DEF AdmissionInv, Move, EndTail, Ended, AfterTail, MarkingPhases, ClaimPhases, Arbitrating
<1>1. /\ at[c] = "relinking"
      /\ at'[c] \in {"finishing", "unmarking"}
      /\ \A d \in Caller \ {c} : at'[d] = at[d]
  BY DEF TypeOK
<1>2. TypeOK'
  BY <1>1 DEF TypeOK, Phases, Slots, Caller
<1>3. Sides'
  BY <1>1 DEF Sides, Caller, Marking
<1>4. MarkerIsOwned'
  BY <1>1 DEF MarkerIsOwned
<1>5. ArbiterIsInside'
  BY <1>1 DEF ArbiterIsInside
<1>6. SlotIsOwned'
  BY <1>1 DEF SlotIsOwned, SlotPhases, Busy
<1>7. Apart'
  BY <1>1 DEF Apart
<1>8. DisplacedIsOld'
  BY <1>1 DEF DisplacedIsOld, Revocable
<1>9. ResultKept'
  BY <1>1 DEF ResultKept
<1> QED
  BY <1>2, <1>3, <1>4, <1>5, <1>6, <1>7, <1>8, <1>9

(* A pass takes the slot inside the lock and remembers what it displaced. *)
LEMMA RegisterKeepsInv == ASSUME AdmissionInv, NEW c \in Caller, Register(c) PROVE AdmissionInv'
<1> USE AdmissionAssumption DEF AdmissionInv, Move, Register, Takes, Busy, MarkingPhases, ClaimPhases, Arbitrating
<1>1. /\ at[c] = "new"
      /\ at'[c] = "checkMarker"
      /\ \A d \in Caller \ {c} : at'[d] = at[d]
  BY DEF TypeOK
<1>2. TypeOK'
  BY <1>1 DEF TypeOK, Phases, Slots, Caller
<1>3. Sides'
  BY <1>1 DEF Sides, Caller, Marking
<1>4. MarkerIsOwned'
  BY <1>1 DEF MarkerIsOwned
<1>5. ArbiterIsInside'
  BY <1>1 DEF ArbiterIsInside
<1>6. SlotIsOwned'
  BY <1>1 DEF SlotIsOwned, SlotPhases, Busy
<1>7. Apart'
  BY <1>1 DEF Apart
<1>8. DisplacedIsOld'
  BY <1>1 DEF DisplacedIsOld, Revocable, ResultKept, TypeOK, Slots, Caller
<1>9. ResultKept'
  BY <1>1 DEF ResultKept
<1> QED
  BY <1>2, <1>3, <1>4, <1>5, <1>6, <1>7, <1>8, <1>9

(* There was no marker: the lock is given up, the slot kept. *)
LEMMA PassMarkerKeepsInv == ASSUME AdmissionInv, NEW c \in Caller, PassMarker(c) PROVE AdmissionInv'
<1> USE AdmissionAssumption DEF AdmissionInv, Move, PassMarker, MarkingPhases, ClaimPhases, Arbitrating
<1>1. /\ at[c] = "checkMarker"
      /\ at'[c] \in {"probing", "handing"}
      /\ \A d \in Caller \ {c} : at'[d] = at[d]
  BY DEF TypeOK
<1>2. TypeOK'
  BY <1>1 DEF TypeOK, Phases, Slots, Caller
<1>3. Sides'
  BY <1>1 DEF Sides, Caller, Marking
<1>4. MarkerIsOwned'
  BY <1>1 DEF MarkerIsOwned
<1>5. ArbiterIsInside'
  BY <1>1 DEF ArbiterIsInside
<1>6. SlotIsOwned'
  BY <1>1 DEF SlotIsOwned, SlotPhases, Busy
<1>7. Apart'
  BY <1>1 DEF Apart, MarkerIsOwned
<1>8. DisplacedIsOld'
  BY <1>1 DEF DisplacedIsOld, Revocable
<1>9. ResultKept'
  BY <1>1 DEF ResultKept
<1> QED
  BY <1>2, <1>3, <1>4, <1>5, <1>6, <1>7, <1>8, <1>9

(* The displaced entry comes back, and the lock is given up. *)
LEMMA RevokeKeepsInv == ASSUME AdmissionInv, NEW c \in Caller, Revoke(c) PROVE AdmissionInv'
<1> USE AdmissionAssumption DEF AdmissionInv, Move, Revoke, Restored, MarkingPhases, ClaimPhases, Arbitrating
<1>1. /\ at[c] = "revoking"
      /\ at'[c] = "refused"
      /\ \A d \in Caller \ {c} : at'[d] = at[d]
  BY DEF TypeOK
<1>s. /\ slot.job = c /\ slot' = displaced[c]
      /\ displaced[c] \in Slots /\ displaced[c].status # "running"
      /\ displaced[c].status = "none" <=> displaced[c].job = Nobody
      /\ (\E d \in Maintainer : at[d] = "done") => displaced[c].status = "ended"
      /\ \A d \in Caller \ {c} : at[d] \notin SlotPhases
  BY <1>1 DEF SlotIsOwned, SlotPhases, DisplacedIsOld, Revocable, TypeOK
<1>2. TypeOK'
  BY <1>1, <1>s DEF TypeOK, Phases, Slots, Caller
<1>3. Sides'
  BY <1>1 DEF Sides, Caller, Marking
<1>4. MarkerIsOwned'
  BY <1>1 DEF MarkerIsOwned
<1>5. ArbiterIsInside'
  BY <1>1 DEF ArbiterIsInside
<1>6. SlotIsOwned'
  BY <1>1, <1>s DEF SlotPhases, SlotIsOwned, Busy
<1>7. Apart'
  BY <1>1 DEF Apart
<1>8. DisplacedIsOld'
  BY <1>1 DEF DisplacedIsOld, Revocable
<1>9. ResultKept'
  BY <1>1, <1>s DEF ResultKept, Caller
<1> QED
  BY <1>2, <1>3, <1>4, <1>5, <1>6, <1>7, <1>8, <1>9

(* The displaced entry comes back after a durable refusal. *)
LEMMA WithdrawKeepsInv == ASSUME AdmissionInv, NEW c \in Caller, Withdraw(c) PROVE AdmissionInv'
<1> USE AdmissionAssumption DEF AdmissionInv, Move, Withdraw, Restored, MarkingPhases, ClaimPhases, Arbitrating
<1>1. /\ at[c] = "withdrawing"
      /\ at'[c] = "refused"
      /\ \A d \in Caller \ {c} : at'[d] = at[d]
  BY DEF TypeOK
<1>s. /\ slot.job = c /\ slot' = displaced[c]
      /\ displaced[c] \in Slots /\ displaced[c].status # "running"
      /\ displaced[c].status = "none" <=> displaced[c].job = Nobody
      /\ (\E d \in Maintainer : at[d] = "done") => displaced[c].status = "ended"
      /\ \A d \in Caller \ {c} : at[d] \notin SlotPhases
  BY <1>1 DEF SlotIsOwned, SlotPhases, DisplacedIsOld, Revocable, TypeOK
<1>2. TypeOK'
  BY <1>1, <1>s DEF TypeOK, Phases, Slots, Caller
<1>3. Sides'
  BY <1>1 DEF Sides, Caller, Marking
<1>4. MarkerIsOwned'
  BY <1>1 DEF MarkerIsOwned
<1>5. ArbiterIsInside'
  BY <1>1 DEF ArbiterIsInside
<1>6. SlotIsOwned'
  BY <1>1, <1>s DEF SlotPhases, SlotIsOwned, Busy
<1>7. Apart'
  BY <1>1 DEF Apart
<1>8. DisplacedIsOld'
  BY <1>1 DEF DisplacedIsOld, Revocable
<1>9. ResultKept'
  BY <1>1, <1>s DEF ResultKept, Caller
<1> QED
  BY <1>2, <1>3, <1>4, <1>5, <1>6, <1>7, <1>8, <1>9

(* A pass settles its entry. *)
LEMMA SettleKeepsInv == ASSUME AdmissionInv, NEW c \in Caller, Settle(c) PROVE AdmissionInv'
<1> USE AdmissionAssumption DEF AdmissionInv, Move, Settle, Ended, MarkingPhases, ClaimPhases, Arbitrating
<1>1. /\ at[c] = "settling"
      /\ at'[c] = "done"
      /\ \A d \in Caller \ {c} : at'[d] = at[d]
  BY DEF TypeOK
<1>s. /\ slot'.status = "ended"
      /\ \A d \in Caller \ {c} : at[d] \notin SlotPhases
  BY <1>1 DEF SlotIsOwned, SlotPhases, TypeOK, Slots
<1>2. TypeOK'
  BY <1>1 DEF TypeOK, Phases, Slots, Caller
<1>3. Sides'
  BY <1>1 DEF Sides, Caller, Marking
<1>4. MarkerIsOwned'
  BY <1>1 DEF MarkerIsOwned
<1>5. ArbiterIsInside'
  BY <1>1 DEF ArbiterIsInside
<1>6. SlotIsOwned'
  BY <1>1 DEF SlotIsOwned, SlotPhases, Busy
<1>7. Apart'
  BY <1>1 DEF Apart
<1>8. DisplacedIsOld'
  BY <1>1, <1>s DEF DisplacedIsOld, Revocable, SlotPhases
<1>9. ResultKept'
  BY <1>s DEF ResultKept
<1> QED
  BY <1>2, <1>3, <1>4, <1>5, <1>6, <1>7, <1>8, <1>9

(* A row of another process is not an attempt's. *)
LEMMA OtherKeepsInv == AdmissionInv /\ (OtherStarts \/ OtherEnds) => AdmissionInv'
<1> SUFFICES ASSUME AdmissionInv, OtherStarts \/ OtherEnds PROVE AdmissionInv'
  OBVIOUS
<1>1. /\ UNCHANGED <<arbiter, building, slot, at, displaced>>
      /\ row' \in {Nobody, Other}
  BY DEF OtherStarts, OtherEnds
<1> QED
  BY <1>1 DEF AdmissionInv, TypeOK, Sides, MarkerIsOwned, ArbiterIsInside, SlotIsOwned, Busy,
              Apart, DisplacedIsOld, ResultKept

-----------------------------------------------------------------------------
(* The invariant *)

LEMMA BuildStepKeepsInv ==
    ASSUME AdmissionInv, NEW c \in Caller, BuildStep(c) PROVE AdmissionInv'
<1> USE DEF AdmissionInv, Move, Progress, Only, Marked, MarkingPhases, ClaimPhases, Arbitrating
<1> DEFINE Quiet(to) == Progress(c, to) /\ Only(c, to) /\ row' \in Builder \cup {Nobody, Other}
<1>1. ASSUME NEW to, Quiet(to) PROVE AdmissionInv'
  BY <1>1, ProgressKeepsInv
<1>2. CASE FailCheck(c)
  <2>1. Quiet("yielding")
    BY <1>2 DEF FailCheck, TypeOK
  <2> QED
    BY <2>1, <1>1
<1>3. CASE CreateRow(c)
  <2>1. Quiet("submitting")
    BY <1>3 DEF CreateRow, Sides
  <2> QED
    BY <2>1, <1>1
<1>4. CASE CreateFails(c)
  <2>1. Quiet("releasing")
    BY <1>4 DEF CreateFails, TypeOK, Sides
  <2> QED
    BY <2>1, <1>1
<1>5. CASE Submit(c)
  <2>1. Quiet("queued") \/ Quiet("unsubmitted") \/ Quiet("lost")
    BY <1>5 DEF Submit, TypeOK
  <2> QED
    BY <2>1, <1>1
<1>6. CASE StartBuild(c)
  <2>1. building
    BY <1>6 DEF StartBuild, MarkerIsOwned
  <2>2. Quiet("building")
    BY <1>6, <2>1 DEF StartBuild, TypeOK
  <2> QED
    BY <2>2, <1>1
<1>7. CASE BuildFails(c)
  <2>1. Quiet("finishing")
    BY <1>7 DEF BuildFails, TypeOK
  <2> QED
    BY <2>1, <1>1
<1>8. CASE BuildSucceeds(c)
  <2>1. Quiet("tail")
    BY <1>8 DEF BuildSucceeds, TypeOK
  <2> QED
    BY <2>1, <1>1
<1>9. CASE PublishRow(c)
  <2>1. Quiet("tail")
    BY <1>9 DEF PublishRow
  <2> QED
    BY <2>1, <1>1
<1>10. CASE PublishWithoutModel(c)
  <2>1. Quiet("publishing")
    BY <1>10 DEF PublishWithoutModel, TypeOK
  <2> QED
    BY <2>1, <1>1
<1>11. CASE Published(c)
  <2>1. Quiet("unmarking")
    BY <1>11 DEF Published, TypeOK
  <2> QED
    BY <2>1, <1>1
<1>12. CASE PublishRaises(c)
  <2>1. Quiet("lost")
    BY <1>12 DEF PublishRaises, MayEndRow, TypeOK
  <2> QED
    BY <2>1, <1>1
<1>13. CASE SkipTail(c)
  <2>1. Quiet("finishing") \/ Quiet("unmarking")
    BY <1>13 DEF SkipTail, AfterTail, TypeOK
  <2> QED
    BY <2>1, <1>1
<1>14. CASE FinishRow(c)
  <2>1. Quiet("unmarking")
    BY <1>14 DEF FinishRow, MayEndRow, TypeOK
  <2> QED
    BY <2>1, <1>1
<1>15. CASE EndErasure(c)
  <2>1. Quiet("unmarking")
    BY <1>15 DEF EndErasure, TypeOK
  <2> QED
    BY <2>1, <1>1
<1>16. CASE FailSubmission(c)
  <2>1. Quiet("unmarking") \/ Quiet("lost")
    BY <1>16 DEF FailSubmission, MayEndRow, TypeOK
  <2> QED
    BY <2>1, <1>1
<1>17. CASE StartRaises(c)
  <2>1. Quiet("lost")
    BY <1>17 DEF StartRaises, TypeOK
  <2> QED
    BY <2>1, <1>1
<1> HIDE DEF Quiet, AdmissionInv
<1> QED
  BY <1>2, <1>3, <1>4, <1>5, <1>6, <1>7, <1>8, <1>9, <1>10, <1>11, <1>12, <1>13, <1>14, <1>15,
     <1>16, <1>17, PassCheckKeepsInv, YieldKeepsInv, ReleaseKeepsInv, UnmarkKeepsInv, ClaimTailKeepsInv,
     EndTailKeepsInv
     DEF BuildStep

LEMMA PassStepKeepsInv ==
    ASSUME AdmissionInv, NEW c \in Caller, PassStep(c) PROVE AdmissionInv'
<1> USE DEF AdmissionInv, Move, Progress, Only, ClaimPhases, Arbitrating, Revocable
<1> DEFINE Quiet(to) == Progress(c, to) /\ Only(c, to) /\ row' \in Builder \cup {Nobody, Other}
<1>1. ASSUME NEW to, Quiet(to) PROVE AdmissionInv'
  BY <1>1, ProgressKeepsInv
<1>2. CASE FailMarker(c)
  <2>1. Quiet("revoking")
    BY <1>2 DEF FailMarker, TypeOK
  <2> QED
    BY <2>1, <1>1
<1>3. CASE ProbeClear(c)
  <2>1. Quiet("handing")
    BY <1>3 DEF ProbeClear, TypeOK
  <2> QED
    BY <2>1, <1>1
<1>4. CASE ProbeRefuses(c)
  <2>1. Quiet("withdrawing")
    BY <1>4 DEF ProbeRefuses, TypeOK
  <2> QED
    BY <2>1, <1>1
<1>5. CASE Hand(c)
  <2>1. Quiet("waiting") \/ Quiet("settling")
    BY <1>5 DEF Hand, TypeOK
  <2> QED
    BY <2>1, <1>1
<1>6. CASE StartPass(c)
  <2>1. Quiet("passing")
    BY <1>6 DEF StartPass, TypeOK
  <2> QED
    BY <2>1, <1>1
<1>7. CASE EndPass(c)
  <2>1. Quiet("settling")
    BY <1>7 DEF EndPass, TypeOK
  <2> QED
    BY <2>1, <1>1
<1> HIDE DEF Quiet, AdmissionInv
<1> QED
  BY <1>2, <1>3, <1>4, <1>5, <1>6, <1>7, PassMarkerKeepsInv, RevokeKeepsInv, WithdrawKeepsInv,
     SettleKeepsInv
     DEF PassStep

LEMMA ArriveKeepsInv ==
    ASSUME AdmissionInv, NEW c \in Caller, Arrive(c) PROVE AdmissionInv'
<1>1. CASE RefuseBuilding(c) \/ RefuseBusy(c)
  <2>1. Progress(c, "refused") /\ Only(c, "refused") /\ row' \in Builder \cup {Nobody, Other}
    BY <1>1 DEF RefuseBuilding, RefuseBusy, Move, Progress, Only, AdmissionInv, TypeOK
  <2> QED
    BY <2>1, ProgressKeepsInv
<1> QED
  BY <1>1, ReserveKeepsInv, RegisterKeepsInv DEF Arrive

LEMMA InvStep == AdmissionInv /\ [Next]_vars => AdmissionInv'
<1> SUFFICES ASSUME AdmissionInv, [Next]_vars PROVE AdmissionInv'
  OBVIOUS
<1>1. CASE UNCHANGED vars
  BY <1>1 DEF vars, AdmissionInv, TypeOK, Sides, MarkerIsOwned, ArbiterIsInside, SlotIsOwned,
              Busy, Apart, DisplacedIsOld, ResultKept
<1> QED
  BY <1>1, OtherKeepsInv, ArriveKeepsInv, BuildStepKeepsInv, PassStepKeepsInv DEF Next

LEMMA Invariance == Spec => []AdmissionInv
  BY InvInit, InvStep, PTL DEF Spec

-----------------------------------------------------------------------------
(* What follows *)

(* Every variable of the admission keeps its type, and an idle slot is      *)
(* exactly one without an entry.                                            *)
THEOREM AdmissionTypeCorrect == Spec => []TypeOK
<1>1. AdmissionInv => TypeOK
  BY DEF AdmissionInv
<1> QED
  BY <1>1, Invariance, PTL

(* The marker is up exactly while one attempt holds it: no release, of any  *)
(* path, lowers another attempt's marker.                                   *)
THEOREM MarkerHasOneOwner == Spec => []MarkerIsOwned
<1>1. AdmissionInv => MarkerIsOwned
  BY DEF AdmissionInv
<1> QED
  BY <1>1, Invariance, PTL

(* The result of a settled pass is not taken back by a refused claim.       *)
THEOREM SettledResultKept == Spec => []ResultKept
<1>1. AdmissionInv => ResultKept
  BY DEF AdmissionInv
<1> QED
  BY <1>1, Invariance, PTL

(* No two attempts read or rewrite the graph at once, however many          *)
(* analyses, pipeline rebuilds, erasures and passes compete for it.         *)
THEOREM OneWriter == Spec => []OneAtATime
<1>1. AdmissionInv => OneAtATime
  <2> SUFFICES ASSUME AdmissionInv, NEW c \in Working, NEW d \in Working PROVE c = d
    BY DEF OneAtATime
  <2> USE DEF AdmissionInv, Working, MarkingPhases, ClaimPhases
  <2>1. CASE at[c] = "passing" /\ at[d] = "passing"
    BY <2>1 DEF SlotIsOwned, SlotPhases
  <2>2. CASE at[c] # "passing" /\ at[d] # "passing"
    BY <2>2 DEF MarkerIsOwned
  <2>3. CASE (at[c] = "passing") # (at[d] = "passing")
    BY <2>3 DEF Apart
  <2> QED
    BY <2>1, <2>2, <2>3
<1> QED
  BY <1>1, Invariance, PTL

(* The relinking at the tail of an analysis is never refused by a pass that *)
(* came after the analysis was admitted.                                    *)
THEOREM TailGetsSlot == Spec => []TailFindsSlotFree
<1>1. AdmissionInv => TailFindsSlotFree
  <2> SUFFICES ASSUME AdmissionInv, NEW c \in Caller, at[c] = "tail", arbiter = Nobody, Busy
               PROVE  FALSE
    BY DEF TailFindsSlotFree
  <2> USE AdmissionAssumption DEF AdmissionInv, MarkingPhases, ClaimPhases
  <2>1. PICK d \in Caller : at[d] \in SlotPhases
    BY DEF SlotIsOwned
  <2>2. CASE at[d] = "relinking"
    BY <2>2 DEF MarkerIsOwned
  <2>3. CASE at[d] \in ClaimPhases
    BY <2>3 DEF Apart, ArbiterIsInside, Arbitrating
  <2> QED
    BY <2>1, <2>2, <2>3 DEF SlotPhases
<1> QED
  BY <1>1, Invariance, PTL

(* Two attempts never refuse each other: whoever is refused is refused      *)
(* because another attempt is admitted.                                     *)
THEOREM FirstIsAdmitted == Spec => FirstWins
<1>1. ASSUME AdmissionInv, [Next]_vars, NEW c \in Caller, IsRefused(c)
      PROVE  \E d \in Caller \ {c} : Admitted(d)
  <2> USE AdmissionAssumption DEF AdmissionInv, MarkingPhases, ClaimPhases, Arbitrating
  <2>1. RefuseBuilding(c) \/ RefuseBusy(c) \/ FailCheck(c) \/ FailMarker(c)
    <3> USE <1>1 DEF IsRefused, TypeOK, Move
    <3>1. CASE UNCHANGED vars \/ OtherStarts \/ OtherEnds
      BY <3>1 DEF vars, OtherStarts, OtherEnds
    <3>2. ASSUME NEW d \in Caller, Arrive(d) PROVE RefuseBuilding(c) \/ RefuseBusy(c)
      BY <3>2 DEF Arrive, Reserve, RefuseBuilding, Register, RefuseBusy
    <3>3. ASSUME NEW d \in Caller, BuildStep(d) PROVE FailCheck(c)
      BY <3>3 DEF BuildStep, PassCheck, FailCheck, Yield, CreateRow, CreateFails, Release, Submit,
                  FailSubmission, StartBuild, StartRaises, BuildFails, BuildSucceeds, PublishRow, PublishWithoutModel,
                  Published, PublishRaises, ClaimTail, SkipTail, AfterTail, EndTail, FinishRow,
                  EndErasure, Unmark
    <3>4. ASSUME NEW d \in Caller, PassStep(d) PROVE FailMarker(c)
      BY <3>4 DEF PassStep, PassMarker, FailMarker, Revoke, ProbeClear, ProbeRefuses, Withdraw,
                  Hand, StartPass, EndPass, Settle
    <3> QED
      BY <3>1, <3>2, <3>3, <3>4 DEF Next
  <2>2. CASE RefuseBuilding(c)
    <3>1. PICK d \in Caller : at[d] \in MarkingPhases
      BY <1>1, <2>2 DEF RefuseBuilding, MarkerIsOwned
    <3> QED
      BY <1>1, <2>2, <3>1 DEF RefuseBuilding, Move, ArbiterIsInside, Admitted
  <2>3. CASE RefuseBusy(c)
    <3>1. PICK d \in Caller : at[d] \in SlotPhases
      BY <1>1, <2>3 DEF RefuseBusy, SlotIsOwned
    <3> QED
      BY <1>1, <2>3, <3>1 DEF RefuseBusy, Move, ArbiterIsInside, Admitted, SlotPhases
  <2>4. CASE FailCheck(c)
    <3>1. PICK d \in Caller : at[d] \in SlotPhases
      BY <1>1, <2>4 DEF FailCheck, SlotIsOwned
    <3>2. arbiter = c
      BY <1>1, <2>4 DEF FailCheck, Move, ArbiterIsInside
    <3> QED
      BY <1>1, <2>4, <3>1, <3>2 DEF FailCheck, Move, ArbiterIsInside, Admitted, SlotPhases
  <2>5. CASE FailMarker(c)
    <3>1. PICK d \in Caller : at[d] \in MarkingPhases
      BY <1>1, <2>5 DEF FailMarker, MarkerIsOwned
    <3>2. arbiter = c
      BY <1>1, <2>5 DEF FailMarker, Move, ArbiterIsInside
    <3> QED
      BY <1>1, <2>5, <3>1, <3>2 DEF FailMarker, Move, ArbiterIsInside, Admitted
  <2> QED
    BY <2>1, <2>2, <2>3, <2>4, <2>5
<1>2. AdmissionInv /\ [Next]_vars =>
        [\A c \in Caller : IsRefused(c) => \E d \in Caller \ {c} : Admitted(d)]_vars
  BY <1>1
<1> QED
  BY <1>2, Invariance, PTL DEF FirstWins, Spec
=============================================================================
