------------------------ MODULE ExternalMiningProofs ------------------------
(***************************************************************************)
(* The external mining slot for any number of templates, commits and       *)
(* changes of readiness: the slot and its tasks agree, a ready template is *)
(* current or about to be invalidated, and the whole implements one        *)
(* attempt at a time.                                                      *)
(***************************************************************************)
EXTENDS ExternalMining, TLAPS

(* An invalidation for the current tip is still to come.                   *)
Owed == tipWatch \/ gate = "snapshot" \/ (suffix.st # "idle" /\ suffix.tip = tip)

(* Templates are used in order, and proved only after their preparation.   *)
InOrder ==
  /\ slot.st # "idle" => slot.id \in Template /\ slot.id <= next
  /\ \A id \in Template :
       /\ id > next => prep[id] = "none"
       /\ prep[id] # "ended" => prove[id] = "none"

(* An attempt about to be installed is current, marked, or about to be     *)
(* marked: the tip check precedes the installation.                        *)
InstallCurrent ==
  \A id \in Template :
    prep[id] = "install" /\ parent[id] # tip => slot.invalidated \/ Owed

(* The ready attempt's parent is the one its task captured.                *)
ParentKept == slot.st = "ready" => slot.parent = parent[slot.id]

(* The proving task that committed holds the gate, and it alone.           *)
GateHeld ==
  /\ \A id \in Template : prove[id] = "update" => gate = "proving"
  /\ gate = "proving" => slot.st = "proving" /\ prove[slot.id] = "update"
  /\ gate = "suffix" <=> suffix.st = "committed"

IInv == TypeOK /\ SlotOwned /\ InOrder /\ InstallCurrent /\ ReadyCurrent /\ ParentKept /\ GateHeld

-----------------------------------------------------------------------------
(* Every value the slot takes has the slot's type. *)
LEMMA SlotForms ==
  /\ Idle \in Slot
  /\ \A id \in Template, p \in Nat :
       Preparing(id, TRUE) \in Slot /\ Preparing(id, FALSE) \in Slot /\ Ready(id, p) \in Slot /\ Proving(id) \in Slot
BY BoundsAssumption DEF Idle, Preparing, Ready, Proving, Slot, Template

(* Every step keeps the types. *)
LEMMA TypeNext == IInv /\ Next => TypeOK'
<1> SUFFICES ASSUME IInv, Next PROVE TypeOK'
  OBVIOUS
<1> USE BoundsAssumption DEF IInv, TypeOK, InOrder, Slot, Idle, Template
<1>1. CASE GetBlockTemplate
  BY <1>1 DEF GetBlockTemplate, Preparing
<1>2. CASE ExpireReady
  BY <1>2 DEF ExpireReady
<1>3. CASE FlipNetwork
  BY <1>3 DEF FlipNetwork
<1>4. CASE SuffixCommit
  BY <1>4 DEF SuffixCommit
<1>5. CASE SnapshotCommit
  BY <1>5 DEF SnapshotCommit
<1>6. CASE SuffixRelease
  BY <1>6 DEF SuffixRelease
<1>7. CASE HandleCompletion
  BY <1>7 DEF HandleCompletion, InvalidateExcept, Preparing, NoSuffix
<1>8. CASE SnapshotRelease
  BY <1>8 DEF SnapshotRelease, InvalidateExcept, Preparing
<1>9. CASE HandleTipChange
  <2>1. slot' \in {slot, Idle, Preparing(slot.id, TRUE)}
    BY <1>9 DEF HandleTipChange, InvalidateExcept, Preparing
  <2>2. tipWatch' \in BOOLEAN
    BY <1>9, Zenon DEF HandleTipChange
  <2>3. slot' \in Slot
    <3> HIDE DEF Slot, Idle
    <3> QED BY <1>9, <2>1, SlotForms, Zenon DEF HandleTipChange, InvalidateExcept
  <2> QED BY <1>9, <2>2, <2>3 DEF HandleTipChange
<1>10. CASE \E id \in Template : PrepareFails(id)
  BY <1>10 DEF PrepareFails, CancelPreparation
<1>11. CASE \E id \in Template : CaptureParent(id)
  BY <1>11 DEF CaptureParent
<1>12. CASE \E id \in Template : PreparationDone(id)
  BY <1>12 DEF PreparationDone
<1>13. CASE \E id \in Template : PreparedTipCheck(id)
  BY <1>13 DEF PreparedTipCheck
<1>14. CASE \E id \in Template : Install(id)
  BY <1>14 DEF Install, InstallReady, CancelPreparation, Ready
<1>15. CASE \E id \in Template : SubmitBlock(id)
  BY <1>15 DEF SubmitBlock
<1>16. CASE \E id \in Template : ProvingFails(id)
  BY <1>16 DEF ProvingFails, FinishProving
<1>17. CASE \E id \in Template : ProvingTipCheck(id)
  BY <1>17 DEF ProvingTipCheck
<1>18. CASE \E id \in Template : SealNonce(id)
  BY <1>18 DEF SealNonce
<1>19. CASE \E id \in Template : CommitBlock(id)
  BY <1>19 DEF CommitBlock
<1>20. CASE \E id \in Template : FinishBlock(id)
  BY <1>20 DEF FinishBlock
<1>23. CASE \E id \in Template : AnnounceBlock(id)
  BY <1>23 DEF AnnounceBlock, FinishProving
<1>21. CASE \E s \in sub : BeginProving(s)
  <2> PICK s \in sub : BeginProving(s)
    BY <1>21
  <2>1. s.id \in Template
    OBVIOUS
  <2>2. slot' \in {slot, Idle, Proving(s.id)} /\ prove' \in {prove, [prove EXCEPT ![s.id] = "tip_check"]}
    BY DEF BeginProving
  <2>3. slot' \in Slot
    <3>1. slot \in Slot /\ Idle \in Slot /\ Proving(s.id) \in Slot
      BY <2>1 DEF Proving
    <3> QED BY <2>2, <3>1, Zenon
  <2>4. prove' \in [Template -> {"none", "tip_check", "seal", "lock", "update", "announce", "ended"}]
    <3>1. prove \in [Template -> {"none", "tip_check", "seal", "lock", "update", "announce", "ended"}]
      BY Zenon
    <3> HIDE DEF IInv, TypeOK, Slot, InOrder, Idle
    <3> QED BY <2>1, <2>2, <3>1
  <2> QED BY <2>3, <2>4 DEF BeginProving
<1> QED BY <1>1, <1>2, <1>3, <1>4, <1>5, <1>6, <1>7, <1>8, <1>9, <1>10, <1>11, <1>12, <1>13,
           <1>14, <1>15, <1>16, <1>17, <1>18, <1>19, <1>20, <1>21, <1>23, Zenon DEF Next, PrepareStep,
           ProveStep, ActorStep

(* Every step keeps the slot, the tasks and the gate in agreement. *)
LEMMA SlotNext == IInv /\ Next => (SlotOwned /\ InOrder /\ GateHeld)'
<1> SUFFICES ASSUME IInv, Next PROVE (SlotOwned /\ InOrder /\ GateHeld)'
  OBVIOUS
<1> USE BoundsAssumption DEF IInv, TypeOK, Slot, SlotOwned, InOrder, GateHeld, PrepareRuns,
                             ProveRuns, Idle, Template
<1>1. CASE GetBlockTemplate
  BY <1>1 DEF GetBlockTemplate, Preparing
<1>2. CASE ExpireReady
  BY <1>2 DEF ExpireReady
<1>3. CASE FlipNetwork
  BY <1>3 DEF FlipNetwork
<1>4. CASE SuffixCommit
  BY <1>4 DEF SuffixCommit
<1>5. CASE SnapshotCommit
  BY <1>5 DEF SnapshotCommit
<1>6. CASE SuffixRelease
  BY <1>6 DEF SuffixRelease
<1>7. CASE HandleCompletion
  BY <1>7 DEF HandleCompletion, InvalidateExcept, Preparing, NoSuffix
<1>8. CASE SnapshotRelease
  BY <1>8 DEF SnapshotRelease, InvalidateExcept, Preparing
<1>9. CASE HandleTipChange
  BY <1>9 DEF HandleTipChange, InvalidateExcept, Preparing
<1>10. CASE \E id \in Template : PrepareFails(id)
  BY <1>10 DEF PrepareFails, CancelPreparation
<1>11. CASE \E id \in Template : CaptureParent(id)
  BY <1>11 DEF CaptureParent
<1>12. CASE \E id \in Template : PreparationDone(id)
  BY <1>12 DEF PreparationDone
<1>13. CASE \E id \in Template : PreparedTipCheck(id)
  BY <1>13 DEF PreparedTipCheck
<1>14. CASE \E id \in Template : Install(id)
  BY <1>14 DEF Install, InstallReady, CancelPreparation, Ready
<1>15. CASE \E id \in Template : SubmitBlock(id)
  BY <1>15 DEF SubmitBlock
<1>16. CASE \E id \in Template : ProvingFails(id)
  BY <1>16 DEF ProvingFails, FinishProving
<1>17. CASE \E id \in Template : ProvingTipCheck(id)
  BY <1>17 DEF ProvingTipCheck
<1>18. CASE \E id \in Template : SealNonce(id)
  BY <1>18 DEF SealNonce
<1>19. CASE \E id \in Template : CommitBlock(id)
  BY <1>19 DEF CommitBlock
<1>20. CASE \E id \in Template : FinishBlock(id)
  BY <1>20 DEF FinishBlock
<1>23. CASE \E id \in Template : AnnounceBlock(id)
  BY <1>23 DEF AnnounceBlock, FinishProving
<1>21. CASE \E s \in sub : BeginProving(s)
  <2> PICK s \in sub : BeginProving(s)
    BY <1>21
  <2>1. CASE slot.st = "ready" /\ slot.id = s.id /\ slot.parent = s.tip
    BY <2>1 DEF BeginProving, Proving
  <2>2. CASE slot.st = "ready" /\ slot.id = s.id /\ slot.parent # s.tip
    BY <2>2 DEF BeginProving
  <2>3. CASE ~(slot.st = "ready" /\ slot.id = s.id)
    <3>1. UNCHANGED <<slot, prep, prove, next, gate, suffix>>
      BY <2>3 DEF BeginProving
    <3> QED BY <3>1
  <2> QED BY <2>1, <2>2, <2>3
<1> QED BY <1>1, <1>2, <1>3, <1>4, <1>5, <1>6, <1>7, <1>8, <1>9, <1>10, <1>11, <1>12, <1>13,
           <1>14, <1>15, <1>16, <1>17, <1>18, <1>19, <1>20, <1>21, <1>23 DEF Next, PrepareStep,
           ProveStep, ActorStep

(* Every step keeps what is ready, or about to be, current or invalidated. *)
LEMMA CurrentNext == IInv /\ Next => (InstallCurrent /\ ReadyCurrent /\ ParentKept)'
<1> SUFFICES ASSUME IInv, Next PROVE (InstallCurrent /\ ReadyCurrent /\ ParentKept)'
  OBVIOUS
<1> USE BoundsAssumption DEF IInv, TypeOK, Slot, SlotOwned, InOrder, GateHeld, InstallCurrent,
                             ReadyCurrent, ParentKept, PrepareRuns, ProveRuns, Owed, Idle,
                             Template
<1>1. CASE GetBlockTemplate
  BY <1>1 DEF GetBlockTemplate, Preparing
<1>2. CASE ExpireReady
  BY <1>2 DEF ExpireReady
<1>3. CASE FlipNetwork
  BY <1>3 DEF FlipNetwork
<1>4. CASE SuffixCommit
  BY <1>4 DEF SuffixCommit
<1>5. CASE SnapshotCommit
  BY <1>5 DEF SnapshotCommit
<1>6. CASE SuffixRelease
  BY <1>6 DEF SuffixRelease
<1>7. CASE HandleCompletion
  BY <1>7 DEF HandleCompletion, InvalidateExcept, Preparing, NoSuffix
<1>8. CASE SnapshotRelease
  BY <1>8 DEF SnapshotRelease, InvalidateExcept, Preparing
<1>9. CASE HandleTipChange
  BY <1>9 DEF HandleTipChange, InvalidateExcept, Preparing
<1>10. CASE \E id \in Template : PrepareFails(id)
  BY <1>10 DEF PrepareFails, CancelPreparation
<1>11. CASE \E id \in Template : CaptureParent(id)
  BY <1>11 DEF CaptureParent
<1>12. CASE \E id \in Template : PreparationDone(id)
  BY <1>12 DEF PreparationDone
<1>13. CASE \E id \in Template : PreparedTipCheck(id)
  BY <1>13 DEF PreparedTipCheck
<1>14. CASE \E id \in Template : Install(id)
  BY <1>14 DEF Install, InstallReady, CancelPreparation, Ready
<1>15. CASE \E id \in Template : SubmitBlock(id)
  BY <1>15 DEF SubmitBlock
<1>16. CASE \E id \in Template : ProvingFails(id)
  BY <1>16 DEF ProvingFails, FinishProving
<1>17. CASE \E id \in Template : ProvingTipCheck(id)
  BY <1>17 DEF ProvingTipCheck
<1>18. CASE \E id \in Template : SealNonce(id)
  BY <1>18 DEF SealNonce
<1>19. CASE \E id \in Template : CommitBlock(id)
  BY <1>19 DEF CommitBlock
<1>20. CASE \E id \in Template : FinishBlock(id)
  BY <1>20 DEF FinishBlock
<1>23. CASE \E id \in Template : AnnounceBlock(id)
  BY <1>23 DEF AnnounceBlock, FinishProving
<1>21. CASE \E s \in sub : BeginProving(s)
  BY <1>21 DEF BeginProving, Proving
<1> QED BY <1>1, <1>2, <1>3, <1>4, <1>5, <1>6, <1>7, <1>8, <1>9, <1>10, <1>11, <1>12, <1>13,
           <1>14, <1>15, <1>16, <1>17, <1>18, <1>19, <1>20, <1>21, <1>23, Zenon DEF Next, PrepareStep,
           ProveStep, ActorStep

-----------------------------------------------------------------------------
(* The strengthened invariant holds initially and is kept by every step.   *)
LEMMA InvHolds == Spec => []IInv
<1>1. Init => IInv
  <2> SUFFICES ASSUME Init PROVE IInv
    OBVIOUS
  <2> USE BoundsAssumption DEF Init, Idle, NoSuffix, Template
  <2>1. TypeOK
    <3>1. slot \in Slot
      BY DEF Slot
    <3>2. tipWatch \in BOOLEAN /\ network \in BOOLEAN
      BY Zenon
    <3> QED BY <3>1, <3>2 DEF TypeOK
  <2>2. SlotOwned /\ InOrder /\ GateHeld
    BY DEF SlotOwned, PrepareRuns, ProveRuns, InOrder, GateHeld
  <2>3. InstallCurrent /\ ReadyCurrent /\ ParentKept
    BY DEF InstallCurrent, ReadyCurrent, ParentKept
  <2> QED BY <2>1, <2>2, <2>3 DEF IInv
<1>2. IInv /\ UNCHANGED vars => IInv'
  BY DEF vars, IInv, TypeOK, SlotOwned, InOrder, GateHeld, InstallCurrent, ReadyCurrent, ParentKept,
         PrepareRuns, ProveRuns, Owed
<1>3. IInv /\ [Next]_vars => IInv'
  BY <1>2, TypeNext, SlotNext, CurrentNext DEF IInv
<1> QED BY <1>1, <1>3, PTL DEF Spec

(* SlotOwned, for any bounds: the slot is occupied exactly while a task    *)
(* prepares or proves its template or a template waits for its one         *)
(* submission.                                                             *)
THEOREM SlotAlwaysOwned == Spec => []SlotOwned
<1>1. IInv => SlotOwned
  BY Zenon DEF IInv
<1> QED BY <1>1, InvHolds, PTL

(* ReadyCurrent, for any bounds: no template for a replaced parent stays   *)
(* in the slot once every commit has been reported.                        *)
THEOREM ReadyAlwaysCurrent == Spec => []ReadyCurrent
<1>1. IInv => ReadyCurrent
  BY Zenon DEF IInv
<1> QED BY <1>1, InvHolds, PTL

(* Every step of the slot is a step of one attempt, or changes nothing of it. *)
LEMMA StepRefines == IInv /\ [Next]_vars => [Attempt!Next]_<<tip, captured, gate = "proving">>
<1> SUFFICES ASSUME IInv, [Next]_vars PROVE [Attempt!Next]_<<tip, captured, gate = "proving">>
  OBVIOUS
<1> USE BoundsAssumption DEF IInv, TypeOK, Slot, SlotOwned, InOrder, GateHeld, PrepareRuns,
                             ProveRuns,
                             Idle, Template, captured, Announcing
<1>1. CASE GetBlockTemplate
  BY <1>1 DEF GetBlockTemplate, Preparing
<1>2. CASE ExpireReady
  BY <1>2 DEF ExpireReady, Attempt!Next, Attempt!Drop
<1>3. CASE FlipNetwork
  BY <1>3 DEF FlipNetwork
<1>4. CASE SuffixCommit
  BY <1>4 DEF SuffixCommit, Attempt!Next, Attempt!Adopt
<1>5. CASE SnapshotCommit
  BY <1>5 DEF SnapshotCommit, Attempt!Next, Attempt!Adopt
<1>6. CASE SuffixRelease
  BY <1>6 DEF SuffixRelease
<1>7. CASE HandleCompletion
  BY <1>7, Zenon DEF HandleCompletion, InvalidateExcept, Preparing, NoSuffix, Attempt!Next, Attempt!Drop
<1>8. CASE SnapshotRelease
  BY <1>8, Zenon DEF SnapshotRelease, InvalidateExcept, Preparing, Attempt!Next, Attempt!Drop
<1>9. CASE HandleTipChange
  BY <1>9, Zenon DEF HandleTipChange, InvalidateExcept, Preparing, Attempt!Next, Attempt!Drop
<1>10. CASE \E id \in Template : PrepareFails(id)
  BY <1>10 DEF PrepareFails, CancelPreparation, Attempt!Next, Attempt!Drop
<1>11. CASE \E id \in Template : CaptureParent(id)
  BY <1>11 DEF CaptureParent, Attempt!Next, Attempt!Capture
<1>12. CASE \E id \in Template : PreparationDone(id)
  BY <1>12 DEF PreparationDone
<1>13. CASE \E id \in Template : PreparedTipCheck(id)
  BY <1>13 DEF PreparedTipCheck
<1>14. CASE \E id \in Template : Install(id)
  <2> PICK id \in Template : Install(id)
    BY <1>14
  <2>1. slot.st = "preparing" /\ slot.id = id /\ gate # "proving" /\ gate' = gate /\ tip' = tip
    BY DEF Install
  <2>2. CASE slot.invalidated
    <3>1. captured' = {}
      BY <2>1, <2>2 DEF Install, InstallReady, CancelPreparation
    <3> QED BY <2>1, <3>1, Zenon DEF Attempt!Next, Attempt!Drop
  <2>3. CASE ~slot.invalidated
    <3>1. captured' = {parent[id]} /\ captured = {parent[id]}
      BY <2>1, <2>3 DEF Install, InstallReady, Ready
    <3> QED BY <2>1, <3>1, Zenon
  <2> QED BY <2>2, <2>3
<1>15. CASE \E id \in Template : SubmitBlock(id)
  BY <1>15 DEF SubmitBlock
<1>16. CASE \E id \in Template : ProvingFails(id)
  BY <1>16 DEF ProvingFails, FinishProving, Attempt!Next, Attempt!Drop
<1>17. CASE \E id \in Template : ProvingTipCheck(id)
  BY <1>17 DEF ProvingTipCheck
<1>18. CASE \E id \in Template : SealNonce(id)
  BY <1>18 DEF SealNonce
<1>19. CASE \E id \in Template : CommitBlock(id)
  BY <1>19 DEF CommitBlock, Attempt!Next, Attempt!Produce
<1>20. CASE \E id \in Template : FinishBlock(id)
  BY <1>20 DEF FinishBlock, Attempt!Next, Attempt!Finish
<1>23. CASE \E id \in Template : AnnounceBlock(id)
  BY <1>23 DEF AnnounceBlock, FinishProving
<1>21. CASE \E s \in sub : BeginProving(s)
  <2> PICK s \in sub : BeginProving(s)
    BY <1>21
  <2>1. gate' = gate /\ tip' = tip
    BY DEF BeginProving
  <2>2. CASE slot.st = "ready" /\ slot.id = s.id /\ slot.parent = s.tip
    <3>1. captured' = {parent[s.id]} /\ captured = {parent[s.id]}
      BY <2>2 DEF BeginProving, Proving
    <3> QED BY <2>1, <3>1, Zenon
  <2>3. CASE slot.st = "ready" /\ slot.id = s.id /\ slot.parent # s.tip
    <3>1. captured' = {} /\ gate # "proving"
      BY <2>3 DEF BeginProving
    <3> QED BY <2>1, <3>1, Zenon DEF Attempt!Next, Attempt!Drop
  <2>4. CASE ~(slot.st = "ready" /\ slot.id = s.id)
    BY <2>4, Zenon DEF BeginProving
  <2> QED BY <2>2, <2>3, <2>4
<1>22. CASE UNCHANGED vars
  BY <1>22 DEF vars
<1> QED BY <1>1, <1>2, <1>3, <1>4, <1>5, <1>6, <1>7, <1>8, <1>9, <1>10, <1>11, <1>12, <1>13,
           <1>14, <1>15, <1>16, <1>17, <1>18, <1>19, <1>20, <1>21, <1>22, <1>23, Zenon DEF Next, PrepareStep,
           ProveStep, ActorStep

(* ImplementsAttempt, for any bounds: external mining implements one       *)
(* attempt at a time, with at most one block per template and only on the  *)
(* parent the template captured.                                           *)
THEOREM SlotImplementsAttempt == Spec => ImplementsAttempt
<1>1. Init => Attempt!Init
  BY DEF Init, Idle, captured, Announcing, Attempt!Init
<1> QED BY <1>1, InvHolds, StepRefines, PTL DEF Spec, ImplementsAttempt, Attempt!Spec

=============================================================================
