--------------------------- MODULE MempoolSteps ----------------------------
(***************************************************************************)
(* The inductive invariant of the transaction pool and the steps of a      *)
(* submission, for every set of transactions, every number of submitters   *)
(* and every limit.                                                        *)
(*                                                                         *)
(* The inductive invariant adds to the properties what links the two       *)
(* passes of a submission: a verified call's authorization verified for    *)
(* the height it recorded, an entry's admission height carries the         *)
(* authority that signed it, and the gate lets one notice be pending, of   *)
(* the durable tip's own view.                                             *)
(***************************************************************************)
EXTENDS Mempool, FiniteSetTheorems, TLAPS

VerifiedCalls ==
    \A s \in Submitter : sub[s].pc = "verified" =>
        AuthorizationVerifies(sub[s].tx, sub[s].height)

AdmittedAuthority ==
    \A t \in entries : IF t \in Calls
                       THEN AuthorityAt(t, admittedHeight[t] + 1) = Signer[t]
                       ELSE t \in Signed

GateHeld ==
    /\ \A n, m \in notices : n = m
    /\ \A n \in notices : n.view = chain
    /\ \A n \in notices : n.stage = "readmit" => view = chain

IInv ==
    /\ PoolTypeOK
    /\ NoSharedSlot
    /\ ReservationsMatch
    /\ EntriesIncludable
    /\ EntriesAuthorized
    /\ EntriesAnnounced
    /\ ViewCurrent
    /\ VerifiedCalls
    /\ AdmittedAuthority
    /\ GateHeld

-----------------------------------------------------------------------------
(* An admitted entry's slots were free of both kinds of reservation. *)
LEMMA FreshSlots ==
    ASSUME PoolTypeOK, ReservationsMatch, NEW t \in Tx, NoSlotConflict(t)
    PROVE  \A u \in entries : SlotsOf(t) \cap SlotsOf(u) = {}
  BY PoolAssumption DEF PoolTypeOK, ReservationsMatch, NoSlotConflict, SlotsOf

(* The consensus fee of a transaction is a number at every view. *)
LEMMA FeeIsNumber ==
    ASSUME NEW t \in Tx, NEW v PROVE ConsensusFee(t, v) \in Int
  <1> DEFINE i == Cardinality(Inputs[t])
             o == Cardinality(Outputs[t])
             m == PressureMultiplier(v.active, v.log)
  <1>1. i \in Nat /\ o \in Nat
    BY PoolAssumption, FS_Subset, FS_CardinalityType
  <1>2. m \in {1, 2, 4, 8}
    BY DEF PressureMultiplier
  <1> HIDE DEF i, o, m
  <1>3. m * (o - i) \in Int /\ 2500 * m * (o - i) \in Int
    BY <1>1, <1>2
  <1>4. BurnedFee(i, o, v.active, v.log) \in Int
    BY <1>1, <1>3 DEF BurnedFee, STATE_GROWTH_FEE_BASE, m
  <1> QED
    BY <1>1, <1>4 DEF ConsensusFee, RequiredFee, MIN_FEE_BASE, FEE_PER_INPUT,
       FEE_PER_OUTPUT, i, o

(* Start-up establishes the invariant. *)
LEMMA InitIInv == Init => IInv
  <1> SUFFICES ASSUME Init PROVE IInv
    OBVIOUS
  <1> USE DEF Init
  <1>1. PoolTypeOK
    BY ChainAssumption DEF PoolTypeOK, SubState, NoCall
  <1>2. NoSharedSlot /\ EntriesIncludable /\ EntriesAuthorized
        /\ EntriesAnnounced /\ ViewCurrent /\ AdmittedAuthority /\ GateHeld
    BY DEF NoSharedSlot, EntriesIncludable, EntriesAuthorized, EntriesAnnounced,
           ViewCurrent, AdmittedAuthority, GateHeld
  <1>3. ReservationsMatch
    BY DEF ReservationsMatch
  <1>4. VerifiedCalls
    BY DEF VerifiedCalls, NoCall
  <1> QED BY <1>1, <1>2, <1>3, <1>4 DEF IInv

(* Removing entries and rebuilding the sets keeps the reservations exact:  *)
(* no slot of a remaining entry is cleared, none of a removed one is kept. *)
LEMMA RemovalKeepsReservations ==
    ASSUME PoolTypeOK, NoSharedSlot, ReservationsMatch,
           NEW gone \in SUBSET entries,
           RemoveAll(gone), RebuildSlotSets(entries \ gone)
    PROVE  /\ NoSharedSlot'
           /\ ReservationsMatch'
           /\ entries' \subseteq Tx
           /\ admittedHeight' \in [Tx -> Nat]
           /\ spentInputs' \in [Slot -> Tx \cup {NoTx}]
           /\ mintedOutputs' \in [Slot -> Tx \cup {NoTx}]
           /\ inputSlots' \subseteq Slot
           /\ outputSlots' \subseteq Slot
  <1> USE DEF RemoveAll, RebuildSlotSets
  <1>1. NoSharedSlot'
    BY DEF NoSharedSlot, SlotsOf
  <1>2. /\ entries' \subseteq Tx
        /\ admittedHeight' \in [Tx -> Nat]
        /\ spentInputs' \in [Slot -> Tx \cup {NoTx}]
        /\ mintedOutputs' \in [Slot -> Tx \cup {NoTx}]
        /\ inputSlots' \subseteq Slot
        /\ outputSlots' \subseteq Slot
    BY PoolAssumption DEF PoolTypeOK
  <1>3. inputSlots' = UNION {Inputs[t] : t \in entries'}
        /\ outputSlots' = UNION {Outputs[t] : t \in entries'}
    OBVIOUS
  <1>4. ASSUME NEW s \in Slot
        PROVE  /\ spentInputs'[s] # NoTx <=> s \in inputSlots'
               /\ spentInputs'[s] # NoTx =>
                     spentInputs'[s] \in entries' /\ s \in Inputs[spentInputs'[s]]
    <2>1. CASE \E t \in gone : s \in Inputs[t]
      BY <2>1 DEF ReservationsMatch, NoSharedSlot, SlotsOf, PoolTypeOK
    <2>2. CASE ~\E t \in gone : s \in Inputs[t]
      BY <2>2 DEF ReservationsMatch, PoolTypeOK
    <2> QED BY <2>1, <2>2
  <1>5. ASSUME NEW s \in Slot
        PROVE  /\ mintedOutputs'[s] # NoTx <=> s \in outputSlots'
               /\ mintedOutputs'[s] # NoTx =>
                     mintedOutputs'[s] \in entries' /\ s \in Outputs[mintedOutputs'[s]]
    <2>1. CASE \E t \in gone : s \in Outputs[t]
      BY <2>1 DEF ReservationsMatch, NoSharedSlot, SlotsOf, PoolTypeOK
    <2>2. CASE ~\E t \in gone : s \in Outputs[t]
      BY <2>2 DEF ReservationsMatch, PoolTypeOK
    <2> QED BY <2>1, <2>2
  <1>6. ReservationsMatch'
    BY <1>3, <1>4, <1>5 DEF ReservationsMatch
  <1> QED BY <1>1, <1>2, <1>6

-----------------------------------------------------------------------------
(* Steps of a submission that leave the pool and the chain alone. *)
LEMMA SubmissionStep ==
    ASSUME IInv, UNCHANGED <<poolVars, view, chain, notices>>,
           sub' \in [Submitter -> SubState], orphans' \in Nat, VerifiedCalls'
    PROVE  IInv'
  <1> USE DEF poolVars, IInv
  <1>1. PoolTypeOK'
    BY SMTT(30) DEF PoolTypeOK
  <1>2. NoSharedSlot' /\ ReservationsMatch' /\ EntriesIncludable'
        /\ EntriesAuthorized' /\ EntriesAnnounced' /\ ViewCurrent'
        /\ AdmittedAuthority' /\ GateHeld'
    BY DEF NoSharedSlot, ReservationsMatch, EntriesIncludable, EntriesAuthorized,
           EntriesAnnounced, ViewCurrent, AdmittedAuthority, GateHeld,
           AuthorizationVerifies, CheckCandidateCall, CheckResources, ConsensusFee
  <1> QED BY <1>1, <1>2

\* A submission that passes or fails the first pass changes no entry.
LEMMA SubmitStep ==
    ASSUME IInv, NEW s \in Submitter, NEW t \in Tx, Submit(s, t)
    PROVE  IInv'
  <1> USE DEF Submit
  <1>1. view.height + 1 \in Nat
    BY ChainAssumption DEF IInv, PoolTypeOK
  <1>2. sub' \in [Submitter -> SubState] /\ orphans' \in Nat
    BY <1>1 DEF IInv, PoolTypeOK, SubState
  <1>3. VerifiedCalls'
    BY DEF IInv, PoolTypeOK, VerifiedCalls, AuthorizationVerifies
  <1> QED BY <1>2, <1>3, SubmissionStep

\* Taking a worker permit changes no entry.
LEMMA AcquireStep ==
    ASSUME IInv, NEW s \in Submitter, AcquirePermit(s)
    PROVE  IInv'
  <1> USE DEF AcquirePermit
  <1>1. sub' \in [Submitter -> SubState] /\ orphans' \in Nat
    BY DEF IInv, PoolTypeOK, SubState
  <1>2. VerifiedCalls'
    BY DEF IInv, PoolTypeOK, VerifiedCalls, AuthorizationVerifies, SubState
  <1> QED BY <1>1, <1>2, SubmissionStep

\* A worker's result is handed to the second pass unchanged.
LEMMA WorkerStep ==
    ASSUME IInv, NEW s \in Submitter, WorkerExits(s)
    PROVE  IInv'
  <1> USE DEF WorkerExits
  <1>1. sub' \in [Submitter -> SubState] /\ orphans' \in Nat
    BY DEF IInv, PoolTypeOK, SubState, NoCall
  <1>2. VerifiedCalls'
    BY DEF IInv, PoolTypeOK, VerifiedCalls, AuthorizationVerifies, SubState, NoCall
  <1> QED BY <1>1, <1>2, SubmissionStep

(* Cancel and a failed final pass both end the call. *)
LEMMA EndOfCall ==
    ASSUME IInv, NEW s \in Submitter, sub' = [sub EXCEPT ![s] = NoCall],
           orphans' \in Nat, UNCHANGED <<poolVars, view, chain, notices>>
    PROVE  IInv'
  <1>1. sub' \in [Submitter -> SubState]
    BY DEF IInv, PoolTypeOK, SubState, NoCall
  <1>2. VerifiedCalls'
    BY DEF IInv, PoolTypeOK, VerifiedCalls, AuthorizationVerifies, SubState, NoCall
  <1> QED BY <1>1, <1>2, SubmissionStep, SMTT(30)

=============================================================================
