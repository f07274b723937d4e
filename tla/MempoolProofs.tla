--------------------------- MODULE MempoolProofs ---------------------------
(***************************************************************************)
(* An admission and the steps of the chain preserve the pool's inductive    *)
(* invariant, and what follows from it, for every set of views and steps.  *)
(***************************************************************************)
EXTENDS MempoolSteps

(* The final admission: the second run of the checks is what makes the     *)
(* entry fit the view the pool holds now.                                  *)
LEMMA AdmitStep ==
    ASSUME IInv, NEW s \in Submitter, Admit(s)
    PROVE  IInv'
  <1> DEFINE t == sub[s].tx
             h == sub[s].height
  <1>1. t \in Tx /\ h \in Nat
    BY SMTT(30) DEF IInv, PoolTypeOK, SubState, Admit
  <1>2. MayAdmit(t, h) /\ Insert(t, view.height)
        /\ inputSlots' = inputSlots \cup Inputs[t]
        /\ outputSlots' = outputSlots \cup Outputs[t]
        /\ announced' = announced \cup {t}
        /\ sub' = [sub EXCEPT ![s] = NoCall]
        /\ UNCHANGED <<view, orphans, chain, notices>>
    BY DEF Admit
  <1>3. view.height \in Nat /\ view.height + 1 \in Nat
    BY ChainAssumption, SMTT(30) DEF IInv, PoolTypeOK
  <1>4. AuthorizationVerifies(t, h)
    BY DEF IInv, VerifiedCalls, Admit
  <1> HIDE DEF t, h
  <1>5. PoolTypeOK'
    BY <1>1, <1>2, <1>3, PoolAssumption, ZenonT(30)
       DEF IInv, PoolTypeOK, Insert, SubState, NoCall
  <1>6. NoSharedSlot'
    <2>1. \A u \in entries : SlotsOf(t) \cap SlotsOf(u) = {}
      BY <1>1, <1>2, FreshSlots, SMTT(30) DEF IInv, MayAdmit
    <2> QED BY <1>2, <2>1, SMTT(30) DEF IInv, NoSharedSlot, Insert
  <1>7. ReservationsMatch'
    <2>1. entries' = entries \cup {t}
      BY <1>2, SMTT(30) DEF Insert
    <2>2. /\ inputSlots' = UNION {Inputs[u] : u \in entries'}
          /\ outputSlots' = UNION {Outputs[u] : u \in entries'}
      BY <1>2, <2>1, SMTT(30) DEF IInv, ReservationsMatch
    <2>3. \A x \in Slot :
             /\ spentInputs'[x] = IF x \in Inputs[t] THEN t ELSE spentInputs[x]
             /\ mintedOutputs'[x] = IF x \in Outputs[t] THEN t ELSE mintedOutputs[x]
      BY <1>2 DEF Insert
    <2>4. t # NoTx
      BY <1>1, PoolAssumption, SMTT(30)
    <2>5. \A x \in Slot :
            /\ spentInputs'[x] # NoTx <=> x \in inputSlots'
            /\ mintedOutputs'[x] # NoTx <=> x \in outputSlots'
      BY <1>2, <2>3, <2>4, SMTT(30) DEF IInv, ReservationsMatch
    <2>6. \A x \in Slot :
            /\ spentInputs'[x] # NoTx =>
                  spentInputs'[x] \in entries' /\ x \in Inputs[spentInputs'[x]]
            /\ mintedOutputs'[x] # NoTx =>
                  mintedOutputs'[x] \in entries' /\ x \in Outputs[mintedOutputs'[x]]
      BY <2>1, <2>3, SMTT(30) DEF IInv, ReservationsMatch
    <2> QED BY <2>2, <2>5, <2>6, SMTT(30) DEF ReservationsMatch
  <1>8. EntriesIncludable'
    BY <1>1, <1>2, SMTT(30) DEF IInv, EntriesIncludable, Insert, MayAdmit, CheapChecks,
       RunAdmissionChecks, InputsLive, OutputsFree, SlotOf, CheckResources,
       ConsensusFee
  <1>14. /\ entries' = entries \cup {t}
         /\ admittedHeight' = [admittedHeight EXCEPT ![t] = view.height]
         /\ announced' = announced \cup {t}
         /\ view' = view /\ chain' = chain /\ notices' = notices
    BY <1>2, ZenonT(30) DEF Insert
  <1>9. AuthorizationVerifies(t, view.height + 1)
    <2>1. SameAuthority(t, h)
      BY <1>2 DEF MayAdmit
    <2> QED BY <1>4, <2>1, ZenonT(30) DEF AuthorizationVerifies, SameAuthority
  <1>10. EntriesAuthorized'
    <2>1. CheapChecks(t)
      BY <1>2, ZenonT(30) DEF MayAdmit
    <2>2. t \in Calls => CheckCandidateCall(t, view.height + 1)
      BY <2>1, ZenonT(30) DEF CheapChecks
    <2>3. EntriesAuthorized
      BY ZenonT(30) DEF IInv
    <2> QED BY <1>9, <1>14, <2>2, <2>3, ZenonT(30) DEF EntriesAuthorized
  <1>11. AdmittedAuthority'
    <2>1. AdmittedAuthority /\ admittedHeight \in [Tx -> Nat]
      BY ZenonT(30) DEF IInv, PoolTypeOK
    <2>2. /\ admittedHeight'[t] = view.height
          /\ \A u \in Tx : u # t => admittedHeight'[u] = admittedHeight[u]
      BY <1>1, <1>14, <2>1, ZenonT(30)
    <2>3. entries \subseteq Tx
      BY ZenonT(30) DEF IInv, PoolTypeOK
    <2> QED BY <1>9, <1>14, <2>1, <2>2, <2>3, ZenonT(30)
       DEF AdmittedAuthority, AuthorizationVerifies
  <1>12. EntriesAnnounced' /\ ViewCurrent' /\ GateHeld'
    <2>1. EntriesAnnounced /\ ViewCurrent /\ GateHeld
      BY ZenonT(30) DEF IInv
    <2> QED BY <1>14, <2>1, ZenonT(30) DEF EntriesAnnounced, ViewCurrent, GateHeld
  <1>13. VerifiedCalls'
    BY <1>2, SMTT(30) DEF IInv, PoolTypeOK, VerifiedCalls, AuthorizationVerifies, NoCall
  <1> QED BY <1>5, <1>6, <1>7, <1>8, <1>10, <1>11, <1>12, <1>13, SMTT(30) DEF IInv

-----------------------------------------------------------------------------
(* A commit under the gate leaves the pool alone and posts one notice. *)
LEMMA CommitStep ==
    ASSUME IInv, NEW c \in ChainStep, ChainCommits(c)
    PROVE  IInv'
  <1> USE DEF ChainCommits, poolVars
  <1>1. c \in [from : View, to : View, confirmed : SUBSET Tx, reclaimed : SUBSET Tx]
    BY ChainAssumption, SMTT(30)
  <1>2. PoolTypeOK'
    BY <1>1 DEF IInv, PoolTypeOK, NoticeState
  <1> DEFINE n == [stage |-> "block", view |-> c.to, confirmed |-> c.confirmed,
                   reclaimed |-> c.reclaimed]
  <1>3. notices' = {n} /\ chain' = c.to /\ n.view = c.to /\ n.stage = "block"
    OBVIOUS
  <1> HIDE DEF n
  <1>5. GateHeld' /\ ViewCurrent'
    BY <1>3, SMTT(30) DEF GateHeld, ViewCurrent
  <1>4. NoSharedSlot' /\ ReservationsMatch' /\ EntriesIncludable'
        /\ EntriesAuthorized' /\ EntriesAnnounced' /\ VerifiedCalls'
        /\ AdmittedAuthority'
    BY ZenonT(30) DEF IInv, NoSharedSlot, ReservationsMatch, EntriesIncludable,
           EntriesAuthorized, EntriesAnnounced, VerifiedCalls, AdmittedAuthority,
           AuthorizationVerifies, CheckCandidateCall, CheckResources, ConsensusFee
  <1> QED BY <1>2, <1>4, <1>5, SMTT(30) DEF IInv

(* Replacing the view: what is kept passed the eviction scans against it. *)
LEMMA NewBlockStep ==
    ASSUME IInv, NEW n \in notices, OnNewBlock(n)
    PROVE  IInv'
  <1>1. PICK unread \in SUBSET (entries \ n.confirmed) :
          LET gone == (entries \cap n.confirmed) \cup unread
                        \cup {t \in entries : Evicted(t, n.view)}
          IN  /\ n.stage = "block"
              /\ unread # {} => chain # n.view
              /\ RemoveAll(gone)
              /\ view' = n.view
              /\ RebuildSlotSets(entries \ gone)
              /\ floor' = Refreshed(floor, n.view, entries \ gone)
              /\ announced' = announced \ (gone \cup n.confirmed)
              /\ notices' = (notices \ {n}) \cup
                    (IF n.reclaimed = {} THEN {} ELSE {[n EXCEPT !.stage = "readmit"]})
              /\ UNCHANGED <<sub, orphans, chain>>
    BY ZenonT(30) DEF OnNewBlock
  <1> DEFINE gone == (entries \cap n.confirmed) \cup unread
                        \cup {t \in entries : Evicted(t, n.view)}
  <1>2. gone \in SUBSET entries
    OBVIOUS
  <1>3. \A t \in entries \ gone : ~Evicted(t, n.view)
    OBVIOUS
  <1>4. RemoveAll(gone) /\ RebuildSlotSets(entries \ gone)
    BY <1>1
  <1>5. announced' = announced \ (gone \cup n.confirmed)
        /\ entries \cap n.confirmed \subseteq gone
    BY <1>1
  <1> HIDE DEF gone
  <1>6. n \in NoticeState /\ n.view \in View
    BY SMTT(30) DEF IInv, PoolTypeOK, NoticeState
  <1>7. entries' = entries \ gone /\ admittedHeight' = admittedHeight
    BY <1>4, SMTT(30) DEF RemoveAll
  <1>8. /\ NoSharedSlot' /\ ReservationsMatch'
        /\ entries' \subseteq Tx /\ admittedHeight' \in [Tx -> Nat]
        /\ spentInputs' \in [Slot -> Tx \cup {NoTx}]
        /\ mintedOutputs' \in [Slot -> Tx \cup {NoTx}]
        /\ inputSlots' \subseteq Slot /\ outputSlots' \subseteq Slot
    BY <1>2, <1>4, RemovalKeepsReservations DEF IInv
  <1>9. /\ notices' \subseteq NoticeState
        /\ \A m \in notices' : m.view = n.view /\ m.stage = "readmit"
        /\ \A m, k \in notices' : m = k
    BY <1>1, <1>6, SMTT(30) DEF IInv, PoolTypeOK, GateHeld, NoticeState
  <1>10. PoolTypeOK'
    BY <1>1, <1>5, <1>6, <1>8, <1>9, SMTT(30) DEF IInv, PoolTypeOK
  <1>11. n.view = chain
    BY DEF IInv, GateHeld
  <1>12. ViewCurrent' /\ GateHeld'
    BY <1>1, <1>9, <1>11, SMTT(30) DEF ViewCurrent, GateHeld
  <1>13. EntriesIncludable'
    <2> SUFFICES ASSUME NEW t \in entries \ gone
                 PROVE  /\ EpochAnchor[t] = n.view.anchor
                        /\ CheckResources(t, n.view.height + 1)
                        /\ Fee[t] >= ConsensusFee(t, n.view)
                        /\ \A s \in Inputs[t] : SlotOf(n.view, s) = Spends[t][s]
                        /\ \A s \in Outputs[t] : SlotOf(n.view, s) = Empty
      BY <1>1, <1>7, SMTT(30)
         DEF EntriesIncludable, CheckResources, ConsensusFee, SlotOf
    <2>1. t \in Tx /\ Fee[t] \in Int /\ ~Evicted(t, n.view)
      BY <1>3, PoolAssumption, SMTT(30) DEF IInv, PoolTypeOK
    <2>2. ConsensusFee(t, n.view) \in Int
      BY <2>1, FeeIsNumber, SMTT(30)
    <2> QED
      BY <2>1, <2>2, SMTT(30) DEF Evicted, ContextStale, OutputOccupied, InputConsumed
  <1>14. AdmittedAuthority'
    BY <1>7, SMTT(30) DEF IInv, AdmittedAuthority
  <1>15. EntriesAuthorized'
    BY <1>1, <1>3, <1>7, SMTT(30)
       DEF IInv, AdmittedAuthority, EntriesAuthorized, AuthorizationVerifies, Evicted,
           ContextStale, CallStale, CheckCandidateCall
  <1>16. EntriesAnnounced'
    BY <1>5, <1>7 DEF IInv, EntriesAnnounced
  <1>17. VerifiedCalls'
    BY <1>1, SMTT(30) DEF IInv, VerifiedCalls, AuthorizationVerifies
  <1> QED BY <1>8, <1>10, <1>12, <1>13, <1>14, <1>15, <1>16, <1>17, ZenonT(30) DEF IInv

(* A reorg's second call to the pool only removes entries. *)
LEMMA ReadmitStep ==
    ASSUME IInv, NEW n \in notices, ReadmitAfterReorg(n)
    PROVE  IInv'
  <1> DEFINE gone == entries \cap n.reclaimed
  <1>1. /\ n.stage = "readmit"
        /\ notices' = notices \ {n}
        /\ \/ RemoveAll(gone) /\ RebuildSlotSets(entries \ gone)
           \/ UNCHANGED <<entries, admittedHeight, spentInputs, mintedOutputs,
                          incoming, inputSlots, outputSlots>>
        /\ UNCHANGED <<announced, view, sub, orphans, chain>>
    BY DEF ReadmitAfterReorg
  <1>2. gone \in SUBSET entries
    BY SMTT(30)
  <1> HIDE DEF gone
  <1>3. /\ NoSharedSlot' /\ ReservationsMatch'
        /\ entries' \subseteq Tx /\ admittedHeight' \in [Tx -> Nat]
        /\ spentInputs' \in [Slot -> Tx \cup {NoTx}]
        /\ mintedOutputs' \in [Slot -> Tx \cup {NoTx}]
        /\ inputSlots' \subseteq Slot /\ outputSlots' \subseteq Slot
    <2>1. CASE RemoveAll(gone) /\ RebuildSlotSets(entries \ gone)
      BY <1>2, <2>1, RemovalKeepsReservations, SMTT(30) DEF IInv
    <2>2. CASE UNCHANGED <<entries, admittedHeight, spentInputs, mintedOutputs,
                           incoming, inputSlots, outputSlots>>
      BY <2>2, SMTT(30) DEF IInv, PoolTypeOK, NoSharedSlot, ReservationsMatch
    <2> QED BY <1>1, <2>1, <2>2, SMTT(30)
  <1>4. entries' \subseteq entries /\ admittedHeight' = admittedHeight
    BY <1>1, SMTT(30) DEF RemoveAll
  <1>5. PoolTypeOK'
    BY <1>1, <1>3, SMTT(30) DEF IInv, PoolTypeOK
  <1>6. ViewCurrent' /\ GateHeld'
    BY <1>1, SMTT(30) DEF IInv, GateHeld, ViewCurrent
  <1>7. EntriesIncludable' /\ EntriesAuthorized' /\ EntriesAnnounced'
        /\ AdmittedAuthority'
    BY <1>1, <1>4, ZenonT(30)
       DEF IInv, EntriesIncludable, EntriesAuthorized, EntriesAnnounced,
           AdmittedAuthority, AuthorizationVerifies, CheckCandidateCall,
           CheckResources, ConsensusFee
  <1>8. VerifiedCalls'
    BY <1>1, ZenonT(30) DEF IInv, VerifiedCalls, AuthorizationVerifies
  <1> QED BY <1>3, <1>5, <1>6, <1>7, <1>8, SMTT(30) DEF IInv

-----------------------------------------------------------------------------
(* Every step of the pool, its callers and the chain keeps the invariant. *)
LEMMA NextIInv == IInv /\ [Next]_vars => IInv'
  <1> SUFFICES ASSUME IInv, [Next]_vars PROVE IInv'
    OBVIOUS
  <1>1. ASSUME NEW s \in Submitter, NEW t \in Tx, Submit(s, t) PROVE IInv'
    BY <1>1, SubmitStep
  <1>2. ASSUME NEW s \in Submitter, AcquirePermit(s) PROVE IInv'
    BY <1>2, AcquireStep
  <1>3. ASSUME NEW s \in Submitter, WorkerExits(s) PROVE IInv'
    BY <1>3, WorkerStep
  <1>4. ASSUME NEW s \in Submitter, Cancel(s) PROVE IInv'
    <2>1. orphans' \in Nat
      BY <1>4 DEF Cancel, IInv, PoolTypeOK
    <2> QED BY <1>4, <2>1, EndOfCall, ZenonT(30) DEF Cancel
  <1>5. ASSUME NEW s \in Submitter, Admit(s) PROVE IInv'
    BY <1>5, AdmitStep
  <1>6. ASSUME NEW s \in Submitter, Reject(s) PROVE IInv'
    <2>1. orphans' \in Nat
      BY <1>6 DEF Reject, IInv, PoolTypeOK
    <2> QED BY <1>6, <2>1, EndOfCall, ZenonT(30) DEF Reject
  <1>7. ASSUME OrphanExits PROVE IInv'
    <2>1. orphans' \in Nat /\ sub' \in [Submitter -> SubState] /\ VerifiedCalls'
      BY <1>7 DEF OrphanExits, IInv, PoolTypeOK, VerifiedCalls, AuthorizationVerifies
    <2> QED BY <1>7, <2>1, SubmissionStep, SMTT(30) DEF OrphanExits
  <1>8. ASSUME NEW c \in ChainStep, ChainCommits(c) PROVE IInv'
    BY <1>8, CommitStep
  <1>9. ASSUME NEW n \in notices, OnNewBlock(n) PROVE IInv'
    BY <1>9, NewBlockStep
  <1>10. ASSUME NEW n \in notices, ReadmitAfterReorg(n) PROVE IInv'
    BY <1>10, ReadmitStep
  <1>11. CASE UNCHANGED vars
    <2>1. orphans' \in Nat /\ sub' \in [Submitter -> SubState] /\ VerifiedCalls'
      BY <1>11 DEF vars, IInv, PoolTypeOK, VerifiedCalls, AuthorizationVerifies
    <2> QED BY <1>11, <2>1, SubmissionStep, SMTT(30) DEF vars
  <1> QED
    BY <1>1, <1>2, <1>3, <1>4, <1>5, <1>6, <1>7, <1>8, <1>9, <1>10, <1>11, SMTT(30) DEF Next

(* The invariant of the pool holds in every reachable state. *)
THEOREM PoolInvariant == Spec => []IInv
  BY InitIInv, NextIInv, PTL DEF Spec

(* Concurrent submissions never admit two transactions that touch a common *)
(* slot (Mempool::admit behind the two passes of submit_inner).            *)
THEOREM PoolDisjoint == Spec => []NoSharedSlot
  <1>1. IInv => NoSharedSlot
    BY DEF IInv
  <1> QED BY <1>1, PoolInvariant, PTL

(* The slot maps of the core and the reservation sets of the async pool    *)
(* stay equal to the slots of the entries through admission, eviction,     *)
(* confirmation and reorg.                                                 *)
THEOREM PoolReservations == Spec => []ReservationsMatch
  <1>1. IInv => ReservationsMatch
    BY DEF IInv
  <1> QED BY <1>1, PoolInvariant, PTL

(* Every entry fits the next block of the pool's view, whatever blocks and *)
(* reorgs came between its two admission passes and since (on_new_block).  *)
THEOREM PoolIncludable == Spec => []EntriesIncludable
  <1>1. IInv => EntriesIncludable
    BY DEF IInv
  <1> QED BY <1>1, PoolInvariant, PTL

(* Every entry's authorization, verified once outside the lock, verifies   *)
(* for the candidate height of the current view.                           *)
THEOREM PoolAuthorized == Spec => []EntriesAuthorized
  <1>1. IInv => EntriesAuthorized
    BY DEF IInv
  <1> QED BY <1>1, PoolInvariant, PTL

(* With the operation gate held across commit and notification, the view   *)
(* of an idle pool is the durable tip's.                                   *)
THEOREM PoolViewCurrent == Spec => []ViewCurrent
  <1>1. IInv => ViewCurrent
    BY DEF IInv
  <1> QED BY <1>1, PoolInvariant, PTL

(* No entry is lost to a view the chain has left: a removal is justified   *)
(* by the pending notice or by the canonical tip.                          *)
THEOREM PoolEvictions == Spec => EvictionJustified
  <1> DEFINE Justified == \A t \in entries \ entries' :
          \E n \in notices :
             t \in n.confirmed \cup n.reclaimed \/ Evicted(t, chain)
  <1>1. ASSUME IInv, [Next]_vars PROVE [Justified]_vars
    <2>1. CASE UNCHANGED vars
      BY <2>1, SMTT(30)
    <2>2. ASSUME NEW s \in Submitter, Admit(s) PROVE Justified
      BY <2>2, ZenonT(30) DEF Admit, Insert
    <2>3. ASSUME UNCHANGED poolVars PROVE Justified
      BY <2>3, SMTT(30) DEF poolVars
    <2>4. ASSUME NEW n \in notices, OnNewBlock(n) PROVE Justified
      <3>1. n.view = chain
        BY <1>1 DEF IInv, GateHeld
      <3>2. entries' = entries \ ((entries \cap n.confirmed)
                        \cup {t \in entries : Evicted(t, n.view)})
        BY <2>4, <3>1, SMTT(30) DEF OnNewBlock, RemoveAll
      <3> QED BY <3>1, <3>2
    <2>5. ASSUME NEW n \in notices, ReadmitAfterReorg(n) PROVE Justified
      BY <2>5 DEF ReadmitAfterReorg, RemoveAll
    <2> QED
      BY <1>1, <2>1, <2>2, <2>3, <2>4, <2>5, SMTT(30)
         DEF Next, Submit, AcquirePermit, WorkerExits, Cancel, Reject, OrphanExits,
             ChainCommits
  <1> QED BY <1>1, PoolInvariant, PTL DEF Spec, EvictionJustified
=============================================================================
