------------------------- MODULE RedkeyStatusProofs -------------------------
(***************************************************************************)
(* Proofs about RedkeyStatus, for every value of its constants and however *)
(* far the caches lag: the topology lock restores a topology as a whole.   *)
(***************************************************************************)
EXTENDS RedkeyStatus, RedkeyReconcilerProofs

\* The topology a copy of the Redkey has on record was applied, both halves together.
Recorded(r, d) == r.lastApplied # 0 => <<r.lastApplied, d.lastAppliedReplicas>> \in appliedPairs

\* What any copy of a config or of the Redkey says was applied, was applied as a pair.
PairsInv ==
  /\ rpps \in Seq(Nat) /\ Len(rpps) = Len(specs)
  /\ \A c \in Known : c.phase = "Applied" /\ c.primaries # 0
       => <<c.primaries, rpps[c.gen]>> \in appliedPairs
  /\ Recorded(redkey, details) /\ Recorded(cachedRedkey, cachedDetails)
  /\ Recorded(snap, snapDetails)
  /\ pc = "idle" => snap = NoRedkey

\* A status write that gives up on a conflict in the new fields.
GaveUp == pc # "idle" /\ Return /\ UNCHANGED <<store, caches, aborts, history>>

\* The steps in which nobody writes a status, an edit or a topology.
Quiet ==
  /\ UNCHANGED <<redkey, cachedRedkey, details, cachedDetails, rpps, appliedPairs>>
  /\ \/ UNCHANGED <<pc, snap>> /\ (pc = "idle" \/ UNCHANGED snapDetails)
     \/ pc' # "idle" /\ UNCHANGED <<snap, snapDetails>>
     \/ pc' = "idle" /\ snap' = NoRedkey

\* The layer adds no step to RedkeyReconciler but giving up.
LEMMA StatusSteps ==
  ASSUME [StatusNext]_statusVars
  PROVE  [Next]_vars \/ GaveUp
<1>1. CASE StatusStep
  BY <1>1 DEF StatusStep, ReconcileDetails, ListDetails, AggregateDetails, ScaleToZeroDetails,
     PlainStep, Next, Step, GaveUp
<1>2. CASE StatusRobin
  BY <1>2 DEF StatusRobin, ApplyTopology, Next, Robin
<1>3. CASE RobinReport \/ UNCHANGED statusVars
  BY <1>3 DEF RobinReport, statusVars
<1>4. CASE EditTopology \/ SyncRobinObjects
  BY <1>4 DEF EditTopology, SyncRobinObjects, Next
<1>5. CASE SyncDetails
  BY <1>5 DEF SyncDetails, SyncRedkey, Next, vars, store, caches, locals, history
<1>6. CASE SyncReports
  BY <1>6 DEF SyncReports, SyncConfigs, Next, vars, store, caches, locals, history
<1>7. QED BY <1>1, <1>2, <1>3, <1>4, <1>5, <1>6 DEF StatusNext

\* Types and the history of specs are kept as in RedkeyReconciler.
LEMMA BaseKept ==
  ASSUME TypeOK, HistoryInv, [StatusNext]_statusVars
  PROVE  TypeOK' /\ HistoryInv'
<1>1. CASE [Next]_vars
  BY <1>1, TypeStep, HistoryStep
<1>2. CASE GaveUp
  <2>1. NoRedkey \in Redkey
    BY DEF NoRedkey, NewRedkey, RedkeyWith, Redkey
  <2>2. TypeOK'
    BY <1>2, <2>1 DEF GaveUp, Return, TypeOK, PCs, store, caches, history
  <2>3. HistoryInv'
    BY <1>2 DEF GaveUp, Return, HistoryInv, Matches, Live, Known, store, caches, history
  <2>4. QED BY <2>2, <2>3
<1>3. QED BY <1>1, <1>2, StatusSteps

\* A step of the reconcile that does not touch the new fields goes on with its
\* snapshot or ends.
LEMMA PlainSteps ==
  ASSUME PlainStep, Plain
  PROVE  Quiet
<1> USE DEF Plain, SnapKept, copies, Return, Goto, Quiet
<1>1. CASE ensureRBAC \/ ensureRobinDeployment
  BY <1>1 DEF ensureRBAC, ensureRobinDeployment, Ensure, AfterEnsure, caches
<1>2. CASE createNewConfig
  BY <1>2 DEF createNewConfig, caches
<1>3. CASE cleanupSupersededConfigs
  BY <1>3 DEF cleanupSupersededConfigs, caches
<1>4. CASE deleteRobinDeployment \/ deleteRBAC \/ deleteAllConfigs
  BY <1>4 DEF deleteRobinDeployment, deleteRBAC, deleteAllConfigs, caches
<1>5. QED BY <1>1, <1>2, <1>3, <1>4 DEF PlainStep

\* Which steps concern the recorded topology: the start of a reconcile, the two status
\* writes, the cache of Redkeys, the user and Robin.
LEMMA RecordSteps ==
  ASSUME [StatusNext]_statusVars
  PROVE  ReconcileDetails \/ AggregateDetails \/ ScaleToZeroDetails \/ SyncDetails
         \/ EditTopology \/ ApplyTopology \/ Quiet
<1> USE DEF Quiet
<1>1. CASE ListDetails
  BY <1>1 DEF ListDetails, listConfigs, relistConfigs, StartCleanup, Return, SnapKept, store,
     caches, copies
<1>2. CASE PlainStep /\ Plain
  BY <1>2, PlainSteps
<1>3. CASE (RobinStart \/ RobinSkip) /\ Plain
  BY <1>3 DEF RobinStart, RobinSkip, RobinTurn, Plain, SnapKept, caches, locals, copies
<1>4. CASE RobinReport
  BY <1>4 DEF RobinReport, vars, store, caches, locals, copies
<1>5. CASE SyncReports
  BY <1>5 DEF SyncReports, store, locals
<1>6. CASE SyncRobinObjects
  BY <1>6 DEF SyncRobinObjects, SyncRobin, Plain, SnapKept, store, locals, copies
<1>7. CASE UNCHANGED statusVars
  BY <1>7 DEF statusVars, vars, store, caches, locals
<1>8. QED
  BY <1>1, <1>2, <1>3, <1>4, <1>5, <1>6, <1>7 DEF StatusNext, StatusStep, StatusRobin

\* Edits leave the replicas of earlier generations alone; no applied pair is forgotten.
LEMMA PairsGrow ==
  ASSUME TypeOK, HistoryInv, PairsInv, [StatusNext]_statusVars
  PROVE  /\ rpps' \in Seq(Nat) /\ Len(rpps') = Len(specs')
         /\ \A i \in 1..Len(rpps) : rpps'[i] = rpps[i]
         /\ appliedPairs \subseteq appliedPairs'
<1>1. CASE EditTopology
  <2>1. PICK r \in Replicas[redkey'.generation] : rpps' = Append(rpps, r)
    BY <1>1 DEF EditTopology
  <2>2. PICK p \in Edits[redkey.generation + 1] :
          /\ redkey' = RedkeyWith(redkey.generation + 1, p, redkey.observedGeneration,
                                  redkey.phase, redkey.reason, redkey.lastApplied)
          /\ specs' = Append(specs, p)
    BY <1>1 DEF EditTopology, EditSpec
  <2>3. redkey.generation \in Nat /\ redkey.generation < Len(Edits) /\ Len(Edits) \in Nat
    BY <1>1, RedkeyFields, ConstantsAssumption DEF EditTopology, EditSpec, TypeOK, ConstantsAssumption
  <2>4. redkey'.generation \in 1..Len(Edits)
    BY <2>2, <2>3 DEF RedkeyWith
  <2>5. r \in Nat
    BY <2>1, <2>4, StatusAssumption DEF StatusAssumption
  <2>6. p \in Nat
    BY <2>3, EditsTyped
  <2>7. specs \in Seq(Nat) /\ rpps \in Seq(Nat) /\ Len(rpps) = Len(specs)
    BY DEF TypeOK, PairsInv
  <2>8. Len(specs') = Len(specs) + 1
    BY <2>2, <2>6, <2>7
  <2>9. /\ rpps' \in Seq(Nat) /\ Len(rpps') = Len(rpps) + 1
        /\ \A i \in 1..Len(rpps) : rpps'[i] = rpps[i]
    BY <2>1, <2>5, <2>7
  <2>10. QED BY <1>1, <2>7, <2>8, <2>9 DEF EditTopology
<1>2. CASE ~EditTopology
  <2>1. rpps' = rpps /\ appliedPairs \subseteq appliedPairs'
    BY <1>2, RecordSteps DEF ReconcileDetails, AggregateDetails, ScaleToZeroDetails, SyncDetails,
       ApplyTopology, Plain, Quiet
  <2>2. specs' = specs
    <3>1. CASE AggregateDetails
      BY <3>1 DEF AggregateDetails, aggregateStatus, history
    <3>2. CASE ScaleToZeroDetails
      BY <3>2 DEF ScaleToZeroDetails, updateStatusScaledToZero, history
    <3>3. CASE ReconcileDetails \/ ListDetails
      BY <3>3 DEF ReconcileDetails, Reconcile, ListDetails, listConfigs, relistConfigs, history
    <3>4. CASE PlainStep
      BY <3>4 DEF PlainStep, ensureRBAC, ensureRobinDeployment, Ensure, createNewConfig,
         cleanupSupersededConfigs, deleteRobinDeployment, deleteRBAC, deleteAllConfigs, history
    <3>5. CASE StatusRobin
      BY <3>5 DEF StatusRobin, ApplyTopology, RobinStart, RobinSkip, RobinApply, RobinTurn
    <3>6. CASE SyncDetails \/ SyncReports \/ SyncRobinObjects
      BY <3>6 DEF SyncDetails, SyncReports, SyncRobinObjects, SyncRobin, history
    <3>7. CASE RobinReport \/ UNCHANGED statusVars
      BY <3>7 DEF RobinReport, statusVars, vars, history
    <3>8. QED
      BY <1>2, <3>1, <3>2, <3>3, <3>4, <3>5, <3>6, <3>7 DEF StatusNext, StatusStep
  <2>3. QED BY <2>1, <2>2 DEF PairsInv
<1>3. QED BY <1>1, <1>2

\* A copy of a config that is Applied was there before the step, or Robin has just
\* applied it.
LEMMA AppliedCopies ==
  ASSUME TypeOK, [StatusNext]_statusVars, NEW c \in Known', c.phase = "Applied"
  PROVE  c \in Known \/ (ApplyTopology /\ c \in configs' \ configs)
<1>1. CASE c \in Known \/ Created(c)
  BY <1>1, CreatedFields
<1>2. CASE StatusStep
  <2>1. Step \/ GaveUp
    BY <1>2 DEF StatusStep, ReconcileDetails, ListDetails, AggregateDetails, ScaleToZeroDetails,
       PlainStep, Step, GaveUp
  <2>2. CASE GaveUp
    BY <2>2 DEF GaveUp, Return, Known, store, caches
  <2>3. QED BY <1>1, <2>1, <2>2, ConfigStepsOfOthers
<1>3. CASE (RobinStart \/ RobinSkip) /\ Plain
  <2>1. PICK d \in configs : \E phase \in {"InProgress", "Superseded"} : \E status :
          SetPhase(d, phase, status)
    BY <1>3 DEF RobinStart, RobinSkip
  <2>2. UNCHANGED <<caches, locals>>
    BY <1>3 DEF RobinStart, RobinSkip, RobinTurn
  <2>3. QED BY <2>1, <2>2 DEF SetPhase, WithStatus, Known, caches, locals
<1>4. CASE ApplyTopology
  <2>1. UNCHANGED <<caches, locals>>
    BY <1>4 DEF ApplyTopology, RobinApply, RobinTurn
  <2>2. QED BY <1>4, <2>1 DEF Known, caches, locals
<1>5. CASE RobinReport \/ EditTopology \/ SyncRobinObjects \/ UNCHANGED statusVars
  <2>1. UNCHANGED vars \/ EditSpec \/ SyncRobin
    BY <1>5 DEF RobinReport, EditTopology, SyncRobinObjects, statusVars
  <2>2. QED BY <1>1, <2>1, ConfigStepsOfOthers
<1>6. CASE SyncDetails \/ SyncReports
  BY <1>6 DEF SyncDetails, SyncReports, Known, store, locals
<1>7. QED BY <1>2, <1>3, <1>4, <1>5, <1>6 DEF StatusNext, StatusRobin

\* The two halves are recorded from one config, or both left as they are.
LEMMA AggregatedPair ==
  ASSUME TypeOK, PairsInv, NEW active \in view, cachedDetails = details, cachedRedkey = redkey,
         redkey' = AggregatedStatus(cachedRedkey, active),
         details' = AggregatedDetails(cachedDetails, active),
         appliedPairs' = appliedPairs
  PROVE  Recorded(redkey, details)'
<1>1. /\ redkey'.lastApplied = LastApplied(cachedRedkey, active)
      /\ details'.lastAppliedReplicas = LastAppliedReplicas(cachedDetails, active)
  BY DEF AggregatedStatus, AggregatedDetails, RedkeyWith
<1>2. CASE ~Ephemeral /\ active.phase = "Applied" /\ active.primaries > 0
  <2>1. active \in Known /\ active.primaries \in Nat
    BY ConfigFields DEF Known, TypeOK
  <2>2. <<active.primaries, rpps[active.gen]>> \in appliedPairs
    BY <1>2, <2>1 DEF PairsInv
  <2>3. QED BY <1>1, <1>2, <2>2 DEF LastApplied, LastAppliedReplicas, Recorded
<1>3. CASE ~(~Ephemeral /\ active.phase = "Applied" /\ active.primaries > 0)
  BY <1>1, <1>3 DEF LastApplied, LastAppliedReplicas, Recorded, PairsInv
<1>4. QED BY <1>2, <1>3

\* Every step keeps what the copies of the Redkey have on record true.
LEMMA RecordsKept ==
  ASSUME TypeOK, PairsInv, [StatusNext]_statusVars, appliedPairs \subseteq appliedPairs'
  PROVE  /\ Recorded(redkey, details)' /\ Recorded(cachedRedkey, cachedDetails)'
         /\ Recorded(snap, snapDetails)'
         /\ (pc = "idle" => snap = NoRedkey)'
<1>0. NoRedkey.lastApplied = 0
  BY DEF NoRedkey, NewRedkey, RedkeyWith
<1>1. CASE ReconcileDetails
  <2>1. ZeroCase(cachedConfigs) # "idle"
    BY DEF ZeroCase
  <2>2. QED BY <1>1, <2>1 DEF ReconcileDetails, Reconcile, PairsInv, Recorded, store, caches, copies
<1>2. CASE AggregateDetails
  <2>1. /\ pc' = "idle" /\ snap' = NoRedkey
        /\ UNCHANGED <<cachedRedkey, cachedDetails, appliedPairs>>
    BY <1>2 DEF AggregateDetails, aggregateStatus, Return, Plain, caches, copies
  <2>2. Recorded(redkey, details)'
    <3>1. CASE UNCHANGED <<redkey, details>>
      BY <2>1, <3>1 DEF PairsInv, Recorded
    <3>2. CASE cachedDetails = details /\ cachedRedkey = redkey /\ AggregateDetails
      <4>1. PICK active \in view : /\ redkey' = AggregatedStatus(cachedRedkey, active)
                                   /\ details' = AggregatedDetails(cachedDetails, active)
        BY <3>2 DEF AggregateDetails
      <4>2. QED BY <2>1, <3>2, <4>1, AggregatedPair
    <3>3. QED BY <1>2, <3>1, <3>2 DEF AggregateDetails, aggregateStatus, Plain, store
  <2>3. QED BY <1>0, <2>1, <2>2 DEF PairsInv, Recorded
<1>3. CASE ScaleToZeroDetails
  <2>1. /\ pc' = "idle" /\ snap' = NoRedkey
        /\ UNCHANGED <<cachedRedkey, cachedDetails, appliedPairs>>
    BY <1>3 DEF ScaleToZeroDetails, updateStatusScaledToZero, Return, Plain, caches, copies
  <2>2. Recorded(redkey, details)'
    <3>1. CASE UNCHANGED <<redkey, details>>
      BY <2>1, <3>1 DEF PairsInv, Recorded
    <3>2. CASE snap = redkey /\ snapDetails = details /\ updateStatusScaledToZero
               /\ details' = ZeroDetails(snapDetails)
      <4>1. redkey'.lastApplied = snap.lastApplied
        BY <3>2 DEF updateStatusScaledToZero, RedkeyWith
      <4>2. details'.lastAppliedReplicas = snapDetails.lastAppliedReplicas
        BY <3>2 DEF ZeroDetails
      <4>3. QED BY <2>1, <4>1, <4>2 DEF PairsInv, Recorded
    <3>3. QED BY <1>3, <3>1, <3>2 DEF ScaleToZeroDetails, updateStatusScaledToZero, Plain, store
  <2>3. QED BY <1>0, <2>1, <2>2 DEF PairsInv, Recorded
<1>4. CASE SyncDetails
  BY <1>4 DEF SyncDetails, PairsInv, Recorded, store, locals
<1>5. CASE EditTopology
  <2>1. redkey'.lastApplied = redkey.lastApplied
    BY <1>5, EditFields DEF EditTopology
  <2>2. QED BY <1>5, <2>1 DEF EditTopology, EditSpec, PairsInv, Recorded, caches, locals, copies
<1>6. CASE ApplyTopology
  BY <1>6 DEF ApplyTopology, RobinApply, RobinTurn, PairsInv, Recorded, caches, locals, copies
<1>7. CASE Quiet
  BY <1>0, <1>7 DEF Quiet, PairsInv, Recorded
<1>8. QED BY <1>1, <1>2, <1>3, <1>4, <1>5, <1>6, <1>7, RecordSteps

\* PairsInv is inductive.
LEMMA PairsStep ==
  ASSUME TypeOK, HistoryInv, PairsInv, [StatusNext]_statusVars
  PROVE  PairsInv'
<1>1. ASSUME NEW c \in Known', c.phase = "Applied", c.primaries # 0
      PROVE  <<c.primaries, rpps'[c.gen]>> \in appliedPairs'
  <2>1. CASE c \in Known
    <3>1. c.gen \in 1..Len(rpps)
      BY <2>1 DEF HistoryInv, PairsInv
    <3>2. QED BY <1>1, <2>1, <3>1, PairsGrow DEF PairsInv
  <2>2. CASE ApplyTopology /\ c \in configs' \ configs
    BY <1>1, <2>2 DEF ApplyTopology
  <2>3. QED BY <1>1, <2>1, <2>2, AppliedCopies
<1>2. QED BY <1>1, PairsGrow, RecordsKept DEF PairsInv

\* Every topology on record, in any copy, was applied with both its halves, for any
\* lag of the caches and any number of edits.
THEOREM PairsKept == StatusSpec => [](TypeOK /\ HistoryInv /\ PairsInv)
<1>1. StatusInit => TypeOK /\ HistoryInv /\ PairsInv
  <2> SUFFICES ASSUME StatusInit PROVE TypeOK /\ HistoryInv /\ PairsInv
    OBVIOUS
  <2>1. TypeOK /\ HistoryInv
    BY TypeInit, HistoryInit DEF StatusInit
  <2>2. PICK p \in Edits[1] : redkey = NewRedkey(1, p) /\ specs = <<p>>
    BY DEF StatusInit, Init
  <2>3. redkey.lastApplied = 0 /\ cachedRedkey.lastApplied = 0 /\ NoRedkey.lastApplied = 0
    BY <2>2 DEF StatusInit, Init, NewRedkey, NoRedkey, RedkeyWith
  <2>4. PICK r \in Replicas[1] : rpps = <<r>>
    BY DEF StatusInit
  <2>5. r \in Nat
    BY <2>4, StatusAssumption, ConstantsAssumption DEF StatusAssumption, ConstantsAssumption
  <2>6. rpps \in Seq(Nat) /\ Len(rpps) = Len(specs)
    BY <2>2, <2>4, <2>5
  <2>7. Known = {} /\ snap = NoRedkey
    BY DEF StatusInit, Init, Known
  <2>8. QED BY <2>1, <2>3, <2>6, <2>7 DEF PairsInv, Recorded
<1>2. TypeOK /\ HistoryInv /\ PairsInv /\ [StatusNext]_statusVars
        => TypeOK' /\ HistoryInv' /\ PairsInv'
  BY BaseKept, PairsStep
<1>3. QED BY <1>1, <1>2, PTL DEF StatusSpec

\* The topology lock: what admission lets through on the way up from zero, once a
\* topology is recorded, is a pair that Robin has applied.
THEOREM LockRestores == StatusSpec => ScaleUpRestoresApplied
<1> DEFINE Restores ==
      ~Ephemeral /\ redkey.primaries = 0 /\ redkey'.primaries # 0 /\ redkey.lastApplied # 0
        => <<redkey'.primaries, rpps'[redkey'.generation]>> \in appliedPairs
<1>1. TypeOK /\ HistoryInv /\ PairsInv /\ [StatusNext]_statusVars => [Restores]_statusVars
  <2> SUFFICES ASSUME TypeOK, HistoryInv, PairsInv, [StatusNext]_statusVars,
                      ~Ephemeral, redkey.primaries = 0, redkey'.primaries # 0,
                      redkey.lastApplied # 0
               PROVE  <<redkey'.primaries, rpps'[redkey'.generation]>> \in appliedPairs
    OBVIOUS
  <2>1. EditTopology
    <3>1. CASE AggregateDetails
      BY <3>1 DEF AggregateDetails, aggregateStatus, AggregatedStatus, RedkeyWith, store
    <3>2. CASE ScaleToZeroDetails
      BY <3>2 DEF ScaleToZeroDetails, updateStatusScaledToZero, RedkeyWith, store
    <3>3. CASE ReconcileDetails \/ SyncDetails \/ ApplyTopology \/ Quiet
      BY <3>3 DEF ReconcileDetails, Reconcile, SyncDetails, ApplyTopology, RobinApply, RobinTurn,
         Quiet, store
    <3>4. QED BY <3>1, <3>2, <3>3, RecordSteps
  <2>2. PICK r \in Replicas[redkey'.generation] :
          TopologyLockReplicas(redkey'.primaries, r) /\ rpps' = Append(rpps, r)
    BY <2>1 DEF EditTopology
  <2>3. PICK p \in Edits[redkey.generation + 1] :
          /\ TopologyLock(p)
          /\ redkey' = RedkeyWith(redkey.generation + 1, p, redkey.observedGeneration,
                                  redkey.phase, redkey.reason, redkey.lastApplied)
    BY <2>1 DEF EditTopology, EditSpec
  <2>4. redkey'.primaries = p /\ redkey'.generation = redkey.generation + 1
    BY <2>3 DEF RedkeyWith
  <2>5. p = redkey.lastApplied
    BY <2>3, <2>4 DEF TopologyLock
  <2>6. r = details.lastAppliedReplicas
    BY <2>2, <2>4 DEF TopologyLockReplicas
  <2>7. redkey'.generation = Len(rpps) + 1 /\ rpps \in Seq(Nat)
    BY <2>4 DEF HistoryInv, PairsInv
  <2>8. rpps'[redkey'.generation] = r
    BY <2>2, <2>7
  <2>9. QED BY <2>4, <2>5, <2>6, <2>8 DEF PairsInv, Recorded
<1>2. QED BY <1>1, PairsKept, PTL DEF StatusSpec, ScaleUpRestoresApplied
=============================================================================
