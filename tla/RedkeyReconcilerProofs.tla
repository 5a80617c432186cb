----------------------- MODULE RedkeyReconcilerProofs -----------------------
(***************************************************************************)
(* Proofs about RedkeyReconciler, for every value of its constants.        *)
(***************************************************************************)
EXTENDS RedkeyReconciler, NumberLemmas

Live == pc # "idle"

\* Every copy of a config there is: stored, cached, or held by the reconcile.
Known == configs \cup cachedConfigs \cup view \cup todo

-----------------------------------------------------------------------------
(* Generations: the store is ahead of the cache, the cache of the snapshot,   *)
(* and the snapshot of what has been reported as observed.                    *)
GenerationInv ==
  /\ redkey.observedGeneration <= redkey.generation
  /\ cachedRedkey.observedGeneration <= cachedRedkey.generation
  /\ snap.observedGeneration <= snap.generation
  /\ cachedRedkey.generation <= redkey.generation
  /\ redkey.observedGeneration <= cachedRedkey.generation
  /\ Live => /\ snap.generation <= cachedRedkey.generation
             /\ redkey.observedGeneration <= snap.generation

Matches(r) == r.generation \in 1..Len(specs) /\ r.primaries = specs[r.generation]

\* Every copy of the Redkey and every config holds the spec of its generation.
HistoryInv ==
  /\ Len(specs) = redkey.generation
  /\ Matches(redkey) /\ Matches(cachedRedkey)
  /\ Live => Matches(snap)
  /\ \A c \in Known : c.gen \in 1..Len(specs) /\ c.primaries = specs[c.gen]

\* What any copy of the Redkey or of a config says was applied, was.
AppliedInv ==
  /\ \A c \in Known : c.phase = "Applied" /\ c.primaries # 0 => c.primaries \in applied
  /\ redkey.lastApplied \in applied \cup {0}
  /\ cachedRedkey.lastApplied \in applied \cup {0}
  /\ snap.lastApplied \in applied \cup {0}

-----------------------------------------------------------------------------
\* The topologies a user may ask for are numbers of primaries.
LEMMA EditsTyped ==
  \A g \in 1..Len(Edits) : \A p \in Edits[g] : p \in Nat
BY ConstantsAssumption DEF ConstantsAssumption

\* The numeric fields of a Redkey are natural numbers.
LEMMA RedkeyFields ==
  ASSUME NEW r \in Redkey
  PROVE  /\ r.generation \in Nat /\ r.observedGeneration \in Nat
         /\ r.primaries \in Nat /\ r.lastApplied \in Nat
BY DEF Redkey

\* The same for a config.
LEMMA ConfigFields ==
  ASSUME NEW c \in Config
  PROVE  c.seq \in Nat /\ c.gen \in Nat /\ c.primaries \in Nat
BY DEF Config

\* A status write leaves a config well-formed.
LEMMA StatusTyped ==
  ASSUME NEW c \in Config, NEW phase \in ConfigPhases, NEW status \in ConfigStatuses
  PROVE  WithStatus(c, phase, status) \in Config
BY DEF WithStatus, Config

\* An edit raises the generation and leaves the status, the caches and the reconcile
\* that runs as they are.
LEMMA EditFields ==
  ASSUME EditSpec
  PROVE  /\ redkey'.generation = redkey.generation + 1
         /\ redkey'.observedGeneration = redkey.observedGeneration
         /\ redkey'.reason = redkey.reason /\ redkey'.lastApplied = redkey.lastApplied
         /\ UNCHANGED <<cachedRedkey, pc, snap>>
<1>1. PICK p : redkey' = RedkeyWith(redkey.generation + 1, p, redkey.observedGeneration,
                                    redkey.phase, redkey.reason, redkey.lastApplied)
  BY DEF EditSpec
<1>2. /\ redkey'.generation = redkey.generation + 1
      /\ redkey'.observedGeneration = redkey.observedGeneration
      /\ redkey'.reason = redkey.reason /\ redkey'.lastApplied = redkey.lastApplied
  BY <1>1 DEF RedkeyWith
<1>3. UNCHANGED <<cachedRedkey, pc, snap>>
  BY DEF EditSpec, caches, locals
<1>4. QED BY <1>2, <1>3

\* A Redkey as created, and the empty rest of the state, are well-typed.
LEMMA TypeInit == ASSUME Init PROVE TypeOK
<1> USE ConstantsAssumption DEF ConstantsAssumption
<1>1. PICK p \in Edits[1] : redkey = NewRedkey(1, p) /\ specs = <<p>>
  BY DEF Init
<1>2. p \in Nat
  BY EditsTyped
<1>3. redkey \in Redkey /\ NoRedkey \in Redkey
  BY <1>1, <1>2 DEF NewRedkey, NoRedkey, RedkeyWith, Redkey
<1>4. specs \in Seq(Nat)
  BY <1>1, <1>2
<1>5. QED BY <1>3, <1>4 DEF Init, TypeOK, PCs

\* Every step of the reconcile, the caches, the user and Robin keeps the types.
LEMMA TypeStep == ASSUME TypeOK, [Next]_vars PROVE TypeOK'
<1> USE ConstantsAssumption DEF ConstantsAssumption
<1> USE DEF TypeOK, PCs, Return, Goto
<1>0. NoRedkey \in Redkey
  BY DEF NoRedkey, NewRedkey, RedkeyWith, Redkey
<1>1. CASE Reconcile
  <2>1. ZeroCase(cachedConfigs) \in PCs
    BY DEF ZeroCase
  <2>2. QED BY <1>1, <2>1 DEF Reconcile, store, caches, history
<1>2. CASE ensureRBAC
  BY <1>0, <1>2 DEF ensureRBAC, Ensure, caches, history, RobinObjects
<1>3. CASE ensureRobinDeployment
  <2>1. AfterEnsure \in PCs
    BY DEF AfterEnsure
  <2>2. QED BY <1>0, <1>3, <2>1 DEF ensureRobinDeployment, Ensure, caches, history, RobinObjects
<1>4. CASE listConfigs
  BY <1>4 DEF listConfigs, StartCleanup, superseded, store, caches, history
<1>5. CASE createNewConfig
  <2>1. \A n \in Nat : NewConfig(n) \in Config
    BY DEF NewConfig, Config, ConfigPhases, ConfigStatuses, Redkey
  <2>2. configs' \subseteq Config
    <3>1. \A c \in view : c.seq + 1 \in Nat
      BY DEF Config
    <3>2. PICK n \in Nat : Create(n)
      BY <1>5, <3>1 DEF createNewConfig
    <3>3. QED BY <2>1, <3>2 DEF Create
  <2>3. QED BY <1>0, <1>5, <2>2 DEF createNewConfig, caches, history
<1>6. CASE relistConfigs
  BY <1>0, <1>6 DEF relistConfigs, StartCleanup, superseded, store, caches, history
<1>7. CASE cleanupSupersededConfigs
  BY <1>7 DEF cleanupSupersededConfigs, DeleteConfig, caches, history
<1>8. CASE aggregateStatus
  <2>1. ASSUME NEW active \in view PROVE AggregatedStatus(cachedRedkey, active) \in Redkey
    BY DEF AggregatedStatus, LastApplied, RedkeyWith, Redkey, Config, computePhaseFromConditions
  <2>2. QED BY <1>0, <1>8, <2>1 DEF aggregateStatus, caches, history
<1>9. CASE deleteRobinDeployment
  BY <1>9 DEF deleteRobinDeployment, caches, history
<1>10. CASE deleteRBAC
  BY <1>10 DEF deleteRBAC, caches, history
<1>11. CASE deleteAllConfigs
  BY <1>11 DEF deleteAllConfigs, DeleteConfig, caches, history
<1>12. CASE updateStatusScaledToZero
  BY <1>0, <1>12 DEF updateStatusScaledToZero, RedkeyWith, Redkey, caches, history
<1>13. CASE Abort
  BY <1>0, <1>13 DEF Abort, store, caches, history
<1>14. CASE SyncRedkey
  BY <1>14 DEF SyncRedkey, store, locals, history
<1>15. CASE SyncConfigs
  BY <1>15 DEF SyncConfigs, store, locals, history
<1>16. CASE SyncRobin
  BY <1>16 DEF SyncRobin, store, locals, history
<1>17. CASE EditSpec
  <2>0. redkey.generation \in Nat /\ redkey.generation + 1 \in Nat
    BY RedkeyFields
  <2>1. PICK p \in Edits[redkey.generation + 1] :
          /\ redkey' = RedkeyWith(redkey.generation + 1, p, redkey.observedGeneration,
                                  redkey.phase, redkey.reason, redkey.lastApplied)
          /\ specs' = Append(specs, p)
    BY <1>17 DEF EditSpec
  <2>2. p \in Nat
    <3>1. redkey.generation + 1 \in 1..Len(Edits)
      BY <1>17, <2>0 DEF EditSpec
    <3>2. QED BY <3>1, EditsTyped
  <2>3. redkey' \in Redkey
    BY <2>0, <2>1, <2>2 DEF RedkeyWith, Redkey
  <2>4. specs' \in Seq(Nat)
    BY <2>1, <2>2
  <2>5. QED BY <1>17, <2>3, <2>4 DEF EditSpec, caches, locals
<1>18. CASE RobinStart
  <2>0. /\ {"Applied", "InProgress", "Superseded"} \subseteq ConfigPhases
        /\ "Operating" \in ConfigStatuses
        /\ \A c \in configs : c.status \in ConfigStatuses
    BY DEF ConfigPhases, ConfigStatuses, Config
  <2>1. configs' \subseteq Config
    BY <1>18, StatusTyped, <2>0 DEF RobinStart, SetPhase
  <2>2. QED BY <1>18, <2>1 DEF RobinStart, RobinTurn, Config, caches, locals
<1>19. CASE RobinSkip
  <2>0. /\ {"Applied", "InProgress", "Superseded"} \subseteq ConfigPhases
        /\ "Operating" \in ConfigStatuses
        /\ \A c \in configs : c.status \in ConfigStatuses
    BY DEF ConfigPhases, ConfigStatuses, Config
  <2>1. configs' \subseteq Config
    BY <1>19, StatusTyped, <2>0 DEF RobinSkip, SetPhase
  <2>2. QED BY <1>19, <2>1 DEF RobinSkip, RobinTurn, Config, caches, locals
<1>20. CASE RobinApply
  <2>0. /\ {"Applied", "InProgress", "Superseded"} \subseteq ConfigPhases
        /\ "Operating" \in ConfigStatuses
        /\ \A c \in configs : c.status \in ConfigStatuses
    BY DEF ConfigPhases, ConfigStatuses, Config
  <2>1. configs' \subseteq Config
    BY <1>20, StatusTyped, <2>0 DEF RobinApply, SetPhase
  <2>2. QED BY <1>20, <2>1 DEF RobinApply, RobinTurn, Config, caches, locals
<1>21. CASE UNCHANGED vars
  BY <1>21 DEF vars, store, caches, locals, history
<1>22. QED
  BY <1>1, <1>2, <1>3, <1>4, <1>5, <1>6, <1>7, <1>8, <1>9, <1>10, <1>11, <1>12, <1>13, <1>14,
     <1>15, <1>16, <1>17, <1>18, <1>19, <1>20, <1>21 DEF Next, Step, Robin

\* The state's types are preserved by every step of the reconcile, the caches,
\* the user and Robin.
THEOREM TypeCorrect == Spec => []TypeOK
BY TypeInit, TypeStep, PTL DEF Spec

-----------------------------------------------------------------------------
\* A step of the running reconcile that writes no Redkey, or that ends it.
Proceeds == /\ pc # "idle" /\ UNCHANGED <<redkey, cachedRedkey, specs>>
            /\ snap' = snap \/ (snap' = NoRedkey /\ pc' = "idle")

\* Which steps concern the copies of the Redkey: a reconcile's start, the two
\* status writes, the cache and the user.
LEMMA RedkeySteps ==
  ASSUME [Next]_vars
  PROVE  \/ Reconcile \/ aggregateStatus \/ updateStatusScaledToZero \/ SyncRedkey \/ EditSpec
         \/ Proceeds \/ UNCHANGED <<redkey, cachedRedkey, pc, snap, specs>>
<1> USE DEF Proceeds, Return, Goto
<1>1. CASE ensureRBAC \/ ensureRobinDeployment
  BY <1>1 DEF ensureRBAC, ensureRobinDeployment, Ensure, caches, history
<1>2. CASE listConfigs
  BY <1>2 DEF listConfigs, StartCleanup, store, caches, history
<1>3. CASE createNewConfig
  BY <1>3 DEF createNewConfig, caches, history
<1>4. CASE relistConfigs
  BY <1>4 DEF relistConfigs, StartCleanup, store, caches, history
<1>5. CASE cleanupSupersededConfigs
  BY <1>5 DEF cleanupSupersededConfigs, caches, history
<1>6. CASE deleteRobinDeployment \/ deleteRBAC \/ deleteAllConfigs
  BY <1>6 DEF deleteRobinDeployment, deleteRBAC, deleteAllConfigs, caches, history
<1>7. CASE Abort
  BY <1>7 DEF Abort, store, caches, history
<1>8. CASE SyncConfigs \/ SyncRobin
  BY <1>8 DEF SyncConfigs, SyncRobin, store, locals, history
<1>9. CASE Robin
  BY <1>9 DEF Robin, RobinStart, RobinSkip, RobinApply, RobinTurn, caches, locals
<1>10. CASE UNCHANGED vars
  BY <1>10 DEF vars, store, caches, locals, history
<1>11. QED
  BY <1>1, <1>2, <1>3, <1>4, <1>5, <1>6, <1>7, <1>8, <1>9, <1>10 DEF Next, Step

\* The generations stay in order: observed, snapshot, cached, stored.
THEOREM GenerationsOrdered == Spec => []GenerationInv
<1>1. Init => GenerationInv
  <2> SUFFICES ASSUME Init PROVE GenerationInv
    OBVIOUS
  <2>1. /\ redkey.generation = 1 /\ redkey.observedGeneration = 0
        /\ snap.generation = 0 /\ snap.observedGeneration = 0
    <3>1. PICK p \in Edits[1] : redkey = NewRedkey(1, p)
      BY DEF Init
    <3>2. redkey.generation = 1 /\ redkey.observedGeneration = 0
      BY <3>1 DEF NewRedkey, RedkeyWith
    <3>3. snap = NoRedkey
      BY DEF Init
    <3>4. QED BY <3>2, <3>3 DEF NoRedkey, NewRedkey, RedkeyWith
  <2>2. QED BY <2>1 DEF Init, GenerationInv, Live
<1>2. TypeOK /\ GenerationInv /\ [Next]_vars => GenerationInv'
  <2> SUFFICES ASSUME TypeOK, GenerationInv, [Next]_vars PROVE GenerationInv'
    OBVIOUS
  <2>0. /\ redkey.generation \in Nat /\ redkey.observedGeneration \in Nat
        /\ cachedRedkey.generation \in Nat /\ cachedRedkey.observedGeneration \in Nat
        /\ snap.generation \in Nat /\ snap.observedGeneration \in Nat
        /\ NoRedkey.generation = 0 /\ NoRedkey.observedGeneration = 0
    BY RedkeyFields DEF TypeOK, NoRedkey, NewRedkey, RedkeyWith
  <2> USE DEF GenerationInv, Live
  <2>1. CASE Reconcile
    BY <2>0, <2>1 DEF Reconcile, store, caches
  <2>2. CASE aggregateStatus
    BY <2>0, <2>2 DEF aggregateStatus, AggregatedStatus, RedkeyWith, Return, caches
  <2>3. CASE updateStatusScaledToZero
    BY <2>0, <2>3 DEF updateStatusScaledToZero, RedkeyWith, Return, caches
  <2>4. CASE SyncRedkey
    BY <2>0, <2>4 DEF SyncRedkey, store, locals
  <2>5. CASE EditSpec
    BY <2>0, <2>5, EditFields
  <2>6. CASE Proceeds
    BY <2>0, <2>6 DEF Proceeds
  <2>7. CASE UNCHANGED <<redkey, cachedRedkey, pc, snap, specs>>
    BY <2>7
  <2>8. QED BY <2>1, <2>2, <2>3, <2>4, <2>5, <2>6, <2>7, RedkeySteps
<1>3. QED BY <1>1, <1>2, TypeCorrect, PTL DEF Spec

\* status.observedGeneration never goes back and never passes metadata.generation,
\* whatever the age of the copies the two status writes start from.
THEOREM ObservedAdvances == Spec => ObservedGenerationAdvances
<1> DEFINE Advance == /\ redkey.observedGeneration <= redkey'.observedGeneration
                      /\ redkey'.observedGeneration <= redkey'.generation
<1>1. TypeOK /\ GenerationInv /\ GenerationInv' /\ [Next]_vars => [Advance]_vars
  <2> SUFFICES ASSUME TypeOK, GenerationInv, GenerationInv', [Next]_vars PROVE Advance
    OBVIOUS
  <2>0. /\ redkey.generation \in Nat /\ redkey.observedGeneration \in Nat
        /\ snap.generation \in Nat
    BY RedkeyFields DEF TypeOK
  <2>1. CASE aggregateStatus
    BY <2>0, <2>1 DEF aggregateStatus, AggregatedStatus, RedkeyWith, GenerationInv, Live
  <2>2. CASE updateStatusScaledToZero
    BY <2>0, <2>2 DEF updateStatusScaledToZero, RedkeyWith, GenerationInv, Live
  <2>3. CASE EditSpec
    BY <2>0, <2>3, EditFields DEF GenerationInv
  <2>4. CASE UNCHANGED redkey
    BY <2>0, <2>4 DEF GenerationInv
  <2>5. QED
    BY <2>1, <2>2, <2>3, <2>4, RedkeySteps DEF Reconcile, SyncRedkey, Proceeds, store
<1>2. QED
  BY <1>1, TypeCorrect, GenerationsOrdered, PTL DEF Spec, ObservedGenerationAdvances

-----------------------------------------------------------------------------
\* The copies of configs a step adds: one the reconcile creates, or one Robin
\* writes a status on.
Created(c) == createNewConfig /\ \E n \in Nat : c = NewConfig(n)

RobinWrote(c) ==
  \E d \in configs, phase \in ConfigPhases, status \in ConfigStatuses :
    /\ c = WithStatus(d, phase, status)
    /\ phase = "Applied" => d.primaries \in applied' \cup {0}

\* What a created config is made of.
LEMMA CreatedFields ==
  ASSUME NEW c, Created(c)
  PROVE  /\ pc # "idle" /\ c.phase = "Pending"
         /\ c.gen = snap.generation /\ c.primaries = snap.primaries
<1>1. PICK n \in Nat : c = NewConfig(n)
  BY DEF Created
<1>2. c.phase = "Pending" /\ c.gen = snap.generation /\ c.primaries = snap.primaries
  BY <1>1 DEF NewConfig
<1>3. QED BY <1>2 DEF Created, createNewConfig

\* The copies of configs that a step of anyone but Robin leaves were there before it,
\* but for one that is created.
LEMMA ConfigStepsOfOthers ==
  ASSUME TypeOK, NEW c \in Known',
         \/ Step \/ Abort \/ SyncRedkey \/ SyncConfigs \/ SyncRobin \/ EditSpec \/ UNCHANGED vars
  PROVE  c \in Known \/ Created(c)
<1> USE DEF Known, Return, Goto
<1>1. CASE Reconcile
  BY <1>1 DEF Reconcile, store, caches
<1>2. CASE ensureRBAC \/ ensureRobinDeployment
  BY <1>2 DEF ensureRBAC, ensureRobinDeployment, Ensure, caches
<1>3. CASE listConfigs
  BY <1>3 DEF listConfigs, StartCleanup, superseded, store, caches
<1>4. CASE createNewConfig
  <2>1. \A d \in view : d.seq + 1 \in Nat
    BY ConfigFields DEF TypeOK
  <2>2. PICK n \in Nat : Create(n)
    BY <1>4, <2>1 DEF createNewConfig
  <2>3. QED BY <1>4, <2>2 DEF createNewConfig, Create, Created, caches
<1>5. CASE relistConfigs
  BY <1>5 DEF relistConfigs, StartCleanup, superseded, store, caches
<1>6. CASE cleanupSupersededConfigs
  BY <1>6 DEF cleanupSupersededConfigs, DeleteConfig, caches
<1>7. CASE aggregateStatus \/ updateStatusScaledToZero \/ Abort
  BY <1>7 DEF aggregateStatus, updateStatusScaledToZero, Abort, store, caches
<1>8. CASE deleteRobinDeployment \/ deleteRBAC
  BY <1>8 DEF deleteRobinDeployment, deleteRBAC, caches
<1>9. CASE deleteAllConfigs
  BY <1>9 DEF deleteAllConfigs, DeleteConfig, caches
<1>10. CASE SyncRedkey \/ SyncConfigs \/ SyncRobin
  BY <1>10 DEF SyncRedkey, SyncConfigs, SyncRobin, store, locals
<1>11. CASE EditSpec
  BY <1>11 DEF EditSpec, caches, locals
<1>12. CASE UNCHANGED vars
  BY <1>12 DEF vars, store, caches, locals
<1>13. QED
  BY <1>1, <1>2, <1>3, <1>4, <1>5, <1>6, <1>7, <1>8, <1>9, <1>10, <1>11, <1>12 DEF Step

\* Every copy of a config after a step was there before it, or is one of these.
LEMMA ConfigSteps ==
  ASSUME TypeOK, [Next]_vars, NEW c \in Known'
  PROVE  c \in Known \/ Created(c) \/ RobinWrote(c)
<1> USE DEF Known
<1>1. CASE Robin
  <2>0. /\ {"Applied", "InProgress", "Superseded"} \subseteq ConfigPhases
        /\ "Operating" \in ConfigStatuses
        /\ ReportedStatuses \subseteq ConfigStatuses
        /\ \A d \in configs : d.status \in ConfigStatuses
    BY ConstantsAssumption DEF ConstantsAssumption, ConfigPhases, ConfigStatuses, Config, TypeOK
  <2>1. CASE RobinStart
    BY <2>0, <2>1 DEF RobinStart, RobinTurn, SetPhase, RobinWrote, caches, locals
  <2>2. CASE RobinSkip
    BY <2>0, <2>2 DEF RobinSkip, RobinTurn, SetPhase, RobinWrote, caches, locals
  <2>3. CASE RobinApply
    BY <2>0, <2>3 DEF RobinApply, RobinTurn, SetPhase, RobinWrote, caches, locals
  <2>4. QED BY <1>1, <2>1, <2>2, <2>3 DEF Robin
<1>2. QED BY <1>1, ConfigStepsOfOthers DEF Next

\* At first there is one spec, and every copy of the Redkey holds it.
LEMMA HistoryInit == ASSUME Init PROVE HistoryInv
<1>1. PICK p \in Edits[1] : redkey = NewRedkey(1, p) /\ specs = <<p>>
  BY DEF Init
<1>2. redkey.generation = 1 /\ redkey.primaries = p /\ Len(specs) = 1 /\ specs[1] = p
  BY <1>1 DEF NewRedkey, RedkeyWith
<1>3. QED BY <1>2 DEF Init, HistoryInv, Matches, Live, Known

\* Every step keeps the copies of the Redkey and of the configs true to the history
\* of specs, whatever their age.
LEMMA HistoryStep == ASSUME TypeOK, HistoryInv, [Next]_vars PROVE HistoryInv'
<1>1. specs' = specs \/ EditSpec
  BY RedkeySteps DEF Reconcile, aggregateStatus, updateStatusScaledToZero, SyncRedkey, Proceeds,
                     history
<1>2. CASE specs' = specs
  <2>1. /\ Len(specs') = redkey'.generation
        /\ Matches(redkey)' /\ Matches(cachedRedkey)' /\ (Live => Matches(snap))'
    <3> USE <1>2 DEF HistoryInv, Matches, Live
    <3>1. CASE Reconcile
      BY <3>1 DEF Reconcile, store, caches
    <3>2. CASE aggregateStatus
      BY <3>2 DEF aggregateStatus, AggregatedStatus, RedkeyWith, Return, caches
    <3>3. CASE updateStatusScaledToZero
      BY <3>3 DEF updateStatusScaledToZero, RedkeyWith, Return, caches
    <3>4. CASE SyncRedkey
      BY <3>4 DEF SyncRedkey, store, locals
    <3>5. CASE EditSpec
      <4>1. Len(specs') = Len(specs) + 1 /\ Len(specs) \in Nat
        BY <3>5 DEF EditSpec, TypeOK
      <4>2. QED BY <4>1
    <3>6. CASE Proceeds
      BY <3>6 DEF Proceeds
    <3>7. CASE UNCHANGED <<redkey, cachedRedkey, pc, snap, specs>>
      BY <3>7
    <3>8. QED BY <3>1, <3>2, <3>3, <3>4, <3>5, <3>6, <3>7, RedkeySteps
  <2>2. ASSUME NEW c \in Known'
        PROVE  c.gen \in 1..Len(specs) /\ c.primaries = specs[c.gen]
    <3>1. CASE c \in Known
      BY <3>1 DEF HistoryInv
    <3>2. CASE Created(c)
      <4>1. pc # "idle" /\ c.gen = snap.generation /\ c.primaries = snap.primaries
        BY <3>2, CreatedFields
      <4>2. QED BY <4>1 DEF HistoryInv, Matches, Live
    <3>3. CASE RobinWrote(c)
      BY <3>3 DEF RobinWrote, WithStatus, HistoryInv, Known
    <3>4. QED BY <3>1, <3>2, <3>3, ConfigSteps
  <2>3. QED BY <1>2, <2>1, <2>2 DEF HistoryInv
<1>3. CASE EditSpec
  <2>1. PICK p \in Edits[redkey.generation + 1] :
          /\ redkey' = RedkeyWith(redkey.generation + 1, p, redkey.observedGeneration,
                                  redkey.phase, redkey.reason, redkey.lastApplied)
          /\ specs' = Append(specs, p)
    BY <1>3 DEF EditSpec
  <2>2. /\ Len(specs') = Len(specs) + 1 /\ Len(specs) \in Nat
        /\ specs'[Len(specs) + 1] = p
        /\ \A i \in 1..Len(specs) : specs'[i] = specs[i] /\ i \in 1..Len(specs')
    BY <2>1 DEF TypeOK
  <2>3. redkey'.generation = Len(specs') /\ redkey'.primaries = p
    BY <2>1, <2>2 DEF RedkeyWith, HistoryInv
  <2>4. Matches(redkey)'
    BY <2>2, <2>3 DEF Matches
  <2>5. UNCHANGED <<configs, caches, locals>>
    BY <1>3 DEF EditSpec
  <2>6. QED BY <2>2, <2>3, <2>4, <2>5 DEF HistoryInv, Matches, Known, Live, caches, locals
<1>4. QED BY <1>1, <1>2, <1>3

\* Every copy of the Redkey, and every copy of a config, holds the spec that the
\* user gave in its generation.
THEOREM HistoryKept == Spec => []HistoryInv
BY HistoryInit, HistoryStep, TypeCorrect, PTL DEF Spec

\* A config holds what the user asked for in the generation its annotation names.
THEOREM ConfigsFaithful == Spec => []ConfigsCarryTheirGeneration
<1>1. HistoryInv => ConfigsCarryTheirGeneration
  BY DEF HistoryInv, ConfigsCarryTheirGeneration, Known
<1>2. QED BY <1>1, HistoryKept, PTL

\* Only topologies Robin has applied reach status.lastApplied*, through any chain
\* of old copies.
THEOREM AppliedKept == Spec => []AppliedInv
<1>1. Init => AppliedInv
  <2> SUFFICES ASSUME Init PROVE AppliedInv
    OBVIOUS
  <2>1. PICK p \in Edits[1] : redkey = NewRedkey(1, p)
    BY DEF Init
  <2>2. redkey.lastApplied = 0 /\ NoRedkey.lastApplied = 0
    BY <2>1 DEF NewRedkey, NoRedkey, RedkeyWith
  <2>3. QED BY <2>2 DEF Init, AppliedInv, Known
<1>2. TypeOK /\ AppliedInv /\ [Next]_vars => AppliedInv'
  <2> SUFFICES ASSUME TypeOK, AppliedInv, [Next]_vars PROVE AppliedInv'
    OBVIOUS
  <2>1. applied \subseteq applied'
    <3>1. CASE Robin
      BY <3>1 DEF Robin, RobinStart, RobinSkip, RobinApply
    <3>2. CASE Step
      BY <3>2 DEF Step, Reconcile, ensureRBAC, ensureRobinDeployment, Ensure, listConfigs,
           createNewConfig, relistConfigs, cleanupSupersededConfigs, aggregateStatus,
           deleteRobinDeployment, deleteRBAC, deleteAllConfigs, updateStatusScaledToZero, history
    <3>3. QED
      BY <3>1, <3>2 DEF Next, Abort, SyncRedkey, SyncConfigs, SyncRobin, EditSpec, vars, history
  <2>2. ASSUME NEW c \in Known', c.phase = "Applied", c.primaries # 0
        PROVE  c.primaries \in applied'
    <3>1. CASE c \in Known
      BY <2>1, <2>2, <3>1 DEF AppliedInv
    <3>2. CASE Created(c)
      BY <2>2, <3>2, CreatedFields
    <3>3. CASE RobinWrote(c)
      BY <2>2, <3>3 DEF RobinWrote, WithStatus
    <3>4. QED BY <3>1, <3>2, <3>3, ConfigSteps
  <2>3. /\ redkey'.lastApplied \in applied' \cup {0}
        /\ cachedRedkey'.lastApplied \in applied' \cup {0}
        /\ snap'.lastApplied \in applied' \cup {0}
    <3> USE <2>1 DEF AppliedInv
    <3>0. NoRedkey.lastApplied = 0
      BY DEF NoRedkey, NewRedkey, RedkeyWith
    <3>1. CASE Reconcile
      BY <3>1 DEF Reconcile, store, caches
    <3>2. CASE aggregateStatus
      BY <3>0, <3>2 DEF aggregateStatus, AggregatedStatus, LastApplied, RedkeyWith, Return, Known, caches
    <3>3. CASE updateStatusScaledToZero
      BY <3>0, <3>3 DEF updateStatusScaledToZero, RedkeyWith, Return, caches
    <3>4. CASE SyncRedkey
      BY <3>4 DEF SyncRedkey, store, locals
    <3>5. CASE EditSpec
      BY <3>5, EditFields DEF EditSpec
    <3>6. CASE Proceeds
      BY <3>0, <3>6 DEF Proceeds
    <3>7. CASE UNCHANGED <<redkey, cachedRedkey, pc, snap, specs>>
      BY <3>7
    <3>8. QED BY <3>1, <3>2, <3>3, <3>4, <3>5, <3>6, <3>7, RedkeySteps
  <2>4. QED BY <2>2, <2>3 DEF AppliedInv
<1>3. QED BY <1>1, <1>2, TypeCorrect, PTL DEF Spec

\* status.lastAppliedPrimaries never names a topology Robin has not applied.
THEOREM LastAppliedSound == Spec => []LastAppliedIsReal
<1>1. AppliedInv => LastAppliedIsReal
  BY DEF AppliedInv, LastAppliedIsReal
<1>2. QED BY <1>1, AppliedKept, PTL

-----------------------------------------------------------------------------
(* Lists: a sequence occurs once, and there is a greatest one.                *)
Sortable(list) ==
  /\ \A c, d \in list : c.seq = d.seq => c = d
  /\ \E n \in Nat : \A c \in list : c.seq <= n

ListsInv == Sortable(configs) /\ Sortable(cachedConfigs) /\ Sortable(view)

\* A part of a list can be sorted as well.
LEMMA SortableParts ==
  ASSUME NEW list, Sortable(list), NEW part, part \subseteq list
  PROVE  Sortable(part)
BY DEF Sortable

\* A sortable list has a first element ...
LEMMA FirstExists ==
  ASSUME NEW list, list \subseteq Config, list # {}
  PROVE  \E c \in list : IsFirst(c, list)
<1> DEFINE numbers == {c.seq : c \in list}
<1>1. numbers \subseteq Nat /\ numbers # {}
  BY ConfigFields
<1>2. PICK m \in numbers : \A k \in numbers : m <= k
  BY <1>1, LeastNumber
<1>3. PICK c \in list : c.seq = m
  BY <1>2
<1>4. QED BY <1>2, <1>3 DEF IsFirst

\* ... and a last.
LEMMA LatestExists ==
  ASSUME NEW list, list \subseteq Config, list # {}, Sortable(list)
  PROVE  \E c \in list : IsLatest(c, list)
<1> DEFINE numbers == {c.seq : c \in list}
<1>1. numbers \subseteq Nat /\ numbers # {}
  BY ConfigFields
<1>2. PICK n \in Nat : \A k \in numbers : k <= n
  BY DEF Sortable
<1>3. PICK m \in numbers : \A k \in numbers : k <= m
  BY <1>1, <1>2, GreatestNumber
<1>4. PICK c \in list : c.seq = m
  BY <1>3
<1>5. QED BY <1>3, <1>4 DEF IsLatest

\* There is no more than one first element ...
LEMMA FirstUnique ==
  ASSUME NEW list, list \subseteq Config, Sortable(list), NEW c \in list, NEW d \in list,
         IsFirst(c, list), IsFirst(d, list)
  PROVE  c = d
<1>1. c.seq \in Nat /\ d.seq \in Nat
  BY ConfigFields
<1>2. c.seq = d.seq
  BY <1>1 DEF IsFirst
<1>3. QED BY <1>2 DEF Sortable

\* ... and no more than one last.
LEMMA LatestUnique ==
  ASSUME NEW list, list \subseteq Config, Sortable(list), NEW c \in list, NEW d \in list,
         IsLatest(c, list), IsLatest(d, list)
  PROVE  c = d
<1>1. c.seq \in Nat /\ d.seq \in Nat
  BY ConfigFields
<1>2. c.seq = d.seq
  BY <1>1 DEF IsLatest
<1>3. QED BY <1>2 DEF Sortable

\* So a list decides what the code takes from it.
LEMMA SortedListDecides ==
  ASSUME NEW list, list \subseteq Config, list # {}, Sortable(list)
  PROVE  /\ \E c \in list : \A d \in list : IsLatest(d, list) <=> d = c
         /\ \E c \in list : \A d \in list : selectActiveConfig(d, list) <=> d = c
<1>1. \E c \in list : \A d \in list : IsLatest(d, list) <=> d = c
  BY LatestExists, LatestUnique
<1>2. CASE InPhase(list, "InProgress") = {}
  <2>1. \A d \in list : selectActiveConfig(d, list) <=> IsFirst(d, list)
    BY <1>2 DEF selectActiveConfig
  <2>2. \E c \in list : \A d \in list : IsFirst(d, list) <=> d = c
    BY FirstExists, FirstUnique
  <2>3. QED BY <1>1, <2>1, <2>2
<1>3. CASE InPhase(list, "InProgress") # {}
  <2> DEFINE part == InPhase(list, "InProgress")
  <2>1. part \subseteq list /\ part \subseteq Config /\ part # {} /\ Sortable(part)
    BY <1>3, SortableParts DEF InPhase
  <2>2. \A d \in list : selectActiveConfig(d, list) <=> d \in part /\ IsFirst(d, part)
    BY <1>3 DEF selectActiveConfig
  <2> HIDE DEF part
  <2>3. PICK c \in part : IsFirst(c, part)
    BY <2>1, FirstExists
  <2>4. \A d \in part : IsFirst(d, part) => d = c
    BY <2>1, <2>3, FirstUnique
  <2>5. QED BY <1>1, <2>1, <2>2, <2>3, <2>4
<1>4. QED BY <1>2, <1>3

\* Robin's writes keep the sequences.
LEMMA RobinKeepsSequences ==
  ASSUME Robin
  PROVE  \E c \in configs : \E d : d.seq = c.seq /\ configs' = (configs \ {c}) \cup {d}
<1>1. PICK c \in configs : \E phase, status : SetPhase(c, phase, status)
  <2>1. CASE RobinStart
    BY <2>1 DEF RobinStart
  <2>2. CASE RobinSkip
    BY <2>2 DEF RobinSkip
  <2>3. CASE RobinApply
    BY <2>3 DEF RobinApply
  <2>4. QED BY <2>1, <2>2, <2>3 DEF Robin
<1>2. PICK phase, status : SetPhase(c, phase, status)
  BY <1>1
<1>3. WithStatus(c, phase, status).seq = c.seq
  BY DEF WithStatus
<1>4. QED BY <1>2, <1>3 DEF SetPhase

\* The stored configs stay sortable: the API server refuses a sequence that is taken.
LEMMA StoreStaysSortable ==
  ASSUME TypeOK, Sortable(configs), [Next]_vars
  PROVE  Sortable(configs')
<1>0. PICK n \in Nat : \A c \in configs : c.seq \in Nat /\ c.seq <= n
  BY ConfigFields DEF TypeOK, Sortable
<1>1. CASE createNewConfig
  <2>1. \A d \in view : d.seq + 1 \in Nat
    BY ConfigFields DEF TypeOK
  <2>2. PICK k \in Nat : Create(k)
    BY <1>1, <2>1 DEF createNewConfig
  <2>3. CASE k \in Seqs(configs)
    BY <2>2, <2>3 DEF Create
  <2>4. CASE k \notin Seqs(configs)
    <3>1. configs' = configs \cup {NewConfig(k)} /\ NewConfig(k).seq = k
      BY <2>2, <2>4 DEF Create, NewConfig
    <3>2. \A c \in configs : c.seq # k
      BY <2>4 DEF Seqs
    <3>3. \A c, d \in configs' : c.seq = d.seq => c = d
      BY <3>1, <3>2 DEF Sortable
    <3>4. n + k \in Nat /\ \A c \in configs' : c.seq <= n + k
      BY <1>0, <3>1
    <3>5. QED BY <3>3, <3>4 DEF Sortable
  <2>5. QED BY <2>3, <2>4
<1>2. CASE Robin
  <2>1. PICK c \in configs : \E d : d.seq = c.seq /\ configs' = (configs \ {c}) \cup {d}
    BY <1>2, RobinKeepsSequences
  <2>2. PICK d : d.seq = c.seq /\ configs' = (configs \ {c}) \cup {d}
    BY <2>1
  <2>3. \A a, b \in configs' : a.seq = b.seq => a = b
    BY <2>2 DEF Sortable
  <2>4. \A a \in configs' : a.seq <= n
    BY <1>0, <2>2
  <2>5. QED BY <2>3, <2>4 DEF Sortable
<1>3. CASE ~createNewConfig /\ ~Robin
  <2>1. configs' \subseteq configs
    <3>1. CASE Step
      BY <1>3, <3>1 DEF Step, Reconcile, ensureRBAC, ensureRobinDeployment, Ensure, listConfigs,
           relistConfigs, aggregateStatus, deleteRobinDeployment, deleteRBAC, deleteAllConfigs,
           cleanupSupersededConfigs, DeleteConfig, updateStatusScaledToZero, store
    <3>2. CASE ~Step
      BY <1>3, <3>2 DEF Next, Abort, SyncRedkey, SyncConfigs, SyncRobin, EditSpec, store, vars
    <3>3. QED BY <3>1, <3>2
  <2>2. QED BY <2>1, SortableParts
<1>4. QED BY <1>1, <1>2, <1>3

\* What is cached was stored, and what is held was cached.
LEMMA ListsTaken ==
  ASSUME [Next]_vars
  PROVE  /\ cachedConfigs' = cachedConfigs \/ cachedConfigs' = configs
         /\ view' \subseteq view \/ view' \subseteq cachedConfigs
<1> USE DEF Return, Goto, caches, locals, store
<1>1. CASE Reconcile
  BY <1>1 DEF Reconcile
<1>2. CASE ensureRBAC \/ ensureRobinDeployment
  BY <1>2 DEF ensureRBAC, ensureRobinDeployment, Ensure
<1>3. CASE listConfigs \/ relistConfigs
  BY <1>3 DEF listConfigs, relistConfigs, StartCleanup
<1>4. CASE createNewConfig \/ cleanupSupersededConfigs \/ deleteAllConfigs
  BY <1>4 DEF createNewConfig, cleanupSupersededConfigs, deleteAllConfigs
<1>5. CASE aggregateStatus \/ updateStatusScaledToZero \/ Abort
  BY <1>5 DEF aggregateStatus, updateStatusScaledToZero, Abort
<1>6. CASE deleteRobinDeployment \/ deleteRBAC
  BY <1>6 DEF deleteRobinDeployment, deleteRBAC
<1>7. CASE SyncRedkey \/ SyncConfigs \/ SyncRobin \/ EditSpec
  BY <1>7 DEF SyncRedkey, SyncConfigs, SyncRobin, EditSpec
<1>8. CASE Robin
  BY <1>8 DEF Robin, RobinStart, RobinSkip, RobinApply, RobinTurn
<1>9. CASE UNCHANGED vars
  BY <1>9 DEF vars
<1>10. QED BY <1>1, <1>2, <1>3, <1>4, <1>5, <1>6, <1>7, <1>8, <1>9 DEF Next, Step

\* Every list there is can be sorted.
THEOREM ListsKept == Spec => []ListsInv
<1>1. Init => ListsInv
  BY DEF Init, ListsInv, Sortable
<1>2. TypeOK /\ ListsInv /\ [Next]_vars => ListsInv'
  <2> SUFFICES ASSUME TypeOK, ListsInv, [Next]_vars PROVE ListsInv'
    OBVIOUS
  <2>1. Sortable(configs')
    BY StoreStaysSortable DEF ListsInv
  <2>2. Sortable(cachedConfigs')
    BY ListsTaken DEF ListsInv
  <2>3. Sortable(view')
    BY ListsTaken, SortableParts DEF ListsInv
  <2>4. QED BY <2>1, <2>2, <2>3 DEF ListsInv
<1>3. QED BY <1>1, <1>2, TypeCorrect, PTL DEF Spec

\* listConfigs and selectActiveConfig, for any number of configs and any lag: a list
\* decides which config is the latest and which the active one.
THEOREM ListsSorted == Spec => []ListsDecide
<1>1. TypeOK /\ ListsInv => ListsDecide
  BY SortedListDecides DEF TypeOK, ListsInv, ListsDecide
<1>2. QED BY <1>1, TypeCorrect, ListsKept, PTL
=============================================================================
