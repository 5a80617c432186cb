----------------------- MODULE RedkeyOwnWritesProofs -----------------------
(***************************************************************************)
(* What the reconciler guarantees when a list holds every config it has    *)
(* created (ReadsOwnWrites): sequences follow generations and no observed  *)
(* generation is without its config.  Neither holds without that           *)
(* assumption, whose failures are model-checked.                           *)
(***************************************************************************)
EXTENDS RedkeyReconcilerProofs

Covered(g) == \E c \in configs : c.gen = g

\* What the program counter says of the locals.
ControlInv ==
  /\ pc = "idle" => snap = NoRedkey
  /\ pc \notin {"cleanupSupersededConfigs", "deleteAllConfigs"} => todo = {}
  /\ pc \in {"listConfigs", "relistConfigs", "cleanupSupersededConfigs"} => snap.primaries # 0
  /\ pc \in {"deleteRobinDeployment", "deleteRBAC", "deleteAllConfigs", "updateStatusScaledToZero"}
       => snap.primaries = 0

\* Sequence order and generation order are the same, over every copy of a config.
OrderInv ==
  \A c, d \in Known : /\ c.seq < d.seq => c.gen < d.gen
                      /\ c.seq = d.seq => c.gen = d.gen

\* No config is of a later generation than the one being reconciled.
PastInv == \A c \in Known : /\ c.gen <= cachedRedkey.generation
                            /\ Live => c.gen <= snap.generation

\* The list a config is created from is complete, and older than the snapshot.
ListInv ==
  /\ pc = "createNewConfig" \/ (pc \in {"ensureRBAC", "ensureRobinDeployment"} /\ snap.primaries = 0)
       => Seqs(configs) \cup Seqs(cachedConfigs) \subseteq Seqs(view)
  /\ pc = "createNewConfig" => \A c \in view : c.gen < snap.generation

\* Nothing is cleaned up without something newer being kept.
CleanupInv ==
  pc = "cleanupSupersededConfigs" => \A c \in todo : \E d \in todo \cup view : c.seq < d.seq

\* A generation that looks covered, to the cache or in a status, is covered.
CoverInv ==
  /\ \A c \in cachedConfigs :
       c.primaries # 0 /\ c.gen \in {cachedRedkey.generation, snap.generation} => Covered(c.gen)
  /\ \A r \in {redkey, cachedRedkey, snap} :
       r.primaries # 0 /\ r.observedGeneration = r.generation => Covered(r.generation)
  /\ pc \in {"relistConfigs", "cleanupSupersededConfigs", "aggregateStatus"} /\ snap.primaries # 0
       => Covered(snap.generation)

OwnWritesInv == OrderInv /\ PastInv /\ ListInv /\ CleanupInv /\ CoverInv

-----------------------------------------------------------------------------
\* The program counter and the locals agree at every step.
THEOREM ControlKept == Spec => []ControlInv
<1>1. Init => ControlInv
  BY DEF Init, ControlInv
<1>2. ControlInv /\ [Next]_vars => ControlInv'
  <2> SUFFICES ASSUME ControlInv, [Next]_vars PROVE ControlInv'
    OBVIOUS
  <2> USE DEF ControlInv, Return, Goto
  <2>1. CASE Reconcile
    BY <2>1 DEF Reconcile, ZeroCase
  <2>2. CASE ensureRBAC
    BY <2>2 DEF ensureRBAC, Ensure
  <2>3. CASE ensureRobinDeployment
    BY <2>3 DEF ensureRobinDeployment, Ensure, AfterEnsure
  <2>4. CASE listConfigs
    BY <2>4 DEF listConfigs, StartCleanup
  <2>5. CASE createNewConfig
    BY <2>5 DEF createNewConfig
  <2>6. CASE relistConfigs
    BY <2>6 DEF relistConfigs, StartCleanup
  <2>7. CASE cleanupSupersededConfigs
    BY <2>7 DEF cleanupSupersededConfigs, DeleteConfig
  <2>8. CASE aggregateStatus \/ updateStatusScaledToZero \/ Abort
    BY <2>8 DEF aggregateStatus, updateStatusScaledToZero, Abort
  <2>9. CASE deleteRobinDeployment \/ deleteRBAC
    BY <2>9 DEF deleteRobinDeployment, deleteRBAC
  <2>10. CASE deleteAllConfigs
    BY <2>10 DEF deleteAllConfigs, DeleteConfig
  <2>11. CASE SyncRedkey \/ SyncConfigs \/ SyncRobin \/ EditSpec
    BY <2>11 DEF SyncRedkey, SyncConfigs, SyncRobin, EditSpec, locals
  <2>12. CASE Robin
    BY <2>12 DEF Robin, RobinStart, RobinSkip, RobinApply, RobinTurn, locals
  <2>13. CASE UNCHANGED vars
    BY <2>13 DEF vars, locals
  <2>14. QED
    BY <2>1, <2>2, <2>3, <2>4, <2>5, <2>6, <2>7, <2>8, <2>9, <2>10, <2>11, <2>12, <2>13
       DEF Next, Step
<1>3. QED BY <1>1, <1>2, PTL DEF Spec

-----------------------------------------------------------------------------
\* What the steps below start from.
Base == /\ TypeOK /\ GenerationInv /\ HistoryInv /\ ControlInv
        /\ OwnWritesInv

\* The sequence createNewConfig uses is free, and above every known one.
LEMMA FreshSequence ==
  ASSUME Base, createNewConfig
  PROVE  \E n \in Nat :
           /\ configs' = configs \cup {NewConfig(n)}
           /\ \A d \in Known : d.seq < n /\ d.gen < snap.generation
<1> USE DEF Base, OwnWritesInv
<1>1. pc = "createNewConfig" /\ todo = {}
  BY DEF createNewConfig, ControlInv
<1>2. \A d \in Known : d \in Config /\ d.seq \in Nat /\ d.gen \in Nat
  BY ConfigFields DEF Known, TypeOK
<1>3. \A d \in Known : \E c \in view : c.seq = d.seq /\ c.gen = d.gen
  <2> TAKE d \in Known
  <2>1. d.seq \in Seqs(view)
    <3>1. Seqs(configs) \cup Seqs(cachedConfigs) \subseteq Seqs(view)
      BY <1>1 DEF ListInv
    <3>2. d \in configs \/ d \in cachedConfigs \/ d \in view
      BY <1>1 DEF Known
    <3>3. d.seq \in Seqs(configs) \/ d.seq \in Seqs(cachedConfigs) \/ d.seq \in Seqs(view)
      BY <3>2 DEF Seqs
    <3>4. QED BY <3>1, <3>3
  <2>2. PICK c \in view : c.seq = d.seq
    BY <2>1 DEF Seqs
  <2>3. QED BY <2>2 DEF OrderInv, Known
<1>4. \A d \in Known : d.gen < snap.generation
  BY <1>1, <1>3 DEF ListInv
<1>5. PICK n \in Nat : Create(n) /\ \A c \in view : c.seq < n
  <2>1. CASE view = {}
    BY <2>1 DEF createNewConfig
  <2>2. CASE view # {}
    <3>1. PICK c \in view : IsLatest(c, view) /\ Create(c.seq + 1)
      BY <2>2 DEF createNewConfig
    <3>2. c.seq + 1 \in Nat /\ \A d \in view : d.seq < c.seq + 1
      BY <1>2, <3>1 DEF IsLatest, Known
    <3>3. QED BY <3>1, <3>2
  <2>3. QED BY <2>1, <2>2
<1>6. \A d \in Known : d.seq < n
  BY <1>3, <1>5
<1>7. n \notin Seqs(configs)
  BY <1>2, <1>6 DEF Seqs, Known
<1>8. QED BY <1>4, <1>5, <1>6, <1>7 DEF Create

\* A copy of the same config is there already.
Old(c) == \E d \in Known : d.seq = c.seq /\ d.gen = c.gen /\ d.primaries = c.primaries

\* After a step every copy of a config is of one there was before, or of the one
\* new config, which comes after all of them.
LEMMA OneNewConfig ==
  ASSUME Base, [Next]_vars
  PROVE  \E n \in Nat : \A c \in Known' :
           \/ Old(c)
           \/ /\ c.seq = n /\ c.gen = snap.generation /\ Live
              /\ \A d \in Known : d.seq < n /\ d.gen < snap.generation
<1>1. CASE createNewConfig
  <2>1. PICK n \in Nat : /\ configs' = configs \cup {NewConfig(n)}
                         /\ \A d \in Known : d.seq < n /\ d.gen < snap.generation
    BY <1>1, FreshSequence
  <2>2. \A c \in Known' : c \in Known \/ c = NewConfig(n)
    BY <1>1, <2>1 DEF Known, createNewConfig, Return, caches
  <2>3. NewConfig(n).seq = n /\ NewConfig(n).gen = snap.generation /\ Live
    BY <1>1 DEF NewConfig, Live, createNewConfig
  <2>4. QED BY <2>1, <2>2, <2>3 DEF Old
<1>2. CASE ~createNewConfig
  <2>1. ASSUME NEW c \in Known' PROVE Old(c)
    <3>1. c \in Known \/ RobinWrote(c)
      BY <1>2, ConfigSteps DEF Created, Base
    <3>2. CASE RobinWrote(c)
      BY <3>2 DEF RobinWrote, WithStatus, Known, Old
    <3>3. QED BY <3>1, <3>2 DEF Old
  <2>2. QED BY <2>1
<1>3. QED BY <1>1, <1>2

\* Which steps write configs.
LEMMA ConfigsWritten ==
  ASSUME [Next]_vars
  PROVE  \/ cleanupSupersededConfigs \/ deleteAllConfigs \/ createNewConfig \/ Robin
         \/ UNCHANGED configs
<1>1. CASE Step
  BY <1>1 DEF Step, Reconcile, ensureRBAC, ensureRobinDeployment, Ensure, listConfigs,
       relistConfigs, aggregateStatus, deleteRobinDeployment, deleteRBAC,
       updateStatusScaledToZero, store
<1>2. CASE ~Step
  BY <1>2 DEF Next, Abort, SyncRedkey, SyncConfigs, SyncRobin, EditSpec, store, vars
<1>3. QED BY <1>1, <1>2

\* A config of the generation being reconciled, or of a later one, that is not a
\* scale-to-zero outlives every step: clean-up removes only configs with something
\* newer, and the scale-to-zero path only what was there before it.
LEMMA Survives ==
  ASSUME Base, [Next]_vars,
         NEW e \in configs, e.primaries # 0, Live => snap.generation <= e.gen
  PROVE  \E d \in configs' : d.gen = e.gen
<1> USE DEF Base, OwnWritesInv
<1>1. CASE cleanupSupersededConfigs
  <2>1. CASE configs' = configs
    BY <2>1
  <2>2. CASE configs' # configs
    <3>1. PICK c \in todo : configs' = {d \in configs : d.seq # c.seq}
      BY <1>1, <2>2 DEF cleanupSupersededConfigs, DeleteConfig
    <3>2. PICK d \in todo \cup view : c.seq < d.seq
      BY <1>1 DEF cleanupSupersededConfigs, CleanupInv
    <3>3. c \in Known /\ d \in Known /\ e \in Known
      BY DEF Known
    <3>4. /\ c.gen \in Nat /\ d.gen \in Nat /\ e.gen \in Nat /\ snap.generation \in Nat
      BY <3>3, ConfigFields, RedkeyFields DEF Known, TypeOK
    <3>5. c.gen < d.gen /\ d.gen <= snap.generation
      BY <1>1, <3>2, <3>3 DEF OrderInv, PastInv, Live, cleanupSupersededConfigs
    <3>6. c.gen < e.gen
      BY <1>1, <3>4, <3>5 DEF Live, cleanupSupersededConfigs
    <3>7. e.seq # c.seq
      BY <3>3, <3>4, <3>6 DEF OrderInv
    <3>8. QED BY <3>1, <3>7
  <2>3. QED BY <2>1, <2>2
<1>2. CASE deleteAllConfigs
  <2>1. pc = "deleteAllConfigs" /\ snap.primaries = 0 /\ snap.generation <= e.gen
    BY <1>2 DEF deleteAllConfigs, ControlInv, Live
  <2>2. e.gen <= snap.generation /\ e.gen \in Nat /\ snap.generation \in Nat
    BY <2>1, ConfigFields, RedkeyFields DEF PastInv, Known, Live, TypeOK
  <2>3. e.primaries = 0
    BY <2>1, <2>2 DEF HistoryInv, Matches, Known, Live
  <2>4. QED BY <2>3
<1>3. CASE createNewConfig
  BY <1>3, FreshSequence
<1>4. CASE Robin
  <2>1. \E c \in configs : \E phase, status : SetPhase(c, phase, status)
    BY <1>4 DEF Robin, RobinStart, RobinSkip, RobinApply
  <2>2. \A c, phase, status : WithStatus(c, phase, status).gen = c.gen
    BY DEF WithStatus
  <2>3. QED BY <2>1, <2>2 DEF SetPhase
<1>5. CASE UNCHANGED configs
  BY <1>5
<1>6. QED
  BY <1>1, <1>2, <1>3, <1>4, <1>5, ConfigsWritten

-----------------------------------------------------------------------------
\* The order of sequences is the order of generations after every step.
LEMMA OrderStep ==
  ASSUME Base, [Next]_vars
  PROVE  OrderInv'
<1> USE DEF Base, OwnWritesInv
<1>0. snap.generation \in Nat /\ \A d \in Known : d.seq \in Nat /\ d.gen \in Nat
  BY ConfigFields, RedkeyFields DEF Known, TypeOK
<1>1. PICK n \in Nat : \A c \in Known' :
        \/ Old(c)
        \/ /\ c.seq = n /\ c.gen = snap.generation
           /\ \A d \in Known : d.seq < n /\ d.gen < snap.generation
  BY OneNewConfig
<1>2. SUFFICES ASSUME NEW c \in Known', NEW d \in Known'
               PROVE  /\ c.seq < d.seq => c.gen < d.gen
                      /\ c.seq = d.seq => c.gen = d.gen
  BY DEF OrderInv
<1>3. CASE Old(c) /\ Old(d)
  BY <1>3 DEF Old, OrderInv
<1>4. CASE Old(c) /\ ~Old(d)
  BY <1>0, <1>1, <1>4 DEF Old
<1>5. CASE ~Old(c) /\ Old(d)
  BY <1>0, <1>1, <1>5 DEF Old
<1>6. CASE ~Old(c) /\ ~Old(d)
  BY <1>1, <1>6
<1>7. QED BY <1>3, <1>4, <1>5, <1>6

\* No config gets ahead of the cached Redkey or of the snapshot.
LEMMA PastStep ==
  ASSUME Base, [Next]_vars
  PROVE  PastInv'
<1> USE DEF Base, OwnWritesInv
<1>0. /\ snap.generation \in Nat /\ cachedRedkey.generation \in Nat /\ redkey.generation \in Nat
      /\ \A d \in Known : d.gen \in Nat
  BY ConfigFields, RedkeyFields DEF Known, TypeOK
<1>1. SUFFICES ASSUME NEW c \in Known'
               PROVE  c.gen <= cachedRedkey'.generation /\ (Live' => c.gen <= snap'.generation)
  BY DEF PastInv
<1>2. /\ c.gen \in Nat /\ c.gen <= cachedRedkey.generation
      /\ Live => c.gen <= snap.generation
  <2>1. Old(c) \/ (c.gen = snap.generation /\ Live)
    BY OneNewConfig
  <2>2. CASE Old(c)
    BY <1>0, <2>2 DEF Old, PastInv
  <2>3. CASE c.gen = snap.generation /\ Live
    BY <1>0, <2>3 DEF GenerationInv
  <2>4. QED BY <2>1, <2>2, <2>3
<1> USE DEF Live
<1>3. CASE Reconcile
  BY <1>2, <1>3 DEF Reconcile, caches
<1>4. CASE aggregateStatus \/ updateStatusScaledToZero
  BY <1>2, <1>4 DEF aggregateStatus, updateStatusScaledToZero, Return, caches
<1>5. CASE SyncRedkey
  BY <1>0, <1>2, <1>5 DEF SyncRedkey, GenerationInv, locals
<1>6. CASE EditSpec
  BY <1>2, <1>6 DEF EditSpec, caches, locals
<1>7. CASE Proceeds
  BY <1>2, <1>7 DEF Proceeds
<1>8. CASE UNCHANGED <<redkey, cachedRedkey, pc, snap, specs>>
  BY <1>2, <1>8
<1>9. QED BY <1>3, <1>4, <1>5, <1>6, <1>7, <1>8, RedkeySteps

\* Which steps lead to clean-up.
LEMMA CleanupReached ==
  ASSUME [Next]_vars
  PROVE  \/ cleanupSupersededConfigs \/ listConfigs \/ relistConfigs
         \/ UNCHANGED <<pc, todo, view>> \/ pc' # "cleanupSupersededConfigs"
<1> USE DEF Return, Goto
<1>1. CASE Step
  BY <1>1 DEF Step, Reconcile, ZeroCase, ensureRBAC, ensureRobinDeployment, Ensure, AfterEnsure,
       createNewConfig, aggregateStatus, deleteRobinDeployment, deleteRBAC, deleteAllConfigs,
       updateStatusScaledToZero
<1>2. CASE ~Step
  BY <1>2 DEF Next, Abort, SyncRedkey, SyncConfigs, SyncRobin, EditSpec, Robin, RobinStart,
       RobinSkip, RobinApply, RobinTurn, locals, vars
<1>3. QED BY <1>1, <1>2

\* Clean-up takes the oldest first, so what it still has to delete keeps something
\* newer.
LEMMA CleanupStep ==
  ASSUME Base, [Next]_vars
  PROVE  CleanupInv'
<1> USE DEF Base, OwnWritesInv
<1>1. CASE cleanupSupersededConfigs
  <2>0. \A d \in todo \cup view : d.seq \in Nat
    BY ConfigFields DEF TypeOK
  <2>1. CASE todo = {}
    BY <1>1, <2>1 DEF cleanupSupersededConfigs, Goto, CleanupInv
  <2>2. CASE todo # {}
    <3>1. PICK c \in todo : IsFirst(c, todo) /\ todo' = todo \ {c} /\ view' = view
      BY <1>1, <2>2 DEF cleanupSupersededConfigs, DeleteConfig
    <3>2. SUFFICES ASSUME NEW d \in todo' PROVE \E e \in todo' \cup view' : d.seq < e.seq
      BY DEF CleanupInv
    <3>3. PICK e \in todo \cup view : d.seq < e.seq
      BY <1>1, <3>1 DEF cleanupSupersededConfigs, CleanupInv
    <3>4. e # c
      BY <2>0, <3>1, <3>3 DEF IsFirst
    <3>5. QED BY <3>1, <3>3, <3>4
  <2>3. QED BY <2>1, <2>2
<1>2. CASE listConfigs \/ relistConfigs
  BY <1>2 DEF listConfigs, relistConfigs, StartCleanup, superseded, InPhase, Return, CleanupInv
<1>3. CASE UNCHANGED <<pc, todo, view>>
  BY <1>3 DEF CleanupInv
<1>4. CASE pc' # "cleanupSupersededConfigs"
  BY <1>4 DEF CleanupInv
<1>5. QED BY <1>1, <1>2, <1>3, <1>4, CleanupReached

\* Which steps lead to the creation of a config.
LEMMA CreateReached ==
  ASSUME [Next]_vars
  PROVE  \/ Reconcile \/ ensureRBAC \/ ensureRobinDeployment \/ listConfigs
         \/ UNCHANGED <<pc, snap, view>> /\ (SyncConfigs \/ Robin \/ UNCHANGED <<configs, cachedConfigs>>)
         \/ pc' \notin {"createNewConfig", "ensureRBAC", "ensureRobinDeployment"}
<1> USE DEF Return, Goto
<1>1. CASE createNewConfig \/ relistConfigs \/ aggregateStatus \/ updateStatusScaledToZero
  BY <1>1 DEF createNewConfig, relistConfigs, StartCleanup, aggregateStatus, updateStatusScaledToZero
<1>2. CASE cleanupSupersededConfigs \/ deleteAllConfigs
  BY <1>2 DEF cleanupSupersededConfigs, deleteAllConfigs
<1>3. CASE deleteRobinDeployment \/ deleteRBAC \/ Abort
  BY <1>3 DEF deleteRobinDeployment, deleteRBAC, Abort
<1>4. CASE ~Step /\ ~Abort
  BY <1>4 DEF Next, SyncRedkey, SyncConfigs, SyncRobin, EditSpec, Robin, RobinStart, RobinSkip,
       RobinApply, RobinTurn, store, caches, locals, vars
<1>5. QED BY <1>1, <1>2, <1>3, <1>4 DEF Step

\* The list a config is created from stays complete while it is in use.
LEMMA ListStep ==
  ASSUME ReadsOwnWrites, Base, [Next]_vars
  PROVE  ListInv'
<1> USE DEF Base, OwnWritesInv
<1>0. snap.generation \in Nat /\ \A d \in Known : d.seq \in Nat /\ d.gen \in Nat
  BY ConfigFields, RedkeyFields DEF Known, TypeOK
<1>1. CASE Reconcile
  BY <1>1 DEF Reconcile, ZeroCase, ListIsCurrent, ListInv, store, caches
<1>2. CASE ensureRBAC
  BY <1>2 DEF ensureRBAC, Ensure, Return, Goto, ListInv, caches
<1>3. CASE ensureRobinDeployment
  <2>1. CASE pc' # "createNewConfig"
    BY <1>3, <2>1 DEF ensureRobinDeployment, Ensure, AfterEnsure, Return, Goto, ListInv
  <2>2. CASE pc' = "createNewConfig"
    <3>1. /\ snap.primaries = 0 /\ UNCHANGED <<snap, view, configs, cachedConfigs>>
          /\ pc = "ensureRobinDeployment"
          /\ \E c \in view : IsLatest(c, view) /\ c.primaries # 0
      BY <1>3, <2>2 DEF ensureRobinDeployment, Ensure, AfterEnsure, Return, Goto, caches
    <3>2. PICK c \in view : IsLatest(c, view) /\ c.primaries # 0
      BY <3>1
    <3>3. c.gen <= snap.generation /\ c.gen # snap.generation
      BY <3>1, <3>2 DEF PastInv, HistoryInv, Matches, Known, Live
    <3>4. ASSUME NEW d \in view PROVE d.gen < snap.generation
      <4>1. d.seq <= c.seq
        BY <3>2 DEF IsLatest
      <4>2. d.gen <= c.gen
        BY <1>0, <4>1 DEF OrderInv, Known
      <4>3. QED BY <1>0, <3>3, <4>2 DEF Known
    <3>5. QED BY <3>1, <3>4 DEF ListInv
  <2>3. QED BY <2>1, <2>2
<1>4. CASE listConfigs
  <2>1. CASE pc' # "createNewConfig"
    BY <1>4, <2>1 DEF listConfigs, StartCleanup, ListInv
  <2>2. CASE pc' = "createNewConfig"
    <3>1. /\ view' = cachedConfigs /\ UNCHANGED <<snap, configs, cachedConfigs>>
          /\ Seqs(configs) \subseteq Seqs(cachedConfigs)
          /\ \/ cachedConfigs = {}
             \/ \E c \in cachedConfigs : IsLatest(c, cachedConfigs) /\ needsNewConfig(snap, c)
      BY <1>4, <2>2 DEF listConfigs, StartCleanup, ListIsCurrent, store, caches
    <3>2. ASSUME NEW d \in cachedConfigs PROVE d.gen < snap.generation
      <4>1. PICK c \in cachedConfigs : IsLatest(c, cachedConfigs) /\ needsNewConfig(snap, c)
        BY <3>1
      <4>2. d.seq <= c.seq /\ c.gen < snap.generation
        BY <4>1 DEF IsLatest, needsNewConfig
      <4>3. d.gen <= c.gen
        BY <1>0, <4>2 DEF OrderInv, Known
      <4>4. QED BY <1>0, <4>2, <4>3 DEF Known
    <3>3. QED BY <3>1, <3>2 DEF ListInv
  <2>3. QED BY <2>1, <2>2
<1>5. CASE UNCHANGED <<pc, snap, view>> /\ SyncConfigs
  <2>1. Seqs(configs') \cup Seqs(cachedConfigs') \subseteq Seqs(configs) \cup Seqs(cachedConfigs)
    BY <1>5 DEF SyncConfigs, store
  <2>2. QED BY <1>5, <2>1 DEF ListInv
<1>6. CASE UNCHANGED <<pc, snap, view>> /\ Robin
  <2>1. cachedConfigs' = cachedConfigs
    BY <1>6 DEF Robin, RobinStart, RobinSkip, RobinApply, RobinTurn, caches
  <2>2. \E c \in configs : \E phase, status : SetPhase(c, phase, status)
    BY <1>6 DEF Robin, RobinStart, RobinSkip, RobinApply
  <2>3. \A c, phase, status : WithStatus(c, phase, status).seq = c.seq
    BY DEF WithStatus
  <2>4. Seqs(configs') \subseteq Seqs(configs)
    BY <2>2, <2>3 DEF SetPhase, Seqs
  <2>5. QED BY <1>6, <2>1, <2>4 DEF ListInv
<1>7. CASE UNCHANGED <<pc, snap, view, configs, cachedConfigs>>
  BY <1>7 DEF ListInv
<1>8. CASE pc' \notin {"createNewConfig", "ensureRBAC", "ensureRobinDeployment"}
  BY <1>8 DEF ListInv
<1>9. QED BY <1>1, <1>2, <1>3, <1>4, <1>5, <1>6, <1>7, <1>8, CreateReached

\* A covered generation that is current for someone stays covered.
LEMMA StaysCovered ==
  ASSUME Base, [Next]_vars,
         NEW g \in 1..Len(specs), specs[g] # 0, Covered(g), Live => snap.generation <= g
  PROVE  \E d \in configs' : d.gen = g
<1>1. PICK e \in configs : e.gen = g
  BY DEF Covered
<1>2. e.primaries # 0
  BY <1>1 DEF Base, HistoryInv, Known
<1>3. QED BY <1>1, <1>2, Survives

\* The cache changes only to what the store holds.
LEMMA CacheSteps ==
  ASSUME [Next]_vars
  PROVE  cachedConfigs' = cachedConfigs \/ cachedConfigs' = configs'
<1>1. CASE Step
  BY <1>1 DEF Step, Reconcile, ensureRBAC, ensureRobinDeployment, Ensure, listConfigs,
       createNewConfig, relistConfigs, cleanupSupersededConfigs, aggregateStatus,
       deleteRobinDeployment, deleteRBAC, deleteAllConfigs, updateStatusScaledToZero, caches
<1>2. CASE ~Step
  BY <1>2 DEF Next, Abort, SyncRedkey, SyncConfigs, SyncRobin, EditSpec, Robin, RobinStart,
       RobinSkip, RobinApply, RobinTurn, store, caches, vars
<1>3. QED BY <1>1, <1>2

\* Every generation someone will look for is one that someone looks for now.
LEMMA CurrentSteps ==
  ASSUME Base, [Next]_vars, NEW g \in Nat \ {0}, g <= cachedRedkey.generation,
         g \in {cachedRedkey'.generation, snap'.generation}
  PROVE  g \in {cachedRedkey.generation, snap.generation} /\ (Live => snap.generation <= g)
<1>0. /\ snap.generation \in Nat /\ cachedRedkey.generation \in Nat /\ redkey.generation \in Nat
      /\ NoRedkey.generation = 0
  BY RedkeyFields DEF Base, TypeOK, NoRedkey, NewRedkey, RedkeyWith
<1> USE <1>0 DEF Base, GenerationInv
<1>1. CASE Reconcile
  BY <1>1 DEF Reconcile, caches, Live
<1>2. CASE aggregateStatus \/ updateStatusScaledToZero
  BY <1>2 DEF aggregateStatus, updateStatusScaledToZero, Return, caches
<1>3. CASE SyncRedkey
  BY <1>3 DEF SyncRedkey, locals
<1>4. CASE EditSpec
  BY <1>4 DEF EditSpec, caches, locals
<1>5. CASE Proceeds
  BY <1>5 DEF Proceeds
<1>6. CASE UNCHANGED <<redkey, cachedRedkey, pc, snap, specs>>
  BY <1>6
<1>7. QED BY <1>1, <1>2, <1>3, <1>4, <1>5, <1>6, RedkeySteps

\* What the cache shows as covered is still covered after a step.
LEMMA CacheCoverStep ==
  ASSUME Base, [Next]_vars,
         NEW c \in cachedConfigs', c.primaries # 0,
         c.gen \in {cachedRedkey'.generation, snap'.generation}
  PROVE  \E d \in configs' : d.gen = c.gen
<1>1. CASE cachedConfigs' = configs'
  BY <1>1
<1>2. CASE cachedConfigs' = cachedConfigs
  <2>1. c \in Known
    BY <1>2 DEF Known
  <2>2. /\ c.gen \in 1..Len(specs) /\ specs[c.gen] # 0 /\ Len(specs) \in Nat
        /\ c.gen <= cachedRedkey.generation
    BY <2>1 DEF Base, HistoryInv, OwnWritesInv, PastInv, TypeOK
  <2>3. c.gen \in Nat \ {0}
    BY <2>2
  <2>4. /\ c.gen \in {cachedRedkey.generation, snap.generation}
        /\ Live => snap.generation <= c.gen
    BY <2>2, <2>3, CurrentSteps
  <2>5. Covered(c.gen)
    BY <1>2, <2>4 DEF Base, OwnWritesInv, CoverInv
  <2>6. QED BY <2>2, <2>4, <2>5, StaysCovered
<1>3. QED BY <1>1, <1>2, CacheSteps

\* A copy of the Redkey whose generation is observed stays covered, even when it is
\* no longer a copy anyone holds.
LEMMA CopyCovered ==
  ASSUME Base, [Next]_vars, NEW r \in {redkey, cachedRedkey, snap},
         r.primaries # 0, r.observedGeneration = r.generation
  PROVE  \E d \in configs' : d.gen = r.generation
<1> USE DEF Base
<1>1. Matches(r)
  <2>0. NoRedkey.primaries = 0
    BY DEF NoRedkey, NewRedkey, RedkeyWith
  <2>1. CASE r = snap /\ ~Live
    BY <2>0, <2>1 DEF ControlInv, Live
  <2>2. QED BY <2>1 DEF HistoryInv
<1>2. Live => snap.generation <= r.generation
  <2>1. /\ snap.generation \in Nat /\ cachedRedkey.generation \in Nat
        /\ redkey.generation \in Nat
    BY RedkeyFields DEF TypeOK
  <2>2. QED BY <2>1 DEF GenerationInv
<1>3. Covered(r.generation)
  BY DEF OwnWritesInv, CoverInv
<1>4. QED BY <1>1, <1>2, <1>3, StaysCovered DEF Matches

\* A status that says observed is only written, and only copied, for a generation
\* that is covered.
LEMMA StatusCoverStep ==
  ASSUME Base, [Next]_vars, NEW r \in {redkey', cachedRedkey', snap'},
         r.primaries # 0, r.observedGeneration = r.generation
  PROVE  \E d \in configs' : d.gen = r.generation
<1> USE DEF Base
<1>0. NoRedkey.primaries = 0
  BY DEF NoRedkey, NewRedkey, RedkeyWith
<1>1. CASE r \in {redkey, cachedRedkey, snap}
  BY <1>1, CopyCovered
<1>2. CASE r = NoRedkey
  BY <1>0, <1>2
<1>3. CASE aggregateStatus /\ r = redkey' /\ r # redkey
  <2>1. /\ configs' = configs /\ pc = "aggregateStatus"
        /\ r.generation = redkey.generation /\ r.primaries = redkey.primaries
        /\ r.observedGeneration = snap.generation
    BY <1>3 DEF aggregateStatus, AggregatedStatus, RedkeyWith
  <2>2. snap.primaries # 0 /\ snap.generation = r.generation
    BY <2>1 DEF HistoryInv, Matches, Live
  <2>3. QED BY <2>1, <2>2 DEF OwnWritesInv, CoverInv, Covered
<1>4. CASE updateStatusScaledToZero /\ r = redkey' /\ r # redkey
  BY <1>4 DEF updateStatusScaledToZero, RedkeyWith, ControlInv
<1>5. CASE EditSpec /\ r = redkey'
  <2>1. r.generation = redkey.generation + 1 /\ r.observedGeneration = redkey.observedGeneration
    BY <1>5, EditFields
  <2>2. redkey.generation \in Nat /\ redkey.observedGeneration \in Nat
    BY RedkeyFields DEF TypeOK
  <2>3. QED BY <2>1, <2>2 DEF GenerationInv
<1>6. QED
  <2>1. CASE Reconcile
    BY <1>1, <2>1 DEF Reconcile, store, caches
  <2>2. CASE aggregateStatus
    BY <1>1, <1>2, <1>3, <2>2 DEF aggregateStatus, Return, caches
  <2>3. CASE updateStatusScaledToZero
    BY <1>1, <1>2, <1>4, <2>3 DEF updateStatusScaledToZero, Return, caches
  <2>4. CASE SyncRedkey
    BY <1>1, <2>4 DEF SyncRedkey, store, locals
  <2>5. CASE EditSpec
    BY <1>1, <1>5, <2>5 DEF EditSpec, caches, locals
  <2>6. CASE Proceeds
    BY <1>1, <1>2, <2>6 DEF Proceeds
  <2>7. CASE UNCHANGED <<redkey, cachedRedkey, pc, snap, specs>>
    BY <1>1, <2>7
  <2>8. QED BY <2>1, <2>2, <2>3, <2>4, <2>5, <2>6, <2>7, RedkeySteps

\* Past the creation of a config, and until the status is written.
Aggregating == pc \in {"relistConfigs", "cleanupSupersededConfigs", "aggregateStatus"}

\* Which steps lead there.
LEMMA AggregationReached ==
  ASSUME [Next]_vars, Aggregating'
  PROVE  \/ ensureRobinDeployment \/ listConfigs \/ createNewConfig
         \/ Aggregating /\ snap' = snap
<1> USE DEF Return, Goto, Aggregating
<1>1. CASE Step
  BY <1>1 DEF Step, Reconcile, ZeroCase, ensureRBAC, Ensure, relistConfigs, StartCleanup,
       cleanupSupersededConfigs, aggregateStatus, deleteRobinDeployment, deleteRBAC,
       deleteAllConfigs, updateStatusScaledToZero
<1>2. CASE ~Step
  BY <1>2 DEF Next, Abort, SyncRedkey, SyncConfigs, SyncRobin, EditSpec, Robin, RobinStart,
       RobinSkip, RobinApply, RobinTurn, locals, vars
<1>3. QED BY <1>1, <1>2

\* The reconcile only gets to its status write when its generation is covered.
LEMMA ReconcileCoverStep ==
  ASSUME Base, [Next]_vars, Aggregating', snap'.primaries # 0
  PROVE  \E d \in configs' : d.gen = snap'.generation
<1> USE DEF Base
<1>0. snap.generation \in Nat /\ snap.observedGeneration \in Nat
  BY RedkeyFields DEF TypeOK
<1>1. CASE ensureRobinDeployment
  BY <1>1 DEF ensureRobinDeployment, Ensure, AfterEnsure, Return, Goto, Aggregating
<1>2. CASE listConfigs
  <2>1. /\ snap.primaries # 0 /\ snap' = snap /\ configs' = configs /\ pc = "listConfigs"
        /\ \E c \in cachedConfigs : ~needsNewConfig(snap, c)
    BY <1>2 DEF listConfigs, StartCleanup, ControlInv, Aggregating, store
  <2>2. PICK c \in cachedConfigs : ~needsNewConfig(snap, c)
    BY <2>1
  <2>3. c.gen \in Nat /\ c.gen <= snap.generation /\ c.primaries = specs[c.gen]
    BY <2>1, ConfigFields DEF TypeOK, OwnWritesInv, PastInv, HistoryInv, Known, Live
  <2>4. CASE c.gen = snap.generation
    <3>1. c.primaries # 0
      BY <2>1, <2>3, <2>4 DEF HistoryInv, Matches, Live
    <3>2. QED BY <2>1, <2>4, <3>1 DEF OwnWritesInv, CoverInv, Covered
  <2>5. CASE snap.observedGeneration = snap.generation
    BY <2>1, <2>5 DEF OwnWritesInv, CoverInv, Covered
  <2>6. snap.observedGeneration <= snap.generation
    BY DEF GenerationInv
  <2>7. c.gen = snap.generation \/ snap.observedGeneration = snap.generation
    BY <1>0, <2>2, <2>3, <2>6 DEF needsNewConfig
  <2>8. QED BY <2>4, <2>5, <2>7
<1>3. CASE createNewConfig
  <2>1. snap' = snap
    BY <1>3 DEF createNewConfig, Return, Aggregating
  <2>2. PICK n \in Nat : NewConfig(n) \in configs'
    BY <1>3, FreshSequence
  <2>3. NewConfig(n).gen = snap.generation
    BY DEF NewConfig
  <2>4. QED BY <2>1, <2>2, <2>3
<1>4. CASE Aggregating /\ snap' = snap
  <2>1. Covered(snap.generation) /\ Live
    BY <1>4 DEF OwnWritesInv, CoverInv, Aggregating, Live
  <2>2. snap.generation \in 1..Len(specs) /\ specs[snap.generation] # 0
    BY <1>4, <2>1 DEF HistoryInv, Matches
  <2>3. QED BY <1>0, <1>4, <2>1, <2>2, StaysCovered
<1>5. QED BY <1>1, <1>2, <1>3, <1>4, AggregationReached

-----------------------------------------------------------------------------
\* The whole invariant is kept by every step of the system.
THEOREM OwnWritesKept == ASSUME ReadsOwnWrites PROVE Spec => []OwnWritesInv
<1>1. Init => OwnWritesInv
  <2> SUFFICES ASSUME Init PROVE OwnWritesInv
    OBVIOUS
  <2>1. PICK p \in Edits[1] : redkey = NewRedkey(1, p)
    BY DEF Init
  <2>2. /\ redkey.observedGeneration = 0 /\ redkey.generation = 1
        /\ NoRedkey.primaries = 0
    BY <2>1 DEF NewRedkey, NoRedkey, RedkeyWith
  <2>3. Known = {} /\ pc = "idle" /\ snap = NoRedkey /\ cachedRedkey = redkey
    BY DEF Init, Known
  <2>4. OrderInv /\ PastInv /\ ListInv /\ CleanupInv
    BY <2>3 DEF OrderInv, PastInv, ListInv, CleanupInv
  <2>5. CoverInv
    BY <2>2, <2>3 DEF CoverInv, Known
  <2>6. QED BY <2>4, <2>5 DEF OwnWritesInv
<1>2. Base /\ [Next]_vars => OwnWritesInv'
  <2> SUFFICES ASSUME Base, [Next]_vars PROVE OwnWritesInv'
    OBVIOUS
  <2>1. CoverInv'
    <3>1. \A c \in cachedConfigs' :
            c.primaries # 0 /\ c.gen \in {cachedRedkey'.generation, snap'.generation}
              => \E d \in configs' : d.gen = c.gen
      BY CacheCoverStep
    <3>2. \A r \in {redkey', cachedRedkey', snap'} :
            r.primaries # 0 /\ r.observedGeneration = r.generation
              => \E d \in configs' : d.gen = r.generation
      BY StatusCoverStep
    <3>3. Aggregating' /\ snap'.primaries # 0 => \E d \in configs' : d.gen = snap'.generation
      BY ReconcileCoverStep
    <3>4. QED BY <3>1, <3>2, <3>3 DEF CoverInv, Covered, Aggregating
  <2>2. QED BY <2>1, OrderStep, PastStep, ListStep, CleanupStep DEF OwnWritesInv
<1>3. QED
  BY <1>1, <1>2, TypeCorrect, GenerationsOrdered, HistoryKept, ControlKept, PTL DEF Spec, Base

\* With lists that hold every config the operator has created, sequence order is
\* generation order, so Robin applies the edits in the order the user made them.
THEOREM EditsInOrder == ASSUME ReadsOwnWrites PROVE Spec => []SequenceFollowsGeneration
<1>1. OwnWritesInv => SequenceFollowsGeneration
  BY DEF OwnWritesInv, OrderInv, SequenceFollowsGeneration, Known
<1>2. QED BY <1>1, OwnWritesKept, PTL

\* With such lists no edit is lost: a generation reported as observed has its
\* config, and it is the latest one.
THEOREM NoEditLost == ASSUME ReadsOwnWrites PROVE Spec => []ObservedHasConfig
<1>1. TypeOK /\ GenerationInv /\ OwnWritesInv => ObservedHasConfig
  <2> SUFFICES ASSUME TypeOK, GenerationInv, OwnWritesInv,
                      redkey.primaries # 0, redkey.observedGeneration = redkey.generation
               PROVE  \E c \in configs : IsLatest(c, configs) /\ c.gen = redkey.generation
    BY DEF ObservedHasConfig
  <2>1. PICK c \in configs : c.gen = redkey.generation
    BY DEF OwnWritesInv, CoverInv, Covered
  <2>2. redkey.generation \in Nat /\ cachedRedkey.generation \in Nat
    BY RedkeyFields DEF TypeOK
  <2>3. ASSUME NEW d \in configs PROVE d.seq <= c.seq
    <3>1. d.seq \in Nat /\ c.seq \in Nat /\ d.gen \in Nat
      BY ConfigFields DEF TypeOK
    <3>2. d.gen <= cachedRedkey.generation
      BY DEF OwnWritesInv, PastInv, Known
    <3>3. d.gen <= c.gen
      BY <2>1, <2>2, <3>1, <3>2 DEF GenerationInv
    <3>4. c.seq < d.seq => c.gen < d.gen
      BY DEF OwnWritesInv, OrderInv, Known
    <3>5. QED BY <2>1, <2>2, <3>1, <3>3, <3>4
  <2>4. QED BY <2>1, <2>3 DEF IsLatest
<1>2. QED BY <1>1, TypeCorrect, GenerationsOrdered, OwnWritesKept, PTL
=============================================================================
