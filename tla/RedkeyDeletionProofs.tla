------------------------ MODULE RedkeyDeletionProofs ------------------------
(***************************************************************************)
(* Proofs about RedkeyDeletion, for every value of its constants: however  *)
(* often the Redkey is deleted and created again, wherever that falls in a *)
(* reconcile, a config is true to the Redkey that owns it.                 *)
(***************************************************************************)
EXTENDS RedkeyDeletion, RedkeyReconcilerProofs

\* Generation g of the Redkey with identity u, one there is or was, asked for p.
Asked(u, g, p) ==
  /\ u \in 1..Len(past) \/ (u # 0 /\ u = uid)
  /\ g \in 1..Len(SpecsOf(u)) /\ p = SpecsOf(u)[g]

\* Identities are given out in order, and every copy of a Redkey and every config goes
\* with the identity it belongs to.
OwnerInv ==
  /\ past \in Seq(Seq(Nat)) /\ uid \in {0, Len(past) + 1}
  /\ uid = 0 => Len(past) < Len(Lives)
  /\ uid # 0 => redkey.generation = Len(specs) /\ Asked(uid, redkey.generation, redkey.primaries)
  /\ cachedUid # 0 => Asked(cachedUid, cachedRedkey.generation, cachedRedkey.primaries)
  /\ Live => Asked(snapUid, snap.generation, snap.primaries)
  /\ DOMAIN owners = Seqs(configs)
  /\ \A c \in configs : Asked(owners[c.seq], c.gen, c.primaries)

\* A step that leaves identities, specs and the cached Redkey as they are, and goes on
\* with its snapshot or ends.
Works ==
  /\ Carried /\ UNCHANGED <<cachedRedkey, specs>>
  /\ redkey'.generation = redkey.generation /\ redkey'.primaries = redkey.primaries
  /\ pc' = "idle" \/ (snap' = snap /\ Live)

\* A step that concerns neither the Redkey nor the configs, nor who owns them.
Rests == UNCHANGED <<redkey, configs, cachedRedkey, pc, snap, specs, identities>>

-----------------------------------------------------------------------------
\* The status writes leave spec and generation alone, also when they are refused.
LEMMA WritesWork ==
  ASSUME AggregateFound \/ ZeroStatusFound
  PROVE  Works
<1> USE DEF Works
<1>1. CASE \E label \in {"aggregateStatus", "updateStatusScaledToZero"} : Refused(label)
  BY <1>1 DEF Refused, Return, store, caches, history
<1>2. CASE aggregateStatus /\ Carried
  BY <1>2 DEF aggregateStatus, AggregatedStatus, RedkeyWith, Return, caches, history
<1>3. CASE updateStatusScaledToZero /\ Carried
  BY <1>3 DEF updateStatusScaledToZero, RedkeyWith, Return, caches, history
<1>4. QED BY <1>1, <1>2, <1>3 DEF AggregateFound, ZeroStatusFound

\* So do the other calls of a reconcile.
LEMMA OwnedWork ==
  ASSUME OwnedStep, Carried
  PROVE  Works
<1> USE DEF Works, Return, Goto, Live
<1>1. CASE ensureRBAC \/ ensureRobinDeployment
  BY <1>1 DEF ensureRBAC, ensureRobinDeployment, Ensure, caches, history
<1>2. CASE listConfigs \/ relistConfigs
  BY <1>2 DEF listConfigs, relistConfigs, StartCleanup, store, caches, history
<1>3. CASE createNewConfig \/ cleanupSupersededConfigs
  BY <1>3 DEF createNewConfig, cleanupSupersededConfigs, caches, history
<1>4. CASE deleteRobinDeployment \/ deleteRBAC \/ deleteAllConfigs
  BY <1>4 DEF deleteRobinDeployment, deleteRBAC, deleteAllConfigs, caches, history
<1>5. QED BY <1>1, <1>2, <1>3, <1>4 DEF OwnedStep

\* Every step is one of these.
LEMMA DeletionSteps ==
  ASSUME [DeletionNext]_allVars
  PROVE  ReconcileFound \/ DeleteRedkey \/ CreateRedkey \/ EditRedkey \/ SyncIdentity
         \/ Works \/ Rests
<1>1. CASE DeletionStep
  <2>1. CASE ReconcileNotFound
    BY <2>1 DEF ReconcileNotFound, Rests, vars, store, caches, locals, history
  <2>2. QED BY <1>1, <2>1, WritesWork, OwnedWork DEF DeletionStep
<1>2. CASE CollectGarbage \/ DeletionRobin
  BY <1>2 DEF CollectGarbage, DeletionRobin, Robin, RobinStart, RobinSkip, RobinApply, RobinTurn,
     Works, Live, caches, locals, history
<1>3. CASE SyncOwned
  BY <1>3 DEF SyncOwned, SyncConfigs, SyncRobin, Rests, store, locals, history
<1>4. CASE UNCHANGED allVars
  BY <1>4 DEF allVars, vars, store, caches, locals, history, Rests
<1>5. QED BY <1>1, <1>2, <1>3, <1>4 DEF DeletionNext

\* Where the configs that are there after a step come from: they were there, perhaps
\* with another status, or the reconcile has created them under a free sequence.
LEMMA ConfigOrigins ==
  ASSUME TypeOK, [DeletionNext]_allVars, NEW c \in configs'
  PROVE  \/ \E d \in configs : c.seq = d.seq /\ c.gen = d.gen /\ c.primaries = d.primaries
         \/ /\ Live /\ c.seq \notin Seqs(configs)
            /\ c.gen = snap.generation /\ c.primaries = snap.primaries
<1>1. CASE c \in configs
  BY <1>1
<1>2. CASE createNewConfig
  <2>1. PICK n : Create(n)
    BY <1>2 DEF createNewConfig
  <2>2. CASE c = NewConfig(n) /\ n \notin Seqs(configs)
    <3>1. c.seq = n /\ c.gen = snap.generation /\ c.primaries = snap.primaries
      BY <2>2 DEF NewConfig
    <3>2. QED BY <1>2, <2>2, <3>1 DEF createNewConfig, Live
  <2>3. QED BY <1>1, <2>1, <2>2 DEF Create
<1>3. CASE Robin
  <2>1. PICK d \in configs : \E phase, status : SetPhase(d, phase, status)
    BY <1>3 DEF Robin, RobinStart, RobinSkip, RobinApply
  <2>2. QED BY <2>1 DEF SetPhase, WithStatus
<1>4. CASE cleanupSupersededConfigs \/ deleteAllConfigs
  BY <1>1, <1>4 DEF cleanupSupersededConfigs, deleteAllConfigs, DeleteConfig
<1>5. CASE CollectGarbage
  BY <1>1, <1>5 DEF CollectGarbage
<1>6. CASE UNCHANGED configs
  BY <1>1, <1>6
<1>7. CASE OwnedStep
  <2>1. CASE ensureRBAC \/ ensureRobinDeployment \/ listConfigs \/ relistConfigs
             \/ deleteRobinDeployment \/ deleteRBAC
    BY <1>6, <2>1 DEF ensureRBAC, ensureRobinDeployment, Ensure, listConfigs, relistConfigs,
       deleteRobinDeployment, deleteRBAC, store
  <2>2. QED BY <1>2, <1>4, <1>7, <2>1 DEF OwnedStep
<1>8. CASE DeletionStep
  <2>1. CASE ReconcileNotFound \/ ReconcileFound \/ AggregateFound \/ ZeroStatusFound
    BY <1>6, <2>1 DEF ReconcileNotFound, ReconcileFound, Reconcile, AggregateFound,
       ZeroStatusFound, Refused, aggregateStatus, updateStatusScaledToZero, vars, store
  <2>2. QED BY <1>7, <1>8, <2>1 DEF DeletionStep
<1>9. CASE DeleteRedkey \/ CreateRedkey \/ EditRedkey \/ SyncIdentity \/ SyncOwned
           \/ UNCHANGED allVars
  BY <1>6, <1>9 DEF DeleteRedkey, CreateRedkey, EditRedkey, EditSpec, SyncIdentity, SyncOwned,
     SyncConfigs, SyncRobin, allVars, vars, store
<1>10. QED BY <1>3, <1>5, <1>8, <1>9 DEF DeletionNext, DeletionRobin

\* What was asked once stays on record: an edit adds to it, and a deletion files it.
LEMMA AskedStays ==
  ASSUME TypeOK, OwnerInv, [DeletionNext]_allVars, NEW u, NEW g, NEW p, Asked(u, g, p)
  PROVE  Asked(u, g, p)'
<1> USE DEF Asked, SpecsOf
<1>1. CASE DeleteRedkey
  <2>1. past' = Append(past, specs) /\ uid' = 0 /\ past \in Seq(Seq(Nat)) /\ specs \in Seq(Nat)
    BY <1>1 DEF DeleteRedkey, OwnerInv, TypeOK
  <2>2. /\ Len(past') = Len(past) + 1 /\ Len(past) \in Nat /\ past'[Len(past) + 1] = specs
        /\ \A i \in 1..Len(past) : past'[i] = past[i] /\ i \in 1..Len(past')
    BY <2>1
  <2>3. uid = Len(past) + 1
    BY <1>1 DEF DeleteRedkey, OwnerInv
  <2>4. CASE u = uid
    BY <2>1, <2>2, <2>3, <2>4
  <2>5. CASE u # uid
    BY <2>1, <2>2, <2>5
  <2>6. QED BY <2>4, <2>5
<1>2. CASE CreateRedkey
  <2>1. uid = 0 /\ uid' = Len(past) + 1 /\ past' = past /\ Len(past) \in Nat
    BY <1>2 DEF CreateRedkey, OwnerInv
  <2>2. u \in 1..Len(past) /\ u # uid /\ u # uid'
    BY <2>1
  <2>3. QED BY <2>1, <2>2
<1>3. CASE EditRedkey
  <2>1. PICK q : specs' = Append(specs, q)
    BY <1>3 DEF EditRedkey, EditSpec
  <2>2. UNCHANGED <<uid, past>>
    BY <1>3 DEF EditRedkey, identities
  <2>3. CASE u = uid
    <3>1. g \in 1..Len(specs) /\ p = specs[g]
      BY <2>3
    <3>2. specs \in Seq(Nat) /\ Len(specs) \in Nat
      BY DEF TypeOK
    <3>3. Len(specs') = Len(specs) + 1 /\ specs'[g] = specs[g]
      BY <2>1, <3>1, <3>2
    <3>4. QED BY <2>2, <2>3, <3>1, <3>2, <3>3
  <2>4. QED BY <2>2, <2>3
<1>4. CASE ReconcileFound \/ SyncIdentity \/ Works \/ Rests
  BY <1>4 DEF ReconcileFound, Reconcile, SyncIdentity, Works, Carried, Rests, identities, history
<1>5. QED BY <1>1, <1>2, <1>3, <1>4, DeletionSteps

\* Types are kept as in RedkeyReconciler, also while there is no Redkey.
LEMMA DeletionTypes ==
  ASSUME TypeOK, OwnerInv, [DeletionNext]_allVars
  PROVE  TypeOK'
<1>0. NoRedkey \in Redkey
  BY DEF NoRedkey, NewRedkey, RedkeyWith, Redkey
<1>1. CASE [Next]_vars
  BY <1>1, TypeStep
<1>2. CASE DeleteRedkey
  BY <1>0, <1>2 DEF DeleteRedkey, TypeOK, caches, locals
<1>3. CASE CreateRedkey
  <2>1. uid' \in 1..Len(Lives)
    <3>1. Len(Lives) \in Nat /\ Len(past) \in Nat
      BY LivesAssumption DEF LivesAssumption, OwnerInv
    <3>2. uid' = Len(past) + 1 /\ Len(past) < Len(Lives)
      BY <1>3 DEF CreateRedkey, OwnerInv
    <3>3. QED BY <3>1, <3>2
  <2>2. PICK p \in Lives[uid'][1] : redkey' = NewRedkey(1, p) /\ specs' = <<p>>
    BY <1>3 DEF CreateRedkey
  <2>3. Lives[uid'] \in Seq(SUBSET Nat) /\ Len(Lives[uid']) > 0
    BY <2>1, LivesAssumption DEF LivesAssumption
  <2>4. Lives[uid'][1] \subseteq Nat
    BY <2>3
  <2>5. p \in Nat
    BY <2>2, <2>4
  <2>6. redkey' \in Redkey
    BY <2>2, <2>5 DEF NewRedkey, RedkeyWith, Redkey
  <2>7. specs' \in Seq(Nat)
    BY <2>2, <2>5
  <2>8. QED BY <1>3, <2>6, <2>7 DEF CreateRedkey, TypeOK, caches, locals
<1>4. CASE \E label \in {"aggregateStatus", "updateStatusScaledToZero"} : Refused(label)
  BY <1>0, <1>4 DEF Refused, Return, TypeOK, PCs, store, caches, history
<1>5. CASE CollectGarbage
  BY <1>5 DEF CollectGarbage, TypeOK, caches, locals, history
<1>6. CASE SyncIdentity
  BY <1>6 DEF SyncIdentity, TypeOK, store, locals, history
<1>7. CASE DeletionStep
  BY <1>1, <1>4, <1>7 DEF DeletionStep, ReconcileNotFound, ReconcileFound, AggregateFound,
     ZeroStatusFound, OwnedStep, Next, Step
<1>8. CASE EditRedkey \/ SyncOwned \/ DeletionRobin \/ UNCHANGED allVars
  BY <1>1, <1>8 DEF EditRedkey, SyncOwned, DeletionRobin, allVars, Next
<1>9. QED BY <1>2, <1>3, <1>5, <1>6, <1>7, <1>8 DEF DeletionNext

\* Identities stay in order, and the copies of the Redkey true to theirs.
LEMMA CopiesKept ==
  ASSUME TypeOK, OwnerInv, [DeletionNext]_allVars
  PROVE  /\ past' \in Seq(Seq(Nat)) /\ uid' \in {0, Len(past') + 1}
         /\ uid' = 0 => Len(past') < Len(Lives)
         /\ uid' # 0 => /\ redkey'.generation = Len(specs')
                        /\ Asked(uid, redkey.generation, redkey.primaries)'
         /\ cachedUid' # 0 => Asked(cachedUid, cachedRedkey.generation, cachedRedkey.primaries)'
         /\ Live' => Asked(snapUid, snap.generation, snap.primaries)'
<1>0. \A u, g, p : Asked(u, g, p) => Asked(u, g, p)'
  BY AskedStays
<1>1. CASE ReconcileFound
  BY <1>0, <1>1 DEF ReconcileFound, Reconcile, OwnerInv, store, caches, history
<1>2. CASE DeleteRedkey
  <2>1. /\ past' = Append(past, specs) /\ uid' = 0 /\ past \in Seq(Seq(Nat))
        /\ specs \in Seq(Nat)
    BY <1>2 DEF DeleteRedkey, OwnerInv, TypeOK
  <2>2. past' \in Seq(Seq(Nat)) /\ Len(past') = Len(past) + 1 /\ Len(past) \in Nat
    BY <2>1
  <2>3. uid = Len(past) + 1 /\ uid < Len(Lives)
    BY <1>2 DEF DeleteRedkey, OwnerInv
  <2>4. QED
    BY <1>0, <1>2, <2>1, <2>2, <2>3 DEF DeleteRedkey, OwnerInv, Live, caches, locals
<1>3. CASE CreateRedkey
  <2>1. uid' = Len(past) + 1 /\ past' = past /\ Len(past) \in Nat
    BY <1>3 DEF CreateRedkey, OwnerInv
  <2>2. PICK p : redkey' = NewRedkey(1, p) /\ specs' = <<p>>
    BY <1>3 DEF CreateRedkey
  <2>3. redkey'.generation = 1 /\ redkey'.primaries = p /\ Len(specs') = 1 /\ specs'[1] = p
    BY <2>2 DEF NewRedkey, RedkeyWith
  <2>4. Asked(uid, redkey.generation, redkey.primaries)'
    <3>1. uid' # 0 /\ SpecsOf(uid)' = specs'
      BY <2>1 DEF SpecsOf
    <3>2. redkey'.generation \in 1..Len(specs') /\ redkey'.primaries = specs'[redkey'.generation]
      BY <2>3
    <3>3. QED BY <3>1, <3>2 DEF Asked
  <2>5. QED
    BY <1>0, <1>3, <2>1, <2>3, <2>4 DEF CreateRedkey, OwnerInv, Live, caches, locals
<1>4. CASE EditRedkey
  <2>1. PICK p : /\ redkey' = RedkeyWith(redkey.generation + 1, p, redkey.observedGeneration,
                                         redkey.phase, redkey.reason, redkey.lastApplied)
                 /\ specs' = Append(specs, p)
    BY <1>4 DEF EditRedkey, EditSpec
  <2>2. redkey'.generation = redkey.generation + 1 /\ redkey'.primaries = p
    BY <2>1 DEF RedkeyWith
  <2>3. specs \in Seq(Nat) /\ Len(specs) \in Nat /\ redkey.generation = Len(specs)
    BY <1>4 DEF EditRedkey, OwnerInv, TypeOK
  <2>4. Len(specs') = Len(specs) + 1 /\ specs'[Len(specs) + 1] = p
    BY <2>1, <2>3
  <2>5. uid # 0 /\ UNCHANGED identities
    BY <1>4 DEF EditRedkey
  <2>6. Asked(uid, redkey.generation, redkey.primaries)'
    BY <2>2, <2>3, <2>4, <2>5 DEF Asked, SpecsOf, identities
  <2>7. QED
    BY <1>0, <1>4, <2>2, <2>3, <2>4, <2>5, <2>6
    DEF EditRedkey, EditSpec, OwnerInv, Live, identities, caches, locals
<1>5. CASE SyncIdentity
  BY <1>0, <1>5 DEF SyncIdentity, OwnerInv, Live, store, locals, history
<1>6. CASE Works
  BY <1>0, <1>6 DEF Works, Carried, OwnerInv, Live
<1>7. CASE Rests
  BY <1>0, <1>7 DEF Rests, identities, OwnerInv, Live
<1>8. QED BY <1>1, <1>2, <1>3, <1>4, <1>5, <1>6, <1>7, DeletionSteps

\* An object keeps its owner; one that is created gets that of the snapshot.
LEMMA OwnersKept ==
  ASSUME TypeOK, OwnerInv, [DeletionNext]_allVars
  PROVE  /\ DOMAIN owners' = Seqs(configs')
         /\ \A c \in configs' : owners'[c.seq] = IF c.seq \in Seqs(configs)
                                                THEN owners[c.seq] ELSE snapUid
<1>0. \A c \in configs' : c.seq \in Seqs(configs')
  BY DEF Seqs
<1>1. CASE Carried
  BY <1>0, <1>1 DEF Carried, Owned, OwnerInv
<1>2. CASE UNCHANGED <<configs, owners>>
  BY <1>0, <1>2 DEF OwnerInv, Seqs
<1>3. QED
  BY <1>1, <1>2, DeletionSteps DEF ReconcileFound, Reconcile, DeleteRedkey, CreateRedkey,
     EditRedkey, EditSpec, SyncIdentity, Works, Rests, identities, store

\* OwnerInv is inductive.
LEMMA OwnerStep ==
  ASSUME TypeOK, OwnerInv, [DeletionNext]_allVars
  PROVE  OwnerInv'
<1>1. ASSUME NEW c \in configs' PROVE Asked(owners[c.seq], c.gen, c.primaries)'
  <2>1. PICK u : u = owners'[c.seq]
    OBVIOUS
  <2>2. Asked(u, c.gen, c.primaries)
    <3>1. CASE \E d \in configs : c.seq = d.seq /\ c.gen = d.gen /\ c.primaries = d.primaries
      BY <1>1, <2>1, <3>1, OwnersKept DEF OwnerInv, Seqs
    <3>2. CASE /\ Live /\ c.seq \notin Seqs(configs)
               /\ c.gen = snap.generation /\ c.primaries = snap.primaries
      BY <1>1, <2>1, <3>2, OwnersKept DEF OwnerInv
    <3>3. QED BY <1>1, <3>1, <3>2, ConfigOrigins
  <2>3. Asked(u, c.gen, c.primaries)'
    BY <2>2, AskedStays
  <2>4. QED BY <2>1, <2>3 DEF Asked, SpecsOf
<1>2. QED BY <1>1, CopiesKept, OwnersKept DEF OwnerInv

\* However often the Redkey is deleted and created again under its name, every copy of
\* it and every config goes with the identity it belongs to.
THEOREM OwnersRight == DeletionSpec => [](TypeOK /\ OwnerInv)
<1>1. DeletionInit => TypeOK /\ OwnerInv
  <2> SUFFICES ASSUME DeletionInit PROVE TypeOK /\ OwnerInv
    OBVIOUS
  <2>1. TypeOK /\ HistoryInv
    BY TypeInit, HistoryInit DEF DeletionInit
  <2>2. /\ past = << >> /\ uid = 1 /\ cachedUid = 1 /\ owners = << >>
        /\ cachedRedkey = redkey /\ configs = {} /\ ~Live
    BY DEF DeletionInit, Init, Live
  <2>3. /\ past \in Seq(Seq(Nat)) /\ Len(past) = 0
        /\ DOMAIN owners = Seqs(configs)
    BY <2>2 DEF Seqs
  <2>4. Asked(uid, redkey.generation, redkey.primaries) /\ redkey.generation = Len(specs)
    BY <2>1, <2>2 DEF HistoryInv, Matches, Asked, SpecsOf
  <2>5. QED BY <2>1, <2>2, <2>3, <2>4 DEF OwnerInv
<1>2. TypeOK /\ OwnerInv /\ [DeletionNext]_allVars => TypeOK' /\ OwnerInv'
  BY DeletionTypes, OwnerStep
<1>3. QED BY <1>1, <1>2, PTL DEF DeletionSpec

\* A config holds what was asked of the Redkey that owns it, though another one may have
\* taken the name before, while or after createNewConfig made it.
THEOREM OwnedFaithful == DeletionSpec => []OwnedConfigsFaithful
<1>1. OwnerInv => OwnedConfigsFaithful
  BY DEF OwnerInv, Asked, OwnedConfigsFaithful
<1>2. QED BY <1>1, OwnersRight, PTL
=============================================================================
