-------------------------- MODULE RedkeyReconciler --------------------------
(***************************************************************************)
(* The reconciler of one Redkey (internal/controller/redkey_controller.go, *)
(* redkey_config.go, redkey_scale_zero.go) against the API server, its own *)
(* informer caches, the user who edits the spec, and Robin, the external   *)
(* agent that applies RedkeyConfigs.                                       *)
(*                                                                         *)
(* Every call that reaches the API server is a step of its own, so spec    *)
(* edits, Robin's status writes, cache refreshes and failures fall between *)
(* any two of them.  Get and List read the caches; there is one per kind   *)
(* of object and they lag independently.  The work queue runs at most one  *)
(* reconcile per Redkey at a time, so there is one program counter.        *)
(***************************************************************************)
EXTENDS RedkeyConfigs, Sequences

CONSTANTS
  Edits,             \* Edits[g] = spec.primaries values a user may ask for in
                     \* generation g (0 = scale to zero); its length bounds the edits
  Ephemeral,         \* spec.ephemeral (immutable)
  SkipIfSuperseded,  \* spec.skipIfSuperseded
  ReadsOwnWrites,    \* TRUE: a list holds every config the operator has created
  ReportedStatuses,  \* status.status values Robin reports with an Applied config
  MaxAborts          \* bound on failed reconciles

ASSUME ConstantsAssumption ==
  /\ Edits \in Seq(SUBSET Nat) /\ Len(Edits) > 0
  /\ Ephemeral \in BOOLEAN /\ SkipIfSuperseded \in BOOLEAN /\ ReadsOwnWrites \in BOOLEAN
  /\ ReportedStatuses \subseteq ConfigStatuses
  /\ MaxAborts \in Nat

VARIABLES
  \* API server
  redkey,         \* the Redkey object
  configs,        \* the RedkeyConfig objects
  robin,          \* which of Robin's objects exist
  \* the manager's informer caches
  cachedRedkey, cachedConfigs, cachedRobin,
  \* the running reconcile
  pc,             \* the call it is about to make
  snap,           \* `cluster', as read at its start
  view,           \* `configs', as last listed, while it is still used
  todo,           \* configs it still has to delete
  aborts,         \* failed reconciles so far
  \* history
  specs,          \* specs[g] = spec.primaries of generation g
  applied,        \* non-zero topologies Robin has applied
  data            \* the last of them: the topology of the data on disk

store == <<redkey, configs, robin>>
caches == <<cachedRedkey, cachedConfigs, cachedRobin>>
locals == <<pc, snap, view, todo>>
history == <<specs, applied, data>>
vars == <<store, caches, locals, aborts, history>>

-----------------------------------------------------------------------------
Redkey == [generation: Nat, primaries: Nat, observedGeneration: Nat,
           phase: {"", "Ready", "Configuring", "Error"},
           reason: {"", "StatusAggregated", "ScaledToZero"},
           lastApplied: Nat]

RedkeyWith(generation, primaries, observedGeneration, phase, reason, lastApplied) ==
  [generation |-> generation, primaries |-> primaries,
   observedGeneration |-> observedGeneration, phase |-> phase, reason |-> reason,
   lastApplied |-> lastApplied]

NewRedkey(generation, primaries) == RedkeyWith(generation, primaries, 0, "", "", 0)

NoRedkey == NewRedkey(0, 0)

RobinObjects == {"RBAC", "Deployment"}

PCs == {"idle", "ensureRBAC", "ensureRobinDeployment", "listConfigs", "createNewConfig",
        "relistConfigs", "cleanupSupersededConfigs", "aggregateStatus",
        "deleteRobinDeployment", "deleteRBAC", "deleteAllConfigs",
        "updateStatusScaledToZero"}

Init ==
  /\ \E p \in Edits[1] : redkey = NewRedkey(1, p) /\ specs = <<p>>
  /\ configs = {} /\ robin = {}
  /\ cachedRedkey = redkey /\ cachedConfigs = {} /\ cachedRobin = {}
  /\ pc = "idle" /\ snap = NoRedkey /\ view = {} /\ todo = {}
  /\ aborts = 0
  /\ applied = {} /\ data = 0

-----------------------------------------------------------------------------
\* The end of Reconcile, by return or by error.
Return == pc' = "idle" /\ snap' = NoRedkey /\ view' = {} /\ todo' = {}

Goto(label) == pc' = label /\ UNCHANGED <<snap, view, todo>>

ListIsCurrent == ReadsOwnWrites => Seqs(configs) \subseteq Seqs(cachedConfigs)

\* What reconcileScaleToZero does next, its list being `listed'.
ZeroCase(listed) ==
  IF listed = {}
  THEN "updateStatusScaledToZero"                                         \* Case A
  ELSE IF \E c \in listed : IsLatest(c, listed) /\ c.primaries = 0 /\ c.phase = "Applied"
       THEN "deleteRobinDeployment"                                       \* Case C
       ELSE "ensureRBAC"                                                  \* Cases B, D

\* Get the Redkey; primaries = 0 goes to reconcileScaleToZero, which lists first.
Reconcile ==
  /\ pc = "idle"
  /\ snap' = cachedRedkey
  /\ \/ /\ cachedRedkey.primaries # 0
        /\ pc' = "ensureRBAC"
        /\ UNCHANGED view
     \/ /\ cachedRedkey.primaries = 0
        /\ ListIsCurrent
        /\ pc' = ZeroCase(cachedConfigs)
        /\ view' = IF pc' = "ensureRBAC" THEN cachedConfigs ELSE {}
  /\ UNCHANGED <<store, caches, todo, aborts, history>>

\* Create what the cache does not have.  When the cache is behind, Create answers
\* AlreadyExists, which is an error here.  The ServiceAccount, Role and RoleBinding
\* count as one object, there when all are; an object that is there and is patched
\* stays there (RobinObjects has its content).
Ensure(object, next) ==
  /\ IF object \in cachedRobin
     THEN Goto(next) /\ UNCHANGED robin
     ELSE IF object \in robin
          THEN Return /\ UNCHANGED robin
          ELSE Goto(next) /\ robin' = robin \cup {object}
  /\ UNCHANGED <<redkey, configs, caches, aborts, history>>

ensureRBAC == pc = "ensureRBAC" /\ Ensure("RBAC", "ensureRobinDeployment")

\* Where the three callers go on: Reconcile, Case B, Case D.
AfterEnsure ==
  IF snap.primaries # 0
  THEN "listConfigs"
  ELSE IF \E c \in view : IsLatest(c, view) /\ c.primaries # 0
       THEN "createNewConfig"
       ELSE "aggregateStatus"

ensureRobinDeployment ==
  /\ pc = "ensureRobinDeployment"
  /\ Ensure("Deployment", AfterEnsure)

\* Start of cleanupSupersededConfigs: what to delete and what it will return.
StartCleanup(listed) ==
  /\ pc' = "cleanupSupersededConfigs"
  /\ todo' = superseded(listed)
  /\ view' = listed \ superseded(listed)
  /\ UNCHANGED snap

\* Variant: the latest config is not compared with the spec.
listConfigsNoCompare ==
  /\ pc = "listConfigs"
  /\ ListIsCurrent
  /\ pc' = "createNewConfig"
  /\ view' = cachedConfigs
  /\ UNCHANGED <<store, caches, snap, todo, aborts, history>>

listConfigs ==
  /\ pc = "listConfigs"
  /\ ListIsCurrent
  /\ \/ /\ \/ cachedConfigs = {}
           \/ \E c \in cachedConfigs : IsLatest(c, cachedConfigs) /\ needsNewConfig(snap, c)
        /\ pc' = "createNewConfig"
        /\ view' = cachedConfigs
        /\ UNCHANGED <<snap, todo>>
     \/ /\ \E c \in cachedConfigs : IsLatest(c, cachedConfigs) /\ ~needsNewConfig(snap, c)
        /\ StartCleanup(cachedConfigs)
  /\ UNCHANGED <<store, caches, aborts, history>>

\* Variant: the spec is taken from the live object, the annotation from the snapshot.
NewConfigFromLive(seq) == [seq |-> seq, gen |-> snap.generation, primaries |-> redkey.primaries,
                           phase |-> "Pending", status |-> ""]

\* Variant: the phase is left empty instead of reading as Pending.
NewConfigNoPhase(seq) == [seq |-> seq, gen |-> snap.generation, primaries |-> snap.primaries,
                          phase |-> "", status |-> ""]

NewConfig(seq) == [seq |-> seq, gen |-> snap.generation, primaries |-> snap.primaries,
                   phase |-> "Pending", status |-> ""]

\* Variant: the name does not carry the sequence, so Create never fails.
CreateAnyName(seq) == configs' = configs \cup {NewConfig(seq)}

\* The name carries the sequence, so Create fails with AlreadyExists when the list
\* was behind and the sequence is taken; that is reported as success.
Create(seq) ==
  configs' = IF seq \in Seqs(configs) THEN configs ELSE configs \cup {NewConfig(seq)}

createNewConfig ==
  /\ pc = "createNewConfig"
  /\ IF view = {} THEN Create(1)
                  ELSE \E c \in view : IsLatest(c, view) /\ Create(c.seq + 1)
  /\ IF snap.primaries = 0
     THEN Return
     ELSE pc' = "relistConfigs" /\ view' = {} /\ UNCHANGED <<snap, todo>>
  /\ UNCHANGED <<redkey, robin, caches, aborts, history>>

relistConfigs ==
  /\ pc = "relistConfigs"
  /\ ListIsCurrent
  /\ IF cachedConfigs = {} THEN Return ELSE StartCleanup(cachedConfigs)
  /\ UNCHANGED <<store, caches, aborts, history>>

\* Delete addresses an object by name; one that is already gone is skipped.
DeleteConfig(c) ==
  /\ configs' = {d \in configs : d.seq # c.seq}
  /\ todo' = todo \ {c}

cleanupSupersededConfigs ==
  /\ pc = "cleanupSupersededConfigs"
  /\ \/ \E c \in todo : IsFirst(c, todo) /\ DeleteConfig(c) /\ UNCHANGED <<pc, snap, view>>
     \/ todo = {} /\ Goto("aggregateStatus") /\ UNCHANGED configs
  /\ UNCHANGED <<redkey, robin, caches, aborts, history>>

\* Variant: a topology is recorded before it is applied.
LastAppliedEager(latest, active) ==
  IF ~Ephemeral /\ active.primaries > 0 THEN active.primaries ELSE latest.lastApplied

\* The topology to record in status.lastApplied*, never cleared.
LastApplied(latest, active) ==
  IF ~Ephemeral /\ active.phase = "Applied" /\ active.primaries > 0
  THEN active.primaries ELSE latest.lastApplied

\* Variants: the generation of the re-read object, or of the active config, is
\* reported as observed.
AggregatedStatusOfLatest(latest, active) ==
  RedkeyWith(latest.generation, latest.primaries, latest.generation,
             computePhaseFromConditions(aggregateConditions(active)), "StatusAggregated",
             LastApplied(latest, active))

AggregatedStatusOfActive(latest, active) ==
  RedkeyWith(latest.generation, latest.primaries, active.gen,
             computePhaseFromConditions(aggregateConditions(active)), "StatusAggregated",
             LastApplied(latest, active))

AggregatedStatus(latest, active) ==
  RedkeyWith(latest.generation, latest.primaries, snap.generation,
             computePhaseFromConditions(aggregateConditions(active)), "StatusAggregated",
             LastApplied(latest, active))

\* Get, modify and Update inside RetryOnConflict.  A copy that differs from the
\* stored object conflicts: the closure is run again, which is to wait here for
\* the cache, until the retries are used up.
aggregateStatus ==
  /\ pc = "aggregateStatus"
  /\ \/ /\ cachedRedkey = redkey
        /\ \E active \in view :
             /\ selectActiveConfig(active, view)
             /\ redkey' = AggregatedStatus(cachedRedkey, active)
        /\ Return
     \/ cachedRedkey # redkey /\ Return /\ UNCHANGED redkey
  /\ UNCHANGED <<configs, robin, caches, aborts, history>>

-----------------------------------------------------------------------------
\* Variant: the Deployment is left behind.
keepRobinDeployment ==
  /\ pc = "deleteRobinDeployment"
  /\ Goto("deleteRBAC")
  /\ UNCHANGED <<store, caches, aborts, history>>

\* Case C of reconcileScaleToZero.
deleteRobinDeployment ==
  /\ pc = "deleteRobinDeployment"
  /\ robin' = robin \ {"Deployment"}
  /\ Goto("deleteRBAC")
  /\ UNCHANGED <<redkey, configs, caches, aborts, history>>

\* Variant: only the superseded configs are deleted.
deleteRBACThenSuperseded ==
  /\ pc = "deleteRBAC"
  /\ ListIsCurrent
  /\ robin' = robin \ {"RBAC"}
  /\ todo' = superseded(cachedConfigs)
  /\ pc' = "deleteAllConfigs"
  /\ UNCHANGED <<redkey, configs, caches, snap, view, aborts, history>>

\* ... followed by the list deleteAllConfigs begins with.
deleteRBAC ==
  /\ pc = "deleteRBAC"
  /\ ListIsCurrent
  /\ robin' = robin \ {"RBAC"}
  /\ todo' = cachedConfigs
  /\ pc' = "deleteAllConfigs"
  /\ UNCHANGED <<redkey, configs, caches, snap, view, aborts, history>>

\* A cache lists in no particular order.
deleteAllConfigs ==
  /\ pc = "deleteAllConfigs"
  /\ \/ \E c \in todo : DeleteConfig(c) /\ UNCHANGED <<pc, snap, view>>
     \/ todo = {} /\ Goto("updateStatusScaledToZero") /\ UNCHANGED configs
  /\ UNCHANGED <<redkey, robin, caches, aborts, history>>

\* One Update of the copy read at the start: a conflict is an error, not retried.
updateStatusScaledToZero ==
  /\ pc = "updateStatusScaledToZero"
  /\ redkey' = IF snap = redkey
               THEN RedkeyWith(snap.generation, snap.primaries, snap.generation,
                               "Ready", "ScaledToZero", snap.lastApplied)
               ELSE redkey
  /\ Return
  /\ UNCHANGED <<configs, robin, caches, aborts, history>>

\* A call fails, or the operator stops: the reconcile ends where it is, with what
\* it has done so far.  A call that took effect but whose answer was lost is the
\* step of that call followed by this one.
Abort ==
  /\ pc # "idle"
  /\ aborts < MaxAborts
  /\ aborts' = aborts + 1
  /\ Return
  /\ UNCHANGED <<store, caches, history>>

-----------------------------------------------------------------------------
SyncRedkey == /\ cachedRedkey # redkey
              /\ cachedRedkey' = redkey
              /\ UNCHANGED <<store, cachedConfigs, cachedRobin, locals, aborts, history>>

SyncConfigs == /\ cachedConfigs # configs
               /\ cachedConfigs' = configs
               /\ UNCHANGED <<store, cachedRedkey, cachedRobin, locals, aborts, history>>

SyncRobin == /\ cachedRobin # robin
             /\ cachedRobin' = robin
             /\ UNCHANGED <<store, cachedRedkey, cachedConfigs, locals, aborts, history>>

\* The admission rule on Redkey for storage clusters.
TopologyLock(p) ==
  \/ Ephemeral \/ redkey.primaries # 0 \/ p = 0
  \/ redkey.lastApplied = 0 \/ p = redkey.lastApplied

\* A spec edit: a new topology or, with p unchanged, any other field.
EditSpec ==
  /\ redkey.generation < Len(Edits)
  /\ \E p \in Edits[redkey.generation + 1] :
       /\ TopologyLock(p)
       /\ redkey' = RedkeyWith(redkey.generation + 1, p, redkey.observedGeneration,
                               redkey.phase, redkey.reason, redkey.lastApplied)
       /\ specs' = Append(specs, p)
  /\ UNCHANGED <<configs, robin, caches, locals, aborts, applied, data>>

-----------------------------------------------------------------------------
\* Robin runs when its Deployment and its permissions exist, and works on the
\* configs in sequence order, one at a time.
SetPhase(c, phase, status) ==
  configs' = (configs \ {c}) \cup {WithStatus(c, phase, status)}

Unfinished == {c \in configs : ~isTerminalConfigPhase(c.phase)}

RobinTurn(c, phase) ==
  /\ robin = RobinObjects
  /\ c.phase = phase
  /\ IsFirst(c, Unfinished)
  /\ UNCHANGED <<redkey, robin, caches, locals, aborts, specs>>

RobinStart ==
  \E c \in configs :
    /\ RobinTurn(c, "Pending")
    /\ SetPhase(c, "InProgress", "Operating")
    /\ UNCHANGED <<applied, data>>

RobinSkip ==
  \E c \in configs :
    /\ SkipIfSuperseded
    /\ RobinTurn(c, "Pending")
    /\ \E d \in InPhase(configs, "Pending") : c.seq < d.seq
    /\ SetPhase(c, "Superseded", c.status)
    /\ UNCHANGED <<applied, data>>

RobinApply ==
  \E c \in configs, status \in ReportedStatuses :
    /\ RobinTurn(c, "InProgress")
    /\ SetPhase(c, "Applied", status)
    /\ applied' = applied \cup ({c.primaries} \ {0})
    /\ data' = IF c.primaries = 0 THEN data ELSE c.primaries

-----------------------------------------------------------------------------
Step ==
  \/ Reconcile \/ ensureRBAC \/ ensureRobinDeployment \/ listConfigs
  \/ createNewConfig \/ relistConfigs \/ cleanupSupersededConfigs \/ aggregateStatus
  \/ deleteRobinDeployment \/ deleteRBAC \/ deleteAllConfigs \/ updateStatusScaledToZero

Robin == RobinStart \/ RobinSkip \/ RobinApply

Next == Step \/ Abort \/ SyncRedkey \/ SyncConfigs \/ SyncRobin \/ EditSpec \/ Robin

Spec == Init /\ [][Next]_vars

\* The queue runs a queued or requeued key, informers catch up, and Robin finishes
\* what it starts; users and failures owe nothing.
Fairness == WF_vars(Step) /\ WF_vars(Robin)
            /\ WF_vars(SyncRedkey) /\ WF_vars(SyncConfigs) /\ WF_vars(SyncRobin)

FairSpec == Spec /\ Fairness

-----------------------------------------------------------------------------
\* Every variable has its type.
TypeOK ==
  /\ redkey \in Redkey /\ cachedRedkey \in Redkey /\ snap \in Redkey
  /\ configs \subseteq Config /\ cachedConfigs \subseteq Config
  /\ view \subseteq Config /\ todo \subseteq Config
  /\ robin \subseteq RobinObjects /\ cachedRobin \subseteq RobinObjects
  /\ pc \in PCs
  /\ aborts \in Nat
  /\ specs \in Seq(Nat)
  /\ applied \subseteq Nat /\ data \in Nat

\* createNewConfig copies spec and generation from one snapshot: a config holds
\* exactly what the user asked for in the generation its annotation names, however
\* far the live spec has moved on by the time it is created.
ConfigsCarryTheirGeneration ==
  \A c \in configs : c.gen \in 1..Len(specs) /\ c.primaries = specs[c.gen]

\* sort.Slice is not stable, and the code takes the last of a sorted list and the
\* first one in progress.  Whatever the age of the list, and although sequences are
\* used again after a scale to zero, there is always exactly one such config.
ListsDecide ==
  \A list \in {configs, cachedConfigs, view} : list # {} =>
    /\ \E c \in list : \A d \in list : IsLatest(d, list) <=> d = c
    /\ \E c \in list : \A d \in list : selectActiveConfig(d, list) <=> d = c

\* status.lastAppliedPrimaries, which admission trusts, only ever names a topology
\* that Robin has applied, never the target of a scaling still under way.
LastAppliedIsReal == redkey.lastApplied \in applied \cup {0}

\* Across the writes of aggregateStatus and updateStatusScaledToZero, whatever the
\* age of the copies they start from, status.observedGeneration never goes back
\* and never runs ahead of metadata.generation.
ObservedGenerationAdvances ==
  [][/\ redkey.observedGeneration <= redkey'.observedGeneration
     /\ redkey'.observedGeneration <= redkey'.generation]_vars

\* Robin applies configs in sequence order, so the order must be the one of the
\* edits: a higher sequence belongs to a later generation (and, since
\* needsNewConfig reads the annotation, no generation has two configs).
SequenceFollowsGeneration ==
  \A c, d \in configs : c.seq < d.seq => c.gen < d.gen

\* No generation is lost: once aggregateStatus reports the current generation as
\* observed, which stops needsNewConfig from asking for a config, the latest
\* config is the one of that generation.
ObservedHasConfig ==
  redkey.primaries # 0 /\ redkey.observedGeneration = redkey.generation
    => \E c \in configs : IsLatest(c, configs) /\ c.gen = redkey.generation

\* cleanupSupersededConfigs, working from a list that may be old, only removes
\* configs Robin has finished with, and always leaves a newer Applied baseline.
CleanupKeepsWork ==
  [][\A c \in configs :
       pc = "cleanupSupersededConfigs" /\ c.seq \notin Seqs(configs')
         => /\ isTerminalConfigPhase(c.phase)
            /\ \E d \in configs : c.seq < d.seq /\ d.phase = "Applied"]_vars

\* updateStatusScaledToZero first reports ScaledToZero when every config is gone.
ScaledToZeroHasNoConfigs ==
  [][redkey'.reason = "ScaledToZero" /\ redkey.reason # "ScaledToZero" => configs = {}]_vars

\* The last edit has taken effect and the status says so: one config, Applied, for
\* the current generation; or no config at all when it scaled to zero.
Settled ==
  /\ redkey.observedGeneration = redkey.generation
  /\ IF redkey.primaries = 0
     THEN configs = {} /\ redkey.reason = "ScaledToZero"
     ELSE /\ redkey.phase \in {"Ready", "Error"}
          /\ \E c \in configs : configs = {c} /\ c.gen = redkey.generation /\ c.phase = "Applied"

\* A reconcile that reads what is stored finds nothing to do, and neither does Robin.
NothingToDo ==
  /\ Unfinished = {}
  /\ \/ /\ redkey.primaries = 0 /\ configs = {}
        /\ redkey = RedkeyWith(redkey.generation, redkey.primaries, redkey.generation,
                               "Ready", "ScaledToZero", redkey.lastApplied)
     \/ /\ robin = RobinObjects
        /\ \E c \in configs :
             /\ IsLatest(c, configs)
             /\ IF redkey.primaries = 0 THEN c.primaries = 0 /\ c.phase # "Applied"
                                        ELSE ~needsNewConfig(redkey, c) /\ superseded(configs) = {}
        /\ \E active \in configs :
             /\ selectActiveConfig(active, configs)
             /\ redkey = RedkeyWith(redkey.generation, redkey.primaries, redkey.generation,
                                    computePhaseFromConditions(aggregateConditions(active)),
                                    "StatusAggregated", LastApplied(redkey, active))

\* The caches are up to date, there is nothing to do, and the reconcile that may be
\* running started from that.
AtRest ==
  /\ cachedRedkey = redkey /\ cachedConfigs = configs /\ cachedRobin = robin
  /\ NothingToDo
  /\ pc # "idle" =>
       /\ snap = redkey /\ todo = {}
       /\ pc \in {"ensureRBAC", "ensureRobinDeployment", "listConfigs",
                  "cleanupSupersededConfigs", "aggregateStatus", "updateStatusScaledToZero"}
       /\ pc = "updateStatusScaledToZero" <=> configs = {}
       /\ snap.primaries = 0 \/ pc \in {"cleanupSupersededConfigs", "aggregateStatus"}
            => view = configs

\* Scaled to zero while the newest config there is was skipped: Case D waits for Robin,
\* and Robin has nothing to do.
Stranded ==
  redkey.primaries = 0 /\ \E c \in configs :
                            IsLatest(c, configs) /\ c.primaries = 0 /\ c.phase = "Superseded"

\* The loop does not come to rest too early: when nobody has anything left to do, the
\* last edit has taken effect, except where Stranded says so.
RestIsSettled == AtRest => Settled \/ Stranded

\* At rest, the reconciles after every ResyncInterval create and delete nothing, and
\* write the status there is (with another lastUpdatedAt, which is left out here),
\* however they are cut short, until the next edit.
RestIsKept ==
  [][AtRest /\ redkey'.generation = redkey.generation => AtRest' /\ UNCHANGED store]_vars

\* When edits and failures stop, the reconcile loop settles for good.
Converges == <>[]Settled

\* A cluster left at zero primaries ends without Robin: Case C of
\* reconcileScaleToZero deletes its objects and nothing brings them back.
ScaledToZeroReleasesRobin == <>[](redkey.primaries = 0 => robin = {})

-----------------------------------------------------------------------------
\* What comments and documents say of the code, and the code does not do.

\* docs/redkey-cluster-status.md: "Ready means the highest-sequence RedkeyConfig
\* was applied".  aggregateStatus reads selectActiveConfig instead.
ReadyMeansLatestApplied ==
  redkey.phase = "Ready" /\ redkey.observedGeneration = redkey.generation /\ redkey.primaries # 0
    => \E c \in configs : IsLatest(c, configs) /\ c.phase = "Applied"

\* RedkeyStatus: LastAppliedPrimaries is "always persisted BEFORE any
\* scale-to-zero", so a scale-up from zero restores the topology on disk.
LockIsRaceFree ==
  [][~Ephemeral /\ redkey.primaries = 0 /\ redkey'.primaries # 0 /\ data # 0
       => redkey'.primaries = data]_vars
=============================================================================
