--------------------------- MODULE RedkeyDeletion ---------------------------
(***************************************************************************)
(* RedkeyReconciler for a Redkey that is deleted, and may be created again *)
(* under its name (internal/controller/redkey_controller.go).  The         *)
(* operator has no finalizer: what it created carries an owner reference,  *)
(* and Kubernetes removes it some time after its owner.  Until then the    *)
(* next Redkey, whose generations start over, finds it in its lists: they  *)
(* select by name, and nothing in the operator looks at an owner.          *)
(*                                                                         *)
(* The actions are those of RedkeyReconciler with the identities added.    *)
(* A Redkey that does not exist has uid 0 and is NoRedkey.  Failed         *)
(* reconciles are left to RedkeyReconciler.                                *)
(***************************************************************************)
EXTENDS RedkeyReconciler

CONSTANT Lives   \* Lives[u] = what may be asked of the u-th Redkey of the name, by
                 \* generation, within Edits; the last of them is not deleted

ASSUME LivesAssumption ==
  Lives \in Seq(Seq(SUBSET Nat)) /\ \A u \in 1..Len(Lives) : Len(Lives[u]) > 0

VARIABLES
  uid,                  \* identity of the stored Redkey
  cachedUid, snapUid,   \* ... of its cached copy, of the snapshot of the reconcile
  owners,               \* owners[s] = uid in the owner reference of config s, 0 for none
  robinOwners,          \* ... of Robin's objects
  past                  \* history: specs of the Redkeys deleted so far

identities == <<uid, cachedUid, snapUid, owners, robinOwners, past>>

DeletionInit ==
  /\ Init /\ redkey.primaries \in Lives[1][1]
  /\ uid = 1 /\ cachedUid = 1 /\ snapUid = 0
  /\ owners = << >> /\ robinOwners = << >> /\ past = << >>

-----------------------------------------------------------------------------
\* Variant: no owner reference is set.
OwnedUnset(objects, by) == [x \in objects |-> IF x \in DOMAIN by THEN by[x] ELSE 0]

\* SetControllerReference: what a step creates belongs to the Redkey of the snapshot.
\* A patch leaves the owner as it is.
Owned(objects, by) == [x \in objects |-> IF x \in DOMAIN by THEN by[x] ELSE snapUid]

Carried ==
  /\ owners' = Owned(Seqs(configs'), owners)
  /\ robinOwners' = Owned(robin', robinOwners)
  /\ snapUid' = IF pc' = "idle" THEN 0 ELSE snapUid
  /\ UNCHANGED <<uid, cachedUid, past>>

\* The reconcile of a Redkey that is not found ends at once; only its metrics go.
ReconcileNotFound == pc = "idle" /\ cachedUid = 0 /\ UNCHANGED <<vars, identities>>

ReconcileFound ==
  /\ cachedUid # 0
  /\ Reconcile
  /\ snapUid' = cachedUid
  /\ UNCHANGED <<uid, cachedUid, owners, robinOwners, past>>

\* A status update of a Redkey that has gone, or was replaced, fails.
Refused(label) ==
  /\ pc = label
  /\ Return
  /\ UNCHANGED <<store, caches, aborts, history>>
  /\ Carried

\* The Redkey is read again by name: it may be another one than that of the snapshot.
AggregateFound ==
  \/ uid # 0 /\ cachedUid = uid /\ aggregateStatus /\ Carried
  \/ ~(uid # 0 /\ cachedUid = uid) /\ Refused("aggregateStatus")

ZeroStatusFound ==
  \/ snapUid = uid /\ updateStatusScaledToZero /\ Carried
  \/ snapUid # uid /\ Refused("updateStatusScaledToZero")

OwnedStep ==
  \/ ensureRBAC \/ ensureRobinDeployment \/ listConfigs \/ createNewConfig \/ relistConfigs
  \/ cleanupSupersededConfigs \/ deleteRobinDeployment \/ deleteRBAC \/ deleteAllConfigs

DeletionStep == ReconcileNotFound \/ ReconcileFound \/ AggregateFound \/ ZeroStatusFound
                \/ (OwnedStep /\ Carried)

-----------------------------------------------------------------------------
DeleteRedkey ==
  /\ uid # 0 /\ uid < Len(Lives)
  /\ redkey' = NoRedkey /\ uid' = 0
  /\ past' = Append(past, specs) /\ specs' = << >>
  /\ UNCHANGED <<configs, robin, caches, locals, aborts, applied, data, cachedUid, snapUid,
                 owners, robinOwners>>

\* A new Redkey of the same name.
CreateRedkey ==
  /\ uid = 0
  /\ uid' = Len(past) + 1
  /\ \E p \in Lives[uid'][1] : redkey' = NewRedkey(1, p) /\ specs' = <<p>>
  /\ UNCHANGED <<configs, robin, caches, locals, aborts, applied, data, cachedUid, snapUid,
                 owners, robinOwners, past>>

EditRedkey ==
  /\ uid # 0 /\ redkey.generation < Len(Lives[uid])
  /\ EditSpec
  /\ redkey'.primaries \in Lives[uid][redkey'.generation]
  /\ UNCHANGED identities

\* The garbage collector removes, one by one, objects with an owner that does not exist.
CollectGarbage ==
  /\ \/ \E c \in configs : owners[c.seq] \notin {0, uid} /\ configs' = configs \ {c} /\ UNCHANGED robin
     \/ \E x \in robin : robinOwners[x] \notin {0, uid} /\ robin' = robin \ {x} /\ UNCHANGED configs
  /\ UNCHANGED <<redkey, caches, locals, aborts, history>>
  /\ Carried

SyncIdentity ==
  /\ <<cachedRedkey, cachedUid>> # <<redkey, uid>>
  /\ cachedRedkey' = redkey /\ cachedUid' = uid
  /\ UNCHANGED <<store, cachedConfigs, cachedRobin, locals, aborts, history, uid, snapUid,
                 owners, robinOwners, past>>

SyncOwned == (SyncConfigs \/ SyncRobin) /\ UNCHANGED identities

DeletionRobin == Robin /\ Carried

DeletionNext ==
  \/ DeletionStep \/ DeleteRedkey \/ CreateRedkey \/ EditRedkey
  \/ CollectGarbage \/ SyncIdentity \/ SyncOwned \/ DeletionRobin

allVars == <<vars, identities>>

\* As in RedkeyReconciler; the garbage collector works, deleting and creating owe nothing.
DeletionSpec ==
  /\ DeletionInit /\ [][DeletionNext]_allVars
  /\ WF_allVars(DeletionStep) /\ WF_allVars(DeletionRobin) /\ WF_allVars(CollectGarbage)
  /\ WF_allVars(SyncIdentity)
  /\ WF_allVars(SyncConfigs /\ UNCHANGED identities)
  /\ WF_allVars(SyncRobin /\ UNCHANGED identities)

-----------------------------------------------------------------------------
SpecsOf(u) == IF u = uid THEN specs ELSE past[u]

\* A config holds what was asked for in its generation of the Redkey that owns it, though
\* another Redkey may have taken the name while the reconcile was under way.
OwnedConfigsFaithful ==
  \A c \in configs : LET asked == SpecsOf(owners[c.seq])
                     IN  c.gen \in 1..Len(asked) /\ c.primaries = asked[c.gen]

\* "Owned resources are garbage collected automatically": a Redkey deleted for good takes
\* everything with it, also what a reconcile created that was under way.
DeletedLeavesNothing == <>[](uid = 0 => configs = {} /\ robin = {})


-----------------------------------------------------------------------------
\* RedkeyStatus: "ObservedGeneration is the most recent generation observed", so it is one
\* the Redkey has had.  aggregateStatus reports that of its snapshot, on the Redkey it
\* finds under the name.
ObservedGenerationExists == redkey.observedGeneration <= redkey.generation
=============================================================================
