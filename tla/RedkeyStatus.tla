---------------------------- MODULE RedkeyStatus ----------------------------
(***************************************************************************)
(* RedkeyReconciler with the fields of Redkey.status that nothing in the   *)
(* loop reads but users and admission do: the health conditions mirrored   *)
(* from Robin's reports, status.replicas, and the second half of the       *)
(* recorded topology, lastAppliedReplicasPerPrimary                        *)
(* (internal/controller/redkey_config.go, redkey_scale_zero.go,            *)
(* api/v1beta1/redkey_types.go).                                           *)
(*                                                                         *)
(* The actions are those of RedkeyReconciler with the new fields added.    *)
(* spec.primaries is now the number of primaries alone; replicasPerPrimary *)
(* of a generation is rpps[generation], which is also that of its config:  *)
(* createNewConfig copies both with the generation from one snapshot.  The *)
(* six health conditions are treated alike; one stands for them.  Failed   *)
(* reconciles leave these fields alone and are left to RedkeyReconciler.   *)
(***************************************************************************)
EXTENDS RedkeyReconciler, Functions, TLC

CONSTANTS
  Replicas,    \* Replicas[g] = spec.replicasPerPrimary values a user may ask for in
               \* generation g, as Edits[g] has those of spec.primaries
  Reported,    \* status of the health condition that Robin may report
  MaxReports   \* bound on Robin's health reports

ASSUME StatusAssumption ==
  \A g \in 1..Len(Edits) : Replicas[g] \subseteq Nat

VARIABLES
  details,                          \* the new fields of the stored Redkey
  cachedDetails, snapDetails,       \* ... of its cached copy, of the snapshot
  reports,                          \* health that Robin reports on a config, by sequence
  cachedReports, viewReports,       \* ... in the cache, in the list of the reconcile
  rpps,                             \* rpps[g] = spec.replicasPerPrimary of generation g
  sent,                             \* reports so far
  appliedPairs                      \* history: the topologies Robin has applied

copies == <<cachedDetails, cachedReports>>
statusVars == <<vars, details, cachedDetails, snapDetails, reports, cachedReports, viewReports,
                rpps, sent, appliedPairs>>

NoDetails == [health |-> "none", replicas |-> 0, lastAppliedReplicas |-> 0]

StatusInit ==
  /\ Init
  /\ details = NoDetails /\ cachedDetails = NoDetails /\ snapDetails = NoDetails
  /\ reports = << >> /\ cachedReports = << >> /\ viewReports = << >>
  /\ \E r \in Replicas[1] : rpps = <<r>>
  /\ sent = 0 /\ appliedPairs = {}

-----------------------------------------------------------------------------
\* A deleted config takes its reports with it; local copies end with their use.
ReportsKept == reports' = Restrict(reports, DOMAIN reports \cap Seqs(configs'))
SnapKept == snapDetails' = IF pc' = "idle" THEN NoDetails ELSE snapDetails
ViewKept == viewReports' = IF view' = {} THEN << >> ELSE viewReports
ViewListed == viewReports' = IF view' = {} THEN << >> ELSE cachedReports

\* A step of the reconcile that does not touch the new fields.
Plain == ReportsKept /\ SnapKept /\ ViewKept /\ UNCHANGED <<details, copies, rpps, sent, appliedPairs>>

\* Get and List return whole objects.
ReconcileDetails ==
  /\ Reconcile
  /\ snapDetails' = cachedDetails /\ ViewListed
  /\ UNCHANGED <<details, copies, reports, rpps, sent, appliedPairs>>

ListDetails ==
  /\ listConfigs \/ relistConfigs
  /\ SnapKept /\ ViewListed
  /\ UNCHANGED <<details, copies, reports, rpps, sent, appliedPairs>>

\* Variant: a condition that is there already is not written again.
aggregateHealthOnce(active) ==
  IF details.health # "none" THEN details.health
  ELSE IF /\ isTerminalConfigPhase(active.phase) /\ active.status = "Ready"
          /\ active.seq \in DOMAIN viewReports
       THEN viewReports[active.seq] ELSE "Unknown"

\* Robin refreshes its report only when the config is settled; otherwise, and without
\* a report, the condition is Unknown.
aggregateHealthConditions(active) ==
  IF /\ isTerminalConfigPhase(active.phase) /\ active.status = "Ready"
     /\ active.seq \in DOMAIN viewReports
  THEN viewReports[active.seq] ELSE "Unknown"

\* The other half of LastApplied.
LastAppliedReplicas(latest, active) ==
  IF ~Ephemeral /\ active.phase = "Applied" /\ active.primaries > 0
  THEN rpps[active.gen] ELSE latest.lastAppliedReplicas

AggregatedDetails(latest, active) ==
  [health |-> aggregateHealthConditions(active), replicas |-> redkey.primaries,
   lastAppliedReplicas |-> LastAppliedReplicas(latest, active)]

\* As in RedkeyReconciler a copy that differs from the stored object conflicts, now
\* also when it differs in the new fields only.
AggregateDetails ==
  \/ /\ cachedDetails = details
     /\ aggregateStatus
     /\ IF cachedRedkey = redkey
        THEN \E active \in view : /\ selectActiveConfig(active, view)
                                  /\ redkey' = AggregatedStatus(cachedRedkey, active)
                                  /\ details' = AggregatedDetails(cachedDetails, active)
        ELSE UNCHANGED details
     /\ SnapKept /\ ViewKept
     /\ UNCHANGED <<copies, reports, rpps, sent, appliedPairs>>
  \/ /\ cachedDetails # details
     /\ pc = "aggregateStatus"
     /\ Return
     /\ UNCHANGED <<store, caches, aborts, history>>
     /\ Plain

\* updateStatusScaledToZero sets the conditions Ready, ConfigPending and Error, and
\* leaves the health conditions as they are.
ZeroDetails(d) ==
  [health |-> d.health, replicas |-> 0, lastAppliedReplicas |-> d.lastAppliedReplicas]

ScaleToZeroDetails ==
  \/ /\ snapDetails = details
     /\ updateStatusScaledToZero
     /\ details' = IF snap = redkey THEN ZeroDetails(snapDetails) ELSE details
     /\ SnapKept /\ ViewKept
     /\ UNCHANGED <<copies, reports, rpps, sent, appliedPairs>>
  \/ /\ snapDetails # details
     /\ pc = "updateStatusScaledToZero"
     /\ Return
     /\ UNCHANGED <<store, caches, aborts, history>>
     /\ Plain

SyncDetails ==
  /\ <<cachedRedkey, cachedDetails>> # <<redkey, details>>
  /\ cachedRedkey' = redkey /\ cachedDetails' = details
  /\ UNCHANGED <<store, cachedConfigs, cachedRobin, locals, aborts, history, details, snapDetails,
                 reports, cachedReports, viewReports, rpps, sent, appliedPairs>>

SyncReports ==
  /\ <<cachedConfigs, cachedReports>> # <<configs, reports>>
  /\ cachedConfigs' = configs /\ cachedReports' = reports
  /\ UNCHANGED <<store, cachedRedkey, cachedRobin, locals, aborts, history, details, cachedDetails,
                 snapDetails, reports, viewReports, rpps, sent, appliedPairs>>

\* Variant: the rule on replicasPerPrimary asks whether its own field is there.
TopologyLockReplicasIfSet(p, r) ==
  \/ Ephemeral \/ redkey.primaries # 0 \/ p = 0
  \/ details.lastAppliedReplicas = 0 \/ r = details.lastAppliedReplicas

\* The second admission rule.  It is in force when primaries are recorded; a field that
\* is 0 is absent from the object and reads as 0.
TopologyLockReplicas(p, r) ==
  \/ Ephemeral \/ redkey.primaries # 0 \/ p = 0
  \/ redkey.lastApplied = 0 \/ r = details.lastAppliedReplicas

EditTopology ==
  /\ EditSpec
  /\ \E r \in Replicas[redkey'.generation] :
       /\ TopologyLockReplicas(redkey'.primaries, r)
       /\ rpps' = Append(rpps, r)
  /\ UNCHANGED <<details, copies, snapDetails, reports, viewReports, sent, appliedPairs>>

ApplyTopology ==
  /\ RobinApply
  /\ appliedPairs' = appliedPairs \cup
       {<<c.primaries, rpps[c.gen]>> : c \in {d \in configs' \ configs : d.primaries # 0}}
  /\ UNCHANGED <<details, copies, snapDetails, reports, viewReports, rpps, sent>>

\* Robin reports on the health of a cluster that is applied and Ready.
RobinReport ==
  /\ sent < MaxReports
  /\ robin = RobinObjects
  /\ \E c \in InPhase(configs, "Applied"), health \in Reported :
       /\ IsLatest(c, InPhase(configs, "Applied")) /\ c.status = "Ready" /\ c.primaries # 0
       /\ reports' = (c.seq :> health) @@ reports
  /\ sent' = sent + 1
  /\ UNCHANGED <<vars, details, copies, snapDetails, viewReports, rpps, appliedPairs>>

-----------------------------------------------------------------------------
PlainStep ==
  \/ ensureRBAC \/ ensureRobinDeployment \/ createNewConfig \/ cleanupSupersededConfigs
  \/ deleteRobinDeployment \/ deleteRBAC \/ deleteAllConfigs

StatusStep == ReconcileDetails \/ ListDetails \/ AggregateDetails \/ ScaleToZeroDetails
              \/ (PlainStep /\ Plain)

StatusRobin == ((RobinStart \/ RobinSkip) /\ Plain) \/ ApplyTopology

SyncRobinObjects == SyncRobin /\ Plain

StatusNext ==
  \/ StatusStep \/ StatusRobin \/ RobinReport \/ EditTopology
  \/ SyncDetails \/ SyncReports \/ SyncRobinObjects

\* As in RedkeyReconciler; reports owe nothing.
StatusSpec ==
  /\ StatusInit /\ [][StatusNext]_statusVars
  /\ WF_statusVars(StatusStep) /\ WF_statusVars(StatusRobin) /\ WF_statusVars(SyncDetails)
  /\ WF_statusVars(SyncReports) /\ WF_statusVars(SyncRobinObjects)

-----------------------------------------------------------------------------
\* "Scaling up from zero must restore the same primaries [and replicasPerPrimary]": what
\* admission lets through once a topology is recorded is a pair that Robin has applied
\* together, though its halves are recorded in two fields and compared by two rules, and
\* a recorded 0 cannot be told from no record.
ScaleUpRestoresApplied ==
  [][~Ephemeral /\ redkey.primaries = 0 /\ redkey'.primaries # 0 /\ redkey.lastApplied # 0
       => <<redkey'.primaries, rpps'[redkey'.generation]>> \in appliedPairs]_statusVars

\* The health a Redkey with primaries ends up showing is Robin's report on the active
\* config, or Unknown when that is not settled or has none; replicas is what the spec
\* asks for.
HealthShown ==
  <>[](\A active \in configs : redkey.primaries # 0 /\ selectActiveConfig(active, configs) =>
         /\ details.replicas = redkey.primaries
         /\ details.health =
              IF /\ isTerminalConfigPhase(active.phase) /\ active.status = "Ready"
                 /\ active.seq \in DOMAIN reports
              THEN reports[active.seq] ELSE "Unknown")
=============================================================================
