---------------------------- MODULE FleetMetrics ----------------------------
(***************************************************************************)
(* The fleet metrics (internal/controller/metrics.go): what concurrent     *)
(* reconciles of several Redkeys record, in gauges and counters and in two *)
(* trackers they share, while Redkeys come and go and the operator         *)
(* restarts.                                                               *)
(*                                                                         *)
(* The work queue runs one reconcile per key at a time, and the trackers   *)
(* lock for each call, so a reconcile's call of a tracker is one step.     *)
(* Gauges carry the key in their labels: no other reconcile touches them.  *)
(* Durations are left out; each is observed where the counter is increased.*)
(***************************************************************************)
EXTENDS RedkeyConfigs, FiniteSets

CONSTANTS
  Keys,         \* the Redkeys
  Operations,   \* status.status values that are operations under way
  Reports,      \* what Robin may report on a config: records of phase and status
  None,
  MaxChanges,   \* bound on status changes, deletions and creations
  MaxRestarts   \* bound on restarts of the operator

ASSUME MetricsAssumption ==
  /\ IsFiniteSet(Keys)
  /\ Operations \cap {"", "Ready", "Error"} = {}
  /\ None \notin Operations \cup {"", "Ready", "Error"}
  /\ \A r \in Reports : r.status \in Operations \cup {"", "Ready", "Error"}
  /\ MaxChanges \in Nat /\ MaxRestarts \in Nat

VARIABLES
  cluster,      \* the status of each Redkey, or None when there is no Redkey
  pc,           \* where the reconcile of each key is
  snap,         \* its copy of the status
  active,       \* operationTracker: the operation tracked for a key, or None
  lastPhase,    \* readinessTracker: the phase last seen, or None
  inProgress,   \* redkey_operation_in_progress: the operations with a series
  phase,        \* redkey_phase: the phase that has 1, or None without series
  configPhase,  \* redkey_config_phase, likewise
  total,        \* redkey_operation_total by operation and result
  changes, restarts,
  \* history
  seen,         \* the status last given to operationTracker for a key, or None
  begun, lost,  \* operations seen to begin, and forgotten, by operation
  unready       \* keys seen not Ready since their last time-to-ready sample

status == <<cluster, changes, restarts>>
trackers == <<active, lastPhase>>
gauges == <<inProgress, phase, configPhase>>
vars == <<status, pc, snap, trackers, gauges, total, seen, begun, lost, unready>>

-----------------------------------------------------------------------------
Results == {"success", "error", "superseded"}

\* What a reconcile hands to recordRedkeyMetrics: the status it has aggregated from
\* the active config, with that config; on the scale-to-zero path the same without a
\* config, or the one of a Redkey scaled to zero.
Aggregated ==
  {[status |-> r.status, phase |-> computePhaseFromConditions(aggregateConditions(r)),
    config |-> r.phase] : r \in Reports}
WithoutConfig(s) == [status |-> s.status, phase |-> s.phase, config |-> None]
ScaledToZero == [status |-> "", phase |-> "Ready", config |-> None]
Fresh == [status |-> "", phase |-> "", config |-> None]

Snapshots == Aggregated \cup {WithoutConfig(s) : s \in Aggregated} \cup {ScaledToZero}

\* Variant: a status not reported yet counts as an operation.
InOperationUnset(s) == s.status \notin {"Ready", "Error"}

InOperation(s) == s.status \notin {"", "Ready", "Error"}

Init ==
  /\ cluster = [k \in Keys |-> None] /\ snap = [k \in Keys |-> Fresh]
  /\ pc = [k \in Keys |-> "idle"]
  /\ active = [k \in Keys |-> None] /\ lastPhase = [k \in Keys |-> None]
  /\ inProgress = [k \in Keys |-> {}]
  /\ phase = [k \in Keys |-> None] /\ configPhase = [k \in Keys |-> None]
  /\ total = [r \in Operations \X Results |-> 0]
  /\ changes = 0 /\ restarts = 0
  /\ seen = [k \in Keys |-> None]
  /\ begun = [op \in Operations |-> 0] /\ lost = [op \in Operations |-> 0]
  /\ unready = Keys

Goto(k, label) == pc' = [pc EXCEPT ![k] = label]

\* A reconcile up to its metrics: it has found the Redkey and persisted a status, the
\* one that is there already or a new one; or it has found none.
Reconcile(k) ==
  /\ pc[k] = "idle"
  /\ \/ /\ cluster[k] # None
        /\ \E s \in Snapshots \cup {cluster[k]} :
             /\ s # cluster[k] => changes < MaxChanges
             /\ changes' = IF s # cluster[k] THEN changes + 1 ELSE changes
             /\ cluster' = [cluster EXCEPT ![k] = s]
             /\ snap' = [snap EXCEPT ![k] = s]
        /\ Goto(k, "observe")
     \/ /\ cluster[k] = None
        /\ Goto(k, "deleteSeries")
        /\ UNCHANGED <<cluster, changes, snap>>
  /\ UNCHANGED <<restarts, trackers, gauges, total, seen, begun, lost, unready>>

ResultOf(s) ==
  IF InOperation(s) THEN "superseded"
  ELSE IF s.phase = "Error" \/ s.status = "Error" THEN "error" ELSE "success"

\* The tracked operation ends when another one, or none, is seen.
Ends(k) == active[k] # None /\ active[k] # snap[k].status

\* Variant: a settled operation stays in the tracker.
observeKeeps(k) ==
  /\ pc[k] = "observe"
  /\ total' = IF Ends(k) THEN [total EXCEPT ![<<active[k], ResultOf(snap[k])>>] = @ + 1] ELSE total
  /\ active' = [active EXCEPT ![k] = IF InOperation(snap[k]) THEN snap[k].status ELSE @]
  /\ seen' = [seen EXCEPT ![k] = snap[k].status]
  /\ begun' = IF InOperation(snap[k]) /\ seen[k] # snap[k].status
              THEN [begun EXCEPT ![snap[k].status] = @ + 1] ELSE begun
  /\ Goto(k, "setGauges")
  /\ UNCHANGED <<status, snap, lastPhase, gauges, lost, unready>>

\* operationTracker.observe
observe(k) ==
  /\ pc[k] = "observe"
  /\ total' = IF Ends(k) THEN [total EXCEPT ![<<active[k], ResultOf(snap[k])>>] = @ + 1] ELSE total
  /\ active' = [active EXCEPT ![k] = IF InOperation(snap[k]) THEN snap[k].status ELSE None]
  /\ seen' = [seen EXCEPT ![k] = snap[k].status]
  /\ begun' = IF InOperation(snap[k]) /\ seen[k] # snap[k].status
              THEN [begun EXCEPT ![snap[k].status] = @ + 1] ELSE begun
  /\ Goto(k, "setGauges")
  /\ UNCHANGED <<status, snap, lastPhase, gauges, lost, unready>>

\* Variants: the series of the operation before is not deleted; the config phase is
\* left behind.
setGaugesKeeps(k) ==
  /\ pc[k] = "setGauges"
  /\ inProgress' = [inProgress EXCEPT ![k] =
                      @ \cup (IF InOperation(snap[k]) THEN {snap[k].status} ELSE {})]
  /\ phase' = [phase EXCEPT ![k] = snap[k].phase]
  /\ configPhase' = [configPhase EXCEPT ![k] = snap[k].config]
  /\ Goto(k, IF snap[k].config = None THEN "idle" ELSE "enteredReady")
  /\ UNCHANGED <<status, snap, trackers, total, seen, begun, lost, unready>>

setGaugesStale(k) ==
  /\ pc[k] = "setGauges"
  /\ inProgress' = [inProgress EXCEPT ![k] = IF InOperation(snap[k]) THEN {snap[k].status} ELSE {}]
  /\ phase' = [phase EXCEPT ![k] = snap[k].phase]
  /\ configPhase' = [configPhase EXCEPT ![k] = IF snap[k].config = None THEN @ ELSE snap[k].config]
  /\ Goto(k, IF snap[k].config = None THEN "idle" ELSE "enteredReady")
  /\ UNCHANGED <<status, snap, trackers, total, seen, begun, lost, unready>>

\* The gauges of one Redkey; without an active config nothing more is recorded.
setGauges(k) ==
  /\ pc[k] = "setGauges"
  /\ inProgress' = [inProgress EXCEPT ![k] = IF InOperation(snap[k]) THEN {snap[k].status} ELSE {}]
  /\ phase' = [phase EXCEPT ![k] = snap[k].phase]
  /\ configPhase' = [configPhase EXCEPT ![k] = snap[k].config]
  /\ Goto(k, IF snap[k].config = None THEN "idle" ELSE "enteredReady")
  /\ UNCHANGED <<status, snap, trackers, total, seen, begun, lost, unready>>

\* Variant: only the sample updates the remembered phase.
enteredReadyForgetful(k) ==
  /\ pc[k] = "enteredReady"
  /\ lastPhase' = lastPhase
  /\ unready' = IF snap[k].phase # "Ready" THEN unready \cup {k}
                ELSE IF lastPhase[k] # "Ready" THEN unready \ {k} ELSE unready
  /\ Goto(k, "idle")
  /\ UNCHANGED <<status, snap, active, gauges, total, seen, begun, lost>>

\* A time-to-ready sample is taken on the way into Ready.
Samples(k) == snap[k].phase = "Ready" /\ lastPhase[k] # "Ready"

\* readinessTracker.enteredReady and the sample.
enteredReady(k) ==
  /\ pc[k] = "enteredReady"
  /\ lastPhase' = [lastPhase EXCEPT ![k] = snap[k].phase]
  /\ unready' = IF snap[k].phase # "Ready" THEN unready \cup {k}
                ELSE IF Samples(k) THEN unready \ {k} ELSE unready
  /\ Goto(k, "idle")
  /\ UNCHANGED <<status, snap, active, gauges, total, seen, begun, lost>>

\* Variant: the series of the operation stays behind.
deleteSeriesNotOperation(k) ==
  /\ pc[k] = "deleteSeries"
  /\ phase' = [phase EXCEPT ![k] = None]
  /\ configPhase' = [configPhase EXCEPT ![k] = None]
  /\ Goto(k, "forget")
  /\ UNCHANGED <<status, snap, trackers, inProgress, total, seen, begun, lost, unready>>

\* deleteRedkeyMetrics: the series, then the trackers.
deleteSeries(k) ==
  /\ pc[k] = "deleteSeries"
  /\ inProgress' = [inProgress EXCEPT ![k] = {}]
  /\ phase' = [phase EXCEPT ![k] = None]
  /\ configPhase' = [configPhase EXCEPT ![k] = None]
  /\ Goto(k, "forget")
  /\ UNCHANGED <<status, snap, trackers, total, seen, begun, lost, unready>>

forget(k) ==
  /\ pc[k] = "forget"
  /\ active' = [active EXCEPT ![k] = None]
  /\ lastPhase' = [lastPhase EXCEPT ![k] = None]
  /\ lost' = IF seen[k] \in Operations THEN [lost EXCEPT ![seen[k]] = @ + 1] ELSE lost
  /\ seen' = [seen EXCEPT ![k] = None]
  /\ unready' = unready \cup {k}
  /\ Goto(k, "idle")
  /\ UNCHANGED <<status, snap, gauges, total, begun>>

-----------------------------------------------------------------------------
\* A user creates the Redkey, or deletes it, whatever the reconcile is doing.
CreateOrDelete(k) ==
  /\ changes < MaxChanges
  /\ changes' = changes + 1
  /\ cluster' = [cluster EXCEPT ![k] = IF @ = None THEN Fresh ELSE None]
  /\ UNCHANGED <<restarts, pc, snap, trackers, gauges, total, seen, begun, lost, unready>>

\* The operator restarts: series and trackers were in its memory.
Restart ==
  /\ restarts < MaxRestarts
  /\ restarts' = restarts + 1
  /\ pc' = [k \in Keys |-> "idle"]
  /\ active' = [k \in Keys |-> None] /\ lastPhase' = [k \in Keys |-> None]
  /\ inProgress' = [k \in Keys |-> {}]
  /\ phase' = [k \in Keys |-> None] /\ configPhase' = [k \in Keys |-> None]
  /\ total' = [r \in Operations \X Results |-> 0]
  /\ seen' = [k \in Keys |-> None]
  /\ begun' = [op \in Operations |-> 0] /\ lost' = [op \in Operations |-> 0]
  /\ unready' = Keys
  /\ UNCHANGED <<cluster, changes, snap>>

Step(k) == Reconcile(k) \/ observe(k) \/ setGauges(k) \/ enteredReady(k)
           \/ deleteSeries(k) \/ forget(k)

Next == Restart \/ \E k \in Keys : Step(k) \/ CreateOrDelete(k)

Spec == Init /\ [][Next]_vars

\* The queue serves every key: after an event, and again at every resync.
FairSpec == Spec /\ \A k \in Keys : WF_vars(Step(k))

-----------------------------------------------------------------------------
\* Every variable has its type.
TypeOK ==
  /\ cluster \in [Keys -> Snapshots \cup {Fresh, None}] /\ snap \in [Keys -> Snapshots \cup {Fresh}]
  /\ pc \in [Keys -> {"idle", "observe", "setGauges", "enteredReady", "deleteSeries", "forget"}]
  /\ active \in [Keys -> Operations \cup {None}]
  /\ seen \in [Keys -> Operations \cup {"", "Ready", "Error", None}]
  /\ total \in [Operations \X Results -> Nat]
  /\ begun \in [Operations -> Nat] /\ lost \in [Operations -> Nat]
  /\ inProgress \in [Keys -> SUBSET Operations]
  /\ unready \subseteq Keys

Counted(op) ==
  total[<<op, "success">>] + total[<<op, "error">>] + total[<<op, "superseded">>]

\* operationTracker counts every operation once: of those seen to begin, over all
\* Redkeys and since the operator started, each has been counted under one result,
\* is still tracked, or was forgotten with its Redkey, however the reconciles that
\* share the tracker interleave.
OperationsAccounted ==
  \A op \in Operations :
    begun[op] = Counted(op) + lost[op] + Cardinality({k \in Keys : active[k] = op})

\* Between reconciles redkey_operation_in_progress has a series for exactly the
\* operation the tracker times, through restarts and deletions.
GaugeMatchesTracker ==
  \A k \in Keys : pc[k] = "idle" => inProgress[k] = {active[k]} \ {None}

\* The comment on readinessTracker: a sample "only on the transition INTO Ready, not on
\* every steady-state reconcile".  With an active config, one is taken exactly when the
\* Redkey is Ready and was not at the reconcile with a config before, if there was one.
SampledOnTransition ==
  [][\A k \in Keys : pc[k] = "enteredReady" /\ pc'[k] = "idle" /\ restarts' = restarts
       => (Samples(k) <=> snap[k].phase = "Ready" /\ k \in unready)]_vars

\* deleteRedkeyMetrics: a Redkey that is gone for good ends without series and without
\* a trace in the trackers, whatever a reconcile in flight still recorded.
SeriesDropped ==
  \A k \in Keys : <>[](cluster[k] = None =>
    /\ inProgress[k] = {} /\ phase[k] = None /\ configPhase[k] = None
    /\ active[k] = None /\ lastPhase[k] = None)

\* The gauges of a Redkey that stays end up showing its status.
GaugesSettle ==
  \A k \in Keys : <>[](cluster[k] # None =>
    /\ inProgress[k] = {cluster[k].status} \cap Operations
    /\ phase[k] = cluster[k].phase /\ configPhase[k] = cluster[k].config)
=============================================================================
