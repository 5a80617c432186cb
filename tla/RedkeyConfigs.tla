--------------------------- MODULE RedkeyConfigs ---------------------------
(***************************************************************************)
(* RedkeyConfig objects and the pure functions the operator applies to     *)
(* them (api/v1beta1/redkeyconfig_types.go and                             *)
(* internal/controller/redkey_config.go).                                  *)
(*                                                                         *)
(* listConfigs returns the configs of one cluster sorted by spec.sequence. *)
(* The sequence is part of the object's name, so it is unique, and a list  *)
(* sorted by it is the same thing as the set of its elements: "first" and  *)
(* "last" of the list are the configs with the least and the greatest seq. *)
(*                                                                         *)
(* A config keeps the fields the operator's decisions read: its sequence,  *)
(* the generation annotation, spec.primaries (the non-zero values stand    *)
(* for whole topologies, primaries with their replicasPerPrimary), the     *)
(* phase in status.configPhase and status.status.  An object whose status  *)
(* Robin has not written yet is "Pending" with status "".                  *)
(***************************************************************************)
EXTENDS Naturals

ConfigPhases == {"Pending", "InProgress", "Applied", "Superseded"}

\* status.status values the operator tells apart: not reported, settled, failed,
\* or an operation under way (Initializing, ScalingUp, Upgrading, ...).
ConfigStatuses == {"", "Ready", "Error", "Operating"}

Config == [seq: Nat, gen: Nat, primaries: Nat,
           phase: ConfigPhases, status: ConfigStatuses]

\* c with another status.
WithStatus(c, phase, status) ==
  [seq |-> c.seq, gen |-> c.gen, primaries |-> c.primaries, phase |-> phase, status |-> status]

Seqs(configs) == {c.seq : c \in configs}

\* configs[0] and configs[len(configs)-1] of a sorted list.
IsFirst(c, configs) == \A d \in configs : c.seq <= d.seq
IsLatest(c, configs) == \A d \in configs : d.seq <= c.seq

InPhase(configs, phase) == {c \in configs : c.phase = phase}

isTerminalConfigPhase(phase) == phase \in {"Applied", "Superseded"}

isConfigReady(c) == isTerminalConfigPhase(c.phase) /\ c.status # "Error"

hasConfigError(c) == isTerminalConfigPhase(c.phase) /\ c.status = "Error"

\* Which conditions are True.  (RedkeyStatus has the health conditions.)
aggregateConditions(c) ==
  [Ready |-> isConfigReady(c), ConfigPending |-> ~isTerminalConfigPhase(c.phase),
   Error |-> hasConfigError(c)]

computePhaseFromConditions(conditions) ==
  IF conditions.Error THEN "Error" ELSE IF conditions.Ready THEN "Ready" ELSE "Configuring"

\* c is the config the status is aggregated from: the first one in progress or,
\* when there is none, the first of the list.  (The code's separate case for a
\* list of one gives the same answer.)
selectActiveConfig(c, configs) ==
  LET inProgress == InPhase(configs, "InProgress")
  IN  IF inProgress # {} THEN c \in inProgress /\ IsFirst(c, inProgress)
                         ELSE IsFirst(c, configs)

\* Variant: off by one, the last Applied config goes too.
supersededOffByOne(configs) ==
  {c \in configs : \E d \in InPhase(configs, "Applied") : c.seq <= d.seq}

\* What cleanupSupersededConfigs deletes: all that is older than the last
\* Applied config, whatever its own phase.
superseded(configs) ==
  {c \in configs : \E d \in InPhase(configs, "Applied") : c.seq < d.seq}

\* Variant: the annotation of the latest config is not consulted.
needsNewConfigNoAnnotation(cluster, latest) ==
  cluster.observedGeneration < cluster.generation

\* latest is the newest listed config; the caller has checked there is one.
needsNewConfig(cluster, latest) ==
  /\ latest.gen < cluster.generation
  /\ cluster.observedGeneration < cluster.generation
=============================================================================
