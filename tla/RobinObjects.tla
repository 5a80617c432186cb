---------------------------- MODULE RobinObjects ----------------------------
(***************************************************************************)
(* How a reconcile brings Robin's ServiceAccount, Role, RoleBinding and    *)
(* Deployment to what the Redkey asks for (internal/controller/            *)
(* redkey_robin.go), while users edit the Redkey, others change or delete  *)
(* the objects, the Deployment controller annotates its own, and the       *)
(* informer caches lag.                                                    *)
(*                                                                         *)
(* RedkeyReconciler only tells whether these objects exist; here it is     *)
(* their content that matters.  Labels stand for labels and annotations,   *)
(* which are merged and compared alike; "body" for the content a patch     *)
(* replaces whole: rules, subjects, or the list of containers.             *)
(***************************************************************************)
EXTENDS Naturals, SequencesExt

CONSTANTS
  Specs,       \* what a user may put in the Redkey: records with the fields
               \* labels, templateLabels, image, env and nodeSelector
  MaxEdits,    \* bound on spec edits
  MaxTampers,  \* bound on changes to the objects by others
  MaxAborts    \* bound on failed reconciles

ASSUME BoundsAssumption == MaxEdits \in Nat /\ MaxTampers \in Nat /\ MaxAborts \in Nat

\* The variables of the container template are a list, of any length and with any
\* names ([]corev1.EnvVar).
ASSUME EnvAssumption == \A s \in Specs : s.env \in Seq([name : STRING, value : STRING])

VARIABLES
  spec,          \* the Redkey
  live,          \* Robin's objects: a function of those that exist
  rolledOut,     \* the pod template the Deployment controller has rolled out
  rollouts,      \* how many it has
  cachedSpec, cached,        \* the informer caches of spec and live
  pc,            \* the object the reconcile is about to look at
  snap,          \* the Redkey as read at its start
  edits, tampers, aborts     \* how many so far

caches == <<cachedSpec, cached>>
bounds == <<edits, tampers, aborts>>
vars == <<spec, live, rolledOut, rollouts, caches, pc, snap, bounds>>

-----------------------------------------------------------------------------
Objects == {"ServiceAccount", "Role", "RoleBinding", "Deployment"}

Internal == [cluster |-> "own", component |-> "robin"]

\* f, and g where f is not defined; and f with another value for one argument.
Over(f, g) == [k \in DOMAIN f \cup DOMAIN g |-> IF k \in DOMAIN f THEN f[k] ELSE g[k]]

Put(f, k, v) == [x \in DOMAIN f \cup {k} |-> IF x = k THEN v ELSE f[x]]

\* Variant: user input is applied last.
mergeMetaUserWins(fromSpec, override, base) ==
  Over(IF DOMAIN override # {} THEN override ELSE fromSpec, base)

mergeMeta(fromSpec, override, base) ==
  Over(base, IF DOMAIN override # {} THEN override ELSE fromSpec)

Env(name, value) == [name |-> name, value |-> value]

robinDefaultEnvVars == <<Env("CLUSTER_NAME", "own"), Env("NAMESPACE", "own")>>

\* One round of the loop: replace the variable in place, or append it.
SetEnvVar(merged, envVar) ==
  LET named == {i \in DOMAIN merged : merged[i].name = envVar.name}
  IN  IF named # {} THEN [merged EXCEPT ![Max(named)] = envVar] ELSE Append(merged, envVar)

mergeEnvVars(base, overrides) == FoldLeft(SetEnvVar, base, overrides)

\* Variant: the defaults are not applied again after the user's variables.
RobinEnvUserWins == [s \in Specs |-> mergeEnvVars(robinDefaultEnvVars, s.env)]

RobinEnv ==
  [s \in Specs |-> mergeEnvVars(mergeEnvVars(robinDefaultEnvVars, s.env), robinDefaultEnvVars)]

\* The content of a container, or of a Role or RoleBinding.
Body(image, env) == [image |-> image, env |-> env]

\* The rules of the Role; the subjects of the RoleBinding are as fixed.
DesiredRobinRules == Body("own", << >>)

\* The object o that the Redkey s asks for.  Only Deployments have pods, and only
\* RoleBindings a roleRef; a fresh object has no revision annotation.
Desired(o, s) ==
  [labels |-> mergeMeta(s.labels, << >>, Internal),
   podLabels |-> IF o = "Deployment" THEN mergeMeta(s.labels, s.templateLabels, Internal) ELSE << >>,
   body |-> IF o = "Deployment" THEN Body(s.image, RobinEnv[s]) ELSE DesiredRobinRules,
   roleRef |-> "own",
   nodeSelector |-> IF o = "Deployment" THEN s.nodeSelector ELSE "unset",
   revision |-> 0]

\* DeepDerivative(desired, existing) on the pod spec: what desired leaves unset is
\* not compared, nor is what a list has beyond its last desired element.
DeepDerivative(want, existing) ==
  /\ want.body.image = existing.body.image
  /\ IsPrefix(want.body.env, existing.body.env)
  /\ want.nodeSelector \in {"unset", existing.nodeSelector}

\* Variant: labels are compared by what desired sets, so a removed key goes unseen.
needsUpdateDerivativeLabels(o, existing, want) ==
  \/ \E k \in DOMAIN want.labels : k \notin DOMAIN existing.labels
  \/ \E k \in DOMAIN want.labels \cap DOMAIN existing.labels : want.labels[k] # existing.labels[k]
  \/ want.podLabels # existing.podLabels
  \/ o # "ServiceAccount" /\ ~DeepDerivative(want, existing)

\* Variant: the annotation the Deployment controller adds counts as drift.
needsUpdateManaged(o, existing, want) ==
  \/ want.labels # existing.labels \/ want.podLabels # existing.podLabels
  \/ want.revision # existing.revision
  \/ o # "ServiceAccount" /\ ~DeepDerivative(want, existing)

\* The drift checks of ensureRBAC and robinDeploymentNeedsUpdate.  For the RBAC
\* objects "body" is compared with DeepEqual, which is the same here.  The revision
\* annotation is stripped before comparing.
needsUpdate(o, existing, want) ==
  \/ want.labels # existing.labels \/ want.podLabels # existing.podLabels
  \/ o # "ServiceAccount" /\ ~DeepDerivative(want, existing)

\* Variant: the managed annotation is not carried over.
dropManagedAnnotations(existing, want) == want

preserveManagedAnnotations(existing, want) == [want EXCEPT !.revision = existing.revision]

\* Variant: the patch does not mention what modified lacks.
PatchMapAddsOnly(target, base, modified) ==
  LET kept == {k \in DOMAIN modified : k \in DOMAIN base /\ base[k] = modified[k]}
  IN  Over(Restrict(modified, DOMAIN modified \ kept), target)

\* A merge patch says what differs between two objects; it changes just that in a
\* third.  Maps are patched key by key.
PatchMap(target, base, modified) ==
  LET removed == DOMAIN base \ DOMAIN modified
      kept == {k \in DOMAIN modified : k \in DOMAIN base /\ base[k] = modified[k]}
  IN  Over(Restrict(modified, DOMAIN modified \ kept), Restrict(target, DOMAIN target \ removed))

MergeFrom(target, base, modified) ==
  [f \in DOMAIN target |->
     IF f \in {"labels", "podLabels"} THEN PatchMap(target[f], base[f], modified[f])
     ELSE IF base[f] # modified[f] THEN modified[f] ELSE target[f]]

-----------------------------------------------------------------------------
Init ==
  /\ spec \in Specs /\ cachedSpec = spec /\ snap = spec
  /\ live = << >> /\ cached = << >>
  /\ rolledOut = << >> /\ rollouts = 0
  /\ pc = "idle"
  /\ edits = 0 /\ tampers = 0 /\ aborts = 0

\* Variant: the answer of Get is ignored and the empty object used.
ReconcileEmpty ==
  /\ pc = "idle"
  /\ pc' = "ServiceAccount"
  /\ snap' = [labels |-> << >>, templateLabels |-> << >>, image |-> "", env |-> << >>,
            nodeSelector |-> "unset"]
  /\ UNCHANGED <<spec, live, rolledOut, rollouts, caches, bounds>>

Reconcile ==
  /\ pc = "idle"
  /\ pc' = "ServiceAccount"
  /\ snap' = cachedSpec
  /\ UNCHANGED <<spec, live, rolledOut, rollouts, caches, bounds>>

\* Get o and, by what the cache says, create it, patch it or leave it.  A cache that
\* is behind makes Create fail with AlreadyExists, and Patch with NotFound.
Get(o, next) ==
  LET want == Desired(o, snap) IN
  /\ pc = o
  /\ \/ /\ o \notin DOMAIN cached /\ o \notin DOMAIN live
        /\ live' = Put(live, o, want)
        /\ pc' = next
     \/ /\ o \in DOMAIN cached /\ o \in DOMAIN live
        /\ needsUpdate(o, cached[o], want)
        /\ live' = [live EXCEPT ![o] =
                      MergeFrom(@, cached[o], preserveManagedAnnotations(cached[o], want))]
        /\ pc' = next
     \/ /\ o \in DOMAIN cached /\ ~needsUpdate(o, cached[o], want)
        /\ pc' = next /\ UNCHANGED live
     \/ /\ \/ o \notin DOMAIN cached /\ o \in DOMAIN live
           \/ o \in DOMAIN cached /\ o \notin DOMAIN live /\ needsUpdate(o, cached[o], want)
        /\ pc' = "idle" /\ UNCHANGED live
  /\ UNCHANGED <<spec, rolledOut, rollouts, caches, snap, bounds>>

needsRecreate == "RoleBinding" \in DOMAIN cached /\ cached["RoleBinding"].roleRef # "own"

ensureServiceAccount == Get("ServiceAccount", "Role")
ensureRole == Get("Role", "RoleBinding")
ensureRoleBinding == ~needsRecreate /\ Get("RoleBinding", "Deployment")
ensureRobinDeployment == Get("Deployment", "idle")

\* roleRef is immutable: delete, by name, and create again.
deleteRoleBinding ==
  /\ pc = "RoleBinding" /\ needsRecreate
  /\ live' = Restrict(live, DOMAIN live \ {"RoleBinding"})
  /\ pc' = IF "RoleBinding" \in DOMAIN live THEN "recreate" ELSE "idle"
  /\ UNCHANGED <<spec, rolledOut, rollouts, caches, snap, bounds>>

recreateRoleBinding ==
  /\ pc = "recreate"
  /\ \/ /\ "RoleBinding" \notin DOMAIN live
        /\ live' = Put(live, "RoleBinding", Desired("RoleBinding", snap))
        /\ pc' = "Deployment"
     \/ "RoleBinding" \in DOMAIN live /\ pc' = "idle" /\ UNCHANGED live
  /\ UNCHANGED <<spec, rolledOut, rollouts, caches, snap, bounds>>

\* A call fails, or the operator stops.
Abort ==
  /\ pc # "idle" /\ aborts < MaxAborts
  /\ pc' = "idle" /\ aborts' = aborts + 1
  /\ UNCHANGED <<spec, live, rolledOut, rollouts, caches, snap, edits, tampers>>

-----------------------------------------------------------------------------
EditSpec ==
  /\ edits < MaxEdits
  /\ spec' \in Specs \ {spec}
  /\ edits' = edits + 1
  /\ UNCHANGED <<live, rolledOut, rollouts, caches, pc, snap, tampers, aborts>>

\* Someone else deletes an object or writes to it (a roleRef by replacing it).
Tamper ==
  /\ tampers < MaxTampers
  /\ \E o \in DOMAIN live :
       \/ live' = Restrict(live, DOMAIN live \ {o})
       \/ live' = [live EXCEPT ![o].labels = << >>]
       \/ o # "ServiceAccount" /\ live' = [live EXCEPT ![o].body = Body("other", << >>)]
       \/ o = "RoleBinding" /\ live' = [live EXCEPT ![o].roleRef = "other"]
  /\ tampers' = tampers + 1
  /\ UNCHANGED <<spec, rolledOut, rollouts, caches, pc, snap, edits, aborts>>

Template(deployment) == <<deployment.podLabels, deployment.body, deployment.nodeSelector>>

\* The Deployment controller rolls out a new template under the next revision.
RollOut ==
  /\ "Deployment" \in DOMAIN live
  /\ Template(live["Deployment"]) # rolledOut \/ live["Deployment"].revision # rollouts
  /\ rolledOut' = Template(live["Deployment"])
  /\ rollouts' = IF rolledOut' = rolledOut THEN rollouts ELSE rollouts + 1
  /\ live' = [live EXCEPT !["Deployment"].revision = rollouts']
  /\ UNCHANGED <<spec, caches, pc, snap, bounds>>

SyncSpec == /\ cachedSpec # spec
            /\ cachedSpec' = spec
            /\ UNCHANGED <<spec, live, rolledOut, rollouts, cached, pc, snap, bounds>>

\* There is an informer for each kind of object.
SyncObject(o) ==
  /\ o \in DOMAIN live \cup DOMAIN cached
  /\ cached' = IF o \in DOMAIN live THEN Put(cached, o, live[o])
                                    ELSE Restrict(cached, DOMAIN cached \ {o})
  /\ cached' # cached
  /\ UNCHANGED <<spec, live, rolledOut, rollouts, cachedSpec, pc, snap, bounds>>

-----------------------------------------------------------------------------
Step == Reconcile \/ ensureServiceAccount \/ ensureRole \/ ensureRoleBinding
        \/ deleteRoleBinding \/ recreateRoleBinding \/ ensureRobinDeployment

Next == Step \/ Abort \/ EditSpec \/ Tamper \/ RollOut \/ SyncSpec
        \/ \E o \in Objects : SyncObject(o)

Spec == Init /\ [][Next]_vars

\* The queue keeps running the key, the Deployment controller and the informers
\* keep up; users, others and failures owe nothing.
Fairness == WF_vars(Step) /\ WF_vars(RollOut)
            /\ WF_vars(SyncSpec \/ \E o \in Objects : SyncObject(o))

FairSpec == Spec /\ Fairness

-----------------------------------------------------------------------------
\* Every variable has its type.
TypeOK ==
  /\ {spec, cachedSpec, snap} \subseteq Specs
  /\ DOMAIN live \subseteq Objects /\ DOMAIN cached \subseteq Objects
  /\ pc \in Objects \cup {"idle", "recreate"}
  /\ rollouts \in Nat /\ edits \in 0..MaxEdits
  /\ tampers \in 0..MaxTampers /\ aborts \in 0..MaxAborts

HasInternal(labels) == \A k \in DOMAIN Internal : k \in DOMAIN labels /\ labels[k] = Internal[k]

\* "Internal labels always win": whatever labels the user asks for and however old
\* the copy a patch is computed from, the pods keep the labels the Deployment's
\* selector needs, and no step of the reconcile takes an internal label from an
\* object that has it.
InternalLabelsKept ==
  [][\A o \in DOMAIN live \cap DOMAIN live' :
       /\ HasInternal(live[o].labels) /\ pc' # pc => HasInternal(live'[o].labels)
       /\ o = "Deployment" => HasInternal(live'[o].podLabels)]_vars

\* preserveManagedAnnotations: only the Deployment controller changes the revision
\* annotation; a patch from an old copy neither strips it nor sets it back.
RevisionKept ==
  [][\A o \in DOMAIN live \cap DOMAIN live' :
       live'[o].revision # live[o].revision => RollOut]_vars

\* The reconcile deals with o, having seen it as it is.
SeenAsItIs(o) ==
  /\ pc = o /\ pc' # pc /\ aborts' = aborts
  /\ o \in DOMAIN live => o \in DOMAIN cached /\ cached[o] = live[o]

\* A current copy is enough: an object that is looked at through a copy that is not
\* behind is left with nothing that needsUpdate takes for drift, labels that were
\* removed from the spec included; and what the Deployment controller writes makes
\* no drift and hides none.
DriftRepaired ==
  [][\A o \in DOMAIN live' :
       /\ SeenAsItIs(o) => ~needsUpdate(o, live'[o], Desired(o, snap))
       /\ RollOut => (needsUpdate(o, live[o], Desired(o, spec))
                        <=> needsUpdate(o, live'[o], Desired(o, spec)))]_vars

\* Whatever variables the template sets, twice or under the names of the defaults,
\* and whichever patch came last: a Robin the operator runs is told of its own
\* cluster, once.
RobinKnowsItsCluster ==
  "Deployment" \in DOMAIN live /\ live["Deployment"].body.image # "other"
    => \A name \in {"CLUSTER_NAME", "NAMESPACE"} :
         LET env == live["Deployment"].body.env
             named == {i \in DOMAIN env : env[i].name = name}
         IN  \E i \in named : named = {i} /\ env[i].value = "own"

\* When edits and tampering stop, every object is there with its labels, content
\* and role reference, and with what the Redkey sets in the pod template.
ObjectsRepaired ==
  <>[](\A o \in Objects :
         LET want == Desired(o, spec) IN
         /\ o \in DOMAIN live
         /\ live[o].labels = want.labels
         /\ live[o].podLabels = want.podLabels
         /\ live[o].body.image = want.body.image
         /\ IsPrefix(want.body.env, live[o].body.env)
         /\ live[o].roleRef = "own"
         /\ want.nodeSelector \in {"unset", live[o].nodeSelector})

\* The operator and the Deployment controller do not fight: in the end a reconcile
\* finds no drift, so it patches nothing ("an endless loop" otherwise).
PatchingStops ==
  <>[](\A o \in DOMAIN live : ~needsUpdate(o, live[o], Desired(o, spec)))

-----------------------------------------------------------------------------
\* docs/operator-guide/robin.md: the operator is to reconcile "any addition, update or
\* delete in the spec.robin".  What is deleted from spec.robin.template stays.
MatchesDesired ==
  <>[]("Deployment" \in DOMAIN live
       /\ live["Deployment"].nodeSelector = Desired("Deployment", spec).nodeSelector)
=============================================================================
