------------------------- MODULE RobinObjectsProofs -------------------------
(***************************************************************************)
(* What patches computed from old copies never do to Robin's objects, and  *)
(* what mergeEnvVars puts in its Deployment, for all specs, edits, outside *)
(* changes and lags of the caches.                                         *)
(***************************************************************************)
EXTENDS RobinObjects, NumberLemmas

Fields == {"labels", "podLabels", "body", "roleRef", "nodeSelector", "revision"}

\* Every object has all its fields, and the pods their internal labels.
ObjectsInv ==
  \A o \in DOMAIN live :
    /\ DOMAIN live[o] = Fields
    /\ o = "Deployment" => HasInternal(live[o].podLabels)

\* What a step may do to an object that is there.
ObjectKept(o) ==
  /\ DOMAIN live'[o] = Fields
  /\ live'[o].revision # live[o].revision => RollOut
  /\ o = "Deployment" /\ HasInternal(live[o].podLabels) => HasInternal(live'[o].podLabels)
  /\ HasInternal(live[o].labels) /\ pc' # pc => HasInternal(live'[o].labels)

\* ... and to one that was not there.
ObjectNew(o) ==
  /\ DOMAIN live'[o] = Fields
  /\ o = "Deployment" => HasInternal(live'[o].podLabels)

-----------------------------------------------------------------------------
\* A patch leaves the revision annotation of the live object as it is.
LEMMA PatchKeepsRevision ==
  ASSUME NEW t, NEW b, NEW o, NEW s, DOMAIN t = Fields
  PROVE  MergeFrom(t, b, preserveManagedAnnotations(b, Desired(o, s))).revision = t.revision
<1>1. preserveManagedAnnotations(b, Desired(o, s)).revision = b.revision
  BY DEF preserveManagedAnnotations, Desired
<1> QED
  BY <1>1 DEF MergeFrom, Fields

\* Internal labels win over the user's.
LEMMA MergedHasInternal ==
  ASSUME NEW f, NEW g
  PROVE  HasInternal(mergeMeta(f, g, Internal))
  BY DEF HasInternal, mergeMeta, Internal, Over

\* A patch towards labels that include the internal ones takes none of them away,
\* whatever copy it is computed from.
LEMMA PatchKeepsInternal ==
  ASSUME NEW t, NEW b, NEW w, HasInternal(t), HasInternal(w)
  PROVE  HasInternal(PatchMap(t, b, w))
<1> DEFINE removed == DOMAIN b \ DOMAIN w
           kept == {k \in DOMAIN w : k \in DOMAIN b /\ b[k] = w[k]}
           changes == Restrict(w, DOMAIN w \ kept)
           rest == Restrict(t, DOMAIN t \ removed)
<1>1. PatchMap(t, b, w) = Over(changes, rest)
  BY DEF PatchMap
<1>2. SUFFICES ASSUME NEW k \in DOMAIN Internal
               PROVE  k \in DOMAIN Over(changes, rest) /\ Over(changes, rest)[k] = Internal[k]
  BY <1>1 DEF HasInternal
<1>3. k \in DOMAIN t /\ t[k] = Internal[k] /\ k \in DOMAIN w /\ w[k] = Internal[k]
  BY <1>2 DEF HasInternal
<1>4. DOMAIN changes = DOMAIN w \ kept /\ DOMAIN rest = DOMAIN t \ removed
  BY DEF Restrict
<1>5. k \in DOMAIN rest /\ rest[k] = Internal[k]
  BY <1>3, <1>4 DEF Restrict
<1>6. k \in DOMAIN changes => changes[k] = Internal[k]
  BY <1>3, <1>4 DEF Restrict
<1> HIDE DEF changes, rest
<1> QED
  BY <1>5, <1>6 DEF Over

LEMMA DesiredObject ==
  ASSUME NEW o, NEW s
  PROVE  /\ DOMAIN Desired(o, s) = Fields
         /\ HasInternal(Desired(o, s).labels)
         /\ o = "Deployment" => HasInternal(Desired(o, s).podLabels)
<1>1. DOMAIN Desired(o, s) = Fields
  BY DEF Desired, Fields
<1>2. Desired(o, s).labels = mergeMeta(s.labels, << >>, Internal)
  BY DEF Desired
<1>3. o = "Deployment" => Desired(o, s).podLabels = mergeMeta(s.labels, s.templateLabels, Internal)
  BY DEF Desired
<1> QED
  BY <1>1, <1>2, <1>3, MergedHasInternal

\* What a patch does to an object, whatever copy b it is computed from.
LEMMA PatchedObject ==
  ASSUME NEW t, NEW b, NEW o, NEW s, DOMAIN t = Fields
  PROVE  LET patched == MergeFrom(t, b, preserveManagedAnnotations(b, Desired(o, s)))
         IN  /\ DOMAIN patched = Fields
             /\ patched.revision = t.revision
             /\ HasInternal(t.labels) => HasInternal(patched.labels)
             /\ o = "Deployment" /\ HasInternal(t.podLabels) => HasInternal(patched.podLabels)
<1> DEFINE want == preserveManagedAnnotations(b, Desired(o, s))
           patched == MergeFrom(t, b, want)
<1>1. DOMAIN patched = Fields
  BY DEF MergeFrom
<1>2. patched.revision = t.revision
  BY PatchKeepsRevision
<1>3. want.labels = Desired(o, s).labels /\ want.podLabels = Desired(o, s).podLabels
  BY DEF preserveManagedAnnotations, Desired
<1> HIDE DEF want
<1>4. patched.labels = PatchMap(t.labels, b.labels, want.labels)
  BY DEF MergeFrom, Fields
<1>5. patched.podLabels = PatchMap(t.podLabels, b.podLabels, want.podLabels)
  BY DEF MergeFrom, Fields
<1> HIDE DEF patched
<1>6. HasInternal(t.labels) => HasInternal(patched.labels)
  BY <1>3, <1>4, DesiredObject, PatchKeepsInternal
<1>7. o = "Deployment" /\ HasInternal(t.podLabels) => HasInternal(patched.podLabels)
  BY <1>3, <1>5, DesiredObject, PatchKeepsInternal
<1> USE DEF patched, want
<1> QED
  BY <1>1, <1>2, <1>6, <1>7

-----------------------------------------------------------------------------
\* A step treats the object it is about, and all others, as it may.
LEMMA UntouchedKept ==
  ASSUME NEW o \in DOMAIN live, DOMAIN live[o] = Fields, live'[o] = live[o]
  PROVE  ObjectKept(o)
  BY DEF ObjectKept

LEMMA GetKeeps ==
  ASSUME NEW x \in Objects, NEW next, Get(x, next), ObjectsInv, NEW o \in DOMAIN live'
  PROVE  IF o \in DOMAIN live THEN ObjectKept(o) ELSE ObjectNew(o)
<1>1. \/ live' = Put(live, x, Desired(x, snap)) /\ x \notin DOMAIN live
      \/ live' = [live EXCEPT ![x] =
                    MergeFrom(@, cached[x], preserveManagedAnnotations(cached[x], Desired(x, snap)))]
      \/ live' = live
  BY DEF Get
<1>2. o \in DOMAIN live => DOMAIN live[o] = Fields
  BY DEF ObjectsInv
<1>3. CASE live' = Put(live, x, Desired(x, snap)) /\ x \notin DOMAIN live
  <2>1. o # x => o \in DOMAIN live /\ live'[o] = live[o]
    BY <1>3 DEF Put
  <2>2. o = x => o \notin DOMAIN live /\ live'[o] = Desired(o, snap)
    BY <1>3 DEF Put
  <2> QED
    BY <1>2, <2>1, <2>2, UntouchedKept, DesiredObject DEF ObjectNew
<1>4. CASE live' = [live EXCEPT ![x] =
                      MergeFrom(@, cached[x], preserveManagedAnnotations(cached[x], Desired(x, snap)))]
  <2>1. o \in DOMAIN live
    BY <1>4
  <2>2. o # x => live'[o] = live[o]
    BY <1>4, <2>1
  <2>3. o = x => live'[o] = MergeFrom(live[o], cached[o],
                                      preserveManagedAnnotations(cached[o], Desired(o, snap)))
    BY <1>4, <2>1
  <2> QED
    BY <1>2, <2>1, <2>2, <2>3, UntouchedKept, PatchedObject DEF ObjectKept
<1>5. CASE live' = live
  BY <1>2, <1>5, UntouchedKept
<1> QED
  BY <1>1, <1>3, <1>4, <1>5

LEMMA TamperKeeps ==
  ASSUME Tamper, ObjectsInv, NEW o \in DOMAIN live'
  PROVE  IF o \in DOMAIN live THEN ObjectKept(o) ELSE ObjectNew(o)
<1>1. PICK x \in DOMAIN live :
        \/ live' = Restrict(live, DOMAIN live \ {x})
        \/ live' = [live EXCEPT ![x].labels = << >>]
        \/ live' = [live EXCEPT ![x].body = Body("other", << >>)]
        \/ live' = [live EXCEPT ![x].roleRef = "other"]
  BY DEF Tamper
<1>2. pc' = pc
  BY DEF Tamper
<1>3. o \in DOMAIN live
  BY <1>1 DEF Restrict
<1>4. DOMAIN live[o] = Fields
  BY <1>3 DEF ObjectsInv
<1>5. /\ DOMAIN live'[o] = Fields
      /\ live'[o].revision = live[o].revision
      /\ live'[o].podLabels = live[o].podLabels
  <2>1. CASE live' = Restrict(live, DOMAIN live \ {x})
    BY <1>4, <2>1 DEF Restrict
  <2>2. CASE live' = [live EXCEPT ![x].labels = << >>]
    BY <1>3, <1>4, <2>2
  <2>3. CASE live' = [live EXCEPT ![x].body = Body("other", << >>)]
    BY <1>3, <1>4, <2>3
  <2>4. CASE live' = [live EXCEPT ![x].roleRef = "other"]
    BY <1>3, <1>4, <2>4
  <2> QED
    BY <1>1, <2>1, <2>2, <2>3, <2>4
<1> QED
  BY <1>2, <1>3, <1>5 DEF ObjectKept

LEMMA RollOutKeeps ==
  ASSUME RollOut, ObjectsInv, NEW o \in DOMAIN live'
  PROVE  o \in DOMAIN live /\ ObjectKept(o)
<1>1. live' = [live EXCEPT !["Deployment"].revision = rollouts'] /\ pc' = pc
  BY DEF RollOut
<1>2. o \in DOMAIN live
  BY <1>1
<1>3. DOMAIN live[o] = Fields
  BY <1>2 DEF ObjectsInv
<1>4. DOMAIN live'[o] = Fields /\ live'[o].podLabels = live[o].podLabels
  BY <1>1, <1>2, <1>3
<1> QED
  BY <1>1, <1>2, <1>4 DEF ObjectKept

LEMMA StepKeeps ==
  ASSUME [Next]_vars, ObjectsInv, NEW o \in DOMAIN live'
  PROVE  IF o \in DOMAIN live THEN ObjectKept(o) ELSE ObjectNew(o)
<1>1. o \in DOMAIN live => DOMAIN live[o] = Fields
  BY DEF ObjectsInv
<1>2. CASE live' = live
  BY <1>1, <1>2, UntouchedKept
<1>3. CASE ensureServiceAccount
  BY <1>3, GetKeeps DEF ensureServiceAccount, Objects
<1>4. CASE ensureRole
  BY <1>4, GetKeeps DEF ensureRole, Objects
<1>5. CASE ensureRoleBinding
  BY <1>5, GetKeeps DEF ensureRoleBinding, Objects
<1>6. CASE ensureRobinDeployment
  BY <1>6, GetKeeps DEF ensureRobinDeployment, Objects
<1>7. CASE deleteRoleBinding
  <2>1. live' = Restrict(live, DOMAIN live \ {"RoleBinding"})
    BY <1>7 DEF deleteRoleBinding
  <2>2. o \in DOMAIN live /\ live'[o] = live[o]
    BY <2>1 DEF Restrict
  <2> QED
    BY <1>1, <2>2, UntouchedKept
<1>8. CASE recreateRoleBinding /\ live' # live
  <2>1. "RoleBinding" \notin DOMAIN live /\ live' = Put(live, "RoleBinding", Desired("RoleBinding", snap))
    BY <1>8 DEF recreateRoleBinding
  <2>2. o # "RoleBinding" => o \in DOMAIN live /\ live'[o] = live[o]
    BY <2>1 DEF Put
  <2>3. o = "RoleBinding" => o \notin DOMAIN live /\ live'[o] = Desired(o, snap)
    BY <2>1 DEF Put
  <2> QED
    BY <1>1, <2>2, <2>3, UntouchedKept, DesiredObject DEF ObjectNew
<1>9. CASE Tamper
  BY <1>9, TamperKeeps
<1>10. CASE RollOut
  BY <1>10, RollOutKeeps
<1>11. Reconcile \/ Abort \/ EditSpec \/ SyncSpec \/ (\E x \in Objects : SyncObject(x)) \/ UNCHANGED vars
         => live' = live
  BY DEF Reconcile, Abort, EditSpec, SyncSpec, SyncObject, vars
<1> QED
  BY <1>2, <1>3, <1>4, <1>5, <1>6, <1>7, <1>8, <1>9, <1>10, <1>11 DEF Next, Step

-----------------------------------------------------------------------------
\* Whatever old copy a patch is computed from, and whoever else writes: every object
\* of ensureRBAC and ensureRobinDeployment keeps all its fields, and the pods keep
\* the labels the Deployment's selector needs.
THEOREM ObjectsKept == Spec => []ObjectsInv
<1>1. Init => ObjectsInv
  BY DEF Init, ObjectsInv
<1>2. ObjectsInv /\ [Next]_vars => ObjectsInv'
  <2> SUFFICES ASSUME ObjectsInv, [Next]_vars, NEW o \in DOMAIN live'
               PROVE  /\ DOMAIN live'[o] = Fields
                      /\ o = "Deployment" => HasInternal(live'[o].podLabels)
    BY DEF ObjectsInv
  <2> QED
    BY StepKeeps DEF ObjectKept, ObjectNew, ObjectsInv
<1> QED
  BY <1>1, <1>2, PTL DEF Spec

\* preserveManagedAnnotations, for all specs and lags: only the Deployment controller
\* changes its revision annotation.
THEOREM RevisionUntouched == Spec => RevisionKept
<1>1. ObjectsInv /\ [Next]_vars
        => [\A o \in DOMAIN live \cap DOMAIN live' :
              live'[o].revision # live[o].revision => RollOut]_vars
  BY StepKeeps DEF ObjectKept
<1> QED
  BY <1>1, ObjectsKept, PTL DEF Spec, RevisionKept

\* mergeMeta and the merge patches, for all specs and lags: internal labels always win.
THEOREM InternalLabelsWin == Spec => InternalLabelsKept
<1>1. ObjectsInv /\ [Next]_vars
        => [\A o \in DOMAIN live \cap DOMAIN live' :
              /\ HasInternal(live[o].labels) /\ pc' # pc => HasInternal(live'[o].labels)
              /\ o = "Deployment" => HasInternal(live'[o].podLabels)]_vars
  BY StepKeeps DEF ObjectKept, ObjectsInv
<1> QED
  BY <1>1, ObjectsKept, PTL DEF Spec, InternalLabelsKept

-----------------------------------------------------------------------------
(* What mergeEnvVars computes, for lists of any length.  FoldLeft is defined  *)
(* by recursion over the sets of positions; first, that this recursion has a  *)
(* solution; then, that the solution is the loop of the code; then, what the  *)
(* loop keeps.                                                                *)

\* The defaults are named because the provers do not know which strings there are.
EnvVar == [name : STRING, value : STRING]
            \cup {Env("CLUSTER_NAME", "own"), Env("NAMESPACE", "own")}

\* A list of variables in which no name occurs twice.
UniqueNames(env) == \A i, j \in DOMAIN env : env[i].name = env[j].name => i = j

EnvList == {env \in Seq(EnvVar) : UniqueNames(env)}

\* The merged list after the overrides whose positions are in each set: what the
\* fold of mergeEnvVars iterates over.
MergeRound(f, base, overrides, s) ==
  IF s = {} THEN base ELSE SetEnvVar(f[s \ {Max(s)}], overrides[Max(s)])

IsMerge(f, base, overrides, k) ==
  f = [s \in SUBSET (1..k) |-> MergeRound(f, base, overrides, s)]

\* Max is the greatest of some positions.
LEMMA MaxExists ==
  ASSUME NEW n \in Nat, NEW s, s \subseteq 1..n, s # {}
  PROVE  Max(s) \in s /\ \A y \in s : y =< Max(s)
<1>1. PICK m \in s : \A y \in s : y =< m
  <2>1. s \subseteq Nat /\ \A y \in s : y =< n
    OBVIOUS
  <2> QED
    BY <2>1, GreatestNumber
<1>2. \A y \in s : m >= y
  BY <1>1
<1> QED
  BY <1>1, <1>2 DEF Max

\* Taking away the greatest leaves numbers that are smaller.
LEMMA RestBelow ==
  ASSUME NEW k \in Nat, NEW s, s \subseteq 1..(k + 1), s # {}
  PROVE  s \ {Max(s)} \subseteq 1..k
<1>1. Max(s) \in s /\ \A y \in s : y =< Max(s)
  <2>1. k + 1 \in Nat
    OBVIOUS
  <2> QED
    BY <2>1, MaxExists
<1>2. ASSUME NEW y \in s, y # Max(s) PROVE y \in 1..k
  <2>1. y \in 1..(k + 1) /\ Max(s) \in 1..(k + 1) /\ y =< Max(s)
    BY <1>1
  <2> QED
    BY <1>2, <2>1
<1> QED
  BY <1>2

\* The recursion has a solution up to k + 1 when it has one up to k ...
LEMMA MergeExtends ==
  ASSUME NEW base, NEW overrides, NEW k \in Nat, \E f : IsMerge(f, base, overrides, k)
  PROVE  \E f : IsMerge(f, base, overrides, k + 1)
<1>1. PICK f : IsMerge(f, base, overrides, k)
  OBVIOUS
<1> DEFINE g == [s \in SUBSET (1..(k + 1)) |-> MergeRound(f, base, overrides, s)]
<1>2. ASSUME NEW s \in SUBSET (1..k) PROVE g[s] = f[s]
  <2>1. s \in SUBSET (1..(k + 1))
    OBVIOUS
  <2>2. g[s] = MergeRound(f, base, overrides, s)
    BY <2>1
  <2>3. f[s] = MergeRound(f, base, overrides, s)
    BY <1>1 DEF IsMerge
  <2> QED
    BY <2>2, <2>3
<1>3. ASSUME NEW s \in SUBSET (1..(k + 1))
      PROVE  MergeRound(f, base, overrides, s) = MergeRound(g, base, overrides, s)
  <2>1. s # {} => s \ {Max(s)} \in SUBSET (1..k)
    BY RestBelow
  <2>2. s # {} => g[s \ {Max(s)}] = f[s \ {Max(s)}]
    BY <2>1, <1>2
  <2> HIDE DEF g
  <2> QED
    BY <2>2 DEF MergeRound
<1>4. g = [s \in SUBSET (1..(k + 1)) |-> MergeRound(g, base, overrides, s)]
  BY <1>3
<1> HIDE DEF g
<1> QED
  BY <1>4 DEF IsMerge

\* ... so there is no least length for which it has none.
LEMMA MergeExists ==
  ASSUME NEW base, NEW overrides, NEW n \in Nat
  PROVE  \E f : IsMerge(f, base, overrides, n)
<1> DEFINE T == {k \in Nat : ~ \E f : IsMerge(f, base, overrides, k)}
<1>1. SUFFICES ASSUME T # {} PROVE FALSE
  OBVIOUS
<1>2. PICK m \in T : \A k \in T : m =< k
  BY <1>1, LeastNumber
<1>3. m # 0
  <2> DEFINE f == [s \in SUBSET (1..0) |-> base]
  <2>1. \A s \in SUBSET (1..0) : s = {}
    OBVIOUS
  <2>2. f = [s \in SUBSET (1..0) |-> MergeRound(f, base, overrides, s)]
    BY <2>1 DEF MergeRound
  <2> HIDE DEF f
  <2>3. IsMerge(f, base, overrides, 0)
    BY <2>2 DEF IsMerge
  <2> QED
    BY <2>3, <1>2
<1>4. m - 1 \in Nat /\ m - 1 \notin T
  BY <1>2, <1>3
<1>5. \E f : IsMerge(f, base, overrides, m - 1)
  BY <1>4
<1>6. \E f : IsMerge(f, base, overrides, (m - 1) + 1)
  BY <1>4, <1>5, MergeExtends
<1>7. (m - 1) + 1 = m
  OBVIOUS
<1> QED
  BY <1>2, <1>6, <1>7

\* One round of the loop keeps names unique, puts the variable in the list and moves
\* no other.
LEMMA SetEnvVarKeeps ==
  ASSUME NEW env \in EnvList, NEW v \in EnvVar
  PROVE  /\ SetEnvVar(env, v) \in EnvList
         /\ \E i \in DOMAIN SetEnvVar(env, v) : SetEnvVar(env, v)[i] = v
         /\ \A i \in DOMAIN env : env[i].name # v.name
              => i \in DOMAIN SetEnvVar(env, v) /\ SetEnvVar(env, v)[i] = env[i]
<1> DEFINE named == {i \in DOMAIN env : env[i].name = v.name}
           m == Max(named)
<1>1. env \in Seq(EnvVar) /\ UniqueNames(env)
  BY DEF EnvList
<1>2. Len(env) \in Nat /\ DOMAIN env = 1..Len(env)
  BY <1>1
<1>3. CASE named # {}
  <2>1. named \subseteq 1..Len(env)
    BY <1>2
  <2>2. m \in named
    BY <1>2, <1>3, <2>1, MaxExists
  <2>3. SetEnvVar(env, v) = [env EXCEPT ![m] = v]
    BY <1>3 DEF SetEnvVar
  <2> HIDE DEF m
  <2> DEFINE res == [env EXCEPT ![m] = v]
  <2>4. m \in DOMAIN env /\ env[m].name = v.name
    BY <2>2
  <2>5. res \in Seq(EnvVar) /\ DOMAIN res = DOMAIN env
    BY <1>1, <2>4
  <2>6. \A i \in DOMAIN env : i # m => res[i] = env[i]
    OBVIOUS
  <2>7. res[m] = v
    BY <2>4
  <2> HIDE DEF res
  <2>8. \A i \in DOMAIN env : res[i].name = env[i].name
    BY <2>4, <2>6, <2>7
  <2>9. UniqueNames(res)
    BY <1>1, <2>5, <2>8 DEF UniqueNames
  <2>10. res \in EnvList
    BY <2>5, <2>9 DEF EnvList
  <2>11. SetEnvVar(env, v) = res
    BY <2>3 DEF res
  <2> QED
    BY <2>4, <2>5, <2>6, <2>7, <2>10, <2>11
<1>4. CASE named = {}
  <2>1. SetEnvVar(env, v) = Append(env, v)
    BY <1>4 DEF SetEnvVar
  <2> DEFINE res == Append(env, v)
  <2>2. res \in Seq(EnvVar) /\ DOMAIN res = 1..(Len(env) + 1)
    BY <1>1, <1>2
  <2>3. \A i \in DOMAIN env : i \in DOMAIN res /\ i # Len(env) + 1 /\ res[i] = env[i]
    BY <1>1, <1>2
  <2>4. Len(env) + 1 \in DOMAIN res /\ res[Len(env) + 1] = v
    BY <1>1, <1>2
  <2> HIDE DEF res
  <2>5. \A i \in DOMAIN res : i = Len(env) + 1 \/ i \in DOMAIN env
    BY <1>2, <2>2
  <2>6. \A i \in DOMAIN env : env[i].name # v.name
    BY <1>4
  <2>7. UniqueNames(res)
    BY <1>1, <2>3, <2>4, <2>5, <2>6 DEF UniqueNames
  <2>8. res \in EnvList
    BY <2>2, <2>7 DEF EnvList
  <2>9. SetEnvVar(env, v) = res
    BY <2>1 DEF res
  <2> QED
    BY <2>3, <2>4, <2>8, <2>9
<1> QED
  BY <1>3, <1>4

\* The last round of k + 1 is the one of the override k + 1.
LEMMA LastRound ==
  ASSUME NEW k \in Nat
  PROVE  /\ 1..(k + 1) # {}
         /\ Max(1..(k + 1)) = k + 1
         /\ (1..(k + 1)) \ {k + 1} = 1..k
<1>1. 1..(k + 1) # {}
  OBVIOUS
<1>2. Max(1..(k + 1)) \in 1..(k + 1) /\ \A y \in 1..(k + 1) : y =< Max(1..(k + 1))
  <2>1. k + 1 \in Nat
    OBVIOUS
  <2> QED
    BY <1>1, <2>1, MaxExists
<1>3. Max(1..(k + 1)) = k + 1
  BY <1>2
<1>4. (1..(k + 1)) \ {k + 1} = 1..k
  OBVIOUS
<1> QED
  BY <1>1, <1>3, <1>4

\* f[1..k] is the list after the first k rounds of the loop.
Rounds(f, base, overrides, n) ==
  /\ f[1..0] = base
  /\ \A k \in 0..(n - 1) : f[1..(k + 1)] = SetEnvVar(f[1..k], overrides[k + 1])

LEMMA RoundStep ==
  ASSUME NEW base, NEW overrides, NEW n \in Nat, NEW f, IsMerge(f, base, overrides, n)
  PROVE  Rounds(f, base, overrides, n)
<1>1. f[1..0] = base
  <2>1. 1..0 = {} /\ 1..0 \in SUBSET (1..n)
    OBVIOUS
  <2> QED
    BY <2>1 DEF IsMerge, MergeRound
<1>2. ASSUME NEW k \in 0..(n - 1)
      PROVE  f[1..(k + 1)] = SetEnvVar(f[1..k], overrides[k + 1])
  <2>1. k \in Nat /\ 1..(k + 1) \in SUBSET (1..n)
    OBVIOUS
  <2>2. f[1..(k + 1)] = MergeRound(f, base, overrides, 1..(k + 1))
    BY <2>1 DEF IsMerge
  <2> QED
    BY <2>1, <2>2, LastRound DEF MergeRound
<1> QED
  BY <1>1, <1>2 DEF Rounds

\* mergeEnvVars is the loop it is in the code, one override after the other.
LEMMA MergeIsRounds ==
  ASSUME NEW base, NEW overrides, NEW n \in Nat, DOMAIN overrides = 1..n
  PROVE  \E f : Rounds(f, base, overrides, n) /\ mergeEnvVars(base, overrides) = f[1..n]
<1> DEFINE iter == CHOOSE f : f = [s \in SUBSET DOMAIN overrides |->
                     IF s = {} THEN base ELSE SetEnvVar(f[s \ {Max(s)}], overrides[Max(s)])]
<1>1. mergeEnvVars(base, overrides) = iter[DOMAIN overrides]
  BY DEF mergeEnvVars, FoldLeft, MapThenFoldSet
<1>2. iter = CHOOSE f : IsMerge(f, base, overrides, n)
  BY DEF IsMerge, MergeRound
<1> HIDE DEF iter
<1>3. IsMerge(iter, base, overrides, n)
  BY <1>2, MergeExists
<1>4. Rounds(iter, base, overrides, n)
  BY <1>3, RoundStep
<1> QED
  BY <1>1, <1>4

\* A list without duplicates stays so, whatever the user sets and however often: no
\* round is the first to spoil it.
LEMMA MergeKeepsUnique ==
  ASSUME NEW base \in EnvList, NEW overrides \in Seq(EnvVar)
  PROVE  mergeEnvVars(base, overrides) \in EnvList
<1> DEFINE n == Len(overrides)
<1>1. n \in Nat /\ DOMAIN overrides = 1..n /\ \A i \in 1..n : overrides[i] \in EnvVar
  OBVIOUS
<1> HIDE DEF n
<1>2. PICK f : Rounds(f, base, overrides, n) /\ mergeEnvVars(base, overrides) = f[1..n]
  BY <1>1, MergeIsRounds
<1>21. /\ f[1..0] = base
      /\ \A k \in 0..(n - 1) : f[1..(k + 1)] = SetEnvVar(f[1..k], overrides[k + 1])
  BY <1>2 DEF Rounds
<1> DEFINE T == {k \in 0..n : f[1..k] \notin EnvList}
<1>3. SUFFICES ASSUME T # {} PROVE FALSE
  BY <1>1, <1>2
<1>4. PICK m \in T : \A k \in T : m =< k
  <2>1. T \subseteq Nat
    BY <1>1
  <2> QED
    BY <1>3, <2>1, LeastNumber
<1>5. m # 0
  BY <1>21, <1>4
<1>6. m - 1 \in 0..(n - 1) /\ m - 1 \in 0..n /\ m - 1 \notin T /\ (m - 1) + 1 = m
  BY <1>1, <1>4, <1>5
<1>7. f[1..(m - 1)] \in EnvList
  BY <1>6
<1>8. f[1..m] = SetEnvVar(f[1..(m - 1)], overrides[m])
  BY <1>21, <1>6
<1>9. overrides[m] \in EnvVar
  BY <1>1, <1>4, <1>5
<1>10. f[1..m] \in EnvList
  BY <1>7, <1>8, <1>9, SetEnvVarKeeps
<1> QED
  BY <1>4, <1>10

\* The variable is in the list under its name once, with its value.
ToldOnce(env, v) ==
  \E i \in DOMAIN env : {j \in DOMAIN env : env[j].name = v.name} = {i} /\ env[i] = v

\* The defaults, merged last, are in the list once and with their own values.
LEMMA DefaultsWin ==
  ASSUME NEW base \in EnvList
  PROVE  \A d \in {robinDefaultEnvVars[1], robinDefaultEnvVars[2]} :
           ToldOnce(mergeEnvVars(base, robinDefaultEnvVars), d)
<1> DEFINE d1 == Env("CLUSTER_NAME", "own")
           d2 == Env("NAMESPACE", "own")
           once == SetEnvVar(base, d1)
           twice == SetEnvVar(once, d2)
<1>1. d1 \in EnvVar /\ d2 \in EnvVar /\ d1.name # d2.name
  <2>1. d1 \in EnvVar
    BY DEF EnvVar
  <2>2. d2 \in EnvVar
    BY DEF EnvVar
  <2>3. d1.name # d2.name
    BY DEF Env
  <2> QED
    BY <2>1, <2>2, <2>3
<1>2. /\ DOMAIN robinDefaultEnvVars = 1..2
      /\ robinDefaultEnvVars[1] = d1 /\ robinDefaultEnvVars[2] = d2
  BY DEF robinDefaultEnvVars
<1> HIDE DEF d1, d2
<1>3. mergeEnvVars(base, robinDefaultEnvVars) = twice
  <2>1. PICK f : Rounds(f, base, robinDefaultEnvVars, 2)
                 /\ mergeEnvVars(base, robinDefaultEnvVars) = f[1..2]
    BY <1>2, MergeIsRounds
  <2>2. /\ f[1..0] = base
        /\ \A k \in 0..(2 - 1) : f[1..(k + 1)] = SetEnvVar(f[1..k], robinDefaultEnvVars[k + 1])
    BY <2>1 DEF Rounds
  <2>3. f[1..1] = SetEnvVar(f[1..0], d1) /\ f[1..2] = SetEnvVar(f[1..1], d2)
    BY <1>2, <2>2
  <2> QED
    BY <2>1, <2>2, <2>3
<1>4. once \in EnvList /\ \E i \in DOMAIN once : once[i] = d1
  BY <1>1, SetEnvVarKeeps
<1> HIDE DEF once
<1>5. /\ twice \in EnvList
      /\ \E i \in DOMAIN twice : twice[i] = d2
      /\ \A i \in DOMAIN once : once[i].name # d2.name => i \in DOMAIN twice /\ twice[i] = once[i]
  BY <1>1, <1>4, SetEnvVarKeeps
<1> HIDE DEF twice
<1>6. \E i \in DOMAIN twice : twice[i] = d1
  BY <1>1, <1>4, <1>5
<1>7. UniqueNames(twice)
  BY <1>5 DEF EnvList
<1>8. ToldOnce(twice, d1) /\ ToldOnce(twice, d2)
  BY <1>5, <1>6, <1>7 DEF ToldOnce, UniqueNames
<1> QED
  BY <1>2, <1>3, <1>8

LEMMA LongerSeq ==
  ASSUME NEW A, NEW B, NEW q \in Seq(A)
  PROVE  q \in Seq(A \cup B)
  OBVIOUS

LEMMA TemplateMerged ==
  ASSUME NEW s \in Specs
  PROVE  mergeEnvVars(robinDefaultEnvVars, s.env) \in EnvList
<1>1. s.env \in Seq(EnvVar)
  BY EnvAssumption, LongerSeq DEF EnvVar
<1>2. robinDefaultEnvVars \in Seq(EnvVar)
  BY DEF robinDefaultEnvVars, EnvVar
<1>3. UniqueNames(robinDefaultEnvVars)
  BY DEF robinDefaultEnvVars, UniqueNames, Env
<1> QED
  BY <1>1, <1>2, <1>3, MergeKeepsUnique DEF EnvList

LEMMA RobinEnvTold ==
  ASSUME NEW s \in Specs
  PROVE  \A d \in {Env("CLUSTER_NAME", "own"), Env("NAMESPACE", "own")} : ToldOnce(RobinEnv[s], d)
<1>1. RobinEnv[s] = mergeEnvVars(mergeEnvVars(robinDefaultEnvVars, s.env), robinDefaultEnvVars)
  BY DEF RobinEnv
<1> QED
  BY <1>1, TemplateMerged, DefaultsWin DEF robinDefaultEnvVars

LEMMA RobinEnvIsList ==
  ASSUME NEW s \in Specs
  PROVE  RobinEnv[s] \in Seq(EnvVar)
<1>1. RobinEnv[s] = mergeEnvVars(mergeEnvVars(robinDefaultEnvVars, s.env), robinDefaultEnvVars)
  BY DEF RobinEnv
<1>2. robinDefaultEnvVars \in Seq(EnvVar)
  BY DEF robinDefaultEnvVars, EnvVar
<1> QED
  BY <1>1, <1>2, TemplateMerged, MergeKeepsUnique DEF EnvList

-----------------------------------------------------------------------------
\* Every variable of the model of ensureRBAC and ensureRobinDeployment keeps its type.
THEOREM TypeCorrect == Spec => []TypeOK
<1>1. Init => TypeOK
  BY BoundsAssumption DEF Init, TypeOK
<1>2. TypeOK /\ [Next]_vars => TypeOK'
  <2> SUFFICES ASSUME TypeOK, [Next]_vars PROVE TypeOK'
    OBVIOUS
  <2> USE BoundsAssumption DEF TypeOK
  <2>1. CASE Reconcile
    BY <2>1 DEF Reconcile, caches, bounds, Objects
  <2>2. ASSUME NEW o \in Objects, NEW next \in Objects \cup {"idle"}, Get(o, next)
        PROVE  TypeOK'
    <3>1. DOMAIN live' \subseteq DOMAIN live \cup {o}
      BY <2>2 DEF Get, Put
    <3> QED
      BY <2>2, <3>1 DEF Get, caches, bounds
  <2>3. CASE ensureServiceAccount \/ ensureRole \/ ensureRoleBinding \/ ensureRobinDeployment
    BY <2>2, <2>3 DEF ensureServiceAccount, ensureRole, ensureRoleBinding, ensureRobinDeployment, Objects
  <2>4. CASE deleteRoleBinding
    BY <2>4 DEF deleteRoleBinding, Restrict, caches, bounds
  <2>5. CASE recreateRoleBinding
    <3>1. DOMAIN live' \subseteq DOMAIN live \cup {"RoleBinding"}
      BY <2>5 DEF recreateRoleBinding, Put
    <3> QED
      BY <2>5, <3>1 DEF recreateRoleBinding, caches, bounds, Objects
  <2>6. CASE Abort
    BY <2>6 DEF Abort, caches
  <2>7. CASE EditSpec
    BY <2>7 DEF EditSpec, caches
  <2>8. CASE Tamper
    <3>1. DOMAIN live' \subseteq DOMAIN live
      BY <2>8 DEF Tamper, Restrict
    <3> QED
      BY <2>8, <3>1 DEF Tamper, caches
  <2>9. CASE RollOut
    BY <2>9 DEF RollOut, caches, bounds
  <2>10. CASE SyncSpec
    BY <2>10 DEF SyncSpec, bounds
  <2>11. ASSUME NEW o \in Objects, SyncObject(o) PROVE TypeOK'
    <3>1. DOMAIN cached' \subseteq DOMAIN cached \cup {o}
      BY <2>11 DEF SyncObject, Put, Restrict
    <3> QED
      BY <2>11, <3>1 DEF SyncObject, bounds
  <2>12. CASE UNCHANGED vars
    BY <2>12 DEF vars, caches, bounds
  <2> QED
    BY <2>1, <2>3, <2>4, <2>5, <2>6, <2>7, <2>8, <2>9, <2>10, <2>11, <2>12 DEF Next, Step
<1> QED
  BY <1>1, <1>2, PTL DEF Spec

\* A container someone else put there, or one that is told of its cluster.
KnowingBody(body) ==
  body.image # "other" =>
    /\ ToldOnce(body.env, Env("CLUSTER_NAME", "own"))
    /\ ToldOnce(body.env, Env("NAMESPACE", "own"))

KnowingInv == "Deployment" \in DOMAIN live => KnowingBody(live["Deployment"].body)

\* The Deployment that is asked for, and one that is patched towards it, from
\* whatever copy.
LEMMA DesiredKnowing ==
  ASSUME NEW s \in Specs
  PROVE  KnowingBody(Desired("Deployment", s).body)
<1>1. Desired("Deployment", s).body = Body(s.image, RobinEnv[s])
  BY DEF Desired
<1>2. Body(s.image, RobinEnv[s]).env = RobinEnv[s]
  BY DEF Body
<1> QED
  BY <1>1, <1>2, RobinEnvTold DEF KnowingBody

LEMMA PatchedKnowing ==
  ASSUME NEW t, NEW b, NEW s \in Specs, DOMAIN t = Fields, KnowingBody(t.body)
  PROVE  KnowingBody(MergeFrom(t, b, preserveManagedAnnotations(b, Desired("Deployment", s))).body)
<1> DEFINE want == preserveManagedAnnotations(b, Desired("Deployment", s))
<1>1. want.body = Desired("Deployment", s).body
  BY DEF preserveManagedAnnotations, Desired
<1> HIDE DEF want
<1>2. MergeFrom(t, b, want).body \in {t.body, want.body}
  BY DEF MergeFrom, Fields
<1> QED
  BY <1>1, <1>2, DesiredKnowing DEF want

\* mergeEnvVars and the merge patches, for templates with any number of variables
\* under any names, and for all lags: Robin is told of its own cluster, once.
THEOREM RobinTold == Spec => []RobinKnowsItsCluster
<1>1. Init => KnowingInv
  BY DEF Init, KnowingInv
<1>2. TypeOK /\ ObjectsInv /\ KnowingInv /\ [Next]_vars => KnowingInv'
  <2> SUFFICES ASSUME TypeOK, ObjectsInv, KnowingInv, [Next]_vars, "Deployment" \in DOMAIN live'
               PROVE  KnowingBody(live'["Deployment"].body)
    BY DEF KnowingInv
  <2> DEFINE d == "Deployment"
  <2>1. snap \in Specs
    BY DEF TypeOK
  <2>2. d \in DOMAIN live => DOMAIN live[d] = Fields
    BY DEF ObjectsInv
  <2>3. d \in DOMAIN live => KnowingBody(live[d].body)
    BY DEF KnowingInv
  <2>4. CASE d \in DOMAIN live /\ live'[d].body = live[d].body
    BY <2>3, <2>4
  <2>5. CASE ensureRobinDeployment
    <3>1. \/ live' = Put(live, d, Desired(d, snap))
          \/ /\ d \in DOMAIN live
             /\ live' = [live EXCEPT ![d] =
                    MergeFrom(@, cached[d], preserveManagedAnnotations(cached[d], Desired(d, snap)))]
          \/ live' = live
      BY <2>5 DEF ensureRobinDeployment, Get
    <3>2. CASE live' = Put(live, d, Desired(d, snap))
      <4>1. live'[d] = Desired(d, snap)
        BY <3>2 DEF Put
      <4> QED
        BY <2>1, <4>1, DesiredKnowing
    <3>3. CASE /\ d \in DOMAIN live
               /\ live' = [live EXCEPT ![d] =
                    MergeFrom(@, cached[d], preserveManagedAnnotations(cached[d], Desired(d, snap)))]
      <4>1. live'[d] = MergeFrom(live[d], cached[d], preserveManagedAnnotations(cached[d], Desired(d, snap)))
        BY <3>3
      <4> QED
        BY <2>1, <2>2, <2>3, <3>3, <4>1, PatchedKnowing
    <3>4. CASE live' = live
      BY <2>4, <3>4
    <3> QED
      BY <3>1, <3>2, <3>3, <3>4
  <2>6. ASSUME NEW o \in {"ServiceAccount", "Role", "RoleBinding"}, NEW next, Get(o, next)
        PROVE  d \in DOMAIN live /\ live'[d] = live[d]
    BY <2>6 DEF Get, Put
  <2>7. CASE ensureServiceAccount \/ ensureRole \/ ensureRoleBinding
    BY <2>4, <2>6, <2>7 DEF ensureServiceAccount, ensureRole, ensureRoleBinding
  <2>8. CASE deleteRoleBinding \/ recreateRoleBinding
    BY <2>4, <2>8 DEF deleteRoleBinding, recreateRoleBinding, Restrict, Put
  <2>9. CASE Tamper
    <3>1. PICK x \in DOMAIN live :
            \/ live' = Restrict(live, DOMAIN live \ {x})
            \/ live' = [live EXCEPT ![x].labels = << >>]
            \/ live' = [live EXCEPT ![x].body = Body("other", << >>)]
            \/ live' = [live EXCEPT ![x].roleRef = "other"]
      BY <2>9 DEF Tamper
    <3>2. d \in DOMAIN live
      BY <3>1 DEF Restrict
    <3>3. CASE live' = Restrict(live, DOMAIN live \ {x})
      BY <2>4, <3>2, <3>3 DEF Restrict
    <3>4. CASE live' = [live EXCEPT ![x].labels = << >>]
      BY <2>2, <2>4, <3>2, <3>4 DEF Fields
    <3>5. CASE live' = [live EXCEPT ![x].body = Body("other", << >>)]
      <4>1. x # d => live'[d] = live[d]
        BY <3>2, <3>5
      <4>2. x = d => live'[d].body = Body("other", << >>)
        BY <2>2, <3>2, <3>5 DEF Fields
      <4>3. KnowingBody(Body("other", << >>))
        BY DEF KnowingBody, Body
      <4> QED
        BY <2>4, <3>2, <4>1, <4>2, <4>3
    <3>6. CASE live' = [live EXCEPT ![x].roleRef = "other"]
      BY <2>2, <2>4, <3>2, <3>6 DEF Fields
    <3> QED
      BY <3>1, <3>3, <3>4, <3>5, <3>6
  <2>10. CASE RollOut
    <3>1. live' = [live EXCEPT ![d].revision = rollouts'] /\ d \in DOMAIN live
      BY <2>10 DEF RollOut
    <3> QED
      BY <2>2, <2>4, <3>1 DEF Fields
  <2>11. Reconcile \/ Abort \/ EditSpec \/ SyncSpec \/ (\E x \in Objects : SyncObject(x)) \/ UNCHANGED vars
           => live' = live
    BY DEF Reconcile, Abort, EditSpec, SyncSpec, SyncObject, vars
  <2> QED
    BY <2>4, <2>5, <2>7, <2>8, <2>9, <2>10, <2>11 DEF Next, Step
<1>3. KnowingInv => RobinKnowsItsCluster
  BY DEF KnowingInv, KnowingBody, ToldOnce, RobinKnowsItsCluster, Env
<1> QED
  BY <1>1, <1>2, <1>3, TypeCorrect, ObjectsKept, PTL DEF Spec

-----------------------------------------------------------------------------
IsMap(f) == f = [k \in DOMAIN f |-> f[k]]

\* A patch of a map, computed from the map it is applied to, gives the desired map.
LEMMA CurrentMap ==
  ASSUME NEW t, NEW w, IsMap(w)
  PROVE  PatchMap(t, t, w) = w
<1> DEFINE removed == DOMAIN t \ DOMAIN w
           kept == {k \in DOMAIN w : k \in DOMAIN t /\ t[k] = w[k]}
           changes == Restrict(w, DOMAIN w \ kept)
           rest == Restrict(t, DOMAIN t \ removed)
<1>1. PatchMap(t, t, w) = Over(changes, rest)
  BY DEF PatchMap
<1>2. DOMAIN changes = DOMAIN w \ kept /\ DOMAIN rest = DOMAIN t \ removed
  BY DEF Restrict
<1>3. (DOMAIN w \ kept) \cup (DOMAIN t \ removed) = DOMAIN w
  OBVIOUS
<1>4. \A k \in DOMAIN w : (IF k \in DOMAIN changes THEN changes[k] ELSE rest[k]) = w[k]
  BY <1>2 DEF Restrict
<1>5. Over(changes, rest) = [k \in DOMAIN w |-> IF k \in DOMAIN changes THEN changes[k] ELSE rest[k]]
  BY <1>2, <1>3 DEF Over
<1> HIDE DEF changes, rest
<1> QED
  BY <1>1, <1>4, <1>5 DEF IsMap

LEMMA DesiredMaps ==
  ASSUME NEW o, NEW s
  PROVE  IsMap(Desired(o, s).labels) /\ IsMap(Desired(o, s).podLabels)
<1>1. Desired(o, s).labels = mergeMeta(s.labels, << >>, Internal)
  BY DEF Desired
<1>2. Desired(o, s).podLabels \in {mergeMeta(s.labels, s.templateLabels, Internal), << >>}
  BY DEF Desired
<1>3. ASSUME NEW f, NEW g
      PROVE  IsMap(mergeMeta(f, g, Internal))
  BY DEF mergeMeta, Over, IsMap
<1>4. IsMap(<< >>)
  BY DEF IsMap
<1> QED
  BY <1>1, <1>2, <1>3, <1>4

LEMMA DesiredHasNoDrift ==
  ASSUME NEW o, NEW s \in Specs, NEW t,
         t.labels = Desired(o, s).labels, t.podLabels = Desired(o, s).podLabels,
         t.body = Desired(o, s).body, t.nodeSelector = Desired(o, s).nodeSelector
  PROVE  ~needsUpdate(o, t, Desired(o, s))
<1> DEFINE env == Desired(o, s).body.env
<1>1. env \in Seq(EnvVar)
  <2>1. env \in {RobinEnv[s], << >>}
    BY DEF Desired, Body, DesiredRobinRules
  <2> HIDE DEF env
  <2>2. << >> \in Seq(EnvVar)
    OBVIOUS
  <2> QED
    BY <2>1, <2>2, RobinEnvIsList
<1> HIDE DEF env
<1>2. IsPrefix(env, env)
  BY <1>1 DEF IsPrefix
<1> USE DEF env
<1>3. DeepDerivative(Desired(o, s), t)
  BY <1>2 DEF DeepDerivative
<1> QED
  BY <1>3 DEF needsUpdate

LEMMA CurrentPatch ==
  ASSUME NEW o, NEW s \in Specs, NEW t, DOMAIN t = Fields
  PROVE  ~needsUpdate(o, MergeFrom(t, t, preserveManagedAnnotations(t, Desired(o, s))), Desired(o, s))
<1> DEFINE want == preserveManagedAnnotations(t, Desired(o, s))
           patched == MergeFrom(t, t, want)
<1>1. /\ want.labels = Desired(o, s).labels /\ want.podLabels = Desired(o, s).podLabels
      /\ want.body = Desired(o, s).body /\ want.nodeSelector = Desired(o, s).nodeSelector
  BY DEF preserveManagedAnnotations, Desired
<1> HIDE DEF want
<1>2. /\ patched.labels = PatchMap(t.labels, t.labels, want.labels)
      /\ patched.podLabels = PatchMap(t.podLabels, t.podLabels, want.podLabels)
  BY DEF MergeFrom, Fields
<1>3. patched.body = want.body /\ patched.nodeSelector = want.nodeSelector
  BY DEF MergeFrom, Fields
<1> HIDE DEF patched
<1>4. patched.labels = want.labels /\ patched.podLabels = want.podLabels
  BY <1>1, <1>2, CurrentMap, DesiredMaps
<1>5. ~needsUpdate(o, patched, Desired(o, s))
  BY <1>1, <1>3, <1>4, DesiredHasNoDrift
<1> USE DEF patched, want
<1> QED
  BY <1>5

LEMMA RollOutNoDrift ==
  ASSUME RollOut, ObjectsInv, NEW o \in DOMAIN live', NEW want
  PROVE  needsUpdate(o, live[o], want) <=> needsUpdate(o, live'[o], want)
<1>1. live' = [live EXCEPT !["Deployment"].revision = rollouts']
  BY DEF RollOut
<1>2. o \in DOMAIN live /\ DOMAIN live[o] = Fields
  BY <1>1 DEF ObjectsInv
<1>3. /\ live'[o].labels = live[o].labels /\ live'[o].podLabels = live[o].podLabels
      /\ live'[o].body = live[o].body /\ live'[o].nodeSelector = live[o].nodeSelector
  BY <1>1, <1>2 DEF Fields
<1> QED
  BY <1>3 DEF needsUpdate, DeepDerivative

LEMMA GetRepairs ==
  ASSUME NEW o, NEW next, Get(o, next), TypeOK, ObjectsInv, o \in DOMAIN live',
         o \in DOMAIN live => o \in DOMAIN cached /\ cached[o] = live[o]
  PROVE  ~needsUpdate(o, live'[o], Desired(o, snap))
<1>1. snap \in Specs
  BY DEF TypeOK
<1>2. CASE o \notin DOMAIN live
  <2>1. live' = Put(live, o, Desired(o, snap))
    BY <1>2 DEF Get
  <2>2. live'[o] = Desired(o, snap)
    BY <2>1 DEF Put
  <2> QED
    BY <1>1, <2>2, DesiredHasNoDrift
<1>3. CASE o \in DOMAIN live /\ needsUpdate(o, cached[o], Desired(o, snap))
  <2>1. live' = [live EXCEPT ![o] =
                   MergeFrom(@, cached[o], preserveManagedAnnotations(cached[o], Desired(o, snap)))]
    BY <1>3 DEF Get
  <2>2. live'[o] = MergeFrom(live[o], live[o], preserveManagedAnnotations(live[o], Desired(o, snap)))
    BY <1>3, <2>1
  <2>3. DOMAIN live[o] = Fields
    BY <1>3 DEF ObjectsInv
  <2> QED
    BY <1>1, <2>2, <2>3, CurrentPatch
<1>4. CASE o \in DOMAIN live /\ ~needsUpdate(o, cached[o], Desired(o, snap))
  BY <1>4 DEF Get
<1> QED
  BY <1>2, <1>3, <1>4

\* ensureRBAC and ensureRobinDeployment, for all specs: one look through a current copy
\* repairs an object, and the Deployment controller gives the operator nothing to repair.
THEOREM CurrentCopyRepairs == Spec => DriftRepaired
<1> DEFINE Repaired ==
      \A o \in DOMAIN live' :
        /\ SeenAsItIs(o) => ~needsUpdate(o, live'[o], Desired(o, snap))
        /\ RollOut => (needsUpdate(o, live[o], Desired(o, spec))
                         <=> needsUpdate(o, live'[o], Desired(o, spec)))
<1>1. TypeOK /\ TypeOK' /\ ObjectsInv /\ [Next]_vars => [Repaired]_vars
  <2> SUFFICES ASSUME TypeOK, TypeOK', ObjectsInv, Next, NEW o \in DOMAIN live'
               PROVE  /\ SeenAsItIs(o) => ~needsUpdate(o, live'[o], Desired(o, snap))
                      /\ RollOut => (needsUpdate(o, live[o], Desired(o, spec))
                                       <=> needsUpdate(o, live'[o], Desired(o, spec)))
    OBVIOUS
  <2>1. RollOut => (needsUpdate(o, live[o], Desired(o, spec))
                      <=> needsUpdate(o, live'[o], Desired(o, spec)))
    BY RollOutNoDrift
  <2> SUFFICES ASSUME SeenAsItIs(o) PROVE ~needsUpdate(o, live'[o], Desired(o, snap))
    BY <2>1
  <2>2. /\ pc = o /\ pc' # pc /\ aborts' = aborts
        /\ o \in DOMAIN live => o \in DOMAIN cached /\ cached[o] = live[o]
    BY DEF SeenAsItIs
  <2>3. o \in Objects /\ o # "idle" /\ o # "recreate"
    BY DEF TypeOK, Objects
  <2>4. (\E next : Get(o, next)) \/ deleteRoleBinding
    <3>1. Reconcile => pc = "idle"
      BY DEF Reconcile
    <3>2. recreateRoleBinding => pc = "recreate"
      BY DEF recreateRoleBinding
    <3>3. Abort => aborts' # aborts
      BY DEF Abort, TypeOK
    <3>4. EditSpec \/ Tamper \/ RollOut \/ SyncSpec \/ (\E x \in Objects : SyncObject(x)) => pc' = pc
      BY DEF EditSpec, Tamper, RollOut, SyncSpec, SyncObject
    <3>5. ensureServiceAccount \/ ensureRole \/ ensureRoleBinding \/ ensureRobinDeployment
            => \E next : Get(pc, next)
      <4>1. ensureServiceAccount => pc = "ServiceAccount" /\ Get("ServiceAccount", "Role")
        BY DEF ensureServiceAccount, Get
      <4>2. ensureRole => pc = "Role" /\ Get("Role", "RoleBinding")
        BY DEF ensureRole, Get
      <4>3. ensureRoleBinding => pc = "RoleBinding" /\ Get("RoleBinding", "Deployment")
        BY DEF ensureRoleBinding, Get
      <4>4. ensureRobinDeployment => pc = "Deployment" /\ Get("Deployment", "idle")
        BY DEF ensureRobinDeployment, Get
      <4> QED
        BY <4>1, <4>2, <4>3, <4>4
    <3> QED
      BY <2>2, <2>3, <3>1, <3>2, <3>3, <3>4, <3>5 DEF Next, Step
  <2>5. ~deleteRoleBinding
    BY <2>2 DEF deleteRoleBinding, Restrict
  <2> QED
    BY <2>2, <2>4, <2>5, GetRepairs
<1> QED
  BY <1>1, TypeCorrect, ObjectsKept, PTL DEF Spec, DriftRepaired
=============================================================================
