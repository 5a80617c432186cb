------------------------- MODULE FleetMetricsProofs -------------------------
(***************************************************************************)
(* What the shared trackers of the metrics guarantee for any number of     *)
(* Redkeys and operations, any interleaving of their reconciles and any    *)
(* number of restarts.                                                     *)
(***************************************************************************)
EXTENDS FleetMetrics, FiniteSetTheorems, TLAPS

\* The status of a snapshot is an operation, or one of the three that are none
\* (InOperation).
LEMMA SnapshotStatus ==
  ASSUME NEW s \in Snapshots \cup {Fresh}
  PROVE  /\ s.status \in Operations \cup {"", "Ready", "Error"}
         /\ InOperation(s) <=> s.status \in Operations
<1> DEFINE OK == Operations \cup {"", "Ready", "Error"}
<1>1. ASSUME NEW a \in Aggregated PROVE a.status \in OK
  <2>1. PICK r \in Reports : a = [status |-> r.status, phase |-> computePhaseFromConditions(aggregateConditions(r)), config |-> r.phase]
    BY <1>1 DEF Aggregated
  <2>2. a.status = r.status BY <2>1
  <2>3. QED BY <2>2, MetricsAssumption DEF MetricsAssumption
<1>2. s.status \in OK
  <2>1. CASE s \in Aggregated BY <1>1, <2>1
  <2>2. CASE s \in {WithoutConfig(a) : a \in Aggregated}
    <3>1. PICK a \in Aggregated : s = WithoutConfig(a) BY <2>2
    <3>2. QED BY <1>1, <3>1 DEF WithoutConfig
  <2>3. CASE s = ScaledToZero BY <2>3 DEF ScaledToZero
  <2>4. CASE s = Fresh BY <2>4 DEF Fresh
  <2>5. QED BY <2>1, <2>2, <2>3, <2>4 DEF Snapshots
<1>3. QED BY <1>2, MetricsAssumption DEF InOperation, MetricsAssumption

\* Increasing one of a family of counters, as the counters of metrics.go are.
LEMMA CounterStep ==
  ASSUME NEW D, NEW f \in [D -> Nat], NEW i \in D
  PROVE  [f EXCEPT ![i] = f[i] + 1] \in [D -> Nat]
OBVIOUS

\* Counters that start at 0, as those of metrics.go do.
LEMMA CounterInit ==
  ASSUME NEW D
  PROVE  [i \in D |-> 0] \in [D -> Nat]
OBVIOUS

\* Every action keeps the types (TypeOK).
LEMMA TypeStep ==
  ASSUME TypeOK, [Next]_vars
  PROVE  TypeOK'
<1> USE MetricsAssumption DEF MetricsAssumption, TypeOK
<1>1. ASSUME NEW k \in Keys, Reconcile(k) PROVE TypeOK'
  <2>1. pc' \in [Keys -> {"idle", "observe", "setGauges", "enteredReady", "deleteSeries", "forget"}]
    BY <1>1 DEF Reconcile, Goto
  <2>2. cluster' \in [Keys -> Snapshots \cup {Fresh, None}] /\ snap' \in [Keys -> Snapshots \cup {Fresh}]
    <3>1. CASE cluster[k] = None BY <1>1, <3>1 DEF Reconcile
    <3>2. CASE cluster[k] # None
      <4>1. PICK s \in Snapshots \cup {cluster[k]} :
              cluster' = [cluster EXCEPT ![k] = s] /\ snap' = [snap EXCEPT ![k] = s]
        BY <1>1, <3>2 DEF Reconcile
      <4>2. cluster[k] \in Snapshots \cup {Fresh, None} OBVIOUS
      <4>3. s \in Snapshots \cup {Fresh} BY <3>2, <4>2
      <4>4. QED BY <4>1, <4>3
    <3>3. QED BY <3>1, <3>2
  <2>3. QED BY <1>1, <2>1, <2>2 DEF Reconcile, trackers, gauges
<1>2. ASSUME NEW k \in Keys, observe(k) PROVE TypeOK'
  <2>1. /\ snap[k].status \in Operations \cup {"", "Ready", "Error"}
        /\ InOperation(snap[k]) <=> snap[k].status \in Operations
    BY SnapshotStatus
  <2>2. active' \in [Keys -> Operations \cup {None}] /\ seen' \in [Keys -> Operations \cup {"", "Ready", "Error", None}]
    BY <1>2, <2>1 DEF observe
  <2>3. total' \in [Operations \X Results -> Nat]
    <3>1. Ends(k) => active[k] \in Operations BY DEF Ends
    <3>2. ResultOf(snap[k]) \in Results BY DEF ResultOf, Results
    <3>3. CASE Ends(k)
      <4>1. PICK i \in Operations \X Results : i = <<active[k], ResultOf(snap[k])>>
        BY <3>1, <3>2, <3>3
      <4>2. total' = [total EXCEPT ![i] = total[i] + 1] BY <1>2, <3>3, <4>1 DEF observe
      <4>3. QED BY <4>2, CounterStep
    <3>4. CASE ~Ends(k) BY <1>2, <3>4 DEF observe
    <3>5. QED BY <3>3, <3>4
  <2>4. begun' \in [Operations -> Nat]
    <3>1. CASE InOperation(snap[k]) /\ seen[k] # snap[k].status
      <4>1. PICK op \in Operations : op = snap[k].status BY <2>1, <3>1
      <4>2. begun' = [begun EXCEPT ![op] = begun[op] + 1] BY <1>2, <3>1, <4>1 DEF observe
      <4>3. QED BY <4>2, CounterStep
    <3>2. CASE ~(InOperation(snap[k]) /\ seen[k] # snap[k].status) BY <1>2, <3>2 DEF observe
    <3>3. QED BY <3>1, <3>2
  <2>5. QED BY <1>2, <2>2, <2>3, <2>4 DEF observe, Goto, status, gauges
<1>3. ASSUME NEW k \in Keys, setGauges(k) PROVE TypeOK'
  <2>1. InOperation(snap[k]) => snap[k].status \in Operations BY SnapshotStatus
  <2>2. QED BY <1>3, <2>1 DEF setGauges, Goto, status, trackers
<1>4. ASSUME NEW k \in Keys, enteredReady(k) PROVE TypeOK'
  BY <1>4 DEF enteredReady, Goto, status, gauges
<1>5. ASSUME NEW k \in Keys, deleteSeries(k) PROVE TypeOK'
  BY <1>5 DEF deleteSeries, Goto, status, trackers
<1>6. ASSUME NEW k \in Keys, forget(k) PROVE TypeOK'
  <2>1. lost' \in [Operations -> Nat]
    <3>1. CASE seen[k] \in Operations
      <4>1. lost' = [lost EXCEPT ![seen[k]] = lost[seen[k]] + 1] BY <1>6, <3>1 DEF forget
      <4>2. QED BY <3>1, <4>1, CounterStep
    <3>2. CASE seen[k] \notin Operations BY <1>6, <3>2 DEF forget
    <3>3. QED BY <3>1, <3>2
  <2>2. QED BY <1>6, <2>1 DEF forget, Goto, status, gauges
<1>7. ASSUME NEW k \in Keys, CreateOrDelete(k) PROVE TypeOK'
  BY <1>7 DEF CreateOrDelete, trackers, gauges
<1>8. CASE Restart BY <1>8 DEF Restart
<1>9. CASE UNCHANGED vars BY <1>9 DEF vars, status, trackers, gauges
<1>10. QED BY <1>1, <1>2, <1>3, <1>4, <1>5, <1>6, <1>7, <1>8, <1>9 DEF Next, Step

\* The trackers and counters of a new process have their types (TypeOK).
LEMMA InitTyped == Init => TypeOK
<1> SUFFICES ASSUME Init PROVE TypeOK OBVIOUS
<1>1. total \in [Operations \X Results -> Nat] /\ begun \in [Operations -> Nat] /\ lost \in [Operations -> Nat]
  BY CounterInit DEF Init
<1>2. QED BY <1>1 DEF Init, TypeOK

\* Types are kept by every behaviour (TypeOK).
THEOREM MetricsTyped == Spec => []TypeOK
BY InitTyped, TypeStep, PTL DEF Spec

-----------------------------------------------------------------------------
\* 1 when x and y are the same, to count with.
One(x, y) == IF x = y THEN 1 ELSE 0

Tracked(f, op) == Cardinality({k \in Keys : f[k] = op})

\* Writing one entry of the map of a tracker moves at most one key from the operation
\* it had to the new one (opTracker.active).
LEMMA TrackedStep ==
  ASSUME NEW f \in [Keys -> Operations \cup {None}], NEW k \in Keys,
         NEW v \in Operations \cup {None}, NEW op \in Operations
  PROVE  /\ Tracked(f, op) \in Nat /\ Tracked([f EXCEPT ![k] = v], op) \in Nat
         /\ Tracked([f EXCEPT ![k] = v], op) + One(f[k], op) = Tracked(f, op) + One(v, op)
<1> DEFINE rest == {j \in Keys \ {k} : f[j] = op}
           g == [f EXCEPT ![k] = v]
           F == {j \in Keys : f[j] = op}
           G == {j \in Keys : g[j] = op}
<1>1. IsFiniteSet(Keys) BY MetricsAssumption DEF MetricsAssumption
<1>2. IsFiniteSet(rest)
  <2>1. rest \subseteq Keys OBVIOUS
  <2>2. QED BY <1>1, <2>1, FS_Subset
<1>3. /\ Cardinality(rest) \in Nat
      /\ Cardinality(rest \cup {k}) = Cardinality(rest) + 1
  <2>1. k \notin rest OBVIOUS
  <2>2. QED BY <1>2, <2>1, FS_AddElement, FS_CardinalityType
<1>4. F = IF f[k] = op THEN rest \cup {k} ELSE rest OBVIOUS
<1>5. G = IF v = op THEN rest \cup {k} ELSE rest
  <2>1. \A j \in Keys : g[j] = IF j = k THEN v ELSE f[j] OBVIOUS
  <2> HIDE DEF g
  <2>2. QED BY <2>1
<1>6. Cardinality(F) = Cardinality(rest) + One(f[k], op) BY <1>3, <1>4 DEF One
<1>7. Cardinality(G) = Cardinality(rest) + One(v, op)
  <2> HIDE DEF G, rest
  <2>1. CASE v = op BY <1>3, <1>5, <2>1 DEF One
  <2>2. CASE v # op BY <1>3, <1>5, <2>2 DEF One
  <2>3. QED BY <2>1, <2>2
<1>8. QED
  <2>1. One(f[k], op) \in Nat /\ One(v, op) \in Nat BY DEF One
  <2>2. Tracked(f, op) = Cardinality(F) /\ Tracked(g, op) = Cardinality(G) BY DEF Tracked
  <2> HIDE DEF F, G, g, rest
  <2>3. /\ Tracked(f, op) \in Nat /\ Tracked(g, op) \in Nat
        /\ Tracked(g, op) + One(f[k], op) = Tracked(f, op) + One(v, op)
    BY <1>3, <1>6, <1>7, <2>1, <2>2
  <2>4. QED BY <2>3 DEF g

\* An increase of redkey_operation_total under one of the three results counts once.
LEMMA CountedStep ==
  ASSUME NEW op \in Operations, NEW a \in Operations, NEW r \in Results,
         total \in [Operations \X Results -> Nat],
         total' = [total EXCEPT ![<<a, r>>] = total[<<a, r>>] + 1]
  PROVE  Counted(op)' = Counted(op) + One(a, op) /\ Counted(op) \in Nat
<1> DEFINE at(x) == <<op, x>>
<1>1. \A x \in Results : total[at(x)] \in Nat OBVIOUS
<1>2. \A x \in Results : total'[at(x)] = total[at(x)] + One(<<a, r>>, at(x))
  <2> SUFFICES ASSUME NEW x \in Results PROVE total'[at(x)] = total[at(x)] + One(<<a, r>>, at(x))
    OBVIOUS
  <2>1. PICK i \in Operations \X Results : i = at(x) OBVIOUS
  <2>2. PICK j \in Operations \X Results : j = <<a, r>> OBVIOUS
  <2>3. total' = [total EXCEPT ![j] = total[j] + 1] BY <2>2
  <2>4. total[i] \in Nat OBVIOUS
  <2>5. total'[i] = total[i] + One(j, i) BY <2>3, <2>4 DEF One
  <2>6. QED BY <2>1, <2>2, <2>5
<1>3. r \in {"success", "error", "superseded"} BY DEF Results
<1>4. /\ One(<<a, r>>, at("success")) + One(<<a, r>>, at("error")) + One(<<a, r>>, at("superseded"))
         = One(a, op)
      /\ \A x \in Results : One(<<a, r>>, at(x)) \in Nat
      /\ One(a, op) \in Nat
  BY <1>3 DEF One
<1>5. "success" \in Results /\ "error" \in Results /\ "superseded" \in Results BY DEF Results
<1>6. /\ total'[at("success")] = total[at("success")] + One(<<a, r>>, at("success"))
      /\ total'[at("error")] = total[at("error")] + One(<<a, r>>, at("error"))
      /\ total'[at("superseded")] = total[at("superseded")] + One(<<a, r>>, at("superseded"))
      /\ total[at("success")] \in Nat /\ total[at("error")] \in Nat /\ total[at("superseded")] \in Nat
  BY <1>1, <1>2, <1>5
<1>7. Counted(op) = total[at("success")] + total[at("error")] + total[at("superseded")] BY DEF Counted
<1>8. Counted(op)' = total'[at("success")] + total'[at("error")] + total'[at("superseded")] BY DEF Counted
<1>9. One(<<a, r>>, at("success")) \in Nat /\ One(<<a, r>>, at("error")) \in Nat
      /\ One(<<a, r>>, at("superseded")) \in Nat /\ One(a, op) \in Nat
  BY DEF One
<1> DEFINE s0 == total[at("success")]  e0 == total[at("error")]  p0 == total[at("superseded")]
           s1 == One(<<a, r>>, at("success"))  e1 == One(<<a, r>>, at("error"))
           p1 == One(<<a, r>>, at("superseded"))
<1>10. /\ s0 \in Nat /\ e0 \in Nat /\ p0 \in Nat /\ s1 \in Nat /\ e1 \in Nat /\ p1 \in Nat
       /\ Counted(op) = s0 + e0 + p0
       /\ Counted(op)' = (s0 + s1) + (e0 + e1) + (p0 + p1)
       /\ s1 + e1 + p1 = One(a, op)
  BY <1>4, <1>6, <1>7, <1>8, <1>9
<1> HIDE DEF s0, e0, p0, s1, e1, p1
<1>11. QED BY <1>10

\* The tracker holds the operation last seen, if the last status seen was one
\* (opTracker.observe, forget).
TrackInv == \A k \in Keys : active[k] = IF seen[k] \in Operations THEN seen[k] ELSE None

AccountInv == TypeOK /\ TrackInv /\ OperationsAccounted

\* begun, and the same for lost, go up by one for the operation they are increased at.
LEMMA UpStep ==
  ASSUME NEW f \in [Operations -> Nat], NEW i \in Operations, NEW op \in Operations
  PROVE  f[op] \in Nat /\ [f EXCEPT ![i] = f[i] + 1][op] = f[op] + One(i, op)
<1>1. f[op] \in Nat OBVIOUS
<1>2. QED BY <1>1 DEF One

\* opTracker.observe: what begins is tracked, what ends is counted.
LEMMA ObserveAccounted ==
  ASSUME AccountInv, NEW k \in Keys, observe(k)
  PROVE  TrackInv' /\ OperationsAccounted'
<1> DEFINE st == snap[k].status
           v == IF InOperation(snap[k]) THEN st ELSE None
<1>1. /\ st \in Operations \cup {"", "Ready", "Error"}
      /\ InOperation(snap[k]) <=> st \in Operations
      /\ active[k] = IF seen[k] \in Operations THEN seen[k] ELSE None
      /\ active[k] \in Operations \cup {None} /\ v \in Operations \cup {None}
      /\ active' = [active EXCEPT ![k] = v] /\ seen' = [seen EXCEPT ![k] = st]
      /\ None \notin Operations
  BY SnapshotStatus, MetricsAssumption DEF AccountInv, TypeOK, TrackInv, observe, MetricsAssumption
<1>2. TrackInv'
  BY <1>1 DEF AccountInv, TypeOK, TrackInv
<1>3. OperationsAccounted'
  <2> SUFFICES ASSUME NEW op \in Operations
               PROVE  begun'[op] = Counted(op)' + lost'[op] + Tracked(active', op)
    BY DEF OperationsAccounted, Tracked
  <2>1. begun[op] = Counted(op) + lost[op] + Tracked(active, op)
    BY DEF AccountInv, OperationsAccounted, Tracked
  <2>2. /\ Tracked(active, op) \in Nat /\ Tracked(active', op) \in Nat
        /\ Tracked(active', op) + One(active[k], op) = Tracked(active, op) + One(v, op)
    <3>1. active \in [Keys -> Operations \cup {None}] BY DEF AccountInv, TypeOK
    <3> HIDE DEF v, st
    <3>2. v \in Operations \cup {None} /\ active' = [active EXCEPT ![k] = v] BY <1>1
    <3>3. /\ Tracked(active, op) \in Nat /\ Tracked([active EXCEPT ![k] = v], op) \in Nat
          /\ Tracked([active EXCEPT ![k] = v], op) + One(active[k], op) = Tracked(active, op) + One(v, op)
      BY <3>1, <3>2, TrackedStep
    <3>4. QED BY <3>2, <3>3
  <2>3. lost' = lost /\ lost[op] \in Nat /\ begun[op] \in Nat BY DEF observe, AccountInv, TypeOK
  <2>4. /\ Counted(op) \in Nat
        /\ Counted(op)' = IF Ends(k) THEN Counted(op) + One(active[k], op) ELSE Counted(op)
    <3>1. CASE Ends(k)
      <4>1. active[k] \in Operations BY <1>1, <3>1 DEF Ends
      <4>2. ResultOf(snap[k]) \in Results BY DEF ResultOf, Results
      <4>3. total \in [Operations \X Results -> Nat] BY DEF AccountInv, TypeOK
      <4>4. total' = [total EXCEPT ![<<active[k], ResultOf(snap[k])>>] =
                        total[<<active[k], ResultOf(snap[k])>>] + 1]
        BY <3>1 DEF observe
      <4>5. QED BY <3>1, <4>1, <4>2, <4>3, <4>4, CountedStep
    <3>2. CASE ~Ends(k)
      <4>1. total' = total BY <3>2 DEF observe
      <4>2. Counted(op)' = Counted(op) BY <4>1 DEF Counted
      <4>3. total[<<op, "success">>] \in Nat /\ total[<<op, "error">>] \in Nat
            /\ total[<<op, "superseded">>] \in Nat
        BY DEF AccountInv, TypeOK, Results
      <4>4. Counted(op) \in Nat BY <4>3 DEF Counted
      <4>5. QED BY <3>2, <4>2, <4>4
    <3>3. QED BY <3>1, <3>2
  <2>5. begun'[op] = IF st \in Operations /\ seen[k] # st THEN begun[op] + One(st, op) ELSE begun[op]
    <3>1. CASE st \in Operations /\ seen[k] # st
      <4>1. begun' = [begun EXCEPT ![st] = begun[st] + 1] BY <1>1, <3>1 DEF observe
      <4>2. QED BY <3>1, <4>1, UpStep DEF AccountInv, TypeOK
    <3>2. CASE ~(st \in Operations /\ seen[k] # st) BY <1>1, <3>2 DEF observe
    <3>3. QED BY <3>1, <3>2
  <2>6. One(active[k], op) \in {0, 1} /\ One(v, op) \in {0, 1} /\ One(st, op) \in {0, 1} BY DEF One
  <2> DEFINE a == active[k]
  <2>7. CASE st \in Operations /\ seen[k] = st
    <3>1. a = v /\ ~Ends(k) BY <1>1, <2>7 DEF Ends
    <3>2. QED BY <2>1, <2>2, <2>3, <2>4, <2>5, <2>6, <2>7, <3>1
  <2>8. CASE st \in Operations /\ seen[k] # st
    <3>1. v = st BY <1>1, <2>8
    <3>2. a # v
      <4>1. CASE seen[k] \in Operations
        <5>1. a = seen[k] BY <1>1, <4>1
        <5>2. QED BY <2>8, <3>1, <5>1
      <4>2. CASE seen[k] \notin Operations
        <5>1. a = None BY <1>1, <4>2
        <5>2. v \in Operations BY <2>8, <3>1
        <5>3. QED BY <1>1, <5>1, <5>2
      <4>3. QED BY <4>1, <4>2
    <3>3. IF Ends(k) THEN TRUE ELSE One(a, op) = 0 BY <1>1, <3>1, <3>2 DEF Ends, One
    <3>4. QED BY <2>1, <2>2, <2>3, <2>4, <2>5, <2>6, <2>8, <3>1, <3>3
  <2>9. CASE st \notin Operations
    <3>1. One(v, op) = 0 BY <1>1, <2>9 DEF One
    <3>2. IF Ends(k) THEN TRUE ELSE One(a, op) = 0 BY <1>1, <2>9 DEF Ends, One
    <3>3. QED BY <2>1, <2>2, <2>3, <2>4, <2>5, <2>6, <2>9, <3>1, <3>2
  <2>10. QED BY <2>7, <2>8, <2>9
<1>4. QED BY <1>2, <1>3

\* opTracker.forget: what was tracked for a deleted Redkey is given up, once.
LEMMA ForgetAccounted ==
  ASSUME AccountInv, NEW k \in Keys, forget(k)
  PROVE  TrackInv' /\ OperationsAccounted'
<1>1. /\ active \in [Keys -> Operations \cup {None}]
      /\ active[k] = IF seen[k] \in Operations THEN seen[k] ELSE None
      /\ active' = [active EXCEPT ![k] = None] /\ seen' = [seen EXCEPT ![k] = None]
      /\ None \notin Operations
  BY MetricsAssumption DEF AccountInv, TypeOK, TrackInv, forget, MetricsAssumption
<1>2. TrackInv'
  BY <1>1 DEF AccountInv, TypeOK, TrackInv
<1>3. OperationsAccounted'
  <2> SUFFICES ASSUME NEW op \in Operations
               PROVE  begun'[op] = Counted(op)' + lost'[op] + Tracked(active', op)
    BY DEF OperationsAccounted, Tracked
  <2>1. begun[op] = Counted(op) + lost[op] + Tracked(active, op)
    BY DEF AccountInv, OperationsAccounted, Tracked
  <2>2. /\ Tracked(active, op) \in Nat /\ Tracked([active EXCEPT ![k] = None], op) \in Nat
        /\ Tracked([active EXCEPT ![k] = None], op) + One(active[k], op)
             = Tracked(active, op) + One(None, op)
    <3>1. None \in Operations \cup {None} OBVIOUS
    <3>2. QED BY <1>1, <3>1, TrackedStep
  <2>3. One(None, op) = 0 BY <1>1 DEF One
  <2>4. begun' = begun /\ Counted(op)' = Counted(op) /\ lost[op] \in Nat /\ begun[op] \in Nat
    BY DEF forget, AccountInv, TypeOK, Counted
  <2>5. Counted(op) \in Nat
    <3>1. total[<<op, "success">>] \in Nat /\ total[<<op, "error">>] \in Nat
          /\ total[<<op, "superseded">>] \in Nat
      BY DEF AccountInv, TypeOK, Results
    <3>2. QED BY <3>1 DEF Counted
  <2>6. lost'[op] = lost[op] + One(active[k], op)
    <3>1. CASE seen[k] \in Operations
      <4>1. lost' = [lost EXCEPT ![seen[k]] = lost[seen[k]] + 1] BY <3>1 DEF forget
      <4>2. active[k] = seen[k] BY <1>1, <3>1
      <4>3. lost \in [Operations -> Nat] BY DEF AccountInv, TypeOK
      <4>4. QED BY <3>1, <4>1, <4>2, <4>3, UpStep
    <3>2. CASE seen[k] \notin Operations
      <4>1. lost' = lost BY <3>2 DEF forget
      <4>2. One(active[k], op) = 0 BY <1>1, <3>2 DEF One
      <4>3. QED BY <2>4, <4>1, <4>2
    <3>3. QED BY <3>1, <3>2
  <2>7. One(active[k], op) \in Nat BY DEF One
  <2>8. Tracked(active', op) = Tracked([active EXCEPT ![k] = None], op) BY <1>1
  <2>9. QED BY <2>1, <2>2, <2>3, <2>4, <2>5, <2>6, <2>7, <2>8
<1>4. QED BY <1>2, <1>3

\* Nothing is tracked in the empty map a process starts with (operationTracker).
LEMMA NoneTracked ==
  ASSUME NEW a, a = [k \in Keys |-> None], NEW op \in Operations
  PROVE  Cardinality({k \in Keys : a[k] = op}) = 0
<1>1. {k \in Keys : a[k] = op} = {} BY MetricsAssumption DEF MetricsAssumption
<1>2. QED BY <1>1, FS_EmptySet

\* Nothing is counted when a process starts (redkeyOperationTotal).
LEMMA NoneCounted ==
  ASSUME NEW t, t = [r \in Operations \X Results |-> 0], NEW op \in Operations
  PROVE  t[<<op, "success">>] + t[<<op, "error">>] + t[<<op, "superseded">>] = 0
<1>1. "success" \in Results /\ "error" \in Results /\ "superseded" \in Results BY DEF Results
<1>2. t[<<op, "success">>] = 0 /\ t[<<op, "error">>] = 0 /\ t[<<op, "superseded">>] = 0 BY <1>1
<1>3. QED BY <1>2

\* The accounts hold whatever the reconciles, users and restarts do (metrics.go).
LEMMA AccountStep ==
  ASSUME AccountInv, [Next]_vars
  PROVE  AccountInv'
<1>1. TypeOK' BY TypeStep DEF AccountInv
<1>2. ASSUME UNCHANGED <<active, seen, begun, lost, total>> PROVE TrackInv' /\ OperationsAccounted'
  BY <1>2 DEF AccountInv, TrackInv, OperationsAccounted, Counted
<1>3. ASSUME NEW k \in Keys, Step(k) \/ CreateOrDelete(k) PROVE TrackInv' /\ OperationsAccounted'
  <2>1. CASE Reconcile(k) BY <1>2, <2>1 DEF Reconcile, trackers
  <2>2. CASE observe(k) BY <2>2, ObserveAccounted
  <2>3. CASE setGauges(k) BY <1>2, <2>3 DEF setGauges, trackers
  <2>4. CASE enteredReady(k) BY <1>2, <2>4 DEF enteredReady
  <2>5. CASE deleteSeries(k) BY <1>2, <2>5 DEF deleteSeries, trackers
  <2>6. CASE forget(k) BY <2>6, ForgetAccounted
  <2>7. CASE CreateOrDelete(k) BY <1>2, <2>7 DEF CreateOrDelete, trackers
  <2>8. QED BY <1>3, <2>1, <2>2, <2>3, <2>4, <2>5, <2>6, <2>7 DEF Step
<1>4. CASE Restart
  <2>1. TrackInv' BY <1>4, MetricsAssumption DEF Restart, TrackInv, MetricsAssumption
  <2>2. OperationsAccounted'
    <3> SUFFICES ASSUME NEW op \in Operations
                 PROVE  begun'[op] = Counted(op)' + lost'[op] + Cardinality({k \in Keys : active'[k] = op})
      BY DEF OperationsAccounted
    <3>1. /\ active' = [k \in Keys |-> None] /\ total' = [r \in Operations \X Results |-> 0]
          /\ begun'[op] = 0 /\ lost'[op] = 0
      BY <1>4 DEF Restart
    <3>2. Counted(op)' = 0 BY <3>1, NoneCounted DEF Counted
    <3>3. Cardinality({k \in Keys : active'[k] = op}) = 0 BY <3>1, NoneTracked
    <3>4. QED BY <3>1, <3>2, <3>3
  <2>3. QED BY <1>1, <2>1, <2>2 DEF AccountInv
<1>5. CASE UNCHANGED vars
  <2>1. UNCHANGED <<active, seen, begun, lost, total>> BY <1>5 DEF vars, trackers
  <2>2. QED BY <1>1, <1>2, <2>1 DEF AccountInv
<1>6. QED BY <1>1, <1>3, <1>4, <1>5 DEF Next, AccountInv

\* opTracker counts every operation exactly once, for any number of Redkeys reconciled
\* at the same time, deleted and created again, and any number of restarts.
THEOREM EveryOperationCounted == Spec => []OperationsAccounted
<1>1. Init => AccountInv
  <2> SUFFICES ASSUME Init PROVE AccountInv OBVIOUS
  <2>1. TypeOK BY InitTyped
  <2>2. TrackInv BY MetricsAssumption DEF Init, TrackInv, MetricsAssumption
  <2>3. OperationsAccounted
    <3> SUFFICES ASSUME NEW op \in Operations
                 PROVE  begun[op] = Counted(op) + lost[op] + Cardinality({k \in Keys : active[k] = op})
      BY DEF OperationsAccounted
    <3>1. /\ active = [k \in Keys |-> None] /\ total = [r \in Operations \X Results |-> 0]
          /\ begun[op] = 0 /\ lost[op] = 0
      BY DEF Init
    <3>2. Counted(op) = 0 BY <3>1, NoneCounted DEF Counted
    <3>3. Cardinality({k \in Keys : active[k] = op}) = 0 BY <3>1, NoneTracked
    <3>4. QED BY <3>1, <3>2, <3>3
  <2>4. QED BY <2>1, <2>2, <2>3 DEF AccountInv
<1>2. AccountInv => OperationsAccounted BY DEF AccountInv
<1>3. QED BY <1>1, <1>2, AccountStep, PTL DEF Spec

-----------------------------------------------------------------------------
\* GaugeMatchesTracker with what holds inside a reconcile: after observe the tracker has
\* the operation setGauges is about to show, and before forget the series are gone.
GaugeInv ==
  \A k \in Keys :
    /\ pc[k] \notin {"setGauges", "forget"} => inProgress[k] = {active[k]} \ {None}
    /\ pc[k] = "setGauges" => active[k] = IF InOperation(snap[k]) THEN snap[k].status ELSE None
    /\ pc[k] = "forget" => inProgress[k] = {}

\* Each step of recordRedkeyMetrics and deleteRedkeyMetrics keeps tracker and gauge of
\* its own key together, and leaves those of the others alone.
LEMMA GaugeStep ==
  ASSUME TypeOK, GaugeInv, [Next]_vars
  PROVE  GaugeInv'
<1>1. ASSUME NEW k \in Keys, Reconcile(k) PROVE GaugeInv'
  <2> SUFFICES ASSUME NEW j \in Keys
               PROVE  /\ pc'[j] \notin {"setGauges", "forget"} => inProgress'[j] = {active'[j]} \ {None}
                      /\ pc'[j] = "setGauges" => active'[j] = IF InOperation(snap'[j]) THEN snap'[j].status ELSE None
                      /\ pc'[j] = "forget" => inProgress'[j] = {}
    BY DEF GaugeInv, InOperation
  <2>1. UNCHANGED <<active, inProgress>> /\ pc[k] = "idle" BY <1>1 DEF Reconcile, trackers, gauges
  <2>2. pc' = [pc EXCEPT ![k] = "observe"] \/ pc' = [pc EXCEPT ![k] = "deleteSeries"]
    BY <1>1 DEF Reconcile, Goto
  <2>3. CASE j = k BY <2>1, <2>2, <2>3 DEF TypeOK, GaugeInv
  <2>4. CASE j # k
    <3>1. pc'[j] = pc[j] BY <2>2, <2>4 DEF TypeOK
    <3>2. snap'[j] = snap[j] BY <1>1, <2>4 DEF Reconcile, TypeOK
    <3>3. QED BY <2>1, <3>1, <3>2 DEF GaugeInv
  <2>5. QED BY <2>3, <2>4
<1>2. ASSUME NEW k \in Keys, observe(k) PROVE GaugeInv'
  BY <1>2 DEF observe, Goto, gauges, TypeOK, GaugeInv, InOperation
<1>3. ASSUME NEW k \in Keys, setGauges(k) PROVE GaugeInv'
  <2>1. None \notin Operations /\ (InOperation(snap[k]) <=> snap[k].status \in Operations)
    BY SnapshotStatus, MetricsAssumption DEF TypeOK, MetricsAssumption
  <2>2. inProgress'[k] = {active[k]} \ {None}
    BY <1>3, <2>1 DEF setGauges, TypeOK, GaugeInv
  <2>3. QED BY <1>3, <2>2 DEF setGauges, Goto, trackers, TypeOK, GaugeInv, InOperation
<1>4. ASSUME NEW k \in Keys, enteredReady(k) PROVE GaugeInv'
  BY <1>4 DEF enteredReady, Goto, gauges, TypeOK, GaugeInv, InOperation
<1>5. ASSUME NEW k \in Keys, deleteSeries(k) PROVE GaugeInv'
  BY <1>5 DEF deleteSeries, Goto, trackers, TypeOK, GaugeInv, InOperation
<1>6. ASSUME NEW k \in Keys, forget(k) PROVE GaugeInv'
  BY <1>6 DEF forget, Goto, gauges, TypeOK, GaugeInv, InOperation
<1>7. ASSUME NEW k \in Keys, CreateOrDelete(k) PROVE GaugeInv'
  BY <1>7 DEF CreateOrDelete, trackers, gauges, GaugeInv, InOperation
<1>8. CASE Restart BY <1>8 DEF Restart, GaugeInv
<1>9. CASE UNCHANGED vars BY <1>9 DEF vars, trackers, gauges, GaugeInv, InOperation
<1>10. QED BY <1>1, <1>2, <1>3, <1>4, <1>5, <1>6, <1>7, <1>8, <1>9 DEF Next, Step

\* Between reconciles redkey_operation_in_progress shows what the tracker times, for any
\* number of Redkeys and restarts.
THEOREM GaugeShowsTracker == Spec => []GaugeMatchesTracker
<1>1. Init => GaugeInv BY DEF Init, GaugeInv
<1>2. GaugeInv => GaugeMatchesTracker BY DEF GaugeInv, GaugeMatchesTracker
<1>3. QED BY <1>1, <1>2, GaugeStep, MetricsTyped, PTL DEF Spec

\* The phase the readiness tracker remembers is Ready exactly when there is a sample
\* since the Redkey was last seen otherwise (readyTracker.enteredReady, forget).
ReadyInv ==
  /\ lastPhase = [k \in Keys |-> lastPhase[k]]
  /\ \A k \in Keys : k \in unready <=> lastPhase[k] # "Ready"

\* Every action keeps what the readiness tracker remembers in step with what was seen.
LEMMA ReadyStep ==
  ASSUME TypeOK, ReadyInv, [Next]_vars
  PROVE  ReadyInv'
<1>1. ASSUME UNCHANGED <<unready, lastPhase>> PROVE ReadyInv'
  BY <1>1 DEF ReadyInv
<1>2. ASSUME NEW k \in Keys, Step(k) \/ CreateOrDelete(k) PROVE ReadyInv'
  <2>1. CASE Reconcile(k) BY <1>1, <2>1 DEF Reconcile, trackers
  <2>2. CASE observe(k) BY <1>1, <2>2 DEF observe
  <2>3. CASE setGauges(k) BY <1>1, <2>3 DEF setGauges, trackers
  <2>4. CASE enteredReady(k) BY <2>4 DEF enteredReady, Samples, ReadyInv
  <2>5. CASE deleteSeries(k) BY <1>1, <2>5 DEF deleteSeries, trackers
  <2>6. CASE forget(k) BY <2>6, MetricsAssumption DEF forget, ReadyInv, MetricsAssumption
  <2>7. CASE CreateOrDelete(k) BY <1>1, <2>7 DEF CreateOrDelete, trackers
  <2>8. QED BY <1>2, <2>1, <2>2, <2>3, <2>4, <2>5, <2>6, <2>7 DEF Step
<1>3. CASE Restart BY <1>3, MetricsAssumption DEF Restart, ReadyInv, MetricsAssumption
<1>4. CASE UNCHANGED vars BY <1>1, <1>4 DEF vars, trackers
<1>5. QED BY <1>2, <1>3, <1>4 DEF Next

\* readinessTracker asks for a sample on the way into Ready and at no other time, for any
\* number of Redkeys and restarts.
THEOREM SamplesAreTransitions == Spec => SampledOnTransition
<1>1. Init => ReadyInv BY MetricsAssumption DEF Init, ReadyInv, MetricsAssumption
<1> DEFINE Sampled == \A k \in Keys : pc[k] = "enteredReady" /\ pc'[k] = "idle" /\ restarts' = restarts
                        => (Samples(k) <=> snap[k].phase = "Ready" /\ k \in unready)
<1>2. ReadyInv => [Sampled]_vars BY DEF ReadyInv, Samples
<1>3. QED BY <1>1, <1>2, ReadyStep, MetricsTyped, PTL DEF Spec, SampledOnTransition
=============================================================================
