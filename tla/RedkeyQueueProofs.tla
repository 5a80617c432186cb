-------------------------- MODULE RedkeyQueueProofs --------------------------
(***************************************************************************)
(* Under ReadsOwnWrites, RedkeyReconciler implements EditQueue.  On the    *)
(* way: clean-up and scale to zero only delete what is finished with.      *)
(* Last, where the loop comes to rest.                                     *)
(***************************************************************************)
EXTENDS RedkeyOwnWritesProofs, RedkeyQueue

Terminal(c) == isTerminalConfigPhase(c.phase)

\* A sequence is the sequence of one stored config.
UniqueInv == \A c, d \in configs : c.seq = d.seq => c = d

\* Robin takes turns: what any copy of a config shows to be started, comes after
\* nothing unfinished; what it shows to be finished, is.
TurnInv ==
  \A a \in Known, c \in configs :
    /\ c.seq < a.seq /\ a.phase # "Pending" => Terminal(c)
    /\ c.seq = a.seq /\ Terminal(a) => Terminal(c)

HasBaseline(seq) == \E a \in configs : a.phase = "Applied" /\ seq <= a.seq

\* What the cache shows as Applied, or something newer, still is, provided the cache
\* also shows a config of the current generation, so that it was filled after the
\* last scale to zero.  What clean-up still has to delete has a newer baseline.
BaselineInv ==
  /\ (\E e \in cachedConfigs :
        e.primaries # 0 /\ e.gen \in {cachedRedkey.generation, snap.generation})
       => \A d \in cachedConfigs : d.phase = "Applied" => HasBaseline(d.seq)
  /\ pc = "cleanupSupersededConfigs" => \A c \in todo : HasBaseline(c.seq + 1)

\* The scale-to-zero path deletes finished configs only, and all of them.
ZeroInv ==
  /\ pc \in {"deleteRobinDeployment", "deleteRBAC", "deleteAllConfigs"}
       => \A c \in configs : Terminal(c)
  /\ pc = "deleteAllConfigs" => Seqs(configs) \subseteq Seqs(todo)
  /\ pc = "updateStatusScaledToZero" => configs = {}

\* A generation someone is working from, and that is reported, is covered.
ReportInv ==
  \A r \in {cachedRedkey, snap} :
    r.primaries # 0 /\ r.generation = redkey.observedGeneration => Covered(r.generation)

QueueInv == UniqueInv /\ TurnInv /\ BaselineInv /\ ZeroInv /\ ReportInv

-----------------------------------------------------------------------------
\* What Robin does to the configs: it moves the first unfinished one on.
LEMMA RobinMoves ==
  ASSUME TypeOK, Robin
  PROVE  \E c \in configs : \E phase \in {"InProgress", "Applied", "Superseded"} : \E status :
           /\ ~Terminal(c)
           /\ \A d \in configs : d.seq < c.seq => Terminal(d)
           /\ configs' = (configs \ {c}) \cup {WithStatus(c, phase, status)}
           /\ UNCHANGED <<redkey, caches, locals, specs>>
<1> USE DEF Terminal, isTerminalConfigPhase, RobinTurn, SetPhase
<1>1. ASSUME NEW c \in configs, IsFirst(c, Unfinished), NEW d \in configs, d.seq < c.seq
      PROVE  Terminal(d)
  <2>1. d.seq \in Nat /\ c.seq \in Nat
    BY ConfigFields DEF TypeOK
  <2>2. QED BY <1>1, <2>1 DEF IsFirst, Unfinished
<1>2. CASE RobinStart
  BY <1>1, <1>2 DEF RobinStart
<1>3. CASE RobinSkip
  BY <1>1, <1>3 DEF RobinSkip
<1>4. CASE RobinApply
  BY <1>1, <1>4 DEF RobinApply
<1>5. QED BY <1>2, <1>3, <1>4 DEF Robin

\* How the store of configs changes in a step.
LEMMA StoreSteps ==
  ASSUME Base, [Next]_vars
  PROVE  \/ Robin
         \/ \E n \in Nat : /\ createNewConfig
                           /\ configs' = configs \cup {NewConfig(n)}
                           /\ \A d \in Known : d.seq < n /\ d.gen < snap.generation
         \/ \E c \in todo : /\ pc = "cleanupSupersededConfigs" \/ pc = "deleteAllConfigs"
                            /\ pc = "cleanupSupersededConfigs" => IsFirst(c, todo)
                            /\ pc' = pc /\ todo' = todo \ {c}
                            /\ configs' = {d \in configs : d.seq # c.seq}
                            /\ UNCHANGED <<redkey, caches, snap, view, specs>>
         \/ UNCHANGED configs
<1>1. CASE cleanupSupersededConfigs
  BY <1>1 DEF cleanupSupersededConfigs, DeleteConfig, history
<1>2. CASE deleteAllConfigs
  BY <1>2 DEF deleteAllConfigs, DeleteConfig, history
<1>3. CASE createNewConfig
  BY <1>3, FreshSequence
<1>4. QED BY <1>1, <1>2, <1>3, ConfigsWritten

\* Sequences stay unique.
LEMMA UniqueStep ==
  ASSUME Base, UniqueInv, [Next]_vars
  PROVE  UniqueInv'
<1>0. \A d \in configs : d \in Known /\ d.seq \in Nat
  BY ConfigFields DEF Base, TypeOK, Known
<1>1. CASE Robin
  <2>1. PICK c \in configs : \E phase, status :
               configs' = (configs \ {c}) \cup {WithStatus(c, phase, status)}
    BY <1>1, RobinMoves DEF Base
  <2>2. \A phase, status : WithStatus(c, phase, status).seq = c.seq
    BY DEF WithStatus
  <2>3. QED BY <2>1, <2>2 DEF UniqueInv
<1>2. ASSUME NEW n \in Nat, configs' = configs \cup {NewConfig(n)},
             \A d \in Known : d.seq < n
      PROVE  UniqueInv'
  <2>1. NewConfig(n).seq = n
    BY DEF NewConfig
  <2>2. \A d \in configs : d.seq # n
    BY <1>0, <1>2
  <2>3. QED BY <1>2, <2>1, <2>2 DEF UniqueInv
<1>3. CASE configs' \subseteq configs
  BY <1>3 DEF UniqueInv
<1>4. QED BY <1>1, <1>2, <1>3, StoreSteps

\* Only a creation and Robin make new copies of configs.
LEMMA NoNewCopies ==
  ASSUME [Next]_vars, ~Robin, ~createNewConfig
  PROVE  Known' \subseteq Known
<1> USE DEF Known, Return, Goto
<1>1. CASE Reconcile \/ listConfigs \/ relistConfigs
  BY <1>1 DEF Reconcile, listConfigs, relistConfigs, StartCleanup, superseded, store, caches
<1>2. CASE ensureRBAC \/ ensureRobinDeployment
  BY <1>2 DEF ensureRBAC, ensureRobinDeployment, Ensure, caches
<1>3. CASE cleanupSupersededConfigs \/ deleteAllConfigs
  BY <1>3 DEF cleanupSupersededConfigs, deleteAllConfigs, DeleteConfig, caches
<1>4. CASE aggregateStatus \/ updateStatusScaledToZero \/ Abort
  BY <1>4 DEF aggregateStatus, updateStatusScaledToZero, Abort, store, caches
<1>5. CASE deleteRobinDeployment \/ deleteRBAC
  BY <1>5 DEF deleteRobinDeployment, deleteRBAC, caches
<1>6. CASE SyncRedkey \/ SyncConfigs \/ SyncRobin \/ EditSpec
  BY <1>6 DEF SyncRedkey, SyncConfigs, SyncRobin, EditSpec, store, caches, locals
<1>7. CASE UNCHANGED vars
  BY <1>7 DEF vars, store, caches, locals
<1>8. QED BY <1>1, <1>2, <1>3, <1>4, <1>5, <1>6, <1>7 DEF Next, Step

\* Robin keeps taking turns.
LEMMA TurnStep ==
  ASSUME Base, UniqueInv, TurnInv, [Next]_vars
  PROVE  TurnInv'
<1> USE DEF Terminal
<1>0. \A d \in Known : d.seq \in Nat
  BY ConfigFields DEF Base, TypeOK, Known
<1>1. CASE Robin
  <2>1. PICK m \in configs, phase \in {"InProgress", "Applied", "Superseded"} : \E status :
          /\ ~Terminal(m)
          /\ \A d \in configs : d.seq < m.seq => Terminal(d)
          /\ configs' = (configs \ {m}) \cup {WithStatus(m, phase, status)}
          /\ UNCHANGED <<redkey, caches, locals, specs>>
    BY <1>1, RobinMoves DEF Base
  <2>2. PICK w : /\ w.seq = m.seq
                 /\ configs' = (configs \ {m}) \cup {w}
    BY <2>1 DEF WithStatus
  <2>3. Known' \subseteq Known \cup {w}
    BY <2>1, <2>2 DEF Known, caches, locals
  <2>4. SUFFICES ASSUME NEW a \in Known', NEW c \in configs'
                 PROVE  /\ c.seq < a.seq /\ a.phase # "Pending" => Terminal(c)
                        /\ c.seq = a.seq /\ Terminal(a) => Terminal(c)
    BY DEF TurnInv
  <2>5. CASE a \in Known /\ c \in configs
    BY <2>5 DEF TurnInv
  <2>6. CASE a \in Known /\ c = w
    BY <2>1, <2>2, <2>6 DEF TurnInv, Known
  <2>7. CASE a = w /\ c \in configs \ {m}
    BY <2>1, <2>2, <2>7 DEF UniqueInv
  <2>8. CASE a = w /\ c = w
    BY <1>0, <2>2, <2>8 DEF Known
  <2>9. QED BY <2>2, <2>3, <2>5, <2>6, <2>7, <2>8
<1>2. ASSUME NEW n \in Nat, createNewConfig, configs' = configs \cup {NewConfig(n)},
             \A d \in Known : d.seq < n
      PROVE  TurnInv'
  <2>1. NewConfig(n).seq = n /\ NewConfig(n).phase = "Pending"
    BY DEF NewConfig
  <2>2. Known' \subseteq Known \cup {NewConfig(n)}
    BY <1>2 DEF Known, createNewConfig, Return, caches
  <2>3. ~Terminal(NewConfig(n))
    BY <2>1 DEF isTerminalConfigPhase
  <2>4. SUFFICES ASSUME NEW a \in Known', NEW c \in configs'
                 PROVE  /\ c.seq < a.seq /\ a.phase # "Pending" => Terminal(c)
                        /\ c.seq = a.seq /\ Terminal(a) => Terminal(c)
    BY DEF TurnInv
  <2>5. CASE a \in Known /\ c \in configs
    BY <2>5 DEF TurnInv
  <2>6. CASE a = NewConfig(n)
    BY <2>1, <2>3, <2>6
  <2>7. CASE a \in Known /\ c = NewConfig(n)
    BY <1>0, <1>2, <2>1, <2>7
  <2>8. QED BY <1>2, <2>2, <2>5, <2>6, <2>7
<1>3. CASE ~Robin /\ ~createNewConfig
  <2>1. Known' \subseteq Known
    BY <1>3, NoNewCopies
  <2>2. configs' \subseteq configs
    BY <1>3, StoreSteps
  <2>3. QED BY <2>1, <2>2 DEF TurnInv
<1>4. QED
  <2>1. CASE createNewConfig
    BY <1>2, <2>1, FreshSequence
  <2>2. QED BY <1>1, <1>3, <2>1

\* An Applied config may be cleaned up, but then a newer one is there.
LEMMA BaselineSurvives ==
  ASSUME Base, BaselineInv, [Next]_vars, NEW n \in Nat, HasBaseline(n),
         pc # "deleteAllConfigs"
  PROVE  \E a \in configs' : a.phase = "Applied" /\ n <= a.seq
<1>0. \A d \in Known : d.seq \in Nat
  BY ConfigFields DEF Base, TypeOK, Known
<1>1. PICK a \in configs : a.phase = "Applied" /\ n <= a.seq
  BY DEF HasBaseline
<1>2. CASE Robin
  <2>1. PICK m \in configs : /\ ~Terminal(m)
                             /\ \E w : configs' = (configs \ {m}) \cup {w}
    BY <1>2, RobinMoves DEF Base
  <2>2. a # m
    BY <1>1, <2>1 DEF Terminal, isTerminalConfigPhase
  <2>3. QED BY <1>1, <2>1, <2>2
<1>3. ASSUME NEW c \in todo, pc = "cleanupSupersededConfigs",
             configs' = {d \in configs : d.seq # c.seq}
      PROVE  \E b \in configs' : b.phase = "Applied" /\ n <= b.seq
  <2>1. CASE a.seq # c.seq
    BY <1>1, <1>3, <2>1
  <2>2. CASE a.seq = c.seq
    <3>1. PICK b \in configs : b.phase = "Applied" /\ c.seq + 1 <= b.seq
      BY <1>3 DEF BaselineInv, HasBaseline
    <3>2. b.seq \in Nat /\ a.seq \in Nat
      BY <1>0 DEF Known
    <3>3. b.seq # c.seq /\ n <= b.seq
      BY <1>1, <2>2, <3>1, <3>2
    <3>4. QED BY <1>3, <3>1, <3>3
  <2>3. QED BY <2>1, <2>2
<1>4. CASE configs \subseteq configs'
  BY <1>1, <1>4
<1>5. QED BY <1>2, <1>3, <1>4, StoreSteps

\* A complete list that clean-up starts from shows the current generation.
LEMMA ListedCurrent ==
  ASSUME ReadsOwnWrites, Base, listConfigs \/ relistConfigs,
         pc' = "cleanupSupersededConfigs"
  PROVE  \E e \in cachedConfigs : e.primaries # 0 /\ e.gen = snap.generation
<1> USE DEF Base
<1>1. [Next]_vars /\ Aggregating'
  BY DEF Next, Step, Aggregating
<1>2. /\ snap' = snap /\ configs' = configs /\ snap.primaries # 0 /\ Live
      /\ Seqs(configs) \subseteq Seqs(cachedConfigs)
  BY DEF listConfigs, relistConfigs, StartCleanup, Return, store, ListIsCurrent, ControlInv, Live
<1>3. PICK x \in configs : x.gen = snap.generation
  BY <1>1, <1>2, ReconcileCoverStep
<1>4. PICK e \in cachedConfigs : e.seq = x.seq
  BY <1>2 DEF Seqs
<1>5. e.gen = snap.generation
  BY <1>3, <1>4 DEF OwnWritesInv, OrderInv, Known
<1>6. e.primaries = snap.primaries
  BY <1>2, <1>5 DEF HistoryInv, Matches, Known
<1>7. QED BY <1>2, <1>5, <1>6

\* Baselines are kept.
LEMMA BaselineStep ==
  ASSUME ReadsOwnWrites, Base, BaselineInv, [Next]_vars, TypeOK'
  PROVE  BaselineInv'
<1>0. \A d \in Known : d.seq \in Nat /\ d.gen \in Nat
  BY ConfigFields DEF Base, TypeOK, Known
<1>1. ASSUME NEW e \in cachedConfigs', e.primaries # 0,
             e.gen \in {cachedRedkey'.generation, snap'.generation},
             NEW d \in cachedConfigs', d.phase = "Applied"
      PROVE  \E a \in configs' : a.phase = "Applied" /\ d.seq <= a.seq
  <2>1. CASE cachedConfigs' = configs'
    <3>1. d.seq \in Nat
      BY ConfigFields DEF TypeOK
    <3>2. QED BY <1>1, <2>1, <3>1
  <2>2. CASE cachedConfigs' = cachedConfigs
    <3>1. e \in Known /\ d \in Known /\ d.seq \in Nat
      BY <1>0, <2>2 DEF Known
    <3>2. /\ e.gen \in 1..Len(specs) /\ e.primaries = specs[e.gen] /\ Len(specs) \in Nat
          /\ e.gen <= cachedRedkey.generation
          /\ Live => e.gen <= snap.generation
      BY <3>1 DEF Base, HistoryInv, OwnWritesInv, PastInv, TypeOK
    <3>3. e.gen \in Nat \ {0}
      BY <3>2
    <3>4. /\ e.gen \in {cachedRedkey.generation, snap.generation}
          /\ Live => snap.generation <= e.gen
      BY <1>1, <3>2, <3>3, CurrentSteps
    <3>5. HasBaseline(d.seq)
      BY <1>1, <2>2, <3>4 DEF BaselineInv
    <3>6. pc # "deleteAllConfigs"
      <4> SUFFICES ASSUME pc = "deleteAllConfigs" PROVE FALSE
        OBVIOUS
      <4>1. snap.generation \in Nat /\ snap.primaries = 0 /\ Live
        BY RedkeyFields DEF Base, TypeOK, ControlInv, Live
      <4>2. e.gen = snap.generation
        BY <3>2, <3>3, <3>4, <4>1
      <4>3. e.primaries = 0
        BY <3>2, <4>1, <4>2 DEF Base, HistoryInv, Matches
      <4>4. QED BY <1>1, <4>3
    <3>7. QED BY <3>1, <3>5, <3>6, BaselineSurvives
  <2>3. QED BY <2>1, <2>2, CacheSteps
<1>2. ASSUME pc' = "cleanupSupersededConfigs", NEW c \in todo'
      PROVE  \E a \in configs' : a.phase = "Applied" /\ c.seq + 1 <= a.seq
  <2>1. CASE pc = "cleanupSupersededConfigs" /\ c \in todo
    <3>1. c.seq + 1 \in Nat
      BY <1>0, <2>1 DEF Known
    <3>2. QED BY <2>1, <3>1, BaselineSurvives DEF BaselineInv
  <2>2. CASE listConfigs \/ relistConfigs
    <3>1. configs' = configs /\ c \in superseded(cachedConfigs)
      BY <1>2, <2>2 DEF listConfigs, relistConfigs, StartCleanup, Return, store
    <3>2. PICK d \in cachedConfigs : d.phase = "Applied" /\ c.seq < d.seq
      BY <3>1 DEF superseded, InPhase
    <3>3. HasBaseline(d.seq)
      BY <1>2, <2>2, <3>2, ListedCurrent DEF BaselineInv
    <3>4. PICK a \in configs : a.phase = "Applied" /\ d.seq <= a.seq
      BY <3>3 DEF HasBaseline
    <3>5. c \in Known /\ d \in Known /\ a \in Known
      BY <3>1, <3>2, <3>4 DEF superseded, Known
    <3>6. c.seq + 1 <= a.seq
      BY <1>0, <3>2, <3>4, <3>5
    <3>7. QED BY <3>1, <3>4, <3>6
  <2>3. QED
    BY <1>2, <2>1, <2>2, CleanupReached DEF cleanupSupersededConfigs, DeleteConfig, Goto
<1>3. QED BY <1>1, <1>2 DEF BaselineInv, HasBaseline

Emptying == pc \in {"deleteRobinDeployment", "deleteRBAC", "deleteAllConfigs",
                    "updateStatusScaledToZero"}

\* Which steps lead to the end of a scale to zero.
LEMMA EmptyingReached ==
  ASSUME [Next]_vars, Emptying'
  PROVE  \/ Reconcile \/ deleteRobinDeployment \/ deleteRBAC \/ deleteAllConfigs
         \/ Emptying /\ UNCHANGED <<pc, todo>> /\ (Robin \/ UNCHANGED configs)
<1> USE DEF Return, Goto, Emptying
<1>1. CASE Step
  BY <1>1 DEF Step, ensureRBAC, ensureRobinDeployment, Ensure, AfterEnsure, listConfigs,
       createNewConfig, relistConfigs, StartCleanup, cleanupSupersededConfigs, aggregateStatus,
       updateStatusScaledToZero
<1>2. CASE ~Step
  BY <1>2 DEF Next, Abort, SyncRedkey, SyncConfigs, SyncRobin, EditSpec, Robin, RobinStart,
       RobinSkip, RobinApply, RobinTurn, store, locals, vars
<1>3. QED BY <1>1, <1>2

\* The end of a scale to zero only sees finished configs, and its list has them all.
LEMMA ZeroStep ==
  ASSUME ReadsOwnWrites, Base, TurnInv, ZeroInv, [Next]_vars
  PROVE  ZeroInv'
<1> USE DEF Emptying, ZeroInv
<1>1. CASE Reconcile
  <2>1. CASE ~Emptying'
    BY <2>1
  <2>2. CASE Emptying'
    <3>1. /\ configs' = configs /\ Seqs(configs) \subseteq Seqs(cachedConfigs)
          /\ pc' = ZeroCase(cachedConfigs)
      BY <1>1, <2>2 DEF Reconcile, ListIsCurrent, store
    <3>2. CASE cachedConfigs = {}
      BY <3>1, <3>2 DEF ZeroCase, Seqs
    <3>3. CASE cachedConfigs # {}
      <4>1. PICK a \in cachedConfigs : IsLatest(a, cachedConfigs) /\ a.phase = "Applied"
        BY <2>2, <3>1, <3>3 DEF ZeroCase
      <4>2. pc' = "deleteRobinDeployment"
        BY <2>2, <3>1, <3>3 DEF ZeroCase
      <4>3. ASSUME NEW c \in configs PROVE Terminal(c)
        <5>1. c.seq \in Nat /\ a.seq \in Nat /\ a \in Known
          BY ConfigFields DEF Base, TypeOK, Known
        <5>2. c.seq <= a.seq
          BY <3>1, <4>1 DEF Seqs, IsLatest
        <5>3. QED BY <4>1, <5>1, <5>2 DEF TurnInv, Terminal, isTerminalConfigPhase
      <4>4. QED BY <3>1, <4>2, <4>3 DEF Terminal
    <3>4. QED BY <3>2, <3>3
  <2>3. QED BY <2>1, <2>2
<1>2. CASE deleteRobinDeployment
  BY <1>2 DEF deleteRobinDeployment, Goto, Terminal
<1>3. CASE deleteRBAC
  BY <1>3 DEF deleteRBAC, ListIsCurrent, Terminal
<1>4. CASE deleteAllConfigs
  <2>1. CASE todo = {}
    BY <1>4, <2>1 DEF deleteAllConfigs, Goto, Seqs
  <2>2. CASE todo # {}
    <3>1. PICK c \in todo : /\ configs' = {d \in configs : d.seq # c.seq} /\ todo' = todo \ {c}
                            /\ pc' = "deleteAllConfigs" /\ pc = "deleteAllConfigs"
      BY <1>4, <2>2 DEF deleteAllConfigs, DeleteConfig
    <3>2. Seqs(configs') \subseteq Seqs(todo')
      BY <3>1 DEF Seqs
    <3>3. QED BY <3>1, <3>2 DEF Terminal
  <2>3. QED BY <2>1, <2>2
<1>5. CASE Emptying /\ UNCHANGED <<pc, todo>> /\ Robin
  BY <1>5, RobinMoves DEF Base, Terminal
<1>6. CASE Emptying /\ UNCHANGED <<pc, todo, configs>>
  BY <1>6 DEF Terminal
<1>7. CASE ~Emptying'
  BY <1>7
<1>8. QED BY <1>1, <1>2, <1>3, <1>4, <1>5, <1>6, <1>7, EmptyingReached

\* What is reported, and worked from, stays covered.
LEMMA ReportStep ==
  ASSUME Base, ReportInv, [Next]_vars
  PROVE  ReportInv'
<1> USE DEF Base
<1>0. NoRedkey.primaries = 0
  BY DEF NoRedkey, NewRedkey, RedkeyWith
<1>1. SUFFICES ASSUME NEW r \in {cachedRedkey', snap'},
                      r.primaries # 0, r.generation = redkey'.observedGeneration
               PROVE  \E d \in configs' : d.gen = r.generation
  BY DEF ReportInv, Covered
<1>2. CASE r \in {cachedRedkey, snap} /\ redkey'.observedGeneration = redkey.observedGeneration
  <2>1. Covered(r.generation)
    BY <1>1, <1>2 DEF ReportInv
  <2>2. Matches(r)
    BY <1>0, <1>1, <1>2 DEF HistoryInv, ControlInv, Live
  <2>3. Live => snap.generation <= r.generation
    <3>1. snap.generation \in Nat /\ cachedRedkey.generation \in Nat
      BY RedkeyFields DEF TypeOK
    <3>2. QED BY <1>2, <3>1 DEF GenerationInv
  <2>4. QED BY <1>1, <2>1, <2>2, <2>3, StaysCovered DEF Matches
<1>3. CASE r = redkey /\ redkey' = redkey
  BY <1>1, <1>3, CopyCovered
<1>4. CASE r = cachedRedkey /\ aggregateStatus /\ redkey' # redkey
  <2>1. /\ redkey'.observedGeneration = snap.generation /\ configs' = configs
        /\ pc = "aggregateStatus" /\ Live
    BY <1>4 DEF aggregateStatus, AggregatedStatus, RedkeyWith, Live
  <2>2. snap.primaries # 0
    BY <1>1, <1>4, <2>1 DEF HistoryInv, Matches
  <2>3. QED BY <1>1, <2>1, <2>2 DEF OwnWritesInv, CoverInv, Covered
<1>5. CASE r = cachedRedkey /\ updateStatusScaledToZero /\ redkey' # redkey
  <2>1. /\ redkey'.observedGeneration = snap.generation /\ Live /\ snap.primaries = 0
    BY <1>5 DEF updateStatusScaledToZero, RedkeyWith, Live, ControlInv
  <2>2. QED BY <1>1, <1>5, <2>1 DEF HistoryInv, Matches
<1>6. CASE Reconcile
  BY <1>1, <1>2, <1>6 DEF Reconcile, store, caches
<1>7. CASE aggregateStatus
  BY <1>0, <1>1, <1>2, <1>4, <1>7 DEF aggregateStatus, Return, caches
<1>8. CASE updateStatusScaledToZero
  BY <1>0, <1>1, <1>2, <1>5, <1>8 DEF updateStatusScaledToZero, Return, caches
<1>9. CASE SyncRedkey
  BY <1>1, <1>2, <1>3, <1>9 DEF SyncRedkey, store, locals
<1>10. CASE EditSpec
  BY <1>1, <1>2, <1>10, EditFields
<1>11. CASE Proceeds
  BY <1>0, <1>1, <1>2, <1>11 DEF Proceeds
<1>12. CASE UNCHANGED <<redkey, cachedRedkey, pc, snap, specs>>
  BY <1>1, <1>2, <1>12
<1>13. QED BY <1>6, <1>7, <1>8, <1>9, <1>10, <1>11, <1>12, RedkeySteps

-----------------------------------------------------------------------------
\* The invariant is kept by every step.
THEOREM QueueKept == ASSUME ReadsOwnWrites PROVE Spec => []QueueInv
<1>1. Init => QueueInv
  <2> SUFFICES ASSUME Init PROVE QueueInv
    OBVIOUS
  <2>1. PICK p \in Edits[1] : redkey = NewRedkey(1, p)
    BY DEF Init
  <2>2. /\ redkey.observedGeneration = 0 /\ redkey.generation = 1
        /\ NoRedkey.primaries = 0
    BY <2>1 DEF NewRedkey, NoRedkey, RedkeyWith
  <2>3. /\ configs = {} /\ cachedConfigs = {} /\ todo = {} /\ pc = "idle"
        /\ snap = NoRedkey /\ cachedRedkey = redkey
    BY DEF Init
  <2>4. QED
    BY <2>2, <2>3 DEF QueueInv, UniqueInv, TurnInv, BaselineInv, ZeroInv, ReportInv
<1>2. Base /\ QueueInv /\ [Next]_vars /\ TypeOK' => QueueInv'
  BY UniqueStep, TurnStep, BaselineStep, ZeroStep, ReportStep DEF QueueInv
<1>3. QED
  BY <1>1, <1>2, TypeCorrect, GenerationsOrdered, HistoryKept, ControlKept, OwnWritesKept, PTL
     DEF Spec, Base

\* cleanupSupersededConfigs, however old its list, deletes only configs Robin has
\* finished with, and always leaves a newer Applied one.
THEOREM CleanupSafe == ASSUME ReadsOwnWrites PROVE Spec => CleanupKeepsWork
<1> DEFINE Kept == \A c \in configs :
              pc = "cleanupSupersededConfigs" /\ c.seq \notin Seqs(configs')
                => /\ isTerminalConfigPhase(c.phase)
                   /\ \E d \in configs : c.seq < d.seq /\ d.phase = "Applied"
<1>1. Base /\ QueueInv /\ [Next]_vars => [Kept]_vars
  <2> SUFFICES ASSUME Base, QueueInv, [Next]_vars, NEW c \in configs,
                      pc = "cleanupSupersededConfigs", c.seq \notin Seqs(configs')
               PROVE  /\ isTerminalConfigPhase(c.phase)
                      /\ \E d \in configs : c.seq < d.seq /\ d.phase = "Applied"
    OBVIOUS
  <2>1. ~Robin
    <3>1. ASSUME Robin PROVE c.seq \in Seqs(configs')
      <4>1. PICK m \in configs : \E phase, status :
                   configs' = (configs \ {m}) \cup {WithStatus(m, phase, status)}
        BY <3>1, RobinMoves DEF Base
      <4>2. \A phase, status : WithStatus(m, phase, status).seq = m.seq
        BY DEF WithStatus
      <4>3. QED BY <4>1, <4>2 DEF Seqs
    <3>2. QED BY <3>1
  <2>2. PICK t \in todo : configs' = {d \in configs : d.seq # t.seq}
    BY <2>1, StoreSteps DEF createNewConfig, Seqs
  <2>3. c.seq = t.seq
    BY <2>2 DEF Seqs
  <2>4. PICK d \in configs : d.phase = "Applied" /\ t.seq + 1 <= d.seq
    BY DEF QueueInv, BaselineInv, HasBaseline
  <2>5. c.seq \in Nat /\ d.seq \in Nat /\ d \in Known
    BY ConfigFields DEF Base, TypeOK, Known
  <2>6. c.seq < d.seq
    BY <2>3, <2>4, <2>5
  <2>7. QED BY <2>4, <2>5, <2>6 DEF QueueInv, TurnInv, Terminal
<1>2. QED
  BY <1>1, TypeCorrect, GenerationsOrdered, HistoryKept, ControlKept, OwnWritesKept, QueueKept, PTL
     DEF Spec, Base, CleanupKeepsWork

\* ScaledToZero is reported only when no config is left, and what was deleted on the
\* way had been finished.
THEOREM ZeroIsEmpty == ASSUME ReadsOwnWrites PROVE Spec => ScaledToZeroHasNoConfigs
<1> DEFINE Emptied == redkey'.reason = "ScaledToZero" /\ redkey.reason # "ScaledToZero"
                        => configs = {}
<1>1. QueueInv /\ [Next]_vars => [Emptied]_vars
  <2> SUFFICES ASSUME QueueInv, [Next]_vars, redkey'.reason = "ScaledToZero",
                      redkey.reason # "ScaledToZero"
               PROVE  configs = {}
    OBVIOUS
  <2>1. CASE aggregateStatus
    BY <2>1 DEF aggregateStatus, AggregatedStatus, RedkeyWith
  <2>2. CASE updateStatusScaledToZero
    BY <2>2 DEF updateStatusScaledToZero, QueueInv, ZeroInv
  <2>3. CASE EditSpec
    BY <2>3, EditFields
  <2>4. QED
    BY <2>1, <2>2, <2>3, RedkeySteps DEF Reconcile, SyncRedkey, Proceeds, store
<1>2. QED
  BY <1>1, QueueKept, PTL DEF Spec, ScaledToZeroHasNoConfigs

-----------------------------------------------------------------------------
\* A generation has one stored config.
LEMMA OnePerGeneration ==
  ASSUME Base, UniqueInv, NEW c \in configs, NEW d \in configs, c.gen = d.gen
  PROVE  c = d
<1>1. /\ c.seq \in Nat /\ d.seq \in Nat /\ c.gen \in Nat
      /\ c \in Known /\ d \in Known
  BY ConfigFields DEF Base, TypeOK, Known
<1>2. c.seq = d.seq
  BY <1>1 DEF Base, OwnWritesInv, OrderInv
<1>3. QED BY <1>2 DEF UniqueInv

\* A status write by Robin moves the current entry of the queue.
LEMMA MoveRefines ==
  ASSUME Base, UniqueInv, NEW c \in configs, NEW phase, NEW status,
         IsFirst(c, Unfinished), SetPhase(c, phase, status), UNCHANGED <<redkey, specs>>
  PROVE  Q!Move([gen |-> c.gen, phase |-> c.phase], phase)
<1> DEFINE e == [gen |-> c.gen, phase |-> c.phase]
           w == WithStatus(c, phase, status)
<1>1. w.gen = c.gen /\ w.phase = phase
  BY DEF WithStatus
<1>2. Q!Current(e)
  <2> SUFFICES ASSUME NEW d \in configs, ~isTerminalConfigPhase(d.phase) PROVE c.gen <= d.gen
    BY DEF Q!Current, Q!Finished, Queue, isTerminalConfigPhase
  <2>1. /\ c.seq \in Nat /\ d.seq \in Nat /\ c.gen \in Nat /\ d.gen \in Nat
        /\ c \in Known /\ d \in Known
    BY ConfigFields DEF Base, TypeOK, Known
  <2>2. c.seq <= d.seq
    BY DEF IsFirst, Unfinished
  <2>3. QED BY <2>1, <2>2 DEF Base, OwnWritesInv, OrderInv
<1>3. Queue' = (Queue \ {e}) \cup {Q!Entry(c.gen, phase)}
  <2>1. configs' = (configs \ {c}) \cup {w}
    BY DEF SetPhase
  <2>2. Queue' = {[gen |-> d.gen, phase |-> d.phase] : d \in configs \ {c}}
                   \cup {[gen |-> c.gen, phase |-> phase]}
    BY <1>1, <2>1 DEF Queue
  <2>3. \A d \in configs \ {c} : d.gen # c.gen
    BY OnePerGeneration
  <2>4. {[gen |-> d.gen, phase |-> d.phase] : d \in configs \ {c}} = Queue \ {e}
    BY <2>3 DEF Queue
  <2>5. QED BY <2>2, <2>4 DEF Q!Entry
<1>4. QED BY <1>2, <1>3 DEF Q!Move

\* Robin's work is the queue's.
LEMMA WorkRefines ==
  ASSUME Base, UniqueInv, Robin
  PROVE  Q!Work
<1> USE DEF RobinTurn
<1>1. CASE RobinStart
  <2>1. PICK c \in configs : RobinTurn(c, "Pending") /\ SetPhase(c, "InProgress", "Operating")
    BY <1>1 DEF RobinStart
  <2>2. Q!Move([gen |-> c.gen, phase |-> c.phase], "InProgress")
    BY <2>1, MoveRefines
  <2>3. QED BY <2>1, <2>2 DEF Q!Work, Queue
<1>2. CASE RobinApply
  <2>1. PICK c \in configs : RobinTurn(c, "InProgress") /\ \E s : SetPhase(c, "Applied", s)
    BY <1>2 DEF RobinApply
  <2>2. Q!Move([gen |-> c.gen, phase |-> c.phase], "Applied")
    BY <2>1, MoveRefines
  <2>3. QED BY <2>1, <2>2 DEF Q!Work, Queue
<1>3. CASE RobinSkip
  <2>1. PICK c \in configs : /\ RobinTurn(c, "Pending")
                             /\ \E d \in InPhase(configs, "Pending") : c.seq < d.seq
                             /\ \E s : SetPhase(c, "Superseded", s)
    BY <1>3 DEF RobinSkip
  <2>2. Q!Move([gen |-> c.gen, phase |-> c.phase], "Superseded")
    BY <2>1, MoveRefines
  <2>3. PICK d \in configs : d.phase = "Pending" /\ c.seq < d.seq
    BY <2>1 DEF InPhase
  <2>4. c.gen < d.gen
    BY <2>3 DEF Base, OwnWritesInv, OrderInv, Known
  <2>5. [gen |-> d.gen, phase |-> d.phase] \in Queue /\ [gen |-> c.gen, phase |-> c.phase] \in Queue
    BY DEF Queue
  <2>6. QED BY <2>1, <2>2, <2>3, <2>4, <2>5 DEF Q!Work
<1>4. QED BY <1>1, <1>2, <1>3 DEF Robin

\* The creation of a config enters its generation into the queue.
LEMMA EnterRefines ==
  ASSUME Base, ReportInv, createNewConfig
  PROVE  Q!Enter
<1>1. PICK n \in Nat : /\ configs' = configs \cup {NewConfig(n)}
                       /\ \A d \in Known : d.seq < n /\ d.gen < snap.generation
  BY FreshSequence
<1>2. Live /\ redkey' = redkey /\ specs' = specs
  BY DEF createNewConfig, Live, history
<1>3. NewConfig(n).gen = snap.generation /\ NewConfig(n).phase = "Pending"
  BY DEF NewConfig
<1>4. Queue' = Queue \cup {Q!Entry(snap.generation, "Pending")}
  BY <1>1, <1>3 DEF Queue, Q!Entry
<1>5. snap.generation \in 1..Len(specs) /\ specs[snap.generation] = snap.primaries
  BY <1>2 DEF Base, HistoryInv, Matches
<1>6. \/ redkey.observedGeneration < snap.generation
      \/ redkey.observedGeneration = snap.generation /\ specs[snap.generation] = 0
  <2>1. redkey.observedGeneration \in Nat /\ snap.generation \in Nat
    BY RedkeyFields DEF Base, TypeOK
  <2>2. redkey.observedGeneration <= snap.generation
    BY <1>2 DEF Base, GenerationInv
  <2>3. ~Covered(snap.generation)
    BY <1>1, <2>1 DEF Covered, Known
  <2>4. QED BY <1>5, <2>1, <2>2, <2>3 DEF ReportInv
<1>7. \A e \in Queue : e.gen < snap.generation
  BY <1>1 DEF Queue, Known
<1>8. QED BY <1>2, <1>4, <1>5, <1>6, <1>7 DEF Q!Enter

\* A deletion takes a finished entry out of the queue, or finds it gone.
LEMMA LeaveRefines ==
  ASSUME Base, QueueInv, NEW t \in todo,
         pc = "cleanupSupersededConfigs" \/ pc = "deleteAllConfigs",
         configs' = {d \in configs : d.seq # t.seq}, UNCHANGED <<redkey, specs>>
  PROVE  Q!Leave \/ Queue' = Queue
<1> USE DEF QueueInv
<1>1. CASE t.seq \notin Seqs(configs)
  BY <1>1 DEF Seqs, Queue
<1>2. CASE t.seq \in Seqs(configs)
  <2>1. PICK c \in configs : c.seq = t.seq
    BY <1>2 DEF Seqs
  <2> DEFINE e == [gen |-> c.gen, phase |-> c.phase]
  <2>2. c \in Known /\ c.seq \in Nat /\ c.gen \in Nat
    BY ConfigFields DEF Base, TypeOK, Known
  <2>3. e \in Queue
    BY DEF Queue
  <2>4. Queue' = Queue \ {e}
    <3>1. configs' = configs \ {c}
      BY <2>1 DEF UniqueInv
    <3>2. \A d \in configs \ {c} : d.gen # c.gen
      BY OnePerGeneration
    <3>3. QED BY <3>1, <3>2 DEF Queue
  <2>5. CASE pc = "cleanupSupersededConfigs"
    <3>1. PICK d \in configs : d.phase = "Applied" /\ t.seq + 1 <= d.seq
      BY <2>5 DEF BaselineInv, HasBaseline
    <3>2. d \in Known /\ d.seq \in Nat
      BY ConfigFields DEF Base, TypeOK, Known
    <3>3. c.seq < d.seq
      BY <2>1, <2>2, <3>1, <3>2
    <3>4. c.gen < d.gen
      BY <2>2, <3>2, <3>3 DEF Base, OwnWritesInv, OrderInv
    <3>5. Terminal(c)
      BY <3>1, <3>2, <3>3 DEF TurnInv
    <3>6. Q!Finished(e)
      BY <3>5 DEF Q!Finished, Terminal, isTerminalConfigPhase
    <3>7. \E f \in Queue : f.phase = "Applied" /\ e.gen < f.gen
      <4>1. [gen |-> d.gen, phase |-> d.phase] \in Queue
        BY DEF Queue
      <4>2. QED BY <3>1, <3>4, <4>1
    <3>8. QED BY <2>3, <2>4, <3>6, <3>7 DEF Q!Leave
  <2>6. CASE pc = "deleteAllConfigs"
    <3>1. Live /\ snap.primaries = 0
      BY <2>6 DEF Base, ControlInv, Live
    <3>2. snap.generation \in 1..Len(specs) /\ specs[snap.generation] = 0
      BY <3>1 DEF Base, HistoryInv, Matches
    <3>3. \A f \in Queue : Q!Finished(f) /\ f.gen <= snap.generation
      <4>1. \A d \in configs : Terminal(d) /\ d.gen <= snap.generation
        BY <2>6, <3>1 DEF ZeroInv, Base, OwnWritesInv, PastInv, Known
      <4>2. QED BY <4>1 DEF Queue, Q!Finished, Terminal, isTerminalConfigPhase
    <3>4. QED BY <2>3, <2>4, <3>2, <3>3 DEF Q!Leave
  <2>7. QED BY <2>5, <2>6
<1>3. QED BY <1>1, <1>2

\* A status write reports the generation of the snapshot, or changes nothing that the
\* queue shows.
LEMMA ReportRefines ==
  ASSUME Base, aggregateStatus \/ updateStatusScaledToZero
  PROVE  Q!Report \/ UNCHANGED Q!vars
<1>1. Live /\ configs' = configs /\ specs' = specs
  BY DEF aggregateStatus, updateStatusScaledToZero, Live, history
<1>2. Queue' = Queue
  BY <1>1 DEF Queue
<1>3. CASE redkey' = redkey
  BY <1>1, <1>2, <1>3 DEF Q!vars
<1>4. CASE redkey' # redkey
  <2>1. redkey'.observedGeneration = snap.generation
    BY <1>4 DEF aggregateStatus, updateStatusScaledToZero, AggregatedStatus, RedkeyWith
  <2>2. /\ snap.generation \in 1..Len(specs) /\ specs[snap.generation] = snap.primaries
        /\ redkey.observedGeneration <= snap.generation
    BY <1>1 DEF Base, HistoryInv, GenerationInv, Matches
  <2>3. \A e \in Queue : e.gen <= snap.generation
    BY <1>1 DEF Queue, Base, OwnWritesInv, PastInv, Known
  <2>4. snap.primaries # 0 => Covered(snap.generation)
    BY DEF aggregateStatus, updateStatusScaledToZero, Base, ControlInv, OwnWritesInv, CoverInv
  <2>5. specs[snap.generation] # 0 => \E e \in Queue : e.gen = snap.generation
    <3>1. \A c \in configs : [gen |-> c.gen, phase |-> c.phase] \in Queue
      BY DEF Queue
    <3>2. QED BY <2>2, <2>4, <3>1 DEF Covered
  <2>6. QED BY <1>1, <1>2, <2>1, <2>2, <2>3, <2>5 DEF Q!Report
<1>5. QED BY <1>3, <1>4

\* Every step of the system is a step of the queue, or leaves it as it is.
LEMMA StepRefines ==
  ASSUME Base, QueueInv, [Next]_vars
  PROVE  Q!Next \/ UNCHANGED Q!vars
<1> USE DEF QueueInv
<1>1. CASE Robin
  BY <1>1, WorkRefines DEF Q!Next
<1>2. CASE createNewConfig
  BY <1>2, EnterRefines DEF Q!Next
<1>3. ASSUME NEW t \in todo, pc = "cleanupSupersededConfigs" \/ pc = "deleteAllConfigs",
             configs' = {d \in configs : d.seq # t.seq}, UNCHANGED <<redkey, specs>>
      PROVE  Q!Next \/ UNCHANGED Q!vars
  BY <1>3, LeaveRefines DEF Q!Next, Q!vars
<1>4. CASE UNCHANGED configs
  <2>1. Queue' = Queue
    BY <1>4 DEF Queue
  <2>2. CASE aggregateStatus \/ updateStatusScaledToZero
    BY <2>2, ReportRefines DEF Q!Next
  <2>3. CASE EditSpec
    <3>1. PICK p \in Edits[redkey.generation + 1] : specs' = Append(specs, p)
      BY <2>3 DEF EditSpec
    <3>2. redkey.generation + 1 \in DOMAIN Edits
      <4>1. redkey.generation \in Nat
        BY RedkeyFields DEF Base, TypeOK
      <4>2. QED BY <2>3, <4>1, ConstantsAssumption DEF EditSpec, ConstantsAssumption
    <3>3. p \in UNION {Edits[g] : g \in DOMAIN Edits}
      BY <3>1, <3>2
    <3>4. redkey'.observedGeneration = redkey.observedGeneration
      BY <2>3, EditFields
    <3>5. QED BY <2>1, <3>1, <3>3, <3>4 DEF Q!Next, Q!Ask
  <2>4. CASE UNCHANGED <<redkey, specs>>
    BY <2>1, <2>4 DEF Q!vars
  <2>5. QED
    BY <2>2, <2>3, <2>4, RedkeySteps DEF Reconcile, SyncRedkey, Proceeds, store, history
<1>5. QED BY <1>1, <1>2, <1>3, <1>4, StoreSteps

\* With lists that hold every config the operator has created, the reconcile loop
\* implements the queue of edits.
THEOREM QueueImplemented == ASSUME ReadsOwnWrites PROVE Spec => ImplementsEditQueue
<1>1. Init => Q!Init
  <2> SUFFICES ASSUME Init PROVE Q!Init
    OBVIOUS
  <2>1. PICK p \in Edits[1] : redkey = NewRedkey(1, p) /\ specs = <<p>>
    BY DEF Init
  <2>2. redkey.observedGeneration = 0
    BY <2>1 DEF NewRedkey, RedkeyWith
  <2>3. 1 \in DOMAIN Edits
    BY ConstantsAssumption DEF ConstantsAssumption
  <2>4. p \in UNION {Edits[g] : g \in DOMAIN Edits}
    BY <2>1, <2>3
  <2>5. Queue = {}
    BY DEF Init, Queue
  <2>6. QED BY <2>1, <2>2, <2>4, <2>5 DEF Q!Init
<1>2. Base /\ QueueInv /\ [Next]_vars => [Q!Next]_(Q!vars)
  BY StepRefines
<1>3. QED
  BY <1>1, <1>2, TypeCorrect, GenerationsOrdered, HistoryKept, ControlKept, OwnWritesKept, QueueKept,
     PTL DEF Spec, Base, ImplementsEditQueue, Q!Spec

-----------------------------------------------------------------------------
(* Rest: where the loop stops, and that it stays there.                       *)

\* Robin skips a config for a later one, so what it has skipped is out of date.
SupersededInv == \A c \in configs : c.phase = "Superseded" => c.gen < redkey.generation

\* No step takes the generation back.
LEMMA GenerationGrows ==
  ASSUME TypeOK, [Next]_vars
  PROVE  redkey.generation <= redkey'.generation
<1>0. redkey.generation \in Nat
  BY RedkeyFields DEF TypeOK
<1>1. CASE aggregateStatus
  BY <1>0, <1>1 DEF aggregateStatus, AggregatedStatus, RedkeyWith
<1>2. CASE updateStatusScaledToZero
  BY <1>0, <1>2 DEF updateStatusScaledToZero, RedkeyWith
<1>3. CASE EditSpec
  BY <1>0, <1>3, EditFields
<1>4. CASE redkey' = redkey
  BY <1>0, <1>4
<1>5. QED
  BY <1>1, <1>2, <1>3, <1>4, RedkeySteps DEF Reconcile, SyncRedkey, Proceeds, store

\* A config Robin skips, or has skipped before, is out of date.
LEMMA SupersededStep ==
  ASSUME Base, SupersededInv, [Next]_vars
  PROVE  SupersededInv'
<1>0. /\ redkey.generation \in Nat /\ \A d \in configs : d.gen \in Nat
      /\ redkey.generation <= redkey'.generation /\ redkey'.generation \in Nat
  BY RedkeyFields, ConfigFields, GenerationGrows, TypeStep DEF Base, TypeOK
<1>1. CASE configs' \subseteq configs
  BY <1>0, <1>1 DEF SupersededInv
<1>2. ASSUME NEW n \in Nat, configs' = configs \cup {NewConfig(n)}
      PROVE  SupersededInv'
  <2>1. NewConfig(n).phase = "Pending"
    BY DEF NewConfig
  <2>2. QED BY <1>0, <1>2, <2>1 DEF SupersededInv
<1>3. ASSUME NEW c \in configs, NEW phase, NEW status, SetPhase(c, phase, status),
             phase = "Superseded" => c.gen < redkey.generation
      PROVE  SupersededInv'
  <2>1. /\ WithStatus(c, phase, status).phase = phase
        /\ WithStatus(c, phase, status).gen = c.gen
    BY DEF WithStatus
  <2>2. QED BY <1>0, <1>3, <2>1 DEF SetPhase, SupersededInv
<1>4. CASE RobinStart \/ RobinApply
  BY <1>3, <1>4 DEF RobinStart, RobinApply
<1>5. CASE RobinSkip
  <2>1. PICK c \in configs : /\ \E d \in InPhase(configs, "Pending") : c.seq < d.seq
                             /\ SetPhase(c, "Superseded", c.status)
    BY <1>5 DEF RobinSkip
  <2>2. PICK d \in configs : c.seq < d.seq
    BY <2>1 DEF InPhase
  <2>3. c.gen < d.gen /\ d.gen <= redkey.generation
    BY <2>2 DEF Base, OwnWritesInv, OrderInv, HistoryInv, Known
  <2>4. c.gen < redkey.generation
    BY <1>0, <2>3
  <2>5. QED BY <1>3, <2>1, <2>4
<1>6. QED BY <1>1, <1>2, <1>4, <1>5, StoreSteps DEF Robin

\* When nobody has anything left to do, the last edit has taken effect, except where
\* Case D waits for a config Robin has skipped.
THEOREM RestSettles == ASSUME ReadsOwnWrites PROVE Spec => []RestIsSettled
<1>1. Init => SupersededInv
  BY DEF Init, SupersededInv
<1>2. Base /\ SupersededInv /\ [Next]_vars => SupersededInv'
  BY SupersededStep
<1>3. TypeOK /\ UniqueInv /\ SupersededInv /\ ObservedHasConfig => RestIsSettled
  <2> SUFFICES ASSUME TypeOK, UniqueInv, SupersededInv, ObservedHasConfig, NothingToDo
               PROVE  Settled \/ Stranded
    BY DEF RestIsSettled, AtRest
  <2>0. /\ redkey.generation \in Nat
        /\ \A c \in configs : c.seq \in Nat /\ c.gen \in Nat /\ c.phase \in {"Applied", "Superseded"}
    BY RedkeyFields, ConfigFields DEF TypeOK, NothingToDo, Unfinished, isTerminalConfigPhase
  <2>1. CASE redkey.primaries = 0 /\ configs = {}
    <3>1. redkey.observedGeneration = redkey.generation /\ redkey.reason = "ScaledToZero"
      BY <2>1 DEF NothingToDo, RedkeyWith
    <3>2. QED BY <2>1, <3>1 DEF Settled
  <2>2. CASE redkey.primaries = 0 /\ configs # {}
    <3>1. PICK c \in configs : IsLatest(c, configs) /\ c.primaries = 0 /\ c.phase # "Applied"
      BY <2>2 DEF NothingToDo
    <3>2. QED BY <2>0, <2>2, <3>1 DEF Stranded
  <2>3. CASE redkey.primaries # 0
    <3>1. superseded(configs) = {}
      BY <2>3 DEF NothingToDo
    <3>2. PICK active \in configs :
            redkey = RedkeyWith(redkey.generation, redkey.primaries, redkey.generation,
                                computePhaseFromConditions(aggregateConditions(active)),
                                "StatusAggregated", LastApplied(redkey, active))
      BY <2>3 DEF NothingToDo
    <3>3. /\ redkey.observedGeneration = redkey.generation
          /\ redkey.phase = computePhaseFromConditions(aggregateConditions(active))
      BY <3>2 DEF RedkeyWith
    <3>4. PICK c \in configs : IsLatest(c, configs) /\ c.gen = redkey.generation
      BY <2>3, <3>3 DEF ObservedHasConfig
    <3>5. c.phase = "Applied"
      BY <2>0, <3>4 DEF SupersededInv
    <3>6. ASSUME NEW d \in configs PROVE d = c
      <4>1. ~(d.seq < c.seq)
        BY <3>1, <3>5 DEF superseded, InPhase
      <4>2. d.seq = c.seq
        BY <2>0, <3>4, <4>1 DEF IsLatest
      <4>3. QED BY <4>2 DEF UniqueInv
    <3>7. isTerminalConfigPhase(active.phase)
      BY <2>0 DEF isTerminalConfigPhase
    <3>8. redkey.phase \in {"Ready", "Error"}
      BY <3>3, <3>7
         DEF computePhaseFromConditions, aggregateConditions, isConfigReady, hasConfigError
    <3>9. configs = {c}
      BY <3>6
    <3>10. QED BY <2>3, <3>3, <3>4, <3>5, <3>8, <3>9 DEF Settled
  <2>4. QED BY <2>1, <2>2, <2>3
<1>4. QED
  BY <1>1, <1>2, <1>3, TypeCorrect, GenerationsOrdered, HistoryKept, ControlKept, OwnWritesKept,
     QueueKept, NoEditLost, PTL DEF Spec, Base, QueueInv

\* What a reconcile that started at rest holds.
RestingLocals ==
  pc # "idle" =>
    /\ snap = redkey /\ todo = {}
    /\ pc \in {"ensureRBAC", "ensureRobinDeployment", "listConfigs",
               "cleanupSupersededConfigs", "aggregateStatus", "updateStatusScaledToZero"}
    /\ pc = "updateStatusScaledToZero" <=> configs = {}
    /\ snap.primaries = 0 \/ pc \in {"cleanupSupersededConfigs", "aggregateStatus"}
         => view = configs

\* A step that changes nothing stored and keeps the locals as they are at rest, keeps the rest.
LEMMA RestStays ==
  ASSUME AtRest, UNCHANGED <<store, caches>>, RestingLocals'
  PROVE  AtRest' /\ UNCHANGED store
<1>1. UNCHANGED <<redkey, configs, robin, cachedRedkey, cachedConfigs, cachedRobin>>
  BY DEF store, caches
<1>2. NothingToDo'
  BY <1>1 DEF AtRest, NothingToDo, Unfinished
<1>3. QED BY <1>1, <1>2 DEF AtRest, RestingLocals, store

\* At rest, only an edit makes a change.
LEMMA RestStep ==
  ASSUME TypeOK, ListsInv, ControlInv, AtRest, [Next]_vars,
         redkey'.generation = redkey.generation
  PROVE  AtRest' /\ UNCHANGED store
<1> USE DEF Return, Goto
<1>0. /\ RestingLocals /\ NothingToDo
      /\ cachedRedkey = redkey /\ cachedConfigs = configs /\ cachedRobin = robin
  BY DEF AtRest, RestingLocals
<1>1. SUFFICES UNCHANGED <<store, caches>> /\ RestingLocals'
  BY RestStays
<1>2. ASSUME NEW c \in configs, NEW d \in configs, IsLatest(c, configs), IsLatest(d, configs)
      PROVE  c = d
  BY <1>2, LatestUnique DEF TypeOK, ListsInv
<1>3. configs # {} => robin = RobinObjects
  BY <1>0 DEF NothingToDo
<1>4. redkey.primaries = 0 /\ configs # {} =>
        \A c \in configs : IsLatest(c, configs) => c.primaries = 0 /\ c.phase # "Applied"
  BY <1>0, <1>2 DEF NothingToDo
<1>5. CASE Reconcile
  <2>1. /\ snap' = redkey /\ todo' = {} /\ UNCHANGED <<store, caches>> /\ configs' = configs
        /\ redkey' = redkey
    BY <1>0, <1>5 DEF Reconcile, ControlInv, store
  <2>2. CASE redkey.primaries # 0
    <3>1. pc' = "ensureRBAC" /\ configs # {}
      BY <1>0, <1>5, <2>2 DEF Reconcile, NothingToDo
    <3>2. QED BY <2>1, <2>2, <3>1 DEF RestingLocals
  <2>3. CASE redkey.primaries = 0 /\ configs = {}
    <3>1. pc' = "updateStatusScaledToZero" /\ view' = {}
      BY <1>0, <1>5, <2>3 DEF Reconcile, ZeroCase
    <3>2. QED BY <2>1, <2>3, <3>1 DEF RestingLocals
  <2>4. CASE redkey.primaries = 0 /\ configs # {}
    <3>1. pc' = "ensureRBAC" /\ view' = configs
      BY <1>0, <1>4, <1>5, <2>4 DEF Reconcile, ZeroCase
    <3>2. QED BY <2>1, <2>4, <3>1 DEF RestingLocals
  <2>5. QED BY <2>2, <2>3, <2>4
<1>6. CASE ensureRBAC
  <2>1. "RBAC" \in cachedRobin
    BY <1>0, <1>3, <1>6 DEF ensureRBAC, RestingLocals, RobinObjects
  <2>2. QED BY <1>0, <1>6, <2>1 DEF ensureRBAC, Ensure, RestingLocals, store
<1>7. CASE ensureRobinDeployment
  <2>1. "Deployment" \in cachedRobin /\ configs # {}
    BY <1>0, <1>3, <1>7 DEF ensureRobinDeployment, RestingLocals, RobinObjects
  <2>2. /\ pc' = AfterEnsure /\ UNCHANGED <<snap, view, todo, store, caches>>
        /\ pc = "ensureRobinDeployment"
    BY <1>7, <2>1 DEF ensureRobinDeployment, Ensure, store
  <2>3. CASE redkey.primaries # 0
    <3>1. pc' = "listConfigs"
      BY <1>0, <2>2, <2>3 DEF AfterEnsure, RestingLocals
    <3>2. QED BY <1>0, <2>1, <2>2, <2>3, <3>1 DEF RestingLocals, store
  <2>4. CASE redkey.primaries = 0
    <3>1. view = configs
      BY <1>0, <2>2, <2>4 DEF RestingLocals
    <3>2. pc' = "aggregateStatus"
      BY <1>0, <1>4, <2>1, <2>2, <2>4, <3>1 DEF AfterEnsure, RestingLocals
    <3>3. QED BY <1>0, <2>1, <2>2, <3>1, <3>2 DEF RestingLocals, store
  <2>5. QED BY <2>3, <2>4
<1>8. CASE listConfigs
  <2>1. snap = redkey /\ snap.primaries # 0 /\ configs # {} /\ todo = {}
    BY <1>0, <1>8 DEF listConfigs, ControlInv, RestingLocals
  <2>2. \A c \in configs : IsLatest(c, configs) => ~needsNewConfig(snap, c)
    BY <1>0, <1>2, <2>1 DEF NothingToDo
  <2>3. StartCleanup(configs) /\ UNCHANGED <<store, caches>>
    BY <1>0, <1>8, <2>1, <2>2 DEF listConfigs
  <2>4. superseded(configs) = {}
    BY <1>0, <2>1 DEF NothingToDo
  <2>5. QED BY <2>1, <2>3, <2>4 DEF StartCleanup, RestingLocals, store
<1>9. CASE cleanupSupersededConfigs
  BY <1>0, <1>9 DEF cleanupSupersededConfigs, RestingLocals, store
<1>10. CASE aggregateStatus
  <2>1. snap = redkey /\ view = configs /\ configs # {}
    BY <1>0, <1>10 DEF aggregateStatus, RestingLocals
  <2>2. PICK a \in configs : selectActiveConfig(a, configs) /\ redkey' = AggregatedStatus(redkey, a)
    BY <1>0, <1>10, <2>1 DEF aggregateStatus
  <2>3. PICK b \in configs :
          /\ selectActiveConfig(b, configs)
          /\ redkey = RedkeyWith(redkey.generation, redkey.primaries, redkey.generation,
                                 computePhaseFromConditions(aggregateConditions(b)),
                                 "StatusAggregated", LastApplied(redkey, b))
    BY <1>0, <2>1 DEF NothingToDo
  <2>4. a = b
    BY <2>1, <2>2, <2>3, SortedListDecides DEF TypeOK, ListsInv
  <2>5. redkey' = redkey
    BY <2>1, <2>2, <2>3, <2>4 DEF AggregatedStatus
  <2>6. QED BY <1>10, <2>5 DEF aggregateStatus, RestingLocals, store
<1>11. CASE updateStatusScaledToZero
  <2>1. snap = redkey /\ configs = {}
    BY <1>0, <1>11 DEF updateStatusScaledToZero, RestingLocals
  <2>2. redkey = RedkeyWith(redkey.generation, redkey.primaries, redkey.generation,
                            "Ready", "ScaledToZero", redkey.lastApplied)
    BY <1>0, <2>1 DEF NothingToDo
  <2>3. QED BY <1>11, <2>1, <2>2 DEF updateStatusScaledToZero, RestingLocals, store
<1>12. CASE createNewConfig \/ relistConfigs \/ deleteRobinDeployment \/ deleteRBAC \/ deleteAllConfigs
  BY <1>0, <1>12 DEF createNewConfig, relistConfigs, deleteRobinDeployment, deleteRBAC,
       deleteAllConfigs, RestingLocals
<1>13. CASE Abort
  BY <1>13 DEF Abort, RestingLocals
<1>14. CASE SyncRedkey \/ SyncConfigs \/ SyncRobin
  BY <1>0, <1>14 DEF SyncRedkey, SyncConfigs, SyncRobin
<1>15. CASE EditSpec
  <2>1. redkey.generation \in Nat
    BY RedkeyFields DEF TypeOK
  <2>2. QED BY <1>15, <2>1, EditFields
<1>16. CASE Robin
  <2>1. \A c \in configs : c.phase \notin {"Pending", "InProgress"}
    BY <1>0 DEF NothingToDo, Unfinished, isTerminalConfigPhase
  <2>2. QED BY <1>16, <2>1 DEF Robin, RobinStart, RobinSkip, RobinApply, RobinTurn
<1>17. CASE UNCHANGED vars
  BY <1>0, <1>17 DEF vars, store, caches, locals, RestingLocals
<1>18. QED
  BY <1>5, <1>6, <1>7, <1>8, <1>9, <1>10, <1>11, <1>12, <1>13, <1>14, <1>15, <1>16, <1>17
     DEF Next, Step

\* The reconciles after every ResyncInterval change nothing at rest, whatever the lists
\* promise and however they are cut short: only an edit ends the rest.
THEOREM RestLasts == Spec => RestIsKept
<1>1. TypeOK /\ ListsInv /\ ControlInv /\ [Next]_vars =>
        [AtRest /\ redkey'.generation = redkey.generation => AtRest' /\ UNCHANGED store]_vars
  BY RestStep
<1>2. QED BY <1>1, TypeCorrect, ListsKept, ControlKept, PTL DEF Spec, RestIsKept
=============================================================================
