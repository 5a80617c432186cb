------------------------------ MODULE EditQueue ------------------------------
(***************************************************************************)
(* What the operator promises, without caches, failures or Robin's objects *)
(* in the way: the edits of a Redkey form a queue.  Each generation enters *)
(* it at most once and in order, is worked on in order and one at a time,  *)
(* leaves it only when it is finished and something newer has taken its    *)
(* place, and is reported as observed only when it cannot be lost any      *)
(* more.  Generations may be passed over: an edit that is overtaken before *)
(* the operator sees it never enters the queue.                            *)
(***************************************************************************)
EXTENDS Naturals, Sequences

CONSTANT Topologies   \* what may be asked for; 0 is a scale to zero

VARIABLES
  asked,      \* asked[g] = the topology of generation g
  observed,   \* the generation reported as observed
  queue       \* the generations being kept, with their phases

vars == <<asked, observed, queue>>

Entry(gen, phase) == [gen |-> gen, phase |-> phase]

Finished(e) == e.phase \in {"Applied", "Superseded"}

\* e is the one to work on.
Current(e) == \A f \in queue : ~Finished(f) => e.gen <= f.gen

Init == asked \in {<<p>> : p \in Topologies} /\ observed = 0 /\ queue = {}

Ask == /\ \E p \in Topologies : asked' = Append(asked, p)
       /\ UNCHANGED <<observed, queue>>

\* A generation that has been reported, or is older than one in the queue, is not
\* entered any more.  A scale to zero may be repeated, which is harmless.
Enter == \E g \in 1..Len(asked) :
           /\ observed < g \/ (observed = g /\ asked[g] = 0)
           /\ \A e \in queue : e.gen < g
           /\ queue' = queue \cup {Entry(g, "Pending")}
           /\ UNCHANGED <<asked, observed>>

Move(e, phase) == /\ Current(e)
                  /\ queue' = (queue \ {e}) \cup {Entry(e.gen, phase)}
                  /\ UNCHANGED <<asked, observed>>

Work ==
  \E e \in queue :
    \/ e.phase = "Pending" /\ Move(e, "InProgress")
    \/ e.phase = "InProgress" /\ Move(e, "Applied")
    \/ /\ e.phase = "Pending" /\ Move(e, "Superseded")
       /\ \E f \in queue : f.phase = "Pending" /\ e.gen < f.gen

\* An entry leaves when a newer one is applied, or with all others after a scale to
\* zero that nothing in the queue is newer than.
Leave == \E e \in queue :
           /\ Finished(e)
           /\ \/ \E f \in queue : f.phase = "Applied" /\ e.gen < f.gen
              \/ /\ \A f \in queue : Finished(f)
                 /\ \E g \in 1..Len(asked) : asked[g] = 0 /\ \A f \in queue : f.gen <= g
           /\ queue' = queue \ {e}
           /\ UNCHANGED <<asked, observed>>

\* Nothing in the queue is newer than the generation reported, which is itself in the
\* queue unless it is a scale to zero.
Report == \E g \in 1..Len(asked) :
            /\ observed <= g /\ \A e \in queue : e.gen <= g
            /\ asked[g] # 0 => \E e \in queue : e.gen = g
            /\ observed' = g
            /\ UNCHANGED <<asked, queue>>

Next == Ask \/ Enter \/ Work \/ Leave \/ Report

Spec == Init /\ [][Next]_vars
=============================================================================
