------------------------------ MODULE MCRedkey ------------------------------
(***************************************************************************)
(* Instances of RedkeyReconciler for TLC: the edits a user may make, one   *)
(* set of topologies per generation.                                       *)
(***************************************************************************)
EXTENDS RedkeyQueue

\* Any edit before a scale to zero; and a scale to zero or any other edit before
\* the cluster is up again.  A user may also stop earlier.
ThenDown == <<{0, 3}, {0, 3}, {0}>>
DownMaybeUp == <<{3}, {0, 3}, {3}>>

\* One edit that does not change the topology.
Touch == <<{3}, {3}>>

\* Down to zero; and back up, perhaps to something else.
Down == <<{3}, {0}>>
DownUpOther == <<{3}, {0}, {3, 5}>>

\* Twice down to zero, so that a zero config may be skipped for another.
UpDownUpDown == <<{3}, {0}, {3}, {0}>>
=============================================================================
