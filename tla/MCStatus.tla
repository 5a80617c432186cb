------------------------------ MODULE MCStatus ------------------------------
(***************************************************************************)
(* Instances of RedkeyStatus for TLC: the primaries and replicas per       *)
(* primary a user may ask for in each generation.                          *)
(***************************************************************************)
EXTENDS RedkeyStatus

\* Down to zero and up again.
DownUp == <<{3}, {0}, {3}>>

\* A topology without replicas, and any on the way up: a recorded 0 is the edge case.
UpAny == <<{0}, {0}, {0, 1}>>
=============================================================================
