------------------------------ MODULE MCRobin ------------------------------
(***************************************************************************)
(* Instances of RobinObjects for TLC: the Redkey specs a user moves        *)
(* between.                                                                *)
(***************************************************************************)
EXTENDS RobinObjects

Plain == [labels |-> << >>, templateLabels |-> << >>, image |-> "v1", env |-> << >>,
          nodeSelector |-> "unset"]

\* Labels and variables that use the names of internal ones, and an optional pod
\* field.
Labelled == [labels |-> [cluster |-> "mine", team |-> "a"], templateLabels |-> << >>,
             image |-> "v1", env |-> <<Env("LOG", "a"), Env("CLUSTER_NAME", "mine")>>,
             nodeSelector |-> "disk"]

\* No labels but those of the pod template, which replace the others; another image,
\* and a variable that is set twice.
Templated == [labels |-> << >>, templateLabels |-> [component |-> "mine"],
              image |-> "v2", env |-> <<Env("LOG", "a"), Env("NAMESPACE", "mine"), Env("LOG", "b")>>,
              nodeSelector |-> "unset"]

\* Nothing but the optional pod field.
Pinned == [Plain EXCEPT !.nodeSelector = "disk"]

TwoSpecs == {Labelled, Templated}
PinOnly == {Plain, Pinned}
=============================================================================
