----------------------------- MODULE MCMetrics -----------------------------
(***************************************************************************)
(* An instance of FleetMetrics for TLC: what Robin reports.                *)
(***************************************************************************)
EXTENDS FleetMetrics

SomeReports ==
  {[phase |-> "Pending", status |-> ""],
   [phase |-> "InProgress", status |-> "ScalingUp"],
   [phase |-> "InProgress", status |-> "Upgrading"],
   [phase |-> "Applied", status |-> "Ready"],
   [phase |-> "Applied", status |-> "Error"]}
=============================================================================
