--------------------------- MODULE MCPlanLifecycle ---------------------------
(***************************************************************************)
(* Instances of PlanLifecycle for TLC.                                     *)
(***************************************************************************)
EXTENDS PlanLifecycle, TLC

\* Requests are interchangeable: the specification only compares them.
InterchangeableWriters == Permutations(Writer)
=============================================================================
