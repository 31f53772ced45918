--------------------------- MODULE MCPushJobStore ---------------------------
(* Model checking of PushJobStore on small sets of jobs and devices.       *)
EXTENDS PushJobStoreRefinement, TLC

JobSymmetry == Permutations(Jobs)
=============================================================================
