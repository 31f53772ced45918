------------------------ MODULE MCPushJobCoordinator ------------------------
(* Instances of PushJobCoordinator for TLC.  Commands of one job differ only *)
(* in their body, so bodies, like jobs and sockets, are interchangeable.     *)
EXTENDS PushJobCoordinator, TLC

Symmetry == Permutations(Ids) \cup Permutations(Bodies) \cup Permutations(Sockets)
=============================================================================
