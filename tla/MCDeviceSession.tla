-------------------------- MODULE MCDeviceSession --------------------------
(* DeviceSession on small instances: the sockets are interchangeable.      *)
EXTENDS DeviceSession, TLC

Symmetry == Permutations(Sockets)

=============================================================================
