-------------------------- MODULE MCTransferPool ---------------------------
(* TransferPool on small instances.                                        *)
EXTENDS TransferPool

CONSTANTS d1, d2

\* Two installs that overlap on one device, one of them with a second.
Overlapping ==
    {[job |-> "install1", key |-> <<d1, "install">>],
     [job |-> "install1", key |-> <<d2, "install">>],
     [job |-> "install2", key |-> <<d1, "install">>]}

=============================================================================
