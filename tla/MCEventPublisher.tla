-------------------------- MODULE MCEventPublisher --------------------------
(* Values of the constants of EventPublisher for TLC.                      *)
EXTENDS EventPublisher

CONSTANTS p1, p2, k1, k2

MCProducers == {p1, p2}
MCKeys == {k1, k2}

=============================================================================
