--------------------------- MODULE MCEventBackbone ---------------------------
(* Values of the constants of EventBackbone for TLC.                       *)
EXTENDS EventBackbone, TLC

CONSTANTS p1, p2, r1, g1, g2, k1

MCProducers == {p1, p2}
MCReplicas == {r1}
MCGroups == {g1, g2}
MCKeys == {k1}
MCWants == [g \in Groups |-> Keys]
MCPoison == {}

=============================================================================
