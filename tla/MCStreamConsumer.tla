-------------------------- MODULE MCStreamConsumer --------------------------
(* Values of the constants of StreamConsumer for TLC.                      *)
EXTENDS StreamConsumer, TLC

CONSTANTS r1, r2, g1, k1, k2

MCOneReplica == {r1}
MCTwoReplicas == {r1, r2}
MCOneGroup == {g1}
MCOneKey == {k1}
MCKeys == {k1, k2}

\* The group acts upon every event.
MCWantsAll == [g \in Groups |-> Keys]

MCNoPoison == {}
MCPoison == {k1}

MCSymmetry == Permutations(Replicas) \cup Permutations(Keys)

=============================================================================
