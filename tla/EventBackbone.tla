---------------------------- MODULE EventBackbone ----------------------------
(***************************************************************************)
(* The event backbone end to end: the publishers of EventPublisher and the *)
(* consumers of StreamConsumer on the one Redis stream they share.  A      *)
(* message arrives for the consumers exactly when a publisher's XADD takes *)
(* effect; the two sides share nothing else (and the model's fault budget).*)
(***************************************************************************)
EXTENDS Naturals, Sequences, FiniteSets

CONSTANTS
    Keys,                                                      \* shared
    Producers, Operator, MaxReplays,                           \* EventPublisher
    Replicas, Groups, RetryManager, Wants, Poison, BatchSize,  \* StreamConsumer
    ScanSize, RetryEnabled, SlowHandlers,
    MaxFaults                                                  \* shared bound

VARIABLES
    stream, faults,
    eventLog, pc, env, told, replay, resent,
    cursor, pel, stale, processed, dead, checkpoint, thread, todo,
    effects, interrupted

\* Messages the publishers can append at all: one per event and one more for
\* every resent command.
MaxMessages == Cardinality(Keys) + MaxFaults

P == INSTANCE EventPublisher
C == INSTANCE StreamConsumer

ASSUME BackboneAssumption == P!PublisherAssumption /\ C!ConsumerAssumption

publisherVars == <<eventLog, pc, env, told, replay, resent>>
consumerVars == <<cursor, pel, stale, processed, dead, checkpoint, thread, todo,
                  effects, interrupted>>
vars == <<stream, faults, publisherVars, consumerVars>>

Init == P!Init /\ C!Init

PublisherSide == P!Next /\ UNCHANGED consumerVars
ConsumerSide == C!ConsumerNext /\ UNCHANGED publisherVars

Next == PublisherSide \/ ConsumerSide

Spec == Init /\ [][Next]_vars

\* A goroutine inside Publish goes on, and the consumers do. Nobody has to
\* publish anything, and nothing has to fail.
FairSpec ==
    /\ Spec
    /\ \A p \in P!Callers : WF_vars(P!Step(p) /\ UNCHANGED consumerVars)
    /\ \A t \in C!Threads : WF_vars(C!HandlerStep(t) /\ UNCHANGED publisherVars)
    /\ \A r \in Replicas : WF_vars(C!RetryStep(r) /\ UNCHANGED publisherVars)
    /\ \A r \in Replicas, g \in Groups :
          WF_vars(C!ReadGroup(r, g) /\ UNCHANGED publisherVars)
    /\ \A g \in Groups, m \in 1..MaxMessages :
          WF_vars(C!TimePasses(g, m) /\ UNCHANGED publisherVars)

-----------------------------------------------------------------------------
(* Properties *)

\* "Durability before dispatch" at the far end: no domain service ever runs
\* for an event that has no row in event_log.
RunsAreRecorded ==
    \A g \in Groups, k \in Keys :
        effects[g][k] > 0 => eventLog[k].status # "absent"

\* With the publisher on the other side nothing has to be assumed about the
\* stream any more: while handlers keep the claim threshold, the two
\* idempotency tables together let an event, unless its XADD was resent, run
\* again only after a crash or failed INSERT between its run and its record,
\* and exactly once for each of those.
RunAgainOnlyIfInterrupted ==
    ~SlowHandlers =>
        \A g \in Groups : \A k \in Keys \ resent :
            /\ effects[g][k] <= interrupted[g][k] + 1
            /\ k \in processed[g] => effects[g][k] = interrupted[g][k] + 1

\* An answer "ok" is never lost on the way: for every group that acts upon
\* the event, the group has processed it or still has a message of it to read
\* or to retry, whatever has crashed or failed on either side.
OkIsNeverLost ==
    \A k \in Keys : "ok" \in told[k] =>
        \A g \in Groups : k \in Wants[g] \ processed[g] =>
            \E m \in DOMAIN stream :
                stream[m] = k /\ (m > cursor[g] \/ m \in pel[g])

\* What an answer "ok" of Publish is worth in the end: every group that acts
\* upon the event has processed it (unless its service fails for ever).
OkIsProcessed ==
    \A g \in Groups, k \in Keys :
        ("ok" \in told[k] /\ k \in Wants[g] \ Poison) ~> (k \in processed[g])

\* However often its handlers are cut off or its message is retried, an event
\* that was sent once runs at most once more than calls have failed.
RunsBoundedByFaults ==
    ~SlowHandlers =>
        \A g \in Groups : \A k \in Keys \ resent : effects[g][k] <= faults + 1

\* The backbone implements the at-least-once contract: an event counts as
\* sent when it is in event_log and in the stream.
Contract == INSTANCE AtLeastOnce WITH
    sent <- {k \in P!Recorded : P!InStream(k)},
    runs <- effects,
    handled <- processed

ContractSpec == Contract!Spec

=============================================================================
