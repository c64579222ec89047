---------------------------- MODULE AtLeastOnce ----------------------------
(***************************************************************************)
(* What the event backbone promises its domain services, without streams,  *)
(* pending lists, threads or retries: every event a group is interested in *)
(* is run at least once, only after it was sent, and is recorded as        *)
(* processed only after a run of it; a recorded event stays recorded.      *)
(*                                                                         *)
(* StreamConsumer and EventBackbone are shown to implement this module.    *)
(***************************************************************************)
EXTENDS Naturals

CONSTANTS
    Groups,  \* consumer groups
    Keys,    \* events
    Wants    \* Wants[g]: the events the handler of g does not ignore

VARIABLES
    sent,    \* events a consumer can have received
    runs,    \* runs[g][k]: times the domain service of g ran for k
    handled  \* handled[g]: events recorded in consumer_processed_events

vars == <<sent, runs, handled>>

Init ==
    /\ sent = {}
    /\ runs = [g \in Groups |-> [k \in Keys |-> 0]]
    /\ handled = [g \in Groups |-> {}]

Send(k) ==
    /\ sent' = sent \cup {k}
    /\ UNCHANGED <<runs, handled>>

Run(g, k) ==
    /\ k \in sent \cap Wants[g]
    /\ runs' = [runs EXCEPT ![g][k] = @ + 1]
    /\ UNCHANGED <<sent, handled>>

Record(g, k) ==
    /\ runs[g][k] > 0
    /\ handled' = [handled EXCEPT ![g] = @ \cup {k}]
    /\ UNCHANGED <<sent, runs>>

Next ==
    \/ \E k \in Keys : Send(k)
    \/ \E g \in Groups, k \in Keys : Run(g, k) \/ Record(g, k)

Spec == Init /\ [][Next]_vars

=============================================================================
