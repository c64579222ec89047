--------------------------- MODULE DurableOutbox ---------------------------
(***************************************************************************)
(* What the outbox promises those who publish and those who read the       *)
(* stream, without callers, calls or failures: an event is recorded before *)
(* it is dispatched and dispatched once, by the run of Publish that        *)
(* recorded it; its row ends published or failed, for good; and whoever    *)
(* was told "ok" has an event that is dispatched and published.  A replay  *)
(* adds nothing to any of this.                                            *)
(*                                                                         *)
(* EventPublisher is shown to implement this module.                       *)
(***************************************************************************)
CONSTANT Keys  \* events

VARIABLES
    row,         \* row[k]: the event's row of event_log
    dispatched,  \* events a reader of the stream can meet
    confirmed    \* events some caller of Publish was told "ok" for

vars == <<row, dispatched, confirmed>>

Init ==
    /\ row = [k \in Keys |-> "absent"]
    /\ dispatched = {}
    /\ confirmed = {}

Record(k) ==
    /\ row[k] = "absent"
    /\ row' = [row EXCEPT ![k] = "pending"]
    /\ UNCHANGED <<dispatched, confirmed>>

Dispatch(k) ==
    /\ row[k] = "pending" /\ k \notin dispatched
    /\ dispatched' = dispatched \cup {k}
    /\ UNCHANGED <<row, confirmed>>

\* The row is marked, and who called may be told "ok" or never hear of it; but
\* nobody is told so for an event of which the row says something else.
Confirm(k) ==
    /\ row[k] = "pending" /\ k \in dispatched
    /\ row' = [row EXCEPT ![k] = "published"]
    /\ confirmed' \in {confirmed, confirmed \cup {k}}
    /\ UNCHANGED dispatched

\* Dispatching failed, or seemed to: the message may be there all the same.
GiveUp(k) ==
    /\ row[k] = "pending"
    /\ row' = [row EXCEPT ![k] = "failed"]
    /\ UNCHANGED <<dispatched, confirmed>>

Next == \E k \in Keys : Record(k) \/ Dispatch(k) \/ Confirm(k) \/ GiveUp(k)

Spec == Init /\ [][Next]_vars

=============================================================================
