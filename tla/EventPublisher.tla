--------------------------- MODULE EventPublisher ---------------------------
(***************************************************************************)
(* The outbox of the event backbone: Publisher.Publish writes a row of     *)
(* event_log in PostgreSQL, appends the envelope to a Redis stream and     *)
(* marks the row, three calls that another caller, a failing call or a     *)
(* crash can fall between; and TriggerReplay, the administrative handler   *)
(* that sends recorded events through the same Publish again.              *)
(*                                                                         *)
(* One stream is modelled: streams share nothing but the event_log table,  *)
(* whose idempotency key is unique per stream.                             *)
(***************************************************************************)
EXTENDS Naturals, Sequences

CONSTANTS
    Producers,    \* the goroutines that publish: monitor, scorer, HTTP handlers
    Operator,     \* the request that runs POST /streams/replays
    Keys,         \* business occurrences, e.g. "mention.scored.v1:<mention id>"
    MaxReplays,   \* bound: replay requests made
    MaxFaults     \* bound: failed calls, resent commands and crashes

ASSUME PublisherAssumption ==
    /\ Operator \notin Producers
    /\ MaxReplays \in Nat
    /\ MaxFaults \in Nat

VARIABLES
    eventLog,  \* table event_log: one row per event id
    stream,    \* the Redis stream, as the event ids of its messages in order
    pc,        \* pc[p]: the call of Publish that p makes next
    env,       \* env[p]: the envelope p is publishing
    told,      \* told[k]: the answers Publish has given for k so far
    replay,    \* the operator's latest job: its row of event_replays and the
               \* progress of the request that serves it
    resent,    \* events whose XADD the Redis client has sent twice (history)
    faults     \* faults taken so far, at most MaxFaults

vars == <<eventLog, stream, pc, env, told, replay, resent, faults>>

Callers == Producers \cup {Operator}

\* The idempotency key of an ordinary event is <<k, 0>>; replay n of it is
\* published under <<k, n>>, the code's key + ":replay:" + replay id.
IdemKey == Keys \X (0..MaxReplays)

\* NewEnvelope draws a fresh event id on every call. Only the id of the row
\* that was inserted is ever seen again, so k also names the event id of the
\* event recorded for k.
Envelope == [id: Keys, ikey: IdemKey]
NoEnvelope == [id |-> "none", ikey |-> <<"none", 0>>]

PublishStatus == {"absent", "pending", "published", "failed"}
PublishStep == {"idle", "insert", "xadd", "markPublished", "markFailed"}
Answer == {"ok", "duplicate", "error"}
ReplayStatus == {"none", "running", "completed", "failed"}
ReplayJob == [status: ReplayStatus, job: 0..MaxReplays, count: Nat,
              serving: BOOLEAN, listed: BOOLEAN, todo: SUBSET Keys]

TypeOK ==
    /\ eventLog \in [Keys -> [status: PublishStatus, ikey: IdemKey]]
    /\ stream \in Seq(Keys)
    /\ pc \in [Callers -> PublishStep]
    /\ env \in [Callers -> Envelope \cup {NoEnvelope}]
    /\ \A p \in Callers : pc[p] # "idle" => env[p] \in Envelope
    /\ told \in [Keys -> SUBSET Answer]
    /\ replay \in ReplayJob
    /\ resent \subseteq Keys
    /\ faults \in 0..MaxFaults

Init ==
    /\ eventLog = [k \in Keys |-> [status |-> "absent", ikey |-> <<k, 0>>]]
    /\ stream = <<>>
    /\ pc = [p \in Callers |-> "idle"]
    /\ env = [p \in Callers |-> NoEnvelope]
    /\ told = [k \in Keys |-> {}]
    /\ replay = [status |-> "none", job |-> 0, count |-> 0,
                 serving |-> FALSE, listed |-> FALSE, todo |-> {}]
    /\ resent = {}
    /\ faults = 0

-----------------------------------------------------------------------------

Recorded == {k \in Keys : eventLog[k].status # "absent"}
InStream(k) == \E i \in DOMAIN stream : stream[i] = k

\* Mutant of Refused: event_id is not unique.
BugRefused(e) == \E k \in Recorded : eventLog[k].ikey = e.ikey

\* The two unique constraints of event_log: event_id, and idempotency key.
Refused(e) ==
    \/ e.id \in Recorded
    \/ \E k \in Recorded : eventLog[k].ikey = e.ikey

\* What the statement that p is at makes of event_log.
Written(p) ==
    CASE pc[p] = "insert" /\ ~Refused(env[p]) ->
            [eventLog EXCEPT ![env[p].id] = [status |-> "pending", ikey |-> env[p].ikey]]
      [] pc[p] = "markPublished" -> [eventLog EXCEPT ![env[p].id].status = "published"]
      [] pc[p] = "markFailed" -> [eventLog EXCEPT ![env[p].id].status = "failed"]
      [] OTHER -> eventLog

\* A statement that fails or is never answered may have been committed.
MayWrite(p) == eventLog' \in {eventLog, Written(p)}

Goto(p, step) == pc' = [pc EXCEPT ![p] = step]

Fault == faults < MaxFaults /\ faults' = faults + 1

\* Publish returns: a producer keeps the answer; TriggerReplay counts a
\* success and gives the whole job up on any error.
Return(p, answer) ==
    /\ Goto(p, "idle")
    /\ env' = [env EXCEPT ![p] = NoEnvelope]
    /\ told' = IF p = Operator THEN told
               ELSE [told EXCEPT ![env[p].id] = @ \cup {answer}]
    /\ replay' = IF p # Operator THEN replay
                 ELSE IF answer = "ok" THEN [replay EXCEPT !.count = @ + 1]
                 ELSE [replay EXCEPT !.status = "failed", !.serving = FALSE]

-----------------------------------------------------------------------------
(* Publish *)

\* A caller builds the envelope and calls Publish. Producers repeat a key
\* whenever they come across the same occurrence again (a mention re-scored).
Publish(p, k) ==
    /\ p \in Producers
    /\ pc[p] = "idle"
    /\ Goto(p, "insert")
    /\ env' = [env EXCEPT ![p] = [id |-> k, ikey |-> <<k, 0>>]]
    /\ UNCHANGED <<eventLog, stream, told, replay, resent, faults>>

\* Mutant of CreateEventLog: the event is left for somebody to dispatch later.
BugCreateEventLog(p) ==
    /\ pc[p] = "insert"
    /\ ~Refused(env[p])
    /\ eventLog' = Written(p)
    /\ Return(p, "ok")
    /\ UNCHANGED <<stream, resent, faults>>

\* CreateEventLog: the row is there, pending, before anything reaches Redis.
CreateEventLog(p) ==
    /\ pc[p] = "insert"
    /\ ~Refused(env[p])
    /\ eventLog' = Written(p)
    /\ Goto(p, "xadd")
    /\ UNCHANGED <<stream, env, told, replay, resent, faults>>

\* Mutant of RefuseDuplicate: a duplicate counts as success.
BugRefuseDuplicate(p) ==
    /\ pc[p] = "insert"
    /\ Refused(env[p])
    /\ Return(p, "ok")
    /\ UNCHANGED <<eventLog, stream, resent, faults>>

\* CreateEventLog answers 23505: ErrDuplicateEvent, and nothing else is done.
RefuseDuplicate(p) ==
    /\ pc[p] = "insert"
    /\ Refused(env[p])
    /\ Return(p, "duplicate")
    /\ UNCHANGED <<eventLog, stream, resent, faults>>

\* Mutant of CreateEventLogFails: dispatch goes on without the row.
BugCreateEventLogFails(p) ==
    /\ pc[p] = "insert"
    /\ Fault
    /\ Goto(p, "xadd")
    /\ UNCHANGED <<eventLog, stream, env, told, replay, resent>>

\* Any other failure of the INSERT. When only its answer is lost, the row is
\* there, pending, and nobody dispatches the event.
CreateEventLogFails(p) ==
    /\ pc[p] = "insert"
    /\ Fault
    /\ MayWrite(p)
    /\ Return(p, "error")
    /\ UNCHANGED <<stream, resent>>

\* XADD appends the envelope.
XAdd(p) ==
    /\ pc[p] = "xadd"
    /\ stream' = Append(stream, env[p].id)
    /\ Goto(p, "markPublished")
    /\ UNCHANGED <<eventLog, env, told, replay, resent, faults>>

\* The answer to XADD is lost and the client sends the command again: two
\* messages, each with an id of its own, carry the same event.
XAddResent(p) ==
    /\ pc[p] = "xadd"
    /\ Fault
    /\ stream' = Append(Append(stream, env[p].id), env[p].id)
    /\ resent' = resent \cup {env[p].id}
    /\ Goto(p, "markPublished")
    /\ UNCHANGED <<eventLog, env, told, replay>>

\* Mutant of XAddFails: the error is ignored.
BugXAddFails(p) ==
    /\ pc[p] = "xadd"
    /\ Fault
    /\ Goto(p, "markPublished")
    /\ UNCHANGED <<eventLog, stream, env, told, replay, resent>>

\* XADD returns an error. The command may still have been executed.
XAddFails(p) ==
    /\ pc[p] = "xadd"
    /\ Fault
    /\ stream' \in {stream, Append(stream, env[p].id)}
    /\ Goto(p, "markFailed")
    /\ UNCHANGED <<eventLog, env, told, replay, resent>>

MarkEventLogPublished(p) ==
    /\ pc[p] = "markPublished"
    /\ eventLog' = Written(p)
    /\ Return(p, "ok")
    /\ UNCHANGED <<stream, resent, faults>>

\* The UPDATE fails, or its answer is lost: an error is returned although the
\* message is in Redis, and the row may say so.
MarkEventLogPublishedFails(p) ==
    /\ pc[p] = "markPublished"
    /\ Fault
    /\ MayWrite(p)
    /\ Return(p, "error")
    /\ UNCHANGED <<stream, resent>>

MarkEventLogPublishFailed(p) ==
    /\ pc[p] = "markFailed"
    /\ eventLog' = Written(p)
    /\ Return(p, "error")
    /\ UNCHANGED <<stream, resent, faults>>

\* The UPDATE fails too (logged only): the row may stay pending.
MarkEventLogPublishFailedFails(p) ==
    /\ pc[p] = "markFailed"
    /\ Fault
    /\ MayWrite(p)
    /\ Return(p, "error")
    /\ UNCHANGED <<stream, resent>>

\* The process dies, possibly while a statement of it is being committed;
\* nobody gets an answer, and a replay keeps the status it had.
Crash(p) ==
    /\ pc[p] # "idle"
    /\ Fault
    /\ Goto(p, "idle")
    /\ env' = [env EXCEPT ![p] = NoEnvelope]
    /\ replay' = IF p = Operator THEN [replay EXCEPT !.serving = FALSE] ELSE replay
    /\ MayWrite(p)
    /\ UNCHANGED <<stream, told, resent>>

-----------------------------------------------------------------------------
(* TriggerReplay *)

\* CreateEventReplay, then ListReplayableEvents. With no workspace_id the
\* query is given '' for a uuid and fails; with no to_occurred_at it is given
\* the zero time and selects nothing; the other filters select any subset.
RequestReplay(hasWorkspace, hasTo) ==
    /\ ~replay.serving /\ replay.job < MaxReplays
    /\ \E rows \in SUBSET (IF hasTo THEN Recorded ELSE {}) :
           replay' = [status |-> IF hasWorkspace THEN "running" ELSE "failed",
                      job |-> replay.job + 1, count |-> 0,
                      serving |-> hasWorkspace, listed |-> hasWorkspace,
                      todo |-> IF hasWorkspace THEN rows ELSE {}]
    /\ UNCHANGED <<eventLog, stream, pc, env, told, resent, faults>>

\* One round of the loop: the recorded event, with its own event id, under a
\* new idempotency key.
ReplayNext(k) ==
    /\ replay.serving /\ k \in replay.todo
    /\ pc[Operator] = "idle"
    /\ Goto(Operator, "insert")
    /\ env' = [env EXCEPT ![Operator] = [id |-> k, ikey |-> <<k, replay.job>>]]
    /\ replay' = [replay EXCEPT !.todo = @ \ {k}]
    /\ UNCHANGED <<eventLog, stream, told, resent, faults>>

\* The loop has run to its end.
ReplayCompletes ==
    /\ replay.serving /\ replay.todo = {}
    /\ pc[Operator] = "idle"
    /\ replay' = [replay EXCEPT !.status = "completed", !.serving = FALSE]
    /\ UNCHANGED <<eventLog, stream, pc, env, told, resent, faults>>

-----------------------------------------------------------------------------

\* The calls a live caller goes on to make once it is inside Publish.
Step(p) ==
    \/ CreateEventLog(p)
    \/ RefuseDuplicate(p)
    \/ XAdd(p)
    \/ MarkEventLogPublished(p)
    \/ MarkEventLogPublishFailed(p)

FaultyStep(p) ==
    \/ CreateEventLogFails(p)
    \/ XAddResent(p)
    \/ XAddFails(p)
    \/ MarkEventLogPublishedFails(p)
    \/ MarkEventLogPublishFailedFails(p)
    \/ Crash(p)

ReplayStep ==
    \/ \E w, t \in BOOLEAN : RequestReplay(w, t)
    \/ \E k \in Keys : ReplayNext(k)
    \/ ReplayCompletes

Next ==
    \/ \E p \in Producers, k \in Keys : Publish(p, k)
    \/ \E p \in Callers : Step(p) \/ FaultyStep(p)
    \/ ReplayStep

Spec == Init /\ [][Next]_vars

\* A goroutine inside Publish keeps running, producers meet the same
\* occurrences again (re-scoring, the next crawl, a repeated request), and
\* the operator goes on with the replays.
Fairness ==
    /\ \A p \in Callers : WF_vars(Step(p))
    /\ \A k \in Keys : SF_vars(\E p \in Producers : Publish(p, k))
    /\ WF_vars(ReplayStep)

FairSpec == Spec /\ Fairness

-----------------------------------------------------------------------------
(* Properties *)

\* "Durability before dispatch": whatever a reader of the stream can meet has
\* its row in event_log, and a row marked published is in the stream.
LogAndStreamAgree ==
    \A k \in Keys :
        /\ InStream(k) => eventLog[k].status # "absent"
        /\ eventLog[k].status = "published" => InStream(k)

\* However many callers publish, repeat or replay the same event at the same
\* time, XADD is called for it at most once: no event is in the stream twice
\* unless the Redis client has sent the command again on its own.
DispatchedOnce ==
    \A i, j \in DOMAIN stream :
        stream[i] = stream[j] /\ stream[i] \notin resent => i = j

\* A caller that was answered "ok" has its event in the stream and recorded
\* as published, whatever became of the row since.
OkIsFinal ==
    \A k \in Keys :
        "ok" \in told[k] => eventLog[k].status = "published" /\ InStream(k)

\* "Replay re-publishes historical events from PostgreSQL into Redis": once
\* the events are listed, a job fails only because some call failed.
ReplayFailsOnlyOnFault ==
    replay.listed /\ replay.status = "failed" => faults > 0

\* A replay never publishes anything: every event it sends again is refused,
\* because it comes with the event id of its row, so no job counts a success.
ReplaySendsNothing ==
    replay.count = 0 /\ pc[Operator] \in {"idle", "insert"}

\* The safety half of RecordedIsDispatched: an event is never left between
\* its row and the stream with nobody at work on it, unless a call failed.
NothingStranded ==
    \A k \in Recorded :
        \/ InStream(k) \/ faults > 0
        \/ \E p \in Producers : pc[p] = "xadd" /\ env[p].id = k

\* Every recorded event is dispatched, as long as no call fails or crashes.
RecordedIsDispatched ==
    \A k \in Keys : k \in Recorded ~> InStream(k) \/ faults > 0

\* "If Redis publish fails, the record remains ... recoverable": a row whose
\* publication failed gets into the stream once Redis works again.
FailedRowIsRecovered ==
    \A k \in Keys : eventLog[k].status = "failed" ~> InStream(k)

-----------------------------------------------------------------------------
(* Refinement: the outbox implements DurableOutbox.                        *)

Contract == INSTANCE DurableOutbox WITH
    row <- [k \in Keys |-> eventLog[k].status],
    dispatched <- {k \in Keys : InStream(k)},
    confirmed <- {k \in Keys : "ok" \in told[k]}

\* Event by event, rows, messages and answers follow DurableOutbox, whatever
\* callers, replays, failures and crashes come between.
ContractSpec == Contract!Spec

=============================================================================
