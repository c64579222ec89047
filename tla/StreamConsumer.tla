--------------------------- MODULE StreamConsumer ---------------------------
(***************************************************************************)
(* The consuming side of the event backbone: per replica of the process,   *)
(* one loop goroutine for each consumer group (streamConfig.loop) and one  *)
(* retry manager for all of them (RetryManager.Start), reading one Redis   *)
(* stream through consumer groups and keeping consumer_processed_events,   *)
(* dead_letter_events and consumer_checkpoints in PostgreSQL.              *)
(*                                                                         *)
(* Every call to Redis or PostgreSQL and every run of a domain service is  *)
(* an action, so that failures, crashes and the other threads can fall     *)
(* between any two of them.                                                *)
(***************************************************************************)
EXTENDS Naturals, Sequences, FiniteSets

CONSTANTS
    Replicas,      \* processes, each with its own STREAMS_CONSUMER_NAME
    Groups,        \* consumer groups of the stream
    RetryManager,  \* names the retry goroutine of a replica
    Keys,          \* events, by event id
    Wants,         \* Wants[g]: events of the type the handler of g acts upon
    Poison,        \* events whose domain service always returns an error
    BatchSize,     \* STREAMS_BATCH_SIZE
    ScanSize,      \* entries one XAUTOCLAIM looks at: Redis takes 10 * COUNT
    RetryEnabled,  \* STREAMS_RETRY_CONSUMER_ENABLED
    SlowHandlers,  \* may a batch take longer than STREAMS_CLAIM_IDLE_MS?
    MaxMessages,   \* bound: messages that arrive
    MaxFaults      \* bound: failed calls, lost answers and crashes

ASSUME ConsumerAssumption ==
    /\ RetryManager \notin Groups
    /\ Wants \in [Groups -> SUBSET Keys]
    /\ Poison \subseteq Keys
    /\ BatchSize \in Nat \ {0} /\ ScanSize \in Nat \ {0}
    /\ RetryEnabled \in BOOLEAN /\ SlowHandlers \in BOOLEAN
    /\ MaxMessages \in Nat /\ MaxFaults \in Nat

VARIABLES
    stream,      \* the event id each message carries; its index is its id
    cursor,      \* cursor[g]: last message delivered to g by XREADGROUP ">"
    pel,         \* pel[g]: pending entries list, delivered and not acknowledged
    stale,       \* stale[g]: pending entries idle for STREAMS_CLAIM_IDLE_MS
    processed,   \* processed[g]: event ids in consumer_processed_events
    dead,        \* dead[g]: messages with a row in dead_letter_events
    checkpoint,  \* checkpoint[r][g]: the row of consumer_checkpoints
    thread,      \* thread[t]: where each goroutine is
    todo,        \* todo[r]: groups the retry manager has left in this tick
    effects,     \* effects[g][k]: times the domain service has run (history)
    interrupted, \* interrupted[g][k]: times a run was cut off from its record
                 \* (history)
    faults       \* faults taken so far, at most MaxFaults

groupVars == <<cursor, pel, stale>>
tableVars == <<processed, dead, checkpoint>>
historyVars == <<effects, interrupted>>
consumerVars == <<groupVars, tableVars, historyVars, thread, todo>>
vars == <<stream, consumerVars, faults>>

Threads == Replicas \X (Groups \cup {RetryManager})
IsLoop(t) == t[2] # RetryManager

Step == {"idle", "check", "effect", "mark", "ack", "fail", "checkpoint"}

\* A thread works on the messages in batch, lowest id first, for group.
ThreadState == [pc: Step, group: Groups \cup {"none"},
                batch: SUBSET Nat, failed: BOOLEAN]
IdleThread == [pc |-> "idle", group |-> "none", batch |-> {}, failed |-> FALSE]

Busy(t) == thread[t].pc # "idle"
Group(t) == thread[t].group
Least(S) == CHOOSE m \in S : \A n \in S : m <= n
Msg(t) == Least(thread[t].batch)
Event(t) == stream[Msg(t)]
Holds(t, g, m) == Busy(t) /\ Group(t) = g /\ m \in thread[t].batch
At(t, g, k, step) == thread[t].pc = step /\ Group(t) = g /\ Event(t) = k

\* Mutant of FirstBatch: one message short.
BugFirstBatch(S) == {m \in S : Cardinality({n \in S : n < m}) + 1 < BatchSize}

\* The first BatchSize of a set of messages, in the order of their ids.
FirstBatch(S) == {m \in S : Cardinality({n \in S : n < m}) < BatchSize}

TypeOK ==
    /\ stream \in Seq(Keys)
    /\ cursor \in [Groups -> 0..Len(stream)]
    /\ pel \in [Groups -> SUBSET (1..Len(stream))]
    /\ stale \in [Groups -> SUBSET (1..Len(stream))]
    /\ processed \in [Groups -> SUBSET Keys]
    /\ dead \in [Groups -> SUBSET (1..Len(stream))]
    /\ checkpoint \in [Replicas -> [Groups -> [last: Nat, error: BOOLEAN]]]
    /\ thread \in [Threads -> ThreadState]
    /\ \A t \in Threads : Busy(t) =>
          /\ Group(t) \in Groups
          /\ thread[t].batch \in (SUBSET (1..Len(stream))) \ {{}}
    /\ todo \in [Replicas -> SUBSET Groups]
    /\ effects \in [Groups -> [Keys -> Nat]]
    /\ interrupted \in [Groups -> [Keys -> Nat]]
    /\ faults \in 0..MaxFaults

\* EnsureGroup creates every group at "0", before anything is read.
Init ==
    /\ stream = <<>>
    /\ cursor = [g \in Groups |-> 0]
    /\ pel = [g \in Groups |-> {}]
    /\ stale = [g \in Groups |-> {}]
    /\ processed = [g \in Groups |-> {}]
    /\ dead = [g \in Groups |-> {}]
    /\ checkpoint = [r \in Replicas |->
                       [g \in Groups |-> [last |-> 0, error |-> FALSE]]]
    /\ thread = [t \in Threads |-> IdleThread]
    /\ todo = [r \in Replicas |-> {}]
    /\ effects = [g \in Groups |-> [k \in Keys |-> 0]]
    /\ interrupted = [g \in Groups |-> [k \in Keys |-> 0]]
    /\ faults = 0

-----------------------------------------------------------------------------
(* Redis *)

Fault == faults < MaxFaults /\ faults' = faults + 1

\* Some producer appends a message (see EventPublisher).
Arrive(k) ==
    /\ Len(stream) < MaxMessages
    /\ stream' = Append(stream, k)
    /\ UNCHANGED <<consumerVars, faults>>

\* A pending entry has been idle for the claim threshold. Unless handlers are
\* slow, that does not happen to a message some thread still has in hand.
TimePasses(g, m) ==
    /\ m \in pel[g] \ stale[g]
    /\ SlowHandlers \/ \A t \in Threads : ~Holds(t, g, m)
    /\ stale' = [stale EXCEPT ![g] = @ \cup {m}]
    /\ UNCHANGED <<stream, cursor, pel, tableVars, historyVars, thread, todo, faults>>

\* XREADGROUP ">" hands over the next messages and lists them as pending.
Deliver(g) ==
    LET next == FirstBatch((cursor[g] + 1)..Len(stream)) IN
    /\ next # {}
    /\ cursor' = [cursor EXCEPT ![g] = @ + Cardinality(next)]
    /\ pel' = [pel EXCEPT ![g] = @ \cup next]
    /\ UNCHANGED <<stream, stale, tableVars, historyVars, todo>>

Start(t, g, batch) ==
    thread' = [thread EXCEPT
        ![t] = [pc |-> "check", group |-> g, batch |-> batch, failed |-> FALSE]]

\* ReadGroup in the loop of group g of replica r.
ReadGroup(r, g) ==
    /\ ~Busy(<<r, g>>)
    /\ Deliver(g)
    /\ Start(<<r, g>>, g, FirstBatch((cursor[g] + 1)..Len(stream)))
    /\ UNCHANGED faults

\* The answer to XREADGROUP is lost: the messages are pending with nobody.
ReadGroupLost(r, g) ==
    /\ ~Busy(<<r, g>>)
    /\ Fault
    /\ Deliver(g)
    /\ UNCHANGED thread

-----------------------------------------------------------------------------
(* RetryManager.Start *)

\* The ticker fires: one round over all registered groups.
Tick(r) ==
    /\ RetryEnabled
    /\ ~Busy(<<r, RetryManager>>) /\ todo[r] = {}
    /\ todo' = [todo EXCEPT ![r] = Groups]
    /\ UNCHANGED <<stream, groupVars, tableVars, historyVars, thread, faults>>

\* The idle ones of the first pending entries: every call starts at "0-0".
Claimable(g) ==
    {m \in pel[g] \cap stale[g] : Cardinality({n \in pel[g] : n < m}) < ScanSize}

\* XAUTOCLAIM: the lowest of them change hands and are no longer idle. The
\* id to go on from is discarded. An error of the call skips the group, like an empty answer.
AutoClaim(r, g) ==
    LET claimed == FirstBatch(Claimable(g)) IN
    /\ ~Busy(<<r, RetryManager>>) /\ g \in todo[r]
    /\ todo' = [todo EXCEPT ![r] = @ \ {g}]
    /\ stale' = [stale EXCEPT ![g] = @ \ claimed]
    /\ IF claimed = {} THEN UNCHANGED thread
       ELSE Start(<<r, RetryManager>>, g, claimed)
    /\ UNCHANGED <<stream, cursor, pel, tableVars, historyVars, faults>>

AutoClaimFails(r, g) ==
    /\ ~Busy(<<r, RetryManager>>) /\ g \in todo[r]
    /\ Fault
    /\ todo' = [todo EXCEPT ![r] = @ \ {g}]
    /\ UNCHANGED <<stream, groupVars, tableVars, historyVars, thread>>

-----------------------------------------------------------------------------
(* One message in a handler, and what the loop does with the result *)

Goto(t, step) == thread' = [thread EXCEPT ![t].pc = step]

\* Mutant of Check: the record is not asked.
BugCheckNoRecord(t) ==
    /\ thread[t].pc = "check"
    /\ Goto(t, IF Event(t) \in Wants[Group(t)] THEN "effect" ELSE "ack")
    /\ UNCHANGED <<stream, groupVars, tableVars, historyVars, todo, faults>>

\* Decode the envelope, pass over other event types, ask processedOrSkip.
Check(t) ==
    /\ thread[t].pc = "check"
    /\ Goto(t, IF Event(t) \in Wants[Group(t)] \ processed[Group(t)]
               THEN "effect" ELSE "ack")
    /\ UNCHANGED <<stream, groupVars, tableVars, historyVars, todo, faults>>

\* The domain service runs: score, qualify, notify, draft or trigger.
Effect(t) ==
    /\ thread[t].pc = "effect"
    /\ Event(t) \notin Poison
    /\ effects' = [effects EXCEPT ![Group(t)][Event(t)] = @ + 1]
    /\ Goto(t, "mark")
    /\ UNCHANGED <<stream, groupVars, tableVars, interrupted, todo, faults>>

\* ... or returns an error without having done its work.
EffectFails(t) ==
    /\ thread[t].pc = "effect"
    /\ Event(t) \in Poison
    /\ Goto(t, "fail")
    /\ UNCHANGED <<stream, groupVars, tableVars, historyVars, todo, faults>>

\* markProcessed: inserted, or there already (isDuplicate), which is no error.
MarkProcessed(t) ==
    /\ thread[t].pc = "mark"
    /\ processed' = [processed EXCEPT ![Group(t)] = @ \cup {Event(t)}]
    /\ Goto(t, "ack")
    /\ UNCHANGED <<stream, groupVars, dead, checkpoint, historyVars, todo, faults>>

\* Mutant of HandlerFails: the error is swallowed.
BugHandlerFails(t) ==
    /\ thread[t].pc \in {"check", "effect"}
    /\ Fault
    /\ Goto(t, "mark")
    /\ UNCHANGED <<stream, groupVars, tableVars, historyVars, todo>>

\* A call to PostgreSQL, or a domain service, fails this once.
HandlerFails(t) ==
    /\ thread[t].pc \in {"check", "effect", "mark"}
    /\ Fault
    /\ interrupted' = IF thread[t].pc = "mark"
                      THEN [interrupted EXCEPT ![Group(t)][Event(t)] = @ + 1]
                      ELSE interrupted
    /\ Goto(t, "fail")
    /\ UNCHANGED <<stream, groupVars, tableVars, effects, todo>>

\* The message is dealt with. The loop turns to the next one and writes its
\* checkpoint after the last; the retry manager writes one for each.
Settle(t, failed) ==
    LET rest == thread[t].batch \ {Msg(t)} IN
    thread' = IF IsLoop(t) /\ rest # {}
              THEN [thread EXCEPT ![t].batch = rest, ![t].pc = "check"]
              ELSE [thread EXCEPT ![t].failed = failed, ![t].pc = "checkpoint"]

\* The handler returned nil: XACK.
Ack(t) ==
    /\ thread[t].pc = "ack"
    /\ pel' = [pel EXCEPT ![Group(t)] = @ \ {Msg(t)}]
    /\ stale' = [stale EXCEPT ![Group(t)] = @ \ {Msg(t)}]
    /\ Settle(t, FALSE)
    /\ UNCHANGED <<stream, cursor, tableVars, historyVars, todo, faults>>

\* XACK fails; its error is discarded.
AckFails(t) ==
    /\ thread[t].pc = "ack"
    /\ Fault
    /\ Settle(t, FALSE)
    /\ UNCHANGED <<stream, groupVars, tableVars, historyVars, todo>>

SetCheckpoint(t, failed) ==
    checkpoint' = [checkpoint EXCEPT ![t[1]][Group(t)] =
                      [last |-> Msg(t), error |-> failed]]

DeadLetter(t) == dead' = [dead EXCEPT ![Group(t)] = @ \cup {Msg(t)}]

\* Mutant of HandleConsumeError: the dead letter takes the place of the message.
BugHandleConsumeError(t) ==
    /\ thread[t].pc = "fail"
    /\ DeadLetter(t)
    /\ pel' = [pel EXCEPT ![Group(t)] = @ \ {Msg(t)}]
    /\ SetCheckpoint(t, TRUE)
    /\ Settle(t, TRUE)
    /\ UNCHANGED <<stream, cursor, stale, processed, historyVars, todo, faults>>

\* handleConsumeError: a dead letter and a checkpoint with the error; the
\* message stays pending.
HandleConsumeError(t) ==
    /\ thread[t].pc = "fail"
    /\ DeadLetter(t)
    /\ SetCheckpoint(t, TRUE)
    /\ Settle(t, TRUE)
    /\ UNCHANGED <<stream, groupVars, processed, historyVars, todo, faults>>

\* One of its two INSERTs fails, or both; the errors are discarded.
HandleConsumeErrorFails(t) ==
    /\ thread[t].pc = "fail"
    /\ Fault
    /\ DeadLetter(t) \/ UNCHANGED dead
    /\ SetCheckpoint(t, TRUE) \/ UNCHANGED checkpoint
    /\ Settle(t, TRUE)
    /\ UNCHANGED <<stream, groupVars, processed, historyVars, todo>>

\* On to the next message of the batch; only the retry manager has one left.
Proceed(t) ==
    LET rest == thread[t].batch \ {Msg(t)} IN
    thread' = [thread EXCEPT ![t] =
                  IF rest = {} THEN IdleThread
                  ELSE [@ EXCEPT !.batch = rest, !.pc = "check"]]

\* UpsertConsumerCheckpoint: the loop clears the error at the end of a batch,
\* the retry manager writes the outcome of the message it is at.
Checkpoint(t) ==
    /\ thread[t].pc = "checkpoint"
    /\ SetCheckpoint(t, ~IsLoop(t) /\ thread[t].failed)
    /\ Proceed(t)
    /\ UNCHANGED <<stream, groupVars, processed, dead, historyVars, todo, faults>>

\* The INSERT fails; its error is discarded.
CheckpointFails(t) ==
    /\ thread[t].pc = "checkpoint"
    /\ Fault
    /\ Proceed(t)
    /\ UNCHANGED <<stream, groupVars, tableVars, historyVars, todo>>

-----------------------------------------------------------------------------

\* Replica r dies and comes back: its goroutines lose what they had in hand,
\* Redis and PostgreSQL keep everything. A new loop reads only new messages.
Crash(r) ==
    /\ \E t \in Threads : t[1] = r /\ Busy(t)
    /\ Fault
    /\ thread' = [t \in Threads |-> IF t[1] = r THEN IdleThread ELSE thread[t]]
    /\ todo' = [todo EXCEPT ![r] = {}]
    /\ interrupted' = [g \in Groups |-> [k \in Keys |->
           interrupted[g][k] +
               IF \E t \in Threads : t[1] = r /\ At(t, g, k, "mark") THEN 1 ELSE 0]]
    /\ UNCHANGED <<stream, groupVars, tableVars, effects>>

HandlerStep(t) ==
    \/ Check(t) \/ Effect(t) \/ EffectFails(t) \/ MarkProcessed(t)
    \/ Ack(t) \/ HandleConsumeError(t) \/ Checkpoint(t)

FaultyStep(t) ==
    \/ HandlerFails(t) \/ AckFails(t)
    \/ HandleConsumeErrorFails(t) \/ CheckpointFails(t)

RetryStep(r) == Tick(r) \/ \E g \in Groups : AutoClaim(r, g)

ConsumerNext ==
    \/ \E g \in Groups : \E m \in pel[g] : TimePasses(g, m)
    \/ \E r \in Replicas, g \in Groups :
          ReadGroup(r, g) \/ ReadGroupLost(r, g) \/ AutoClaimFails(r, g)
    \/ \E r \in Replicas : RetryStep(r) \/ Crash(r)
    \/ \E t \in Threads : HandlerStep(t) \/ FaultyStep(t)

Next == ConsumerNext \/ \E k \in Keys : Arrive(k)

Spec == Init /\ [][Next]_vars

\* Goroutines run, the ticker fires and idle time grows; messages need not
\* arrive and nothing has to fail.
Fairness ==
    /\ \A t \in Threads : WF_vars(HandlerStep(t))
    /\ \A r \in Replicas, g \in Groups : WF_vars(ReadGroup(r, g))
    /\ \A r \in Replicas : WF_vars(RetryStep(r))
    /\ \A g \in Groups, m \in 1..MaxMessages : WF_vars(TimePasses(g, m))

FairSpec == Spec /\ Fairness

-----------------------------------------------------------------------------
(* Properties *)

\* A message leaves the pending list of a group only when its handler had
\* nothing to do with it or its event is recorded as processed: whatever
\* fails, crashes or is claimed by another thread, no event is acknowledged
\* away unhandled.
AcknowledgedIsHandled ==
    \A g \in Groups : \A m \in (1..cursor[g]) \ pel[g] :
        stream[m] \in Wants[g] => stream[m] \in processed[g]

\* An event is recorded as processed for a group only after the group's
\* domain service ran for it (the record makes every later delivery skip it).
ProcessedHasRun ==
    \A g \in Groups : \A k \in processed[g] : effects[g][k] > 0

Distinct == \A i, j \in DOMAIN stream : stream[i] = stream[j] => i = j

\* As long as batches are finished within the claim threshold and no event is
\* in the stream twice, an event runs again only after a crash or a failed
\* INSERT came between its run and its record, once for each of those: one
\* that is recorded has run once more than it was interrupted.
RunAgainOnlyIfInterrupted ==
    ~SlowHandlers /\ Distinct =>
        \A g \in Groups, k \in Keys :
            /\ effects[g][k] <= interrupted[g][k] + 1
            /\ k \in processed[g] => effects[g][k] = interrupted[g][k] + 1

\* The goal the design document states for the business layer: duplicate
\* delivery does not run an event's domain service again.
RunOnce == \A g \in Groups, k \in Keys : effects[g][k] <= 1

\* Every event in the stream that a group wants is processed by it in the end,
\* crashes, lost answers and failing calls notwithstanding. A poisoned one
\* cannot be; fewer of them than a batch do not keep the others from it (a
\* batch full of them does: PendingIsRecovered).
EventuallyProcessed ==
    \A g \in Groups, m \in 1..MaxMessages :
        (m \in DOMAIN stream /\ stream[m] \in Wants[g] \ Poison)
            ~> (m \in DOMAIN stream /\ stream[m] \in processed[g])

\* "XAUTOCLAIM across all registered groups to recover messages left pending
\* by crashed consumers": a pending message that nobody has in hand is taken
\* up again by the retry manager.
PendingIsRecovered ==
    \A g \in Groups, m \in 1..MaxMessages :
        (m \in pel[g] /\ \A t \in Threads : ~Holds(t, g, m))
            ~> (m \notin pel[g] \/ \E t \in Threads : Holds(t, g, m))

\* The abstract specification this module implements.
Contract == INSTANCE AtLeastOnce WITH
    sent <- {stream[i] : i \in DOMAIN stream},
    runs <- effects,
    handled <- processed

ContractSpec == Contract!Spec

=============================================================================
