# LeadEcho: formal models

LeadEcho finds posts in which people look for a product, scores them with language models,
turns the good ones into leads, notifies a team and drafts replies. This directory holds
TLA+ models of its backend (`src/backend`), the TLC runs that check them and the TLAPS proofs
about them. Model checking runs with `tlc -config <run>.cfg <MC module>`, proofs with
`tlapm <module>Proofs.tla`; `PROJECT.json` lists every run, the source lines of every
definition, the hazards and the theorems.

## Inventory

| Component | State it keeps | Operations | What is hard | What makes it correct |
|---|---|---|---|---|
| Event publisher (`events/publishers`, `events/redis`) | `event_log`, the Redis streams | `Publish` | three calls to two stores; concurrent and repeated publishing; failed, unanswered or resent commands; crashes | log before stream, one dispatch per event, answers that stay true |
| Event replay (`api/handler/streams.go`) | `event_replays` | `TriggerReplay` | shares `event_log` and its unique keys with the publishers | recorded events can be sent again |
| Consumers (`events/consumers`, `streamworkers`) | consumer groups and pending lists in Redis; `consumer_processed_events`, `dead_letter_events`, `consumer_checkpoints` | a loop per group, the retry manager, five handlers | at-least-once delivery, claiming, several replicas, crashes between service, record and acknowledgement | nothing lost, nothing recorded without having run, no needless second run |
| Workflow engine (`workflow`) | `workflow_executions`, leads | `Run`, `runOne`, action chain | check-then-act without a unique index, crash mid-chain | one execution per workflow and mention, the hourly cap, every execution finished |
| Mention pipeline (`monitor`) | `mentions` with scoring stage and dedupe keys, leads, the `scanning` map | tick, immediate scan, profile poll, extension ingest, insert, score, qualify, backfill, publish, two consumers | many goroutines on one mention; check-then-insert; steps that fail or panic silently; a backfill of the newest 50; flags that move work between inline and streams | one row a story, every mention scored in the end, one lead per mention, a lead for every hot mention |
| Billing (`billing`) | plan and keyword limit, balance, `credit_ledger` | `Take`, `Spend`, `Refund`, `Grant`, `HandleEvent`, `CanAddKeyword` | duplicate, late and reordered webhooks; check-then-act limits | one grant per period or payment, plan follows the subscription, the limit holds but for a race |
| Treg client (`treg`) | cache, pause, idempotency keys | `Call` | retries of paid calls whose answer was lost, refunds that fail unseen, callers that go away | paid once at treg; the credit kept only for a billed answer |
| Digests (`digest`) | `digest_runs` | `RunDue`, claim, deliver, finish | several processes, slow senders, crashes after sending, sends that time out, edited send times | one delivery per period and none too close, or a known exception |
| Automations (`automation`) | `automation_runs`, `last_run_at` | `RunDue`, `RunNow`, search, deliver, finish, mark | overlapping, failed and manual runs that share one window and archive what the next would read | no mention hidden between two windows |
| Chat (`chat`, `api/handler/chat_confirm.go`) | tool calls of a message | agent loop, `Confirm` | two answers at once, failed second write, crash while running | a confirmed tool runs at most once |
| Mute lists (`mutes`) | a cache per store | `IsMuted`, `Add`, `Delete`, `Invalidate` | a load outside the lock beside an invalidation; stores that are not told | staleness bounded by the TTL |
| Cadence (`cadence`) | none | due checks | boundaries | pure functions |
| Leads (`researcher`, `enrich`, `crmsync`, `attribution`, `api/handler/leads.go`) | a lead's stage and metadata, `Enricher.inflight`, a mutex per lead and dispatcher | stage handlers, `EnrichLead`, `Emit` and its deliveries | read, call the world, write back, without a version or a row lock; what serializes is in memory | the daily cap, one payment and one CRM contact per lead, stages that stand and reach the CRM |
| HTTP API, auth, AI/LLM, tools, onboarding, engagers, database, UI | see code | requests, model and third-party calls | mostly I/O | not modelled |

Interactions. The scorer (`monitor`) and the HTTP handlers call `Publish`; `Publish` writes
PostgreSQL and then Redis; each consumer group reads the stream on its own and calls back
into `monitor`, `reply` or `workflow`; those publish further events (scored → qualified,
notification, workflow trigger) and spend credits. Replicas share nothing but PostgreSQL and
Redis. Nothing is transactional across the two stores: the `event_log` row, its unique keys
and `consumer_processed_events` are all that ties them together, which is why the event
backbone is modelled first.

## Plan

1. *(done)* `EventPublisher`, `DurableOutbox`, `AtLeastOnce`, `StreamConsumer`, `EventBackbone`:
   safety and refinement proved for the two sides and for the composition.
2. *(done)* `WorkflowEngine`: `runOne` as check, count, create, chain, finish, driven by
   redelivering consumers; duplicates, cap, stuck executions; its safety proved. Left: the API
   that changes definitions under a running engine.
3. *(done)* `MentionPipeline`: from the post found to row, verdict, events, lead and workflows,
   in every deployment the flags allow; its safety proved.
4. *(done)* The parts that claim or charge, act and then record: `Billing`, `TregClient`,
   `DigestRuns`, `AutomationRuns`, `ChatConfirm`, `MuteStore` and `LeadRecord`, composed in
   `WorkspaceParts`, which is the model that is run; all their safety proved, for each and for the
   composition.
5. Left: the API that changes workflow definitions under a running engine; cadence and calendar
   arithmetic as operators checked on bounded inputs.

## Modules

| Module | Models |
|---|---|
| `EventPublisher` | `Publisher.Publish` and `TriggerReplay` |
| `DurableOutbox` | what the publishing side promises, abstractly |
| `EventPublisherProofs` | its type correctness, safety and refinement of `DurableOutbox` |
| `StreamConsumer` | consumer loops, retry manager, handlers |
| `StreamConsumerProofs` | its type correctness, safety and refinement of `AtLeastOnce` |
| `AtLeastOnce` | what the consuming side promises, abstractly |
| `EventBackbone` | publishers and consumers on one stream |
| `EventBackboneProofs` | its safety and its refinement of `AtLeastOnce`, from the invariants of the two sides |
| `WorkflowEngine` | `Engine.Run`, `runOne`, the action chain, the lead qualifier beside them |
| `WorkflowEngineProofs` | its type correctness and safety |
| `MentionPipeline` | `Monitor`'s crawling, scoring, qualification and backfill, and the two consumers that call back into it |
| `MentionPipelineProofs` | its type correctness and safety |
| `Billing` | `HandleEvent`, `Grant`, `CanAddKeyword` and the requests that use it, against Dodo |
| `TregClient` | `Client.Call`, metered and retried |
| `DigestRuns` | the digest scheduler |
| `AutomationRuns` | the scheduled and manual runs of a daily triage |
| `ChatConfirm` | `ChatHandler.Confirm` |
| `MuteStore` | the mute lists' caches |
| `LeadRecord` | stage changes, paid enrichment and CRM deliveries on one lead's row |
| `WorkspaceParts` | the seven modules above side by side |
| `BillingProofs`, `LeadRecordProofs`, `WorkspacePartsProofs` | their type correctness and safety (the last holds those of the five others), and that of `WorkspaceParts` |
| `MCEventPublisher`, `MCStreamConsumer`, `MCEventBackbone`, `MCWorkflowEngine`, `MCMentionPipeline`, `MCWorkspaceParts`, `MCLeadRecord` | constants for TLC |

Operators named `Bug...` are faulty variants of the definition that follows them. Nothing uses
them: they are there so that every checked property can be seen to fail on a plausible bug.

### EventPublisher

A caller (`Producers`, or the `Operator` who serves a replay) is at one point `pc` of `Publish`:
INSERT into `event_log`, XADD, UPDATE of the row. Each call is an action and has a failing variant,
a crash can come at any point, and a statement that fails, or during which the process dies, may
have been committed (`MayWrite`): only its answer is lost. `eventLog[k]` is the row of event `k`
(status and idempotency key); `stream` is the Redis stream; `told` remembers the answers given, and
`resent` the events whose XADD the Redis client sent twice. One stream is modelled: streams share
only the table, whose idempotency key is unique per stream. `NewEnvelope` draws a fresh event id on
every call, so a repeated publish is caught by the idempotency key, and a replay, which reuses the
id of the row, by `event_id`: `Refused` has both constraints.

`Contract` maps it to `DurableOutbox`: rows, messages that a reader can meet, and answers "ok",
event by event and without callers. INSERT is its `Record`, XADD its `Dispatch`, the final UPDATE
its `Confirm` or `GiveUp`, answered or not; replays and all else are invisible to it. A row that is
published tells nobody that it is: `Confirm` leaves open whether "ok" was heard.

Abstractions: payload and headers are left out; validation of the envelope happens before
anything is stored; the status updates of `event_replays` succeed; a replay selects any subset
of the recorded rows (its filters), none when no end of the interval is given, and fails
without a workspace.

### StreamConsumer

`thread[t]` is a goroutine of a replica: the loop of a group, or the retry manager. It works
through a batch, lowest message first: check (decode, event type, `processedOrSkip`), effect
(the domain service), mark (`markProcessed`), acknowledge, or the error path; then the
checkpoint (after the batch in the loop, after every message in the retry manager). Redis is
`cursor`, `pel` and `stale` (idle for the claim threshold) per group. The handlers of
`mention_workers.go`, `reply_workers.go` and `workflow_workers.go` follow one protocol and
differ in the events they want (`Wants`); an event in `Poison` is one whose service fails every
time, such as a draft without credits. `interrupted` counts, per group and event, the crashes and
failed INSERTs that came between a run and its record. A failing call, a lost answer, or a crash of
a replica may come anywhere, up to `MaxFaults`.

XAUTOCLAIM looks at a bounded number of pending entries from "0-0" (`ScanSize`; ten times COUNT
in Redis) and takes the first idle ones. `SlowHandlers` says whether a message in hand can become
idle, which is the only way two goroutines come to hold the same message.

Abstractions: the payload; that a service which returns an error may have done part of its
work; `pending_count` and heartbeat times.

### EventBackbone

Both modules as instances over one `stream` and one fault budget; a message arrives for the
consumers exactly when an XADD takes effect. `Contract` maps it to `AtLeastOnce`: an event is
sent when it is recorded and in the stream, run when a service ran, handled when recorded in
`consumer_processed_events`.

### WorkflowEngine

`thread[r]` is a goroutine inside `Engine.Run` for one mention: it lists the workflows and takes
those that match (`todo`) in order; for each it asks whether there is an execution (`has`),
counts the last hour (`count`), creates the row (`create`), goes through the chain (`act`, and
`lead` between the two calls of `ensureLead`) and stores the outcome (`finish`). Every call is an
action and has a failing variant; a write that fails may have been done. `runOne` gives a failed
workflow up and `Run` goes on with the next. `executions` and `leads` are the tables; `hourStart`
is how many executions are older than an hour.

`streams` is the setting that decides who calls: off, the scorer, once per scoring (a crash loses
the call, and a mention may be scored again); on, a consumer, and the request stays pending until
`Run` has returned, so that it is served again after a crash and possibly by two goroutines at
once. `overlapped` remembers for which mentions the latter happened: the properties on duplicates
claim nothing for those, because no unique index stands behind the checks. `Qualify` is
`qualifyAsLead`, which adds a lead without looking.

Abstractions: whether a trigger matches is a constant relation, and the list of active workflows
does not change while the model runs; a notification, draft, status change or webhook is one
call; an action whose prerequisite is missing is not in `Configured` and is skipped. The counter
`execution_count`, only displayed, and enrichment are left out.

### MentionPipeline

`job[w]` is a goroutine: the tick, an immediate scan, the extension's request, or a consumer. It
has a batch of posts, each at a step: fetched, looked up, inserted, keyed, held, ready for
scoring, paid, passed the filters, classified, announced, qualified, handed to the workflows. The
stages of a batch are barriers, as the loops in `batchScoreMentions` are; inside a stage posts go
in any order (`forEachConcurrent`). `row` is the mention with its scoring stage, `keyed` the rows
whose dedupe keys are stored, `leads` counts rows, `announced` and `ingested` are the streams,
`done` the processed-event records. A statement or call that the code may see fail has a failing
variant at the same place, with what the code makes of it: fail open (lookup, scan check, filter),
log and go on (UPDATE, publish, lead), keep unpaid (credits), or record (classification, whose
record may fail as well). An insert or a `Take` that fails may have been committed.

`mode` is the deployment: streams, the inline path (without streams, in dual-write, or as the
fallback), the asynchronous qualifier, the goroutines that run, and the posts no model ever
classifies (`failing`). `Crash` is a panic outside `forEachConcurrent` or the end of the process: the
worker's batch is lost and its consumer's message comes back. A panic inside it (`Panic`) is
recovered for its post alone; the batch goes on, and the scorer's event is marked with that mention
unscored. `Create` keeps the order of `created_at` in `after`, because the backfill lists the newest
`BackfillLimit` mentions only (`Unclassified`) of those it could score (`Undecided`).

The history variables only remember for which posts something exceptional happened (`loose`,
`overlapped`, `raced`, `unstored`, `redelivered`, `unpaid`, `panicked`, `interrupted`): each property
claims nothing for those its code cannot keep, and was checked to fail without each of its exceptions.
`EventuallyScored` excuses the mentions no model classifies and those that a newer one of them keeps
out of the backfill for ever or takes the credit from (`HeldBack`), and no others.
`ScoredAgain` says what brings a decided mention before the classifier again: a redelivered event,
dual-write and, without streams, two workers that have it in hand at once. `VerdictStands` and
`HotMentionHasLead` excuse these only. `SecondLeadOnlyIfRescored` excuses (`Rescored`), without
streams, also a mention whose UPDATE failed: its lead was made, its row still looks unscored, and
the backfill takes it up. With streams the mark in `done` keeps that from happening.

Abstractions: a verdict is hot (`qualifiesAsLead`) or cold; bots, muted authors, the messages of
`notifyNewMentions` and mentions older than the 7 days of the duplicate lookup are left out; credits
are enforced; one API process and one monitor, which is what the `scanning` map protects; a post
that has been filtered or decided by a user is not looked at again, as in the code.

### Billing

Dodo is modelled by what the code relies on: an event per change of a subscription, repeated until
answered 200, in no order, with calls side by side. `hook[h]` is one call of `HandleEvent`: store
the plan, then grant. `Ref` is the reference by which `GrantCredits` is idempotent; a unit of
balance is one allowance or top-up. `creator[c]` is a request that activates a keyword: read the
limit, count, insert. `crossed` and `overtaken` remember the two situations the handler does not
tell apart: an event about one subscription while another is active, and an event applied after a
later one.

### TregClient

`call[c]` is one `Client.Call` through cache, `Spend`, pause check, attempts, refund and cache
entry. What happens to a request is open: it may not arrive, its search may end billed, missed or
failed while nobody waits, its answer may be lost; a key known to treg is replayed. A context that
ends (`hungUp`) makes every later statement of the call fail, the refund too. `Refund` drops its
error, and a charge may be committed while `Spend` answers with an error, after which `meteredCall`
refunds nothing (`dropped`): `ChargedForAnswer` excuses these calls and no others.

### DigestRuns

A slot is an occurrence of the schedule, named by its `period_end`; `sender[w]` is a pass of
`RunDue` on it: seen due, claimed, delivered, recorded. The claiming statement is two steps, because
its NOT EXISTS is evaluated on the snapshot before its insert: two claims of different slots can
pass each other. `rested` stands for the 15 minutes a pending send must be old, or the backoff of a
failure. The send time may be edited at any moment, so any hour can be a slot. A POST to Resend or
Slack that times out counts as failed though the digest may be out (`unanswered`): such a slot is
retried, and does not keep a near slot from being sent. Copies beyond the first are bounded by these
and by the sends that were overdue, together.

### AutomationRuns

`runner[w]` is a pass of `RunDue` or a request of `RunNow`, from the list it read (with
`last_run_at`) over claim, search, delivery and record to `SetAutomationLastRun`. A mention has
its `created_at` from the start of its insert and shows when that commits. Assumed is that a run
takes less than half the time `Lookback` goes back (minutes, against a day). The page of 100
mentions a search returns is taken as large enough; the claim is one step, since `DigestRuns`
shows what the two halves allow. The `running` check of the manual request is over when `RunNow`
begins, so a request is taken to pass or not. A first run that fails leaves no window behind: what
was created before the next one's look-back is nobody's, which is why `NoMentionHidden` begins
with the first success.

A run reads the mentions of status "new" (`fresh`), and with `mark_noise` archives those that score
too low one UPDATE after another (`Archive`), any of which can fail; the customer, a workflow or the
extension gives them other statuses (`Sort`). `counted` are the mentions a told run's summary counts,
the best `TopN` of which it lists. `NoMentionHidden` says that a mention inside the windows
of the runs so far is counted, unless no run could find it "new": it was sorted by somebody
(`sorted`), a run that then failed, stopped or was manual archived it (`hidden`), or a run under way
has (`Cleared`). After a failed run the next one reads the same window, but not what the failed one
archived, and nobody is told of that.

### ChatConfirm

`request[r]` is one `Confirm`: load, swap to running or cancelled, execute, swap to the outcome.
The agent ends its turn at the first call that needs an answer, so a message has one such call and
the compare-and-swap on the whole list is one on its status. A tool that fails may have had its
effect.

### MuteStore

`cache[s]` is the entry of a store with the time it was kept; the router and the monitor have one
each, and so has every process. `reader[r]` is `IsMuted`: look under the lock, or load outside it
and keep under it; `writer[w]` changes the table and then drops the entry of its own store.

### LeadRecord

`row[l]` is a lead's row: stage, whether `metadata.enrichment` is there, and the CRM id. Three kinds
of goroutine read it, talk to the world and write back. `handler[a]` is a stage change: what the
handler goes by is read first (`AskStage`), the UPDATE and the event follow (`Store`); by a user, by
a posted reply, by a conversion or by a click, which differ in the stages they leave alone and in
whether they tell the CRM: of what a click moves it is not told. `job[a]` is an enrichment: count,
lock, paid run, marker, contact fields, person, release of the reservation, event. `UpdateLead` has
no form without a stage, so `Filled` writes back the one that was read. `waiting` and `delivery` are
the goroutines of `Emit`: those that wait for their mutex and the one that has it, for each lead and
dispatcher. A process has two dispatchers, one that `NewRouter` makes and one of `Bootstrap`, each
with its own mutexes. `contacts[l]` is what HubSpot has for the lead, each contact by the rank of
its lifecycle stage: a create with a known e-mail address is answered 409 with the contact's id, and
a stage only goes up. Others write there too: a contact with the lead's e-mail may exist before the
lead's first delivery, made for another lead or by a salesperson, and may be moved ahead at any time
(`TouchedElsewhere`). That it is not moved back by others is assumed. A contact a 409 named is
adopted as it is, its stage unwritten until the next delivery (`adopted`).

Any call may fail, before or after it took effect, and a process may stop (`Crash`), which ends its
goroutines, reservations and mutexes. The history variables remember what the properties excuse:
`slips`, the reservations made on a count that was out of date or beside another process;
`together` and `unmarked` for payments; `moved`, leads a handler moved while an enrichment held
their older row; `doubled`, `orphaned`, `adopted` and `missed` for contacts.

Abstractions: one workspace and one day of the cap; Attio, whose creates are never refused, is a
lead without e-mail; the signed webhook keeps no state; what a search finds is found or not found.

### WorkspaceParts

The seven modules in one state, with `part` naming the one a behaviour moves: they share nothing but
the credits, of which each models its own use, so letting them interleave would only multiply
states. `GrantsStep` and `LimitsStep` bound billing, `SlotsStep` digests and `TriageStep`
automations (see Runs); `LeadsStep` keeps still a process that none of the actors is in.
`PartsImplementParts` proves that a behaviour of it is one of every part.

## Runs

| Run | Shows | Instance |
|---|---|---|
| `PublisherSafety` | `DispatchedOnce`, `OkIsFinal`, `RecordedIsDispatched`, `ContractSpec` | 2 producers, 2 events, 1 replay, 2 faults |
| `PublisherReplay` | a replay job fails though nothing failed (finding) | 2 producers, 2 events, 1 replay, no fault |
| `PublisherRecovery` | a failed row is never dispatched (finding) | 2 producers, 2 events, 1 replay, 1 fault |
| `Consumer` | `AcknowledgedIsHandled`, `EventuallyProcessed`, with slow handlers | 1 replica, 2 messages, batch 2, 1 poisoned event, 2 faults |
| `ConsumerStarved` | pending messages behind failing ones are never claimed (finding) | 3 messages, batch 1, scan 2, 1 fault |
| `ConsumerRunOnce` | a crash makes a service run twice (finding) | 1 message, 1 fault |
| `Backbone` | `OkIsNeverLost`, `RunAgainOnlyIfInterrupted`, `OkIsProcessed`, `ContractSpec` | 2 producers, 2 groups, 1 event, 1 fault |
| `WorkflowSafety` | `CapOverrunBounded`, `RunsOncePerMention`, `OneLeadPerMention`, `ReportIsTrue`, `ExecutionsAreFinal` | 2 goroutines, 2 workflows (one matches both mentions, one has two actions), 2 mentions, cap 1, 1 fault |
| `WorkflowLiveness` | `ExecutionEnds`, `EveryMatchRuns` | the same with one action per workflow and no qualifier |
| `MentionPipeline` | `DuplicateRowsNeedOverlap`, `SecondLeadOnlyIfRescored`, `HotMentionHasLead`, `DecidedIsHanded`, `ProcessedIsScored`, `VerdictStands`, `EventuallyScored` | 3 posts, two with one story and one too short; one credit a month; a backfill of one mention; 9 deployments of 1 to 3 workers and 1 or 2 posts, five with a fault, one with a post no model classifies |
| `WorkspaceParts` | `AllowanceOncePerPeriod`, `PlanMatchesDodo`, `KeywordOverrunBounded`, `PaidOnceAtTreg`, `ChargedForAnswer`, `SentOncePerPeriod`, `GapKept`, `NoMentionHidden`, `ToolRunsAtMostOnce`, `StalenessBounded`, `EnrichCapHolds`, `PaidOncePerLead`, `StageStands`, `OneContactPerLead`, `ContactNotBehind` | two actors of every kind; 3 events at Dodo; 3 attempts, 1 credit; 2 slots, 2 claims; 5 instants, 1 mention; 1 change of a list, 3 seconds; 2 leads, one with an e-mail, cap 1, 3 happenings |
| `EnrichCap` | the daily cap is exceeded in one process without any failure (finding) | 2 goroutines of a process, 2 leads, cap 1, 2 happenings |

Bounds. Two producers plus the operator give every pairwise race on the unique keys; a third
party only repeats a loser's path. Two events are enough for one row to interfere with
another's, and two messages in a batch for order within it. A loop and a retry manager on one
group, with handlers slow enough to be claimed from, hold one message together as two replicas
would; the proofs are for any number of replicas. Two faults allow a failure during the
recovery from a failure; where temporal properties make that too large, one. `MaxMessages`,
`MaxReplays` and `MaxFaults` bound only what the environment does. `PublisherSafety` and the
runs with temporal properties use no symmetry. Deadlock is checked in every run but those of
the workflow engine, which stops when all that was requested has been served, and those of
`WorkspaceParts` and `LeadRecord`, where a history within the bounds ends.

`WorkflowSafety` has two goroutines because each race is one of two, two mentions because the cap
is shared among mentions, and a workflow with two actions that meets the other's lead. One fault
is a crash with its redelivery, or a lost answer; two do not fit into a run, and the theorems
cover any number. `MaxAged` lets one execution leave the hour. Its symmetry is over goroutines.

`MentionPipeline` runs nine deployments as initial states, because what can go wrong differs: two
crawlers at once without streams; a crawler and the profile poll with a fault; the extension beside
the tick, with two posts of one story, and with a fault; two posts and one credit, so that one stays
unpaid, with a fault, and again with one of the two never classified; streams alone with scorer and
qualifier; dual-write with the scorer; dual-write with the extension and the qualifier. A deployment
with more workers, or a second fault in the larger ones, does not fit into a run; the theorems cover
any number of posts, credits and faults, and every deployment. A `BackfillLimit` of one makes two
mentions compete for it, as 51 would for the code's 50; what `HeldBack` excuses shows with two
posts, one of them `failing`.

`WorkspaceParts` gives every race its two actors. Three events at Dodo allow a subscription, a
change and what comes after it; webhook calls run side by side for the first two (`Crowded`) and one
at a time then. Two slots closer than `MinGap`, each claimed up to twice, give a retry, an overdue
send and a near slot. At most one of the two slots has an answer lost. Five instants hold two
scheduled windows and a manual run between them; mentions are sorted by hand at the last of them,
between runs. Three attempts let an answer be lost twice. Three happenings among stage changes,
enrichments, pushes and failures are an enrichment, a move beside it and the failure of either, or
two pushes and a lost id; the two actors are in one process or in one each; two leads share a cap of
one. It is symmetric in the two actors of each kind, has no temporal property, and is not checked
for deadlock: bounded histories end, and an answered chat action is over.

Fairness. A goroutine inside `Publish` or a handler keeps running, tickers fire, idle time grows and
a loop reads what is there: weak fairness on each, which is what the Go scheduler and the
unconditional `for` loops give; a request to the workflow engine is taken up likewise. Faults are
never fair. In `MentionPipeline` the tick comes round and goes on, an immediate scan that has begun
goes on, and the month's allowance arrives; nobody has to start a scan or use the extension, and
consumers may stand still: the inline path must do without them. In `EventPublisher` producers also
meet every event again and again (strong fairness): that assumption is generous to the code, and
`PublisherRecovery` shows the failed row stuck even so. `EventuallyProcessed` and `OkIsProcessed`
assume `RetryEnabled`; its default in the code is off. `EventuallyProcessed` is checked with fewer
poisoned messages than a batch, since `ConsumerStarved` shows what more of them do.

`RunAgainOnlyIfInterrupted` states precisely when a service runs again: once for every crash or
failed INSERT between run and record, after a resent XADD, or when handlers outlive the claim
threshold (in that case the property claims nothing, and `AcknowledgedIsHandled`, checked
with slow handlers in `Consumer`, and the contract, proved for them, remain). It is checked in
`Backbone`, where the publishers are there to resend.

## Proofs

All theorems are for arbitrary sets of producers, replicas, groups and events and arbitrary
bounds; the assumptions are those named in the modules (`PublisherAssumption`,
`ConsumerAssumption`, `EngineAssumption`, `PipelineAssumption`, `BillingAssumption`,
`TregAssumption`, `DigestAssumption`, `AutomationAssumption`, `MuteAssumption`, `LeadAssumption`):
the operator is no producer, the retry manager no group, the goroutines of the engine are finitely
many, a chain has an action and a cap is at least one (`Normalize` sees to both, `enrich.New` to
the daily cap), posts, leads and actors that are counted are finitely many, an automation's run is
short against its look-back, and the sizes are natural numbers.

* `EventPublisherProofs`. None of the safety properties is inductive. `OutboxInv` adds that the
  caller whose INSERT succeeded owns the row, pending, until it marks it (`InserterOwnsRow`), that
  its event is in the stream exactly from its XADD on (`StreamFollowsLog`), and that an answer ok
  was given only for a published row. The proof has a lemma for each way a step can touch this:
  `Inserted`, `Dispatched`, `CallerMoves`, `Returns`, and `WrittenRow` and `Leaves` for a caller
  that goes with its last statement committed or not. `LogAndStreamAgree`, `DispatchedOnce` and
  `OkIsFinal` follow. `ReplayInv` (the rows a job has listed are there, and it never gets past an
  INSERT) gives `ReplaySendsNothingEver`, which is the finding of `PublisherReplay` for all sizes;
  `WorkInv` gives `NothingStrandedEver`, the safety half of `RecordedIsDispatched`.
  `ContractImplemented` maps each action to a step of `DurableOutbox` or a stutter; that only the
  caller that inserted a row writes it is what it needs.
* `StreamConsumerProofs`. `HandlerInv` adds what each goroutine knows of the message it is at
  (`Knows`: wanted before its effect, run before its mark, recorded before its acknowledgement).
  `KnowsStable` says that others cannot undo it, since records, runs and messages are only
  added; hence `AcknowledgedIsHandled` and `ProcessedHasRun` hold with claims by other
  goroutines, slow handlers and crashes. `ContractImplemented` proves that `Spec` refines
  `AtLeastOnce`, step by step, from the same invariant. `RunInv` is for who runs an event. While
  batches finish within the claim threshold, `Custody` says that a message in hand was read and is not
  stale, so that no retry manager can claim it, and that no two goroutines of a group hold it;
  `RunsAccountedFor` that its runs are its interruptions, and one more when it is recorded or its run
  is on its way to the record in some goroutine's hands. With an event that is in the stream once
  (`Unique`), a goroutine about to run it is therefore alone with it: `RunAgainOnlyIfInterrupted`.
  `BatchesEnd` is the variant that stands behind the liveness of the handlers: every step of a busy
  goroutine, the failing ones too, takes one off the at most `5 * BatchSize` it has left.
* `EventBackboneProofs`. `BackboneInv` is `OutboxInv` and `RunInv` on the shared stream. A step of a
  publisher is a step of `EventPublisher`, and all that consumers see of it is that the stream is
  longer (`StreamOnlyAppended`, `ArrivalsKeepRunInv`); a step of a consumer leaves the publishers'
  variables and the stream alone. `Unique`, an assumption on the consuming side, follows here from
  `DispatchedOnce` for every event whose command was not resent. `OkIsNeverLostAlways` joins the
  outbox's `OkMeansPublished` to `AcknowledgedIsHandled`; `RunsBoundedByFaultsAlways` adds that the
  interruptions are among the faults. `BackboneAssumption` is the two sides' assumptions.
* `WorkflowEngineProofs`. `TypeInv` adds to the types that a goroutine's row is one of the
  workflow and mention it is at, and that its outcomes keep up with the chain; every other proof
  rests on it and on `MovesAlone`, `WhereTo` and `WhatChanges`, which say once what a step of a
  goroutine can do. `CapInv` counts the goroutines between count and creation together with the
  rows; `CapRespected` follows. `RunInv` says that what the check saw stays true (`Fresh`),
  because nobody else is at the mention (`Alone`), and that the effects of an execution are those
  of the outcomes so far (`EffectIsPast`); `RunsOnce` follows. `LeadInv` and `ReportInv` do the
  same for `ensureLead` and for the stored outcome. `OwnedInv` says that a goroutine past the creation
  of its row is the only one that has it and that the row is running; `ExecutionsAreFinalAlways`, an
  action property, and `RunningIsOwnedAlways` follow. `MatchInv` carries, from listing to return, that
  a workflow taken off `todo` was seen to; `NoMatchLostAlways` follows, with every way of `Run` to
  give one workflow up and go on with the next.

* `MentionPipelineProofs`. Nothing here is inductive alone, and a step of one worker touches what
  the others rely on, so the proof is in layers. *Footprints* (`Moved`, `Loaded` and the lemmas on
  them) say once what a step may change: one post of one worker, or one worker's batch. `Shape`
  ties kind, step, event and mode of a worker together (a qualifier only qualifies; nothing is
  paid while something is ready). `RowsOK`: what a worker holds has a row. On these stand
  `KeysInv` (a row is keyed, on its way to be, or loose; a lookup that passed has seen every
  keyed row or overlapped), `MarksInv`, `SoloInv` (who is alone with a mention, and what it may
  have done so far), `HotInv` (a hot mention at any time is still on its way to its lead in
  some worker's hands, has it, or is excused) and `HandedInv` (the same of a decided mention and the
  workflow engine), one per property, each with its own case per action. `SoloInv` has two parts
  besides: `Pass`, that a post on its way to the classifier is undecided unless it is scored again,
  gives the action property `VerdictsStand`; `OneFollowUp`, that with streams alone one consumer
  makes all the leads and once per event, gives `OneLeadAMention` there, as `LeadFits` does without
  streams.
* `BillingProofs`. `BillingBase` adds to the types that a call's event fits its place. `KeywordInv`
  counts the requests past their check together with the keywords. `GrantInv` says that the units
  are exactly the refs granted, that these are due, and that what is answered is granted; finite
  cardinalities carry it to the bound. `PlanInv` says that the stored plan is that of the newest
  event applied, and that the newest event tells the paid plan when nothing was crossed.
* `WorkspacePartsProofs`, first section: `TregClient`. `TregInv`: only first keys are ever used
  (`FirstKeys`), purse and charged calls add up (`Conserved`), and where a call is tells whether
  it has the credit (`CreditsFollow`).
* `LeadRecordProofs`. `LeadBase` adds to the types that an id names a contact that exists and that a
  process's `inflight` is the number of its jobs past the reservation (`InflightStep`). With that, a
  reservation that slips in neither way is made on a sum no less than all that is stored or running,
  and `EnrichCapHolds` is inductive. `PaidInv`: one goroutine at most is to pay for a lead, it finds
  the lead unmarked, and what was paid for is marked. `StageInv`: an enrichment holds the stage that
  is stored. `ContactInv`: one delivery at most, going by the stored id, and a contact's id is stored
  or about to be. `FreshInv` is what events without a stage come to: what a delivery sends, or the
  contact when none is under way, is the lead's stage or better, or another delivery is due. Each
  holds but for the leads in the history variables that its property excuses.
* `WorkspacePartsProofs`, second section: digests. `Counted` bounds, per slot, the senders that
  hold it, the copies out and the open claim together by the overdue sends and the copies whose
  answer was lost (`Extra`); `ClaimsSeeTaken` and
  `TakenApart` say what a claim has seen of the near slots.
* `WorkspacePartsProofs`, the rest. Chat, mutes and automations each have an inductive invariant;
  that of automations (`Covered_A`, `MarkOK`) says that everything up to a run's start is counted,
  excused, or in the hands of a run that began early enough. `PartsStep` maps every step to steps or
  stutters of all parts, from which `PartsImplementParts` and, with all the theorems above,
  `PartsSafe`.

Only model-checked: the liveness properties (`RecordedIsDispatched`, `EventuallyProcessed`,
`OkIsProcessed`, `ExecutionEnds`, `EveryMatchRuns`, `EventuallyScored`), with the fairness and the
`ENABLED` they rest on, which are out of the prover's reach. What can be proved of five of them is:
`NothingStrandedEver`, `BatchesEnd`, `OkIsNeverLostAlways`, `RunningIsOwnedAlways` and
`NoMatchLostAlways` say that what has to happen is always in somebody's hands or still to be had.
Every invariant and every action property of a passing run is a theorem.

Theorems without a run of their own: the types of `EventPublisher`, `StreamConsumer`,
`WorkflowEngine` and `MentionPipeline` (that no race drives the balance below zero), on which the
proofs of the properties rest; `LogAndStreamAgree` and `RunsAreRecorded`, which the two contracts
imply; the safety halves just named but for `OkIsNeverLost`; `ReplaySendsNothing`;
`RunsBoundedByFaults`; and of `StreamConsumer` alone `ProcessedHasRun`,
`RunAgainOnlyIfInterrupted` and the contract, which `Backbone` checks for the composition.

## Findings

1. Replay cannot replay: the job publishes each event under the `event_id` of its own row, which
   is unique (`PublisherReplay`).
2. A row whose publication failed is not recoverable by any path in the code
   (`PublisherRecovery`).
3. The retry manager restarts every scan at "0-0" and never acknowledges messages that keep
   failing, so these can keep it from messages a crash left pending (`ConsumerStarved`).
4. A crash between service and record repeats the service; notifications have no check of
   their own (`ConsumerRunOnce`).
5. `reserve` counts the enriched leads before it takes the lock, on the ground that a save only
   lands while its reservation is held. The save and the release can both come between count and
   lock, and then neither is counted: the daily cap is exceeded in one process (`EnrichCap`).

Also seen, without a run of its own: `ErrDuplicateEvent` means "a row exists", not "already
published"; the checkpoint at the end of a batch wipes the error just written for one of its
messages; scoring and workflow services report no errors to their handlers; the event that
triggers workflows carries no intent tags, so with streams on a workflow that filters on them
never matches.

Seen in the new parts, each named by the exception of a property that would fail without it: two
crawlers can store one story twice (`overlapped`), and the extension always can (`loose`); a
mention the backfill and another worker both hold is scored and charged twice and can become two
leads (`raced`), and in dual-write every mention is; a crash between verdict and lead leaves a hot
mention without one, for good (`interrupted`); with streams alone, what was left unpaid is not
scored when credits return (`EventuallyScored` is about the inline path); the end of one
subscription downgrades a workspace that has another (`crossed`), and a late event overwrites a
later one's plan (`overtaken`); a refund in a context that has ended is lost (`hungUp`), and so is
one the database fails, or a charge of which the answer is lost (`dropped`); two claims of near
digest slots can pass each other (`rivals`), and a digest whose POST timed out goes out again
(`unanswered`); a mention that a failed or manual triage archives is in nobody's report
(`hidden`); a panic in one post leaves its event processed and, with streams alone, its mention
unscored for good (`panicked`); fifty mentions that cannot be classified keep all older ones from the
backfill (`HeldBack`); a click moves a lead without a word to the CRM, and a contact that existed keeps
its old stage until the next event (`adopted`); a list loaded across an invalidation
is served for its TTL (`raced` in `MuteStore`); an enrichment puts the stage it read back over one
that a user or a conversion has stored meanwhile (`moved`); a process that serves the API has two
dispatchers, so that the mutex per lead does not serialize even the deliveries of one process, as the
comment at `Emit` has it (`doubled`), and an enrichment of which the marker is not written is paid
for again (`unmarked`); a confirmed action whose second write fails stays
running for good.

## Not modelled

The components marked so in `PROJECT.json`, with the reason each has. In short: user interfaces,
crawlers, prompts, generated queries and third-party clients have no protocol of their own; most
HTTP handlers are one query each; authentication is single database calls and cryptography; the
agents, onboarding, engager imports and reply drafting run model calls and queries in sequence, with
results that are arbitrary for every property here. Generated queries (`database/*.sql.go`) are
mapped where a model has the statement; most are the row-by-row reading of tables no protocol
depends on. Of the modelled components, what their notes
call left out: cadence and calendar arithmetic, the other automation playbooks, notification
texts, statistics, and the API that edits workflow definitions.
