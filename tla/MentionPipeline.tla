---------------------------- MODULE MentionPipeline ----------------------------
(***************************************************************************)
(* The mention pipeline of one workspace (internal/monitor): crawlers, the *)
(* browser extension and the stream consumers insert posts as mentions,    *)
(* send them to the AI for a verdict and turn hot ones into leads.         *)
(*                                                                         *)
(* A worker is a goroutine that runs insertMention, handleNewMentionBatch, *)
(* batchScoreMentions or a consumer's handler.  Each database statement,   *)
(* LLM call and Publish is one step, so workers interleave between them.   *)
(* Left out: posts by bots or muted authors (they are never inserted), the *)
(* wording of a verdict (hot: qualifiesAsLead; cold: any other), the       *)
(* messages notifyNewMentions sends, and mentions older than the 7 days of *)
(* the duplicate lookup.  Scoring credits are enforced.  Where an error is  *)
(* only logged, a statement whose answer alone is lost is one that worked.  *)
(***************************************************************************)
EXTENDS Naturals, FiniteSets

CONSTANTS
    Posts,      \* what the platforms show, one per (platform, platform_id)
    Story,      \* posts with one story have the same URL or near-identical text
    TooShort,   \* posts the zero-cost rules reject
    Modes,      \* configurations: see PipelineAssumption
    Allowance,  \* credits the free plan's refresh tops the balance up to
    BackfillLimit   \* mentions a backfill takes up: 50 in the code

NoPost == "no post"
Workers == {"tick", "now", "extension", "scorer", "qualifier"}

\* A configuration: STREAMS_ENABLED; dual-write or the inline fallback; the
\* qualifier's consumer instead of inline qualification; the goroutines there
\* are; the posts searches find and those tracked profiles show; the posts no
\* model ever classifies; a bound on the calls that fail and goroutines that
\* stop.
ASSUME PipelineAssumption ==
    /\ IsFiniteSet(Posts) /\ NoPost \notin Posts
    /\ TooShort \subseteq Posts
    /\ DOMAIN Story = Posts
    /\ Allowance \in Nat /\ BackfillLimit \in Nat \ {0}
    /\ \A m \in Modes :
          /\ m.streams \in BOOLEAN /\ m.inline \in BOOLEAN /\ m.async \in BOOLEAN
          /\ m.async => m.streams
          /\ "qualifier" \in m.workers => m.async
          /\ m.workers \subseteq Workers
          /\ m.posts \subseteq Posts /\ m.tracked \subseteq Posts
          /\ m.failing \subseteq Posts
          /\ m.maxFaults \in Nat

VARIABLES
    mode,       \* the configuration, fixed at start
    row,        \* mentions table: a post's row and its scoring stage
    after,      \* <<p, q>>: p's row was created after q's (created_at)
    keyed,      \* posts whose canonical_url and content_simhash are recorded
    leads,      \* how many rows of leads point at the mention
    balance,    \* the workspace's credits
    ingested,   \* posts with a mention.ingested event in the stream
    announced,  \* the verdict in the post's one mention.scored event
    handed,     \* posts handed to the workflow engine, inline or by event
    done,       \* event_processing_log: <<group, post>>
    job,        \* what each worker is doing
    \* History, read by properties only:
    loose,      \* inserted without lookup or without keys
    overlapped, \* stories of which two inserts overlapped
    raced,      \* posts two workers had in hand at once
    unstored,   \* posts of which a stage or verdict was not stored
    redelivered,\* posts whose event came again, unmarked by its first handler
    unpaid,     \* posts once left unscored for want of credits
    panicked,   \* posts whose scoring panicked before anything was stored
    interrupted,\* posts some step of whose handling failed or never came
    faults

tables == <<row, after, keyed, leads, balance>>
streamState == <<ingested, announced, handed, done>>
history == <<loose, overlapped, raced, unstored, redelivered, unpaid, panicked, interrupted>>

vars == <<mode, tables, streamState, job, history, faults>>

Verdicts == {"hot", "cold"}
RowState == {"absent", "new", "filtered", "error"} \cup Verdicts

\* How far a post has come in the hands of a worker.
Steps == {"none", "fetched", "insert", "key", "held", "ready", "paid", "passed",
          "qualify", "flow"} \cup Verdicts
Kinds == {"idle", "poll", "gap", "scan", "ingest", "score", "qualify"}
Idle == [kind |-> "idle", step |-> [p \in Posts |-> "none"], backfill |-> "no",
         event |-> NoPost]

\* The inline path runs without streams, in dual-write and with the fallback.
Inline == mode.inline \/ ~mode.streams

At(w, S) == {p \in Posts : job[w].step[p] \in S}

\* The worker's batch is through the steps S: the next stage may begin.
Through(w, S) == At(w, S) = {}
Crawling == {"fetched", "insert", "key"}
Empty(w) == \A p \in Posts : job[w].step[p] = "none"

\* The worker has the mention in hand, to be announced or scored.
Holds(w, p) == job[w].step[p] \notin {"none", "fetched", "insert"}

Fault == faults < mode.maxFaults /\ faults' = faults + 1

Move(w, p, s) == job' = [job EXCEPT ![w].step[p] = s]

\* UpdateMentionScoring, whose error is only logged.
Record(p, value) ==
    \/ /\ row' = [row EXCEPT ![p] = value]
       /\ UNCHANGED <<unstored, faults>>
    \/ /\ Fault
       /\ unstored' = unstored \cup {p}
       /\ UNCHANGED row

-----------------------------------------------------------------------------
(* Crawling *)

\* Mutant of Begin: a scan that finds nothing new does not backfill.
BugBegin(w, kind, found) ==
    job' = [job EXCEPT ![w] =
          [Idle EXCEPT !.kind = kind,
                       !.step = [p \in Posts |->
                                    IF p \in found THEN "fetched" ELSE "none"]]]

\* A worker starts on the posts it found. Only a scan backfills without having
\* found anything new.
Begin(w, kind, found) ==
    job' = [job EXCEPT ![w] =
          [Idle EXCEPT !.kind = kind,
                       !.backfill = IF kind = "scan" /\ Inline THEN "due" ELSE "no",
                       !.step = [p \in Posts |-> IF p \in found
                                            THEN "fetched" ELSE "none"]]]

\* tick: the tracked profiles are polled first, whatever the balance.
PollProfiles(found) ==
    /\ "tick" \in mode.workers
    /\ job["tick"].kind = "idle"
    /\ Begin("tick", "poll", found)
    /\ UNCHANGED <<mode, tables, streamState, history, faults>>

\* The `scanning` map: one scan of the workspace at a time.
Scanning == \E w \in Workers : job[w].kind = "scan"

\* scanWorkspace, of the tick or of ScanWorkspaceNow. ScanAllowed wants a
\* positive balance and fails open.
ScanWorkspace(w, found) ==
    /\ w \in mode.workers
    /\ \/ w = "tick" /\ job[w].kind = "gap"
       \/ w = "now" /\ job[w].kind = "idle"
    /\ ~Scanning
    /\ \/ balance > 0 /\ UNCHANGED faults
       \/ balance = 0 /\ Fault
    /\ Begin(w, "scan", found)
    /\ UNCHANGED <<mode, tables, streamState, history>>

\* A tick that may not scan, or finds the workspace being scanned, is over.
SkipScan ==
    /\ job["tick"].kind = "gap"
    /\ Scanning \/ balance = 0
    /\ job' = [job EXCEPT !["tick"] = Idle]
    /\ UNCHANGED <<mode, tables, streamState, history, faults>>

\* The extension posts signals; they are inserted by the request's handler.
PostSignals(found) ==
    /\ "extension" \in mode.workers
    /\ job["extension"].kind = "idle"
    /\ found # {}
    /\ Begin("extension", "ingest", found)
    /\ UNCHANGED <<mode, tables, streamState, history, faults>>

\* Mutant of Duplicate: the lookup compares posts by their own URL only.
BugDuplicate(p) == p \in keyed

\* FindRecentDuplicateMention sees only rows whose keys are recorded.
Duplicate(p) == \E q \in keyed : Story[q] = Story[p]

\* dropBeforeInsert: a failed lookup fails open.
LookUp(w, p) ==
    /\ job[w].kind # "ingest"
    /\ p \in At(w, {"fetched"}) /\ Through(w, {"insert", "key"})
    /\ \/ Duplicate(p) /\ Move(w, p, "none") /\ UNCHANGED <<loose, faults>>
       \/ ~Duplicate(p) /\ Move(w, p, "insert") /\ UNCHANGED <<loose, faults>>
       \/ Fault /\ Move(w, p, "insert") /\ loose' = loose \cup {p}
    /\ overlapped' =
          IF \E v \in Workers \ {w} : \E q \in At(v, {"insert", "key"}) : Story[q] = Story[p]
          THEN overlapped \cup {Story[p]} ELSE overlapped
    /\ UNCHANGED <<mode, tables, streamState, raced, unstored, redelivered, unpaid,
                   panicked, interrupted>>

\* A new row, created after those there are.
Create(p) ==
    /\ row' = [row EXCEPT ![p] = "new"]
    /\ after' = after \cup {<<p, q>> : q \in {r \in Posts : row[r] # "absent"}}

\* CreateMention: the unique constraint refuses a post that has a row, and a
\* post whose insert fails is dropped, though the row may be there. The
\* extension's handler neither looks for duplicates nor records keys.
Insert(w, p) ==
    /\ p \in IF job[w].kind = "ingest" THEN At(w, {"fetched"}) ELSE At(w, {"insert"})
    /\ \/ /\ row[p] = "absent"
          /\ Create(p)
          /\ job' = [job EXCEPT
                ![w].step[p] = IF job[w].kind = "ingest" THEN "held" ELSE "key",
                ![w].backfill = IF Inline THEN "due" ELSE "no"]
          /\ loose' = IF job[w].kind = "ingest" THEN loose \cup {p} ELSE loose
          /\ UNCHANGED faults
       \/ /\ row[p] # "absent"
          /\ Move(w, p, "none")
          /\ UNCHANGED <<row, after, loose, faults>>
       \/ /\ Fault
          /\ Move(w, p, "none")
          /\ \/ row[p] = "absent" /\ Create(p) /\ loose' = loose \cup {p}
             \/ UNCHANGED <<row, after, loose>>
    /\ UNCHANGED <<mode, keyed, leads, balance, streamState, overlapped, raced,
                   unstored, redelivered, unpaid, panicked, interrupted>>

RecordDedupeKeys(w, p) ==
    /\ p \in At(w, {"key"})
    /\ \/ keyed' = keyed \cup {p} /\ UNCHANGED <<loose, faults>>
       \/ Fault /\ loose' = loose \cup {p} /\ UNCHANGED keyed
    /\ Move(w, p, "held")
    /\ UNCHANGED <<mode, row, after, leads, balance, streamState, overlapped, raced,
                   unstored, redelivered, unpaid, panicked, interrupted>>

-----------------------------------------------------------------------------
(* handleNewMentionBatch *)

\* publishMentionIngestedBatch, one alert; an error is only logged. Without
\* the inline path the batch ends here.
PublishIngested(w, p) ==
    /\ mode.streams
    /\ p \in At(w, {"held"}) /\ Through(w, Crawling)
    /\ \/ ingested' = ingested \cup {p} /\ UNCHANGED <<interrupted, faults>>
       \/ Fault /\ interrupted' = interrupted \cup {p} /\ UNCHANGED ingested
    /\ Move(w, p, IF Inline THEN "ready" ELSE "none")
    /\ UNCHANGED <<mode, tables, announced, handed, done, loose, overlapped, raced,
                   unstored, redelivered, unpaid, panicked>>

\* The mentions that enter batchScoreMentions, all at once.
Batch(w) == At(w, IF mode.streams THEN {"ready"} ELSE {"held", "ready"})
Scores(w) ==
    /\ Batch(w) # {}
    /\ Through(w, Crawling) /\ (mode.streams => Through(w, {"held"}))

-----------------------------------------------------------------------------
(* Scoring: batchScoreMentions *)

\* Stage 0, one marked row after the other.
RejectByRules(w, p) ==
    /\ Scores(w) /\ p \in Batch(w) \cap TooShort
    /\ Record(p, "filtered")
    /\ Move(w, p, "none")
    /\ UNCHANGED <<mode, after, keyed, leads, balance, streamState, loose, overlapped,
                   raced, redelivered, unpaid, panicked, interrupted>>

\* Credits.Take: one credit a post, at most what there is. The posts beyond it
\* stay unscored: of a backfill, which comes newest first, the oldest. All stay
\* unscored when the statement fails, though the credits may be gone.
TakeCredits(w) ==
    /\ Scores(w) /\ Batch(w) \cap TooShort = {}
    /\ \E paid, kept \in SUBSET Batch(w) :
          /\ \/ Cardinality(paid) = balance
             \/ paid = Batch(w) /\ Cardinality(paid) <= balance
          /\ \/ /\ kept = paid /\ balance' = balance - Cardinality(paid)
                /\ UNCHANGED faults
             \/ /\ kept = {} /\ balance' \in {balance, balance - Cardinality(paid)}
                /\ Fault
          /\ job[w].backfill = "done" =>
                \A p \in kept, q \in Batch(w) \ kept : <<q, p>> \notin after
          /\ job' = [job EXCEPT
                ![w].step = [p \in Posts |-> IF p \in kept THEN "paid" ELSE "none"]]
          /\ unpaid' = unpaid \cup (Batch(w) \ kept)
    /\ UNCHANGED <<mode, row, after, keyed, leads, streamState, loose, overlapped, raced,
                   unstored, redelivered, panicked, interrupted>>

\* Stages 1 and 2: a failed filter or embedding lets the post pass.
FilterMention(w, p) ==
    /\ p \in At(w, {"paid"})
    /\ \/ Move(w, p, "passed") /\ UNCHANGED <<row, unstored, faults>>
       \/ Move(w, p, "none") /\ Record(p, "filtered")
    /\ UNCHANGED <<mode, after, keyed, leads, balance, streamState, loose, overlapped,
                   raced, redelivered, unpaid, panicked, interrupted>>

\* Mutants of AfterVerdict: inline qualification although the qualifier's consumer does it, and
\* no inline qualification once streams are on.
BugBothQualify(v) ==
    IF v = "hot" THEN "qualify" ELSE IF mode.streams THEN "none" ELSE "flow"
BugNobodyQualifies(v) ==
    IF mode.streams THEN "none" ELSE IF v = "hot" THEN "qualify" ELSE "flow"

\* What comes after the verdict, and after its events.
AfterVerdict(v) ==
    IF v = "hot" /\ ~mode.async THEN "qualify" ELSE IF mode.streams THEN "none" ELSE "flow"

\* classifyAndStore up to its UPDATE. A failed classification is recorded, if
\* that UPDATE does not fail too, and a verdict that cannot be stored is acted
\* upon all the same.
Classify(w, p) ==
    /\ p \in At(w, {"passed"}) /\ Through(w, {"paid"})
    /\ \/ \E v \in Verdicts :
             /\ p \notin mode.failing
             /\ Record(p, v)
             /\ Move(w, p, IF mode.streams THEN v ELSE AfterVerdict(v))
       \/ /\ p \in mode.failing
          /\ Record(p, "error")
          /\ Move(w, p, "none")
       \/ /\ Fault
          /\ \/ row' = [row EXCEPT ![p] = "error"] /\ UNCHANGED unstored
             \/ unstored' = unstored \cup {p} /\ UNCHANGED row
          /\ Move(w, p, "none")
    /\ UNCHANGED <<mode, after, keyed, leads, balance, streamState, loose, overlapped,
                   raced, redelivered, unpaid, panicked, interrupted>>

\* publishMentionScored: the idempotency key lets the first event of a post
\* stand. An error is only logged.
PublishScored(w, p) ==
    /\ p \in At(w, Verdicts)
    /\ \E lost \in SUBSET {"scored", "trigger"} :
          /\ IF lost = {} THEN UNCHANGED <<interrupted, faults>>
                          ELSE Fault /\ interrupted' = interrupted \cup {p}
          /\ announced' = IF "scored" \in lost \/ announced[p] # "none" THEN announced
                          ELSE [announced EXCEPT ![p] = job[w].step[p]]
          /\ handed' = IF "trigger" \in lost THEN handed ELSE handed \cup {p}
    /\ Move(w, p, AfterVerdict(job[w].step[p]))
    /\ UNCHANGED <<mode, tables, ingested, done, loose, overlapped, raced, unstored,
                   redelivered, unpaid, panicked>>

\* Mutant of QualifyAsLead: a hot mention ends with its lead.
BugQualifyAsLead(w, p) ==
    /\ p \in At(w, {"qualify"})
    /\ \/ leads' = [leads EXCEPT ![p] = @ + 1] /\ UNCHANGED <<interrupted, faults>>
       \/ Fault /\ interrupted' = interrupted \cup {p} /\ UNCHANGED leads
    /\ Move(w, p, "none")
    /\ UNCHANGED <<mode, row, after, keyed, balance, streamState, loose, overlapped, raced,
                   unstored, redelivered, unpaid, panicked>>

\* qualifyAsLead: leads has no unique constraint on mention_id.
QualifyAsLead(w, p) ==
    /\ p \in At(w, {"qualify"})
    /\ \/ leads' = [leads EXCEPT ![p] = @ + 1] /\ UNCHANGED <<interrupted, faults>>
       \/ Fault /\ interrupted' = interrupted \cup {p} /\ UNCHANGED leads
    /\ Move(w, p, IF mode.streams THEN "none" ELSE "flow")
    /\ UNCHANGED <<mode, row, after, keyed, balance, streamState, loose, overlapped, raced,
                   unstored, redelivered, unpaid, panicked>>

RunWorkflows(w, p) ==
    /\ p \in At(w, {"flow"})
    /\ handed' = handed \cup {p}
    /\ Move(w, p, "none")
    /\ UNCHANGED <<mode, tables, ingested, announced, done, history, faults>>

\* forEachConcurrent recovers a panic in the filter or in classifyAndStore: the
\* post is dropped where it is and the batch goes on.
Panic(w, p) ==
    /\ job[w].kind # "qualify"
    /\ Fault
    /\ \/ /\ p \in At(w, {"paid", "passed"})
          /\ panicked' = panicked \cup {p}
          /\ UNCHANGED interrupted
       \/ /\ p \in At(w, Verdicts \cup {"qualify", "flow"})
          /\ interrupted' = interrupted \cup {p}
          /\ UNCHANGED panicked
    /\ Move(w, p, "none")
    /\ UNCHANGED <<mode, tables, streamState, loose, overlapped, raced, unstored,
                   redelivered, unpaid>>

\* Mutant of Undecided: the query forgets `intent IS NULL`.
BugUndecided == {p \in Posts : row[p] \in {"new", "error"} \cup Verdicts}

\* What the inline path still has to decide: mentions without an intent and
\* without a stage but that of a classification error.
Undecided == {p \in Posts : row[p] \in {"new", "error"}}

\* ListUnclassifiedMentions: the newest of them, up to the limit.
Unclassified ==
    {p \in Undecided : Cardinality({q \in Undecided : <<q, p>> \in after}) < BackfillLimit}

\* A worker takes up mentions that are in the table already.
Pick(w, ps, s, j) ==
    /\ job' = [job EXCEPT ![w] =
          [j EXCEPT !.step = [p \in Posts |-> IF p \in ps THEN s ELSE "none"]]]
    /\ raced' = raced \cup {p \in ps : \E v \in Workers \ {w} : Holds(v, p)}

\* The inline path ends with one more pass, over what earlier ones left.
BackfillUnclassified(w) ==
    /\ job[w].backfill = "due" /\ Empty(w)
    /\ \/ Pick(w, Unclassified, "ready", [job[w] EXCEPT !.backfill = "done"])
          /\ UNCHANGED faults
       \/ Fault /\ Pick(w, {}, "none", [job[w] EXCEPT !.backfill = "done"])
    /\ UNCHANGED <<mode, tables, streamState, loose, overlapped, unstored,
                   redelivered, unpaid, panicked, interrupted>>

\* The worker is done; the tick goes on from the profiles to the scan.
Finish(w) ==
    /\ job[w].kind \in {"poll", "scan", "ingest"}
    /\ job[w].backfill # "due" /\ Empty(w)
    /\ job' = [job EXCEPT ![w] =
          [Idle EXCEPT !.kind = IF job[w].kind = "poll" THEN "gap" ELSE "idle"]]
    /\ UNCHANGED <<mode, tables, streamState, history, faults>>

-----------------------------------------------------------------------------
(* Consumers *)

\* Mutant of HandleIngested: the event is marked before the mention is scored.
BugHandleIngested(p) ==
    /\ "scorer" \in mode.workers /\ job["scorer"].kind = "idle"
    /\ p \in ingested /\ <<"scorer", p>> \notin done
    /\ done' = done \cup {<<"scorer", p>>}
    /\ Pick("scorer", {p}, "ready", [Idle EXCEPT !.kind = "score", !.event = p])
    /\ UNCHANGED <<mode, tables, ingested, announced, handed, loose, overlapped,
                   unstored, redelivered, unpaid, panicked, interrupted, faults>>

\* handleScorerMessage: it does not ask whether the mention has a stage.
HandleIngested(p) ==
    /\ "scorer" \in mode.workers /\ job["scorer"].kind = "idle"
    /\ p \in ingested /\ <<"scorer", p>> \notin done
    /\ Pick("scorer", {p}, "ready", [Idle EXCEPT !.kind = "score", !.event = p])
    /\ UNCHANGED <<mode, tables, streamState, loose, overlapped, unstored,
                   redelivered, unpaid, panicked, interrupted, faults>>

\* handleQualifierMessage: the event's verdict decides, not the row's.
HandleScored(p) ==
    /\ "qualifier" \in mode.workers /\ job["qualifier"].kind = "idle"
    /\ announced[p] # "none" /\ <<"qualifier", p>> \notin done
    /\ Pick("qualifier", IF announced[p] = "hot" THEN {p} ELSE {}, "qualify",
            [Idle EXCEPT !.kind = "qualify", !.event = p])
    /\ UNCHANGED <<mode, tables, streamState, loose, overlapped, unstored,
                   redelivered, unpaid, panicked, interrupted, faults>>

\* markProcessed; when it fails the message stays pending and comes back.
MarkProcessed(w) ==
    /\ job[w].kind \in {"score", "qualify"} /\ Empty(w)
    /\ \/ done' = done \cup {<<w, job[w].event>>} /\ UNCHANGED <<redelivered, faults>>
       \/ Fault /\ redelivered' = redelivered \cup {job[w].event} /\ UNCHANGED done
    /\ job' = [job EXCEPT ![w] = Idle]
    /\ UNCHANGED <<mode, tables, ingested, announced, handed, loose, overlapped,
                   raced, unstored, unpaid, panicked, interrupted>>

-----------------------------------------------------------------------------
(* Time and failure *)

\* RefreshFree, in the first tick of a month.
RefreshFree ==
    /\ balance < Allowance
    /\ balance' = Allowance
    /\ UNCHANGED <<mode, row, after, keyed, leads, streamState, job, history, faults>>

\* A worker stops where it is: a panic outside forEachConcurrent, or its process.
Crash(w) ==
    /\ job[w].kind # "idle"
    /\ Fault
    /\ job' = [job EXCEPT ![w] = Idle]
    /\ loose' = loose \cup At(w, {"key"})
    /\ interrupted' = interrupted \cup {p \in Posts : Holds(w, p)}
    /\ redelivered' = redelivered \cup ({job[w].event} \ {NoPost})
    /\ UNCHANGED <<mode, tables, streamState, overlapped, raced, unstored, unpaid,
                   panicked>>

-----------------------------------------------------------------------------

Init ==
    /\ mode \in Modes
    /\ row = [p \in Posts |-> "absent"]
    /\ leads = [p \in Posts |-> 0]
    /\ announced = [p \in Posts |-> "none"]
    /\ balance = Allowance
    /\ job = [w \in Workers |-> Idle]
    /\ keyed = {} /\ ingested = {} /\ handed = {} /\ done = {}
    /\ after = {}
    /\ loose = {} /\ overlapped = {} /\ raced = {} /\ unstored = {} /\ redelivered = {}
    /\ unpaid = {} /\ panicked = {} /\ interrupted = {}
    /\ faults = 0

\* What a running worker does next by itself.
Step(w) ==
    \/ TakeCredits(w) \/ BackfillUnclassified(w) \/ Finish(w) \/ MarkProcessed(w)
    \/ \E p \in Posts :
          \/ LookUp(w, p) \/ Insert(w, p) \/ RecordDedupeKeys(w, p)
          \/ PublishIngested(w, p) \/ RejectByRules(w, p) \/ FilterMention(w, p)
          \/ Classify(w, p) \/ PublishScored(w, p) \/ QualifyAsLead(w, p)
          \/ RunWorkflows(w, p)

Scan(w) == \E found \in SUBSET mode.posts : ScanWorkspace(w, found)
Poll == \E found \in SUBSET mode.tracked : PollProfiles(found)

Next ==
    \/ Poll \/ SkipScan \/ RefreshFree
    \/ \E found \in SUBSET mode.posts : PostSignals(found)
    \/ \E w \in {"tick", "now"} : Scan(w)
    \/ \E w \in Workers : Step(w) \/ Crash(w) \/ \E p \in Posts : Panic(w, p)
    \/ \E p \in Posts : HandleIngested(p) \/ HandleScored(p)

Spec == Init /\ [][Next]_vars

\* The monitor's own goroutine: a tick, and what it does in it.
Tick == Poll \/ Scan("tick") \/ SkipScan \/ Step("tick")

\* The ticker fires and the month turns, and an immediate scan, once started,
\* goes on (it keeps the workspace's place in `scanning`). Nobody has to start
\* one or to use the extension, the consumers may stand still, and nothing has
\* to fail.
FairSpec == Spec /\ WF_vars(Tick) /\ WF_vars(Step("now")) /\ WF_vars(RefreshFree)

-----------------------------------------------------------------------------
(* Properties *)

TypeOK ==
    /\ mode \in Modes
    /\ row \in [Posts -> RowState]
    /\ leads \in [Posts -> Nat]
    /\ announced \in [Posts -> Verdicts \cup {"none"}]
    /\ balance \in 0..Allowance
    /\ after \subseteq Posts \X Posts
    /\ keyed \subseteq Posts /\ ingested \subseteq Posts /\ handed \subseteq Posts
    /\ done \subseteq Workers \X Posts
    /\ job \in [Workers -> [kind : Kinds, step : [Posts -> Steps],
                            backfill : {"no", "due", "done"}, event : Posts \cup {NoPost}]]
    /\ loose \subseteq Posts /\ raced \subseteq Posts /\ unpaid \subseteq Posts
    /\ unstored \subseteq Posts /\ redelivered \subseteq Posts
    /\ panicked \subseteq Posts /\ interrupted \subseteq Posts
    /\ overlapped \subseteq {Story[p] : p \in Posts}
    /\ faults \in 0..mode.maxFaults

\* Streams with the inline path beside them: every mention is scored twice.
Dual == mode.streams /\ mode.inline

\* What brings a mention that has its verdict before the classifier again: its
\* event that is redelivered or that dual-write has anticipated and, without
\* streams, two workers that both have it in hand.
ScoredAgain(p) == p \in redelivered \/ Dual \/ (~mode.streams /\ p \in raced)

\* The backfill also takes up a mention of which the UPDATE failed, though its
\* verdict was acted upon.
Rescored(p) == ScoredAgain(p) \/ (~mode.streams /\ p \in unstored)

AtRest(p) == \A w \in Workers : ~Holds(w, p)

\* dropBeforeInsert keeps one post of a story although its check and its key
\* are two statements: a second row needs two overlapping inserts, a failed
\* statement, or the extension's handler, which does neither.
DuplicateRowsNeedOverlap ==
    \A p, q \in Posts :
        /\ p # q /\ Story[p] = Story[q]
        /\ row[p] # "absent" /\ row[q] # "absent"
        => p \in loose \/ q \in loose \/ Story[p] \in overlapped

\* Nothing in the database refuses a second lead for a mention; that there is
\* one rests on scoring it once, across crawlers, backfill and both consumers.
SecondLeadOnlyIfRescored ==
    \A p \in Posts : leads[p] > 1 => Rescored(p)

\* A mention that is stored as hot has its lead, or the qualifier will see its
\* event, unless a step in between failed. When the mention was scored again,
\* the event of the first verdict stands and may say cold.
HotMentionHasLead ==
    \A p \in Posts :
        row[p] = "hot" /\ AtRest(p) /\ p \notin interrupted =>
            \/ leads[p] > 0
            \/ /\ mode.async
               /\ \/ announced[p] = "hot" /\ <<"qualifier", p>> \notin done
                  \/ announced[p] = "cold" /\ ScoredAgain(p)

\* What is decided, hot or cold, reaches the workflow engine, inline or by its
\* event, unless a step on the way failed: the lead comes in between, and what
\* stops after the UPDATE is never taken up again.
DecidedIsHanded ==
    \A p \in Posts :
        row[p] \in Verdicts /\ AtRest(p) /\ p \notin interrupted => p \in handed

\* A stored verdict is neither changed nor wiped by a filter stage of another
\* pass, unless the mention is scored again.
VerdictStands ==
    [][\A p \in Posts :
          row[p] \in Verdicts /\ row'[p] # row[p] => ScoredAgain(p)]_vars

\* The scorer's mark is worth something: an event marked processed has left a
\* stage on its mention, unless credits ran out, the UPDATE failed or this post's
\* part of the batch panicked before it. Without the inline path nothing would
\* look at the mention again.
ProcessedIsScored ==
    \A p \in Posts :
        <<"scorer", p>> \in done => row[p] # "new" \/ p \in unpaid \cup unstored \cup panicked

\* Newest first, a mention that can never be classified keeps its place in the
\* backfill's limit and its credit for ever; it holds back the older ones only.
HeldBack(p) ==
    \E q \in mode.failing \cap Undecided : q = p \/ <<q, p>> \in after

\* "Posts beyond the balance stay unscored (no stage) and the backfill scores
\* them once credits return": on the inline path every mention is decided in
\* the end, through the backfill's limit, classification errors, panics, lost
\* workers and empty balances, unless it or a newer one can never be classified.
EventuallyScored ==
    \A p \in Posts : (Inline /\ p \in Undecided) ~> (p \notin Undecided \/ HeldBack(p))

=============================================================================
