--------------------------- MODULE WorkflowEngine ---------------------------
(***************************************************************************)
(* The workflow engine: goroutines that run the active workflows of a      *)
(* workspace for a scored mention (Engine.Run, runOne, actions.runChain).  *)
(* They share the tables workflow_executions, workflows and leads; no      *)
(* table has a unique index, and every check is a query of its own.        *)
(*                                                                         *)
(* With the streams pipeline on, a request is an event that stays pending  *)
(* until the engine has returned, and may be handed to a second goroutine  *)
(* while the first is still at it (see StreamConsumer).  With it off, the  *)
(* scorer calls the engine once, from several goroutines.                  *)
(***************************************************************************)
EXTENDS Naturals, Sequences, FiniteSets, FiniteSetsExt

CONSTANTS
    Runners,      \* goroutines that call Engine.Run
    Workflows,    \* active workflows, numbered in the order of created_at
    Mentions,     \* scored mentions of the workspace
    Matches,      \* <<w, m>>: the trigger of w matches m
    Qualifies,    \* mentions whose score and intent make a lead (qualifiesAsLead)
    Chain,        \* Chain[w]: the kinds of the actions of w, in order
    Configured,   \* kinds that can be carried out here; others are skipped
    Cap,          \* MaxTriggersPerHour
    MaxAged,      \* bound: executions that grow older than an hour
    MaxFaults     \* bound: failed calls and crashes

LeadKind == {"create_lead", "push_crm"}
PlainKind == {"notify", "ai_draft", "archive", "webhook"}

\* Normalize takes no definition without actions or with a cap below one; leads
\* and archiving need nothing but the database.
ASSUME EngineAssumption ==
    /\ IsFiniteSet(Runners)
    /\ Workflows \subseteq Nat
    /\ Matches \subseteq Workflows \X Mentions
    /\ Qualifies \subseteq Mentions
    /\ Chain \in [Workflows -> Seq(LeadKind \cup PlainKind) \ {<<>>}]
    /\ {"create_lead", "archive"} \subseteq Configured
    /\ Cap \in Nat \ {0}
    /\ MaxAged \in Nat /\ MaxFaults \in Nat

VARIABLES
    executions,  \* table workflow_executions, in the order of created_at
    hourStart,   \* the rows up to this one are more than an hour old
    leads,       \* leads[m]: rows of table leads with this mention_id
    pending,     \* requests to be served, or not yet acknowledged
    thread,      \* thread[r]: where each goroutine is
    requested,   \* mentions ever requested
    qualified,   \* qualified[m]: the leads the lead qualifier has made of m
    overlapped,  \* mentions two goroutines had in hand at once (history)
    performed,   \* <<w, m, i>>: action i of w took effect for m (history)
    repeated,    \* ... and did so again (history)
    excused,     \* <<w, m>> capped or given up on an error (history)
    abandoned,   \* rows whose goroutine died or failed to update (history)
    streams,     \* is the streams pipeline on? (a setting, it never changes)
    faults       \* faults taken so far, at most MaxFaults

tables == <<executions, leads>>
requests == <<streams, pending, requested, qualified, overlapped>>
effects == <<performed, repeated>>
history == <<effects, excused, abandoned>>
vars == <<tables, hourStart, requests, thread, history, faults>>

Step == {"idle", "list", "has", "count", "create", "act", "lead", "finish", "return"}
StepStatus == {"completed", "skipped", "failed"}
Status == {"running", "completed", "failed"}

\* A goroutine serves mention; todo holds the workflows it has left, the
\* first being the one it is at, row and steps belong to that one.
ThreadState == [pc: Step, mention: Mentions \cup {"none"}, todo: SUBSET Workflows,
                row: Nat, steps: Seq(StepStatus)]
IdleThread == [pc |-> "idle", mention |-> "none", todo |-> {}, row |-> 0,
               steps |-> <<>>]

Busy(r) == thread[r].pc # "idle"
Mention(r) == thread[r].mention
Current(r) == Min(thread[r].todo)
NextAction(r) == Len(thread[r].steps) + 1
Kind(r) == Chain[Current(r)][NextAction(r)]

HasRow(r) == thread[r].pc \in {"act", "lead", "finish"}

Execution == [workflow: Workflows, mention: Mentions, status: Status,
              steps: Seq(StepStatus)]

Rows(w, m) ==
    {i \in DOMAIN executions :
        executions[i].workflow = w /\ executions[i].mention = m}
Recent(w) ==
    {i \in DOMAIN executions : i > hourStart /\ executions[i].workflow = w}

TypeOK ==
    /\ executions \in Seq(Execution)
    /\ hourStart \in 0..Len(executions)
    /\ leads \in [Mentions -> Nat]
    /\ pending \subseteq requested /\ requested \subseteq Mentions
    /\ qualified \in [Mentions -> Nat] /\ overlapped \subseteq Mentions
    /\ thread \in [Runners -> ThreadState]
    /\ \A r \in Runners :
          /\ Busy(r) => Mention(r) \in Mentions
          /\ thread[r].pc \notin {"idle", "list", "return"} => thread[r].todo # {}
          /\ HasRow(r) => thread[r].row \in DOMAIN executions
    /\ performed \subseteq Workflows \X Mentions \X (Nat \ {0})
    /\ repeated \subseteq performed
    /\ excused \subseteq Workflows \X Mentions
    /\ abandoned \subseteq DOMAIN executions
    /\ streams \in BOOLEAN /\ faults \in 0..MaxFaults

Init ==
    /\ executions = <<>>
    /\ hourStart = 0
    /\ leads = [m \in Mentions |-> 0]
    /\ qualified = leads
    /\ pending = {} /\ requested = {} /\ overlapped = {}
    /\ thread = [r \in Runners |-> IdleThread]
    /\ performed = {} /\ repeated = {}
    /\ excused = {} /\ abandoned = {}
    /\ streams \in BOOLEAN
    /\ faults = 0

-----------------------------------------------------------------------------
(* The environment *)

Fault == faults < MaxFaults /\ faults' = faults + 1

\* The scorer has classified m: it publishes a trigger event, only one because
\* of its idempotency key, or calls the engine itself, and once more if the
\* classification could not be stored and m is scored again.
Request(m) ==
    /\ IF m \notin requested THEN UNCHANGED faults
       ELSE ~streams /\ m \notin pending /\ Fault
    /\ requested' = requested \cup {m}
    /\ pending' = pending \cup {m}
    /\ UNCHANGED <<tables, hourStart, streams, qualified, overlapped, thread, history>>

AddLead(m) == leads' = [leads EXCEPT ![m] = @ + 1]

\* qualifyAsLead: an INSERT without a look at what is there. With streams off the
\* scorer calls it before the engine; with streams on a consumer may at any time.
\* It is called again when a call or a process has failed.
Qualify(m) ==
    /\ m \in requested \cap Qualifies
    /\ streams \/ m \in pending
    /\ IF qualified[m] = 0 THEN UNCHANGED faults ELSE Fault
    /\ qualified' = [qualified EXCEPT ![m] = @ + 1]
    /\ AddLead(m)
    /\ UNCHANGED <<executions, hourStart, streams, pending, requested, overlapped,
                   thread, history>>

\* The oldest execution of the last hour is an hour old.
TimePasses ==
    /\ hourStart < Len(executions) /\ hourStart < MaxAged
    /\ hourStart' = hourStart + 1
    /\ UNCHANGED <<tables, requests, thread, history, faults>>

-----------------------------------------------------------------------------
(* Engine.Run *)

Goto(r, step) == thread' = [thread EXCEPT ![r].pc = step]

\* A goroutine takes a request. An event is handed to a second one when the
\* first is slower than the claim threshold.
Start(r, m) ==
    /\ ~Busy(r) /\ m \in pending
    /\ thread' = [thread EXCEPT ![r] =
                     [IdleThread EXCEPT !.pc = "list", !.mention = m]]
    /\ pending' = IF streams THEN pending ELSE pending \ {m}
    /\ overlapped' = IF \E q \in Runners : Busy(q) /\ Mention(q) = m
                     THEN overlapped \cup {m} ELSE overlapped
    /\ UNCHANGED <<tables, hourStart, streams, requested, qualified, history, faults>>

\* The workflows of S are left, and the goroutine turns to the first of them.
TurnTo(r, S) ==
    thread' = [thread EXCEPT ![r] =
                  [@ EXCEPT !.pc = IF S = {} THEN "return" ELSE "has",
                            !.todo = S, !.row = 0, !.steps = <<>>]]

Matching(m) == {w \in Workflows : <<w, m>> \in Matches}

\* ListActiveWorkflowsByWorkspace; runOne passes over those that do not match.
ListWorkflows(r) ==
    /\ thread[r].pc = "list"
    /\ TurnTo(r, Matching(Mention(r)))
    /\ UNCHANGED <<tables, hourStart, requests, history, faults>>

\* The query fails: Run returns, and tells nobody.
ListWorkflowsFails(r) ==
    /\ thread[r].pc = "list"
    /\ Fault
    /\ Goto(r, "return")
    /\ excused' = excused \cup {<<w, Mention(r)>> : w \in Matching(Mention(r))}
    /\ UNCHANGED <<tables, hourStart, requests, effects, abandoned>>

\* runOne returns, with or without an error, and Run goes on.
NextWorkflow(r) == TurnTo(r, thread[r].todo \ {Current(r)})

Excuse(r) == excused' = excused \cup {<<Current(r), Mention(r)>>}

\* Run is over: the event is recorded as processed and acknowledged.
Return(r) ==
    /\ thread[r].pc = "return"
    /\ thread' = [thread EXCEPT ![r] = IdleThread]
    /\ pending' = IF streams THEN pending \ {Mention(r)} ELSE pending
    /\ UNCHANGED <<tables, hourStart, streams, requested, qualified, overlapped,
                   history, faults>>

-----------------------------------------------------------------------------
(* runOne *)

\* Mutant of HasExecution: the table is not asked.
BugHasExecution(r) ==
    /\ thread[r].pc = "has"
    /\ Goto(r, "count")
    /\ UNCHANGED <<tables, hourStart, requests, history, faults>>

\* HasWorkflowExecutionForMention: the workflow has run for this mention.
HasExecution(r) ==
    /\ thread[r].pc = "has"
    /\ IF Rows(Current(r), Mention(r)) # {} THEN NextWorkflow(r) ELSE Goto(r, "count")
    /\ UNCHANGED <<tables, hourStart, requests, history, faults>>

\* Mutant of CountExecutions: one more than the cap.
BugCountExecutions(r) ==
    /\ thread[r].pc = "count"
    /\ IF Cardinality(Recent(Current(r))) > Cap
       THEN NextWorkflow(r) /\ Excuse(r)
       ELSE Goto(r, "create") /\ UNCHANGED excused
    /\ UNCHANGED <<tables, hourStart, requests, effects, abandoned, faults>>

\* CountWorkflowExecutionsSince an hour ago, against the cap.
CountExecutions(r) ==
    /\ thread[r].pc = "count"
    /\ IF Cardinality(Recent(Current(r))) >= Cap
       THEN NextWorkflow(r) /\ Excuse(r)
       ELSE Goto(r, "create") /\ UNCHANGED excused
    /\ UNCHANGED <<tables, hourStart, requests, effects, abandoned, faults>>

\* Mutant of CheckFails: one bad workflow stops the others.
BugCheckFails(r) ==
    /\ thread[r].pc \in {"has", "count"}
    /\ Fault
    /\ Goto(r, "return")
    /\ Excuse(r)
    /\ UNCHANGED <<tables, hourStart, requests, effects, abandoned>>

\* Either query fails: this workflow is given up for this mention.
CheckFails(r) ==
    /\ thread[r].pc \in {"has", "count"}
    /\ Fault
    /\ NextWorkflow(r)
    /\ Excuse(r)
    /\ UNCHANGED <<tables, hourStart, requests, effects, abandoned>>

NewRow(r) == [workflow |-> Current(r), mention |-> Mention(r),
              status |-> "running", steps |-> <<>>]

\* CreateWorkflowExecution, status running. (IncrementWorkflowTriggerCount, which
\* follows, counts runs for display only and is left out.)
CreateExecution(r) ==
    /\ thread[r].pc = "create"
    /\ executions' = Append(executions, NewRow(r))
    /\ thread' = [thread EXCEPT ![r].pc = "act",
                                ![r].row = Len(executions) + 1]
    /\ UNCHANGED <<leads, hourStart, requests, history, faults>>

\* The INSERT fails, or its answer is lost and the row is there all the same.
CreateExecutionFails(r) ==
    /\ thread[r].pc = "create"
    /\ Fault
    /\ \/ /\ Excuse(r)
          /\ UNCHANGED <<executions, abandoned>>
       \/ /\ executions' = Append(executions, NewRow(r))
          /\ abandoned' = abandoned \cup {Len(executions) + 1}
          /\ UNCHANGED excused
    /\ NextWorkflow(r)
    /\ UNCHANGED <<leads, hourStart, requests, effects>>

-----------------------------------------------------------------------------
(* runChain *)

\* The action at hand has ended; the chain goes on whatever the outcome.
Record(r, outcome) ==
    LET steps == Append(thread[r].steps, outcome) IN
    thread' = [thread EXCEPT ![r] =
        [@ EXCEPT !.steps = steps,
                  !.pc = IF Len(steps) < Len(Chain[Current(r)]) THEN "act" ELSE "finish"]]

Perform(r) ==
    LET effect == <<Current(r), Mention(r), NextAction(r)>> IN
    /\ performed' = performed \cup {effect}
    /\ repeated' = IF effect \in performed THEN repeated \cup {effect} ELSE repeated

\* The action takes effect, or is skipped where it is not set up.
Complete(r) ==
    IF Kind(r) \in Configured
    THEN Record(r, "completed") /\ Perform(r)
    ELSE Record(r, "skipped") /\ UNCHANGED effects

\* A notification, draft, status change or webhook: one call.
PlainAction(r) ==
    /\ thread[r].pc = "act" /\ Kind(r) \in PlainKind
    /\ Complete(r)
    /\ UNCHANGED <<tables, hourStart, requests, excused, abandoned, faults>>

\* Mutant of FindLead: a lead is created without looking for one.
BugFindLead(r) ==
    /\ thread[r].pc = "act" /\ Kind(r) \in LeadKind
    /\ Goto(r, "lead")
    /\ UNCHANGED <<tables, hourStart, requests, history, faults>>

\* ensureLead, GetLeadByMention: the mention's lead, if it has one.
FindLead(r) ==
    /\ thread[r].pc = "act" /\ Kind(r) \in LeadKind
    /\ IF leads[Mention(r)] > 0 THEN Complete(r)
       ELSE Goto(r, "lead") /\ UNCHANGED effects
    /\ UNCHANGED <<tables, hourStart, requests, excused, abandoned, faults>>

\* ensureLead, CreateLead; a CRM push is then queued.
CreateLead(r) ==
    /\ thread[r].pc = "lead"
    /\ AddLead(Mention(r))
    /\ Complete(r)
    /\ UNCHANGED <<executions, hourStart, requests, excused, abandoned, faults>>

\* Mutant of ActionFails: the error is dropped.
BugActionFails(r) ==
    /\ thread[r].pc \in {"act", "lead"}
    /\ Fault
    /\ Record(r, "completed")
    /\ UNCHANGED <<tables, hourStart, requests, history>>

\* A call of the action fails; what it was to do may be done all the same.
ActionFails(r) ==
    /\ thread[r].pc \in {"act", "lead"}
    /\ Fault
    /\ Record(r, "failed")
    /\ \/ UNCHANGED <<effects, leads>>
       \/ Kind(r) \in PlainKind \cap Configured /\ Perform(r) /\ UNCHANGED leads
       \/ thread[r].pc = "lead" /\ AddLead(Mention(r)) /\ UNCHANGED effects
    /\ UNCHANGED <<executions, hourStart, requests, excused, abandoned>>

Failed(steps) == \E i \in DOMAIN steps : steps[i] = "failed"

\* Mutant of StoreOutcome: the UPDATE names the workflow, not the execution.
BugStoreOutcome(r) ==
    executions' = [e \in DOMAIN executions |->
        IF executions[e].workflow # Current(r) THEN executions[e]
        ELSE [executions[e] EXCEPT
                 !.status = IF Failed(thread[r].steps) THEN "failed" ELSE "completed",
                 !.steps = thread[r].steps]]

\* UpdateWorkflowExecution with the outcome of every action.
StoreOutcome(r) ==
    executions' = [executions EXCEPT ![thread[r].row] =
        [@ EXCEPT !.status = IF Failed(thread[r].steps) THEN "failed" ELSE "completed",
                  !.steps = thread[r].steps]]

\* Mutant of Finish: a chain with a failure is left as it is.
BugFinish(r) ==
    /\ thread[r].pc = "finish"
    /\ IF Failed(thread[r].steps) THEN UNCHANGED executions ELSE StoreOutcome(r)
    /\ NextWorkflow(r)
    /\ UNCHANGED <<leads, hourStart, requests, history, faults>>

Finish(r) ==
    /\ thread[r].pc = "finish"
    /\ StoreOutcome(r)
    /\ NextWorkflow(r)
    /\ UNCHANGED <<leads, hourStart, requests, history, faults>>

\* The UPDATE fails, or its answer is lost; nobody tries again.
FinishFails(r) ==
    /\ thread[r].pc = "finish"
    /\ Fault
    /\ StoreOutcome(r) \/ UNCHANGED executions
    /\ abandoned' = abandoned \cup {thread[r].row}
    /\ NextWorkflow(r)
    /\ UNCHANGED <<leads, hourStart, requests, effects, excused>>

\* The process of some goroutines dies. Events stay pending; a call of the
\* scorer is lost with the workflows it had left.
Crash(S) ==
    /\ \A r \in S : Busy(r)
    /\ Fault
    /\ thread' = [r \in Runners |-> IF r \in S THEN IdleThread ELSE thread[r]]
    /\ abandoned' = abandoned \cup {thread[r].row : r \in {q \in S : HasRow(q)}}
    /\ excused' = IF streams THEN excused
                  ELSE excused \cup UNION {Matching(Mention(r)) \X {Mention(r)} : r \in S}
    /\ UNCHANGED <<tables, hourStart, requests, effects>>

-----------------------------------------------------------------------------

RunnerStep(r) ==
    \/ ListWorkflows(r) \/ HasExecution(r) \/ CountExecutions(r)
    \/ CreateExecution(r)
    \/ PlainAction(r) \/ FindLead(r) \/ CreateLead(r)
    \/ Finish(r) \/ Return(r)

FaultyStep(r) ==
    \/ ListWorkflowsFails(r) \/ CheckFails(r) \/ CreateExecutionFails(r)
    \/ ActionFails(r) \/ FinishFails(r)

Next ==
    \/ \E m \in Mentions : Request(m) \/ Qualify(m)
    \/ TimePasses
    \/ \E r \in Runners : RunnerStep(r) \/ FaultyStep(r)
    \/ \E r \in Runners, m \in Mentions : Start(r, m)
    \/ \E S \in SUBSET Runners \ {{}} : Crash(S)

Spec == Init /\ [][Next]_vars

\* A goroutine goes on with what it has begun, and a request is taken up.
FairSpec ==
    /\ Spec
    /\ \A r \in Runners : WF_vars(RunnerStep(r))
    /\ \A m \in Mentions : WF_vars(\E r \in Runners : Start(r, m))

-----------------------------------------------------------------------------
(* Properties *)

\* MaxTriggersPerHour is checked and then used up in two calls, so goroutines
\* that count at the same time all go ahead: within an hour a workflow runs
\* at most once more than its cap for each further goroutine, and exactly the
\* cap holds where there is only one.
CapOverrunBounded ==
    \A w \in Workflows :
        Cardinality(Recent(w)) + 1 <= Cap + Cardinality(Runners)

\* "Dedup via workflow_executions": crashes, redeliveries and lost answers do
\* not make a workflow run twice for a mention, nor an action of its chain
\* take effect twice, unless two goroutines were at the mention together.
RunsOncePerMention ==
    \A m \in Mentions \ overlapped, w \in Workflows :
        /\ \A i, j \in Rows(w, m) : i = j
        /\ \A i \in DOMAIN Chain[w] : <<w, m, i>> \notin repeated

\* However many workflows and actions of a mention ask for its lead, the
\* engine adds one at most; any other is the lead qualifier's.
OneLeadPerMention ==
    \A m \in Mentions \ overlapped : leads[m] <= qualified[m] + 1

\* A row no longer running tells what happened: an outcome for every action,
\* failed if one of them is, and what it calls completed took effect.
ReportIsTrue ==
    \A e \in DOMAIN executions :
        LET x == executions[e] IN
        x.status # "running" =>
            /\ Len(x.steps) = Len(Chain[x.workflow])
            /\ (x.status = "failed" <=> Failed(x.steps))
            /\ \A i \in DOMAIN x.steps : x.steps[i] = "completed" =>
                  <<x.workflow, x.mention, i>> \in performed

Ended == {e \in DOMAIN executions : executions[e].status # "running"}

HistoryKept ==
    \A e \in DOMAIN executions :
        /\ e \in DOMAIN executions'
        /\ executions'[e].workflow = executions[e].workflow
        /\ executions'[e].mention = executions[e].mention
        /\ executions'[e] # executions[e] =>
              executions[e].status = "running" /\ executions'[e].status # "running"

\* The log of executions is a history: no row is lost or passed on to another
\* workflow or mention, and one that has ended is never written again, by the
\* same goroutine or another.
ExecutionsAreFinal == [][HistoryKept]_vars

\* The safety half of ExecutionEnds: a row that is running is in the hands of
\* one goroutine, and of no other, or its goroutine died or could not store
\* the outcome.
RunningIsOwned ==
    \A e \in DOMAIN executions :
        LET Owners == {r \in Runners : HasRow(r) /\ thread[r].row = e} IN
        /\ e \notin Ended => e \in abandoned \/ Owners # {}
        /\ Owners # {} => e \notin Ended \cup abandoned
        /\ \A q, r \in Owners : q = r

\* The safety half of EveryMatchRuns: a workflow that matches a requested
\* mention has its execution or an excuse, or somebody has yet to see to it:
\* with streams the event is not acknowledged, without them a goroutine has
\* the workflow before it.
NoMatchLost ==
    \A w \in Workflows : \A m \in {x \in requested : <<w, x>> \in Matches} :
        \/ Rows(w, m) # {} \/ <<w, m>> \in excused
        \/ m \in pending
        \/ /\ ~streams
           /\ \E r \in Runners :
                 /\ Busy(r) /\ Mention(r) = m
                 /\ thread[r].pc = "list" \/ w \in thread[r].todo

\* An execution comes to its end, whatever fails inside its chain, unless its
\* goroutine died or could not store the outcome (nobody takes it up then).
ExecutionEnds ==
    \A w \in Workflows : \A m \in {x \in Mentions : <<w, x>> \in Matches} :
        (Rows(w, m) # {}) ~> (Rows(w, m) \subseteq Ended \cup abandoned)

\* "One bad workflow never stops the others": a requested mention gets its
\* execution of each workflow that matches it, through crashes and
\* redeliveries, unless the cap or an error in this very workflow stops it.
EveryMatchRuns ==
    \A w \in Workflows : \A m \in {x \in Mentions : <<w, x>> \in Matches} :
        (m \in requested) ~> (Rows(w, m) # {} \/ <<w, m>> \in excused)

=============================================================================
