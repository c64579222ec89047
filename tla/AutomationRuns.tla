----------------------------- MODULE AutomationRuns -----------------------------
(***************************************************************************)
(* One daily-triage automation (internal/automation/service.go): it tells  *)
(* the customer of the mentions of status "new" created since its last     *)
(* successful scheduled run, and may archive those that score low.  Passes *)
(* of the scheduler in any process claim the occurrence due; "Run now" runs*)
(* it outside its schedule.                                                *)
(* Instants are numbered; no two runs start, and no mention is created, at *)
(* the same one.  The customer may edit the run time at any moment, so any *)
(* instant may be an occurrence, and its threshold, so any mention may be  *)
(* noise to a run.  A run sees every new mention: the page of 100 that     *)
(* search_mentions returns is taken as large enough.                       *)
(***************************************************************************)
EXTENDS Integers, FiniteSets

CONSTANTS
    Runners,     \* passes of RunDue and requests of RunNow at one time
    Arrivals,    \* mentions that come in
    LastInstant, \* bound
    RunWindow,   \* how long an occurrence stays due
    RunGap,      \* least time between scheduled runs
    Lookback,    \* how far the first run looks back
    RunTime      \* bound on a run (RunTimeout, and delivery)

ASSUME AutomationAssumption ==
    /\ LastInstant \in Nat /\ RunWindow \in Nat \ {0} /\ RunGap \in Nat
    /\ Lookback \in Nat /\ RunTime \in Nat
    /\ 2 * RunTime <= Lookback   \* minutes, and a day

Instants == 0..LastInstant
Never == -1
Manual == -1   \* a manual run's period_start is NULL

VARIABLES
    instant,    \* the time
    lastRun,    \* automations.last_run_at
    occurrence, \* automation_runs of trigger 'schedule', by period_start
    runner,     \* what each runner is doing
    created,    \* mentions.created_at
    stored,     \* mentions whose insert has committed
    fresh,      \* mentions of status "new", as they are inserted
    counted,    \* mentions a scheduled run's notification or stored output counts
    \* History, read by properties only:
    origin,     \* where the first successful scheduled run began to look
    late,       \* mentions created before a run searched, committed after
    unheard,    \* mentions of a scheduled run neither notified nor stored
    sorted,     \* mentions given a status outside this automation
    hidden      \* mentions archived by a run that was manual, failed or stopped

mentionVars == <<created, stored, fresh>>
historyVars == <<counted, origin, late, unheard, sorted, hidden>>
automationVars == <<instant, lastRun, occurrence, runner, mentionVars, historyVars>>

Instant == Instants \cup {Never}
OffDuty == [at |-> "idle"]
Runner ==
    {OffDuty} \cup [at: {"listed"}, last: Instant, started: Instants]
    \cup [at: {"search"}, slot: Instant, since: Int, started: Instants]
    \cup [at: {"archive"}, slot: Instant, since: Int, started: Instants,
          found: SUBSET Arrivals, noise: SUBSET Arrivals, cleared: SUBSET Arrivals]
    \cup [at: {"finish", "mark"}, slot: Instant, since: Int, started: Instants,
          ok: BOOLEAN, found: SUBSET Arrivals, cleared: SUBSET Arrivals]

Close(s, t) == s # t /\ (IF s < t THEN t - s ELSE s - t) < RunGap

\* Time passes.  Runs and passes over the list are short: minutes, where RunGap and
\* Lookback are most of a day.
Tick ==
    /\ instant < LastInstant
    /\ \A w \in Runners : runner[w] # OffDuty => instant - runner[w].started < RunTime
    /\ instant' = instant + 1

----------------------------------------------------------------------------
\* RunDue lists the automations, RunNow's handler loads one: last_run_at is read.
List(w) ==
    /\ runner[w] = OffDuty
    /\ runner' = [runner EXCEPT ![w] = [at |-> "listed", last |-> lastRun, started |-> instant]]
    /\ UNCHANGED <<instant, lastRun, occurrence, mentionVars, historyVars>>

\* runPlaybook: the window starts where the last successful scheduled run did.
Since(last, started) == IF last = Never THEN started - Lookback ELSE last

\* execute, for the run of s, at the next instant.
Start(w, s) ==
    /\ Tick
    /\ runner' = [runner EXCEPT ![w] = [at |-> "search", slot |-> s, started |-> instant',
                                        since |-> Since(runner[w].last, instant')]]

\* ClaimScheduledAutomationRun: the first caller of an occurrence gets it, unless
\* one that has not failed is close; no failed run is tried again.  Claim is one
\* step; DigestRuns shows what the same statement's two halves allow.
Claimable(s) ==
    /\ occurrence[s] = "none"
    /\ ~\E t \in Instants : Close(s, t) /\ occurrence[t] \in {"running", "succeeded"}

ClaimRun(w, s) ==
    /\ runner[w].at = "listed"
    /\ s <= instant /\ instant - s < RunWindow
    /\ Claimable(s)
    /\ occurrence' = [occurrence EXCEPT ![s] = "running"]
    /\ Start(w, s)
    /\ UNCHANGED <<lastRun, mentionVars, historyVars>>

\* CreateManualAutomationRun. The handler refuses while it sees the latest run
\* under way and younger than RunTimeout, which is PassOver; it looks before it
\* inserts, so that two of them may still start.
RunNow(w) ==
    /\ runner[w].at = "listed"
    /\ Start(w, Manual)
    /\ UNCHANGED <<lastRun, occurrence, mentionVars, historyVars>>

\* Not due, or claimed by someone else.
PassOver(w) ==
    /\ runner[w].at = "listed"
    /\ runner' = [runner EXCEPT ![w] = OffDuty]
    /\ UNCHANGED <<instant, lastRun, occurrence, mentionVars, historyVars>>

\* The mentions of status "new" created after since.
Finds(since) == {m \in stored \cap fresh : created[m] > since}

Reports(r, ok, found, cleared) ==
    [at |-> "finish", slot |-> r.slot, since |-> r.since, started |-> r.started,
     ok |-> ok, found |-> found, cleared |-> cleared]

\* dailyTriage looks, or fails.  Its report counts all it found, and lists the TopN
\* ranked highest of those that are not noise; with mark_noise it goes on to
\* archive the others.
Search(w) ==
    LET r == runner[w] IN
    /\ r.at = "search"
    /\ \/ runner' = [runner EXCEPT ![w] = Reports(r, FALSE, {}, {})]
       \/ runner' = [runner EXCEPT ![w] = Reports(r, TRUE, Finds(r.since), {})]
       \/ \E noise \in SUBSET Finds(r.since) \ {{}} :
             runner' = [runner EXCEPT ![w] =
                [at |-> "archive", slot |-> r.slot, since |-> r.since, started |-> r.started,
                 found |-> Finds(r.since), noise |-> noise, cleared |-> {}]]
    /\ late' = late \cup {m \in Arrivals \ stored : created[m] # Never}
    /\ UNCHANGED <<instant, lastRun, occurrence, mentionVars, counted, origin, unheard, sorted, hidden>>

\* One UpdateMentionStatus after another, whatever the status is by now.  An error
\* ends the run, with nothing to report.
Archive(w) ==
    LET r == runner[w] IN
    /\ r.at = "archive"
    /\ \E m \in r.noise :
          \/ /\ fresh' = fresh \ {m}
             /\ runner' = [runner EXCEPT ![w] =
                   IF r.noise = {m} THEN Reports(r, TRUE, r.found, r.cleared \cup {m})
                   ELSE [r EXCEPT !.noise = @ \ {m}, !.cleared = @ \cup {m}]]
             /\ UNCHANGED hidden
          \/ /\ fresh' \in {fresh, fresh \ {m}}
             /\ runner' = [runner EXCEPT ![w] = Reports(r, FALSE, {}, {})]
             /\ hidden' = hidden \cup r.cleared \cup (fresh \ fresh')
    /\ UNCHANGED <<instant, lastRun, occurrence, created, stored, counted, origin, late, unheard, sorted>>

\* deliver notifies, or does not: that never fails the run.  FinishAutomationRun
\* then stores status and output; its failure is only logged.
FinishAutomation(w) ==
    LET r == runner[w] IN
    /\ r.at = "finish"
    /\ runner' = [runner EXCEPT ![w].at = "mark"]
    /\ \E notified, finished \in BOOLEAN :
          /\ occurrence' = IF finished /\ r.slot # Manual
                THEN [occurrence EXCEPT ![r.slot] = IF r.ok THEN "succeeded" ELSE "failed"]
                ELSE occurrence
          /\ IF r.slot = Manual
             THEN hidden' = hidden \cup r.cleared /\ UNCHANGED <<counted, unheard>>
             ELSE IF notified \/ finished
             THEN counted' = counted \cup r.found /\ UNCHANGED <<unheard, hidden>>
             ELSE unheard' = unheard \cup r.found /\ UNCHANGED <<counted, hidden>>
    /\ UNCHANGED <<instant, lastRun, mentionVars, origin, late, sorted>>

\* A plausible bug: a manual run advances it too.
BugAdvances(r) == r.ok

\* SetAutomationLastRun, after a scheduled run that succeeded; it may fail.
Advances(r) == r.ok /\ r.slot # Manual

MarkLastRun(w) ==
    LET r == runner[w] IN
    /\ r.at = "mark"
    /\ runner' = [runner EXCEPT ![w] = OffDuty]
    /\ \/ /\ Advances(r)
          /\ lastRun' = r.started
          /\ origin' = IF origin = Never THEN (IF r.since < 0 THEN 0 ELSE r.since) ELSE origin
       \/ UNCHANGED <<lastRun, origin>>
    /\ UNCHANGED <<instant, occurrence, mentionVars, counted, late, unheard, sorted, hidden>>

\* What a run under way has archived so far.
Cleared(w) == IF runner[w].at \in {"archive", "finish"} THEN runner[w].cleared ELSE {}

\* The run stays 'running' in the table.
RunnerCrash(w) ==
    /\ runner[w] # OffDuty
    /\ runner' = [runner EXCEPT ![w] = OffDuty]
    /\ hidden' = hidden \cup Cleared(w)
    /\ UNCHANGED <<instant, lastRun, occurrence, mentionVars, counted, origin, late, unheard, sorted>>

\* CreateMention takes created_at when it starts and shows when it commits.
Arrive(m) ==
    /\ created[m] = Never
    /\ Tick
    /\ created' = [created EXCEPT ![m] = instant']
    /\ UNCHANGED <<lastRun, occurrence, runner, stored, fresh, historyVars>>

Commit(m) ==
    /\ created[m] # Never
    /\ stored' = stored \cup {m}
    /\ UNCHANGED <<instant, lastRun, occurrence, runner, created, fresh, historyVars>>

\* The customer or a workflow gives a mention a status, "new" or another.
Sort(m) ==
    /\ m \in stored
    /\ fresh' \in {fresh \cup {m}, fresh \ {m}}
    /\ sorted' = sorted \cup {m}
    /\ UNCHANGED <<instant, lastRun, occurrence, runner, created, stored>>
    /\ UNCHANGED <<counted, origin, late, unheard, hidden>>

\* Nothing happens at an instant.
Pass ==
    /\ Tick
    /\ UNCHANGED <<lastRun, occurrence, runner, mentionVars, historyVars>>

----------------------------------------------------------------------------
AutomationInit ==
    /\ instant = 0
    /\ lastRun = Never
    /\ occurrence = [s \in Instants |-> "none"]
    /\ runner = [w \in Runners |-> OffDuty]
    /\ created = [m \in Arrivals |-> Never]
    /\ stored = {}
    /\ fresh = Arrivals
    /\ counted = {}
    /\ origin = Never
    /\ late = {}
    /\ unheard = {}
    /\ sorted = {}
    /\ hidden = {}

RunnerStep(w) ==
    \/ List(w)
    \/ \E s \in Instants : ClaimRun(w, s)
    \/ RunNow(w) \/ PassOver(w)
    \/ Search(w) \/ Archive(w) \/ FinishAutomation(w) \/ MarkLastRun(w)
    \/ RunnerCrash(w)

AutomationNext ==
    \/ \E w \in Runners : RunnerStep(w)
    \/ \E m \in Arrivals : Arrive(m) \/ Commit(m) \/ Sort(m)
    \/ Pass

AutomationSpec == AutomationInit /\ [][AutomationNext]_automationVars

----------------------------------------------------------------------------
(* Properties.                                                             *)

AutomationTypeOK ==
    /\ instant \in Instants
    /\ lastRun \in Instant
    /\ occurrence \in [Instants -> {"none", "running", "succeeded", "failed"}]
    /\ runner \in [Runners -> Runner]
    /\ created \in [Arrivals -> Instant]
    /\ stored \subseteq Arrivals
    /\ fresh \subseteq Arrivals
    /\ origin \in Instant
    /\ counted \subseteq Arrivals /\ late \subseteq Arrivals /\ unheard \subseteq Arrivals
    /\ sorted \subseteq Arrivals /\ hidden \subseteq Arrivals

\* "only a successful scheduled run may advance it, or failed/manual runs would
\* hide mentions": a mention created between the window of the first successful
\* scheduled run and the last one has been counted by one, unless its insert was
\* open while a run searched, or the run that found it could neither notify nor store
\* it, or no run found it "new": its status was set by hand, or a run archives it just
\* now, or one that was manual, failed or stopped did.
NoMentionHidden ==
    \A m \in Arrivals :
        origin # Never /\ origin < created[m] /\ created[m] <= lastRun
            => \/ m \in counted \cup late \cup unheard
               \/ m \in sorted \cup hidden \cup UNION {Cleared(w) : w \in Runners}

================================================================================
