-------------------------------- MODULE Billing --------------------------------
(***************************************************************************)
(* The plan, credits and keyword limit of one workspace (internal/billing).*)
(* Dodo, the payment service (external), sends an event for every change   *)
(* of a subscription and every payment.  It repeats one until a webhook    *)
(* call for it is answered 200, keeps no order and may have two calls for  *)
(* one event open.  A call is a handler that reads the workspace, stores   *)
(* the plan and then grants credits, one statement a step.                 *)
(* An allowance or a top-up is one unit of balance here; the spending of   *)
(* credits is in TregClient and MentionPipeline.                           *)
(***************************************************************************)
EXTENDS Naturals, FiniteSets

CONSTANTS
    Subs,          \* Dodo subscriptions the customer may take out
    Hooks,         \* webhook calls open at one time
    Creators,      \* requests at one time that activate a keyword
    KeywordLimit,  \* active keywords a plan allows
    MaxEvents      \* bound: things that happen at Dodo

PaidPlans == {"starter", "pro"}
Plans == PaidPlans \cup {"free"}

ASSUME BillingAssumption ==
    /\ KeywordLimit \in [Plans -> Nat]
    /\ MaxEvents \in Nat
    /\ IsFiniteSet(Creators)
    /\ Creators # {}

\* The source of a one-time payment, which belongs to no subscription.
TopUp == "topup"

ASSUME TopUpAssumption == TopUp \notin Subs

VARIABLES
    subscription,  \* at Dodo: each subscription's status, plan and period
    emitted,       \* how many things have happened at Dodo
    events,        \* the events they raised
    answered,      \* events Dodo has had a 200 for
    hook,          \* what each webhook call is doing
    plan, limit,   \* workspaces.plan and keyword_limit
    credited,      \* credit_ledger: the refs already granted
    balance,       \* units granted
    keywords,      \* active keywords
    creator,       \* what each request that activates a keyword is doing
    \* History, read by properties only:
    newest,        \* the latest event whose plan was stored
    overtaken,     \* a plan was stored after that of a later event
    crossed,       \* an event concerned one subscription while another was active
    widest         \* the largest keyword_limit so far

dodo == <<subscription, emitted, events>>
planState == <<plan, limit, newest, overtaken, widest>>
grantState == <<credited, balance>>
keywordState == <<keywords, creator>>
billingVars == <<dodo, answered, hook, planState, grantState, keywordState, crossed>>

Event == [seq: 1..MaxEvents, type: {"active", "renewed", "ended", "payment"},
          sub: Subs \cup {TopUp}, plan: Plans, period: 0..MaxEvents]

NoSub == [status |-> "none", plan |-> "free", period |-> 0, since |-> 0]
Active(s) == subscription[s].status = "active"

----------------------------------------------------------------------------
(* Dodo (external): at-least-once, in no order.                            *)

\* Something happens to s; its new state is told by one event per type.
Emit(s, status, p, period, types) ==
    /\ emitted < MaxEvents
    /\ emitted' = emitted + 1
    /\ subscription' = [subscription EXCEPT ![s] =
            [status |-> status, plan |-> p, period |-> period,
             since |-> IF Active(s) THEN @.since ELSE emitted + 1]]
    /\ events' = events \cup
            {[seq |-> emitted + 1, type |-> t, sub |-> s, plan |-> p, period |-> period] : t \in types}
    /\ crossed' = (crossed \/ (Active(s) /\ \E other \in Subs \ {s} : Active(other)))
    /\ UNCHANGED <<answered, hook, planState, grantState, keywordState>>

\* The first charge raises an active and a renewed event for the same period.
Subscribe(s, p) ==
    /\ subscription[s] = NoSub
    /\ Emit(s, "active", p, 1, {"active", "renewed"})

Renew(s) ==
    /\ Active(s)
    /\ Emit(s, "active", subscription[s].plan, subscription[s].period + 1, {"renewed"})

\* subscription.plan_changed, within the billing period.
ChangePlan(s) ==
    /\ Active(s) /\ subscription[s].plan = "starter"
    /\ Emit(s, "active", "pro", subscription[s].period, {"active"})

\* subscription.cancelled, .expired or .failed
End(s) ==
    /\ Active(s)
    /\ Emit(s, "ended", "free", subscription[s].period, {"ended"})

BuyTopUp ==
    /\ emitted < MaxEvents
    /\ emitted' = emitted + 1
    /\ events' = events \cup {[seq |-> emitted + 1, type |-> "payment",
                               sub |-> TopUp, plan |-> "free", period |-> 0]}
    /\ UNCHANGED <<subscription, answered, hook, planState, grantState, keywordState, crossed>>

----------------------------------------------------------------------------
(* The webhook (HandleEvent).                                              *)

Idle == [at |-> "idle"]
Hook == {Idle} \cup [at: {"plan", "grant"}, event: Event]

\* workspaceFor finds the workspace.  A payment changes no plan.
Receive(h, e) ==
    /\ hook[h] = Idle
    /\ e \in events \ answered
    /\ hook' = [hook EXCEPT ![h] =
            [at |-> IF e.type = "payment" THEN "grant" ELSE "plan", event |-> e]]
    /\ UNCHANGED <<dodo, answered, planState, grantState, keywordState, crossed>>

\* The handler is through.  Dodo sees its 200, unless the answer is lost.
Answer(h) ==
    /\ hook' = [hook EXCEPT ![h] = Idle]
    /\ answered' \in {answered, answered \cup {hook[h].event}}

\* A plausible bug: a failure is answered 200.
BugHookFails(h) ==
    /\ hook[h] # Idle
    /\ hook' = [hook EXCEPT ![h] = Idle]
    /\ answered' = answered \cup {hook[h].event}
    /\ UNCHANGED <<dodo, planState, grantState, keywordState, crossed>>

\* A statement fails or the process stops: Dodo sees an error and retries.
HookFails(h) ==
    /\ hook[h] # Idle
    /\ hook' = [hook EXCEPT ![h] = Idle]
    /\ UNCHANGED <<dodo, answered, planState, grantState, keywordState, crossed>>

\* A plausible bug: the plan's limit is not stored with it.
BugStorePlan(p) == plan' = p /\ UNCHANGED limit

\* SetWorkspacePlan
StorePlan(p) == plan' = p /\ limit' = KeywordLimit[p]

\* setPlan overwrites whatever plan is stored; an ended subscription, whichever
\* it is, means Free, and ends the call.
SetPlan(h) ==
    LET e == hook[h].event IN
    /\ hook[h] # Idle /\ hook[h].at = "plan"
    /\ StorePlan(e.plan)
    /\ newest' = IF e.seq > newest THEN e.seq ELSE newest
    /\ overtaken' = (overtaken \/ e.seq < newest)
    /\ widest' = IF limit' > widest THEN limit' ELSE widest
    /\ IF e.type = "ended"
       THEN Answer(h)
       ELSE hook' = [hook EXCEPT ![h].at = "grant"] /\ UNCHANGED answered
    /\ UNCHANGED <<dodo, grantState, keywordState, crossed>>

\* What the customer has paid for once: a subscription's period on a plan, or
\* one payment.
Due(e) == IF e.type = "payment" THEN <<TopUp, e.seq>> ELSE <<e.sub, e.period, e.plan>>

\* A plausible bug: the ref names the event.
BugRef(e) == <<e.type, Due(e)>>

\* credit_ledger.ref, on which GrantCredits is idempotent.
Ref(e) == Due(e)

Grant(h) ==
    LET e == hook[h].event IN
    /\ hook[h] # Idle /\ hook[h].at = "grant"
    /\ credited' = credited \cup {Ref(e)}
    /\ balance' = IF Ref(e) \in credited THEN balance ELSE balance + 1
    /\ Answer(h)
    /\ UNCHANGED <<dodo, planState, keywordState, crossed>>

----------------------------------------------------------------------------
(* The plan's limit on active keywords.                                    *)

NoRequest == [at |-> "idle"]
Creator == {NoRequest, [at |-> "insert"]} \cup [at: {"count"}, allowed: Nat]

\* CanAddKeyword reads the limit ...
ReadLimit(c) ==
    /\ creator[c] = NoRequest
    /\ creator' = [creator EXCEPT ![c] = [at |-> "count", allowed |-> limit]]
    /\ UNCHANGED <<dodo, answered, hook, planState, grantState, keywords, crossed>>

\* A plausible bug: one more than the plan allows.
BugBelowLimit(c) == keywords <= creator[c].allowed

BelowLimit(c) == keywords < creator[c].allowed

\* ... and then counts.  At the limit the request is refused, or its keyword is
\* stored inactive.
CountKeywords(c) ==
    /\ creator[c].at = "count"
    /\ creator' = [creator EXCEPT ![c] =
            IF BelowLimit(c) THEN [at |-> "insert"] ELSE NoRequest]
    /\ UNCHANGED <<dodo, answered, hook, planState, grantState, keywords, crossed>>

\* CreateKeyword, or UpdateKeyword of an inactive one; it may fail.
ActivateKeyword(c) ==
    /\ creator[c].at = "insert"
    /\ creator' = [creator EXCEPT ![c] = NoRequest]
    /\ keywords' \in {keywords, keywords + 1}
    /\ UNCHANGED <<dodo, answered, hook, planState, grantState, crossed>>

\* A keyword is deleted or switched off.
DropKeyword ==
    /\ keywords > 0
    /\ keywords' = keywords - 1
    /\ UNCHANGED <<dodo, answered, hook, planState, grantState, creator, crossed>>

----------------------------------------------------------------------------
BillingInit ==
    /\ subscription = [s \in Subs |-> NoSub]
    /\ emitted = 0
    /\ events = {}
    /\ answered = {}
    /\ hook = [h \in Hooks |-> Idle]
    /\ plan = "free"
    /\ limit = KeywordLimit["free"]
    /\ credited = {}
    /\ balance = 0
    /\ keywords = 0
    /\ creator = [c \in Creators |-> NoRequest]
    /\ newest = 0
    /\ overtaken = FALSE
    /\ crossed = FALSE
    /\ widest = KeywordLimit["free"]

AtDodo ==
    \/ \E s \in Subs : \/ \E p \in PaidPlans : Subscribe(s, p)
                       \/ Renew(s)
                       \/ ChangePlan(s)
                       \/ End(s)
    \/ BuyTopUp

Webhook(h) ==
    \/ \E e \in events : Receive(h, e)
    \/ SetPlan(h)
    \/ Grant(h)
    \/ HookFails(h)

Keyword(c) == ReadLimit(c) \/ CountKeywords(c) \/ ActivateKeyword(c)

BillingNext ==
    \/ AtDodo
    \/ \E h \in Hooks : Webhook(h)
    \/ \E c \in Creators : Keyword(c)
    \/ DropKeyword

BillingSpec == BillingInit /\ [][BillingNext]_billingVars

----------------------------------------------------------------------------
(* Properties.                                                             *)

BillingTypeOK ==
    /\ subscription \in [Subs -> [status: {"none", "active", "ended"}, plan: Plans,
                                  period: 0..MaxEvents, since: 0..MaxEvents]]
    /\ emitted \in 0..MaxEvents
    /\ events \subseteq Event
    /\ answered \subseteq events
    /\ hook \in [Hooks -> Hook]
    /\ \A h \in Hooks : hook[h] # Idle => hook[h].event \in events
    /\ plan \in Plans
    /\ limit = KeywordLimit[plan]
    /\ balance \in Nat
    /\ keywords \in Nat
    /\ creator \in [Creators -> Creator]
    /\ newest \in 0..MaxEvents
    /\ widest \in Nat
    /\ overtaken \in BOOLEAN /\ crossed \in BOOLEAN

\* Dodo has an answer to everything it sent, and no call is open.
Settled == answered = events /\ \A h \in Hooks : hook[h] = Idle

ToGrant == {Due(e) : e \in {e \in events : e.type # "ended"}}

\* However often its events are sent, retried or handled at once, what the
\* customer paid for is granted once: never more units than there are
\* (subscription, period, plan) and payments, and just as many when Dodo has its
\* answers (webhook.go: "One allowance per subscription, billing period and plan:
\* the active and renewed events for the same period grant once").
AllowanceOncePerPeriod ==
    /\ balance <= Cardinality(ToGrant)
    /\ Settled => balance = Cardinality(ToGrant)

\* The plan the customer pays for: the active subscription begun last.
PaidPlan ==
    IF \A s \in Subs : ~Active(s) THEN "free"
    ELSE subscription[CHOOSE s \in Subs :
            Active(s) /\ \A t \in Subs : Active(t) => subscription[t].since <= subscription[s].since].plan

\* Once Dodo has its answers, plan and limit are what the customer pays for,
\* unless an event was applied after a later one (HandleEvent compares no dates)
\* or concerned one subscription while another was active (setPlan does not look
\* which subscription ended).
PlanMatchesDodo ==
    Settled /\ ~overtaken /\ ~crossed => plan = PaidPlan /\ limit = KeywordLimit[PaidPlan]

\* The check and the insert are separate statements, so requests side by side may
\* pass the limit, but by no more than their number less one, whatever the plan
\* changes in between (CanAddKeyword).
KeywordOverrunBounded == keywords <= widest + Cardinality(Creators) - 1

================================================================================
