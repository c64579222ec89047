------------------------------ MODULE BillingProofs ------------------------------
(***************************************************************************)
(* Proofs about Billing, for any number of subscriptions, webhook calls,   *)
(* requests and keyword limits: what is granted, which plan is stored and  *)
(* how far keywords may pass the limit.                                    *)
(***************************************************************************)
EXTENDS Billing, FiniteSetTheorems, TLAPS

Open_B(h) == hook[h] # Idle

\* Nothing is dated later than the last thing that happened at Dodo.
Dated ==
    /\ \A s \in Subs : subscription[s].period <= emitted /\ subscription[s].since <= emitted
    /\ \A e \in events : e.seq <= emitted

\* A call that stores a plan is not for a payment, and one that grants is not for
\* the end of a subscription.
HookKinds ==
    \A h \in Hooks : Open_B(h) =>
        /\ hook[h].at = "plan" => hook[h].event.type # "payment"
        /\ hook[h].at = "grant" => hook[h].event.type # "ended"

BillingBase == BillingTypeOK /\ Dated /\ HookKinds

----------------------------------------------------------------------------
(* What happens at Dodo.                                                   *)

LEMMA AtDodoCases ==
    ASSUME BillingBase, AtDodo
    PROVE  \/ BuyTopUp
           \/ \E s \in Subs, p \in Plans, period \in 0..(emitted + 1) :
                 \/ Emit(s, "active", p, period, {"active", "renewed"}) /\ subscription[s] = NoSub
                 \/ Emit(s, "active", p, period, {"active"}) /\ Active(s)
                 \/ Emit(s, "active", p, period, {"renewed"}) /\ Active(s)
                 \/ Emit(s, "ended", p, period, {"ended"}) /\ Active(s) /\ p = "free"
<1> USE BillingAssumption DEF BillingBase, BillingTypeOK, Dated, Plans
<1>1. ASSUME NEW s \in Subs, NEW p \in PaidPlans, Subscribe(s, p)
      PROVE  p \in Plans /\ 1 \in 0..(emitted + 1)
             /\ Emit(s, "active", p, 1, {"active", "renewed"}) /\ subscription[s] = NoSub
  BY <1>1 DEF Subscribe
<1>2. ASSUME NEW s \in Subs, Renew(s)
      PROVE  \E p \in Plans, period \in 0..(emitted + 1) :
                Emit(s, "active", p, period, {"renewed"}) /\ Active(s)
  <2>1. subscription[s].plan \in Plans /\ subscription[s].period + 1 \in 0..(emitted + 1)
    OBVIOUS
  <2> QED BY <1>2, <2>1 DEF Renew
<1>3. ASSUME NEW s \in Subs, ChangePlan(s)
      PROVE  \E p \in Plans, period \in 0..(emitted + 1) :
                Emit(s, "active", p, period, {"active"}) /\ Active(s)
  <2>1. "pro" \in Plans /\ subscription[s].period \in 0..(emitted + 1)
    BY DEF PaidPlans
  <2> QED BY <1>3, <2>1 DEF ChangePlan
<1>4. ASSUME NEW s \in Subs, End(s)
      PROVE  \E p \in Plans, period \in 0..(emitted + 1) :
                Emit(s, "ended", p, period, {"ended"}) /\ Active(s) /\ p = "free"
  <2>1. "free" \in Plans /\ subscription[s].period \in 0..(emitted + 1)
    OBVIOUS
  <2> QED BY <1>4, <2>1 DEF End
<1> QED BY <1>1, <1>2, <1>3, <1>4 DEF AtDodo

\* All that later proofs need of an Emit.
Told(s, status, p, period, types) ==
    /\ emitted < MaxEvents
    /\ emitted' = emitted + 1
    /\ subscription' = [subscription EXCEPT ![s] =
            [status |-> status, plan |-> p, period |-> period,
             since |-> IF Active(s) THEN subscription[s].since ELSE emitted + 1]]
    /\ events \subseteq events'
    /\ \A e \in events' : e \in events \/
          (e \in Event /\ e.seq = emitted + 1 /\ e.type \in types /\ e.sub = s
           /\ e.plan = p /\ e.period = period)
    /\ \E e \in events' : e.seq = emitted + 1 /\ e.type \in types /\ e.sub = s /\ e.plan = p
    /\ crossed' = (crossed \/ (Active(s) /\ \E other \in Subs \ {s} : Active(other)))
    /\ UNCHANGED <<answered, hook, planState, grantState, keywordState>>

LEMMA EmitTells ==
    ASSUME BillingBase, NEW s \in Subs, NEW p \in Plans, NEW period \in 0..(emitted + 1),
           NEW status, NEW types \in SUBSET {"active", "renewed", "ended"}, types # {},
           Emit(s, status, p, period, types)
    PROVE  Told(s, status, p, period, types)
<1>1. emitted < MaxEvents /\ emitted \in Nat
  BY BillingAssumption DEF Emit, BillingBase, BillingTypeOK
<1>2. \A t \in types : [seq |-> emitted + 1, type |-> t, sub |-> s, plan |-> p, period |-> period]
                          \in Event
  BY <1>1, BillingAssumption DEF Event
<1>3. subscription' = [subscription EXCEPT ![s] =
            [status |-> status, plan |-> p, period |-> period,
             since |-> IF Active(s) THEN subscription[s].since ELSE emitted + 1]]
  BY DEF Emit, BillingBase, BillingTypeOK
<1>4. \A e \in events' : e \in events \/
          (e \in Event /\ e.seq = emitted + 1 /\ e.type \in types /\ e.sub = s
           /\ e.plan = p /\ e.period = period)
  BY <1>2 DEF Emit
<1>5. \E e \in events' : e.seq = emitted + 1 /\ e.type \in types /\ e.sub = s /\ e.plan = p
  <2>1. PICK t \in types : TRUE
    OBVIOUS
  <2>2. [seq |-> emitted + 1, type |-> t, sub |-> s, plan |-> p, period |-> period] \in events'
    BY DEF Emit
  <2> QED BY <2>2
<1> QED BY <1>1, <1>3, <1>4, <1>5 DEF Emit, Told

\* The ways a step at Dodo goes: a payment, or news of a subscription.
LEMMA DodoStep ==
    ASSUME BillingBase, AtDodo
    PROVE  \/ BuyTopUp
           \/ \E s \in Subs, p \in Plans, period \in 0..(emitted + 1) :
                 \/ Told(s, "active", p, period, {"active", "renewed"})
                    /\ (Active(s) \/ subscription[s] = NoSub)
                 \/ Told(s, "ended", p, period, {"ended"}) /\ Active(s) /\ p = "free"
<1>1. ASSUME NEW s \in Subs, NEW p \in Plans, NEW period \in 0..(emitted + 1),
             NEW types \in SUBSET {"active", "renewed"}, Told(s, "active", p, period, types)
      PROVE  Told(s, "active", p, period, {"active", "renewed"})
  BY <1>1 DEF Told
<1>2. {"active"} \in SUBSET {"active", "renewed"} /\ {"renewed"} \in SUBSET {"active", "renewed"}
  OBVIOUS
<1>3. \A types \in {{"active"}, {"renewed"}, {"ended"}, {"active", "renewed"}} :
          types \in SUBSET {"active", "renewed", "ended"} /\ types # {}
  OBVIOUS
<1> QED BY <1>1, <1>2, <1>3, AtDodoCases, EmitTells

----------------------------------------------------------------------------
(* Types.                                                                  *)

LEMMA BillingInitBase == BillingInit => BillingBase
<1> SUFFICES ASSUME BillingInit PROVE BillingBase
  OBVIOUS
<1> USE BillingAssumption DEF BillingInit
<1>1. NoSub \in [status: {"none", "active", "ended"}, plan: Plans,
                 period: 0..MaxEvents, since: 0..MaxEvents]
  BY DEF NoSub, Plans
<1>2. subscription \in [Subs -> [status: {"none", "active", "ended"}, plan: Plans,
                 period: 0..MaxEvents, since: 0..MaxEvents]]
  BY <1>1
<1>3. hook \in [Hooks -> Hook] /\ creator \in [Creators -> Creator]
  BY DEF Hook, Creator
<1>4. BillingTypeOK
  <2>1. "free" \in Plans /\ KeywordLimit["free"] \in Nat
    BY DEF Plans
  <2>2. \A h \in Hooks : ~(hook[h] # Idle)
    OBVIOUS
  <2>3. events \subseteq Event /\ answered \subseteq events
    OBVIOUS
  <2>4. emitted \in 0..MaxEvents /\ newest \in 0..MaxEvents /\ balance \in Nat /\ keywords \in Nat
        /\ widest \in Nat /\ plan \in Plans /\ limit = KeywordLimit[plan]
    BY <2>1
  <2>5. overtaken \in BOOLEAN /\ crossed \in BOOLEAN
    OBVIOUS
  <2> HIDE DEF BillingInit
  <2> QED BY <1>2, <1>3, <2>2, <2>3, <2>4, <2>5 DEF BillingTypeOK
<1>5. Dated /\ HookKinds
  BY DEF Dated, HookKinds, Open_B, NoSub
<1> QED BY <1>4, <1>5 DEF BillingBase

LEMMA HookFields ==
    ASSUME BillingTypeOK, NEW h \in Hooks, hook[h] # Idle
    PROVE  hook[h] \in [at: {"plan", "grant"}, event: Event] /\ hook[h].event \in Event
           /\ hook[h].event \in events
BY DEF BillingTypeOK, Hook

LEMMA BillingBaseStep == BillingBase /\ [BillingNext]_billingVars => BillingBase'
<1> SUFFICES ASSUME BillingBase, [BillingNext]_billingVars PROVE BillingBase'
  OBVIOUS
<1> USE BillingAssumption
<1>1. CASE AtDodo
  <2>1. ASSUME NEW s \in Subs, NEW p \in Plans, NEW period \in 0..(emitted + 1),
               NEW status \in {"active", "ended"}, NEW types,
               Told(s, status, p, period, types)
        PROVE  BillingBase'
    <3>1. emitted' \in 0..MaxEvents /\ emitted' = emitted + 1 /\ period \in 0..MaxEvents
          /\ emitted \in Nat
      BY <2>1 DEF Told, BillingBase, BillingTypeOK
    <3>2. subscription' \in [Subs -> [status: {"none", "active", "ended"}, plan: Plans,
                                  period: 0..MaxEvents, since: 0..MaxEvents]]
      BY <2>1, <3>1 DEF Told, BillingBase, BillingTypeOK
    <3>3. events' \subseteq Event /\ events \subseteq events'
      BY <2>1 DEF Told, BillingBase, BillingTypeOK
    <3>4. BillingTypeOK'
      BY <2>1, <3>1, <3>2, <3>3
         DEF Told, BillingBase, BillingTypeOK, planState, grantState, keywordState
    <3>5. Dated'
      <4>1. \A t \in Subs : subscription'[t].period <= emitted' /\ subscription'[t].since <= emitted'
        BY <2>1, <3>1, <3>2 DEF Told, BillingBase, BillingTypeOK, Dated
      <4>2. \A e \in events' : e.seq <= emitted'
        BY <2>1, <3>1 DEF Told, BillingBase, BillingTypeOK, Dated, Event
      <4> QED BY <4>1, <4>2 DEF Dated
    <3>6. HookKinds'
      BY <2>1 DEF Told, BillingBase, HookKinds, Open_B
    <3> QED BY <3>4, <3>5, <3>6 DEF BillingBase
  <2>2. CASE BuyTopUp
    <3>1. emitted' \in 0..MaxEvents /\ emitted' = emitted + 1 /\ emitted \in Nat
      BY <2>2 DEF BuyTopUp, BillingBase, BillingTypeOK
    <3>2. [seq |-> emitted + 1, type |-> "payment", sub |-> TopUp, plan |-> "free", period |-> 0]
            \in Event
      BY <3>1 DEF Event, Plans
    <3>3. BillingTypeOK'
      BY <2>2, <3>1, <3>2
         DEF BuyTopUp, BillingBase, BillingTypeOK, planState, grantState, keywordState
    <3>4. Dated' /\ HookKinds'
      <4>1. \A t \in Subs : subscription[t].period <= emitted' /\ subscription[t].since <= emitted'
        BY <3>1 DEF BillingBase, BillingTypeOK, Dated
      <4>2. \A e \in events' : e.seq <= emitted'
        BY <2>2, <3>1 DEF BuyTopUp, BillingBase, BillingTypeOK, Dated, Event
      <4>3. HookKinds'
        BY <2>2 DEF BuyTopUp, BillingBase, HookKinds, Open_B
      <4> QED BY <2>2, <4>1, <4>2, <4>3 DEF BuyTopUp, Dated
    <3> QED BY <3>3, <3>4 DEF BillingBase
  <2> QED BY <1>1, <2>1, <2>2, DodoStep
<1>2. ASSUME NEW h \in Hooks, NEW e \in events, Receive(h, e) PROVE BillingBase'
  <2>1. e \in Event
    BY DEF BillingBase, BillingTypeOK
  <2> QED
    BY <1>2, <2>1 DEF Receive, BillingBase, BillingTypeOK, Dated, HookKinds, Open_B, Hook, Idle,
       dodo, planState, grantState, keywordState
<1>3. ASSUME NEW h \in Hooks, SetPlan(h) PROVE BillingBase'
  <2>1. PICK e \in Event : e = hook[h].event /\ e \in events
    BY <1>3, HookFields DEF SetPlan, BillingBase
  <2>2. hook[h] = [at |-> "plan", event |-> e]
    BY <1>3, <2>1, HookFields DEF SetPlan, BillingBase
  <2>3. plan' = e.plan /\ limit' = KeywordLimit[e.plan] /\ e.plan \in Plans /\ limit' \in Nat
    BY <1>3, <2>1 DEF SetPlan, StorePlan, Event
  <2>4. newest' \in 0..MaxEvents /\ overtaken' \in BOOLEAN /\ widest' \in Nat
    BY <1>3, <2>1, <2>3 DEF SetPlan, BillingBase, BillingTypeOK, Event
  <2>5. \/ hook' = [hook EXCEPT ![h] = Idle] /\ answered' \subseteq answered \cup {e}
        \/ hook' = [hook EXCEPT ![h].at = "grant"] /\ answered' = answered /\ e.type # "ended"
    BY <1>3, <2>1 DEF SetPlan, Answer
  <2>6. [hook EXCEPT ![h].at = "grant"] = [hook EXCEPT ![h] = [at |-> "grant", event |-> e]]
    <3>1. [hook[h] EXCEPT !.at = "grant"] = [at |-> "grant", event |-> e]
      BY <2>2
    <3> QED BY <3>1
  <2>7. UNCHANGED <<dodo, grantState, keywordState, crossed>>
    BY <1>3 DEF SetPlan
  <2>8. hook' \in [Hooks -> Hook] /\ answered' \subseteq events
        /\ (\A g \in Hooks : hook'[g] # Idle => hook'[g].event \in events) /\ HookKinds'
    BY <2>1, <2>5, <2>6 DEF BillingBase, BillingTypeOK, HookKinds, Open_B, Hook, Idle
  <2>9. BillingTypeOK' /\ Dated'
    BY <2>3, <2>4, <2>7, <2>8 DEF BillingBase, BillingTypeOK, Dated, dodo, grantState, keywordState
  <2> QED BY <2>8, <2>9 DEF BillingBase
<1>4. ASSUME NEW h \in Hooks, Grant(h) PROVE BillingBase'
  <2>1. hook[h].event \in events
    BY <1>4, HookFields DEF Grant, BillingBase
  <2>2. hook' = [hook EXCEPT ![h] = Idle] /\ answered' \subseteq answered \cup {hook[h].event}
        /\ UNCHANGED <<dodo, planState, keywordState, crossed>> /\ balance' \in {balance, balance + 1}
    BY <1>4 DEF Grant, Answer
  <2> QED
    BY <2>1, <2>2 DEF BillingBase, BillingTypeOK, Dated, HookKinds, Open_B, Hook, Idle,
       dodo, planState, keywordState
<1>5. ASSUME NEW h \in Hooks, HookFails(h) PROVE BillingBase'
  BY <1>5 DEF HookFails, BillingBase, BillingTypeOK, Dated, HookKinds, Open_B, Hook, Idle,
     dodo, planState, grantState, keywordState
<1>6. ASSUME NEW c \in Creators, Keyword(c) PROVE BillingBase'
  <2>1. keywords' \in Nat /\ creator' \in [Creators -> Creator]
    BY <1>6 DEF Keyword, ReadLimit, CountKeywords, ActivateKeyword, BillingBase, BillingTypeOK,
       Creator, keywordState
  <2>2. UNCHANGED <<dodo, answered, hook, planState, grantState, crossed>>
    BY <1>6 DEF Keyword, ReadLimit, CountKeywords, ActivateKeyword
  <2> QED
    BY <2>1, <2>2 DEF BillingBase, BillingTypeOK, Dated, HookKinds, Open_B, dodo, planState, grantState
<1>7. CASE DropKeyword
  BY <1>7 DEF DropKeyword, BillingBase, BillingTypeOK, Dated, HookKinds, Open_B, dodo, planState, grantState
<1>8. CASE UNCHANGED billingVars
  BY <1>8 DEF billingVars, BillingBase, BillingTypeOK, Dated, HookKinds, Open_B, dodo, planState, grantState,
     keywordState
<1> QED
  BY <1>1, <1>2, <1>3, <1>4, <1>5, <1>6, <1>7, <1>8 DEF BillingNext, Webhook

\* Plan, limit, ledger, keywords and webhook calls keep their types, and the limit
\* stored is that of the plan stored (SetWorkspacePlan writes both).
THEOREM BillingTypes == BillingSpec => []BillingTypeOK
<1>1. BillingBase => BillingTypeOK
  BY DEF BillingBase
<1> QED BY <1>1, BillingInitBase, BillingBaseStep, PTL DEF BillingSpec

----------------------------------------------------------------------------
(* Keywords.                                                               *)

Inserting == {c \in Creators : creator[c].at = "insert"}

\* A request let through by the check has not inserted yet; together with those
\* that have, they pass the largest limit by less than the number of requests.
KeywordInv ==
    /\ limit <= widest
    /\ \A c \in Creators : creator[c].at = "count" => creator[c].allowed <= widest
    /\ keywords + Cardinality(Inserting) <= widest + Cardinality(Creators) - 1

LEMMA CreatorsCount ==
    IsFiniteSet(Creators) /\ Cardinality(Creators) \in Nat /\ Cardinality(Creators) > 0
    /\ IsFiniteSet(Inserting) /\ Cardinality(Inserting) \in Nat
    /\ Cardinality(Inserting) <= Cardinality(Creators)
<1>1. IsFiniteSet(Creators) /\ Cardinality(Creators) \in Nat
  BY BillingAssumption, FS_CardinalityType
<1>2. Cardinality(Creators) # 0
  BY <1>1, BillingAssumption, FS_EmptySet
<1>3. Inserting \subseteq Creators
  BY DEF Inserting
<1> QED BY <1>1, <1>2, <1>3, FS_Subset, FS_CardinalityType

LEMMA KeywordInitInv == BillingInit => KeywordInv
<1> SUFFICES ASSUME BillingInit PROVE KeywordInv
  OBVIOUS
<1>1. Inserting = {}
  BY DEF BillingInit, Inserting, NoRequest
<1>2. Cardinality(Inserting) = 0
  BY <1>1, FS_EmptySet
<1>3. KeywordLimit["free"] \in Nat
  BY BillingAssumption DEF Plans
<1> QED BY <1>2, <1>3, CreatorsCount DEF BillingInit, KeywordInv, NoRequest

LEMMA KeywordKept ==
    ASSUME BillingBase, BillingBase', KeywordInv, limit' <= widest', widest <= widest',
           creator' = creator, keywords' <= keywords
    PROVE  KeywordInv'
<1>1. Inserting' = Inserting
  BY DEF Inserting
<1>2. keywords \in Nat /\ keywords' \in Nat /\ widest \in Nat /\ widest' \in Nat
  BY DEF BillingBase, BillingTypeOK
<1>3. \A c \in Creators : creator[c].at = "count" => creator[c].allowed \in Nat
  BY DEF BillingBase, BillingTypeOK, Creator, NoRequest
<1> QED BY <1>1, <1>2, <1>3, CreatorsCount DEF KeywordInv

LEMMA KeywordInvStep ==
    ASSUME BillingBase, BillingBase', KeywordInv, [BillingNext]_billingVars PROVE KeywordInv'
<1>a. keywords \in Nat /\ keywords' \in Nat /\ widest \in Nat /\ limit \in Nat
      /\ limit' \in Nat /\ widest' \in Nat
  BY BillingAssumption DEF BillingBase, BillingTypeOK
<1>1. ASSUME NEW c \in Creators, ReadLimit(c) PROVE KeywordInv'
  <2>1. creator' = [creator EXCEPT ![c] = [at |-> "count", allowed |-> limit]]
        /\ keywords' = keywords /\ widest' = widest /\ limit' = limit /\ creator[c] = NoRequest
    BY <1>1 DEF ReadLimit, planState
  <2>2. Inserting' = Inserting
    BY <2>1 DEF Inserting, BillingBase, BillingTypeOK, NoRequest
  <2>3. \A d \in Creators : creator'[d].at = "count" => creator'[d].allowed <= widest
    BY <2>1 DEF KeywordInv, BillingBase, BillingTypeOK
  <2> QED BY <2>1, <2>2, <2>3 DEF KeywordInv
<1>2. ASSUME NEW c \in Creators, CountKeywords(c) PROVE KeywordInv'
  <2>1. keywords' = keywords /\ widest' = widest /\ limit' = limit
    BY <1>2 DEF CountKeywords, planState
  <2>2. \A d \in Creators : creator'[d].at = "count" => creator'[d].allowed <= widest
    BY <1>2 DEF CountKeywords, KeywordInv, BillingBase, BillingTypeOK, NoRequest
  <2>3. CASE BelowLimit(c)
    <3>1. creator[c].allowed <= widest /\ creator[c].allowed \in Nat
      BY <1>2 DEF CountKeywords, KeywordInv, BillingBase, BillingTypeOK, Creator, NoRequest
    <3>2. keywords + 1 <= widest
      BY <2>3, <3>1, <1>a DEF BelowLimit
    <3>3. Cardinality(Inserting)' <= Cardinality(Creators) /\ Cardinality(Inserting)' \in Nat
      <4>1. Inserting' \subseteq Creators
        BY DEF Inserting
      <4> QED BY <4>1, CreatorsCount, FS_Subset, FS_CardinalityType
    <3> QED BY <2>1, <2>2, <3>2, <3>3, <1>a, CreatorsCount DEF KeywordInv
  <2>4. CASE ~BelowLimit(c)
    <3>1. Inserting' = Inserting
      BY <1>2, <2>4 DEF CountKeywords, Inserting, BillingBase, BillingTypeOK, NoRequest
    <3> QED BY <2>1, <2>2, <3>1 DEF KeywordInv
  <2> QED BY <2>3, <2>4
<1>3. ASSUME NEW c \in Creators, ActivateKeyword(c) PROVE KeywordInv'
  <2>1. keywords' <= keywords + 1 /\ widest' = widest /\ limit' = limit
    BY <1>3, <1>a DEF ActivateKeyword, planState
  <2>2. c \in Inserting
    BY <1>3 DEF ActivateKeyword, Inserting
  <2>3. Inserting' = Inserting \ {c}
    BY <1>3 DEF ActivateKeyword, Inserting, BillingBase, BillingTypeOK, NoRequest
  <2>4. Cardinality(Inserting') = Cardinality(Inserting) - 1
    BY <2>2, <2>3, CreatorsCount, FS_RemoveElement
  <2>5. \A d \in Creators : creator'[d].at = "count" => creator'[d].allowed <= widest
    BY <1>3 DEF ActivateKeyword, KeywordInv, BillingBase, BillingTypeOK, NoRequest
  <2> QED BY <2>1, <2>4, <2>5, <1>a, CreatorsCount DEF KeywordInv
<1>4. CASE DropKeyword
  BY <1>4, <1>a, KeywordKept DEF DropKeyword, planState, KeywordInv
<1>5. ASSUME NEW h \in Hooks, SetPlan(h) PROVE KeywordInv'
  <2>1. widest' = (IF limit' > widest THEN limit' ELSE widest)
        /\ creator' = creator /\ keywords' = keywords
    BY <1>5 DEF SetPlan, keywordState
  <2> QED BY <2>1, <1>a, KeywordKept
<1>6. ASSUME UNCHANGED <<planState, keywordState>> PROVE KeywordInv'
  BY <1>6, <1>a, KeywordKept DEF planState, keywordState, KeywordInv
<1> QED
  BY <1>1, <1>2, <1>3, <1>4, <1>5, <1>6
     DEF BillingNext, AtDodo, Subscribe, Renew, ChangePlan, End, Emit, BuyTopUp, Webhook, Receive,
         Grant, HookFails, Keyword, billingVars

\* Whatever the number of requests and whatever plans change between the check and
\* the insert, active keywords pass the largest limit there was by less than the
\* number of requests at one time (CanAddKeyword).
THEOREM KeywordOverrun == BillingSpec => []KeywordOverrunBounded
<1>1. BillingInit => BillingBase /\ KeywordInv
  BY BillingInitBase, KeywordInitInv
<1>2. BillingBase /\ KeywordInv /\ [BillingNext]_billingVars => (BillingBase /\ KeywordInv)'
  BY BillingBaseStep, KeywordInvStep
<1>3. BillingBase /\ KeywordInv => KeywordOverrunBounded
  BY CreatorsCount DEF BillingBase, BillingTypeOK, KeywordInv, KeywordOverrunBounded
<1> QED BY <1>1, <1>2, <1>3, PTL DEF BillingSpec

----------------------------------------------------------------------------
(* Grants.                                                                 *)

\* What is granted was paid for, once, and Dodo has no 200 for an event that is
\* still to grant.
GrantInv ==
    /\ IsFiniteSet(ToGrant)
    /\ credited \subseteq ToGrant
    /\ balance = Cardinality(credited)
    /\ \A e \in answered : e.type # "ended" => Ref(e) \in credited

LEMMA GrantInitInv == BillingInit => GrantInv
<1> SUFFICES ASSUME BillingInit PROVE GrantInv
  OBVIOUS
<1>1. ToGrant = {}
  BY DEF BillingInit, ToGrant
<1> QED BY <1>1, FS_EmptySet DEF BillingInit, GrantInv

LEMMA GrantKept ==
    ASSUME GrantInv, IsFiniteSet(ToGrant'), ToGrant \subseteq ToGrant',
           answered' = answered, credited' = credited, balance' = balance
    PROVE  GrantInv'
BY DEF GrantInv, Ref, Due

\* One thing that happens at Dodo gives the customer at most one thing more.
LEMMA ToGrantGrows ==
    ASSUME BillingBase, AtDodo, IsFiniteSet(ToGrant)
    PROVE  ToGrant \subseteq ToGrant' /\ IsFiniteSet(ToGrant')
<1>1. ASSUME NEW d, events \subseteq events',
             \A e \in events' \ events : e.type # "ended" => Due(e) = d
      PROVE  ToGrant \subseteq ToGrant' /\ IsFiniteSet(ToGrant')
  <2>1. \A e : Due(e)' = Due(e)
    BY DEF Due
  <2>2. ToGrant \subseteq ToGrant' /\ ToGrant' \subseteq ToGrant \cup {d}
    BY <1>1, <2>1 DEF ToGrant
  <2>3. IsFiniteSet(ToGrant \cup {d})
    BY FS_AddElement
  <2> QED BY <2>2, <2>3, FS_Subset
<1>2. CASE BuyTopUp
  <2>1. events \subseteq events'
        /\ \A e \in events' \ events : e.type # "ended" => Due(e) = <<TopUp, emitted + 1>>
    BY <1>2 DEF BuyTopUp, Due
  <2> QED BY <2>1, <1>1
<1>3. ASSUME NEW s \in Subs, NEW p \in Plans, NEW period \in 0..(emitted + 1), NEW status,
             NEW types \in SUBSET {"active", "renewed", "ended"}, Told(s, status, p, period, types)
      PROVE  ToGrant \subseteq ToGrant' /\ IsFiniteSet(ToGrant')
  <2>1. events \subseteq events'
        /\ \A e \in events' \ events : e.type # "ended" => Due(e) = <<s, period, p>>
    BY <1>3 DEF Told, Due
  <2> QED BY <2>1, <1>1
<1> QED BY <1>2, <1>3, DodoStep

LEMMA GrantInvStep ==
    ASSUME BillingBase, GrantInv, [BillingNext]_billingVars PROVE GrantInv'
<1>a. IsFiniteSet(ToGrant)
  BY DEF GrantInv
<1>1. CASE AtDodo
  <2>1. answered' = answered /\ credited' = credited /\ balance' = balance
    BY <1>1 DEF AtDodo, Subscribe, Renew, ChangePlan, End, Emit, BuyTopUp, grantState
  <2> QED BY <1>1, <2>1, <1>a, ToGrantGrows, GrantKept
<1>2. ASSUME events' = events PROVE ToGrant' = ToGrant
  BY <1>2 DEF ToGrant, Due
<1>3. ASSUME NEW h \in Hooks, SetPlan(h) PROVE GrantInv'
  <2>1. ToGrant' = ToGrant /\ credited' = credited /\ balance' = balance
    BY <1>2, <1>3 DEF SetPlan, dodo, grantState
  <2>2. answered' = answered
        \/ (hook[h].event.type = "ended" /\ answered' \subseteq answered \cup {hook[h].event})
    BY <1>3 DEF SetPlan, Answer
  <2> QED BY <2>1, <2>2 DEF GrantInv, Ref, Due
<1>4. ASSUME NEW h \in Hooks, Grant(h) PROVE GrantInv'
  <2>1. PICK e \in events : e = hook[h].event /\ e.type # "ended"
    BY <1>4, HookFields DEF Grant, BillingBase, HookKinds, Open_B
  <2>2. ToGrant' = ToGrant
    BY <1>2, <1>4 DEF Grant, dodo
  <2>3. credited' = credited \cup {Ref(e)}
        /\ balance' = (IF Ref(e) \in credited THEN balance ELSE balance + 1)
        /\ answered' \subseteq answered \cup {e}
    BY <1>4, <2>1 DEF Grant, Answer
  <2>4. credited' \subseteq ToGrant'
    BY <2>1, <2>2, <2>3 DEF GrantInv, ToGrant, Ref
  <2>5. IsFiniteSet(credited)
    BY FS_Subset DEF GrantInv
  <2>6. balance' = Cardinality(credited')
    <3> DEFINE r == Ref(e)
    <3>1. Cardinality(credited \cup {r}) =
            IF r \in credited THEN Cardinality(credited) ELSE Cardinality(credited) + 1
      <4> HIDE DEF r
      <4> QED BY <2>5, FS_AddElement
    <3> QED BY <3>1, <2>3 DEF GrantInv
  <2>7. \A f \in answered' : f.type # "ended" => Ref(f)' \in credited'
    <3>1. \A f : Ref(f)' = Ref(f)
      BY DEF Ref, Due
    <3> QED BY <3>1, <2>3 DEF GrantInv
  <2> QED BY <1>a, <2>2, <2>4, <2>6, <2>7 DEF GrantInv
<1>5. ASSUME events' = events, answered' = answered, UNCHANGED grantState PROVE GrantInv'
  BY <1>2, <1>5, <1>a, GrantKept DEF grantState
<1> QED
  BY <1>1, <1>3, <1>4, <1>5
     DEF BillingNext, Webhook, Receive, HookFails, Keyword, ReadLimit, CountKeywords,
         ActivateKeyword, DropKeyword, billingVars, dodo

LEMMA AllowanceFollows == GrantInv => AllowanceOncePerPeriod
<1> SUFFICES ASSUME GrantInv PROVE AllowanceOncePerPeriod
  OBVIOUS
<1>1. balance <= Cardinality(ToGrant)
  BY FS_Subset DEF GrantInv
<1>2. ASSUME Settled PROVE balance = Cardinality(ToGrant)
  <2>1. ToGrant \subseteq credited
    BY <1>2 DEF Settled, GrantInv, ToGrant, Ref
  <2>2. ToGrant = credited
    BY <2>1 DEF GrantInv
  <2> QED BY <2>2 DEF GrantInv
<1> QED BY <1>1, <1>2 DEF AllowanceOncePerPeriod

\* However often Dodo sends its events and however its calls interleave and fail,
\* every allowance and top-up paid for is granted at most once, and exactly once by
\* the time Dodo has its answers (grantAllowance and GrantCredits).
THEOREM AllowanceOnce == BillingSpec => []AllowanceOncePerPeriod
<1>1. BillingInit => BillingBase /\ GrantInv
  BY BillingInitBase, GrantInitInv
<1>2. BillingBase /\ GrantInv /\ [BillingNext]_billingVars => (BillingBase /\ GrantInv)'
  BY BillingBaseStep, GrantInvStep
<1> QED BY <1>1, <1>2, AllowanceFollows, PTL DEF BillingSpec

----------------------------------------------------------------------------
(* The plan.                                                               *)

News == {e \in events : e.type # "payment"}

\* Events of one moment tell the same plan.
OnePlanAMoment == \A e, f \in events : e.seq = f.seq => e.plan = f.plan

\* What was stored last in Dodo's order, and that nothing answered is newer.
PlanIsNewest ==
    /\ ~overtaken => \/ newest = 0 /\ plan = "free"
                     \/ \E e \in News : e.seq = newest /\ e.plan = plan
    /\ \A e \in News : e \in answered => e.seq <= newest
    /\ \A h \in Hooks : hook[h] # Idle /\ hook[h].at = "grant" /\ hook[h].event \in News
                          => hook[h].event.seq <= newest

\* e, Dodo's last news, tells the plan of the subscription begun last.
TellsAll(e) ==
    /\ \A f \in News : f.seq <= e.seq
    /\ \/ e.plan = "free" /\ \A s \in Subs : ~Active(s)
       \/ \E s \in Subs :
             /\ Active(s) /\ subscription[s].plan = e.plan
             /\ \A t \in Subs \ {s} : Active(t) => subscription[t].since < subscription[s].since

LastNewsTells ==
    ~crossed => \/ News = {} /\ \A s \in Subs : ~Active(s)
                \/ \E e \in News : TellsAll(e)

PlanInv == OnePlanAMoment /\ PlanIsNewest /\ LastNewsTells

LEMMA PlanInitInv == BillingInit => PlanInv
BY DEF BillingInit, PlanInv, OnePlanAMoment, PlanIsNewest, LastNewsTells, News, Active, NoSub

LEMMA PlanToldStep ==
    ASSUME BillingBase, BillingBase', PlanInv, NEW s \in Subs, NEW p \in Plans,
           NEW period \in 0..(emitted + 1),
           NEW status \in {"active", "ended"}, NEW types \in SUBSET {"active", "renewed", "ended"},
           Told(s, status, p, period, types),
           \/ status = "active" /\ (Active(s) \/ subscription[s] = NoSub)
           \/ status = "ended" /\ Active(s) /\ p = "free"
    PROVE  PlanInv'
<1>1. emitted \in Nat /\ emitted' = emitted + 1
      /\ \A e \in events : e.seq \in Nat /\ e.seq <= emitted
  BY BillingAssumption DEF Told, BillingBase, BillingTypeOK, Dated, Event
<1>2. \A e \in events' : e \in events \/ (e.seq = emitted + 1 /\ e.plan = p /\ e.type # "payment")
  BY DEF Told
<1>3. OnePlanAMoment'
  BY <1>1, <1>2 DEF PlanInv, OnePlanAMoment
<1>4. News \subseteq News' /\ \A e \in News' : e \in News \/ e.seq = emitted + 1
  BY <1>2 DEF News, Told
<1>5. PlanIsNewest'
  <2>1. UNCHANGED <<answered, hook, plan, newest, overtaken>>
    BY DEF Told, planState
  <2>2. answered \subseteq events /\ \A h \in Hooks : hook[h] # Idle => hook[h].event \in events
    BY DEF BillingBase, BillingTypeOK
  <2>3. \A e \in News' : e \in events => e \in News
    BY DEF News
  <2> QED BY <2>1, <2>2, <2>3, <1>4 DEF PlanInv, PlanIsNewest
<1>6. LastNewsTells'
  <2> SUFFICES ASSUME ~crossed' PROVE \E e \in News' : TellsAll(e)'
    BY DEF LastNewsTells
  <2>1. ~crossed /\ (Active(s) => \A t \in Subs \ {s} : ~Active(t))
    BY DEF Told
  <2>2. PICK e \in News' : e.seq = emitted + 1 /\ e.plan = p
    BY DEF Told, News
  <2>3. \A f \in News' : f.seq <= e.seq
    BY <1>1, <1>4, <2>2 DEF News
  <2>4. subscription'[s].status = status /\ subscription'[s].plan = p
        /\ \A t \in Subs \ {s} : subscription'[t] = subscription[t]
    BY DEF Told, BillingBase, BillingTypeOK
  <2>5. CASE Active(s) /\ status = "active"
    BY <2>1, <2>2, <2>3, <2>4, <2>5 DEF TellsAll, Active
  <2>6. CASE Active(s) /\ status = "ended" /\ p = "free"
    <3>1. \A t \in Subs : ~Active(t)'
      BY <2>1, <2>4, <2>6 DEF Active
    <3> QED BY <3>1, <2>2, <2>3, <2>6 DEF TellsAll
  <2>7. CASE ~Active(s) /\ status = "active"
    <3>1. subscription'[s].since = emitted + 1
      BY <2>7 DEF Told, BillingBase, BillingTypeOK
    <3>2. \A t \in Subs \ {s} : subscription'[t].since < emitted + 1
      BY <2>4, <1>1 DEF BillingBase, BillingTypeOK, Dated
    <3> QED BY <3>1, <3>2, <2>2, <2>3, <2>4, <2>7 DEF TellsAll, Active
  <2> QED BY <2>5, <2>6, <2>7
<1> QED BY <1>3, <1>5, <1>6 DEF PlanInv

\* A payment is no news.
LEMMA PlanPaymentStep ==
    ASSUME BillingBase, PlanInv, BuyTopUp PROVE PlanInv'
<1>1. emitted \in Nat /\ \A e \in events : e.seq \in Nat /\ e.seq <= emitted
  BY BillingAssumption DEF BillingBase, BillingTypeOK, Dated, Event
<1>2. News' = News
  BY DEF News, BuyTopUp
<1>3. OnePlanAMoment'
  BY <1>1 DEF BuyTopUp, PlanInv, OnePlanAMoment
<1>4. PlanIsNewest'
  BY <1>2 DEF BuyTopUp, PlanInv, PlanIsNewest, planState
<1>5. LastNewsTells'
  BY <1>2 DEF BuyTopUp, PlanInv, LastNewsTells, TellsAll, Active
<1> QED BY <1>3, <1>4, <1>5 DEF PlanInv

LEMMA PlanKept ==
    ASSUME PlanInv, PlanIsNewest', UNCHANGED <<dodo, crossed>> PROVE PlanInv'
BY DEF PlanInv, OnePlanAMoment, LastNewsTells, TellsAll, News, Active, dodo

LEMMA PlanWebhookStep ==
    ASSUME BillingBase, PlanInv, NEW h \in Hooks, Webhook(h) PROVE PlanInv'
<1>1. ASSUME NEW e \in events, Receive(h, e) PROVE PlanInv'
  <2>1. News' = News /\ UNCHANGED <<dodo, crossed>>
    BY <1>1 DEF Receive, dodo, News
  <2>2. PlanIsNewest'
    BY <1>1, <2>1
       DEF Receive, PlanInv, PlanIsNewest, planState, BillingBase, BillingTypeOK, News
  <2> QED BY <2>1, <2>2, PlanKept
<1>2. CASE SetPlan(h)
  <2>1. PICK e \in News : e = hook[h].event
    BY <1>2, HookFields DEF SetPlan, BillingBase, HookKinds, Open_B, News
  <2>2. e.seq \in Nat /\ newest \in Nat
    BY BillingAssumption DEF BillingBase, BillingTypeOK, Event, News
  <2>3. plan' = e.plan /\ newest' = (IF e.seq > newest THEN e.seq ELSE newest)
        /\ overtaken' = (overtaken \/ e.seq < newest)
        /\ answered' \subseteq answered \cup {e}
        /\ UNCHANGED <<dodo, crossed>>
    BY <1>2, <2>1 DEF SetPlan, StorePlan, Answer
  <2>4. News' = News
    BY <2>3 DEF News, dodo
  <2>5. ~overtaken' => e.seq = newest' /\ e.plan = plan'
    <3>1. ~overtaken' => ~(e.seq < newest)
      BY <2>3, Zenon
    <3>2. ~(e.seq < newest) => e.seq = newest' /\ e.plan = plan'
      BY <2>2, <2>3
    <3> QED BY <3>1, <3>2
  <2>6. e.seq <= newest' /\ newest <= newest' /\ newest' \in Nat
    BY <2>2, <2>3
  <2>7. \A f \in News : f.seq \in Nat
    BY BillingAssumption DEF BillingBase, BillingTypeOK, Event, News
  <2>8. \A f \in News : f \in answered' => f.seq <= newest'
    BY <2>2, <2>3, <2>6, <2>7 DEF PlanInv, PlanIsNewest
  <2>9. \A g \in Hooks : hook'[g] # Idle =>
            hook'[g].event = hook[g].event /\ hook[g] # Idle
            /\ (hook'[g].at = hook[g].at \/ g = h)
    <3>1. hook[h] \in [at: {"plan", "grant"}, event: Event]
      BY <1>2, HookFields DEF SetPlan, BillingBase
    <3>2. hook' = [hook EXCEPT ![h] = Idle] \/ hook' = [hook EXCEPT ![h].at = "grant"]
      BY <1>2 DEF SetPlan, Answer
    <3>3. hook \in [Hooks -> Hook] /\ hook[h] # Idle
      BY <1>2 DEF SetPlan, BillingBase, BillingTypeOK
    <3> QED BY <3>1, <3>2, <3>3
  <2>10. \A g \in Hooks : hook'[g] # Idle /\ hook'[g].at = "grant" /\ hook'[g].event \in News
                          => hook'[g].event.seq <= newest'
    <3> TAKE g \in Hooks
    <3> HAVE hook'[g] # Idle /\ hook'[g].at = "grant" /\ hook'[g].event \in News
    <3>1. CASE g = h
      BY <3>1, <2>1, <2>6, <2>9
    <3>2. CASE g # h
      <4>1. hook[g].event.seq <= newest /\ hook[g].event.seq \in Nat
        BY <3>2, <2>7, <2>9 DEF PlanInv, PlanIsNewest
      <4> QED BY <4>1, <2>2, <2>6, <2>9
    <3> QED BY <3>1, <3>2
  <2>11. PlanIsNewest'
    BY <2>4, <2>5, <2>8, <2>10 DEF PlanIsNewest
  <2> QED BY <2>3, <2>11, PlanKept
<1>3. CASE Grant(h)
  <2>1. hook' = [hook EXCEPT ![h] = Idle] /\ answered' \subseteq answered \cup {hook[h].event}
        /\ UNCHANGED <<dodo, planState, crossed>> /\ hook[h] # Idle /\ hook[h].at = "grant"
    BY <1>3 DEF Grant, Answer
  <2>2. News' = News
    BY <2>1 DEF News, dodo
  <2>3. PlanIsNewest'
    BY <2>1, <2>2 DEF PlanInv, PlanIsNewest, planState, BillingBase, BillingTypeOK
  <2> QED BY <2>1, <2>3, PlanKept
<1>4. CASE HookFails(h)
  <2>1. hook' = [hook EXCEPT ![h] = Idle] /\ UNCHANGED <<dodo, answered, planState, crossed>>
    BY <1>4 DEF HookFails
  <2>2. News' = News
    BY <2>1 DEF News, dodo
  <2>3. PlanIsNewest'
    BY <2>1, <2>2 DEF PlanInv, PlanIsNewest, planState, BillingBase, BillingTypeOK
  <2> QED BY <2>1, <2>3, PlanKept
<1> QED BY <1>1, <1>2, <1>3, <1>4 DEF Webhook

LEMMA PlanInvStep ==
    ASSUME BillingBase, BillingBase', PlanInv, [BillingNext]_billingVars PROVE PlanInv'
<1>1. CASE AtDodo
  <2>1. {"active", "renewed"} \in SUBSET {"active", "renewed", "ended"}
        /\ {"ended"} \in SUBSET {"active", "renewed", "ended"}
    OBVIOUS
  <2> QED BY <1>1, <2>1, DodoStep, PlanToldStep, PlanPaymentStep
<1>2. ASSUME UNCHANGED <<dodo, answered, hook, planState, crossed>> PROVE PlanInv'
  <2>1. PlanIsNewest'
    BY <1>2 DEF PlanInv, PlanIsNewest, planState, News, dodo
  <2> QED BY <1>2, <2>1, PlanKept
<1>3. ASSUME NEW c \in Creators, Keyword(c) PROVE PlanInv'
  BY <1>2, <1>3 DEF Keyword, ReadLimit, CountKeywords, ActivateKeyword
<1>4. CASE DropKeyword \/ UNCHANGED billingVars
  BY <1>2, <1>4 DEF DropKeyword, billingVars
<1> QED BY <1>1, <1>3, <1>4, PlanWebhookStep DEF BillingNext

\* The CHOOSE of PaidPlan, when one subscription began last.
LEMMA PaidPlanIs ==
    ASSUME BillingTypeOK, NEW s \in Subs, Active(s),
           \A t \in Subs \ {s} : Active(t) => subscription[t].since < subscription[s].since
    PROVE  PaidPlan = subscription[s].plan
<1> DEFINE Last(u) == Active(u) /\ \A t \in Subs : Active(t)
                        => subscription[t].since <= subscription[u].since
<1>1. \A t \in Subs : subscription[t].since \in Nat
  BY BillingAssumption DEF BillingTypeOK
<1>2. Last(s)
  BY <1>1
<1>3. \A u \in Subs : Last(u) => u = s
  BY <1>1
<1>4. (CHOOSE u \in Subs : Last(u)) = s
  <2> HIDE DEF Last
  <2> QED BY <1>2, <1>3
<1> QED BY <1>4 DEF PaidPlan

LEMMA PlanFollows == BillingBase /\ PlanInv => PlanMatchesDodo
<1> SUFFICES ASSUME BillingBase, PlanInv, Settled, ~overtaken, ~crossed
             PROVE  plan = PaidPlan
  BY DEF PlanMatchesDodo, BillingBase, BillingTypeOK
<1>1. \A e \in News : e \in events /\ e \in answered /\ e.seq <= newest /\ e.seq \in Nat /\ e.seq > 0
  BY BillingAssumption DEF PlanInv, PlanIsNewest, Settled, News, BillingBase, BillingTypeOK, Event
<1>2. newest \in Nat
  BY BillingAssumption DEF BillingBase, BillingTypeOK
<1>3. CASE News = {} /\ \A s \in Subs : ~Active(s)
  BY <1>3 DEF PlanInv, PlanIsNewest, PaidPlan
<1>4. ASSUME NEW e \in News, TellsAll(e) PROVE plan = PaidPlan
  <2>1. PICK f \in News : f.seq = newest /\ f.plan = plan
    BY <1>1, <1>2 DEF PlanInv, PlanIsNewest
  <2>2. f.seq = e.seq
    BY <1>1, <1>2, <1>4, <2>1 DEF TellsAll
  <2>3. plan = e.plan
    BY <1>1, <2>1, <2>2 DEF PlanInv, OnePlanAMoment
  <2>4. CASE e.plan = "free" /\ \A s \in Subs : ~Active(s)
    BY <2>3, <2>4 DEF PaidPlan
  <2>5. CASE \E s \in Subs :
             /\ Active(s) /\ subscription[s].plan = e.plan
             /\ \A t \in Subs \ {s} : Active(t) => subscription[t].since < subscription[s].since
    BY <2>3, <2>5, PaidPlanIs DEF BillingBase
  <2> QED BY <1>4, <2>4, <2>5 DEF TellsAll
<1> QED BY <1>3, <1>4 DEF PlanInv, LastNewsTells

\* Once Dodo has its answers the workspace has the plan it pays for and its limit,
\* whatever was lost and sent again, unless an event was applied after a later one
\* or concerned one of several active subscriptions (HandleEvent, setPlan).
THEOREM PlanMatches == BillingSpec => []PlanMatchesDodo
<1>1. BillingInit => BillingBase /\ PlanInv
  BY BillingInitBase, PlanInitInv
<1>2. BillingBase /\ PlanInv /\ [BillingNext]_billingVars => (BillingBase /\ PlanInv)'
  BY BillingBaseStep, PlanInvStep
<1> QED BY <1>1, <1>2, PlanFollows, PTL DEF BillingSpec

=================================================================================
