----------------------------- MODULE WorkspaceParts -----------------------------
(***************************************************************************)
(* The parts of a workspace that claim or charge in the database, act on   *)
(* the world and then record it: billing's webhooks and keyword limits,    *)
(* paid searches, digests, automations, confirmed chat actions, mute lists *)
(* and leads.  They share no state but the workspace's credits, of which   *)
(* each models its own use, so a behaviour moves one of them: the one      *)
(* "part" names from the start.                                            *)
(***************************************************************************)
EXTENDS Billing, TregClient, DigestRuns, AutomationRuns, ChatConfirm, MuteStore, LeadRecord

CONSTANT Crowded  \* bound: things that happen at Dodo with webhook calls side by side

ASSUME PartsAssumption == Crowded \in Nat

VARIABLE part

Parts == {"grants", "limits", "treg", "digest", "automation", "chat", "mutes", "leads"}

allVars == <<part, billingVars, tregVars, digestVars, automationVars, chatVars, muteVars, leadVars>>

PartsInit ==
    /\ part \in Parts
    /\ BillingInit
    /\ TregInit
    /\ DigestInit
    /\ AutomationInit
    /\ ChatInit
    /\ MuteInit
    /\ LeadInit
    \* To the other parts, where the actors of this one run is all the same.
    /\ part # "leads" => \A a, b \in Actors : home[a] = home[b] => a = b

\* One webhook call at a time.
Alone(h) == \A other \in Hooks \ {h} : hook[other] = Idle

\* What billing does but for keyword requests: the first things that happen at
\* Dodo are told by calls side by side, those after them one at a time.
GrantsStep ==
    /\ part = "grants"
    /\ \/ AtDodo /\ (emitted < Crowded \/ \A h \in Hooks : hook[h] = Idle)
       \/ \E h \in Hooks : Webhook(h) /\ (emitted <= Crowded \/ Alone(h))

\* Keyword requests, side by side, while subscriptions begin and end.
LimitsStep ==
    /\ part = "limits"
    /\ \/ /\ emitted < Crowded
          /\ \E s \in Subs : End(s) \/ \E p \in PaidPlans : Subscribe(s, p)
       \/ \E h \in Hooks : Webhook(h) /\ Alone(h)
       \/ \E c \in Creators : Keyword(c)
       \/ DropKeyword

\* A process none of the actors is in does nothing.
LeadsStep ==
    /\ part = "leads"
    /\ LeadNext
    /\ \A p \in Processes : Of(p) = {} =>
          \A d \in Dispatchers : d[1] = p => waiting'[d] = waiting[d]

\* One digest at most goes out with its answer lost.
SlotsStep ==
    /\ part = "digest"
    /\ DigestNext
    /\ \A s, t \in Slots : s # t => unanswered'[s] + unanswered'[t] <= 1

\* Mentions are sorted in the last instant, when no run is under way: only the runs
\* still to come may miss them for it.
TriageStep ==
    /\ part = "automation"
    /\ AutomationNext
    /\ instant < LastInstant \/ (\E w \in Runners : runner[w].at # "idle") => sorted' = sorted

PartsNext ==
    /\ UNCHANGED part
    /\ \/ /\ GrantsStep \/ LimitsStep
          /\ UNCHANGED <<tregVars, digestVars, automationVars, chatVars, muteVars, leadVars>>
       \/ /\ part = "treg" /\ TregNext
          /\ UNCHANGED <<billingVars, digestVars, automationVars, chatVars, muteVars, leadVars>>
       \/ /\ SlotsStep
          /\ UNCHANGED <<billingVars, tregVars, automationVars, chatVars, muteVars, leadVars>>
       \/ /\ TriageStep
          /\ UNCHANGED <<billingVars, tregVars, digestVars, chatVars, muteVars, leadVars>>
       \/ /\ part = "chat" /\ ChatNext
          /\ UNCHANGED <<billingVars, tregVars, digestVars, automationVars, muteVars, leadVars>>
       \/ /\ part = "mutes" /\ MuteNext
          /\ UNCHANGED <<billingVars, tregVars, digestVars, automationVars, chatVars, leadVars>>
       \/ /\ LeadsStep
          /\ UNCHANGED <<billingVars, tregVars, digestVars, automationVars, chatVars, muteVars>>

PartsSpec == PartsInit /\ [][PartsNext]_allVars

\* Every part's state stays within the domains its operations are written for.
PartsTypeOK ==
    /\ part \in Parts
    /\ BillingTypeOK
    /\ TregTypeOK
    /\ DigestTypeOK
    /\ AutomationTypeOK
    /\ ChatTypeOK
    /\ MuteTypeOK
    /\ LeadTypeOK

================================================================================
