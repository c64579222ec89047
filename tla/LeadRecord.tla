------------------------------- MODULE LeadRecord -------------------------------
(***************************************************************************)
(* A lead's row and the three that write it side by side: handlers that    *)
(* move its stage (the pipeline board, a posted reply, a conversion), the  *)
(* paid enrichment of the person behind it under a daily cap, and the      *)
(* deliveries that mirror it to a CRM.  Each reads the row, talks to the   *)
(* world and writes back; the row has no version and no lock.  What        *)
(* serializes anything is in memory: reservations per Enricher, a mutex    *)
(* per lead and crmsync.Dispatcher, of which an API process has two.       *)
(* The CRM is HubSpot; Attio, where no create is refused, is the case of a *)
(* lead without e-mail.                                                    *)
(***************************************************************************)
EXTENDS Integers, FiniteSets, Sequences

CONSTANTS
    Leads,
    Actors,       \* what runs at once: an enrichment goroutine and a handler each
    Processes,
    Deployments,  \* ways to place the actors in processes
    DailyCap,     \* ENRICH_DAILY_CAP
    WithEmail,    \* leads whose e-mail address HubSpot knows a contact by
    Wanted,       \* bound: stages a user asks for
    MaxHappenings \* bound: stage changes, enrichments, pushes and failures

ASSUME LeadAssumption ==
    /\ IsFiniteSet(Leads) /\ IsFiniteSet(Actors)
    /\ Deployments \subseteq [Actors -> Processes]
    /\ DailyCap \in Nat \ {0} /\ WithEmail \subseteq Leads
    /\ Wanted \subseteq {"prospect", "qualified", "engaged", "converted", "lost"}
    /\ MaxHappenings \in Nat

VARIABLES
    home,       \* the deployment
    row,        \* leads: stage, metadata.enrichment, metadata.hubspot_contact_id
    handler,    \* the stage change each actor is at
    job,        \* the enrichment each actor is at
    inflight,   \* Enricher.inflight of each process
    waiting,    \* goroutines of Emit that wait for their mutex
    delivery,   \* the one that holds it
    contacts,   \* at HubSpot: the contacts of a lead, by lifecycle stage
    happenings,
    asked,      \* the stage a handler stored last
    moved,      \* leads a handler moved while an enrichment held an older row
    runs,       \* paid pipelines run for a lead
    together,   \* leads that two enrichments had read before either had marked
    unmarked,   \* leads of a paid run whose marker was not written, as far as seen
    slips,      \* reservations on an outdated count, or beside another process
    doubled,    \* leads in two deliveries at once
    orphaned,   \* leads with a contact whose id got lost
    adopted,    \* leads whose contact a 409 named, not written to since
    missed      \* leads of which a change was not told to the CRM

leadState == <<row, handler, job, inflight>>
crmState == <<waiting, delivery, contacts>>
leadHistory == <<asked, moved, runs, together, unmarked, slips, doubled, orphaned, adopted, missed>>
leadVars == <<home, leadState, crmState, happenings, leadHistory>>

Stages == {"prospect", "qualified", "engaged", "converted", "lost"}

\* hubspotLifecycle: "lost" has no counterpart, and HubSpot refuses to go back.
Rank == [prospect |-> 1, qualified |-> 2, engaged |-> 3, converted |-> 4, lost |-> 0]

\* NewRouter makes a dispatcher for the handlers, Bootstrap one for the rest.
Dispatchers == Processes \X {"router", "shared"}

NoAsk == [at |-> "idle"]
NoJob == [at |-> "idle"]
NoDelivery == [at |-> "idle"]

Happens == happenings < MaxHappenings /\ happenings' = happenings + 1

\* Emit: a goroutine of its own.
Tell(d, l) == waiting' = [waiting EXCEPT ![d][l] = @ + 1]

----------------------------------------------------------------------------
(* Stages *)

\* What a handler goes by is read first: UpdateStage and set_stage ("user")
\* compare with it, MarkReplyPosted ("reply") and advanceLeadFromUTM
\* ("conversion", "click") leave some stages alone.
AskStage(a, l, by, want) ==
    /\ handler[a].at = "idle"
    /\ Happens
    /\ by = "user" => want \in Wanted
    /\ by = "reply" => want = "engaged" /\ row[l].stage \in {"prospect", "qualified"}
    /\ by \in {"conversion", "click"} => want = "converted"
    /\ handler' = [handler EXCEPT ![a] =
          [at |-> "store", lead |-> l, by |-> by, want |-> want, seen |-> row[l].stage]]
    /\ UNCHANGED <<home, row, job, inflight, crmState, leadHistory>>

\* Does the handler go on to UpdateLeadStage, and does it then tell the CRM?
Moves(h) == h.by \in {"conversion", "click"} => h.seen \notin {"converted", "lost"}

\* A user asks for the stage the handler has seen: no change, as far as it knows.
SameToUser(h) == h.by = "user" /\ h.seen = h.want

\* A plausible bug: the row is compared with itself.
BugTells(h) == h.by # "user"

\* The CRM is not told of what a click changed.
Untold(h) == SameToUser(h) \/ h.by = "click"

Tells(h) == ~Untold(h)

\* Enrichments that hold a row of l they will write back.
Holding(l) == {a \in Actors : job[a].at \in {"count", "lock", "run", "mark", "fill"}
                              /\ job[a].lead = l}

Stored(a, l) ==
    /\ row' = [row EXCEPT ![l].stage = handler[a].want]
    /\ asked' = [asked EXCEPT ![l] = handler[a].want]
    /\ moved' = IF Holding(l) # {} THEN moved \cup {l} ELSE moved

\* A failure may come after the UPDATE: the answer got lost, or set_stage gives
\* up when it cannot record the change.  A conversion is told all the same, but
\* not if the process ends here.
Store(a) ==
    LET h == handler[a] l == h.lead IN
    /\ h.at = "store"
    /\ handler' = [handler EXCEPT ![a] = NoAsk]
    /\ \E fails, stores, tells \in BOOLEAN :
          /\ IF fails THEN Moves(h) /\ Happens ELSE stores = Moves(h) /\ UNCHANGED happenings
          /\ IF fails THEN tells => h.by = "conversion" ELSE tells = Tells(h)
          /\ IF stores THEN Stored(a, l) ELSE UNCHANGED <<row, asked, moved>>
          /\ IF tells THEN Tell(<<home[a], "router">>, l) ELSE UNCHANGED waiting
          /\ missed' = IF row'[l] # row[l] /\ IF fails THEN ~tells ELSE Untold(h)
                       THEN missed \cup {l} ELSE missed
    /\ UNCHANGED <<home, job, inflight, delivery, contacts, runs, together, unmarked,
                   slips, doubled, orphaned, adopted>>

\* lead.created, for a new lead or again: qualifyAsLead, the workflow action,
\* Create, an import of engagers, the tool push_to_crm.
Push(d, l) ==
    /\ Happens
    /\ Tell(d, l)
    /\ UNCHANGED <<home, leadState, delivery, contacts, leadHistory>>

----------------------------------------------------------------------------
(* Enrichment *)

Marked == {l \in Leads : row[l].enriched}

Paying(l) == {a \in Actors : job[a].at \in {"count", "lock", "run", "mark"} /\ job[a].lead = l}

Goes(a, place) == job' = [job EXCEPT ![a].at = place]
Leaves(a) == job' = [job EXCEPT ![a] = NoJob]

\* EnrichLead reads the lead; one that is marked is not paid for again.
EnrichLead(a, l) ==
    /\ job[a].at = "idle"
    /\ Happens
    /\ ~row[l].enriched
    /\ job' = [job EXCEPT ![a] =
          [at |-> "count", lead |-> l, seen |-> row[l].stage, count |-> 0, found |-> FALSE]]
    /\ together' = IF Paying(l) # {} THEN together \cup {l} ELSE together
    /\ UNCHANGED <<home, row, handler, inflight, crmState, asked, moved, runs,
                   unmarked, slips, doubled, orphaned, adopted, missed>>

\* reserve: CountEnrichedLeadsSince, outside of the lock.
CountEnriched(a) ==
    /\ job[a].at = "count"
    /\ \/ /\ job' = [job EXCEPT ![a].at = "lock", ![a].count = Cardinality(Marked)]
          /\ UNCHANGED happenings
       \/ Happens /\ Leaves(a)
    /\ UNCHANGED <<home, row, handler, inflight, crmState, leadHistory>>

Reserved == {a \in Actors : job[a].at \in {"run", "mark"}}

\* Is what a is about to decide on out of date, or blind to another process?
Slips(a) ==
    \/ job[a].count # Cardinality(Marked)
    \/ \E b \in Reserved : home[b] # home[a]

\* A plausible bug: what is in flight is not counted.
BugFits(a) == job[a].count < DailyCap

Fits(a) == job[a].count + inflight[home[a]] < DailyCap

\* reserve, under the lock.
Reserve(a) ==
    /\ job[a].at = "lock"
    /\ \/ /\ Fits(a)
          /\ Goes(a, "run")
          /\ inflight' = [inflight EXCEPT ![home[a]] = @ + 1]
          /\ slips' = IF Slips(a) THEN slips + 1 ELSE slips
       \/ ~Fits(a) /\ Leaves(a) /\ UNCHANGED <<inflight, slips>>
    /\ UNCHANGED <<home, row, handler, crmState, happenings, asked, moved, runs, together,
                   unmarked, doubled, orphaned, adopted, missed>>

\* Pipeline.Run: paid searches; steps that fail are part of the result.
RunPipeline(a) ==
    /\ job[a].at = "run"
    /\ \E found \in BOOLEAN : job' = [job EXCEPT ![a].at = "mark", ![a].found = found]
    /\ runs' = [runs EXCEPT ![job[a].lead] = @ + 1]
    /\ UNCHANGED <<home, row, handler, inflight, crmState, happenings, asked, moved, together,
                   unmarked, slips, doubled, orphaned, adopted, missed>>

\* A plausible bug: a run that found nothing leaves no marker.
BugMark(l, found) == row' = [row EXCEPT ![l].enriched = @ \/ found]

Mark(l, found) == row' = [row EXCEPT ![l].enriched = TRUE]

\* saveEnrichment: "Marker first".  The answer of the UPDATE may be lost.
SaveMarker(a) ==
    LET l == job[a].lead IN
    /\ job[a].at = "mark"
    /\ \/ /\ Mark(l, job[a].found)
          /\ Goes(a, IF job[a].found THEN "fill" ELSE "end")
          /\ UNCHANGED <<unmarked, happenings>>
       \/ /\ Happens
          /\ Mark(l, job[a].found) \/ UNCHANGED row
          /\ Goes(a, "end")
          /\ unmarked' = unmarked \cup {l}
    /\ UNCHANGED <<home, handler, inflight, crmState, asked, moved, runs, together, slips,
                   doubled, orphaned, adopted, missed>>

\* A plausible bug: the stage is not carried over.
BugFilled(a) == row' = [row EXCEPT ![job[a].lead].stage = "prospect"]

\* UpdateLead has no form without a stage: the one read at first goes back.
Filled(a) == row' = [row EXCEPT ![job[a].lead].stage = job[a].seen]

FillLead(a) ==
    /\ job[a].at = "fill"
    /\ \/ Filled(a) /\ Goes(a, "person") /\ UNCHANGED <<happenings, missed>>
       \/ /\ Happens
          /\ Filled(a) \/ UNCHANGED row
          /\ Goes(a, "end")
          /\ missed' = missed \cup {job[a].lead}
    /\ UNCHANGED <<home, handler, inflight, crmState, asked, moved, runs, together,
                   unmarked, slips, doubled, orphaned, adopted>>

\* The person and the LinkedIn identity; only when all is saved is the CRM told.
SavePerson(a) ==
    /\ job[a].at = "person"
    /\ \/ Goes(a, "tell") /\ UNCHANGED <<happenings, missed>>
       \/ Happens /\ Goes(a, "end") /\ missed' = missed \cup {job[a].lead}
    /\ UNCHANGED <<home, row, handler, inflight, crmState, asked, moved, runs, together,
                   unmarked, slips, doubled, orphaned, adopted>>

\* EnrichThen releases the reservation, enrichWithTreg emits lead.enriched.
Release(a) ==
    /\ job[a].at \in {"tell", "end"}
    /\ inflight' = [inflight EXCEPT ![home[a]] = @ - 1]
    /\ IF job[a].at = "tell" THEN Tell(<<home[a], "shared">>, job[a].lead) ELSE UNCHANGED waiting
    /\ Leaves(a)
    /\ UNCHANGED <<home, row, handler, delivery, contacts, happenings, leadHistory>>

----------------------------------------------------------------------------
(* Deliveries *)

\* The other deliveries of l under way: each dispatcher has a mutex of its own.
Beside(d, l) == {e \in Dispatchers \ {d} : delivery[e][l].at # "idle"}

Finished(d, l) == delivery' = [delivery EXCEPT ![d][l] = NoDelivery]

\* deliver loads configuration and lead once it has the mutex.
LoadLead(d, l) ==
    /\ waiting[d][l] > 0 /\ delivery[d][l].at = "idle"
    /\ waiting' = [waiting EXCEPT ![d][l] = @ - 1]
    /\ \/ /\ delivery' = [delivery EXCEPT ![d][l] =
                [at |-> "send", stage |-> row[l].stage, id |-> row[l].contact]]
          /\ doubled' = IF Beside(d, l) # {} THEN doubled \cup {l} ELSE doubled
          /\ UNCHANGED <<happenings, missed>>
       \/ Happens /\ missed' = missed \cup {l} /\ UNCHANGED <<delivery, doubled>>
    /\ UNCHANGED <<home, leadState, contacts, asked, moved, runs, together, unmarked,
                   slips, orphaned, adopted>>

Made(l, stage) == contacts' = [contacts EXCEPT ![l] = Append(@, Rank[stage])]

\* HubSpot's contacts are others' too: with the lead's e-mail, one is made or moved
\* ahead by a salesperson, or for another lead.
TouchedElsewhere(l) ==
    /\ Happens
    /\ l \in WithEmail
    /\ \E rank \in 0..4 :
          IF contacts[l] = <<>> THEN contacts' = [contacts EXCEPT ![l] = <<rank>>]
          ELSE rank > contacts[l][1] /\ contacts' = [contacts EXCEPT ![l][1] = rank]
    /\ UNCHANGED <<home, leadState, waiting, delivery, leadHistory>>

\* syncHubSpot without an id: a new contact, or the one the 409 names, whose
\* lifecycle stage stays as it is.
CreateContact(d, l) ==
    LET s == delivery[d][l] IN
    /\ s.at = "send" /\ s.id = 0
    /\ IF l \in WithEmail /\ contacts[l] # <<>>
       THEN /\ \/ /\ delivery' = [delivery EXCEPT ![d][l].at = "save", ![d][l].id = 1]
                  /\ adopted' = adopted \cup {l}
                  /\ UNCHANGED <<happenings, missed>>
               \/ Happens /\ Finished(d, l) /\ missed' = missed \cup {l} /\ UNCHANGED adopted
            /\ UNCHANGED <<contacts, orphaned>>
       ELSE \/ /\ Made(l, s.stage)
               /\ delivery' = [delivery EXCEPT ![d][l].at = "save", ![d][l].id = Len(contacts[l]) + 1]
               /\ UNCHANGED <<happenings, orphaned, adopted, missed>>
            \/ /\ Happens /\ Finished(d, l) /\ UNCHANGED adopted
               /\ \/ Made(l, s.stage) /\ orphaned' = orphaned \cup {l} /\ UNCHANGED missed
                  \/ missed' = missed \cup {l} /\ UNCHANGED <<contacts, orphaned>>
    /\ UNCHANGED <<home, leadState, waiting, asked, moved, runs, together, unmarked, slips,
                   doubled>>

\* A plausible bug: the id is not kept.
BugKeepId(d, l) == UNCHANGED row

KeepId(d, l) == row' = [row EXCEPT ![l].contact = delivery[d][l].id]

\* saveLeadMeta.
SaveId(d, l) ==
    /\ delivery[d][l].at = "save"
    /\ Finished(d, l)
    /\ \/ KeepId(d, l) /\ UNCHANGED <<happenings, orphaned>>
       \/ Happens /\ UNCHANGED row /\ orphaned' = orphaned \cup {l}
    /\ UNCHANGED <<home, handler, job, inflight, waiting, contacts, asked, moved, runs,
                   together, unmarked, slips, doubled, adopted, missed>>

\* syncHubSpot with an id: the lifecycle stage only ever goes up.
PatchContact(d, l) ==
    LET s == delivery[d][l] IN
    /\ s.at = "send" /\ s.id # 0
    /\ Finished(d, l)
    /\ \/ /\ contacts' = [contacts EXCEPT ![l][s.id] = IF Rank[s.stage] > @ THEN Rank[s.stage] ELSE @]
          /\ adopted' = adopted \ {l}
          /\ UNCHANGED <<happenings, missed>>
       \/ Happens /\ UNCHANGED <<contacts, adopted>> /\ missed' = missed \cup {l}
    /\ UNCHANGED <<home, leadState, waiting, asked, moved, runs, together, unmarked, slips,
                   doubled, orphaned>>

----------------------------------------------------------------------------
(* A process ends: its goroutines, its reservations and its mutexes go.    *)

Of(p) == {a \in Actors : home[a] = p}

Crash(p) ==
    LET lost == {d \in Dispatchers : d[1] = p}
        Doing(places) == {l \in Leads : \E a \in Of(p) : job[a].at \in places /\ job[a].lead = l}
        Sending(place) == {l \in Leads : \E d \in lost : delivery[d][l].at = place}
        Queued == {l \in Leads : \E d \in lost : waiting[d][l] > 0}
    IN
    /\ Happens
    /\ handler' = [a \in Actors |-> IF a \in Of(p) THEN NoAsk ELSE handler[a]]
    /\ job' = [a \in Actors |-> IF a \in Of(p) THEN NoJob ELSE job[a]]
    /\ inflight' = [inflight EXCEPT ![p] = 0]
    /\ waiting' = [d \in Dispatchers |-> IF d \in lost THEN [l \in Leads |-> 0] ELSE waiting[d]]
    /\ delivery' = [d \in Dispatchers |->
                       IF d \in lost THEN [l \in Leads |-> NoDelivery] ELSE delivery[d]]
    /\ unmarked' = unmarked \cup Doing({"mark"})
    /\ orphaned' = orphaned \cup Sending("save")
    /\ missed' = missed \cup Doing({"person", "tell"}) \cup Sending("send") \cup Queued
    /\ UNCHANGED <<home, row, contacts, asked, moved, runs, together, slips, doubled, adopted>>

----------------------------------------------------------------------------
LeadInit ==
    /\ home \in Deployments
    /\ row = [l \in Leads |-> [stage |-> "prospect", enriched |-> FALSE, contact |-> 0]]
    /\ handler = [a \in Actors |-> NoAsk]
    /\ job = [a \in Actors |-> NoJob]
    /\ inflight = [p \in Processes |-> 0]
    /\ waiting = [d \in Dispatchers |-> [l \in Leads |-> 0]]
    /\ delivery = [d \in Dispatchers |-> [l \in Leads |-> NoDelivery]]
    /\ contacts = [l \in Leads |-> <<>>]
    /\ happenings = 0 /\ slips = 0
    /\ asked = [l \in Leads |-> "prospect"]
    /\ runs = [l \in Leads |-> 0]
    /\ moved = {} /\ together = {} /\ unmarked = {}
    /\ doubled = {} /\ orphaned = {} /\ adopted = {} /\ missed = {}

Stage(a) ==
    \/ \E l \in Leads, by \in {"user", "reply", "conversion", "click"}, want \in Stages :
          AskStage(a, l, by, want)
    \/ Store(a)

Enrichment(a) ==
    \/ \E l \in Leads : EnrichLead(a, l)
    \/ CountEnriched(a)
    \/ Reserve(a)
    \/ RunPipeline(a)
    \/ SaveMarker(a)
    \/ FillLead(a)
    \/ SavePerson(a)
    \/ Release(a)

Delivery(d, l) ==
    \/ Push(d, l)
    \/ LoadLead(d, l)
    \/ CreateContact(d, l)
    \/ SaveId(d, l)
    \/ PatchContact(d, l)

LeadNext ==
    \/ \E a \in Actors : Stage(a) \/ Enrichment(a)
    \/ \E d \in Dispatchers, l \in Leads : Delivery(d, l)
    \/ \E l \in Leads : TouchedElsewhere(l)
    \/ \E p \in Processes : Crash(p)

LeadSpec == LeadInit /\ [][LeadNext]_leadVars

----------------------------------------------------------------------------
StageAsked == [at : {"store"}, lead : Leads, by : {"user", "reply", "conversion", "click"},
               want : Stages, seen : Stages]
Enriching == [at : {"count", "lock", "run", "mark", "fill", "person", "tell", "end"}, lead : Leads,
              seen : Stages, count : Nat, found : BOOLEAN]
Delivering == [at : {"send", "save"}, stage : Stages, id : Nat]

\* Rows, goroutines and HubSpot's contacts are what the code expects to find.
LeadTypeOK ==
    /\ home \in Deployments
    /\ row \in [Leads -> [stage : Stages, enriched : BOOLEAN, contact : Nat]]
    /\ handler \in [Actors -> StageAsked \cup {NoAsk}]
    /\ job \in [Actors -> Enriching \cup {NoJob}]
    /\ inflight \in [Processes -> Nat]
    /\ waiting \in [Dispatchers -> [Leads -> Nat]]
    /\ delivery \in [Dispatchers -> [Leads -> Delivering \cup {NoDelivery}]]
    /\ contacts \in [Leads -> Seq(0..4)]
    /\ happenings \in 0..MaxHappenings /\ slips \in Nat
    /\ asked \in [Leads -> Stages]
    /\ runs \in [Leads -> Nat]
    /\ moved \subseteq Leads /\ together \subseteq Leads /\ unmarked \subseteq Leads
    /\ doubled \subseteq Leads /\ orphaned \subseteq Leads /\ adopted \subseteq Leads
    /\ missed \subseteq Leads

\* The reservation covers the save, so one past the daily cap takes a count
\* that was out of date when the lock was taken, or a second process.
EnrichCapHolds == Cardinality(Marked) + Cardinality(Reserved) <= DailyCap + slips

\* What reserve's comment says of one process: "n+inflight never undercounts".
CapNeverOverrun == Cardinality(Marked) <= DailyCap

\* "Runs the paid pipeline once per lead": unless two enrichments had read the
\* lead before it was marked, or a marker was not written.
PaidOncePerLead ==
    \A l \in Leads : runs[l] > 1 => l \in together \cup unmarked

\* A stage stands until somebody changes it, but for a lead that was moved while
\* an enrichment held its older row: the enrichment puts the old stage back.
StageStands ==
    \A l \in Leads : row[l].stage = asked[l] \/ l \in moved

\* "lead.created and a quick follow-up event can't both see no CRM id yet": a
\* second contact takes two dispatchers at once, or an id that was lost.
OneContactPerLead ==
    \A l \in Leads : Len(contacts[l]) > 1 => l \in doubled \cup orphaned

AtRestCRM(l) ==
    /\ \A d \in Dispatchers : waiting[d][l] = 0 /\ delivery[d][l].at = "idle"
    /\ \A a \in Actors : job[a].at \in {"person", "tell"} => job[a].lead # l

\* Events carry no stage and may overtake each other; still, when all are
\* delivered, the contact is not behind the lead, unless a step failed, a change was
\* mistaken for none or came of a click, two deliveries overlapped, or the contact was
\* there before and has not been written to since.
ContactNotBehind ==
    \A l \in Leads :
        AtRestCRM(l) /\ row[l].contact # 0
            /\ l \notin doubled \cup orphaned \cup adopted \cup missed =>
            contacts[l][row[l].contact] >= Rank[row[l].stage]

================================================================================
