--------------------------- MODULE LeadRecordProofs ---------------------------
(***************************************************************************)
(* Proofs about the row of a lead, for any number of leads, goroutines,    *)
(* processes, failures and crashes: enrichments stay within the daily cap  *)
(* but for reservations on an outdated count, pay once and leave the stage *)
(* alone but for a change beside them; a CRM gets one contact a lead and   *)
(* ends up with its stage but for deliveries that overlap or fail.         *)
(***************************************************************************)
EXTENDS LeadRecord, FiniteSetTheorems, TLAPS

\* Contact ids are HubSpot's.
IdsKnown ==
    \A l \in Leads :
        /\ row[l].contact <= Len(contacts[l])
        /\ \A d \in Dispatchers : delivery[d][l].at # "idle" => delivery[d][l].id <= Len(contacts[l])

\* An Enricher counts the goroutines of its process that hold a reservation.
JobsIn(p) ==
    {a \in Actors : home[a] = p /\ job[a].at \in {"run", "mark", "fill", "person", "tell", "end"}}

InflightCounts == \A p \in Processes : inflight[p] = Cardinality(JobsIn(p))

LeadBase == LeadTypeOK /\ IdsKnown /\ InflightCounts

----------------------------------------------------------------------------
(* Types.                                                                  *)

\* What is not idle has its fields.
LEMMA LeadFields ==
    ASSUME LeadTypeOK
    PROVE  /\ \A a \in Actors : handler[a].at = "store" => handler[a] \in StageAsked
           /\ \A a \in Actors : job[a].at # "idle" => job[a] \in Enriching
           /\ \A d \in Dispatchers, l \in Leads :
                 delivery[d][l].at # "idle" => delivery[d][l] \in Delivering
           /\ \A a \in Actors : home[a] \in Processes
BY LeadAssumption DEF LeadTypeOK, NoAsk, NoJob, NoDelivery

LEMMA MarkedFinite ==
    /\ IsFiniteSet(Marked) /\ Cardinality(Marked) \in Nat
    /\ IsFiniteSet(Reserved) /\ Cardinality(Reserved) \in Nat
BY LeadAssumption, FS_Subset, FS_CardinalityType DEF Marked, Reserved

LEMMA JobsInFinite ==
    ASSUME NEW p PROVE IsFiniteSet(JobsIn(p)) /\ Cardinality(JobsIn(p)) \in Nat
BY LeadAssumption, FS_Subset, FS_CardinalityType DEF JobsIn

\* What moving a goroutine on, or ending it, leaves as it was.
LEMMA GoesOn ==
    ASSUME LeadTypeOK, NEW a \in Actors, job[a] \in Enriching,
           NEW place \in {"count", "lock", "run", "mark", "fill", "person", "tell", "end"},
           Goes(a, place)
    PROVE  /\ job' \in [Actors -> Enriching \cup {NoJob}]
           /\ job'[a].at = place /\ job'[a].lead = job[a].lead /\ job'[a].seen = job[a].seen
           /\ \A b \in Actors \ {a} : job'[b] = job[b]
<1>1. [job[a] EXCEPT !.at = place] \in Enriching
  BY DEF Enriching
<1>2. job' = [job EXCEPT ![a] = [job[a] EXCEPT !.at = place]]
  BY DEF Goes
<1> QED BY <1>1, <1>2 DEF LeadTypeOK, Enriching

LEMMA LeavesOff ==
    ASSUME LeadTypeOK, NEW a \in Actors, Leaves(a)
    PROVE  /\ job' \in [Actors -> Enriching \cup {NoJob}]
           /\ job'[a].at = "idle"
           /\ \A b \in Actors \ {a} : job'[b] = job[b]
BY DEF Leaves, LeadTypeOK, NoJob

Rows == [Leads -> [stage : Stages, enriched : BOOLEAN, contact : Nat]]

Restaged(l, s) == row' = [row EXCEPT ![l].stage = s]

LEMMA StageWritten ==
    ASSUME LeadTypeOK, NEW l \in Leads, NEW s \in Stages, Restaged(l, s)
    PROVE  /\ row' \in Rows
           /\ \A k \in Leads : /\ row'[k].enriched = row[k].enriched
                               /\ row'[k].contact = row[k].contact
                               /\ row'[k].stage = IF k = l THEN s ELSE row[k].stage
<1>1. row \in Rows /\ row[l] \in [stage : Stages, enriched : BOOLEAN, contact : Nat]
  BY DEF LeadTypeOK, Rows
<1>2. [row[l] EXCEPT !.stage = s] \in [stage : Stages, enriched : BOOLEAN, contact : Nat]
  BY <1>1
<1> QED BY <1>1, <1>2 DEF Rows, Restaged

LEMMA MarkerWritten ==
    ASSUME LeadTypeOK, NEW l \in Leads, NEW found, Mark(l, found)
    PROVE  /\ row' \in Rows
           /\ \A k \in Leads : /\ row'[k].stage = row[k].stage
                               /\ row'[k].contact = row[k].contact
                               /\ row'[k].enriched = (k = l \/ row[k].enriched)
<1>1. row \in Rows /\ row[l] \in [stage : Stages, enriched : BOOLEAN, contact : Nat]
  BY DEF LeadTypeOK, Rows
<1>2. [row[l] EXCEPT !.enriched = TRUE] \in [stage : Stages, enriched : BOOLEAN, contact : Nat]
  BY <1>1
<1> QED BY <1>1, <1>2 DEF Rows, Mark

LEMMA IdWritten ==
    ASSUME LeadTypeOK, NEW d \in Dispatchers, NEW l \in Leads, delivery[d][l].id \in Nat,
           KeepId(d, l)
    PROVE  /\ row' \in Rows
           /\ \A k \in Leads : /\ row'[k].stage = row[k].stage
                               /\ row'[k].enriched = row[k].enriched
                               /\ row'[k].contact = IF k = l THEN delivery[d][l].id
                                                    ELSE row[k].contact
<1>1. row \in Rows /\ row[l] \in [stage : Stages, enriched : BOOLEAN, contact : Nat]
  BY DEF LeadTypeOK, Rows
<1>2. [row[l] EXCEPT !.contact = delivery[d][l].id]
        \in [stage : Stages, enriched : BOOLEAN, contact : Nat]
  BY <1>1
<1> QED BY <1>1, <1>2 DEF Rows, KeepId

Deliveries == [Dispatchers -> [Leads -> Delivering \cup {NoDelivery}]]

\* The other deliveries stay as they are.
Elsewhere(d, l) ==
    \A e \in Dispatchers, k \in Leads : e # d \/ k # l => delivery'[e][k] = delivery[e][k]

Becomes(d, l, s) == delivery' = [delivery EXCEPT ![d][l] = s]

LEMMA DeliveryMoves ==
    ASSUME LeadTypeOK, NEW d \in Dispatchers, NEW l \in Leads, NEW s \in Delivering \cup {NoDelivery},
           Becomes(d, l, s)
    PROVE  delivery' \in Deliveries /\ delivery'[d][l] = s /\ Elsewhere(d, l)
<1>1. delivery \in Deliveries /\ delivery[d] \in [Leads -> Delivering \cup {NoDelivery}]
  BY DEF LeadTypeOK, Deliveries
<1>2. [delivery[d] EXCEPT ![l] = s] \in [Leads -> Delivering \cup {NoDelivery}]
  BY <1>1
<1>3. delivery' = [delivery EXCEPT ![d] = [delivery[d] EXCEPT ![l] = s]]
  BY DEF Becomes
<1> QED BY <1>1, <1>2, <1>3 DEF Deliveries, Elsewhere

LEMMA DeliveryEnds ==
    ASSUME LeadTypeOK, NEW d \in Dispatchers, NEW l \in Leads, Finished(d, l)
    PROVE  delivery' \in Deliveries /\ delivery'[d][l].at = "idle" /\ Elsewhere(d, l)
<1>1. Becomes(d, l, NoDelivery)
  BY DEF Finished, Becomes
<1>2. NoDelivery.at = "idle"
  BY DEF NoDelivery
<1> QED BY <1>1, <1>2, DeliveryMoves

Saves(d, l, n) == delivery' = [delivery EXCEPT ![d][l].at = "save", ![d][l].id = n]

LEMMA DeliverySaves ==
    ASSUME LeadTypeOK, NEW d \in Dispatchers, NEW l \in Leads, delivery[d][l] \in Delivering,
           NEW n \in Nat, Saves(d, l, n)
    PROVE  /\ delivery' \in Deliveries /\ Elsewhere(d, l)
           /\ delivery'[d][l].at = "save" /\ delivery'[d][l].id = n
           /\ delivery'[d][l].stage = delivery[d][l].stage
<1> DEFINE s == [delivery[d][l] EXCEPT !.at = "save", !.id = n]
<1>1. s \in Delivering /\ s.at = "save" /\ s.id = n /\ s.stage = delivery[d][l].stage
  BY DEF Delivering
<1>2. Becomes(d, l, s)
  BY DEF LeadTypeOK, Becomes, Saves
<1> HIDE DEF s
<1> QED BY <1>1, <1>2, DeliveryMoves

LEMMA TellTypes ==
    ASSUME LeadTypeOK, NEW d \in Dispatchers, NEW l \in Leads, Tell(d, l)
    PROVE  waiting' \in [Dispatchers -> [Leads -> Nat]]
BY DEF Tell, LeadTypeOK

LEMMA LeadInitBase == LeadInit => LeadBase
<1> SUFFICES ASSUME LeadInit PROVE LeadBase
  OBVIOUS
<1>1. LeadTypeOK
  BY LeadAssumption DEF LeadInit, LeadTypeOK, Stages, NoAsk, NoJob, NoDelivery
<1>2. IdsKnown
  BY DEF LeadInit, IdsKnown, NoDelivery
<1>3. InflightCounts
  <2>1. \A p \in Processes : JobsIn(p) = {}
    BY <1>1, Zenon DEF LeadInit, JobsIn, NoJob
  <2> QED BY <2>1, FS_EmptySet DEF LeadInit, InflightCounts
<1> QED BY <1>1, <1>2, <1>3 DEF LeadBase

\* A new contact.
LEMMA ContactMade ==
    ASSUME LeadTypeOK, NEW l \in Leads, NEW stage \in Stages, Made(l, stage)
    PROVE  /\ contacts' \in [Leads -> Seq(0..4)]
           /\ contacts'[l] = Append(contacts[l], Rank[stage])
           /\ Len(contacts'[l]) = Len(contacts[l]) + 1
           /\ \A k \in Leads \ {l} : contacts'[k] = contacts[k]
<1>1. Rank[stage] \in 0..4
  BY DEF Stages, Rank
<1>2. contacts[l] \in Seq(0..4)
  BY DEF LeadTypeOK
<1>3. Append(contacts[l], Rank[stage]) \in Seq(0..4)
      /\ Len(Append(contacts[l], Rank[stage])) = Len(contacts[l]) + 1
  BY <1>1, <1>2
<1> QED BY <1>3 DEF Made, LeadTypeOK

\* A contact that others make is the lead's first; one that they move goes ahead.
LEMMA ContactTouched ==
    ASSUME LeadTypeOK, NEW l \in Leads, TouchedElsewhere(l)
    PROVE  /\ contacts' \in [Leads -> Seq(0..4)]
           /\ \A k \in Leads \ {l} : contacts'[k] = contacts[k]
           /\ \/ contacts[l] = <<>> /\ Len(contacts'[l]) = 1
              \/ /\ contacts[l] # <<>> /\ Len(contacts'[l]) = Len(contacts[l])
                 /\ \A i \in 1..Len(contacts[l]) : contacts'[l][i] >= contacts[l][i]
<1>1. contacts \in [Leads -> Seq(0..4)] /\ contacts[l] \in Seq(0..4)
      /\ \A i \in 1..Len(contacts[l]) : contacts[l][i] \in 0..4
  BY DEF LeadTypeOK
<1>2. CASE contacts[l] = <<>>
  <2>1. PICK rank \in 0..4 : contacts' = [contacts EXCEPT ![l] = <<rank>>]
    BY <1>2 DEF TouchedElsewhere
  <2>2. <<rank>> \in Seq(0..4) /\ Len(<<rank>>) = 1
    OBVIOUS
  <2> QED BY <1>1, <1>2, <2>1, <2>2
<1>3. CASE contacts[l] # <<>>
  <2>1. PICK rank \in 0..4 :
           /\ contacts' = [contacts EXCEPT ![l] = [contacts[l] EXCEPT ![1] = rank]]
           /\ rank > contacts[l][1]
    BY <1>1, <1>3 DEF TouchedElsewhere
  <2> DEFINE s == [contacts[l] EXCEPT ![1] = rank]
  <2>2. s \in Seq(0..4) /\ Len(s) = Len(contacts[l])
        /\ \A i \in 1..Len(contacts[l]) : s[i] >= contacts[l][i]
    BY <1>1, <1>3, <2>1
  <2>3. contacts' = [contacts EXCEPT ![l] = s]
    BY <2>1
  <2> HIDE DEF s
  <2> QED BY <1>1, <1>3, <2>2, <2>3
<1> QED BY <1>2, <1>3

\* The four ways syncHubSpot's POST ends.
Adopts(d, l) ==
    /\ contacts[l] # <<>> /\ Saves(d, l, 1)
    /\ adopted' = adopted \cup {l} /\ UNCHANGED <<contacts, orphaned, missed, happenings>>
Creates(d, l) ==
    /\ ~(l \in WithEmail /\ contacts[l] # <<>>)
    /\ Made(l, delivery[d][l].stage) /\ Saves(d, l, Len(contacts[l]) + 1)
    /\ UNCHANGED <<orphaned, adopted, missed, happenings>>
LosesId(d, l) ==
    /\ Made(l, delivery[d][l].stage) /\ Finished(d, l)
    /\ orphaned' = orphaned \cup {l} /\ UNCHANGED <<adopted, missed>> /\ Happens
GivesUp(d, l) ==
    /\ Finished(d, l)
    /\ missed' = missed \cup {l} /\ UNCHANGED <<contacts, orphaned, adopted>> /\ Happens

LEMMA CreateEnds ==
    ASSUME NEW d, NEW l, CreateContact(d, l)
    PROVE  Adopts(d, l) \/ Creates(d, l) \/ LosesId(d, l) \/ GivesUp(d, l)
BY DEF CreateContact, Adopts, Creates, LosesId, GivesUp, Saves

\* A contact's stage that HubSpot takes only if it goes up.
LEMMA ContactPatched ==
    ASSUME LeadBase, NEW d \in Dispatchers, NEW l \in Leads, PatchContact(d, l)
    PROVE  /\ delivery[d][l] \in Delivering /\ delivery[d][l].id \in 1..Len(contacts[l])
           /\ contacts' \in [Leads -> Seq(0..4)]
           /\ \A k \in Leads : /\ Len(contacts'[k]) = Len(contacts[k])
                               /\ \A i \in 1..Len(contacts[k]) : contacts'[k][i] >= contacts[k][i]
           /\ l \notin missed' =>
                 contacts'[l][delivery[d][l].id] >= Rank[delivery[d][l].stage]
<1>1. delivery[d][l] \in Delivering /\ Rank[delivery[d][l].stage] \in 0..4
  BY LeadFields DEF LeadBase, PatchContact, Delivering, Stages, Rank
<1>2. delivery[d][l].id \in 1..Len(contacts[l])
  BY <1>1 DEF LeadBase, IdsKnown, Delivering, PatchContact
<1>3. contacts \in [Leads -> Seq(0..4)]
      /\ \A k \in Leads : \A i \in 1..Len(contacts[k]) : contacts[k][i] \in 0..4
  BY DEF LeadBase, LeadTypeOK
<1> DEFINE i == delivery[d][l].id
           r == IF Rank[delivery[d][l].stage] > contacts[l][i]
                THEN Rank[delivery[d][l].stage] ELSE contacts[l][i]
<1>4. r \in 0..4 /\ r >= contacts[l][i] /\ r >= Rank[delivery[d][l].stage]
  BY <1>1, <1>2, <1>3
<1>5. \/ contacts' = contacts /\ missed' = missed \cup {l} /\ Happens
      \/ contacts' = [contacts EXCEPT ![l] = [contacts[l] EXCEPT ![i] = r]] /\ UNCHANGED missed
  BY <1>3 DEF PatchContact
<1>6. CASE contacts' = [contacts EXCEPT ![l] = [contacts[l] EXCEPT ![i] = r]]
  <2> DEFINE t == [contacts[l] EXCEPT ![i] = r]
  <2>1. t \in Seq(0..4) /\ Len(t) = Len(contacts[l]) /\ t[i] = r
        /\ \A n \in 1..Len(contacts[l]) : t[n] >= contacts[l][n]
    <3>1. contacts[l] \in Seq(0..4) /\ i \in 1..Len(contacts[l]) /\ r \in 0..4 /\ r >= contacts[l][i]
      BY <1>2, <1>3, <1>4
    <3>2. \A n \in 1..Len(contacts[l]) : contacts[l][n] \in 0..4
      BY <1>3
    <3> HIDE DEF r, i
    <3> QED BY <3>1, <3>2
  <2> HIDE DEF t, r
  <2>2. \A k \in Leads : contacts'[k] = IF k = l THEN t ELSE contacts[k]
    BY <1>3, <1>6 DEF t
  <2>3. contacts' \in [Leads -> Seq(0..4)]
    BY <1>3, <1>6, <2>1 DEF t
  <2>4. \A k \in Leads : /\ Len(contacts'[k]) = Len(contacts[k])
                         /\ \A n \in 1..Len(contacts[k]) : contacts'[k][n] >= contacts[k][n]
    <3> SUFFICES ASSUME NEW k \in Leads
                 PROVE  /\ Len(contacts'[k]) = Len(contacts[k])
                        /\ \A n \in 1..Len(contacts[k]) : contacts'[k][n] >= contacts[k][n]
      OBVIOUS
    <3>1. CASE k = l
      BY <2>1, <2>2, <3>1
    <3>2. CASE k # l
      BY <1>3, <2>2, <3>2
    <3> QED BY <3>1, <3>2
  <2> QED BY <1>1, <1>2, <1>4, <2>1, <2>2, <2>3, <2>4
<1>7. CASE contacts' = contacts /\ missed' = missed \cup {l} /\ Happens
  <2>1. l \in missed'
    BY <1>7
  <2> QED BY <1>1, <1>2, <1>3, <1>7, <2>1
<1> QED BY <1>5, <1>6, <1>7

LEMMA LeadTypeStep == LeadBase /\ [LeadNext]_leadVars => LeadTypeOK' /\ IdsKnown'
<1> SUFFICES ASSUME LeadBase, [LeadNext]_leadVars PROVE LeadTypeOK' /\ IdsKnown'
  OBVIOUS
<1> USE DEF LeadBase
<1>a. happenings' = happenings \/ Happens => happenings' \in 0..MaxHappenings
  BY LeadAssumption DEF Happens, LeadTypeOK
<1>1. ASSUME NEW a \in Actors, NEW l \in Leads, NEW by \in {"user", "reply", "conversion", "click"},
             NEW want \in Stages, AskStage(a, l, by, want)
      PROVE  LeadTypeOK' /\ IdsKnown'
  BY <1>1, <1>a DEF AskStage, LeadTypeOK, IdsKnown, StageAsked, crmState, leadHistory
<1>2. ASSUME NEW a \in Actors, Store(a) PROVE LeadTypeOK' /\ IdsKnown'
  <2>1. handler[a].at = "store" /\ handler[a] \in StageAsked
    BY <1>2, LeadFields DEF Store
  <2> DEFINE l == handler[a].lead
  <2>2. l \in Leads /\ handler[a].want \in Stages /\ <<home[a], "router">> \in Dispatchers
    BY <2>1, LeadFields DEF StageAsked, Dispatchers
  <2>3. waiting' \in [Dispatchers -> [Leads -> Nat]]
    BY <1>2, <2>2, TellTypes DEF Store, LeadTypeOK
  <2>4. row' \in [Leads -> [stage : Stages, enriched : BOOLEAN, contact : Nat]]
        /\ asked' \in [Leads -> Stages] /\ moved' \subseteq Leads
        /\ \A k \in Leads : row'[k].contact = row[k].contact
    <3>1. row' = row \/ Restaged(l, handler[a].want)
      BY <1>2 DEF Store, Stored, Restaged
    <3>2. asked' \in [Leads -> Stages] /\ moved' \subseteq Leads
      BY <1>2, <2>2 DEF Store, Stored, LeadTypeOK
    <3> QED BY <2>2, <3>1, <3>2, StageWritten DEF LeadTypeOK, Rows
  <2>5. handler' \in [Actors -> StageAsked \cup {NoAsk}] /\ missed' \subseteq Leads
    BY <1>2, <2>2 DEF Store, LeadTypeOK
  <2>6. LeadTypeOK'
    BY <1>2, <1>a, <2>3, <2>4, <2>5 DEF Store, LeadTypeOK
  <2> QED BY <1>2, <2>4, <2>6 DEF Store, IdsKnown
<1>3. ASSUME NEW a \in Actors, NEW l \in Leads, EnrichLead(a, l) PROVE LeadTypeOK' /\ IdsKnown'
  BY <1>3, <1>a DEF EnrichLead, LeadTypeOK, IdsKnown, Enriching, crmState
<1>4. ASSUME NEW a \in Actors, CountEnriched(a) PROVE LeadTypeOK' /\ IdsKnown'
  <2>1. job[a] \in Enriching
    BY <1>4, LeadFields DEF CountEnriched
  <2>2. job' \in [Actors -> Enriching \cup {NoJob}]
    <3>1. [job[a] EXCEPT !.at = "lock", !.count = Cardinality(Marked)] \in Enriching
      BY <2>1, MarkedFinite DEF Enriching
    <3> QED BY <1>4, <3>1, LeavesOff DEF CountEnriched, LeadTypeOK
  <2> QED BY <1>4, <1>a, <2>2 DEF CountEnriched, LeadTypeOK, IdsKnown, crmState, leadHistory
<1>5. ASSUME NEW a \in Actors, Reserve(a) PROVE LeadTypeOK' /\ IdsKnown'
  <2>1. job[a] \in Enriching /\ home[a] \in Processes
    BY <1>5, LeadFields DEF Reserve
  <2>2. job' \in [Actors -> Enriching \cup {NoJob}]
    <3>1. Goes(a, "run") \/ Leaves(a)
      BY <1>5 DEF Reserve
    <3> QED BY <2>1, <3>1, GoesOn, LeavesOff
  <2>3. inflight' \in [Processes -> Nat] /\ slips' \in Nat
    BY <1>5, <2>1 DEF Reserve, LeadTypeOK
  <2>4. /\ UNCHANGED <<home, row, handler, waiting, delivery, contacts, happenings>>
        /\ UNCHANGED <<asked, moved, runs, together, unmarked, doubled, orphaned, adopted, missed>>
    BY <1>5 DEF Reserve, crmState
  <2> QED BY <2>2, <2>3, <2>4 DEF LeadTypeOK, IdsKnown
<1>6. ASSUME NEW a \in Actors, RunPipeline(a) PROVE LeadTypeOK' /\ IdsKnown'
  <2>1. job[a] \in Enriching
    BY <1>6, LeadFields DEF RunPipeline
  <2>2. job' \in [Actors -> Enriching \cup {NoJob}]
    <3>1. \A found \in BOOLEAN : [job[a] EXCEPT !.at = "mark", !.found = found] \in Enriching
      BY <2>1 DEF Enriching
    <3> QED BY <1>6, <3>1 DEF RunPipeline, LeadTypeOK
  <2>3. runs' \in [Leads -> Nat]
    BY <1>6, <2>1 DEF RunPipeline, LeadTypeOK, Enriching
  <2> QED BY <1>6, <2>2, <2>3 DEF RunPipeline, LeadTypeOK, IdsKnown, crmState
<1>7. ASSUME NEW a \in Actors, SaveMarker(a) PROVE LeadTypeOK' /\ IdsKnown'
  <2>1. job[a] \in Enriching /\ job[a].lead \in Leads
    BY <1>7, LeadFields DEF SaveMarker, Enriching
  <2>2. job' \in [Actors -> Enriching \cup {NoJob}]
    <3>1. (IF job[a].found THEN "fill" ELSE "end") \in {"fill", "end"}
      OBVIOUS
    <3>2. Goes(a, IF job[a].found THEN "fill" ELSE "end") \/ Goes(a, "end")
      BY <1>7 DEF SaveMarker
    <3> QED BY <2>1, <3>1, <3>2, GoesOn
  <2>3. row' \in [Leads -> [stage : Stages, enriched : BOOLEAN, contact : Nat]]
        /\ \A k \in Leads : row'[k].contact = row[k].contact
    BY <1>7, <2>1, MarkerWritten DEF SaveMarker, LeadTypeOK, Rows
  <2> QED BY <1>7, <1>a, <2>1, <2>2, <2>3 DEF SaveMarker, LeadTypeOK, IdsKnown, crmState
<1>8. ASSUME NEW a \in Actors, FillLead(a) PROVE LeadTypeOK' /\ IdsKnown'
  <2>1. job[a] \in Enriching /\ job[a].lead \in Leads /\ job[a].seen \in Stages
    BY <1>8, LeadFields DEF FillLead, Enriching
  <2>2. job' \in [Actors -> Enriching \cup {NoJob}]
    BY <1>8, <2>1, GoesOn DEF FillLead
  <2>3. row' \in [Leads -> [stage : Stages, enriched : BOOLEAN, contact : Nat]]
        /\ \A k \in Leads : row'[k].contact = row[k].contact
    <3>1. row' = row \/ Restaged(job[a].lead, job[a].seen)
      BY <1>8 DEF FillLead, Filled, Restaged
    <3> QED BY <2>1, <3>1, StageWritten DEF LeadTypeOK, Rows
  <2> QED BY <1>8, <1>a, <2>1, <2>2, <2>3 DEF FillLead, LeadTypeOK, IdsKnown, crmState
<1>9. ASSUME NEW a \in Actors, SavePerson(a) PROVE LeadTypeOK' /\ IdsKnown'
  <2>1. job[a] \in Enriching /\ job[a].lead \in Leads
    BY <1>9, LeadFields DEF SavePerson, Enriching
  <2>2. job' \in [Actors -> Enriching \cup {NoJob}]
    BY <1>9, <2>1, GoesOn DEF SavePerson
  <2> QED BY <1>9, <1>a, <2>1, <2>2 DEF SavePerson, LeadTypeOK, IdsKnown, crmState
<1>10. ASSUME NEW a \in Actors, Release(a) PROVE LeadTypeOK' /\ IdsKnown'
  <2>1. job[a] \in Enriching /\ home[a] \in Processes /\ job[a].lead \in Leads
    BY <1>10, LeadFields DEF Release, Enriching
  <2>2. inflight[home[a]] > 0
    <3>1. a \in JobsIn(home[a])
      BY <1>10 DEF Release, JobsIn
    <3>2. Cardinality(JobsIn(home[a])) # 0
      BY <3>1, JobsInFinite, FS_EmptySet
    <3> QED BY <2>1, <3>2, JobsInFinite DEF InflightCounts
  <2>3. inflight' \in [Processes -> Nat] /\ job' \in [Actors -> Enriching \cup {NoJob}]
    BY <1>10, <2>1, <2>2, LeavesOff DEF Release, LeadTypeOK
  <2>4. waiting' \in [Dispatchers -> [Leads -> Nat]]
    <3>1. <<home[a], "shared">> \in Dispatchers
      BY <2>1 DEF Dispatchers
    <3> QED BY <1>10, <2>1, <3>1, TellTypes DEF Release, LeadTypeOK
  <2> QED BY <1>10, <2>3, <2>4 DEF Release, LeadTypeOK, IdsKnown, leadHistory
<1>11. ASSUME NEW d \in Dispatchers, NEW l \in Leads, Push(d, l) PROVE LeadTypeOK' /\ IdsKnown'
  BY <1>11, <1>a, TellTypes DEF Push, LeadTypeOK, IdsKnown, leadState, leadHistory
<1>12. ASSUME NEW d \in Dispatchers, NEW l \in Leads, LoadLead(d, l)
       PROVE  LeadTypeOK' /\ IdsKnown'
  <2>1. waiting' \in [Dispatchers -> [Leads -> Nat]]
    BY <1>12 DEF LoadLead, LeadTypeOK
  <2>2. delivery' \in [Dispatchers -> [Leads -> Delivering \cup {NoDelivery}]]
        /\ \A e \in Dispatchers, k \in Leads :
              delivery'[e][k] = delivery[e][k] \/ delivery'[e][k].id = row[k].contact
    <3>1. [at |-> "send", stage |-> row[l].stage, id |-> row[l].contact] \in Delivering
      BY DEF Delivering, LeadTypeOK
    <3> DEFINE s == [at |-> "send", stage |-> row[l].stage, id |-> row[l].contact]
    <3>2. delivery' = delivery \/ Becomes(d, l, s)
      BY <1>12 DEF LoadLead, Becomes
    <3>3. s.id = row[l].contact /\ s \in Delivering
      BY <3>1
    <3> HIDE DEF s
    <3>4. CASE Becomes(d, l, s)
      BY <3>3, <3>4, DeliveryMoves DEF Deliveries, Elsewhere
    <3> QED BY <3>2, <3>4 DEF LeadTypeOK
  <2> QED BY <1>12, <1>a, <2>1, <2>2 DEF LoadLead, LeadTypeOK, IdsKnown, leadState
<1>13. ASSUME NEW d \in Dispatchers, NEW l \in Leads, CreateContact(d, l)
       PROVE  LeadTypeOK' /\ IdsKnown'
  <2>1. delivery[d][l] \in Delivering
    BY <1>13, LeadFields DEF CreateContact
  <2>2. delivery[d][l].stage \in Stages /\ contacts \in [Leads -> Seq(0..4)]
    BY <2>1 DEF Delivering, LeadTypeOK
  <2>3. contacts' \in [Leads -> Seq(0..4)]
        /\ (\A k \in Leads : Len(contacts[k]) <= Len(contacts'[k]))
        /\ delivery' \in Deliveries /\ Elsewhere(d, l)
        /\ (delivery'[d][l].at = "idle" \/ delivery'[d][l].id <= Len(contacts'[l]))
    <3>a. ASSUME Made(l, delivery[d][l].stage)
          PROVE  /\ contacts' \in [Leads -> Seq(0..4)] /\ Len(contacts'[l]) = Len(contacts[l]) + 1
                 /\ \A k \in Leads : Len(contacts[k]) <= Len(contacts'[k])
      <4>1. /\ contacts' \in [Leads -> Seq(0..4)] /\ Len(contacts'[l]) = Len(contacts[l]) + 1
            /\ \A k \in Leads \ {l} : contacts'[k] = contacts[k]
        BY <2>2, <3>a, ContactMade
      <4>2. \A k \in Leads : Len(contacts[k]) \in Nat
        BY <2>2
      <4> QED BY <4>1, <4>2
    <3>1. CASE Adopts(d, l)
      <4>1. Len(contacts[l]) >= 1
        BY <2>2, <3>1 DEF Adopts
      <4> QED BY <2>1, <2>2, <3>1, <4>1, DeliverySaves DEF Adopts
    <3>2. CASE Creates(d, l)
      <4>1. Len(contacts[l]) + 1 \in Nat
        BY <2>2
      <4> QED BY <2>1, <2>2, <3>2, <3>a, <4>1, DeliverySaves DEF Creates
    <3>3. CASE LosesId(d, l)
      BY <3>a, <3>3, DeliveryEnds DEF LosesId
    <3>4. CASE GivesUp(d, l)
      BY <2>2, <3>4, DeliveryEnds DEF GivesUp
    <3> QED BY <1>13, <3>1, <3>2, <3>3, <3>4, CreateEnds
  <2>4. /\ happenings' \in 0..MaxHappenings /\ orphaned' \subseteq Leads
        /\ adopted' \subseteq Leads /\ missed' \subseteq Leads
        /\ UNCHANGED <<home, row, handler, job, inflight, waiting, asked, moved, runs, together,
                       unmarked, slips, doubled>>
    BY <1>13, <1>a DEF CreateContact, LeadTypeOK, leadState
  <2>5. LeadTypeOK'
    BY <2>3, <2>4 DEF LeadTypeOK, Deliveries
  <2>6. \A k \in Leads : row'[k].contact <= Len(contacts'[k])
    BY <2>2, <2>3, <2>4 DEF IdsKnown, LeadTypeOK
  <2>7. ASSUME NEW k \in Leads, NEW e \in Dispatchers, delivery'[e][k].at # "idle"
        PROVE  delivery'[e][k].id <= Len(contacts'[k])
    <3>1. CASE e = d /\ k = l
      BY <2>3, <2>7, <3>1
    <3>2. CASE e # d \/ k # l
      <4>1. delivery'[e][k] = delivery[e][k] /\ delivery[e][k] \in Delivering
        BY <2>3, <2>7, <3>2, LeadFields DEF Elsewhere
      <4> QED BY <2>2, <2>3, <2>7, <4>1 DEF IdsKnown, Delivering
    <3> QED BY <3>1, <3>2
  <2> QED BY <2>5, <2>6, <2>7 DEF IdsKnown
<1>14. ASSUME NEW d \in Dispatchers, NEW l \in Leads, SaveId(d, l)
       PROVE  LeadTypeOK' /\ IdsKnown'
  <2>1. delivery[d][l] \in Delivering /\ delivery[d][l].id \in Nat
    BY <1>14, LeadFields DEF SaveId, Delivering
  <2>2. delivery' \in [Dispatchers -> [Leads -> Delivering \cup {NoDelivery}]]
        /\ \A e \in Dispatchers, k \in Leads :
              delivery'[e][k] = delivery[e][k] \/ delivery'[e][k].at = "idle"
    BY <1>14, DeliveryEnds DEF SaveId, Deliveries, Elsewhere
  <2>3. row' \in [Leads -> [stage : Stages, enriched : BOOLEAN, contact : Nat]]
        /\ \A k \in Leads : row'[k].contact <= Len(contacts[k])
    <3>1. delivery[d][l].id <= Len(contacts[l])
      BY <1>14 DEF SaveId, IdsKnown
    <3>2. row' = row \/ KeepId(d, l)
      BY <1>14 DEF SaveId
    <3> QED BY <2>1, <3>1, <3>2, IdWritten DEF LeadTypeOK, IdsKnown, Rows
  <2> QED BY <1>14, <1>a, <2>2, <2>3 DEF SaveId, LeadTypeOK, IdsKnown
<1>15. ASSUME NEW d \in Dispatchers, NEW l \in Leads, PatchContact(d, l)
       PROVE  LeadTypeOK' /\ IdsKnown'
  <2>2. contacts' \in [Leads -> Seq(0..4)]
        /\ \A k \in Leads : Len(contacts'[k]) = Len(contacts[k])
    BY <1>15, ContactPatched
  <2>3. delivery' \in [Dispatchers -> [Leads -> Delivering \cup {NoDelivery}]]
        /\ \A e \in Dispatchers, k \in Leads :
              delivery'[e][k] = delivery[e][k] \/ delivery'[e][k].at = "idle"
    BY <1>15, DeliveryEnds DEF PatchContact, Deliveries, Elsewhere
  <2> QED BY <1>15, <1>a, <2>2, <2>3 DEF PatchContact, LeadTypeOK, IdsKnown, leadState
<1>16. ASSUME NEW p \in Processes, Crash(p) PROVE LeadTypeOK' /\ IdsKnown'
  <2>1. handler' \in [Actors -> StageAsked \cup {NoAsk}]
        /\ job' \in [Actors -> Enriching \cup {NoJob}]
        /\ inflight' \in [Processes -> Nat]
    BY <1>16 DEF Crash, LeadTypeOK
  <2>2. waiting' \in [Dispatchers -> [Leads -> Nat]]
    BY <1>16 DEF Crash, LeadTypeOK
  <2>3. delivery' \in [Dispatchers -> [Leads -> Delivering \cup {NoDelivery}]]
        /\ \A e \in Dispatchers, k \in Leads :
              delivery'[e][k] = delivery[e][k] \/ delivery'[e][k].at = "idle"
    BY <1>16 DEF Crash, LeadTypeOK, NoDelivery
  <2>4. unmarked' \subseteq Leads /\ orphaned' \subseteq Leads /\ missed' \subseteq Leads
    BY <1>16 DEF Crash, LeadTypeOK
  <2> QED BY <1>16, <1>a, <2>1, <2>2, <2>3, <2>4 DEF Crash, LeadTypeOK, IdsKnown
<1>17. CASE UNCHANGED leadVars
  BY <1>17 DEF leadVars, leadState, crmState, leadHistory, LeadTypeOK, IdsKnown
<1>18. ASSUME NEW l \in Leads, TouchedElsewhere(l) PROVE LeadTypeOK' /\ IdsKnown'
  <2>1. contacts' \in [Leads -> Seq(0..4)]
    BY <1>18, ContactTouched
  <2>2. \A k \in Leads : Len(contacts[k]) \in Nat /\ Len(contacts[k]) <= Len(contacts'[k])
    <3>1. \A k \in Leads : Len(contacts[k]) \in Nat
      BY DEF LeadTypeOK
    <3>2. contacts[l] = <<>> => Len(contacts[l]) = 0
      OBVIOUS
    <3> QED BY <1>18, <3>1, <3>2, ContactTouched
  <2>3. \A k \in Leads : /\ row[k].contact \in Nat
                         /\ \A d \in Dispatchers :
                               delivery[d][k].at # "idle" => delivery[d][k].id \in Nat
    BY LeadFields DEF LeadTypeOK, Delivering
  <2>4. \A k \in Leads : Len(contacts'[k]) \in Nat
    BY <2>1
  <2>5. UNCHANGED <<home, leadState, waiting, delivery, leadHistory>> /\ Happens
    BY <1>18 DEF TouchedElsewhere
  <2>6. LeadTypeOK'
    BY <1>a, <2>1, <2>5 DEF leadState, leadHistory, LeadTypeOK
  <2>7. IdsKnown'
    BY <2>2, <2>3, <2>4, <2>5 DEF leadState, IdsKnown
  <2> QED BY <2>6, <2>7
<1> QED
  BY <1>1, <1>2, <1>3, <1>4, <1>5, <1>6, <1>7, <1>8, <1>9, <1>10, <1>11, <1>12, <1>13, <1>14,
     <1>15, <1>16, <1>17, <1>18 DEF LeadNext, Stage, Enrichment, Delivery

----------------------------------------------------------------------------
(* Reservations.                                                           *)

InJob == {"run", "mark", "fill", "person", "tell", "end"}

\* What each enrichment step does to the goroutine's place.
LEMMA JobSteps ==
    ASSUME LeadBase, [LeadNext]_leadVars, ~ \E p \in Processes : Crash(p)
    PROVE  \/ job' = job
           \/ \E a \in Actors, l \in Leads : EnrichLead(a, l)
           \/ \E a \in Actors : CountEnriched(a)
           \/ \E a \in Actors : Reserve(a)
           \/ \E a \in Actors : RunPipeline(a)
           \/ \E a \in Actors : SaveMarker(a)
           \/ \E a \in Actors : FillLead(a)
           \/ \E a \in Actors : SavePerson(a)
           \/ \E a \in Actors : Release(a)
<1>1. \A a \in Actors : Stage(a) => job' = job
  BY DEF Stage, AskStage, Store
<1>2. \A d \in Dispatchers, l \in Leads : Delivery(d, l) => job' = job
  BY DEF Delivery, Push, LoadLead, CreateContact, SaveId, PatchContact, leadState
<1>3. (\E l \in Leads : TouchedElsewhere(l)) \/ UNCHANGED leadVars => job' = job
  BY DEF TouchedElsewhere, leadVars, leadState
<1> QED BY <1>1, <1>2, <1>3 DEF LeadNext, Enrichment

\* The place an enrichment step takes a goroutine from, the one it takes it to, and
\* what else of the goroutine it may change.
StepsJob(a, from, to) ==
    /\ job[a].at \in from /\ job'[a].at \in to
    /\ \A b \in Actors \ {a} : job'[b] = job[b]

LEMMA JobPlaces ==
    ASSUME LeadBase, NEW a \in Actors
    PROVE  /\ \A l \in Leads : EnrichLead(a, l) =>
                 /\ StepsJob(a, {"idle"}, {"count"}) /\ job'[a].lead = l
                 /\ job'[a].seen = row[l].stage
           /\ CountEnriched(a) => StepsJob(a, {"count"}, {"lock", "idle"})
                 /\ (job'[a].at = "lock" =>
                        /\ job'[a].lead = job[a].lead /\ job'[a].seen = job[a].seen
                        /\ job'[a].count = Cardinality(Marked))
           /\ Reserve(a) => StepsJob(a, {"lock"}, {"run", "idle"})
                 /\ (job'[a].at = "run" <=> Fits(a))
           /\ RunPipeline(a) => StepsJob(a, {"run"}, {"mark"})
           /\ SaveMarker(a) => StepsJob(a, {"mark"}, {"fill", "end"})
           /\ FillLead(a) => StepsJob(a, {"fill"}, {"person", "end"})
           /\ SavePerson(a) => StepsJob(a, {"person"}, {"tell", "end"})
           /\ Release(a) => StepsJob(a, {"tell", "end"}, {"idle"})
           /\ /\ Reserve(a) \/ RunPipeline(a) \/ SaveMarker(a) \/ FillLead(a) \/ SavePerson(a)
              /\ job'[a].at # "idle"
              => job'[a].lead = job[a].lead /\ job'[a].seen = job[a].seen
<1> USE DEF LeadBase
<1>1. ASSUME NEW l \in Leads, EnrichLead(a, l)
      PROVE  /\ StepsJob(a, {"idle"}, {"count"}) /\ job'[a].lead = l
             /\ job'[a].seen = row[l].stage
  BY <1>1 DEF EnrichLead, StepsJob, LeadTypeOK
<1>2. ASSUME CountEnriched(a)
      PROVE  /\ StepsJob(a, {"count"}, {"lock", "idle"})
             /\ (job'[a].at = "lock" =>
                    /\ job'[a].lead = job[a].lead /\ job'[a].seen = job[a].seen
                    /\ job'[a].count = Cardinality(Marked))
  <2>1. job[a] \in Enriching
    BY <1>2, LeadFields DEF CountEnriched
  <2> DEFINE r == [job[a] EXCEPT !.at = "lock", !.count = Cardinality(Marked)]
  <2>2. r.at = "lock" /\ r.lead = job[a].lead /\ r.seen = job[a].seen
        /\ r.count = Cardinality(Marked)
    BY <2>1 DEF Enriching
  <2>3. job' = [job EXCEPT ![a] = r] \/ Leaves(a)
    BY <1>2 DEF CountEnriched
  <2> HIDE DEF r
  <2>4. CASE job' = [job EXCEPT ![a] = r]
    BY <1>2, <2>2, <2>4 DEF StepsJob, LeadTypeOK, CountEnriched
  <2>5. CASE Leaves(a)
    BY <1>2, <2>5, LeavesOff DEF StepsJob, CountEnriched
  <2> QED BY <2>3, <2>4, <2>5
<1>3. ASSUME Reserve(a)
      PROVE  /\ StepsJob(a, {"lock"}, {"run", "idle"}) /\ (job'[a].at = "run" <=> Fits(a))
             /\ (job'[a].at # "idle" => job'[a].lead = job[a].lead /\ job'[a].seen = job[a].seen)
  <2>1. job[a] \in Enriching /\ job[a].at = "lock"
    BY <1>3, LeadFields DEF Reserve
  <2>2. (Fits(a) /\ Goes(a, "run")) \/ (~Fits(a) /\ Leaves(a))
    BY <1>3 DEF Reserve
  <2> QED BY <2>1, <2>2, GoesOn, LeavesOff DEF StepsJob
<1>4. ASSUME RunPipeline(a)
      PROVE  /\ StepsJob(a, {"run"}, {"mark"})
             /\ job'[a].lead = job[a].lead /\ job'[a].seen = job[a].seen
  <2>1. job[a] \in Enriching /\ job[a].at = "run"
    BY <1>4, LeadFields DEF RunPipeline
  <2>2. PICK found \in BOOLEAN :
           job' = [job EXCEPT ![a] = [job[a] EXCEPT !.at = "mark", !.found = found]]
    BY <1>4 DEF RunPipeline
  <2> DEFINE r == [job[a] EXCEPT !.at = "mark", !.found = found]
  <2>3. r.at = "mark" /\ r.lead = job[a].lead /\ r.seen = job[a].seen
    BY <2>1 DEF Enriching
  <2>4. job' = [job EXCEPT ![a] = r]
    BY <2>2
  <2> HIDE DEF r
  <2> QED BY <2>1, <2>3, <2>4 DEF StepsJob, LeadTypeOK
<1>5. ASSUME SaveMarker(a)
      PROVE  /\ StepsJob(a, {"mark"}, {"fill", "end"})
             /\ job'[a].lead = job[a].lead /\ job'[a].seen = job[a].seen
  <2>1. job[a] \in Enriching /\ job[a].at = "mark"
    BY <1>5, LeadFields DEF SaveMarker
  <2>2. Goes(a, "fill") \/ Goes(a, "end")
    BY <1>5 DEF SaveMarker
  <2> QED BY <2>1, <2>2, GoesOn DEF StepsJob
<1>6. ASSUME FillLead(a)
      PROVE  /\ StepsJob(a, {"fill"}, {"person", "end"})
             /\ job'[a].lead = job[a].lead /\ job'[a].seen = job[a].seen
  <2>1. job[a] \in Enriching /\ job[a].at = "fill" /\ (Goes(a, "person") \/ Goes(a, "end"))
    BY <1>6, LeadFields DEF FillLead
  <2> QED BY <2>1, GoesOn DEF StepsJob
<1>7. ASSUME SavePerson(a)
      PROVE  /\ StepsJob(a, {"person"}, {"tell", "end"})
             /\ job'[a].lead = job[a].lead /\ job'[a].seen = job[a].seen
  <2>1. job[a] \in Enriching /\ job[a].at = "person" /\ (Goes(a, "tell") \/ Goes(a, "end"))
    BY <1>7, LeadFields DEF SavePerson
  <2> QED BY <2>1, GoesOn DEF StepsJob
<1>8. ASSUME Release(a) PROVE StepsJob(a, {"tell", "end"}, {"idle"})
  BY <1>8, LeavesOff DEF Release, StepsJob
<1> QED BY <1>1, <1>2, <1>3, <1>4, <1>5, <1>6, <1>7, <1>8

\* Who writes the row, and what.
LEMMA RowSteps ==
    ASSUME LeadBase, [LeadNext]_leadVars
    PROVE  \/ row' = row
           \/ \E a \in Actors : /\ Store(a) /\ handler[a] \in StageAsked
                                /\ Restaged(handler[a].lead, handler[a].want)
                                /\ Stored(a, handler[a].lead)
           \/ \E a \in Actors : /\ FillLead(a) /\ job[a] \in Enriching
                                /\ Restaged(job[a].lead, job[a].seen)
           \/ \E a \in Actors : /\ SaveMarker(a) /\ job[a] \in Enriching
                                /\ Mark(job[a].lead, job[a].found)
           \/ \E d \in Dispatchers, l \in Leads : /\ SaveId(d, l) /\ delivery[d][l] \in Delivering
                                                  /\ KeepId(d, l)
<1> USE DEF LeadBase
<1>1. ASSUME NEW a \in Actors, Stage(a)
      PROVE  \/ row' = row
             \/ /\ Store(a) /\ handler[a] \in StageAsked
                /\ Restaged(handler[a].lead, handler[a].want) /\ Stored(a, handler[a].lead)
  BY <1>1, LeadFields DEF Stage, AskStage, Store, Stored, Restaged
<1>2. ASSUME NEW a \in Actors, Enrichment(a)
      PROVE  \/ row' = row
             \/ FillLead(a) /\ job[a] \in Enriching /\ Restaged(job[a].lead, job[a].seen)
             \/ SaveMarker(a) /\ job[a] \in Enriching /\ Mark(job[a].lead, job[a].found)
  BY <1>2, LeadFields
     DEF Enrichment, EnrichLead, CountEnriched, Reserve, RunPipeline, SaveMarker, FillLead, Filled,
         SavePerson, Release, Restaged
<1>3. ASSUME NEW d \in Dispatchers, NEW l \in Leads, Delivery(d, l)
      PROVE  row' = row \/ (SaveId(d, l) /\ delivery[d][l] \in Delivering /\ KeepId(d, l))
  BY <1>3, LeadFields
     DEF Delivery, Push, LoadLead, CreateContact, SaveId, PatchContact, leadState
<1>4. ASSUME \/ \E p \in Processes : Crash(p)
             \/ \E l \in Leads : TouchedElsewhere(l)
             \/ UNCHANGED leadVars
      PROVE  row' = row
  BY <1>4 DEF Crash, TouchedElsewhere, leadVars, leadState
<1> QED BY <1>1, <1>2, <1>3, <1>4 DEF LeadNext

\* Only a marker marks.
LEMMA MarkedSteps ==
    ASSUME LeadBase, [LeadNext]_leadVars
    PROVE  \/ Marked' = Marked
           \/ \E a \in Actors : SaveMarker(a) /\ job[a].lead \in Leads
                                /\ Marked' = Marked \cup {job[a].lead}
<1>1. CASE row' = row
  BY <1>1 DEF Marked
<1>2. ASSUME NEW a \in Actors, handler[a] \in StageAsked,
             Restaged(handler[a].lead, handler[a].want)
      PROVE  Marked' = Marked
  BY <1>2, StageWritten DEF LeadBase, StageAsked, Marked
<1>3. ASSUME NEW a \in Actors, job[a] \in Enriching, Restaged(job[a].lead, job[a].seen)
      PROVE  Marked' = Marked
  BY <1>3, StageWritten DEF LeadBase, Enriching, Marked
<1>4. ASSUME NEW a \in Actors, job[a] \in Enriching, Mark(job[a].lead, job[a].found)
      PROVE  job[a].lead \in Leads /\ Marked' = Marked \cup {job[a].lead}
  <2>1. job[a].lead \in Leads /\ LeadTypeOK
    BY <1>4 DEF LeadBase, Enriching
  <2>2. \A k \in Leads : row'[k].enriched <=> k = job[a].lead \/ row[k].enriched
    BY <1>4, <2>1, MarkerWritten
  <2> QED BY <2>1, <2>2 DEF Marked
<1>5. ASSUME NEW d \in Dispatchers, NEW l \in Leads, delivery[d][l] \in Delivering, KeepId(d, l)
      PROVE  Marked' = Marked
  BY <1>5, IdWritten DEF LeadBase, Delivering, Marked
<1> QED BY <1>1, <1>2, <1>3, <1>4, <1>5, RowSteps

\* Who changes what is reserved.
LEMMA InflightStep ==
    ASSUME LeadBase, [LeadNext]_leadVars
    PROVE  InflightCounts'
<1> USE DEF LeadBase
<1>0. home \in [Actors -> Processes] /\ inflight \in [Processes -> Nat]
  BY LeadAssumption DEF LeadTypeOK
<1>1. ASSUME UNCHANGED <<home, inflight>>,
             \A a \in Actors : job'[a].at \in InJob <=> job[a].at \in InJob
      PROVE  InflightCounts'
  <2>1. \A p \in Processes : JobsIn(p)' = JobsIn(p)
    BY <1>1 DEF JobsIn, InJob
  <2> QED BY <1>1, <2>1 DEF InflightCounts
<1>2. ASSUME NEW a \in Actors, Reserve(a) PROVE InflightCounts'
  <2>1. StepsJob(a, {"lock"}, {"run", "idle"}) /\ (job'[a].at = "run" <=> Fits(a))
        /\ home' = home
    BY <1>2, JobPlaces DEF Reserve
  <2>2. CASE Fits(a)
    <3>1. PICK p \in Processes : p = home[a]
      BY <1>0
    <3>2. inflight' = [inflight EXCEPT ![p] = @ + 1]
      BY <1>2, <2>2, <3>1 DEF Reserve
    <3>3. JobsIn(p)' = JobsIn(p) \cup {a} /\ a \notin JobsIn(p)
      BY <2>1, <2>2, <3>1 DEF JobsIn, StepsJob
    <3>4. \A q \in Processes \ {p} : JobsIn(q)' = JobsIn(q)
      BY <2>1, <3>1 DEF JobsIn, StepsJob
    <3>5. Cardinality(JobsIn(p)') = Cardinality(JobsIn(p)) + 1
      BY <3>3, JobsInFinite, FS_AddElement
    <3> QED BY <1>0, <3>2, <3>4, <3>5 DEF InflightCounts
  <2>3. CASE ~Fits(a)
    <3>1. UNCHANGED <<home, inflight>>
      BY <1>2, <2>3 DEF Reserve
    <3>2. \A b \in Actors : job'[b].at \in InJob <=> job[b].at \in InJob
      BY <2>1, <2>3 DEF StepsJob, InJob
    <3> QED BY <1>1, <3>1, <3>2
  <2> QED BY <2>2, <2>3
<1>3. ASSUME NEW a \in Actors, Release(a) PROVE InflightCounts'
  <2>1. PICK p \in Processes : p = home[a]
    BY <1>0
  <2>2. StepsJob(a, {"tell", "end"}, {"idle"}) /\ home' = home
        /\ inflight' = [inflight EXCEPT ![p] = @ - 1]
    BY <1>3, <2>1, JobPlaces DEF Release
  <2>3. JobsIn(p)' = JobsIn(p) \ {a} /\ a \in JobsIn(p)
    BY <2>1, <2>2 DEF JobsIn, StepsJob
  <2>4. \A q \in Processes \ {p} : JobsIn(q)' = JobsIn(q)
    BY <2>1, <2>2 DEF JobsIn, StepsJob
  <2>5. Cardinality(JobsIn(p)') = Cardinality(JobsIn(p)) - 1
    BY <2>3, JobsInFinite, FS_RemoveElement
  <2> QED BY <1>0, <2>2, <2>4, <2>5 DEF InflightCounts
<1>4. ASSUME NEW p \in Processes, Crash(p) PROVE InflightCounts'
  <2>1. JobsIn(p)' = {} /\ \A q \in Processes \ {p} : JobsIn(q)' = JobsIn(q)
    BY <1>4 DEF Crash, JobsIn, Of, NoJob
  <2>2. inflight' = [inflight EXCEPT ![p] = 0]
    BY <1>4 DEF Crash
  <2> QED BY <1>0, <2>1, <2>2, FS_EmptySet DEF InflightCounts
<1>5. ASSUME NEW a \in Actors, NEW l \in Leads,
             EnrichLead(a, l) \/ CountEnriched(a) \/ RunPipeline(a) \/ SaveMarker(a)
             \/ FillLead(a) \/ SavePerson(a)
      PROVE  InflightCounts'
  <2>1. UNCHANGED <<home, inflight>>
    BY <1>5 DEF EnrichLead, CountEnriched, RunPipeline, SaveMarker, FillLead, SavePerson
  <2>2. \A b \in Actors : job'[b].at \in InJob <=> job[b].at \in InJob
    BY <1>5, JobPlaces DEF StepsJob, InJob
  <2> QED BY <1>1, <2>1, <2>2
<1>6. ASSUME NEW a \in Actors, Stage(a) PROVE InflightCounts'
  <2>1. UNCHANGED <<home, inflight, job>>
    BY <1>6 DEF Stage, AskStage, Store
  <2> QED BY <1>1, <2>1
<1>7. ASSUME NEW d \in Dispatchers, NEW l \in Leads, Delivery(d, l) PROVE InflightCounts'
  <2>1. UNCHANGED <<home, inflight, job>>
    BY <1>7 DEF Delivery, Push, LoadLead, CreateContact, SaveId, PatchContact, leadState
  <2> QED BY <1>1, <2>1
<1>8. CASE (\E l \in Leads : TouchedElsewhere(l)) \/ UNCHANGED leadVars
  BY <1>1, <1>8 DEF TouchedElsewhere, leadVars, leadState
<1>9. ASSUME NEW a \in Actors, Enrichment(a) PROVE InflightCounts'
  <2>1. ASSUME CountEnriched(a) \/ RunPipeline(a) \/ SaveMarker(a) \/ FillLead(a) \/ SavePerson(a)
        PROVE  InflightCounts'
    <3>1. job[a] \in Enriching
      BY <2>1, LeadFields DEF CountEnriched, RunPipeline, SaveMarker, FillLead, SavePerson
    <3> QED BY <1>5, <2>1, <3>1 DEF Enriching
  <2> QED BY <1>2, <1>3, <1>5, <1>9, <2>1 DEF Enrichment
<1> QED BY <1>4, <1>6, <1>7, <1>8, <1>9 DEF LeadNext

LEMMA LeadBaseStep == LeadBase /\ [LeadNext]_leadVars => LeadBase'
BY LeadTypeStep, InflightStep DEF LeadBase

\* The state of a lead, its goroutines and its deliveries stays within the domains
\* the operations are written for, and HubSpot's ids and the Enricher's count are right.
THEOREM LeadTypes == LeadSpec => []LeadTypeOK
<1>1. LeadBase => LeadTypeOK
  BY DEF LeadBase
<1> QED BY <1>1, LeadInitBase, LeadBaseStep, PTL DEF LeadSpec

LEMMA ReserveFits ==
    ASSUME LeadBase, EnrichCapHolds, NEW a \in Actors, Reserve(a)
    PROVE  EnrichCapHolds'
<1> USE DEF LeadBase
<1>1. StepsJob(a, {"lock"}, {"run", "idle"}) /\ (job'[a].at = "run" <=> Fits(a))
      /\ Marked' = Marked /\ slips \in Nat /\ DailyCap \in Nat
  BY LeadAssumption, JobPlaces DEF Reserve, LeadTypeOK, Marked
<1>2. CASE ~Fits(a)
  <2>1. Reserved' = Reserved
    BY <1>1, <1>2 DEF StepsJob, Reserved
  <2>2. slips' = slips
    BY <1>2 DEF Reserve
  <2> QED BY <1>1, <2>1, <2>2 DEF EnrichCapHolds
<1>3. CASE Fits(a)
  <2>1. Reserved' = Reserved \cup {a} /\ a \notin Reserved
    BY <1>1, <1>3 DEF StepsJob, Reserved
  <2>2. Cardinality(Reserved') = Cardinality(Reserved) + 1
    BY <2>1, MarkedFinite, FS_AddElement
  <2>3. slips' = IF Slips(a) THEN slips + 1 ELSE slips
    BY <1>3 DEF Reserve
  <2>4. CASE Slips(a)
    BY <1>1, <2>2, <2>3, <2>4, MarkedFinite DEF EnrichCapHolds
  <2>5. CASE ~Slips(a)
    <3>1. job[a].count = Cardinality(Marked) /\ Reserved \subseteq JobsIn(home[a])
      BY <2>5 DEF Slips, Reserved, JobsIn
    <3>2. Cardinality(Reserved) <= Cardinality(JobsIn(home[a]))
      BY <3>1, JobsInFinite, FS_Subset
    <3>3. Cardinality(Marked) + Cardinality(JobsIn(home[a])) < DailyCap
      BY <1>3, <3>1, LeadFields DEF Fits, InflightCounts
    <3>4. Cardinality(Marked) + Cardinality(Reserved) < DailyCap
      BY <1>1, <3>2, <3>3, MarkedFinite, JobsInFinite
    <3> QED BY <1>1, <2>2, <2>3, <2>5, <3>4, MarkedFinite DEF EnrichCapHolds
  <2> QED BY <2>4, <2>5
<1> QED BY <1>2, <1>3

LEMMA EnrichCapStep ==
    ASSUME LeadBase, EnrichCapHolds, [LeadNext]_leadVars
    PROVE  EnrichCapHolds'
<1> USE DEF LeadBase
<1>1. slips \in Nat /\ DailyCap \in Nat
  BY LeadAssumption DEF LeadTypeOK
<1>2. ASSUME NEW a \in Actors, SaveMarker(a) PROVE EnrichCapHolds'
  <2>1. StepsJob(a, {"mark"}, {"fill", "end"}) /\ slips' = slips
    BY <1>2, JobPlaces DEF SaveMarker
  <2>2. Reserved' = Reserved \ {a} /\ a \in Reserved
    BY <2>1 DEF StepsJob, Reserved
  <2>3. Cardinality(Reserved') = Cardinality(Reserved) - 1
    BY <2>2, MarkedFinite, FS_RemoveElement
  <2>4. Marked' = Marked \/ Marked' = Marked \cup {job[a].lead}
    <3>1. job[a] \in Enriching
      BY <1>2, LeadFields DEF SaveMarker
    <3>2. job[a].lead \in Leads
      BY <3>1 DEF Enriching
    <3>3. row' = row \/ Mark(job[a].lead, job[a].found)
      BY <1>2 DEF SaveMarker
    <3>4. CASE row' = row
      BY <3>4 DEF Marked
    <3>5. CASE Mark(job[a].lead, job[a].found)
      <4>1. \A k \in Leads : row'[k].enriched <=> k = job[a].lead \/ row[k].enriched
        BY <3>2, <3>5, MarkerWritten
      <4> QED BY <3>2, <4>1 DEF Marked
    <3> QED BY <3>3, <3>4, <3>5
  <2>5. Cardinality(Marked') <= Cardinality(Marked) + 1 /\ Cardinality(Marked') \in Nat
    <3>1. CASE Marked' = Marked
      BY <3>1, MarkedFinite
    <3>2. CASE Marked' = Marked \cup {job[a].lead}
      <4>1. Cardinality(Marked \cup {job[a].lead}) =
               IF job[a].lead \in Marked THEN Cardinality(Marked) ELSE Cardinality(Marked) + 1
        BY MarkedFinite, FS_AddElement
      <4> QED BY <3>2, <4>1, MarkedFinite
    <3> QED BY <2>4, <3>1, <3>2
  <2> QED BY <1>1, <2>1, <2>3, <2>5, MarkedFinite DEF EnrichCapHolds
<1>3. ASSUME Marked' = Marked, Reserved' \subseteq Reserved, slips' = slips
      PROVE  EnrichCapHolds'
  <2>1. Cardinality(Reserved') <= Cardinality(Reserved) /\ Cardinality(Reserved') \in Nat
    BY <1>3, MarkedFinite, FS_Subset, FS_CardinalityType
  <2> QED BY <1>1, <1>3, <2>1, MarkedFinite DEF EnrichCapHolds
<1>4. ASSUME NEW p \in Processes, Crash(p) PROVE EnrichCapHolds'
  <2>1. Marked' = Marked /\ Reserved' \subseteq Reserved /\ slips' = slips
    BY <1>4 DEF Crash, Marked, Reserved, NoJob
  <2> QED BY <1>3, <2>1
<1>5. CASE ~(\E p \in Processes : Crash(p)) /\ ~(\E a \in Actors : SaveMarker(a) \/ Reserve(a))
  <2>1. Marked' = Marked
    BY <1>5, MarkedSteps
  <2>2. Reserved' \subseteq Reserved
    <3>1. CASE job' = job
      BY <3>1 DEF Reserved
    <3>2. ASSUME NEW a \in Actors, NEW l \in Leads,
                 EnrichLead(a, l) \/ CountEnriched(a) \/ RunPipeline(a) \/ FillLead(a)
                 \/ SavePerson(a) \/ Release(a)
          PROVE  Reserved' \subseteq Reserved
      BY <3>2, JobPlaces DEF StepsJob, Reserved
    <3>3. ASSUME NEW a \in Actors,
                 CountEnriched(a) \/ RunPipeline(a) \/ FillLead(a) \/ SavePerson(a) \/ Release(a)
          PROVE  Reserved' \subseteq Reserved
      BY <3>3, JobPlaces DEF StepsJob, Reserved
    <3> QED BY <1>5, <3>1, <3>2, <3>3, JobSteps
  <2>3. slips' = slips
    <3>1. \A a \in Actors : Stage(a) => slips' = slips
      BY DEF Stage, AskStage, Store, leadHistory
    <3>2. \A a \in Actors : Enrichment(a) => slips' = slips
      BY <1>5 DEF Enrichment, EnrichLead, CountEnriched, RunPipeline, FillLead, SavePerson,
                  Release, leadHistory
    <3>3. \A d \in Dispatchers, l \in Leads : Delivery(d, l) => slips' = slips
      BY DEF Delivery, Push, LoadLead, CreateContact, SaveId, PatchContact, leadHistory
    <3>4. (\E l \in Leads : TouchedElsewhere(l)) \/ UNCHANGED leadVars => slips' = slips
      BY DEF TouchedElsewhere, leadVars, leadHistory
    <3> QED BY <1>5, <3>1, <3>2, <3>3, <3>4 DEF LeadNext
  <2> QED BY <1>3, <2>1, <2>2, <2>3
<1> QED BY <1>2, <1>4, <1>5, ReserveFits

\* For any number of enrichments, processes and crashes: what is stored and what is
\* reserved stay within ENRICH_DAILY_CAP, but for one more each time that a reservation
\* went by a count that was no longer true or did not see another process (reserve).
THEOREM EnrichWithinCap == LeadSpec => []EnrichCapHolds
<1>1. LeadInit => EnrichCapHolds
  <2> SUFFICES ASSUME LeadInit PROVE EnrichCapHolds
    OBVIOUS
  <2>1. Marked = {} /\ Reserved = {}
    BY DEF LeadInit, Marked, Reserved, NoJob
  <2> QED BY <2>1, FS_EmptySet, LeadAssumption DEF LeadInit, EnrichCapHolds
<1> QED BY <1>1, LeadInitBase, LeadBaseStep, EnrichCapStep, PTL DEF LeadSpec

----------------------------------------------------------------------------
(* The stage.                                                              *)

\* But for a lead that was moved meanwhile, its stage is the one stored last and the
\* one that every enrichment under way will write.
StageInv ==
    \A l \in Leads : l \notin moved =>
        /\ row[l].stage = asked[l]
        /\ \A a \in Holding(l) : job[a].seen = row[l].stage

\* Jobs only leave an older row behind, or read a new one.
LEMMA HoldingSteps ==
    ASSUME LeadBase, [LeadNext]_leadVars, NEW l \in Leads, NEW a \in Holding(l)'
    PROVE  \/ a \in Holding(l) /\ job'[a].seen = job[a].seen
           \/ job'[a].seen = row[l].stage /\ EnrichLead(a, l)
<1> USE DEF LeadBase
<1>1. a \in Actors /\ job'[a].at \in {"count", "lock", "run", "mark", "fill"} /\ job'[a].lead = l
  BY DEF Holding
<1>2. CASE job' = job
  BY <1>1, <1>2 DEF Holding
<1>3. ASSUME NEW b \in Actors, NEW k \in Leads, EnrichLead(b, k)
      PROVE  \/ a \in Holding(l) /\ job'[a].seen = job[a].seen
             \/ job'[a].seen = row[l].stage /\ EnrichLead(a, l)
  BY <1>1, <1>3, JobPlaces DEF StepsJob, Holding
<1>4. ASSUME NEW b \in Actors,
             CountEnriched(b) \/ Reserve(b) \/ RunPipeline(b) \/ SaveMarker(b) \/ FillLead(b)
             \/ SavePerson(b) \/ Release(b)
      PROVE  a \in Holding(l) /\ job'[a].seen = job[a].seen
  <2>1. CASE a # b
    BY <1>1, <1>4, <2>1, JobPlaces DEF StepsJob, Holding
  <2>2. CASE a = b
    BY <1>1, <1>4, <2>2, JobPlaces DEF StepsJob, Holding
  <2> QED BY <2>1, <2>2
<1>5. ASSUME NEW p \in Processes, Crash(p) PROVE a \in Holding(l) /\ job'[a].seen = job[a].seen
  BY <1>1, <1>5 DEF Crash, NoJob, Holding
<1> QED BY <1>2, <1>3, <1>4, <1>5, JobSteps

\* Only the handlers count as somebody who changes a stage.
LEMMA AskedSteps ==
    ASSUME [LeadNext]_leadVars, ~ \E a \in Actors : Store(a)
    PROVE  asked' = asked /\ moved' = moved
<1>1. \A a \in Actors : Stage(a) => UNCHANGED <<asked, moved>>
  BY DEF Stage, AskStage, leadHistory
<1>2. \A a \in Actors : Enrichment(a) => UNCHANGED <<asked, moved>>
  BY DEF Enrichment, EnrichLead, CountEnriched, Reserve, RunPipeline, SaveMarker, FillLead,
         SavePerson, Release, leadHistory
<1>3. \A d \in Dispatchers, l \in Leads : Delivery(d, l) => UNCHANGED <<asked, moved>>
  BY DEF Delivery, Push, LoadLead, CreateContact, SaveId, PatchContact, leadHistory
<1>4. \/ \E p \in Processes : Crash(p)
      \/ \E l \in Leads : TouchedElsewhere(l)
      \/ UNCHANGED leadVars
      => UNCHANGED <<asked, moved>>
  BY DEF Crash, TouchedElsewhere, leadVars, leadHistory
<1> QED BY <1>1, <1>2, <1>3, <1>4 DEF LeadNext

LEMMA StageStep == LeadBase /\ StageInv /\ [LeadNext]_leadVars => StageInv'
<1> SUFFICES ASSUME LeadBase, StageInv, [LeadNext]_leadVars,
                    NEW l \in Leads, l \notin moved'
             PROVE  /\ row'[l].stage = asked'[l]
                    /\ \A a \in Holding(l)' : job'[a].seen = row'[l].stage
  BY DEF StageInv
<1> USE DEF LeadBase
<1>1. ASSUME NEW a \in Actors, Store(a)
      PROVE  /\ row'[l].stage = asked'[l]
             /\ \A b \in Holding(l)' : job'[b].seen = row'[l].stage
  <2>1. handler[a] \in StageAsked /\ job' = job
    BY <1>1, LeadFields DEF Store
  <2>2. handler[a].lead \in Leads /\ handler[a].want \in Stages
    BY <2>1 DEF StageAsked
  <2>3. CASE Stored(a, handler[a].lead)
    <3>1. Restaged(handler[a].lead, handler[a].want)
          /\ asked' = [asked EXCEPT ![handler[a].lead] = handler[a].want]
          /\ moved' = IF Holding(handler[a].lead) # {} THEN moved \cup {handler[a].lead} ELSE moved
      BY <2>3 DEF Stored, Restaged
    <3>2. Holding(l)' = Holding(l)
      BY <2>1 DEF Holding
    <3>3. CASE l = handler[a].lead
      <4>1. Holding(l) = {}
        BY <3>1, <3>3
      <4> QED BY <2>2, <3>1, <3>2, <3>3, <4>1, StageWritten DEF LeadTypeOK
    <3>4. CASE l # handler[a].lead
      <4>1. l \notin moved /\ asked'[l] = asked[l]
        BY <3>1, <3>4 DEF LeadTypeOK
      <4>2. row'[l].stage = row[l].stage
        BY <2>2, <3>1, <3>4, StageWritten
      <4> QED BY <2>1, <3>2, <4>1, <4>2 DEF StageInv
    <3> QED BY <3>3, <3>4
  <2>4. CASE ~Stored(a, handler[a].lead)
    <3>1. UNCHANGED <<row, asked, moved>>
      BY <1>1, <2>4 DEF Store
    <3>2. Holding(l)' = Holding(l)
      BY <2>1 DEF Holding
    <3> QED BY <2>1, <3>1, <3>2 DEF StageInv
  <2> QED BY <2>3, <2>4
<1>2. CASE ~ \E a \in Actors : Store(a)
  <2>1. asked' = asked /\ moved' = moved
    BY <1>2, AskedSteps
  <2>2. row[l].stage = asked[l] /\ \A a \in Holding(l) : job[a].seen = row[l].stage
    BY <2>1 DEF StageInv
  <2>3. row'[l].stage = row[l].stage
    <3>1. ASSUME NEW a \in Actors, FillLead(a), job[a] \in Enriching,
                 Restaged(job[a].lead, job[a].seen)
          PROVE  row'[l].stage = row[l].stage
      <4>1. job[a].lead \in Leads /\ job[a].seen \in Stages
        BY <3>1 DEF Enriching
      <4>2. a \in Holding(job[a].lead)
        BY <3>1 DEF FillLead, Holding
      <4> QED BY <2>2, <3>1, <4>1, <4>2, StageWritten
    <3>2. ASSUME NEW a \in Actors, job[a] \in Enriching, Mark(job[a].lead, job[a].found)
          PROVE  row'[l].stage = row[l].stage
      <4>1. job[a].lead \in Leads
        BY <3>2 DEF Enriching
      <4> QED BY <3>2, <4>1, MarkerWritten
    <3>3. ASSUME NEW d \in Dispatchers, NEW k \in Leads, delivery[d][k] \in Delivering, KeepId(d, k)
          PROVE  row'[l].stage = row[l].stage
      <4>1. delivery[d][k].id \in Nat
        BY <3>3 DEF Delivering
      <4> QED BY <3>3, <4>1, IdWritten
    <3> QED BY <1>2, <3>1, <3>2, <3>3, RowSteps
  <2> QED BY <2>1, <2>2, <2>3, HoldingSteps
<1> QED BY <1>1, <1>2

\* A stage stands until somebody changes it, however many enrichments write the row,
\* but for a lead moved while one of them held an older row (saveEnrichment's UpdateLead).
THEOREM StageIsKept == LeadSpec => []StageStands
<1>1. LeadInit => StageInv
  BY DEF LeadInit, StageInv, Holding, NoJob
<1>2. StageInv => StageStands
  BY DEF StageInv, StageStands
<1> QED BY <1>1, <1>2, LeadInitBase, LeadBaseStep, StageStep, PTL DEF LeadSpec

----------------------------------------------------------------------------
(* Paying once.                                                            *)

\* But for a lead that two enrichments had read, or whose marker got lost: at most one
\* is to pay, it finds the lead unmarked, and what was paid for is marked.
PaidRight(l) ==
    /\ \A a, b \in Paying(l) : a = b
    /\ \A a \in Paying(l) : l \notin Marked /\ (job[a].at # "mark" => runs[l] = 0)
    /\ runs[l] <= 1
    /\ Paying(l) = {} => l \in Marked \/ runs[l] = 0

PaidInv == \A l \in Leads : l \notin together \cup unmarked => PaidRight(l)

\* Only a run of the pipeline counts as one.
LEMMA RunSteps ==
    ASSUME [LeadNext]_leadVars
    PROVE  /\ together \subseteq together' /\ unmarked \subseteq unmarked'
           /\ runs' = runs \/ \E a \in Actors : RunPipeline(a)
<1> DEFINE Kept == together \subseteq together' /\ unmarked \subseteq unmarked'
<1>1. \A a \in Actors : Stage(a) => Kept /\ runs' = runs
  BY DEF Stage, AskStage, Store, leadHistory
<1>2. \A a \in Actors : Enrichment(a) => Kept /\ (runs' = runs \/ RunPipeline(a))
  BY DEF Enrichment, EnrichLead, CountEnriched, Reserve, RunPipeline, SaveMarker, FillLead,
         SavePerson, Release, leadHistory
<1>3. \A d \in Dispatchers, l \in Leads : Delivery(d, l) => Kept /\ runs' = runs
  BY DEF Delivery, Push, LoadLead, CreateContact, SaveId, PatchContact, leadHistory
<1>4. \/ \E p \in Processes : Crash(p)
      \/ \E l \in Leads : TouchedElsewhere(l)
      \/ UNCHANGED leadVars
      => Kept /\ runs' = runs
  BY DEF Crash, TouchedElsewhere, leadVars, leadHistory
<1> QED BY <1>1, <1>2, <1>3, <1>4 DEF LeadNext

LEMMA PaidStep == LeadBase /\ PaidInv /\ [LeadNext]_leadVars => PaidInv'
<1> SUFFICES ASSUME LeadBase, PaidInv, [LeadNext]_leadVars,
                    NEW l \in Leads, l \notin together' \cup unmarked'
             PROVE  PaidRight(l)'
  BY DEF PaidInv
<1> USE DEF LeadBase
<1>1. PaidRight(l) /\ runs[l] \in Nat /\ runs \in [Leads -> Nat]
  BY RunSteps DEF PaidInv, LeadTypeOK
\* Nothing that concerns l.
<1>2. ASSUME Paying(l)' = Paying(l), \A a \in Paying(l) : job'[a].at = "mark" <=> job[a].at = "mark",
             l \in Marked' <=> l \in Marked, runs'[l] = runs[l]
      PROVE  PaidRight(l)'
  BY <1>1, <1>2 DEF PaidRight
\* One that was to pay, and has not, gives up.
<1>3. ASSUME NEW a \in Paying(l), job[a].at # "mark", Paying(l)' = Paying(l) \ {a},
             \A b \in Paying(l) \ {a} : job'[b] = job[b],
             l \in Marked' <=> l \in Marked, runs'[l] = runs[l]
      PROVE  PaidRight(l)'
  BY <1>1, <1>3 DEF PaidRight
<1>4. ASSUME NEW a \in Actors, NEW k \in Leads, EnrichLead(a, k) PROVE PaidRight(l)'
  <2>1. StepsJob(a, {"idle"}, {"count"}) /\ job'[a].lead = k
        /\ Marked' = Marked /\ runs' = runs /\ k \notin Marked
        /\ together' = IF Paying(k) # {} THEN together \cup {k} ELSE together
    BY <1>4, JobPlaces DEF EnrichLead, Marked
  <2>2. CASE k = l
    <3>1. Paying(l) = {} /\ Paying(l)' = {a}
      BY <2>1, <2>2 DEF Paying, StepsJob
    <3> QED BY <1>1, <2>1, <2>2, <3>1 DEF PaidRight
  <2>3. CASE k # l
    <3>1. Paying(l)' = Paying(l) /\ \A b \in Paying(l) : job'[b] = job[b]
      BY <2>1, <2>3 DEF Paying, StepsJob
    <3> QED BY <1>2, <2>1, <3>1
  <2> QED BY <2>2, <2>3
<1>5. ASSUME NEW a \in Actors, CountEnriched(a) \/ Reserve(a) PROVE PaidRight(l)'
  <2>1. job[a].at \in {"count", "lock"} /\ job'[a].at \in {"lock", "run", "idle"}
        /\ (\A b \in Actors \ {a} : job'[b] = job[b])
        /\ (job'[a].at # "idle" => job'[a].lead = job[a].lead)
    BY <1>5, JobPlaces DEF StepsJob
  <2>2. Marked' = Marked /\ runs' = runs
    BY <1>5 DEF CountEnriched, Reserve, leadHistory, Marked
  <2>3. CASE a \in Paying(l) /\ job'[a].at = "idle"
    <3>1. Paying(l)' = Paying(l) \ {a}
      BY <2>1, <2>3 DEF Paying
    <3> QED BY <1>3, <2>1, <2>2, <2>3, <3>1 DEF Paying
  <2>4. CASE ~(a \in Paying(l) /\ job'[a].at = "idle")
    <3>1. Paying(l)' = Paying(l)
      BY <2>1, <2>4 DEF Paying
    <3>2. \A b \in Paying(l) : job'[b].at = "mark" <=> job[b].at = "mark"
      BY <2>1 DEF Paying
    <3> QED BY <1>2, <2>2, <3>1, <3>2
  <2> QED BY <2>3, <2>4
<1>6. ASSUME NEW a \in Actors, RunPipeline(a) PROVE PaidRight(l)'
  <2>1. StepsJob(a, {"run"}, {"mark"}) /\ job'[a].lead = job[a].lead
        /\ Marked' = Marked /\ runs' = [runs EXCEPT ![job[a].lead] = @ + 1]
    BY <1>6, JobPlaces DEF RunPipeline, StepsJob, Marked
  <2>2. Paying(l)' = Paying(l)
    BY <2>1 DEF Paying, StepsJob
  <2>3. CASE a \in Paying(l)
    <3>1. job[a].lead = l /\ runs'[l] = runs[l] + 1 /\ runs[l] = 0
      BY <1>1, <2>1, <2>3 DEF Paying, PaidRight, StepsJob
    <3>2. \A b \in Paying(l) : job'[b].at = "mark"
      BY <1>1, <2>1, <2>3 DEF PaidRight, StepsJob
    <3> QED BY <1>1, <2>1, <2>2, <2>3, <3>1, <3>2 DEF PaidRight
  <2>4. CASE a \notin Paying(l)
    <3>1. job[a].lead # l
      BY <2>1, <2>4 DEF Paying, StepsJob
    <3>2. runs'[l] = runs[l] /\ \A b \in Paying(l) : job'[b] = job[b]
      BY <1>1, <2>1, <2>4, <3>1 DEF StepsJob, Paying
    <3> QED BY <1>2, <2>1, <2>2, <3>2
  <2> QED BY <2>3, <2>4
<1>7. ASSUME NEW a \in Actors, SaveMarker(a) PROVE PaidRight(l)'
  <2>1. StepsJob(a, {"mark"}, {"fill", "end"}) /\ runs' = runs /\ job[a].lead \in Leads
    BY <1>7, JobPlaces, LeadFields DEF SaveMarker, Enriching
  <2>2. row' = row \/ Mark(job[a].lead, job[a].found)
    BY <1>7 DEF SaveMarker
  <2>3. CASE a \in Paying(l)
    <3>1. job[a].lead = l /\ Mark(l, job[a].found)
      BY <1>7, <2>3 DEF Paying, SaveMarker
    <3>2. l \in Marked'
      BY <3>1, MarkerWritten DEF Marked
    <3>3. Paying(l)' = {}
      BY <1>1, <2>1, <2>3 DEF PaidRight, Paying, StepsJob
    <3> QED BY <1>1, <2>1, <3>2, <3>3 DEF PaidRight
  <2>4. CASE a \notin Paying(l)
    <3>1. job[a].lead # l
      BY <2>1, <2>4 DEF Paying, StepsJob
    <3>2. l \in Marked' <=> l \in Marked
      BY <2>1, <2>2, <3>1, MarkerWritten DEF Marked
    <3>3. Paying(l)' = Paying(l) /\ \A b \in Paying(l) : job'[b] = job[b]
      BY <2>1, <2>4 DEF Paying, StepsJob
    <3> QED BY <1>2, <2>1, <3>2, <3>3
  <2> QED BY <2>3, <2>4
<1>8. ASSUME NEW p \in Processes, Crash(p) PROVE PaidRight(l)'
  <2>1. /\ Marked' = Marked /\ runs' = runs
        /\ \A a \in Actors : job'[a] = IF a \in Of(p) THEN NoJob ELSE job[a]
        /\ \A a \in Of(p) : a \in Paying(l) => job[a].at # "mark"
    BY <1>8 DEF Crash, Marked, Of, Paying
  <2>2. CASE \E a \in Paying(l) : a \in Of(p)
    <3>1. PICK a \in Paying(l) : a \in Of(p)
      BY <2>2
    <3>2. Paying(l)' = Paying(l) \ {a} /\ \A b \in Paying(l) \ {a} : job'[b] = job[b]
      BY <1>1, <2>1, <3>1 DEF PaidRight, Paying, NoJob
    <3> QED BY <1>3, <2>1, <3>1, <3>2
  <2>3. CASE ~ \E a \in Paying(l) : a \in Of(p)
    <3>1. Paying(l)' = Paying(l) /\ \A b \in Paying(l) : job'[b] = job[b]
      BY <2>1, <2>3 DEF Paying, NoJob
    <3> QED BY <1>2, <2>1, <3>1
  <2> QED BY <2>2, <2>3
<1>9. CASE /\ ~ \E p \in Processes : Crash(p)
           /\ ~ \E a \in Actors : CountEnriched(a) \/ Reserve(a) \/ RunPipeline(a) \/ SaveMarker(a)
           /\ ~ \E a \in Actors, k \in Leads : EnrichLead(a, k)
  <2>1. Marked' = Marked /\ runs' = runs
    BY <1>9, MarkedSteps, RunSteps
  <2>2. CASE job' = job
    BY <1>2, <2>1, <2>2 DEF Paying
  <2>3. ASSUME NEW a \in Actors, FillLead(a) \/ SavePerson(a) \/ Release(a) PROVE PaidRight(l)'
    <3>1. job[a].at \in {"fill", "person", "tell", "end"} /\ job'[a].at \in {"person", "tell", "end", "idle"}
          /\ \A b \in Actors \ {a} : job'[b] = job[b]
      BY <2>3, JobPlaces DEF StepsJob
    <3>2. Paying(l)' = Paying(l) /\ \A b \in Paying(l) : job'[b] = job[b]
      BY <3>1 DEF Paying
    <3> QED BY <1>2, <2>1, <3>2
  <2> QED BY <1>9, <2>2, <2>3, JobSteps
<1> QED BY <1>4, <1>5, <1>6, <1>7, <1>8, <1>9

\* "Runs the paid pipeline once per lead" (EnrichLead): a lead paid for twice was read by
\* two enrichments before either had marked it, or a marker did not reach the database.
THEOREM PaidOnce == LeadSpec => []PaidOncePerLead
<1>1. LeadInit => PaidInv
  BY DEF LeadInit, PaidInv, PaidRight, Paying, NoJob
<1>2. LeadBase /\ PaidInv => PaidOncePerLead
  BY DEF LeadBase, LeadTypeOK, PaidInv, PaidRight, PaidOncePerLead
<1> QED BY <1>1, <1>2, LeadInitBase, LeadBaseStep, PaidStep, PTL DEF LeadSpec

----------------------------------------------------------------------------
(* Contacts.                                                               *)

\* Who takes a delivery forward.
Delivers(d, l) == LoadLead(d, l) \/ CreateContact(d, l) \/ SaveId(d, l) \/ PatchContact(d, l)

\* HubSpot and the deliveries of l stay as they are.
Quiet(l) ==
    /\ \A d \in Dispatchers : delivery'[d][l] = delivery[d][l]
    /\ contacts'[l] = contacts[l] /\ row'[l].contact = row[l].contact
    /\ l \in adopted' <=> l \in adopted

LEMMA DeliveryPlaces ==
    ASSUME LeadTypeOK, NEW d \in Dispatchers, NEW l \in Leads
    PROVE  delivery[d][l].at \in {"idle", "send", "save"}
BY DEF LeadTypeOK, Delivering, NoDelivery

\* Only SaveId writes the id.
LEMMA ContactIdSteps ==
    ASSUME LeadBase, [LeadNext]_leadVars, NEW l \in Leads
    PROVE  row'[l].contact = row[l].contact \/ \E d \in Dispatchers : SaveId(d, l) /\ KeepId(d, l)
<1> USE DEF LeadBase
<1>1. ASSUME NEW a \in Actors, handler[a] \in StageAsked,
             Restaged(handler[a].lead, handler[a].want)
      PROVE  row'[l].contact = row[l].contact
  BY <1>1, StageWritten DEF StageAsked
<1>2. ASSUME NEW a \in Actors, job[a] \in Enriching, Restaged(job[a].lead, job[a].seen)
      PROVE  row'[l].contact = row[l].contact
  BY <1>2, StageWritten DEF Enriching
<1>3. ASSUME NEW a \in Actors, job[a] \in Enriching, Mark(job[a].lead, job[a].found)
      PROVE  row'[l].contact = row[l].contact
  BY <1>3, MarkerWritten DEF Enriching
<1>4. ASSUME NEW d \in Dispatchers, NEW k \in Leads, delivery[d][k] \in Delivering, KeepId(d, k),
             k # l
      PROVE  row'[l].contact = row[l].contact
  BY <1>4, IdWritten DEF Delivering
<1> QED BY <1>1, <1>2, <1>3, <1>4, RowSteps

\* The four steps of a delivery leave the other leads of HubSpot alone.
LEMMA DeliversOne ==
    ASSUME LeadBase, [LeadNext]_leadVars, NEW d \in Dispatchers, NEW k \in Leads, Delivers(d, k),
           NEW l \in Leads, l # k
    PROVE  Quiet(l)
<1> USE DEF LeadBase
<1>1. CASE LoadLead(d, k)
  <2> DEFINE s == [at |-> "send", stage |-> row[k].stage, id |-> row[k].contact]
  <2>1. s \in Delivering
    BY DEF Delivering, LeadTypeOK
  <2>2. delivery' = delivery \/ Becomes(d, k, s)
    BY <1>1 DEF LoadLead, Becomes
  <2> HIDE DEF s
  <2>3. \A e \in Dispatchers : delivery'[e][l] = delivery[e][l]
    BY <2>1, <2>2, DeliveryMoves DEF Elsewhere
  <2> QED BY <1>1, <2>3 DEF LoadLead, leadState, Quiet
<1>2. CASE CreateContact(d, k)
  <2>1. delivery[d][k] \in Delivering /\ row' = row
    BY <1>2, LeadFields DEF CreateContact, leadState
  <2>2. delivery[d][k].stage \in Stages /\ Len(contacts[k]) + 1 \in Nat
    BY <2>1 DEF Delivering, LeadTypeOK
  <2>3. Elsewhere(d, k)
    BY <1>2, <2>1, <2>2, CreateEnds, DeliverySaves, DeliveryEnds
       DEF Adopts, Creates, LosesId, GivesUp
  <2>4. contacts' = contacts \/ Made(k, delivery[d][k].stage)
    BY <1>2, CreateEnds DEF Adopts, Creates, LosesId, GivesUp
  <2>5. contacts'[l] = contacts[l]
    BY <2>2, <2>4, ContactMade
  <2>6. adopted' = adopted \/ adopted' = adopted \cup {k}
    BY <1>2, CreateEnds DEF Adopts, Creates, LosesId, GivesUp
  <2> QED BY <2>1, <2>3, <2>5, <2>6 DEF Elsewhere, Quiet
<1>3. CASE SaveId(d, k)
  <2>1. Elsewhere(d, k) /\ contacts' = contacts /\ adopted' = adopted
        /\ delivery[d][k] \in Delivering
    BY <1>3, DeliveryEnds, LeadFields DEF SaveId
  <2>2. row' = row \/ KeepId(d, k)
    BY <1>3 DEF SaveId
  <2>3. row'[l].contact = row[l].contact
    BY <2>1, <2>2, IdWritten DEF Delivering
  <2> QED BY <2>1, <2>3 DEF Elsewhere, Quiet
<1>4. CASE PatchContact(d, k)
  <2>1. Elsewhere(d, k) /\ row' = row
    BY <1>4, DeliveryEnds DEF PatchContact, leadState
  <2>2. contacts'[l] = contacts[l] /\ (adopted' = adopted \/ adopted' = adopted \ {k})
    BY <1>4 DEF PatchContact, LeadTypeOK
  <2> QED BY <2>1, <2>2 DEF Elsewhere, Quiet
<1> QED BY <1>1, <1>2, <1>3, <1>4 DEF Delivers

\* What can happen to a lead at HubSpot.
LEMMA ContactSteps ==
    ASSUME LeadBase, [LeadNext]_leadVars, NEW l \in Leads
    PROVE  \/ Quiet(l) /\ ~ \E d \in Dispatchers : Delivers(d, l)
           \/ \E d \in Dispatchers : Delivers(d, l)
           \/ \E p \in Processes : Crash(p)
           \/ TouchedElsewhere(l)
<1>1. \A a \in Actors : Stage(a) \/ Enrichment(a) => UNCHANGED <<delivery, contacts, adopted>>
  BY DEF Stage, AskStage, Store, Enrichment, EnrichLead, CountEnriched, Reserve, RunPipeline,
         SaveMarker, FillLead, SavePerson, Release, crmState, leadHistory
<1>2. \A d \in Dispatchers, k \in Leads : Push(d, k) => UNCHANGED <<delivery, contacts, adopted>>
  BY DEF Push, leadHistory
<1>3. UNCHANGED leadVars => UNCHANGED <<delivery, contacts, adopted>>
  BY DEF leadVars, crmState, leadHistory
<1>4. ASSUME ~ \E d \in Dispatchers : Delivers(d, l), UNCHANGED <<delivery, contacts, adopted>>
      PROVE  Quiet(l)
  BY <1>4, ContactIdSteps DEF Delivers, Quiet
<1>5. ASSUME NEW k \in Leads, TouchedElsewhere(k), k # l,
             ~ \E d \in Dispatchers : Delivers(d, l)
      PROVE  Quiet(l)
  <2>1. contacts'[l] = contacts[l]
    BY <1>5, ContactTouched DEF LeadBase
  <2>2. UNCHANGED <<row, delivery, adopted>>
    BY <1>5 DEF TouchedElsewhere, leadState, leadHistory
  <2> QED BY <2>1, <2>2 DEF Quiet
<1> QED BY <1>1, <1>2, <1>3, <1>4, <1>5, DeliversOne DEF LeadNext, Delivery, Delivers

LEMMA CRMHistory ==
    ASSUME [LeadNext]_leadVars
    PROVE  doubled \subseteq doubled' /\ orphaned \subseteq orphaned' /\ missed \subseteq missed'
<1> DEFINE Kept == doubled \subseteq doubled' /\ orphaned \subseteq orphaned' /\ missed \subseteq missed'
<1>1. \A a \in Actors : Stage(a) => Kept
  BY DEF Stage, AskStage, Store, leadHistory
<1>2. \A a \in Actors : Enrichment(a) => Kept
  BY DEF Enrichment, EnrichLead, CountEnriched, Reserve, RunPipeline, SaveMarker, FillLead,
         SavePerson, Release, leadHistory
<1>3. \A d \in Dispatchers, l \in Leads : Delivery(d, l) => Kept
  BY DEF Delivery, Push, LoadLead, CreateContact, SaveId, PatchContact, leadHistory
<1>4. \/ \E p \in Processes : Crash(p)
      \/ \E l \in Leads : TouchedElsewhere(l)
      \/ UNCHANGED leadVars
      => Kept
  BY DEF Crash, TouchedElsewhere, leadVars, leadHistory
<1> QED BY <1>1, <1>2, <1>3, <1>4 DEF LeadNext

\* But for a lead in two deliveries at once, or whose id got lost: one delivery at most,
\* which goes by the stored id, and a contact's id is stored or about to be, or will be
\* named by a 409.
ContactRight(l) ==
    /\ \A d, e \in Dispatchers : delivery[d][l].at # "idle" /\ delivery[e][l].at # "idle" => d = e
    /\ Len(contacts[l]) <= 1
    /\ \A d \in Dispatchers : delivery[d][l].at = "send" => delivery[d][l].id = row[l].contact
    /\ \A d \in Dispatchers : delivery[d][l].at = "save" => delivery[d][l].id = 1 /\ Len(contacts[l]) = 1
    /\ Len(contacts[l]) = 1 /\ l \notin WithEmail =>
          row[l].contact = 1 \/ \E d \in Dispatchers : delivery[d][l].at = "save"

ContactInv == \A l \in Leads : l \notin doubled \cup orphaned => ContactRight(l)

\* Under it a contact that is created is the first.
LEMMA FirstContact ==
    ASSUME LeadBase, NEW d \in Dispatchers, NEW l \in Leads, ContactRight(l),
           delivery[d][l].at = "send", delivery[d][l].id = 0,
           ~(l \in WithEmail /\ contacts[l] # <<>>)
    PROVE  contacts[l] = <<>> /\ Len(contacts[l]) = 0 /\ row[l].contact = 0
<1>1. row[l].contact = 0
  BY DEF ContactRight
<1>2. contacts[l] \in Seq(0..4)
  BY DEF LeadBase, LeadTypeOK
<1>3. CASE l \notin WithEmail
  <2>1. ~ \E e \in Dispatchers : delivery[e][l].at = "save"
    BY DEF ContactRight
  <2>2. Len(contacts[l]) # 1 /\ Len(contacts[l]) <= 1 /\ Len(contacts[l]) \in Nat
    BY <1>1, <1>2, <1>3, <2>1 DEF ContactRight
  <2> DEFINE n == Len(contacts[l])
  <2>3. n \in Nat /\ n # 1 /\ n <= 1
    BY <2>2
  <2> HIDE DEF n
  <2>4. n = 0
    BY <2>3
  <2>5. Len(contacts[l]) = 0
    BY <2>4 DEF n
  <2> QED BY <1>1, <1>2, <2>5
<1>4. CASE l \in WithEmail
  BY <1>1, <1>2, <1>4
<1> QED BY <1>3, <1>4

LEMMA LoadedRight ==
    ASSUME LeadBase, NEW d \in Dispatchers, NEW l \in Leads, LoadLead(d, l), ContactRight(l),
           l \notin doubled'
    PROVE  /\ row' = row /\ contacts' = contacts
           /\ \/ delivery' = delivery /\ missed' = missed \cup {l}
              \/ /\ delivery'[d][l].at = "send" /\ delivery'[d][l].id = row[l].contact
                 /\ delivery'[d][l].stage = row[l].stage
                 /\ \A e \in Dispatchers \ {d} : delivery'[e][l].at = "idle"
                 /\ \A e \in Dispatchers : delivery[e][l].at = "idle"
<1> DEFINE s == [at |-> "send", stage |-> row[l].stage, id |-> row[l].contact]
<1>1. s \in Delivering /\ s.at = "send" /\ s.id = row[l].contact /\ s.stage = row[l].stage
  BY DEF LeadBase, Delivering, LeadTypeOK
<1>2. \/ /\ Becomes(d, l, s)
         /\ doubled' = IF Beside(d, l) # {} THEN doubled \cup {l} ELSE doubled
      \/ delivery' = delivery /\ missed' = missed \cup {l}
  BY DEF LoadLead, Becomes
<1> HIDE DEF s
<1>3. row' = row /\ contacts' = contacts /\ delivery[d][l].at = "idle"
  BY DEF LoadLead, leadState
<1>4. ASSUME Becomes(d, l, s), Beside(d, l) = {}
      PROVE  /\ delivery'[d][l] = s
             /\ \A e \in Dispatchers \ {d} : delivery'[e][l].at = "idle"
             /\ \A e \in Dispatchers : delivery[e][l].at = "idle"
  BY <1>1, <1>3, <1>4, DeliveryMoves DEF LeadBase, Beside, Elsewhere
<1> QED BY <1>1, <1>2, <1>3, <1>4

LEMMA ContactStep == LeadBase /\ ContactInv /\ [LeadNext]_leadVars => ContactInv'
<1> SUFFICES ASSUME LeadBase, ContactInv, [LeadNext]_leadVars,
                    NEW l \in Leads, l \notin doubled' \cup orphaned'
             PROVE  ContactRight(l)'
  BY DEF ContactInv
<1>1. ContactRight(l) /\ l \notin doubled /\ l \notin orphaned
  BY CRMHistory DEF ContactInv
<1>t. LeadTypeOK /\ contacts[l] \in Seq(0..4) /\ Len(contacts[l]) \in Nat
  BY DEF LeadBase, LeadTypeOK
<1>2. CASE Quiet(l)
  BY <1>1, <1>2 DEF Quiet, ContactRight
<1>3. ASSUME NEW d \in Dispatchers, LoadLead(d, l) PROVE ContactRight(l)'
  BY <1>1, <1>3, LoadedRight DEF ContactRight
<1>4. ASSUME NEW d \in Dispatchers, CreateContact(d, l) PROVE ContactRight(l)'
  <2>1. delivery[d][l].at = "send" /\ delivery[d][l].id = 0 /\ delivery[d][l] \in Delivering
        /\ row' = row
    BY <1>4, LeadFields, <1>t DEF CreateContact, leadState
  <2>2. \A e \in Dispatchers \ {d} : delivery[e][l].at = "idle"
    BY <1>1, <2>1 DEF ContactRight
  <2>3. CASE Creates(d, l)
    <3>1. contacts[l] = <<>> /\ Len(contacts[l]) = 0
      BY <1>1, <2>1, <2>3, FirstContact DEF Creates
    <3>2. delivery'[d][l].at = "save" /\ delivery'[d][l].id = 1
          /\ \A e \in Dispatchers \ {d} : delivery'[e][l].at = "idle"
      <4>1. Saves(d, l, 1)
        BY <2>3, <3>1 DEF Creates
      <4> QED BY <1>t, <2>1, <2>2, <4>1, DeliverySaves DEF Elsewhere
    <3>3. Len(contacts'[l]) = 1
      <4>1. delivery[d][l].stage \in Stages /\ Made(l, delivery[d][l].stage)
        BY <2>1, <2>3 DEF Creates, Delivering
      <4>2. Len(contacts'[l]) = Len(contacts[l]) + 1
        BY <1>t, <4>1, ContactMade
      <4> QED BY <3>1, <4>2
    <3> QED BY <3>2, <3>3 DEF ContactRight
  <2>4. CASE GivesUp(d, l)
    <3>1. \A e \in Dispatchers : delivery'[e][l].at = "idle"
      BY <1>t, <2>2, <2>4, DeliveryEnds DEF GivesUp, Elsewhere
    <3>2. contacts' = contacts /\ ~ \E e \in Dispatchers : delivery[e][l].at = "save"
      BY <2>1, <2>2, <2>4 DEF GivesUp
    <3> QED BY <1>1, <2>1, <3>1, <3>2 DEF ContactRight
  <2>5. CASE Adopts(d, l)
    <3>1. Len(contacts'[l]) = 1
      <4>1. Len(contacts[l]) >= 1 /\ contacts' = contacts
        BY <1>t, <2>5 DEF Adopts
      <4>2. Len(contacts[l]) <= 1
        BY <1>1 DEF ContactRight
      <4> DEFINE n == Len(contacts[l])
      <4>3. n \in Nat /\ n >= 1 /\ n <= 1
        BY <1>t, <4>1, <4>2
      <4> HIDE DEF n
      <4>4. n = 1
        BY <4>3
      <4> QED BY <4>1, <4>4 DEF n
    <3>2. delivery'[d][l].at = "save" /\ delivery'[d][l].id = 1
          /\ \A e \in Dispatchers \ {d} : delivery'[e][l].at = "idle"
      BY <1>t, <2>1, <2>2, <2>5, DeliverySaves DEF Adopts, Elsewhere
    <3> QED BY <3>1, <3>2 DEF ContactRight
  <2>6. ~LosesId(d, l)
    BY DEF LosesId
  <2> QED BY <1>4, <2>3, <2>4, <2>5, <2>6, CreateEnds
<1>5. ASSUME NEW d \in Dispatchers, SaveId(d, l) PROVE ContactRight(l)'
  <2>1. delivery[d][l].at = "save" /\ delivery[d][l].id = 1 /\ Len(contacts[l]) = 1
        /\ \A e \in Dispatchers \ {d} : delivery[e][l].at = "idle"
    BY <1>1, <1>5 DEF SaveId, ContactRight
  <2>2. contacts' = contacts /\ KeepId(d, l)
    BY <1>5 DEF SaveId
  <2>3. row'[l].contact = 1
    BY <1>t, <2>1, <2>2, IdWritten
  <2>4. \A e \in Dispatchers : delivery'[e][l].at = "idle"
    BY <1>t, <1>5, <2>1, DeliveryEnds DEF SaveId, Elsewhere
  <2>5. Len(contacts'[l]) = 1
    BY <2>1, <2>2
  <2>6. \A e \in Dispatchers : delivery'[e][l].at # "send" /\ delivery'[e][l].at # "save"
    BY <2>4
  <2> QED BY <2>3, <2>4, <2>5, <2>6 DEF ContactRight
<1>6. ASSUME NEW d \in Dispatchers, PatchContact(d, l) PROVE ContactRight(l)'
  <2>1. delivery[d][l].at = "send" /\ row' = row /\ Len(contacts'[l]) = Len(contacts[l])
        /\ \A e \in Dispatchers \ {d} : delivery[e][l].at = "idle"
    BY <1>1, <1>6, ContactPatched DEF PatchContact, leadState, ContactRight
  <2>2. \A e \in Dispatchers : delivery'[e][l].at = "idle"
    BY <1>t, <1>6, <2>1, DeliveryEnds DEF PatchContact, Elsewhere
  <2> QED BY <1>1, <2>1, <2>2 DEF ContactRight
<1>7. ASSUME NEW p \in Processes, Crash(p) PROVE ContactRight(l)'
  <2>1. row' = row /\ contacts' = contacts
        /\ \A d \in Dispatchers :
              delivery'[d][l] = delivery[d][l]
              \/ (delivery'[d][l].at = "idle" /\ delivery[d][l].at # "save")
    BY <1>7 DEF Crash, NoDelivery
  <2> QED BY <1>1, <2>1 DEF ContactRight
<1>8. CASE TouchedElsewhere(l)
  <2>1. row' = row /\ delivery' = delivery /\ l \in WithEmail
    BY <1>8 DEF TouchedElsewhere, leadState
  <2>2. Len(contacts'[l]) <= 1 /\ (Len(contacts[l]) = 1 => Len(contacts'[l]) = 1)
    <3>1. Len(contacts[l]) <= 1
      BY <1>1 DEF ContactRight
    <3>2. CASE contacts[l] = <<>> /\ Len(contacts'[l]) = 1
      BY <3>2
    <3>3. CASE Len(contacts'[l]) = Len(contacts[l])
      BY <3>1, <3>3
    <3> QED BY <1>8, <1>t, <3>2, <3>3, ContactTouched
  <2> QED BY <1>1, <2>1, <2>2 DEF ContactRight
<1> QED BY <1>2, <1>3, <1>4, <1>5, <1>6, <1>7, <1>8, ContactSteps DEF Delivers

\* "lead.created and a quick follow-up event can't both see no CRM id yet" (deliver): a
\* lead gets a second contact only if two dispatchers, each with a mutex of its own, had it
\* at once, or if the id of the first was never stored.
THEOREM OneContact == LeadSpec => []OneContactPerLead
<1>1. LeadInit => ContactInv
  BY DEF LeadInit, ContactInv, ContactRight, NoDelivery
<1>2. LeadBase /\ ContactInv => OneContactPerLead
  BY DEF LeadBase, LeadTypeOK, ContactInv, ContactRight, OneContactPerLead
<1> QED BY <1>1, <1>2, LeadInitBase, LeadBaseStep, ContactStep, PTL DEF LeadSpec

----------------------------------------------------------------------------
(* The stage at HubSpot.                                                   *)

\* A delivery of l is due, or an enrichment is about to ask for one.
Pending(l) ==
    \/ \E d \in Dispatchers : waiting[d][l] > 0
    \/ \E a \in Actors : job[a].at \in {"person", "tell"} /\ job[a].lead = l

LEMMA ToldPends ==
    ASSUME LeadTypeOK, NEW d \in Dispatchers, NEW k \in Leads, Tell(d, k), NEW l \in Leads
    PROVE  /\ \A e \in Dispatchers : waiting'[e][l] >= waiting[e][l]
           /\ l = k => waiting'[d][l] > 0
BY DEF Tell, LeadTypeOK

\* Goroutines in Emit only get more, but for a delivery that begins and a crash.
LEMMA WaitingSteps ==
    ASSUME LeadBase, [LeadNext]_leadVars, NEW l \in Leads,
           ~ \E d \in Dispatchers : LoadLead(d, l), ~ \E p \in Processes : Crash(p)
    PROVE  \A d \in Dispatchers : waiting[d][l] > 0 => waiting'[d][l] > 0
<1> USE DEF LeadBase
<1>t. waiting \in [Dispatchers -> [Leads -> Nat]]
  BY DEF LeadTypeOK
<1>0. ASSUME waiting' = waiting \/ \E d \in Dispatchers, k \in Leads : Tell(d, k)
      PROVE  \A d \in Dispatchers : waiting[d][l] > 0 => waiting'[d][l] > 0
  <2>1. CASE waiting' = waiting
    BY <2>1
  <2>2. ASSUME NEW d \in Dispatchers, NEW k \in Leads, Tell(d, k)
        PROVE  \A e \in Dispatchers : waiting[e][l] > 0 => waiting'[e][l] > 0
    BY <1>t, <2>2 DEF Tell
  <2> QED BY <1>0, <2>1, <2>2
<1>1. ASSUME NEW a \in Actors, Stage(a)
      PROVE  waiting' = waiting \/ \E d \in Dispatchers, k \in Leads : Tell(d, k)
  <2>1. CASE Store(a)
    <3>1. handler[a] \in StageAsked
      BY <2>1, LeadFields DEF Store
    <3>2. handler[a].lead \in Leads /\ <<home[a], "router">> \in Dispatchers
      BY <3>1, LeadFields DEF StageAsked, Dispatchers
    <3>3. waiting' = waiting \/ Tell(<<home[a], "router">>, handler[a].lead)
      BY <2>1 DEF Store
    <3> QED BY <3>2, <3>3
  <2> QED BY <1>1, <2>1 DEF Stage, AskStage, crmState
<1>2. ASSUME NEW a \in Actors, Enrichment(a)
      PROVE  waiting' = waiting \/ \E d \in Dispatchers, k \in Leads : Tell(d, k)
  <2>1. CASE Release(a)
    <3>1. job[a] \in Enriching
      BY <2>1, LeadFields DEF Release
    <3>2. job[a].lead \in Leads /\ <<home[a], "shared">> \in Dispatchers
      BY <3>1, LeadFields DEF Enriching, Dispatchers
    <3>3. waiting' = waiting \/ Tell(<<home[a], "shared">>, job[a].lead)
      BY <2>1 DEF Release
    <3> QED BY <3>2, <3>3
  <2> QED BY <1>2, <2>1 DEF Enrichment, EnrichLead, CountEnriched, Reserve, RunPipeline,
                            SaveMarker, FillLead, SavePerson, crmState
<1>3. ASSUME NEW d \in Dispatchers, NEW k \in Leads, Delivery(d, k), k # l \/ ~LoadLead(d, k)
      PROVE  \A e \in Dispatchers : waiting[e][l] > 0 => waiting'[e][l] > 0
  <2>1. CASE LoadLead(d, k)
    <3>1. waiting' = [waiting EXCEPT ![d][k] = @ - 1] /\ k # l
      BY <1>3, <2>1 DEF LoadLead
    <3> QED BY <1>t, <3>1
  <2>2. CASE Push(d, k)
    BY <1>0, <2>2 DEF Push
  <2>3. CASE CreateContact(d, k) \/ SaveId(d, k) \/ PatchContact(d, k)
    BY <2>3 DEF CreateContact, SaveId, PatchContact
  <2> QED BY <1>3, <2>1, <2>2, <2>3 DEF Delivery
<1>4. (\E k \in Leads : TouchedElsewhere(k)) \/ UNCHANGED leadVars => waiting' = waiting
  BY DEF TouchedElsewhere, leadVars, crmState
<1> QED BY <1>0, <1>1, <1>2, <1>3, <1>4 DEF LeadNext

LEMMA PendingSteps ==
    ASSUME LeadBase, [LeadNext]_leadVars, NEW l \in Leads, Pending(l),
           ~ \E d \in Dispatchers : LoadLead(d, l)
    PROVE  Pending(l)' \/ l \in missed'
<1> USE DEF LeadBase
<1>1. ASSUME NEW p \in Processes, Crash(p) PROVE Pending(l)' \/ l \in missed'
  <2>1. CASE l \in missed'
    BY <2>1
  <2>2. CASE l \notin missed'
    <3>1. \A d \in Dispatchers : waiting[d][l] > 0 => waiting'[d][l] = waiting[d][l]
      BY <1>1, <2>2 DEF Crash
    <3>2. \A a \in Actors : job[a].at \in {"person", "tell"} /\ job[a].lead = l => job'[a] = job[a]
      BY <1>1, <2>2 DEF Crash, Of
    <3> QED BY <3>1, <3>2 DEF Pending
  <2> QED BY <2>1, <2>2
<1>2. ASSUME NEW d \in Dispatchers, waiting[d][l] > 0, ~ \E p \in Processes : Crash(p)
      PROVE  Pending(l)'
  BY <1>2, WaitingSteps DEF Pending
<1>3. ASSUME NEW a \in Actors, job[a].at \in {"person", "tell"}, job[a].lead = l,
             ~ \E p \in Processes : Crash(p)
      PROVE  Pending(l)' \/ l \in missed'
  <2>1. CASE SavePerson(a)
    <3>1. job[a] \in Enriching /\ job[a].lead = l
      BY <1>3, LeadFields
    <3>2. Goes(a, "tell") \/ l \in missed'
      BY <2>1, <3>1 DEF SavePerson
    <3> QED BY <3>1, <3>2, GoesOn DEF Pending
  <2>2. CASE Release(a)
    <3>1. job[a].at = "tell" /\ <<home[a], "shared">> \in Dispatchers
      BY <1>3, <2>2, LeadFields DEF Release, Dispatchers
    <3>2. Tell(<<home[a], "shared">>, l)
      BY <1>3, <2>2, <3>1 DEF Release
    <3> QED BY <3>1, <3>2, ToldPends DEF Pending
  <2>3. CASE ~SavePerson(a) /\ ~Release(a)
    <3>1. \/ job' = job
          \/ \E b \in Actors \ {a} : job'[a] = job[a]
      <4>1. \A b \in Actors, k \in Leads : EnrichLead(b, k) => b # a /\ job'[a] = job[a]
        BY <1>3, JobPlaces DEF StepsJob
      <4>2. \A b \in Actors : CountEnriched(b) \/ Reserve(b) \/ RunPipeline(b) \/ SaveMarker(b)
                              \/ FillLead(b) => b # a /\ job'[a] = job[a]
        BY <1>3, JobPlaces DEF StepsJob
      <4>3. \A b \in Actors : SavePerson(b) \/ Release(b) => b # a /\ job'[a] = job[a]
        BY <2>3, JobPlaces DEF StepsJob
      <4> QED BY <1>3, <4>1, <4>2, <4>3, JobSteps
    <3> QED BY <1>3, <3>1 DEF Pending
  <2> QED BY <2>1, <2>2, <2>3
<1> QED BY <1>1, <1>2, <1>3 DEF Pending

\* A stage that changes is on its way to the CRM, or was not told.
LEMMA StageTold ==
    ASSUME LeadBase, [LeadNext]_leadVars, NEW l \in Leads
    PROVE  row'[l].stage = row[l].stage \/ Pending(l)' \/ l \in missed'
<1> USE DEF LeadBase
<1>1. ASSUME NEW a \in Actors, Store(a), handler[a] \in StageAsked,
             Restaged(handler[a].lead, handler[a].want)
      PROVE  row'[l].stage = row[l].stage \/ Pending(l)' \/ l \in missed'
  <2>1. handler[a].lead \in Leads /\ handler[a].want \in Stages /\ <<home[a], "router">> \in Dispatchers
    BY <1>1, LeadFields DEF StageAsked, Dispatchers, Store
  <2>2. CASE handler[a].lead # l
    BY <1>1, <2>1, <2>2, StageWritten
  <2>3. CASE handler[a].lead = l /\ row'[l] # row[l]
    <3>1. Tell(<<home[a], "router">>, l) \/ l \in missed'
      BY <1>1, <2>3 DEF Store, Tells
    <3> QED BY <2>1, <3>1, ToldPends DEF Pending
  <2> QED BY <2>2, <2>3
<1>2. ASSUME NEW a \in Actors, FillLead(a), job[a] \in Enriching,
             Restaged(job[a].lead, job[a].seen)
      PROVE  row'[l].stage = row[l].stage \/ Pending(l)' \/ l \in missed'
  <2>1. job[a].lead \in Leads /\ job[a].seen \in Stages
    BY <1>2 DEF Enriching
  <2>2. CASE job[a].lead # l
    BY <1>2, <2>1, <2>2, StageWritten
  <2>3. CASE job[a].lead = l
    <3>1. Goes(a, "person") \/ l \in missed'
      BY <1>2, <2>3 DEF FillLead
    <3> QED BY <1>2, <2>3, <3>1, GoesOn DEF Pending
  <2> QED BY <2>2, <2>3
<1>3. ASSUME NEW a \in Actors, job[a] \in Enriching, Mark(job[a].lead, job[a].found)
      PROVE  row'[l].stage = row[l].stage
  BY <1>3, MarkerWritten DEF Enriching
<1>4. ASSUME NEW d \in Dispatchers, NEW k \in Leads, delivery[d][k] \in Delivering, KeepId(d, k)
      PROVE  row'[l].stage = row[l].stage
  BY <1>4, IdWritten DEF Delivering
<1> QED BY <1>1, <1>2, <1>3, <1>4, RowSteps

\* But for a lead with overlapping or failed deliveries or an untold change: what is sent
\* is the lead's stage, or more is due; and so is, or better, what was just created and
\* what is there, but for a contact that was there before.
FreshRight(l) ==
    /\ \A d \in Dispatchers :
          delivery[d][l].at = "send" => delivery[d][l].stage = row[l].stage \/ Pending(l)
    /\ l \notin adopted => \A d \in Dispatchers :
          delivery[d][l].at = "save" =>
             contacts[l][delivery[d][l].id] >= Rank[row[l].stage] \/ Pending(l)
    /\ /\ l \notin adopted /\ row[l].contact # 0
       /\ \A d \in Dispatchers : delivery[d][l].at = "idle"
       => contacts[l][row[l].contact] >= Rank[row[l].stage] \/ Pending(l)

FreshInv == \A l \in Leads : l \notin doubled \cup orphaned \cup missed => FreshRight(l)

LEMMA FreshStep == LeadBase /\ ContactInv /\ FreshInv /\ [LeadNext]_leadVars => FreshInv'
<1> SUFFICES ASSUME LeadBase, ContactInv, FreshInv, [LeadNext]_leadVars,
                    NEW l \in Leads, l \notin doubled' \cup orphaned' \cup missed'
             PROVE  FreshRight(l)'
  BY DEF FreshInv
<1>1. FreshRight(l) /\ ContactRight(l)
  BY CRMHistory DEF FreshInv, ContactInv
<1>t. LeadTypeOK /\ contacts[l] \in Seq(0..4) /\ Rank[row[l].stage] \in 0..4
  BY DEF LeadBase, LeadTypeOK, Stages, Rank
<1>2. CASE Quiet(l) /\ ~ \E d \in Dispatchers : Delivers(d, l)
  <2>1. Pending(l)' \/ (~Pending(l) /\ row'[l].stage = row[l].stage)
    BY <1>2, PendingSteps, StageTold DEF Delivers
  <2>2. CASE Pending(l)'
    BY <2>2 DEF FreshRight
  <2>3. CASE ~Pending(l) /\ row'[l].stage = row[l].stage
    BY <1>1, <1>2, <2>3 DEF Quiet, FreshRight
  <2> QED BY <2>1, <2>2, <2>3
<1>3. ASSUME NEW d \in Dispatchers, LoadLead(d, l) PROVE FreshRight(l)'
  <2>1. adopted' = adopted
    BY <1>3 DEF LoadLead
  <2> QED BY <1>1, <1>3, <2>1, LoadedRight DEF FreshRight
\* The other three leave stages and what is due alone.
<1>4. ASSUME NEW d \in Dispatchers, CreateContact(d, l) \/ SaveId(d, l) \/ PatchContact(d, l)
      PROVE  /\ Pending(l)' = Pending(l) /\ row'[l].stage = row[l].stage
             /\ \A e \in Dispatchers \ {d} : delivery[e][l].at = "idle" /\ delivery'[e][l].at = "idle"
  <2>1. waiting' = waiting /\ job' = job
    BY <1>4 DEF CreateContact, SaveId, PatchContact, leadState
  <2>2. row'[l].stage = row[l].stage
    <3>1. CASE SaveId(d, l)
      <4>1. delivery[d][l].id \in Nat
        BY <1>t, <3>1, LeadFields DEF SaveId, Delivering
      <4> QED BY <1>t, <3>1, <4>1, IdWritten DEF SaveId
    <3> QED BY <1>4, <3>1 DEF CreateContact, PatchContact, leadState
  <2>3. \A e \in Dispatchers \ {d} : delivery[e][l].at = "idle"
    BY <1>1, <1>4 DEF CreateContact, SaveId, PatchContact, ContactRight
  <2>4. Elsewhere(d, l)
    <3>1. CASE CreateContact(d, l)
      <4>1. delivery[d][l] \in Delivering /\ Len(contacts[l]) + 1 \in Nat
        BY <1>t, <3>1, LeadFields DEF CreateContact
      <4> QED BY <1>t, <3>1, <4>1, CreateEnds, DeliverySaves, DeliveryEnds
              DEF Adopts, Creates, LosesId, GivesUp
    <3> QED BY <1>4, <1>t, <3>1, DeliveryEnds DEF SaveId, PatchContact
  <2> QED BY <2>1, <2>2, <2>3, <2>4 DEF Pending, Elsewhere
<1>5. ASSUME NEW d \in Dispatchers, CreateContact(d, l) PROVE FreshRight(l)'
  <2>1. delivery[d][l].at = "send" /\ delivery[d][l].id = 0 /\ delivery[d][l] \in Delivering
    BY <1>5, LeadFields, <1>t DEF CreateContact
  <2>2. Creates(d, l) \/ Adopts(d, l)
    BY <1>5, CreateEnds DEF LosesId, GivesUp
  <2>3. delivery'[d][l].at = "save"
    BY <1>t, <2>1, <2>2, DeliverySaves DEF Creates, Adopts
  <2>4. \A e \in Dispatchers : delivery'[e][l].at # "send" /\ (delivery'[e][l].at = "save" => e = d)
    BY <1>4, <1>5, <2>3
  <2>5. CASE Adopts(d, l)
    <3>1. l \in adopted'
      BY <2>5 DEF Adopts
    <3> QED BY <2>4, <3>1 DEF FreshRight
  <2>6. CASE Creates(d, l)
    <3>1. contacts[l] = <<>> /\ Len(contacts[l]) = 0
      BY <1>1, <2>1, <2>6, FirstContact DEF Creates
    <3>2. Saves(d, l, 1) /\ Made(l, delivery[d][l].stage) /\ delivery[d][l].stage \in Stages
      BY <2>1, <2>6, <3>1 DEF Creates, Delivering
    <3>3. delivery'[d][l].id = 1
      BY <1>t, <2>1, <3>2, DeliverySaves
    <3>4. contacts'[l][1] = Rank[delivery[d][l].stage]
      <4>1. contacts'[l] = Append(contacts[l], Rank[delivery[d][l].stage])
        BY <1>t, <3>2, ContactMade
      <4> QED BY <3>1, <4>1
    <3>5. contacts'[l][1] >= Rank[row[l].stage] \/ Pending(l)
      BY <1>1, <1>t, <2>1, <3>4 DEF FreshRight
    <3> QED BY <1>4, <1>5, <2>3, <2>4, <3>3, <3>5 DEF FreshRight
  <2> QED BY <2>2, <2>5, <2>6
<1>6. ASSUME NEW d \in Dispatchers, SaveId(d, l) PROVE FreshRight(l)'
  <2>1. delivery[d][l].at = "save" /\ delivery[d][l].id \in Nat /\ KeepId(d, l)
        /\ contacts' = contacts /\ adopted' = adopted
    BY <1>6, <1>t, LeadFields DEF SaveId, Delivering
  <2>2. row'[l].contact = delivery[d][l].id
    BY <1>t, <2>1, IdWritten
  <2>3. l \in adopted \/ contacts[l][delivery[d][l].id] >= Rank[row[l].stage] \/ Pending(l)
    BY <1>1, <2>1 DEF FreshRight
  <2>4. \A e \in Dispatchers : delivery'[e][l].at = "idle"
    BY <1>4, <1>6, <1>t, DeliveryEnds DEF SaveId
  <2> QED BY <1>4, <1>6, <2>1, <2>2, <2>3, <2>4 DEF FreshRight
<1>7. ASSUME NEW d \in Dispatchers, PatchContact(d, l) PROVE FreshRight(l)'
  <2>1. delivery[d][l].at = "send" /\ delivery[d][l].id = row[l].contact /\ row' = row
    BY <1>1, <1>7 DEF PatchContact, ContactRight, leadState
  <2>2. contacts'[l][delivery[d][l].id] >= Rank[delivery[d][l].stage]
    BY <1>7, ContactPatched
  <2>3. contacts'[l][row[l].contact] >= Rank[row[l].stage] \/ Pending(l)
    BY <1>1, <2>1, <2>2 DEF FreshRight
  <2>4. \A e \in Dispatchers : delivery'[e][l].at = "idle"
    BY <1>4, <1>7, <1>t, DeliveryEnds DEF PatchContact
  <2> QED BY <1>4, <1>7, <2>1, <2>3, <2>4 DEF FreshRight
<1>8. ASSUME NEW p \in Processes, Crash(p) PROVE FreshRight(l)'
  <2>1. row' = row /\ contacts' = contacts /\ adopted' = adopted
    BY <1>8 DEF Crash
  <2>2. \A d \in Dispatchers : delivery'[d][l].at = delivery[d][l].at
                               /\ (delivery[d][l].at # "idle" => delivery'[d][l] = delivery[d][l])
    <3>1. \A d \in Dispatchers : d[1] = p => delivery[d][l].at # "send" /\ delivery[d][l].at # "save"
      BY <1>8 DEF Crash
    <3>2. \A d \in Dispatchers :
             delivery'[d][l] = IF d[1] = p THEN NoDelivery ELSE delivery[d][l]
      BY <1>8 DEF Crash
    <3> QED BY <1>t, <3>1, <3>2, DeliveryPlaces DEF NoDelivery
  <2>3. Pending(l) => Pending(l)'
    <3>1. ~ \E d \in Dispatchers : LoadLead(d, l)
      <4>1. ASSUME NEW d \in Dispatchers, LoadLead(d, l) PROVE FALSE
        <5>1. CASE d[1] = p
          BY <1>8, <4>1, <5>1 DEF Crash, LoadLead
        <5>2. CASE d[1] # p
          <6>1. waiting'[d][l] = waiting[d][l]
            BY <1>8, <5>2 DEF Crash
          <6>2. waiting'[d][l] = waiting[d][l] - 1 /\ waiting[d][l] \in Nat
            BY <1>t, <4>1 DEF LoadLead, LeadTypeOK
          <6> QED BY <6>1, <6>2
        <5> QED BY <5>1, <5>2
      <4> QED BY <4>1
    <3> QED BY <3>1, PendingSteps
  <2> QED BY <1>1, <2>1, <2>2, <2>3 DEF FreshRight
<1>9. CASE TouchedElsewhere(l)
  <2>1. UNCHANGED <<row, job, waiting, delivery, adopted>>
    BY <1>9 DEF TouchedElsewhere, leadState, leadHistory
  <2>2. Pending(l)' = Pending(l)
    BY <2>1 DEF Pending
  <2>3. ASSUME NEW i \in 1..Len(contacts[l]) PROVE contacts[l][i] \in Nat /\ contacts'[l][i] \in Nat
                                                  /\ contacts'[l][i] >= contacts[l][i]
    <3>1. contacts' \in [Leads -> Seq(0..4)] /\ contacts[l] # <<>>
          /\ Len(contacts'[l]) = Len(contacts[l]) /\ contacts'[l][i] >= contacts[l][i]
      BY <1>9, <1>t, <2>3, ContactTouched
    <3> QED BY <1>t, <3>1
  <2>4. \A d \in Dispatchers : delivery[d][l].at = "save" => delivery[d][l].id \in 1..Len(contacts[l])
    BY <1>1 DEF ContactRight
  <2>5. row[l].contact # 0 => row[l].contact \in 1..Len(contacts[l])
    BY <1>t DEF LeadBase, IdsKnown, LeadTypeOK
  <2>a. ASSUME NEW i \in 1..Len(contacts[l]), contacts[l][i] >= Rank[row[l].stage]
        PROVE  contacts'[l][i] >= Rank[row[l].stage]
    <3> DEFINE r == Rank[row[l].stage]
               now == contacts[l][i]
               then == contacts'[l][i]
    <3>1. r \in 0..4 /\ now \in Nat /\ then \in Nat /\ then >= now /\ now >= r
      BY <1>t, <2>3, <2>a
    <3> HIDE DEF r, now, then
    <3>2. then >= r
      BY <3>1
    <3> QED BY <3>2 DEF r, then
  <2>6. l \notin adopted => \A d \in Dispatchers :
           delivery[d][l].at = "save" =>
              contacts'[l][delivery[d][l].id] >= Rank[row[l].stage] \/ Pending(l)
    <3> SUFFICES ASSUME NEW d \in Dispatchers, l \notin adopted, delivery[d][l].at = "save",
                        ~Pending(l)
                 PROVE  contacts'[l][delivery[d][l].id] >= Rank[row[l].stage]
      OBVIOUS
    <3>1. contacts[l][delivery[d][l].id] >= Rank[row[l].stage]
      BY <1>1 DEF FreshRight
    <3> QED BY <2>a, <2>4, <3>1
  <2>7. /\ l \notin adopted /\ row[l].contact # 0
        /\ \A d \in Dispatchers : delivery[d][l].at = "idle"
        => contacts'[l][row[l].contact] >= Rank[row[l].stage] \/ Pending(l)
    <3> SUFFICES ASSUME l \notin adopted, row[l].contact # 0,
                        \A d \in Dispatchers : delivery[d][l].at = "idle", ~Pending(l)
                 PROVE  contacts'[l][row[l].contact] >= Rank[row[l].stage]
      OBVIOUS
    <3>1. contacts[l][row[l].contact] >= Rank[row[l].stage]
      BY <1>1 DEF FreshRight
    <3> QED BY <2>a, <2>5, <3>1
  <2>8. \A d \in Dispatchers :
           delivery[d][l].at = "send" => delivery[d][l].stage = row[l].stage \/ Pending(l)
    BY <1>1 DEF FreshRight
  <2> QED BY <2>1, <2>2, <2>6, <2>7, <2>8 DEF FreshRight
<1> QED BY <1>2, <1>3, <1>5, <1>6, <1>7, <1>8, <1>9, ContactSteps DEF Delivers

\* Events carry no stage and each delivery reads the row anew (deliver, syncHubSpot): when
\* nothing is due any more the contact is not behind the lead, but for a lead whose
\* deliveries overlapped or failed, of which a change was mistaken for none or came of a
\* click, or whose contact was there before (the 409) and no delivery has written since.
THEOREM NotBehind == LeadSpec => []ContactNotBehind
<1>1. LeadInit => ContactInv /\ FreshInv
  BY DEF LeadInit, ContactInv, ContactRight, FreshInv, FreshRight, NoDelivery
<1>2. LeadBase /\ FreshInv => ContactNotBehind
  <2> SUFFICES ASSUME LeadBase, FreshInv, NEW l \in Leads, AtRestCRM(l), row[l].contact # 0,
                      l \notin doubled \cup orphaned \cup adopted \cup missed
               PROVE  contacts[l][row[l].contact] >= Rank[row[l].stage]
    BY DEF ContactNotBehind
  <2>1. ~Pending(l)
    BY DEF AtRestCRM, Pending
  <2> QED BY <2>1 DEF AtRestCRM, FreshInv, FreshRight
<1> QED BY <1>1, <1>2, LeadInitBase, LeadBaseStep, ContactStep, FreshStep, PTL DEF LeadSpec

================================================================================
