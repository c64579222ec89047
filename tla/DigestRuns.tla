------------------------------- MODULE DigestRuns -------------------------------
(***************************************************************************)
(* The digests of one workspace and kind (internal/digest/service.go).  Any*)
(* process may run the scheduler; each claims a slot, an occurrence of the *)
(* schedule, in digest_runs, then builds and delivers the digest and       *)
(* records the outcome.                                                    *)
(* A slot is its period_end; periods have the same length.  The customer   *)
(* may edit the send time at any moment, so every slot may fall due.       *)
(***************************************************************************)
EXTENDS Integers, FiniteSets

CONSTANTS
    Senders,       \* passes of a scheduler (RunDue), in one process or several
    Horizon,       \* bound: the last hour
    DueWindow,     \* hours a slot stays due
    MinGap,        \* hours between two sends: the period less DueWindow
    MaxClaims      \* claims of a slot

ASSUME DigestAssumption ==
    /\ Horizon \in Nat /\ DueWindow \in Nat \ {0} /\ MinGap \in Nat
    /\ MaxClaims \in Nat \ {0} /\ IsFiniteSet(Senders)

Slots == 0..Horizon

VARIABLES
    hour,       \* the time
    run,        \* digest_runs: each slot's status and attempts
    rested,     \* slots not touched for 15 minutes, or the backoff of a failure
    sender,     \* what each sender is doing
    \* History, read by properties only:
    copies,     \* how many times a slot's digest went out
    unanswered, \* how many of them Resend or Slack took with the answer lost
    overdue,    \* how many times a slot stayed pending for 15 minutes
    rivals      \* slots whose claim was under way when a near one was claimed

digestVars == <<hour, run, rested, sender, copies, unanswered, overdue, rivals>>

Statuses == {"none", "pending", "sent", "skipped", "failed"}
Outcomes == {"sent", "skipped", "failed"}
NoDigest == [at |-> "idle"]
Sender == {NoDigest} \cup [at: {"claim", "deliver"}, slot: Slots]
              \cup [at: {"finish"}, slot: Slots, outcome: Outcomes]

Near(s, t) == s # t /\ (IF s < t THEN t - s ELSE s - t) < MinGap

----------------------------------------------------------------------------
\* A plausible bug: a slot being sent is no obstacle.
BugTaken(t) == run[t].status = "sent"

Taken(t) == run[t].status \in {"pending", "sent"}

\* ListDigestSchedules and Due: the schedule's latest occurrence, for DueWindow.
FallDue(w, s) ==
    /\ sender[w] = NoDigest
    /\ s <= hour /\ hour - s < DueWindow
    /\ ~\E t \in Slots : Near(s, t) /\ Taken(t)
    /\ sender' = [sender EXCEPT ![w] = [at |-> "claim", slot |-> s]]
    /\ UNCHANGED <<hour, run, rested, copies, unanswered, overdue, rivals>>

\* A plausible bug: a pending send is taken up at once.
BugRetakable(s) ==
    /\ run[s].status \in {"failed", "pending"}
    /\ run[s].attempts < MaxClaims

\* What ON CONFLICT lets a sender take up: a failure after its backoff, a send
\* left pending for 15 minutes, MaxClaims times in all.
Retakable(s) ==
    /\ run[s].status \in {"failed", "pending"}
    /\ run[s].attempts < MaxClaims
    /\ s \in rested

Claims(w, s) == sender[w].at = "claim" /\ sender[w].slot = s

\* ClaimDigestRun inserts the slot's row or takes it up again.  That no near slot
\* is sent or being sent was seen before the insert (FallDue): two claims of
\* different slots may pass each other.
Claim(w) ==
    LET s == sender[w].slot IN
    /\ sender[w].at = "claim"
    /\ IF run[s].status = "none" \/ Retakable(s)
       THEN /\ run' = [run EXCEPT ![s] = [status |-> "pending", attempts |-> @.attempts + 1]]
            /\ rested' = rested \ {s}
            /\ sender' = [sender EXCEPT ![w].at = "deliver"]
            /\ rivals' = rivals \cup
                  {t \in Slots : Near(s, t) /\ \E v \in Senders : Claims(v, t)}
       ELSE sender' = [sender EXCEPT ![w] = NoDigest] /\ UNCHANGED <<run, rested, rivals>>
    /\ UNCHANGED <<hour, copies, unanswered, overdue>>

\* buildAndDeliver: sent once a channel says it has it, failed when none does and one
\* could not, skipped when there is nothing to say or nowhere to send it.  A POST
\* that timed out has failed, though the digest may have gone out.
Deliver(w) ==
    LET s == sender[w].slot IN
    /\ sender[w].at = "deliver"
    /\ \E outcome \in Outcomes, wentOut \in BOOLEAN :
          /\ outcome = "sent" => wentOut
          /\ outcome = "skipped" => ~wentOut
          /\ sender' = [sender EXCEPT ![w] = [at |-> "finish", slot |-> s, outcome |-> outcome]]
          /\ copies' = IF wentOut THEN [copies EXCEPT ![s] = @ + 1] ELSE copies
          /\ unanswered' = IF wentOut /\ outcome = "failed" THEN [unanswered EXCEPT ![s] = @ + 1]
                           ELSE unanswered
    /\ UNCHANGED <<hour, run, rested, overdue, rivals>>

\* FinishDigestRun overwrites the status, whoever holds the slot by now; when it
\* fails, the error is only logged.
FinishRun(w) ==
    LET s == sender[w].slot IN
    /\ sender[w].at = "finish"
    /\ \/ /\ run' = [run EXCEPT ![s].status = sender[w].outcome]
          /\ rested' = rested \ {s}
       \/ UNCHANGED <<run, rested>>
    /\ sender' = [sender EXCEPT ![w] = NoDigest]
    /\ UNCHANGED <<hour, copies, unanswered, overdue, rivals>>

SenderCrash(w) ==
    /\ sender[w] # NoDigest
    /\ sender' = [sender EXCEPT ![w] = NoDigest]
    /\ UNCHANGED <<hour, run, rested, copies, unanswered, overdue, rivals>>

\* Slots in T were not touched for 15 minutes, or for a failure's backoff.  A
\* pending one's sender has stopped, or is slow.
Untouched(T) ==
    /\ rested' = rested \cup T
    /\ overdue' = [s \in Slots |-> IF s \in T /\ run[s].status = "pending"
                                    THEN overdue[s] + 1 ELSE overdue[s]]
    /\ UNCHANGED <<run, sender, copies, unanswered, rivals>>

Waiting == {s \in Slots \ rested : run[s].status \in {"pending", "failed"}}

Rest == (\E s \in Waiting : Untouched({s})) /\ UNCHANGED hour

\* An hour is longer than any of these, and than a statement takes.
Hour ==
    /\ hour < Horizon
    /\ \A w \in Senders : sender[w].at # "claim"
    /\ hour' = hour + 1
    /\ Untouched(Waiting)

----------------------------------------------------------------------------
DigestInit ==
    /\ hour = 0
    /\ run = [s \in Slots |-> [status |-> "none", attempts |-> 0]]
    /\ rested = {}
    /\ sender = [w \in Senders |-> NoDigest]
    /\ copies = [s \in Slots |-> 0]
    /\ unanswered = [s \in Slots |-> 0]
    /\ overdue = [s \in Slots |-> 0]
    /\ rivals = {}

SenderStep(w) ==
    \/ \E s \in Slots : FallDue(w, s)
    \/ Claim(w) \/ Deliver(w) \/ FinishRun(w) \/ SenderCrash(w)

DigestNext == (\E w \in Senders : SenderStep(w)) \/ Rest \/ Hour

DigestSpec == DigestInit /\ [][DigestNext]_digestVars

----------------------------------------------------------------------------
(* Properties.                                                             *)

DigestTypeOK ==
    /\ hour \in Slots
    /\ run \in [Slots -> [status: Statuses, attempts: 0..MaxClaims]]
    /\ rested \subseteq Slots
    /\ sender \in [Senders -> Sender]
    /\ copies \in [Slots -> Nat] /\ unanswered \in [Slots -> Nat]
    /\ overdue \in [Slots -> Nat]
    /\ rivals \subseteq Slots

\* "concurrent processes and repeated ticks send it once": each further copy of a
\* digest takes a copy whose answer was lost, or a sender that stopped, failed to
\* record the send or was slow for 15 minutes.
SentOncePerPeriod == \A s \in Slots : copies[s] <= 1 + overdue[s] + unanswered[s]

\* "editing the send time must not produce a second digest that day": digests of
\* two slots closer than MinGap went out only if their claims passed each other, one
\* was overdue or the answer to one was lost.
GapKept ==
    \A s, t \in Slots :
        Near(s, t) /\ copies[s] > 0 /\ copies[t] > 0
            => {s, t} \cap rivals # {} \/ overdue[s] + overdue[t] + unanswered[s] + unanswered[t] > 0

================================================================================
