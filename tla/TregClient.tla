------------------------------- MODULE TregClient -------------------------------
(***************************************************************************)
(* Paid searches through treg (internal/treg/client.go): identical calls   *)
(* are cached, each costs the workspace a credit that is handed back when  *)
(* the call fails or treg does not bill it, and a call is tried again with *)
(* its Idempotency-Key while treg may still answer.                        *)
(* treg (external) runs a key at most once and replays its answer after    *)
(* that, at no cost; what happens to a request on its way is open.         *)
(***************************************************************************)
EXTENDS Naturals, FiniteSets

CONSTANTS
    Calls,        \* calls made, all of one tool and body
    MaxAttempts,  \* requests a call makes at most
    Purse         \* credits the workspace has at first

ASSUME TregAssumption == IsFiniteSet(Calls) /\ MaxAttempts \in Nat \ {0} /\ Purse \in Nat

VARIABLES
    call,      \* what each call is doing
    cached,    \* the cache has the answer
    paused,    \* pausedUntil lies ahead: treg refused the whole account
    credits,   \* the workspace's balance
    treg,      \* at treg: what became of each Idempotency-Key
    hungUp,    \* calls whose context has ended: caller gone or out of time
    dropped    \* history: calls whose charge or refund failed for the database

tregVars == <<call, cached, paused, credits, treg, hungUp, dropped>>

Places == {"start", "spend", "begin", "send", "wait", "settle", "done", "lost"}
Results == {"none", "cached", "billed", "free", "error"}
Key == Calls \X (1..MaxAttempts)

\* A plausible bug: a key of its own for every attempt.
BugIdempotencyKey(c) ==
    <<c, IF call[c].at = "send" /\ call[c].tries < MaxAttempts THEN call[c].tries + 1 ELSE call[c].tries>>

\* The key is made once per call and sent with every attempt (newKey).
IdempotencyKey(c) == <<c, 1>>

Goto(c, place) == call' = [call EXCEPT ![c].at = place]
Settles(c, result) == call' = [call EXCEPT ![c].at = "settle", ![c].result = result]
Ends(c, result) == call' = [call EXCEPT ![c].at = "done", ![c].result = result]

----------------------------------------------------------------------------
\* Call: a hit ends it.  A context that has ended finds nothing.
LookInCache(c) ==
    /\ call[c].at = "start"
    /\ IF cached /\ c \notin hungUp THEN Ends(c, "cached") ELSE Goto(c, "spend")
    /\ UNCHANGED <<cached, paused, credits, treg, hungUp, dropped>>

\* meteredCall: PaidDataMeter.Spend refuses for want of credits or of access,
\* while paid data is paused, and when the database fails; that may be after the
\* charge was committed, its answer lost, and nobody hands it back.
Spend(c) ==
    /\ call[c].at = "spend"
    /\ \/ /\ credits > 0 /\ c \notin hungUp
          /\ credits' = credits - 1
          /\ \/ /\ call' = [call EXCEPT ![c].at = "begin", ![c].charged = TRUE]
                /\ UNCHANGED dropped
             \/ /\ call' = [call EXCEPT ![c].at = "done", ![c].result = "error", ![c].charged = TRUE]
                /\ dropped' = dropped \cup {c}
       \/ Ends(c, "error") /\ UNCHANGED <<credits, dropped>>
    /\ UNCHANGED <<cached, paused, treg, hungUp>>

\* call: a client that is paused sends nothing; only here is that looked at.
Begin(c) ==
    /\ call[c].at = "begin"
    /\ IF paused THEN Settles(c, "error") ELSE Goto(c, "send")
    /\ UNCHANGED <<cached, paused, credits, treg, hungUp, dropped>>

\* attempt: the request goes out.  It may never arrive, and does not once the
\* context has ended; one that does starts the search unless its key is known.
Send(c) ==
    /\ call[c].at = "send"
    /\ call[c].tries < MaxAttempts
    /\ call' = [call EXCEPT ![c].at = "wait", ![c].tries = @ + 1]
    /\ \/ UNCHANGED treg
       \/ /\ c \notin hungUp
          /\ treg' = [treg EXCEPT ![IdempotencyKey(c)] = IF @ = "new" THEN "running" ELSE @]
    /\ UNCHANGED <<cached, paused, credits, hungUp, dropped>>

\* treg ends a search: found and billed, missed at no cost, or failed before any
\* provider was paid.
TregAnswers(k) ==
    /\ treg[k] = "running"
    /\ \E outcome \in {"billed", "missed", "new"} : treg' = [treg EXCEPT ![k] = outcome]
    /\ UNCHANGED <<call, cached, paused, credits, hungUp, dropped>>

\* After an error worth another try: not when it was the last, nor when the
\* context has ended.
Retry(c) ==
    IF call[c].tries < MaxAttempts /\ c \notin hungUp
    THEN Goto(c, "send") ELSE Settles(c, "error")

\* No answer: a timeout or a dropped connection, whatever treg did; or an answer
\* that asks for another try: a 5xx, or treg's 409, its key still running.
NoAnswer(c) ==
    /\ call[c].at = "wait"
    /\ Retry(c)
    /\ UNCHANGED <<cached, paused, credits, treg, hungUp, dropped>>

\* A 4xx or route_failed ends the call; insufficient_balance and
\* platform_daily_cap_reached also pause the client (alert).
Refused(c) ==
    /\ call[c].at = "wait"
    /\ treg[IdempotencyKey(c)] = "new"
    /\ Settles(c, "error")
    /\ paused' \in {paused, TRUE}
    /\ UNCHANGED <<cached, credits, treg, hungUp, dropped>>

\* A 2xx.  The cost it names is zero for a miss, and may be for a replay.
Answered(c) ==
    /\ call[c].at = "wait"
    /\ c \notin hungUp
    /\ \/ treg[IdempotencyKey(c)] = "billed" /\ Settles(c, "billed")
       \/ /\ treg[IdempotencyKey(c)] = "missed" \/ call[c].tries > 1
          /\ treg[IdempotencyKey(c)] \in {"billed", "missed"}
          /\ Settles(c, "free")
    /\ UNCHANGED <<cached, paused, credits, treg, hungUp, dropped>>

\* A plausible bug: a miss is charged.
BugRefundable(result) == result = "error"

Refundable(result) == result # "billed"

\* meteredCall hands the credit back unless treg billed the answer, in the call's
\* own context.  Refund ignores an error: the statement fails once that context has
\* ended, and may at any other time.  An answer is cached.
Settle(c) ==
    LET refund == Refundable(call[c].result) IN
    /\ call[c].at = "settle"
    /\ \/ /\ refund /\ c \notin hungUp
          /\ credits' = credits + 1
          /\ call' = [call EXCEPT ![c].at = "done", ![c].charged = FALSE]
          /\ UNCHANGED dropped
       \/ /\ Goto(c, "done")
          /\ dropped' = IF refund /\ c \notin hungUp THEN dropped \cup {c} ELSE dropped
          /\ UNCHANGED credits
    /\ cached' = (cached \/ (call[c].result \in {"billed", "free"} /\ c \notin hungUp))
    /\ UNCHANGED <<paused, treg, hungUp>>

\* The caller goes away or its time is up.
HangUp(c) ==
    /\ call[c].at \notin {"done", "lost"}
    /\ hungUp' = hungUp \cup {c}
    /\ UNCHANGED <<call, cached, paused, credits, treg, dropped>>

\* The process stops with the call in it; its pause goes with it.
TregCrash ==
    /\ call' = [c \in Calls |-> IF call[c].at \in {"start", "done"} THEN call[c]
                                 ELSE [call[c] EXCEPT !.at = "lost"]]
    /\ paused' = FALSE
    /\ UNCHANGED <<cached, credits, treg, hungUp, dropped>>

\* Five minutes, and the cache's TTL.
Resume == paused /\ paused' = FALSE /\ UNCHANGED <<call, cached, credits, treg, hungUp, dropped>>
Expire == cached /\ cached' = FALSE /\ UNCHANGED <<call, paused, credits, treg, hungUp, dropped>>

----------------------------------------------------------------------------
TregInit ==
    /\ call = [c \in Calls |-> [at |-> "start", tries |-> 0, result |-> "none", charged |-> FALSE]]
    /\ cached = FALSE
    /\ paused = FALSE
    /\ credits = Purse
    /\ treg = [k \in Key |-> "new"]
    /\ hungUp = {} /\ dropped = {}

CallStep(c) ==
    \/ LookInCache(c) \/ Spend(c) \/ Begin(c) \/ Send(c)
    \/ NoAnswer(c) \/ Refused(c) \/ Answered(c) \/ Settle(c)
    \/ HangUp(c)

TregNext ==
    \/ \E c \in Calls : CallStep(c)
    \/ \E k \in Key : TregAnswers(k)
    \/ TregCrash \/ Resume \/ Expire

TregSpec == TregInit /\ [][TregNext]_tregVars

----------------------------------------------------------------------------
(* Properties.                                                             *)

TregTypeOK ==
    /\ call \in [Calls -> [at: Places, tries: 0..MaxAttempts, result: Results, charged: BOOLEAN]]
    /\ cached \in BOOLEAN /\ paused \in BOOLEAN
    /\ credits \in Nat
    /\ treg \in [Key -> {"new", "running", "billed", "missed"}]
    /\ hungUp \subseteq Calls /\ dropped \subseteq Calls

\* However many answers are lost on the way, a call has one search running or
\* paid for at treg ("retrying ... with the same Idempotency-Key so a lost answer
\* is replayed rather than paid twice").
PaidOnceAtTreg ==
    \A c \in Calls : Cardinality({k \in Key : k[1] = c /\ treg[k] \in {"running", "billed"}}) <= 1

\* A credit is always in the purse or with one call; a call that ended keeps its
\* credit only for an answer treg billed (SetMeter: "refunded when the call fails
\* or treg doesn't bill it"), unless its caller had gone before the refund or the
\* database failed in its charge or its refund.  And such an answer is paid for.
ChargedForAnswer ==
    /\ credits + Cardinality({c \in Calls : call[c].charged}) = Purse
    /\ \A c \in Calls : call[c].at = "done" =>
          /\ call[c].charged => call[c].result = "billed" \/ c \in hungUp \cup dropped
          /\ call[c].result = "billed" => call[c].charged

================================================================================
