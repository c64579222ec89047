------------------------ MODULE EventPublisherProofs ------------------------
(***************************************************************************)
(* Type correctness and the safety properties of EventPublisher, for any   *)
(* producers, events, number of replays and number of faults.              *)
(*                                                                         *)
(* None of LogAndStreamAgree, DispatchedOnce and OkIsFinal is inductive:   *)
(* each depends on the insertion into event_log giving one caller at a     *)
(* time the right to dispatch an event and to write its row.  OutboxInv    *)
(* says so.                                                                *)
(***************************************************************************)
EXTENDS EventPublisher, TLAPS

\* A caller past its INSERT, with its event's row still to be marked.
Dispatching(p) == pc[p] \in {"xadd", "markPublished", "markFailed"}

\* The caller that inserted a row is alone in dispatching the event, and
\* nobody else touches the row meanwhile.
InserterOwnsRow ==
    \A p \in Callers :
        Dispatching(p) =>
            /\ eventLog[env[p].id].status = "pending"
            /\ \A q \in Callers :
                  Dispatching(q) /\ env[q].id = env[p].id => q = p

\* What the progress of that caller and the row say of the stream.
StreamFollowsLog ==
    /\ \A p \in Callers : pc[p] = "xadd" => ~InStream(env[p].id)
    /\ \A p \in Callers : pc[p] = "markPublished" => InStream(env[p].id)
    /\ \A k \in Keys : eventLog[k].status = "absent" => ~InStream(k)
    /\ \A k \in Keys : eventLog[k].status = "published" => InStream(k)

OkMeansPublished ==
    \A k \in Keys : "ok" \in told[k] => eventLog[k].status = "published"

OutboxInv ==
    /\ TypeOK
    /\ InserterOwnsRow
    /\ StreamFollowsLog
    /\ OkMeansPublished
    /\ DispatchedOnce

-----------------------------------------------------------------------------
(* Sequences *)

Has(s, k) == \E i \in DOMAIN s : s[i] = k
UniqueBut(s, R) == \A i, j \in DOMAIN s : s[i] = s[j] /\ s[i] \notin R => i = j

\* What one XADD does to a stream.
LEMMA AppendElement ==
    ASSUME NEW S, NEW s \in Seq(S), NEW e \in S
    PROVE  /\ Append(s, e) \in Seq(S)
           /\ \A k : Has(Append(s, e), k) <=> Has(s, k) \/ k = e
           /\ \A R : UniqueBut(s, R) /\ ~Has(s, e) => UniqueBut(Append(s, e), R)
           /\ \A R : UniqueBut(s, R) => UniqueBut(Append(s, e), R \cup {e})
<1> DEFINE t == Append(s, e)
<1>1. /\ t \in Seq(S) /\ Len(t) = Len(s) + 1 /\ Len(s) \in Nat
      /\ \A i \in 1..Len(s) : t[i] = s[i]
      /\ t[Len(s) + 1] = e
      /\ DOMAIN s = 1..Len(s) /\ DOMAIN t = 1..(Len(s) + 1)
  OBVIOUS
<1>2. \A k : Has(t, k) <=> Has(s, k) \/ k = e
  BY <1>1, SMT DEF Has
<1>3. \A R : UniqueBut(s, R) /\ ~Has(s, e) => UniqueBut(t, R)
  BY <1>1, SMT DEF Has, UniqueBut
<1>4. \A R : UniqueBut(s, R) => UniqueBut(t, R \cup {e})
  BY <1>1, SMT DEF UniqueBut
<1> QED
  BY <1>1, <1>2, <1>3, <1>4

-----------------------------------------------------------------------------
(* Type correctness *)

\* What the return of a call of Publish leaves behind has its type.
LEMMA ReturnType ==
    ASSUME TypeOK, NEW p \in Callers, pc[p] # "idle",
           NEW answer \in Answer, Return(p, answer)
    PROVE  /\ pc' \in [Callers -> PublishStep]
           /\ env' \in [Callers -> Envelope \cup {NoEnvelope}]
           /\ \A q \in Callers : pc'[q] # "idle" => env'[q] \in Envelope
           /\ told' \in [Keys -> SUBSET Answer]
           /\ replay' \in ReplayJob
<1>1. env[p].id \in Keys
  BY DEF TypeOK, Envelope
<1>2. /\ pc' = [pc EXCEPT ![p] = "idle"]
      /\ env' = [env EXCEPT ![p] = NoEnvelope]
  BY DEF Return, Goto
<1>3. told' \in [Keys -> SUBSET Answer]
  BY <1>1 DEF TypeOK, Return, Answer
<1>4. replay' \in ReplayJob
  <2>1. replay \in ReplayJob
    BY DEF TypeOK
  <2>2. [replay EXCEPT !.count = @ + 1] \in ReplayJob
    BY <2>1 DEF ReplayJob
  <2>3. [replay EXCEPT !.status = "failed", !.serving = FALSE] \in ReplayJob
    BY <2>1 DEF ReplayJob, ReplayStatus
  <2> QED
    BY <2>1, <2>2, <2>3 DEF Return
<1> QED
  BY <1>2, <1>3, <1>4 DEF TypeOK, PublishStep

\* What a statement makes of event_log is a table.
LEMMA WrittenType ==
    ASSUME TypeOK, NEW p \in Callers, pc[p] # "idle"
    PROVE  Written(p) \in [Keys -> [status: PublishStatus, ikey: IdemKey]]
<1>1. env[p] \in Envelope /\ eventLog \in [Keys -> [status: PublishStatus, ikey: IdemKey]]
  BY DEF TypeOK
<1>2. [status |-> "pending", ikey |-> env[p].ikey] \in [status: PublishStatus, ikey: IdemKey]
  BY <1>1 DEF Envelope, PublishStatus
<1> QED
  BY <1>1, <1>2 DEF Written, PublishStatus

LEMMA InitType == Init => TypeOK
<1> SUFFICES ASSUME Init PROVE TypeOK
  OBVIOUS
<1>1. replay \in ReplayJob
  BY PublisherAssumption DEF Init, ReplayJob, ReplayStatus
<1>2. eventLog \in [Keys -> [status: PublishStatus, ikey: IdemKey]]
  BY PublisherAssumption DEF Init, PublishStatus, IdemKey
<1> QED
  BY <1>1, <1>2, PublisherAssumption DEF Init, TypeOK, PublishStep

\* No step of the publisher leaves the types.
LEMMA TypeStep == TypeOK /\ [Next]_vars => TypeOK'
<1> SUFFICES ASSUME TypeOK, [Next]_vars PROVE TypeOK'
  OBVIOUS
<1> USE DEF TypeOK
<1>1. ASSUME NEW p \in Producers, NEW k \in Keys, Publish(p, k) PROVE TypeOK'
  <2>1. [id |-> k, ikey |-> <<k, 0>>] \in Envelope
    BY PublisherAssumption DEF Envelope, IdemKey
  <2> QED
    BY <1>1, <2>1 DEF Publish, Goto, Callers, PublishStep
<1>2. ASSUME NEW p \in Callers, CreateEventLog(p) PROVE TypeOK'
  BY <1>2, WrittenType DEF CreateEventLog, Goto, PublishStep
<1>3. ASSUME NEW p \in Callers, RefuseDuplicate(p) PROVE TypeOK'
  BY <1>3, ReturnType DEF RefuseDuplicate, Answer
<1>4. ASSUME NEW p \in Callers, CreateEventLogFails(p) PROVE TypeOK'
  BY <1>4, ReturnType, WrittenType, PublisherAssumption
  DEF CreateEventLogFails, MayWrite, Fault, Answer
<1>5. ASSUME NEW p \in Callers, XAdd(p) PROVE TypeOK'
  <2>1. env[p].id \in Keys
    BY <1>5 DEF XAdd, Envelope
  <2>2. stream' \in Seq(Keys)
    BY <1>5, <2>1, AppendElement DEF XAdd
  <2> QED
    BY <1>5, <2>2 DEF XAdd, Goto, PublishStep
<1>6. ASSUME NEW p \in Callers, XAddResent(p) PROVE TypeOK'
  <2>1. env[p].id \in Keys
    BY <1>6 DEF XAddResent, Envelope
  <2>2. stream' \in Seq(Keys)
    BY <1>6, <2>1, AppendElement DEF XAddResent
  <2>3. resent' \subseteq Keys
    BY <1>6, <2>1 DEF XAddResent
  <2> QED
    BY <1>6, <2>2, <2>3, PublisherAssumption
       DEF XAddResent, Fault, Goto, PublishStep
<1>7. ASSUME NEW p \in Callers, XAddFails(p) PROVE TypeOK'
  <2>1. env[p].id \in Keys
    BY <1>7 DEF XAddFails, Envelope
  <2>2. stream' \in Seq(Keys)
    BY <1>7, <2>1, AppendElement DEF XAddFails
  <2> QED
    BY <1>7, <2>2, PublisherAssumption DEF XAddFails, Fault, Goto, PublishStep
<1>8. ASSUME NEW p \in Callers, MarkEventLogPublished(p) PROVE TypeOK'
  BY <1>8, ReturnType, WrittenType DEF MarkEventLogPublished, Answer
<1>9. ASSUME NEW p \in Callers, MarkEventLogPublishFailed(p) PROVE TypeOK'
  BY <1>9, ReturnType, WrittenType DEF MarkEventLogPublishFailed, Answer
<1>10. ASSUME NEW p \in Callers,
              MarkEventLogPublishedFails(p) \/ MarkEventLogPublishFailedFails(p)
       PROVE  TypeOK'
  BY <1>10, ReturnType, WrittenType, PublisherAssumption
     DEF MarkEventLogPublishedFails, MarkEventLogPublishFailedFails, MayWrite, Fault, Answer
<1>11. ASSUME NEW p \in Callers, Crash(p) PROVE TypeOK'
  <2>1. replay' \in ReplayJob
    BY <1>11 DEF Crash, ReplayJob
  <2> QED
    BY <1>11, <2>1, WrittenType, PublisherAssumption DEF Crash, MayWrite, Fault, Goto, PublishStep
<1>12. ASSUME NEW w \in BOOLEAN, NEW t \in BOOLEAN, RequestReplay(w, t)
       PROVE  TypeOK'
  <2>1. replay' \in ReplayJob
    BY <1>12, PublisherAssumption
       DEF RequestReplay, ReplayJob, ReplayStatus, Recorded
  <2> QED
    BY <1>12, <2>1 DEF RequestReplay
<1>13. ASSUME NEW k \in Keys, ReplayNext(k) PROVE TypeOK'
  <2>1. replay' \in ReplayJob
    BY <1>13 DEF ReplayNext, ReplayJob
  <2>2. [id |-> k, ikey |-> <<k, replay.job>>] \in Envelope
    BY DEF ReplayJob, Envelope, IdemKey
  <2> QED
    BY <1>13, <2>1, <2>2 DEF ReplayNext, Goto, Callers, PublishStep
<1>14. CASE ReplayCompletes
  <2>1. replay' \in ReplayJob
    BY <1>14 DEF ReplayCompletes, ReplayJob, ReplayStatus
  <2> QED
    BY <1>14, <2>1 DEF ReplayCompletes
<1>15. CASE UNCHANGED vars
  BY <1>15 DEF vars
<1> QED
  BY <1>1, <1>2, <1>3, <1>4, <1>5, <1>6, <1>7, <1>8, <1>9, <1>10, <1>11,
     <1>12, <1>13, <1>14, <1>15
  DEF Next, Step, FaultyStep, ReplayStep

\* Every state of the publisher has its type, whatever fails or crashes.
THEOREM TypeCorrect == Spec => []TypeOK
  BY InitType, TypeStep, PTL DEF Spec

-----------------------------------------------------------------------------
(* The inductive invariant *)

\* What a return of Publish to p leaves behind: the other callers as they
\* were, and at most one more answer.
LEMMA ReturnEffect ==
    ASSUME TypeOK, NEW p \in Callers, pc[p] # "idle",
           NEW answer \in Answer, Return(p, answer)
    PROVE  /\ env[p].id \in Keys
           /\ pc'[p] = "idle"
           /\ \A q \in Callers : q # p => pc'[q] = pc[q] /\ env'[q] = env[q]
           /\ \A k \in Keys : told'[k] \subseteq told[k] \cup {answer}
           /\ \A k \in Keys : k # env[p].id => told'[k] = told[k]
  BY DEF TypeOK, Return, Goto, Envelope

\* What a statement does to the one row it is about, in an outbox that keeps
\* its invariant: inserted where there is none, or marked by its owner.
RowWritten(p, s, t) ==
    /\ env[p].id \in Keys
    /\ \A k \in Keys : k # env[p].id => Written(p)[k] = eventLog[k]
    /\ eventLog[env[p].id].status = s /\ Written(p)[env[p].id].status = t

LEMMA WrittenRow ==
    ASSUME OutboxInv, NEW p \in Callers, pc[p] # "idle"
    PROVE  \/ pc[p] \in {"insert", "xadd"} /\ Written(p) = eventLog
           \/ pc[p] = "insert" /\ ~Refused(env[p]) /\ RowWritten(p, "absent", "pending")
           \/ pc[p] = "markPublished" /\ RowWritten(p, "pending", "published")
           \/ pc[p] = "markFailed" /\ RowWritten(p, "pending", "failed")
<1>1. /\ env[p].id \in Keys
      /\ eventLog \in [Keys -> [status: PublishStatus, ikey: IdemKey]]
      /\ pc[p] \in PublishStep
  BY DEF OutboxInv, TypeOK, Envelope
<1>2. CASE pc[p] = "insert" /\ ~Refused(env[p])
  <2>1. eventLog[env[p].id].status = "absent"
    BY <1>1, <1>2 DEF Refused, Recorded
  <2> QED
    BY <1>1, <1>2, <2>1 DEF Written, RowWritten
<1>3. CASE pc[p] \in {"markPublished", "markFailed"}
  <2>1. eventLog[env[p].id].status = "pending"
    BY <1>3 DEF OutboxInv, InserterOwnsRow, Dispatching
  <2> QED
    BY <1>1, <1>3, <2>1 DEF Written, RowWritten
<1>4. CASE pc[p] = "xadd" \/ (pc[p] = "insert" /\ Refused(env[p]))
  BY <1>4 DEF Written
<1> QED
  BY <1>1, <1>2, <1>3, <1>4 DEF PublishStep

\* A caller that leaves Publish, whatever its last statement has written: it
\* no longer owns a row, and is told "ok" for a published one only.
LEMMA Leaves ==
    ASSUME OutboxInv, NEW p \in Callers, pc[p] # "idle", pc'[p] = "idle",
           \A q \in Callers : q # p => pc'[q] = pc[q] /\ env'[q] = env[q],
           MayWrite(p),
           \A k \in Keys : "ok" \in told'[k] =>
               \/ "ok" \in told[k]
               \/ k = env[p].id /\ pc[p] = "markPublished" /\ eventLog' = Written(p),
           UNCHANGED <<stream, resent>>, TypeOK'
    PROVE  OutboxInv'
<1>1. \/ eventLog' = eventLog
      \/ /\ env[p].id \in Keys
         /\ \A k \in Keys : k # env[p].id => eventLog'[k] = eventLog[k]
         /\ \/ /\ pc[p] = "insert" /\ eventLog[env[p].id].status = "absent"
               /\ eventLog'[env[p].id].status = "pending"
            \/ /\ pc[p] = "markPublished" /\ eventLog[env[p].id].status = "pending"
               /\ eventLog'[env[p].id].status = "published"
            \/ /\ pc[p] = "markFailed" /\ eventLog[env[p].id].status = "pending"
               /\ eventLog'[env[p].id].status = "failed"
  BY WrittenRow DEF MayWrite, RowWritten
<1>2. \A q \in Callers : pc'[q] # "idle" => env'[q].id \in Keys /\ q # p
  BY DEF OutboxInv, TypeOK, Envelope
<1>3. \A q \in Callers : Dispatching(q)' => Dispatching(q) /\ env'[q] = env[q]
                                            /\ eventLog'[env[q].id] = eventLog[env[q].id]
  <2> SUFFICES ASSUME NEW q \in Callers, Dispatching(q)'
               PROVE  Dispatching(q) /\ env'[q] = env[q]
                      /\ eventLog'[env[q].id] = eventLog[env[q].id]
    OBVIOUS
  <2>1. q # p /\ Dispatching(q) /\ env'[q] = env[q] /\ env[q].id \in Keys
    BY <1>2 DEF Dispatching
  <2>2. CASE Dispatching(p)
    BY <1>1, <2>1, <2>2 DEF OutboxInv, InserterOwnsRow
  <2>3. CASE ~Dispatching(p)
    <3>1. eventLog[env[q].id].status = "pending"
      BY <2>1 DEF OutboxInv, InserterOwnsRow
    <3> QED
      BY <1>1, <2>1, <2>3, <3>1 DEF Dispatching
  <2> QED
    BY <2>2, <2>3
<1>4. InserterOwnsRow'
  BY <1>3 DEF OutboxInv, InserterOwnsRow
<1>5. pc[p] = "markPublished" => InStream(env[p].id)
  BY DEF OutboxInv, StreamFollowsLog
<1>6. \A k : InStream(k)' <=> InStream(k)
  BY DEF InStream
<1>7. StreamFollowsLog'
  <2>1. \A q \in Callers : pc'[q] \in {"xadd", "markPublished"} =>
                             pc[q] = pc'[q] /\ env'[q] = env[q]
    OBVIOUS
  <2>2. \A k \in Keys : /\ eventLog'[k].status = "absent" => ~InStream(k)
                        /\ eventLog'[k].status = "published" => InStream(k)
    BY <1>1, <1>5 DEF OutboxInv, StreamFollowsLog
  <2> QED
    BY <1>6, <2>1, <2>2 DEF OutboxInv, StreamFollowsLog
<1>8. OkMeansPublished'
  <2> SUFFICES ASSUME NEW k \in Keys, "ok" \in told'[k] PROVE eventLog'[k].status = "published"
    BY DEF OkMeansPublished
  <2>1. CASE "ok" \in told[k]
    BY <1>1, <2>1 DEF OutboxInv, OkMeansPublished
  <2>2. CASE k = env[p].id /\ pc[p] = "markPublished" /\ eventLog' = Written(p)
    BY <2>2, WrittenRow DEF RowWritten
  <2> QED
    BY <2>1, <2>2
<1> QED
  BY <1>4, <1>7, <1>8 DEF OutboxInv, DispatchedOnce

\* The same for a call that returns.
LEMMA Returns ==
    ASSUME OutboxInv, NEW p \in Callers, pc[p] # "idle", NEW answer \in Answer,
           Return(p, answer), MayWrite(p),
           answer = "ok" => pc[p] = "markPublished" /\ eventLog' = Written(p),
           UNCHANGED <<stream, resent>>, TypeOK'
    PROVE  OutboxInv'
<1>1. /\ pc'[p] = "idle"
      /\ \A q \in Callers : q # p => pc'[q] = pc[q] /\ env'[q] = env[q]
      /\ \A k \in Keys : told'[k] \subseteq told[k] \cup {answer}
      /\ \A k \in Keys : k # env[p].id => told'[k] = told[k]
  BY ReturnEffect DEF OutboxInv
<1>2. \A k \in Keys : "ok" \in told'[k] =>
          \/ "ok" \in told[k]
          \/ k = env[p].id /\ pc[p] = "markPublished" /\ eventLog' = Written(p)
  BY <1>1
<1> QED
  BY <1>1, <1>2, Leaves

\* A step that only takes a caller p into Publish.
LEMMA CallerMoves ==
    ASSUME OutboxInv, NEW p \in Callers, pc'[p] = "insert",
           \A q \in Callers : q # p => pc'[q] = pc[q] /\ env'[q] = env[q],
           UNCHANGED <<eventLog, stream, told, resent>>, TypeOK'
    PROVE  OutboxInv'
<1>1. InserterOwnsRow'
  BY DEF OutboxInv, InserterOwnsRow, Dispatching
<1>2. StreamFollowsLog'
  BY DEF OutboxInv, StreamFollowsLog, InStream
<1>3. OkMeansPublished' /\ DispatchedOnce'
  BY DEF OutboxInv, OkMeansPublished, DispatchedOnce
<1> QED
  BY <1>1, <1>2, <1>3 DEF OutboxInv

\* XADD, executed no time, once or twice: p goes on to mark its row.
LEMMA Dispatched ==
    ASSUME OutboxInv, NEW p \in Callers, pc[p] = "xadd",
           NEW step \in {"markPublished", "markFailed"}, Goto(p, step),
           \A k : InStream(k)' => InStream(k) \/ k = env[p].id,
           \A k : InStream(k) => InStream(k)',
           step = "markPublished" => InStream(env[p].id)',
           DispatchedOnce',
           UNCHANGED <<eventLog, env, told>>, TypeOK'
    PROVE  OutboxInv'
<1>1. env[p].id \in Keys /\ Dispatching(p) /\ pc \in [Callers -> PublishStep]
  BY DEF OutboxInv, TypeOK, Envelope, Dispatching
<1>2. /\ eventLog[env[p].id].status = "pending"
      /\ \A q \in Callers : Dispatching(q) /\ env[q].id = env[p].id => q = p
  BY <1>1 DEF OutboxInv, InserterOwnsRow
<1>3. pc'[p] = step /\ \A q \in Callers : q # p => pc'[q] = pc[q]
  BY <1>1 DEF Goto
<1>4. InserterOwnsRow'
  BY <1>1, <1>3 DEF OutboxInv, InserterOwnsRow, Dispatching
<1>5. \A q \in Callers : pc'[q] = "xadd" => ~InStream(env[q].id)'
  <2> SUFFICES ASSUME NEW q \in Callers, pc'[q] = "xadd"
               PROVE  ~InStream(env[q].id)'
    OBVIOUS
  <2>1. q # p /\ pc[q] = "xadd"
    BY <1>3
  <2>2. env[q].id # env[p].id /\ ~InStream(env[q].id)
    BY <1>2, <2>1 DEF OutboxInv, StreamFollowsLog, Dispatching
  <2> QED
    BY <2>2
<1>6. \A q \in Callers : pc'[q] = "markPublished" => InStream(env[q].id)'
  BY <1>3 DEF OutboxInv, StreamFollowsLog
<1>7. \A k \in Keys :
        /\ eventLog'[k].status = "absent" => ~InStream(k)'
        /\ eventLog'[k].status = "published" => InStream(k)'
  BY <1>2 DEF OutboxInv, StreamFollowsLog
<1>8. StreamFollowsLog'
  BY <1>5, <1>6, <1>7 DEF StreamFollowsLog, InStream
<1>9. OkMeansPublished'
  BY DEF OutboxInv, OkMeansPublished
<1> QED
  BY <1>4, <1>8, <1>9 DEF OutboxInv

\* A row is inserted only where there was none, so nobody dispatches the
\* event and it is not in the stream: p becomes its owner.
LEMMA Inserted ==
    ASSUME OutboxInv, NEW p \in Callers, CreateEventLog(p), TypeOK'
    PROVE  OutboxInv'
<1>1. pc[p] = "insert" /\ ~Refused(env[p]) /\ eventLog' = Written(p)
  BY DEF CreateEventLog
<1>2. eventLog[env[p].id].status = "absent" /\ env[p].id \in Keys
  BY <1>1, WrittenRow DEF RowWritten, Refused, Recorded, OutboxInv, TypeOK, Envelope
<1>3. /\ \A k \in Keys : k # env[p].id => eventLog'[k] = eventLog[k]
      /\ eventLog'[env[p].id].status = "pending"
  <2>1. eventLog \in [Keys -> [status: PublishStatus, ikey: IdemKey]]
    BY DEF OutboxInv, TypeOK
  <2> QED
    BY <1>1, <1>2, <2>1 DEF Written
<1>4. pc'[p] = "xadd" /\ \A q \in Callers : q # p => pc'[q] = pc[q]
  BY DEF OutboxInv, TypeOK, CreateEventLog, Goto
<1>5. UNCHANGED <<stream, env, told, resent>>
  BY DEF CreateEventLog
<1>6. \A q \in Callers : Dispatching(q) => env[q].id \in Keys /\ env[q].id # env[p].id
  BY <1>2 DEF OutboxInv, TypeOK, Envelope, InserterOwnsRow, Dispatching
<1>7. InserterOwnsRow'
  BY <1>3, <1>4, <1>5, <1>6 DEF OutboxInv, InserterOwnsRow, Dispatching
<1>8. StreamFollowsLog'
  BY <1>1, <1>2, <1>3, <1>4, <1>5 DEF OutboxInv, StreamFollowsLog, InStream
<1>9. OkMeansPublished'
  BY <1>2, <1>3, <1>5 DEF OutboxInv, OkMeansPublished
<1> QED
  BY <1>5, <1>7, <1>8, <1>9 DEF OutboxInv, DispatchedOnce

LEMMA InitOutbox == Init /\ TypeOK => OutboxInv
<1> SUFFICES ASSUME Init, TypeOK PROVE OutboxInv
  OBVIOUS
<1>1. InserterOwnsRow /\ OkMeansPublished /\ DispatchedOnce
  BY DEF Init, InserterOwnsRow, Dispatching, OkMeansPublished, DispatchedOnce
<1>2. \A k : ~InStream(k)
  BY DEF Init, InStream
<1>3. StreamFollowsLog
  BY <1>2 DEF Init, StreamFollowsLog
<1> QED
  BY <1>1, <1>3 DEF OutboxInv

\* No step of the publisher breaks the outbox.
LEMMA OutboxStep == OutboxInv /\ TypeOK' /\ [Next]_vars => OutboxInv'
<1> SUFFICES ASSUME OutboxInv, TypeOK', [Next]_vars PROVE OutboxInv'
  OBVIOUS
<1>1. ASSUME NEW p \in Producers, NEW k \in Keys, Publish(p, k) PROVE OutboxInv'
  BY <1>1, CallerMoves DEF Publish, Goto, Callers, OutboxInv, TypeOK
<1>2. ASSUME NEW p \in Callers, CreateEventLog(p) PROVE OutboxInv'
  BY <1>2, Inserted
<1>3. ASSUME NEW p \in Callers, RefuseDuplicate(p) \/ CreateEventLogFails(p)
      PROVE  OutboxInv'
  BY <1>3, Returns DEF RefuseDuplicate, CreateEventLogFails, MayWrite, Answer
<1>4. ASSUME NEW p \in Callers, XAdd(p) \/ XAddResent(p) \/ XAddFails(p)
      PROVE  OutboxInv'
  <2> DEFINE k0 == env[p].id
             once == Append(stream, k0)
             twice == Append(once, k0)
  <2>1. k0 \in Keys /\ stream \in Seq(Keys) /\ pc[p] = "xadd" /\ ~InStream(k0)
    BY <1>4 DEF XAdd, XAddResent, XAddFails, OutboxInv, TypeOK, Envelope,
                StreamFollowsLog
  <2>2. \A s \in Seq(Keys) :
          /\ \A k : Has(Append(s, k0), k) <=> Has(s, k) \/ k = k0
          /\ UniqueBut(s, resent) => UniqueBut(Append(s, k0), resent \cup {k0})
    BY <2>1, AppendElement
  <2>3. /\ once \in Seq(Keys)
        /\ UniqueBut(stream, resent) /\ ~Has(stream, k0) => UniqueBut(once, resent)
    BY <2>1, AppendElement
  <2>4. \A k : Has(once, k) <=> Has(stream, k) \/ k = k0
    BY <2>1, <2>2
  <2>5. \A k : Has(twice, k) <=> Has(once, k) \/ k = k0
    BY <2>2, <2>3
  <2>6. UniqueBut(once, resent) => UniqueBut(twice, resent \cup {k0})
    BY <2>2, <2>3
  <2> HIDE DEF once, twice
  <2>7. \/ /\ Goto(p, "markPublished")
           /\ stream' = once /\ resent' = resent
        \/ /\ Goto(p, "markPublished")
           /\ stream' = twice /\ resent' = resent \cup {k0}
        \/ /\ Goto(p, "markFailed")
           /\ stream' \in {stream, once} /\ resent' = resent
    BY <1>4 DEF XAdd, XAddResent, XAddFails, once, twice
  <2>8. /\ \A k : InStream(k)' <=> Has(stream', k)
        /\ \A k : InStream(k) <=> Has(stream, k)
    BY DEF InStream, Has
  <2>9. DispatchedOnce'
    <3>1. UniqueBut(stream, resent)
      BY DEF OutboxInv, DispatchedOnce, UniqueBut
    <3>2. UniqueBut(stream', resent')
      BY <2>1, <2>3, <2>7, <2>8, <2>6, <3>1
    <3> QED
      BY <3>2 DEF DispatchedOnce, UniqueBut
  <2>10. UNCHANGED <<eventLog, env, told>>
    BY <1>4 DEF XAdd, XAddResent, XAddFails
  <2>11. /\ \A k : Has(stream', k) => Has(stream, k) \/ k = k0
         /\ \A k : Has(stream, k) => Has(stream', k)
         /\ \/ Goto(p, "markPublished") /\ Has(stream', k0)
            \/ Goto(p, "markFailed")
    BY <2>4, <2>5, <2>7
  <2> QED
    BY <2>1, <2>8, <2>9, <2>10, <2>11, Dispatched
<1>5. ASSUME NEW p \in Callers, MarkEventLogPublished(p) PROVE OutboxInv'
  BY <1>5, Returns DEF MarkEventLogPublished, MayWrite, Answer
<1>6. ASSUME NEW p \in Callers, MarkEventLogPublishFailed(p) PROVE OutboxInv'
  BY <1>6, Returns DEF MarkEventLogPublishFailed, MayWrite, Answer
<1>7. ASSUME NEW p \in Callers,
             MarkEventLogPublishedFails(p) \/ MarkEventLogPublishFailedFails(p)
      PROVE  OutboxInv'
  BY <1>7, Returns DEF MarkEventLogPublishedFails, MarkEventLogPublishFailedFails, Answer
<1>8. ASSUME NEW p \in Callers, Crash(p) PROVE OutboxInv'
  BY <1>8, Leaves DEF Crash, Goto, OutboxInv, TypeOK
<1>9. ASSUME NEW k \in Keys, ReplayNext(k) PROVE OutboxInv'
  BY <1>9, CallerMoves DEF ReplayNext, Goto, Callers, OutboxInv, TypeOK
<1>10. ASSUME UNCHANGED <<eventLog, stream, pc, env, told, resent>> PROVE OutboxInv'
  BY <1>10 DEF OutboxInv, InserterOwnsRow, Dispatching, StreamFollowsLog,
               InStream, OkMeansPublished, DispatchedOnce
<1> QED
  BY <1>1, <1>2, <1>3, <1>4, <1>5, <1>6, <1>7, <1>8, <1>9, <1>10
  DEF Next, Step, FaultyStep, ReplayStep, RequestReplay, ReplayCompletes, vars

\* The outbox invariant holds in every state of the publisher.
THEOREM OutboxCorrect == Spec => []OutboxInv
  BY InitOutbox, OutboxStep, TypeCorrect, PTL DEF Spec

\* Whatever is in the stream has its row in event_log, and a row marked
\* published is in the stream, for any number of publishers and replays.
THEOREM LogAndStreamAgreeAlways == Spec => []LogAndStreamAgree
<1>1. OutboxInv => LogAndStreamAgree
  BY DEF OutboxInv, StreamFollowsLog, LogAndStreamAgree
<1> QED
  BY <1>1, OutboxCorrect, PTL

\* Concurrent, repeated and replayed calls dispatch an event at most once.
THEOREM DispatchedOnceAlways == Spec => []DispatchedOnce
<1>1. OutboxInv => DispatchedOnce
  BY DEF OutboxInv
<1> QED
  BY <1>1, OutboxCorrect, PTL

\* An answer "ok" stays true: the event is in the stream and its row says so.
THEOREM OkIsFinalAlways == Spec => []OkIsFinal
<1>1. OutboxInv => OkIsFinal
  BY DEF OutboxInv, OkMeansPublished, StreamFollowsLog, OkIsFinal
<1> QED
  BY <1>1, OutboxCorrect, PTL

-----------------------------------------------------------------------------
(* Replays, and events nobody is at work on                                *)

\* What the operator holds was recorded, and stays so: that is why each of
\* its calls is refused.
ReplayInv ==
    /\ ReplaySendsNothing
    /\ replay.todo \subseteq Recorded
    /\ pc[Operator] = "insert" => env[Operator].id \in Recorded

\* While nothing has failed, a pending row is in the stream or about to be.
WorkInv ==
    /\ \A k \in Keys : eventLog[k].status = "failed" => faults > 0
    /\ \A p \in Callers : pc[p] = "markFailed" => faults > 0
    /\ \A k \in Keys :
          eventLog[k].status = "pending" =>
              \/ InStream(k) \/ faults > 0
              \/ \E p \in Producers : pc[p] = "xadd" /\ env[p].id = k

\* A step leaves event_log alone or executes the statement of a caller.
LEMMA RowMoves ==
    ASSUME [Next]_vars
    PROVE  \/ UNCHANGED eventLog
           \/ \E p \in Callers : pc[p] # "idle" /\ eventLog' = Written(p)
  BY DEF Next, Step, FaultyStep, ReplayStep, vars, Publish, CreateEventLog, RefuseDuplicate,
     CreateEventLogFails, XAdd, XAddResent, XAddFails, MarkEventLogPublished,
     MarkEventLogPublishedFails, MarkEventLogPublishFailed, MarkEventLogPublishFailedFails,
     Crash, MayWrite, RequestReplay, ReplayNext, ReplayCompletes

\* A recorded event stays recorded.
LEMMA RecordedStays ==
    ASSUME OutboxInv, [Next]_vars
    PROVE  Recorded \subseteq Recorded'
<1>1. \A k \in Keys : eventLog[k].status # "absent" => eventLog'[k].status # "absent"
  BY RowMoves, WrittenRow DEF RowWritten
<1> QED
  BY <1>1 DEF Recorded

LEMMA InitReplay == Init => ReplayInv /\ WorkInv
<1> SUFFICES ASSUME Init PROVE ReplayInv /\ WorkInv
  OBVIOUS
<1>1. Operator \in Callers
  BY DEF Callers
<1>2. ReplayInv
  BY <1>1 DEF Init, ReplayInv, ReplaySendsNothing
<1>3. WorkInv
  BY DEF Init, WorkInv
<1> QED
  BY <1>2, <1>3

LEMMA ReplayStepKeeps == OutboxInv /\ ReplayInv /\ [Next]_vars => ReplayInv'
<1> SUFFICES ASSUME OutboxInv, ReplayInv, [Next]_vars PROVE ReplayInv'
  OBVIOUS
<1>1. Recorded \subseteq Recorded'
  BY RecordedStays
<1>2. /\ Operator \in Callers /\ \A p \in Producers : p # Operator
      /\ pc \in [Callers -> PublishStep]
      /\ env \in [Callers -> Envelope \cup {NoEnvelope}]
      /\ replay \in ReplayJob
      /\ replay.count = 0 /\ pc[Operator] \in {"idle", "insert"}
      /\ replay.todo \subseteq Recorded
      /\ pc[Operator] = "insert" => env[Operator].id \in Recorded
  BY PublisherAssumption DEF Callers, OutboxInv, TypeOK, ReplayInv, ReplaySendsNothing
<1>3. ASSUME UNCHANGED replay, pc'[Operator] = pc[Operator], env'[Operator] = env[Operator]
      PROVE  ReplayInv'
  BY <1>1, <1>2, <1>3 DEF ReplayInv, ReplaySendsNothing
<1>4. ASSUME NEW p \in Producers, NEW k \in Keys, Publish(p, k) PROVE ReplayInv'
  BY <1>2, <1>3, <1>4 DEF Publish, Goto
<1>5. ASSUME NEW p \in Callers, p # Operator, Step(p) \/ FaultyStep(p) PROVE ReplayInv'
  BY <1>2, <1>3, <1>5
  DEF Step, FaultyStep, Goto, Return, CreateEventLog, RefuseDuplicate, CreateEventLogFails,
      XAdd, XAddResent, XAddFails, MarkEventLogPublished, MarkEventLogPublishedFails,
      MarkEventLogPublishFailed, MarkEventLogPublishFailedFails, Crash
<1>6. ASSUME Step(Operator) \/ FaultyStep(Operator) PROVE ReplayInv'
  <2>1. \/ RefuseDuplicate(Operator) \/ CreateEventLogFails(Operator) \/ Crash(Operator)
    BY <1>2, <1>6
    DEF Step, FaultyStep, CreateEventLog, Refused, XAdd, XAddResent, XAddFails,
        MarkEventLogPublished, MarkEventLogPublishedFails, MarkEventLogPublishFailed,
        MarkEventLogPublishFailedFails
  <2>2. pc'[Operator] = "idle" /\ replay'.count = 0 /\ replay'.todo = replay.todo
    BY <1>2, <2>1
    DEF RefuseDuplicate, CreateEventLogFails, Crash, Return, Goto, ReplayJob
  <2> QED
    BY <1>1, <1>2, <2>2 DEF ReplayInv, ReplaySendsNothing
<1>7. ASSUME NEW w \in BOOLEAN, NEW t \in BOOLEAN, RequestReplay(w, t) PROVE ReplayInv'
  <2>1. replay'.count = 0 /\ replay'.todo \subseteq Recorded /\ UNCHANGED <<eventLog, pc, env>>
    BY <1>7 DEF RequestReplay
  <2> QED
    BY <1>1, <1>2, <2>1 DEF ReplayInv, ReplaySendsNothing
<1>8. ASSUME NEW k \in Keys, ReplayNext(k) PROVE ReplayInv'
  <2>1. /\ k \in Recorded /\ pc'[Operator] = "insert" /\ env'[Operator].id = k
        /\ replay'.count = 0 /\ replay'.todo \subseteq replay.todo
    BY <1>2, <1>8 DEF ReplayNext, Goto, ReplayJob
  <2> QED
    BY <1>1, <1>2, <2>1 DEF ReplayInv, ReplaySendsNothing
<1>9. CASE ReplayCompletes
  <2>1. replay'.count = 0 /\ replay'.todo = replay.todo /\ UNCHANGED <<eventLog, pc, env>>
    BY <1>2, <1>9 DEF ReplayCompletes, ReplayJob
  <2> QED
    BY <1>1, <1>2, <2>1 DEF ReplayInv, ReplaySendsNothing
<1>10. CASE UNCHANGED vars
  BY <1>3, <1>10 DEF vars
<1> QED
  BY <1>4, <1>5, <1>6, <1>7, <1>8, <1>9, <1>10 DEF Next, ReplayStep

LEMMA ReplayCorrect == Spec => []ReplayInv
  BY InitReplay, ReplayStepKeeps, OutboxCorrect, PTL DEF Spec

\* For any replays of any events, with any filters, at any point: none sends
\* an event again, and none ever counts a success.
THEOREM ReplaySendsNothingEver == Spec => []ReplaySendsNothing
<1>1. ReplayInv => ReplaySendsNothing
  BY DEF ReplayInv
<1> QED
  BY <1>1, ReplayCorrect, PTL

LEMMA WorkStep == OutboxInv /\ OutboxInv' /\ ReplayInv /\ WorkInv /\ [Next]_vars => WorkInv'
<1> SUFFICES ASSUME OutboxInv, OutboxInv', ReplayInv, WorkInv, [Next]_vars
             PROVE  WorkInv'
  OBVIOUS
<1>1. /\ pc \in [Callers -> PublishStep] /\ env \in [Callers -> Envelope \cup {NoEnvelope}]
      /\ faults \in Nat /\ MaxFaults \in Nat
  BY PublisherAssumption DEF OutboxInv, TypeOK
<1>2. ASSUME faults' > 0 PROVE WorkInv'
  BY <1>2 DEF WorkInv
<1>3. ASSUME UNCHANGED <<eventLog, stream, faults>>,
             \A p \in Callers : \/ pc'[p] = pc[p] /\ env'[p] = env[p]
                                \/ pc[p] # "xadd" /\ pc'[p] \notin {"xadd", "markFailed"}
      PROVE  WorkInv'
  <2>1. \A k \in Keys : InStream(k)' <=> InStream(k)
    BY <1>3 DEF InStream
  <2>2. \A p \in Producers : p \in Callers
    BY DEF Callers
  <2> QED
    BY <1>3, <2>1, <2>2 DEF WorkInv
<1>4. ASSUME NEW p \in Callers, Fault PROVE WorkInv'
  BY <1>1, <1>2, <1>4 DEF Fault
<1>5. ASSUME NEW p \in Producers, NEW k \in Keys, Publish(p, k) PROVE WorkInv'
  BY <1>1, <1>3, <1>5 DEF Publish, Goto, Callers
<1>6. ASSUME NEW p \in Callers, CreateEventLog(p) PROVE WorkInv'
  <2>1. p \in Producers
    BY <1>6 DEF ReplayInv, Callers, CreateEventLog, Refused
  <2>2. /\ env[p].id \in Keys
        /\ \A k \in Keys : k # env[p].id => eventLog'[k].status = eventLog[k].status
        /\ eventLog'[env[p].id].status = "pending"
    <3>1. eventLog \in [Keys -> [status: PublishStatus, ikey: IdemKey]]
      BY DEF OutboxInv, TypeOK
    <3>2. env[p].id \in Keys
      BY <1>6 DEF CreateEventLog, OutboxInv, TypeOK, Envelope
    <3> QED
      BY <1>6, <3>1, <3>2 DEF CreateEventLog, Written
  <2>3. /\ pc'[p] = "xadd" /\ pc[p] = "insert" /\ \A q \in Callers : q # p => pc'[q] = pc[q]
        /\ UNCHANGED <<stream, env, faults>>
    BY <1>1, <1>6 DEF CreateEventLog, Goto
  <2>4. \A k \in Keys : InStream(k)' <=> InStream(k)
    BY <2>3 DEF InStream
  <2>5. \A q \in Producers : q \in Callers
    BY DEF Callers
  <2> QED
    BY <2>1, <2>2, <2>3, <2>4, <2>5 DEF WorkInv
<1>7. ASSUME NEW p \in Callers, RefuseDuplicate(p) PROVE WorkInv'
  BY <1>1, <1>3, <1>7 DEF RefuseDuplicate, Return, Goto
<1>8. ASSUME NEW p \in Callers, XAdd(p) PROVE WorkInv'
  <2>1. env[p].id \in Keys /\ stream \in Seq(Keys)
    BY <1>8 DEF XAdd, OutboxInv, TypeOK, Envelope
  <2>2. \A k \in Keys : Has(stream', k) <=> Has(stream, k) \/ k = env[p].id
    BY <1>8, <2>1, AppendElement DEF XAdd
  <2>3. \A k \in Keys : InStream(k)' <=> InStream(k) \/ k = env[p].id
    BY <2>2 DEF InStream, Has
  <2>4. /\ pc'[p] = "markPublished" /\ \A q \in Callers : q # p => pc'[q] = pc[q]
        /\ UNCHANGED <<eventLog, env, faults>>
    BY <1>1, <1>8 DEF XAdd, Goto
  <2>5. \A q \in Producers : q \in Callers
    BY DEF Callers
  <2> QED
    BY <2>3, <2>4, <2>5 DEF WorkInv
<1>9. ASSUME NEW p \in Callers, MarkEventLogPublished(p) \/ MarkEventLogPublishFailed(p)
      PROVE  WorkInv'
  <2>1. /\ pc[p] \in {"markPublished", "markFailed"} /\ pc'[p] = "idle"
        /\ \A q \in Callers : q # p => pc'[q] = pc[q] /\ env'[q] = env[q]
        /\ UNCHANGED <<stream, faults>>
        /\ env[p].id \in Keys
    BY <1>1, <1>9 DEF MarkEventLogPublished, MarkEventLogPublishFailed, Return, Goto,
                      OutboxInv, TypeOK, Envelope
  <2>2. /\ \A k \in Keys : k # env[p].id => eventLog'[k].status = eventLog[k].status
        /\ eventLog'[env[p].id].status =
              IF pc[p] = "markPublished" THEN "published" ELSE "failed"
    <3>1. eventLog \in [Keys -> [status: PublishStatus, ikey: IdemKey]]
      BY DEF OutboxInv, TypeOK
    <3> QED
      BY <1>9, <2>1, <3>1 DEF MarkEventLogPublished, MarkEventLogPublishFailed, Written
  <2>3. \A k \in Keys : InStream(k)' <=> InStream(k)
    BY <2>1 DEF InStream
  <2>4. pc[p] = "markFailed" => faults > 0
    BY DEF WorkInv
  <2>5. \A q \in Producers : q \in Callers
    BY DEF Callers
  <2> QED
    BY <2>1, <2>2, <2>3, <2>4, <2>5 DEF WorkInv
<1>10. ASSUME NEW k \in Keys, ReplayNext(k) PROVE WorkInv'
  BY <1>1, <1>3, <1>10 DEF ReplayNext, Goto, Callers
<1>11. ASSUME UNCHANGED <<eventLog, stream, pc, env, faults>> PROVE WorkInv'
  BY <1>3, <1>11
<1> QED
  BY <1>4, <1>5, <1>6, <1>7, <1>8, <1>9, <1>10, <1>11
  DEF Next, Step, FaultyStep, ReplayStep, vars, CreateEventLogFails, XAddResent, XAddFails,
      MarkEventLogPublishedFails, MarkEventLogPublishFailedFails, Crash, RequestReplay,
      ReplayCompletes

\* No event is left between its row and the stream with nobody at work on it,
\* unless some call failed: what RecordedIsDispatched needs fairness to turn
\* into a promise.
THEOREM NothingStrandedEver == Spec => []NothingStranded
<1>1. OutboxInv /\ WorkInv => NothingStranded
  <2> SUFFICES ASSUME OutboxInv, WorkInv, NEW k \in Recorded
               PROVE  \/ InStream(k) \/ faults > 0
                      \/ \E p \in Producers : pc[p] = "xadd" /\ env[p].id = k
    BY DEF NothingStranded
  <2>1. k \in Keys /\ eventLog[k].status \in {"pending", "published", "failed"}
    BY DEF Recorded, OutboxInv, TypeOK, PublishStatus
  <2> QED
    BY <2>1 DEF OutboxInv, StreamFollowsLog, WorkInv
<1> QED
  BY <1>1, InitReplay, WorkStep, OutboxCorrect, ReplayCorrect, PTL DEF Spec

-----------------------------------------------------------------------------
(* Refinement                                                              *)

\* The state of DurableOutbox that a state of the publisher stands for.
Row == [k \in Keys |-> eventLog[k].status]
Messages == {k \in Keys : InStream(k)}
Confirmed == {k \in Keys : "ok" \in told[k]}

LEMMA ContractInit == Init => Contract!Init
  BY DEF Init, Contract!Init, InStream

\* Every step of a caller, a replay or a failure is a step of DurableOutbox
\* for the event at hand, or none.
LEMMA ContractStep ==
    OutboxInv /\ ReplayInv /\ [Next]_vars => [Contract!Next]_(Contract!vars)
<1> SUFFICES ASSUME OutboxInv, ReplayInv, [Next]_vars
             PROVE  \/ \E k \in Keys : \/ Contract!Record(k) \/ Contract!Dispatch(k)
                                       \/ Contract!Confirm(k) \/ Contract!GiveUp(k)
                    \/ UNCHANGED <<Row, Messages, Confirmed>>
  BY DEF Contract!Next, Contract!vars, Row, Messages, Confirmed
<1>1. ASSUME UNCHANGED stream PROVE UNCHANGED Messages
  BY <1>1 DEF Messages, InStream
<1>2. ASSUME NEW p \in Callers, pc[p] # "idle", NEW answer \in {"duplicate", "error"},
             Return(p, answer)
      PROVE  UNCHANGED Confirmed
  <2>1. told \in [Keys -> SUBSET Answer] /\ env[p].id \in Keys
    BY <1>2 DEF OutboxInv, TypeOK, Envelope
  <2>2. \A k \in Keys : "ok" \in told'[k] <=> "ok" \in told[k]
    BY <1>2, <2>1 DEF Return
  <2> QED
    BY <2>2 DEF Confirmed
\* A statement, committed or not, whose caller may be told "ok" or nothing.
<1>3. ASSUME NEW p \in Callers, pc[p] # "idle", MayWrite(p), UNCHANGED stream,
             \/ UNCHANGED Confirmed
             \/ /\ pc[p] = "markPublished" /\ eventLog' = Written(p)
                /\ Confirmed' = Confirmed \cup {env[p].id}
      PROVE  \/ \E k \in Keys : \/ Contract!Record(k) \/ Contract!Confirm(k)
                                \/ Contract!GiveUp(k)
             \/ UNCHANGED <<Row, Messages, Confirmed>>
  <2>0. PICK e \in Keys : e = env[p].id
    BY <1>3 DEF OutboxInv, TypeOK, Envelope
  <2>1. UNCHANGED Messages
    BY <1>1, <1>3
  <2>2. ASSUME NEW t, env[p].id \in Keys,
               \A k \in Keys : k # env[p].id => Written(p)[k] = eventLog[k],
               Written(p)[env[p].id].status = t, eventLog' = Written(p)
        PROVE  Row' = [Row EXCEPT ![env[p].id] = t]
    BY <2>2 DEF Row
  <2>3. CASE eventLog' = eventLog /\ UNCHANGED Confirmed
    BY <2>1, <2>3 DEF Row
  <2>4. CASE pc[p] = "insert" /\ RowWritten(p, "absent", "pending") /\ eventLog' = Written(p)
    <3>1. Row[env[p].id] = "absent" /\ Row' = [Row EXCEPT ![env[p].id] = "pending"]
      BY <2>2, <2>4 DEF RowWritten, Row
    <3>2. UNCHANGED <<Messages, Confirmed>>
      BY <1>3, <2>1, <2>4
    <3>3. Contract!Record(e)
      BY <2>0, <3>1, <3>2 DEF Contract!Record, Row, Messages, Confirmed
    <3> QED
      BY <3>3
  <2>5. CASE pc[p] = "markFailed" /\ RowWritten(p, "pending", "failed") /\ eventLog' = Written(p)
    <3>1. Row[env[p].id] = "pending" /\ Row' = [Row EXCEPT ![env[p].id] = "failed"]
      BY <2>2, <2>5 DEF RowWritten, Row
    <3>2. UNCHANGED <<Messages, Confirmed>>
      BY <1>3, <2>1, <2>5
    <3>3. Contract!GiveUp(e)
      BY <2>0, <3>1, <3>2 DEF Contract!GiveUp, Row, Messages, Confirmed
    <3> QED
      BY <3>3
  <2>6. CASE /\ pc[p] = "markPublished" /\ RowWritten(p, "pending", "published")
             /\ eventLog' = Written(p)
    <3>1. Row[env[p].id] = "pending" /\ Row' = [Row EXCEPT ![env[p].id] = "published"]
      BY <2>2, <2>6 DEF RowWritten, Row
    <3>2. env[p].id \in Messages
      BY <2>6 DEF RowWritten, Messages, OutboxInv, StreamFollowsLog
    <3>3. Confirmed' \in {Confirmed, Confirmed \cup {env[p].id}}
      BY <1>3
    <3>4. Contract!Confirm(e)
      BY <2>0, <2>1, <3>1, <3>2, <3>3 DEF Contract!Confirm, Row, Messages, Confirmed
    <3> QED
      BY <3>4
  <2> QED
    BY <1>3, <2>3, <2>4, <2>5, <2>6, WrittenRow DEF MayWrite
<1>4. ASSUME NEW p \in Callers, XAdd(p) \/ XAddResent(p) \/ XAddFails(p)
      PROVE  \/ \E k \in Keys : Contract!Dispatch(k)
             \/ UNCHANGED <<Row, Messages, Confirmed>>
  <2> DEFINE k0 == env[p].id
  <2>1. k0 \in Keys /\ stream \in Seq(Keys) /\ Dispatching(p) /\ ~InStream(k0)
    BY <1>4 DEF XAdd, XAddResent, XAddFails, OutboxInv, TypeOK, Envelope,
                StreamFollowsLog, Dispatching
  <2>2. eventLog[k0].status = "pending"
    BY <2>1 DEF OutboxInv, InserterOwnsRow
  <2>3. UNCHANGED <<Row, Confirmed>>
    BY <1>4 DEF XAdd, XAddResent, XAddFails, Row, Confirmed
  <2>4. \A s \in Seq(Keys) :
           /\ Append(s, k0) \in Seq(Keys)
           /\ \A k : Has(Append(s, k0), k) <=> Has(s, k) \/ k = k0
    BY <2>1, AppendElement
  <2>5. \A k : Has(Append(Append(stream, k0), k0), k) <=> Has(stream, k) \/ k = k0
    BY <2>1, <2>4
  <2>6. (\A k : InStream(k) <=> Has(stream, k)) /\ (\A k : InStream(k)' <=> Has(stream', k))
    BY DEF InStream, Has
  <2>7. stream' \in {stream, Append(stream, k0), Append(Append(stream, k0), k0)}
    BY <1>4 DEF XAdd, XAddResent, XAddFails
  <2> HIDE DEF k0
  <2>8. CASE stream' = stream
    BY <1>1, <2>3, <2>8
  <2>9. CASE stream' # stream
    <3>1. \A k \in Keys : InStream(k)' <=> InStream(k) \/ k = k0
      <4>1. CASE stream' = Append(stream, k0)
        BY <2>1, <2>4, <2>6, <4>1
      <4>2. CASE stream' = Append(Append(stream, k0), k0)
        BY <2>5, <2>6, <4>2
      <4> QED
        BY <2>7, <2>9, <4>1, <4>2
    <3>2. Messages' = Messages \cup {k0} /\ k0 \notin Messages
      BY <2>1, <3>1 DEF Messages
    <3>3. Row[k0] = "pending"
      BY <2>1, <2>2 DEF Row
    <3>4. Contract!Dispatch(k0)
      BY <2>3, <3>2, <3>3 DEF Contract!Dispatch, Row, Messages, Confirmed
    <3> QED
      BY <2>1, <3>4
  <2> QED
    BY <2>8, <2>9
<1>5. ASSUME NEW p \in Callers, MarkEventLogPublished(p)
      PROVE  \/ \E k \in Keys : \/ Contract!Record(k) \/ Contract!Confirm(k)
                                \/ Contract!GiveUp(k)
             \/ UNCHANGED <<Row, Messages, Confirmed>>
  <2>1. /\ pc[p] = "markPublished" /\ env[p].id \in Keys
        /\ told \in [Keys -> SUBSET Answer]
    BY <1>5 DEF MarkEventLogPublished, OutboxInv, TypeOK, Envelope
  <2>2. p # Operator
    BY <2>1 DEF ReplayInv, ReplaySendsNothing
  <2>3. told' = [told EXCEPT ![env[p].id] = @ \cup {"ok"}]
    BY <1>5, <2>2 DEF MarkEventLogPublished, Return
  <2>4. Confirmed' = Confirmed \cup {env[p].id}
    BY <2>1, <2>3 DEF Confirmed
  <2> QED
    BY <1>3, <1>5, <2>1, <2>4 DEF MarkEventLogPublished, MayWrite
<1>6. ASSUME NEW p \in Callers,
             \/ CreateEventLog(p) \/ MarkEventLogPublishFailed(p) \/ RefuseDuplicate(p)
             \/ CreateEventLogFails(p) \/ MarkEventLogPublishedFails(p)
             \/ MarkEventLogPublishFailedFails(p) \/ Crash(p)
      PROVE  \/ \E k \in Keys : \/ Contract!Record(k) \/ Contract!Confirm(k)
                                \/ Contract!GiveUp(k)
             \/ UNCHANGED <<Row, Messages, Confirmed>>
  <2>1. pc[p] # "idle" /\ MayWrite(p) /\ UNCHANGED stream
    BY <1>6 DEF CreateEventLog, MarkEventLogPublishFailed, RefuseDuplicate, CreateEventLogFails,
       MarkEventLogPublishedFails, MarkEventLogPublishFailedFails, Crash, MayWrite
  <2>2. UNCHANGED told \/ \E answer \in {"duplicate", "error"} : Return(p, answer)
    BY <1>6 DEF CreateEventLog, MarkEventLogPublishFailed, RefuseDuplicate, CreateEventLogFails,
       MarkEventLogPublishedFails, MarkEventLogPublishFailedFails, Crash
  <2>3. UNCHANGED Confirmed
    BY <1>2, <2>1, <2>2 DEF Confirmed
  <2> QED
    BY <1>3, <2>1, <2>3
<1>7. ASSUME UNCHANGED <<eventLog, stream, told>>
      PROVE  UNCHANGED <<Row, Messages, Confirmed>>
  BY <1>1, <1>7 DEF Row, Confirmed
<1> QED
  BY <1>4, <1>5, <1>6, <1>7
  DEF Next, Step, FaultyStep, ReplayStep, vars, Publish, RequestReplay, ReplayNext,
      ReplayCompletes

\* The outbox implements DurableOutbox, for any callers, events, replays and
\* failures.
THEOREM ContractImplemented == Spec => ContractSpec
  BY ContractInit, ContractStep, OutboxCorrect, ReplayCorrect, PTL
  DEF Spec, ContractSpec, Contract!Spec

-----------------------------------------------------------------------------
(* For EventBackbone: what the publisher does to the stream it shares      *)

\* Messages are appended and never changed.
LEMMA StreamOnlyAppended ==
    ASSUME TypeOK, [Next]_vars
    PROVE  Len(stream) <= Len(stream') /\ \A m \in 1..Len(stream) : stream'[m] = stream[m]
<1>1. CASE UNCHANGED stream
  BY <1>1 DEF TypeOK
<1>2. ASSUME NEW p \in Callers, XAdd(p) \/ XAddResent(p) \/ XAddFails(p)
      PROVE  Len(stream) <= Len(stream') /\ \A m \in 1..Len(stream) : stream'[m] = stream[m]
  <2>1. env[p].id \in Keys /\ stream \in Seq(Keys)
    BY <1>2 DEF XAdd, XAddResent, XAddFails, TypeOK, Envelope
  <2>2. stream' \in {stream, Append(stream, env[p].id),
                     Append(Append(stream, env[p].id), env[p].id)}
    BY <1>2 DEF XAdd, XAddResent, XAddFails
  <2> QED
    BY <2>1, <2>2
<1> QED
  BY <1>1, <1>2
  DEF Next, Step, FaultyStep, ReplayStep, vars, Publish, CreateEventLog, RefuseDuplicate,
      CreateEventLogFails, MarkEventLogPublished, MarkEventLogPublishedFails,
      MarkEventLogPublishFailed, MarkEventLogPublishFailedFails, Crash, RequestReplay,
      ReplayNext, ReplayCompletes

\* Faults are only ever added.
LEMMA FaultsGrow ==
    ASSUME TypeOK, [Next]_vars
    PROVE  faults <= faults'
<1>1. faults \in Nat
  BY DEF TypeOK
<1>2. UNCHANGED faults \/ faults' = faults + 1
  BY DEF Next, Step, FaultyStep, ReplayStep, vars, Fault, Publish, CreateEventLog,
     RefuseDuplicate, CreateEventLogFails, XAdd, XAddResent, XAddFails,
     MarkEventLogPublished, MarkEventLogPublishedFails, MarkEventLogPublishFailed,
     MarkEventLogPublishFailedFails, Crash, RequestReplay, ReplayNext, ReplayCompletes
<1> QED
  BY <1>1, <1>2

\* Events that are recorded and in the stream.
Sent == {k \in Recorded : InStream(k)}

\* A step sends one event at most, and takes none back.
LEMMA SendsOne ==
    ASSUME OutboxInv, OutboxInv', [Next]_vars
    PROVE  Sent' = Sent \/ \E k \in Keys : Sent' = Sent \cup {k}
<1>1. Sent = {k \in Keys : InStream(k)} /\ Sent' = {k \in Keys : InStream(k)'}
  <2>1. \A k \in Keys : InStream(k) => eventLog[k].status # "absent"
    BY DEF OutboxInv, StreamFollowsLog
  <2>2. \A k \in Keys : InStream(k)' => eventLog'[k].status # "absent"
    BY DEF OutboxInv, StreamFollowsLog
  <2> QED
    BY <2>1, <2>2 DEF Sent, Recorded
<1>2. CASE UNCHANGED stream
  BY <1>1, <1>2 DEF InStream
<1>3. ASSUME NEW p \in Callers, XAdd(p) \/ XAddResent(p) \/ XAddFails(p)
      PROVE  Sent' = Sent \/ \E k \in Keys : Sent' = Sent \cup {k}
  <2> DEFINE k0 == env[p].id
  <2>1. k0 \in Keys /\ stream \in Seq(Keys)
    BY <1>3 DEF XAdd, XAddResent, XAddFails, OutboxInv, TypeOK, Envelope
  <2>2. stream' \in {stream, Append(stream, k0), Append(Append(stream, k0), k0)}
    BY <1>3 DEF XAdd, XAddResent, XAddFails
  <2> HIDE DEF k0
  <2>3. \A s \in Seq(Keys) :
           /\ Append(s, k0) \in Seq(Keys)
           /\ \A k : Has(Append(s, k0), k) <=> Has(s, k) \/ k = k0
    BY <2>1, AppendElement
  <2>4. \A k : Has(Append(Append(stream, k0), k0), k) <=> Has(Append(stream, k0), k) \/ k = k0
    BY <2>1, <2>3
  <2>5. (\A k : InStream(k) <=> Has(stream, k)) /\ (\A k : InStream(k)' <=> Has(stream', k))
    BY DEF InStream, Has
  <2>6. \/ \A k : InStream(k)' <=> InStream(k)
        \/ \A k : InStream(k)' <=> InStream(k) \/ k = k0
    <3>1. CASE stream' = stream
      BY <2>5, <3>1
    <3>2. CASE stream' = Append(stream, k0)
      BY <2>1, <2>3, <2>5, <3>2
    <3>3. CASE stream' = Append(Append(stream, k0), k0)
      BY <2>1, <2>3, <2>4, <2>5, <3>3
    <3> QED
      BY <2>2, <3>1, <3>2, <3>3
  <2> QED
    BY <1>1, <2>1, <2>6
<1> QED
  BY <1>2, <1>3
  DEF Next, Step, FaultyStep, ReplayStep, vars, Publish, CreateEventLog, RefuseDuplicate,
      CreateEventLogFails, MarkEventLogPublished, MarkEventLogPublishedFails,
      MarkEventLogPublishFailed, MarkEventLogPublishFailedFails, Crash, RequestReplay,
      ReplayNext, ReplayCompletes

\* Something fails elsewhere.
LEMMA FaultsElsewhere ==
    ASSUME OutboxInv, faults' \in 0..MaxFaults,
           UNCHANGED <<eventLog, stream, pc, env, told, replay, resent>>
    PROVE  OutboxInv'
  BY DEF OutboxInv, TypeOK, InserterOwnsRow, Dispatching, StreamFollowsLog, InStream,
         OkMeansPublished, DispatchedOnce

=============================================================================
