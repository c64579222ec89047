------------------------ MODULE StreamConsumerProofs ------------------------
(***************************************************************************)
(* Type correctness of StreamConsumer, the safety of its acknowledgements  *)
(* and records, and that it implements AtLeastOnce: for any replicas,      *)
(* groups, events, batch size, number of messages and number of faults.    *)
(*                                                                         *)
(* AcknowledgedIsHandled and ProcessedHasRun are not inductive: they hold  *)
(* because of what a goroutine knows of the message it has in hand at each *)
(* step of its handler.  HandlerInv states that.                           *)
(***************************************************************************)
EXTENDS StreamConsumer, FiniteSetTheorems, WellFoundedInduction, TLAPS

-----------------------------------------------------------------------------
(* The operators on message ids *)

\* A set of message ids that is not empty has a lowest one.
LEMMA LeastMember ==
    ASSUME NEW S \in SUBSET Nat, S # {}
    PROVE  Least(S) \in S /\ \A n \in S : Least(S) <= n
<1> DEFINE R == OpToRel(<, Nat)
<1>1. IsWellFoundedOn(R, Nat)
  BY NatLessThanWellFounded
<1>2. \A m, n \in Nat : n < m => <<n, m>> \in R
  BY DEF OpToRel
<1> HIDE DEF R
<1>3. PICK m \in S : \A n \in S : <<n, m>> \notin R
  BY <1>1, WFMin
<1>4. \A n \in S : m <= n
  <2> SUFFICES ASSUME NEW n \in S PROVE m <= n
    OBVIOUS
  <2>1. n \in Nat /\ m \in Nat
    OBVIOUS
  <2>2. ~(n < m)
    BY <1>2, <1>3, <2>1
  <2> QED
    BY <2>1, <2>2
<1> QED
  BY <1>4 DEF Least

\* A batch is a part of what it is taken from, and empty only with it.
LEMMA BatchOf ==
    ASSUME NEW S \in SUBSET Nat
    PROVE  FirstBatch(S) \subseteq S /\ (FirstBatch(S) = {} => S = {})
<1>1. FirstBatch(S) \subseteq S
  BY DEF FirstBatch
<1>2. ASSUME S # {} PROVE FirstBatch(S) # {}
  <2>1. Least(S) \in S /\ \A n \in S : Least(S) <= n
    BY <1>2, LeastMember
  <2>2. {n \in S : n < Least(S)} = {}
    <3> SUFFICES ASSUME NEW n \in S, n < Least(S) PROVE FALSE
      OBVIOUS
    <3>1. n \in Nat /\ Least(S) \in Nat /\ Least(S) <= n
      BY <2>1
    <3> QED
      BY <3>1
  <2>3. Cardinality({n \in S : n < Least(S)}) = 0
    BY <2>2, FS_EmptySet, Zenon
  <2>4. Cardinality({n \in S : n < Least(S)}) < BatchSize
    BY <2>3, ConsumerAssumption
  <2> QED
    BY <2>1, <2>4 DEF FirstBatch
<1> QED
  BY <1>1, <1>2

\* What XREADGROUP delivers is the next messages without a gap, as many as
\* the cursor moves by.
LEMMA BatchOfInterval ==
    ASSUME NEW c \in Nat, NEW n \in Nat, c <= n
    PROVE  LET next == FirstBatch((c + 1)..n) IN
           /\ Cardinality(next) \in Nat
           /\ next = (c + 1)..(c + Cardinality(next))
           /\ c + Cardinality(next) <= n
<1> DEFINE I == (c + 1)..n
           next == FirstBatch(I)
           top == IF c + BatchSize <= n THEN c + BatchSize ELSE n
<1>0. BatchSize \in Nat /\ BatchSize > 0
  BY ConsumerAssumption
<1>1. ASSUME NEW m \in I
      PROVE  Cardinality({i \in I : i < m}) = m - (c + 1)
  <2>1. {i \in I : i < m} = (c + 1)..(m - 1)
    OBVIOUS
  <2>2. Cardinality((c + 1)..(m - 1)) = IF c + 1 > m - 1 THEN 0 ELSE m - 1 - (c + 1) + 1
    BY FS_Interval
  <2>3. Cardinality({i \in I : i < m}) = Cardinality((c + 1)..(m - 1))
    BY <2>1, Zenon
  <2> QED
    BY <2>2, <2>3
<1>2. next = {m \in I : m - (c + 1) < BatchSize}
  BY <1>1 DEF FirstBatch
<1>3. next = (c + 1)..top
  <2>1. \A m : m \in next <=> m \in I /\ m - (c + 1) < BatchSize
    BY <1>2
  <2>2. \A m : m \in I /\ m - (c + 1) < BatchSize <=> m \in (c + 1)..top
    BY <1>0
  <2> QED
    BY <2>1, <2>2
<1>4. Cardinality((c + 1)..top) = IF c + 1 > top THEN 0 ELSE top - (c + 1) + 1
  BY <1>0, FS_Interval
<1>5. Cardinality(next) = top - c
  BY <1>0, <1>3, <1>4
<1> QED
  BY <1>0, <1>3, <1>5

-----------------------------------------------------------------------------
(* Type correctness *)

LEMMA StreamType ==
    ASSUME TypeOK
    PROVE  stream \in Seq(Keys) /\ Len(stream) \in Nat /\ DOMAIN stream = 1..Len(stream)
<1>1. stream \in Seq(Keys)
  BY DEF TypeOK
<1> QED
  BY <1>1

\* The message a busy goroutine is at, and the event it carries.
LEMMA MessageInHand ==
    ASSUME TypeOK, NEW t \in Threads, Busy(t)
    PROVE  /\ Group(t) \in Groups
           /\ thread[t].batch \in SUBSET (1..Len(stream))
           /\ Msg(t) \in thread[t].batch
           /\ Msg(t) \in 1..Len(stream)
           /\ Event(t) \in Keys
<1>1. /\ Group(t) \in Groups
      /\ thread[t].batch \in SUBSET (1..Len(stream)) /\ thread[t].batch # {}
  BY DEF TypeOK
<1>2. Msg(t) \in thread[t].batch
  BY <1>1, LeastMember DEF Msg
<1> QED
  BY <1>1, <1>2 DEF TypeOK, Event

\* The part of TypeOK that says what goroutines are.
ThreadsOK ==
    /\ thread \in [Threads -> ThreadState]
    /\ \A t \in Threads : Busy(t) =>
          /\ Group(t) \in Groups
          /\ thread[t].batch \in (SUBSET (1..Len(stream))) \ {{}}

LEMMA GotoType ==
    ASSUME TypeOK, NEW t \in Threads, Busy(t), NEW step \in Step, Goto(t, step),
           UNCHANGED stream
    PROVE  ThreadsOK'
<1>1. thread' = [thread EXCEPT ![t] = [@ EXCEPT !.pc = step]]
  BY DEF Goto
<1>2. [thread[t] EXCEPT !.pc = step] \in ThreadState
  BY DEF TypeOK, ThreadState
<1> QED
  BY <1>1, <1>2 DEF TypeOK, ThreadsOK, Busy, Group, ThreadState

LEMMA StartType ==
    ASSUME TypeOK, NEW t \in Threads, NEW g \in Groups,
           NEW batch \in (SUBSET (1..Len(stream))) \ {{}}, Start(t, g, batch),
           UNCHANGED stream
    PROVE  ThreadsOK'
<1>1. [pc |-> "check", group |-> g, batch |-> batch, failed |-> FALSE] \in ThreadState
  BY DEF TypeOK, ThreadState, Step
<1> QED
  BY <1>1 DEF Start, TypeOK, ThreadsOK, Busy, Group

LEMMA SettleType ==
    ASSUME TypeOK, NEW t \in Threads, Busy(t), NEW failed \in BOOLEAN,
           Settle(t, failed), UNCHANGED stream
    PROVE  ThreadsOK'
<1> DEFINE rest == thread[t].batch \ {Msg(t)}
           next == [thread[t] EXCEPT !.batch = rest, !.pc = "check"]
           done == [thread[t] EXCEPT !.failed = failed, !.pc = "checkpoint"]
<1>1. /\ thread[t] \in ThreadState /\ Group(t) \in Groups
      /\ thread[t].batch \in (SUBSET (1..Len(stream))) \ {{}}
  BY DEF TypeOK
<1>2. next \in ThreadState /\ next.group = Group(t) /\ next.batch = rest
  BY <1>1 DEF ThreadState, Step, Group
<1>3. done \in ThreadState /\ done.group = Group(t) /\ done.batch = thread[t].batch
  BY <1>1 DEF ThreadState, Step, Group
<1>4. \/ thread' = [thread EXCEPT ![t] = next] /\ rest # {}
      \/ thread' = [thread EXCEPT ![t] = done]
  BY DEF Settle
<1>5. thread \in [Threads -> ThreadState]
  BY DEF TypeOK
<1> HIDE DEF next, done
<1>6. /\ \A u \in Threads : u # t => thread'[u] = thread[u]
      /\ thread'[t] \in {next, done}
      /\ thread'[t] = next => rest # {} \/ thread'[t] = done
  BY <1>4, <1>5
<1>7. thread' \in [Threads -> ThreadState]
  BY <1>2, <1>3, <1>4, <1>5
<1>8. /\ thread'[t].group \in Groups
      /\ thread'[t].batch \in (SUBSET (1..Len(stream))) \ {{}}
  BY <1>1, <1>2, <1>3, <1>6
<1> QED
  BY <1>6, <1>7, <1>8 DEF TypeOK, ThreadsOK, Busy, Group

LEMMA CheckpointType ==
    ASSUME TypeOK, NEW t \in Threads, Busy(t), NEW failed \in BOOLEAN,
           SetCheckpoint(t, failed)
    PROVE  checkpoint' \in [Replicas -> [Groups -> [last: Nat, error: BOOLEAN]]]
<1> DEFINE Row == [last: Nat, error: BOOLEAN]
           row == [last |-> Msg(t), error |-> failed]
<1>1. /\ t[1] \in Replicas
      /\ checkpoint \in [Replicas -> [Groups -> Row]]
      /\ checkpoint' = [checkpoint EXCEPT ![t[1]] = [@ EXCEPT ![Group(t)] = row]]
  BY DEF Threads, TypeOK, SetCheckpoint
<1>2. row \in Row
  BY MessageInHand, StreamType
<1> HIDE DEF Row, row
<1>3. [checkpoint[t[1]] EXCEPT ![Group(t)] = row] \in [Groups -> Row]
  BY <1>1, <1>2
<1>4. checkpoint' \in [Replicas -> [Groups -> Row]]
  BY <1>1, <1>3
<1> QED
  BY <1>4 DEF Row

LEMMA InitType == Init => TypeOK
<1> SUFFICES ASSUME Init PROVE TypeOK
  OBVIOUS
<1>1. IdleThread \in ThreadState
  BY DEF IdleThread, ThreadState, Step
<1>2. ThreadsOK
  BY <1>1 DEF Init, ThreadsOK, Busy, IdleThread
<1>3. stream \in Seq(Keys) /\ Len(stream) = 0
  BY DEF Init
<1> QED
  BY <1>2, <1>3, ConsumerAssumption DEF Init, TypeOK, ThreadsOK

\* No step of the consumers leaves the types.
LEMMA TypeStep == TypeOK /\ [Next]_vars => TypeOK'
<1> SUFFICES ASSUME TypeOK, [Next]_vars PROVE TypeOK'
  OBVIOUS
<1> USE DEF groupVars, tableVars, historyVars, consumerVars, vars
<1>1. ASSUME NEW g \in Groups, NEW m \in pel[g], TimePasses(g, m) PROVE TypeOK'
  BY <1>1 DEF TimePasses, TypeOK, Busy, Group
<1>2. ASSUME NEW r \in Replicas, NEW g \in Groups, ReadGroup(r, g) \/ ReadGroupLost(r, g)
      PROVE  TypeOK'
  <2> DEFINE next == FirstBatch((cursor[g] + 1)..Len(stream))
  <2>1. /\ cursor[g] \in Nat /\ Len(stream) \in Nat /\ cursor[g] <= Len(stream)
        /\ next # {} /\ cursor' = [cursor EXCEPT ![g] = @ + Cardinality(next)]
        /\ pel' = [pel EXCEPT ![g] = @ \cup next]
        /\ UNCHANGED <<stream, stale, tableVars, historyVars, todo>>
    BY <1>2 DEF TypeOK, ReadGroup, ReadGroupLost, Deliver
  <2>2. /\ Cardinality(next) \in Nat /\ cursor[g] + Cardinality(next) <= Len(stream)
        /\ next = (cursor[g] + 1)..(cursor[g] + Cardinality(next))
    BY <2>1, BatchOfInterval
  <2> HIDE DEF next
  <2>3. next \in (SUBSET (1..Len(stream))) \ {{}}
    BY <2>1, <2>2
  <2>4. cursor' \in [Groups -> 0..Len(stream)]
    BY <2>1, <2>2 DEF TypeOK
  <2>5. pel' \in [Groups -> SUBSET (1..Len(stream))]
    BY <2>1, <2>3 DEF TypeOK
  <2>6. ThreadsOK' /\ faults' \in 0..MaxFaults
    <3>1. CASE ReadGroup(r, g)
      <4>1. Start(<<r, g>>, g, next) /\ UNCHANGED <<stream, faults>>
        BY <2>1, <3>1 DEF ReadGroup, next
      <4> QED
        BY <4>1, <2>3, StartType DEF Threads, TypeOK
    <3>2. CASE ReadGroupLost(r, g)
      BY <2>1, <3>2, ConsumerAssumption
      DEF ReadGroupLost, Fault, TypeOK, ThreadsOK, Busy, Group
    <3> QED
      BY <1>2, <3>1, <3>2
  <2> QED
    BY <2>1, <2>4, <2>5, <2>6 DEF TypeOK, ThreadsOK
<1>3. ASSUME NEW r \in Replicas, Tick(r) PROVE TypeOK'
  BY <1>3 DEF Tick, TypeOK, Busy, Group
<1>4. ASSUME NEW r \in Replicas, NEW g \in Groups, AutoClaim(r, g) PROVE TypeOK'
  <2> DEFINE claimed == FirstBatch(Claimable(g))
  <2>1. Claimable(g) \in SUBSET (1..Len(stream)) /\ Len(stream) \in Nat
    BY DEF Claimable, TypeOK
  <2>2. claimed \in SUBSET (1..Len(stream))
    BY <2>1, BatchOf
  <2>3. /\ IF claimed = {} THEN UNCHANGED thread
           ELSE Start(<<r, RetryManager>>, g, claimed)
        /\ UNCHANGED stream
    BY <1>4 DEF AutoClaim
  <2>4. stale' \in [Groups -> SUBSET (1..Len(stream))]
    BY <1>4 DEF AutoClaim, TypeOK
  <2> HIDE DEF claimed
  <2>5. CASE claimed = {}
    BY <1>4, <2>3, <2>4, <2>5 DEF AutoClaim, TypeOK, Busy, Group
  <2>6. CASE claimed # {}
    <3>1. ThreadsOK'
      BY <2>2, <2>3, <2>6, StartType DEF Threads
    <3> QED
      BY <1>4, <2>4, <3>1 DEF AutoClaim, TypeOK, ThreadsOK
  <2> QED
    BY <2>5, <2>6
<1>5. ASSUME NEW r \in Replicas, NEW g \in Groups, AutoClaimFails(r, g) PROVE TypeOK'
  BY <1>5, ConsumerAssumption DEF AutoClaimFails, Fault, TypeOK, Busy, Group
<1>6. ASSUME NEW r \in Replicas, Crash(r) PROVE TypeOK'
  <2>1. IdleThread \in ThreadState
    BY DEF IdleThread, ThreadState, Step
  <2>2. ThreadsOK'
    BY <1>6, <2>1 DEF Crash, ThreadsOK, TypeOK, Busy, Group, IdleThread
  <2>3. interrupted' \in [Groups -> [Keys -> Nat]]
    <3>1. \A g \in Groups, k \in Keys :
             interrupted[g][k] +
                 (IF \E t \in Threads : t[1] = r /\ At(t, g, k, "mark") THEN 1 ELSE 0) \in Nat
      BY DEF TypeOK
    <3> QED
      BY <1>6, <3>1 DEF Crash
  <2>4. faults' \in 0..MaxFaults
    BY <1>6, ConsumerAssumption DEF Crash, Fault, TypeOK
  <2>5. UNCHANGED <<stream, cursor, pel, stale, processed, dead, checkpoint, effects>>
    BY <1>6 DEF Crash
  <2>6. todo' \in [Replicas -> SUBSET Groups]
    BY <1>6 DEF Crash, TypeOK
  <2> QED
    BY <2>2, <2>3, <2>4, <2>5, <2>6 DEF TypeOK, ThreadsOK
<1>7. ASSUME NEW t \in Threads, Check(t) \/ EffectFails(t) PROVE TypeOK'
  <2>1. /\ Busy(t) /\ UNCHANGED stream
        /\ \/ Goto(t, "effect") \/ Goto(t, "ack") \/ Goto(t, "fail")
    BY <1>7 DEF Check, EffectFails, Busy
  <2>2. ThreadsOK'
    BY <2>1, GotoType DEF Step
  <2> QED
    BY <1>7, <2>2 DEF Check, EffectFails, TypeOK, ThreadsOK
<1>8. ASSUME NEW t \in Threads, Effect(t) PROVE TypeOK'
  <2>1. Busy(t) /\ Goto(t, "mark") /\ UNCHANGED stream
    BY <1>8 DEF Effect, Busy
  <2>2. ThreadsOK'
    BY <2>1, GotoType DEF Step
  <2>3. Group(t) \in Groups /\ Event(t) \in Keys
    BY <2>1, MessageInHand
  <2>4. effects' \in [Groups -> [Keys -> Nat]]
    BY <1>8, <2>3 DEF Effect, TypeOK
  <2> QED
    BY <1>8, <2>2, <2>4 DEF Effect, TypeOK, ThreadsOK
<1>9. ASSUME NEW t \in Threads, MarkProcessed(t) PROVE TypeOK'
  <2>1. Busy(t) /\ Goto(t, "ack") /\ UNCHANGED stream
    BY <1>9 DEF MarkProcessed, Busy
  <2>2. ThreadsOK'
    BY <2>1, GotoType DEF Step
  <2>3. Group(t) \in Groups /\ Event(t) \in Keys
    BY <2>1, MessageInHand
  <2> QED
    BY <1>9, <2>2, <2>3 DEF MarkProcessed, TypeOK, ThreadsOK
<1>10. ASSUME NEW t \in Threads, HandlerFails(t) PROVE TypeOK'
  <2>1. Busy(t) /\ Goto(t, "fail") /\ UNCHANGED stream
    BY <1>10 DEF HandlerFails, Busy
  <2>2. ThreadsOK'
    BY <2>1, GotoType DEF Step
  <2>3. Group(t) \in Groups /\ Event(t) \in Keys
    BY <2>1, MessageInHand
  <2>4. interrupted' \in [Groups -> [Keys -> Nat]]
    BY <1>10, <2>3 DEF HandlerFails, TypeOK
  <2>5. faults' \in 0..MaxFaults
    BY <1>10, ConsumerAssumption DEF HandlerFails, Fault, TypeOK
  <2>6. UNCHANGED <<stream, cursor, pel, stale, processed, dead, checkpoint, effects, todo>>
    BY <1>10 DEF HandlerFails
  <2> QED
    BY <2>2, <2>4, <2>5, <2>6 DEF TypeOK, ThreadsOK
<1>11. ASSUME NEW t \in Threads, Ack(t) \/ AckFails(t) PROVE TypeOK'
  <2>1. Busy(t) /\ Settle(t, FALSE) /\ UNCHANGED stream
    BY <1>11 DEF Ack, AckFails, Busy
  <2>2. ThreadsOK'
    BY <2>1, SettleType
  <2>3. /\ pel' \in [Groups -> SUBSET (1..Len(stream))]
        /\ stale' \in [Groups -> SUBSET (1..Len(stream))]
    <3>1. CASE Ack(t)
      <4>1. /\ pel' = [pel EXCEPT ![Group(t)] = @ \ {Msg(t)}]
            /\ stale' = [stale EXCEPT ![Group(t)] = @ \ {Msg(t)}]
        BY <3>1 DEF Ack
      <4> QED
        BY <4>1 DEF TypeOK
    <3>2. CASE AckFails(t)
      BY <3>2 DEF AckFails, TypeOK
    <3> QED
      BY <1>11, <3>1, <3>2
  <2>4. faults' \in 0..MaxFaults
    <3>1. CASE Ack(t)
      <4>1. faults' = faults
        BY <3>1 DEF Ack
      <4> QED
        BY <4>1 DEF TypeOK
    <3>2. CASE AckFails(t)
      <4>1. faults < MaxFaults /\ faults' = faults + 1
        BY <3>2 DEF AckFails, Fault
      <4> QED
        BY <4>1, ConsumerAssumption DEF TypeOK
    <3> QED
      BY <1>11, <3>1, <3>2
  <2>5. /\ UNCHANGED <<stream, cursor, processed, dead, checkpoint>>
        /\ UNCHANGED <<effects, interrupted, todo>>
    BY <1>11 DEF Ack, AckFails
  <2> QED
    BY <2>2, <2>3, <2>4, <2>5 DEF TypeOK, ThreadsOK
<1>12. ASSUME NEW t \in Threads, HandleConsumeError(t) \/ HandleConsumeErrorFails(t)
       PROVE  TypeOK'
  <2>1. Busy(t) /\ Settle(t, TRUE) /\ UNCHANGED stream
    BY <1>12 DEF HandleConsumeError, HandleConsumeErrorFails, Busy
  <2>2. ThreadsOK'
    BY <2>1, SettleType
  <2>3. Group(t) \in Groups /\ Msg(t) \in 1..Len(stream)
    BY <2>1, MessageInHand
  <2>4. dead' \in [Groups -> SUBSET (1..Len(stream'))]
    <3>1. DeadLetter(t) \/ UNCHANGED dead
      BY <1>12 DEF HandleConsumeError, HandleConsumeErrorFails
    <3>2. dead \in [Groups -> SUBSET (1..Len(stream))] /\ UNCHANGED stream
      BY <2>1 DEF TypeOK
    <3>3. CASE DeadLetter(t)
      BY <2>3, <3>2, <3>3 DEF DeadLetter
    <3> QED
      BY <3>1, <3>2, <3>3
  <2>5. checkpoint' \in [Replicas -> [Groups -> [last: Nat, error: BOOLEAN]]]
    <3>1. SetCheckpoint(t, TRUE) \/ UNCHANGED checkpoint
      BY <1>12 DEF HandleConsumeError, HandleConsumeErrorFails
    <3>2. CASE SetCheckpoint(t, TRUE)
      BY <2>1, <3>2, CheckpointType
    <3>3. CASE UNCHANGED checkpoint
      BY <3>3 DEF TypeOK
    <3> QED
      BY <3>1, <3>2, <3>3
  <2>6. /\ UNCHANGED cursor /\ UNCHANGED pel /\ UNCHANGED stale /\ UNCHANGED processed
        /\ UNCHANGED todo /\ UNCHANGED effects /\ UNCHANGED interrupted
        /\ UNCHANGED faults \/ Fault
    BY <1>12 DEF HandleConsumeError, HandleConsumeErrorFails
  <2>7. faults' \in 0..MaxFaults
    BY <2>6, ConsumerAssumption DEF Fault, TypeOK
  <2> QED
    BY <2>1, <2>2, <2>4, <2>5, <2>6, <2>7 DEF TypeOK, ThreadsOK
<1>13. ASSUME NEW t \in Threads, Checkpoint(t) \/ CheckpointFails(t)
       PROVE  TypeOK'
  <2> DEFINE rest == thread[t].batch \ {Msg(t)}
             more == [thread[t] EXCEPT !.batch = rest, !.pc = "check"]
  <2>1. /\ Busy(t) /\ Group(t) \in Groups /\ Msg(t) \in 1..Len(stream)
        /\ thread[t].batch \in SUBSET (1..Len(stream))
    BY <1>13, MessageInHand DEF Checkpoint, CheckpointFails, Busy
  <2>2. /\ more \in ThreadState /\ more.group = Group(t) /\ more.batch = rest
        /\ IdleThread \in ThreadState /\ IdleThread.pc = "idle"
    BY <2>1 DEF TypeOK, ThreadState, Step, Group, IdleThread
  <2>3. \/ thread' = [thread EXCEPT ![t] = IdleThread]
        \/ thread' = [thread EXCEPT ![t] = more] /\ rest # {}
    BY <1>13 DEF Checkpoint, CheckpointFails, Proceed
  <2>4. ThreadsOK'
    <3> HIDE DEF more
    <3>1. thread' \in [Threads -> ThreadState]
      BY <2>2, <2>3 DEF TypeOK
    <3>2. \A u \in Threads : u # t => thread'[u] = thread[u]
      BY <2>3 DEF TypeOK
    <3>3. thread'[t].pc # "idle" =>
              /\ thread'[t].group \in Groups
              /\ thread'[t].batch \in (SUBSET (1..Len(stream))) \ {{}}
      BY <2>1, <2>2, <2>3 DEF TypeOK
    <3> QED
      BY <1>13, <3>1, <3>2, <3>3
      DEF Checkpoint, CheckpointFails, TypeOK, ThreadsOK, Busy, Group
  <2>5. checkpoint' \in [Replicas -> [Groups -> [last: Nat, error: BOOLEAN]]]
    <3>1. thread[t].failed \in BOOLEAN
      BY DEF TypeOK, ThreadState
    <3>2. UNCHANGED checkpoint \/ SetCheckpoint(t, ~IsLoop(t) /\ thread[t].failed)
      BY <1>13 DEF Checkpoint, CheckpointFails
    <3> QED
      BY <2>1, <3>1, <3>2, CheckpointType DEF TypeOK, IsLoop
  <2>6. /\ UNCHANGED stream /\ UNCHANGED cursor /\ UNCHANGED pel /\ UNCHANGED stale
        /\ UNCHANGED processed /\ UNCHANGED dead /\ UNCHANGED todo
        /\ UNCHANGED effects /\ UNCHANGED interrupted
        /\ UNCHANGED faults \/ Fault
    BY <1>13 DEF Checkpoint, CheckpointFails
  <2>7. faults' \in 0..MaxFaults
    BY <2>6, ConsumerAssumption DEF Fault, TypeOK
  <2> QED
    BY <2>4, <2>5, <2>6, <2>7 DEF TypeOK, ThreadsOK
<1>14. ASSUME NEW k \in Keys, Arrive(k) PROVE TypeOK'
  <2>1. stream' \in Seq(Keys) /\ Len(stream') = Len(stream) + 1 /\ Len(stream) \in Nat
    BY <1>14 DEF Arrive, TypeOK
  <2>2. 1..Len(stream) \subseteq 1..Len(stream') /\ 0..Len(stream) \subseteq 0..Len(stream')
    BY <2>1
  <2>3. ThreadsOK'
    BY <1>14, <2>2 DEF Arrive, TypeOK, ThreadsOK, Busy, Group
  <2> QED
    BY <1>14, <2>1, <2>2, <2>3 DEF Arrive, TypeOK, ThreadsOK
<1>15. CASE UNCHANGED vars
  BY <1>15 DEF TypeOK, Busy, Group
<1> QED
  BY <1>1, <1>2, <1>3, <1>4, <1>5, <1>6, <1>7, <1>8, <1>9, <1>10, <1>11,
     <1>12, <1>13, <1>14, <1>15
  DEF Next, ConsumerNext, RetryStep, HandlerStep, FaultyStep

\* Every state of the consumers has its type, whatever fails or crashes.
THEOREM TypeCorrect == Spec => []TypeOK
  BY InitType, TypeStep, PTL DEF Spec

-----------------------------------------------------------------------------
(* The inductive invariant *)

\* What goroutine t has established about the message it is at.
Knows(t) ==
    /\ thread[t].pc = "effect" => Event(t) \in Wants[Group(t)]
    /\ thread[t].pc = "mark" => effects[Group(t)][Event(t)] > 0
    /\ thread[t].pc = "ack" =>
          (Event(t) \in Wants[Group(t)] => Event(t) \in processed[Group(t)])

HandlerInv ==
    /\ TypeOK
    /\ \A t \in Threads : Knows(t)
    /\ AcknowledgedIsHandled
    /\ ProcessedHasRun

\* Messages and records are only added, and effects only counted.
Grows ==
    /\ Len(stream) <= Len(stream')
    /\ \A m \in 1..Len(stream) : stream'[m] = stream[m]
    /\ \A g \in Groups : processed[g] \subseteq processed'[g]
    /\ \A g \in Groups, k \in Keys : effects[g][k] > 0 => effects'[g][k] > 0

\* What a goroutine has established stays true whatever the others do.
LEMMA KnowsStable ==
    ASSUME TypeOK, Grows, NEW u \in Threads, Knows(u), thread'[u] = thread[u]
    PROVE  Knows(u)'
<1>1. CASE ~Busy(u)
  BY <1>1 DEF Knows, Busy
<1>2. CASE Busy(u)
  <2>1. Group(u) \in Groups /\ Msg(u) \in 1..Len(stream) /\ Event(u) \in Keys
    BY <1>2, MessageInHand
  <2>2. Group(u)' = Group(u) /\ Msg(u)' = Msg(u)
    BY DEF Group, Msg
  <2>3. Event(u)' = Event(u)
    BY <2>1, <2>2 DEF Event, Grows
  <2> QED
    BY <2>1, <2>2, <2>3 DEF Knows, Grows
<1> QED
  BY <1>1, <1>2

\* A goroutine that turns to another message, fails, rests or is gone has
\* nothing to have established.
LEMMA KnowsNothing ==
    ASSUME NEW u \in Threads,
           thread'[u].pc \in {"idle", "check", "fail", "checkpoint"}
    PROVE  Knows(u)'
  BY DEF Knows

\* Acknowledged messages stay handled as long as pending lists and cursors
\* only change together.
LEMMA AcknowledgedStable ==
    ASSUME TypeOK, AcknowledgedIsHandled, Grows,
           \A g \in Groups : (1..cursor'[g]) \ pel'[g] \subseteq (1..cursor[g]) \ pel[g]
    PROVE  AcknowledgedIsHandled'
<1> SUFFICES ASSUME NEW g \in Groups, NEW m \in (1..cursor'[g]) \ pel'[g],
                    stream'[m] \in Wants[g]
             PROVE  stream'[m] \in processed'[g]
  BY DEF AcknowledgedIsHandled
<1>1. m \in (1..cursor[g]) \ pel[g]
  OBVIOUS
<1>2. m \in 1..Len(stream)
  BY <1>1 DEF TypeOK
<1> QED
  BY <1>1, <1>2 DEF AcknowledgedIsHandled, Grows

LEMMA ProcessedStable ==
    ASSUME ProcessedHasRun, TypeOK, Grows, UNCHANGED processed
    PROVE  ProcessedHasRun'
  BY DEF ProcessedHasRun, Grows, TypeOK

\* Where Settle and Goto leave the goroutines.
LEMMA SettleMoves ==
    ASSUME TypeOK, NEW t \in Threads, NEW failed \in BOOLEAN, Settle(t, failed)
    PROVE  /\ thread'[t].pc \in {"check", "checkpoint"}
           /\ \A u \in Threads : u # t => thread'[u] = thread[u]
<1>1. thread \in [Threads -> ThreadState] /\ thread[t] \in ThreadState
  BY DEF TypeOK
<1>2. [thread[t] EXCEPT !.batch = thread[t].batch \ {Msg(t)}, !.pc = "check"].pc = "check"
  BY <1>1 DEF ThreadState
<1>3. [thread[t] EXCEPT !.failed = failed, !.pc = "checkpoint"].pc = "checkpoint"
  BY <1>1 DEF ThreadState
<1>4. \/ thread' = [thread EXCEPT ![t] =
              [@ EXCEPT !.batch = thread[t].batch \ {Msg(t)}, !.pc = "check"]]
      \/ thread' = [thread EXCEPT ![t] =
              [@ EXCEPT !.failed = failed, !.pc = "checkpoint"]]
  BY DEF Settle
<1> QED
  BY <1>1, <1>2, <1>3, <1>4

LEMMA StartMoves ==
    ASSUME TypeOK, NEW t \in Threads, NEW g, NEW batch, Start(t, g, batch)
    PROVE  \A u \in Threads : thread'[u] = thread[u] \/ thread'[u].pc = "check"
<1>1. /\ thread'[t] = [pc |-> "check", group |-> g, batch |-> batch, failed |-> FALSE]
      /\ \A u \in Threads : u # t => thread'[u] = thread[u]
  BY DEF TypeOK, Start
<1> QED
  BY <1>1

LEMMA GotoMoves ==
    ASSUME TypeOK, NEW t \in Threads, NEW step \in Step, Goto(t, step)
    PROVE  /\ thread'[t] = [thread[t] EXCEPT !.pc = step]
           /\ thread'[t].pc = step /\ Group(t)' = Group(t) /\ Msg(t)' = Msg(t)
           /\ UNCHANGED stream => Event(t)' = Event(t)
           /\ \A u \in Threads : u # t => thread'[u] = thread[u]
<1>1. thread \in [Threads -> ThreadState] /\ thread[t] \in ThreadState
  BY DEF TypeOK
<1>2. thread' = [thread EXCEPT ![t] = [@ EXCEPT !.pc = step]]
  BY DEF Goto
<1>3. /\ thread'[t] = [thread[t] EXCEPT !.pc = step]
      /\ \A u \in Threads : u # t => thread'[u] = thread[u]
  BY <1>1, <1>2
<1>4. /\ thread'[t].pc = step /\ thread'[t].group = thread[t].group
      /\ thread'[t].batch = thread[t].batch
  BY <1>1, <1>3 DEF ThreadState
<1> QED
  BY <1>3, <1>4 DEF Group, Msg, Event

\* A step of goroutine t that leaves the tables alone and t at a point where
\* it need not know anything.
LEMMA PlainStep ==
    ASSUME HandlerInv, TypeOK', Grows, UNCHANGED processed,
           \A g \in Groups : (1..cursor'[g]) \ pel'[g] \subseteq (1..cursor[g]) \ pel[g],
           \A u \in Threads :
               \/ thread'[u] = thread[u]
               \/ thread'[u].pc \in {"idle", "check", "fail", "checkpoint"}
    PROVE  HandlerInv'
<1>1. \A u \in Threads : Knows(u)'
  BY KnowsStable, KnowsNothing DEF HandlerInv
<1> QED
  BY <1>1, AcknowledgedStable, ProcessedStable DEF HandlerInv

LEMMA InitHandler == Init /\ TypeOK => HandlerInv
<1> SUFFICES ASSUME Init, TypeOK PROVE HandlerInv
  OBVIOUS
<1>1. \A t \in Threads : Knows(t)
  BY DEF Init, Knows, IdleThread
<1>2. AcknowledgedIsHandled /\ ProcessedHasRun
  BY DEF Init, AcknowledgedIsHandled, ProcessedHasRun
<1> QED
  BY <1>1, <1>2 DEF HandlerInv

\* No step of the consumers breaks what the handlers rely on.
LEMMA HandlerInvStep == HandlerInv /\ TypeOK' /\ [Next]_vars => HandlerInv'
<1> SUFFICES ASSUME HandlerInv, TypeOK', [Next]_vars PROVE HandlerInv'
  OBVIOUS
<1>0. TypeOK
  BY DEF HandlerInv
<1> USE DEF groupVars, tableVars, historyVars, consumerVars, vars
<1>1. ASSUME NEW g \in Groups, NEW m \in pel[g], TimePasses(g, m) PROVE HandlerInv'
  <2>1. /\ UNCHANGED stream /\ UNCHANGED processed /\ UNCHANGED effects
        /\ UNCHANGED cursor /\ UNCHANGED pel /\ UNCHANGED thread
    BY <1>1 DEF TimePasses
  <2>2. Grows
    BY <1>0, <2>1, StreamType DEF Grows
  <2> QED
    BY <2>1, <2>2, PlainStep
<1>2. ASSUME NEW r \in Replicas, NEW g \in Groups, ReadGroup(r, g) \/ ReadGroupLost(r, g)
      PROVE  HandlerInv'
  <2> DEFINE next == FirstBatch((cursor[g] + 1)..Len(stream))
  <2>1. /\ cursor[g] \in Nat /\ Len(stream) \in Nat /\ cursor[g] <= Len(stream)
        /\ cursor' = [cursor EXCEPT ![g] = @ + Cardinality(next)]
        /\ pel' = [pel EXCEPT ![g] = @ \cup next]
        /\ UNCHANGED stream /\ UNCHANGED processed /\ UNCHANGED effects
    BY <1>0, <1>2 DEF TypeOK, ReadGroup, ReadGroupLost, Deliver
  <2>2. /\ Cardinality(next) \in Nat
        /\ next = (cursor[g] + 1)..(cursor[g] + Cardinality(next))
    BY <2>1, BatchOfInterval
  <2>3. \A u \in Threads : thread'[u] = thread[u] \/ thread'[u].pc = "check"
    <3>1. CASE ReadGroup(r, g)
      <4>1. Start(<<r, g>>, g, next) /\ <<r, g>> \in Threads
        BY <3>1 DEF ReadGroup, Threads
      <4> QED
        BY <1>0, <4>1, StartMoves
    <3>2. CASE ReadGroupLost(r, g)
      BY <3>2 DEF ReadGroupLost
    <3> QED
      BY <1>2, <3>1, <3>2
  <2> HIDE DEF next
  <2>4. \A h \in Groups : (1..cursor'[h]) \ pel'[h] \subseteq (1..cursor[h]) \ pel[h]
    <3> SUFFICES ASSUME NEW h \in Groups, NEW m \in (1..cursor'[h]) \ pel'[h]
                 PROVE  m \in (1..cursor[h]) \ pel[h]
      OBVIOUS
    <3>1. CASE h # g
      BY <1>0, <2>1, <3>1 DEF TypeOK
    <3>2. CASE h = g
      <4>1. cursor'[g] = cursor[g] + Cardinality(next) /\ pel'[g] = pel[g] \cup next
        BY <1>0, <2>1 DEF TypeOK
      <4>2. m \in 1..(cursor[g] + Cardinality(next)) /\ m \notin pel[g] /\ m \notin next
        BY <3>2, <4>1
      <4>3. m \in 1..cursor[g]
        BY <2>1, <2>2, <4>2
      <4> QED
        BY <3>2, <4>2, <4>3
    <3> QED
      BY <3>1, <3>2
  <2>5. Grows
    BY <1>0, <2>1 DEF Grows, TypeOK
  <2> QED
    BY <2>1, <2>3, <2>4, <2>5, PlainStep
<1>3. ASSUME NEW r \in Replicas, Tick(r) PROVE HandlerInv'
  BY <1>0, <1>3, PlainStep DEF Tick, Grows, TypeOK
<1>4. ASSUME NEW r \in Replicas, NEW g \in Groups, AutoClaim(r, g) \/ AutoClaimFails(r, g)
      PROVE  HandlerInv'
  <2>1. /\ UNCHANGED stream /\ UNCHANGED cursor /\ UNCHANGED pel
        /\ UNCHANGED processed /\ UNCHANGED effects
    BY <1>4 DEF AutoClaim, AutoClaimFails
  <2>2. \A u \in Threads : thread'[u] = thread[u] \/ thread'[u].pc = "check"
    <3>1. CASE AutoClaim(r, g)
      <4> DEFINE claimed == FirstBatch(Claimable(g))
      <4>1. <<r, RetryManager>> \in Threads
        BY DEF Threads
      <4>2. UNCHANGED thread \/ Start(<<r, RetryManager>>, g, claimed)
        BY <3>1 DEF AutoClaim
      <4> QED
        BY <1>0, <4>1, <4>2, StartMoves
    <3>2. CASE AutoClaimFails(r, g)
      BY <3>2 DEF AutoClaimFails
    <3> QED
      BY <1>4, <3>1, <3>2
  <2>3. Grows
    BY <1>0, <2>1 DEF Grows, TypeOK
  <2> QED
    BY <2>1, <2>2, <2>3, PlainStep
<1>5. ASSUME NEW r \in Replicas, Crash(r) PROVE HandlerInv'
  <2>1. \A u \in Threads : thread'[u] = thread[u] \/ thread'[u].pc = "idle"
    BY <1>5 DEF Crash, IdleThread
  <2>2. Grows
    BY <1>0, <1>5 DEF Crash, Grows, TypeOK
  <2> QED
    BY <1>5, <2>1, <2>2, PlainStep DEF Crash
<1>6. ASSUME NEW t \in Threads, Check(t) PROVE HandlerInv'
  <2>1. Busy(t) /\ UNCHANGED <<stream, cursor, pel, processed, effects>>
    BY <1>6 DEF Check, Busy
  <2>2. Grows
    BY <1>0, <2>1 DEF Grows, TypeOK
  <2>3. \/ Goto(t, "effect") /\ Event(t) \in Wants[Group(t)]
        \/ Goto(t, "ack") /\ Event(t) \notin Wants[Group(t)] \ processed[Group(t)]
    BY <1>6 DEF Check
  <2>4. Knows(t)' /\ \A u \in Threads : u # t => thread'[u] = thread[u]
    BY <1>0, <2>1, <2>3, GotoMoves DEF Knows, Step
  <2>5. \A u \in Threads : Knows(u)'
    BY <1>0, <2>2, <2>4, KnowsStable DEF HandlerInv
  <2>6. AcknowledgedIsHandled' /\ ProcessedHasRun'
    BY <1>0, <2>1, <2>2, AcknowledgedStable, ProcessedStable DEF HandlerInv
  <2> QED
    BY <2>5, <2>6 DEF HandlerInv
<1>7. ASSUME NEW t \in Threads, Effect(t) PROVE HandlerInv'
  <2>1. /\ Busy(t) /\ Goto(t, "mark")
        /\ effects' = [effects EXCEPT ![Group(t)][Event(t)] = @ + 1]
        /\ UNCHANGED stream /\ UNCHANGED cursor /\ UNCHANGED pel /\ UNCHANGED processed
    BY <1>7 DEF Effect, Busy
  <2>2. Group(t) \in Groups /\ Event(t) \in Keys
    BY <1>0, <2>1, MessageInHand
  <2>3. /\ \A g \in Groups, k \in Keys : effects'[g][k] \in Nat /\ effects'[g][k] >= effects[g][k]
        /\ effects'[Group(t)][Event(t)] > 0
    <3>1. effects \in [Groups -> [Keys -> Nat]]
      BY <1>0 DEF TypeOK
    <3>2. effects' = [effects EXCEPT ![Group(t)] =
                          [@ EXCEPT ![Event(t)] = effects[Group(t)][Event(t)] + 1]]
      BY <2>1
    <3>3. \A g \in Groups, k \in Keys :
             effects'[g][k] = IF g = Group(t) /\ k = Event(t)
                              THEN effects[g][k] + 1 ELSE effects[g][k]
      BY <2>2, <3>1, <3>2
    <3>4. \A g \in Groups, k \in Keys : effects[g][k] \in Nat
      BY <3>1
    <3> QED
      BY <2>2, <3>3, <3>4
  <2>4. Grows
    BY <1>0, <2>1, <2>3 DEF Grows, TypeOK
  <2>5. Knows(t)' /\ \A u \in Threads : u # t => thread'[u] = thread[u]
    BY <1>0, <2>1, <2>3, GotoMoves DEF Knows, Step
  <2>6. \A u \in Threads : Knows(u)'
    BY <1>0, <2>4, <2>5, KnowsStable DEF HandlerInv
  <2>7. AcknowledgedIsHandled' /\ ProcessedHasRun'
    BY <1>0, <2>1, <2>4, AcknowledgedStable, ProcessedStable DEF HandlerInv
  <2> QED
    BY <2>6, <2>7 DEF HandlerInv
<1>8. ASSUME NEW t \in Threads, EffectFails(t) \/ HandlerFails(t) PROVE HandlerInv'
  <2>1. /\ Goto(t, "fail")
        /\ UNCHANGED stream /\ UNCHANGED cursor /\ UNCHANGED pel
        /\ UNCHANGED processed /\ UNCHANGED effects
    BY <1>8 DEF EffectFails, HandlerFails
  <2>2. \A u \in Threads : thread'[u] = thread[u] \/ thread'[u].pc = "fail"
    BY <1>0, <2>1, GotoMoves DEF Step
  <2>3. Grows
    BY <1>0, <2>1 DEF Grows, TypeOK
  <2> QED
    BY <2>1, <2>2, <2>3, PlainStep
<1>9. ASSUME NEW t \in Threads, MarkProcessed(t) PROVE HandlerInv'
  <2>1. /\ Busy(t) /\ Goto(t, "ack") /\ thread[t].pc = "mark"
        /\ processed' = [processed EXCEPT ![Group(t)] = @ \cup {Event(t)}]
        /\ UNCHANGED stream /\ UNCHANGED cursor /\ UNCHANGED pel /\ UNCHANGED effects
    BY <1>9 DEF MarkProcessed, Busy
  <2>2. Group(t) \in Groups /\ Event(t) \in Keys /\ effects[Group(t)][Event(t)] > 0
    BY <1>0, <2>1, MessageInHand DEF HandlerInv, Knows
  <2>3. /\ \A g \in Groups : processed[g] \subseteq processed'[g]
        /\ Event(t) \in processed'[Group(t)]
        /\ \A g \in Groups : \A k \in processed'[g] :
              k \in processed[g] \/ (g = Group(t) /\ k = Event(t))
    BY <1>0, <2>1, <2>2 DEF TypeOK
  <2>4. Grows
    BY <1>0, <2>1, <2>3 DEF Grows, TypeOK
  <2>5. Knows(t)' /\ \A u \in Threads : u # t => thread'[u] = thread[u]
    BY <1>0, <2>1, <2>3, GotoMoves DEF Knows, Step
  <2>6. \A u \in Threads : Knows(u)'
    BY <1>0, <2>4, <2>5, KnowsStable DEF HandlerInv
  <2>7. AcknowledgedIsHandled'
    BY <1>0, <2>1, <2>4, AcknowledgedStable DEF HandlerInv
  <2>8. ProcessedHasRun'
    BY <2>1, <2>2, <2>3 DEF HandlerInv, ProcessedHasRun
  <2> QED
    BY <2>6, <2>7, <2>8 DEF HandlerInv
<1>10. ASSUME NEW t \in Threads, Ack(t) PROVE HandlerInv'
  <2>1. /\ Busy(t) /\ thread[t].pc = "ack" /\ Settle(t, FALSE)
        /\ pel' = [pel EXCEPT ![Group(t)] = @ \ {Msg(t)}]
        /\ UNCHANGED stream /\ UNCHANGED cursor
        /\ UNCHANGED processed /\ UNCHANGED effects
    BY <1>10 DEF Ack, Busy
  <2>2. Event(t) \in Wants[Group(t)] => Event(t) \in processed[Group(t)]
    BY <2>1 DEF HandlerInv, Knows
  <2>3. Grows
    BY <1>0, <2>1 DEF Grows, TypeOK
  <2>4. \A u \in Threads : thread'[u] = thread[u] \/ thread'[u].pc \in {"check", "checkpoint"}
    BY <1>0, <2>1, SettleMoves
  <2>5. \A u \in Threads : Knows(u)'
    BY <1>0, <2>3, <2>4, KnowsStable, KnowsNothing DEF HandlerInv
  <2>6. AcknowledgedIsHandled'
    BY <1>0, <2>1, <2>2 DEF HandlerInv, AcknowledgedIsHandled, TypeOK, Event
  <2>7. ProcessedHasRun'
    BY <1>0, <2>1, <2>3, ProcessedStable DEF HandlerInv
  <2> QED
    BY <2>5, <2>6, <2>7 DEF HandlerInv
<1>11. ASSUME NEW t \in Threads,
              AckFails(t) \/ HandleConsumeError(t) \/ HandleConsumeErrorFails(t)
       PROVE  HandlerInv'
  <2>1. /\ Settle(t, FALSE) \/ Settle(t, TRUE)
        /\ UNCHANGED stream /\ UNCHANGED cursor /\ UNCHANGED pel
        /\ UNCHANGED processed /\ UNCHANGED effects
    BY <1>11 DEF AckFails, HandleConsumeError, HandleConsumeErrorFails
  <2>2. Grows
    BY <1>0, <2>1 DEF Grows, TypeOK
  <2>3. \A u \in Threads : thread'[u] = thread[u] \/ thread'[u].pc \in {"check", "checkpoint"}
    BY <1>0, <2>1, SettleMoves
  <2> QED
    BY <2>1, <2>2, <2>3, PlainStep
<1>12. ASSUME NEW t \in Threads, Checkpoint(t) \/ CheckpointFails(t)
       PROVE  HandlerInv'
  <2>1. /\ UNCHANGED stream /\ UNCHANGED cursor /\ UNCHANGED pel
        /\ UNCHANGED processed /\ UNCHANGED effects
    BY <1>12 DEF Checkpoint, CheckpointFails
  <2>2. Grows
    BY <1>0, <2>1 DEF Grows, TypeOK
  <2>3. /\ \A u \in Threads : u # t => thread'[u] = thread[u]
        /\ thread'[t].pc \in {"idle", "check"}
    <3>1. Proceed(t) /\ thread \in [Threads -> ThreadState]
      BY <1>0, <1>12 DEF Checkpoint, CheckpointFails, TypeOK
    <3> QED
      BY <3>1 DEF Proceed, ThreadState, IdleThread
  <2> QED
    BY <2>1, <2>2, <2>3, PlainStep
<1>13. ASSUME NEW k \in Keys, Arrive(k) PROVE HandlerInv'
  <2>1. /\ Len(stream') = Len(stream) + 1 /\ Len(stream) \in Nat
        /\ \A m \in 1..Len(stream) : stream'[m] = stream[m]
    BY <1>0, <1>13 DEF Arrive, TypeOK
  <2>2. Grows
    BY <1>0, <1>13, <2>1 DEF Arrive, Grows, TypeOK
  <2> QED
    BY <1>13, <2>2, PlainStep DEF Arrive
<1>14. CASE UNCHANGED vars
  <2>1. Grows
    BY <1>0, <1>14 DEF Grows, TypeOK
  <2> QED
    BY <1>14, <2>1, PlainStep
<1> QED
  BY <1>1, <1>2, <1>3, <1>4, <1>5, <1>6, <1>7, <1>8, <1>9, <1>10, <1>11,
     <1>12, <1>13, <1>14
  DEF Next, ConsumerNext, RetryStep, HandlerStep, FaultyStep

\* The invariant of the handlers holds in every state of the consumers.
THEOREM HandlerCorrect == Spec => []HandlerInv
  BY InitHandler, HandlerInvStep, TypeCorrect, PTL DEF Spec

\* No failure, crash or claim gets a message acknowledged whose event the
\* group wants and has not processed.
THEOREM AcknowledgedIsHandledAlways == Spec => []AcknowledgedIsHandled
<1>1. HandlerInv => AcknowledgedIsHandled
  BY DEF HandlerInv
<1> QED
  BY <1>1, HandlerCorrect, PTL

\* Nothing is recorded as processed that has not run.
THEOREM ProcessedHasRunAlways == Spec => []ProcessedHasRun
<1>1. HandlerInv => ProcessedHasRun
  BY DEF HandlerInv
<1> QED
  BY <1>1, HandlerCorrect, PTL

-----------------------------------------------------------------------------
(* Who runs an event, and how often.  While batches are finished within    *)
(* the claim threshold no message is in two hands, so an event that is in  *)
(* the stream once is checked, run and recorded by one goroutine at a      *)
(* time.                                                                   *)

\* A message in somebody's hands has been delivered, is not idle, and is in
\* nobody else's.
Custody ==
    /\ \A g \in Groups : pel[g] \cup stale[g] \subseteq 1..cursor[g]
    /\ \A t \in Threads : Busy(t) =>
          thread[t].batch \subseteq (1..cursor[Group(t)]) \ stale[Group(t)]
    /\ \A t, u \in Threads :
          Busy(t) /\ Busy(u) /\ Group(t) = Group(u) /\ t # u =>
              thread[t].batch \cap thread[u].batch = {}

\* Only events of the stream are run.
RunsWereSent ==
    \A g \in Groups, k \in Keys :
        effects[g][k] > 0 => \E i \in DOMAIN stream : stream[i] = k

\* Every interruption has cost a fault.
InterruptionsAreFaults ==
    \A g \in Groups, k \in Keys : interrupted[g][k] <= faults

Unique(k) == \A i, j \in DOMAIN stream : stream[i] = k /\ stream[j] = k => i = j

\* The runs of an event that is in the stream once: those that were cut off
\* from their record, and the one that is recorded or about to be. A
\* goroutine on its way there has found no record.
Counted(g, k) ==
    /\ effects[g][k] = interrupted[g][k] +
          IF k \in processed[g] \/ \E t \in Threads : At(t, g, k, "mark") THEN 1 ELSE 0
    /\ \A t \in Threads :
          At(t, g, k, "effect") \/ At(t, g, k, "mark") => k \notin processed[g]

RunsCounted == \A g \in Groups, k \in Keys : Unique(k) => Counted(g, k)

RunInv ==
    /\ HandlerInv
    /\ RunsWereSent
    /\ InterruptionsAreFaults
    /\ ~SlowHandlers => Custody /\ RunsCounted

\* Steps that hand out no message: goroutines keep what they have or let go.
LEMMA NothingTaken ==
    ASSUME TypeOK, TypeOK', Custody,
           \A g \in Groups : /\ cursor'[g] = cursor[g] /\ pel'[g] \subseteq pel[g]
                             /\ stale'[g] \subseteq stale[g],
           \A u \in Threads :
               \/ thread'[u].pc = "idle"
               \/ /\ Busy(u) /\ thread'[u].group = thread[u].group
                  /\ thread'[u].batch \subseteq thread[u].batch
    PROVE  Custody'
<1>1. \A g \in Groups : pel'[g] \cup stale'[g] \subseteq 1..cursor'[g]
  BY DEF Custody
<1>2. ASSUME NEW u \in Threads, Busy(u)'
      PROVE  /\ Busy(u) /\ Group(u)' = Group(u) /\ Group(u) \in Groups
             /\ thread'[u].batch \subseteq thread[u].batch
  BY <1>2 DEF Busy, Group, TypeOK
<1>3. ASSUME NEW u \in Threads, Busy(u)'
      PROVE  thread'[u].batch \subseteq (1..cursor'[Group(u)']) \ stale'[Group(u)']
  <2>1. thread[u].batch \subseteq (1..cursor[Group(u)]) \ stale[Group(u)]
    BY <1>2, <1>3 DEF Custody
  <2>2. cursor'[Group(u)] = cursor[Group(u)] /\ stale'[Group(u)] \subseteq stale[Group(u)]
    BY <1>2, <1>3
  <2> QED
    BY <1>2, <1>3, <2>1, <2>2
<1>4. ASSUME NEW t \in Threads, NEW u \in Threads, Busy(t)', Busy(u)',
             Group(t)' = Group(u)', t # u
      PROVE  thread'[t].batch \cap thread'[u].batch = {}
  <2>1. thread[t].batch \cap thread[u].batch = {}
    BY <1>2, <1>4 DEF Custody
  <2> QED
    BY <1>2, <1>4, <2>1
<1> QED
  BY <1>1, <1>3, <1>4 DEF Custody

\* A goroutine is given messages that are in nobody's hands.
LEMMA FreshBatchTaken ==
    ASSUME TypeOK, TypeOK', Custody, NEW t \in Threads, ~Busy(t), NEW g \in Groups,
           NEW batch \in SUBSET Nat, Start(t, g, batch),
           \A h \in Groups : /\ pel'[h] \cup stale'[h] \subseteq 1..cursor'[h]
                             /\ cursor[h] <= cursor'[h]
                             /\ stale'[h] \subseteq stale[h],
           batch \subseteq (1..cursor'[g]) \ stale'[g],
           \A u \in Threads : Busy(u) /\ Group(u) = g => thread[u].batch \cap batch = {}
    PROVE  Custody'
<1>1. /\ thread'[t].pc = "check" /\ thread'[t].group = g /\ thread'[t].batch = batch
      /\ \A u \in Threads : u # t => thread'[u] = thread[u]
  BY DEF Start, TypeOK
<1>2. ASSUME NEW u \in Threads, Busy(u)'
      PROVE  thread'[u].batch \subseteq (1..cursor'[Group(u)']) \ stale'[Group(u)']
  <2>1. CASE u = t
    BY <1>1, <2>1 DEF Group
  <2>2. CASE u # t
    <3>1. Busy(u) /\ Group(u)' = Group(u) /\ Group(u) \in Groups
      BY <1>1, <1>2, <2>2 DEF Busy, Group, TypeOK
    <3>2. thread[u].batch \subseteq (1..cursor[Group(u)]) \ stale[Group(u)]
      BY <3>1 DEF Custody
    <3>3. /\ cursor[Group(u)] \in Nat /\ cursor'[Group(u)] \in Nat
          /\ cursor[Group(u)] <= cursor'[Group(u)]
          /\ stale'[Group(u)] \subseteq stale[Group(u)]
      BY <3>1 DEF TypeOK
    <3>4. thread'[u].batch = thread[u].batch
      BY <1>1, <2>2
    <3> QED
      BY <3>1, <3>2, <3>3, <3>4
  <2> QED
    BY <2>1, <2>2
<1>3. ASSUME NEW u \in Threads, NEW w \in Threads, Busy(u)', Busy(w)',
             Group(u)' = Group(w)', u # w
      PROVE  thread'[u].batch \cap thread'[w].batch = {}
  <2>1. \A v \in Threads \ {t} : Busy(v)' =>
            Busy(v) /\ Group(v)' = Group(v) /\ thread'[v].batch = thread[v].batch
    BY <1>1 DEF Busy, Group
  <2>2. CASE u # t /\ w # t
    BY <1>3, <2>1, <2>2 DEF Custody
  <2>3. CASE u = t \/ w = t
    BY <1>1, <1>3, <2>1, <2>3 DEF Group
  <2> QED
    BY <2>2, <2>3
<1> QED
  BY <1>2, <1>3 DEF Custody

\* A goroutine that settles a message, or proceeds, keeps no other message
\* than it had.
LEMMA OnlyReleases ==
    ASSUME TypeOK, NEW t \in Threads, Busy(t),
           \/ \E step \in Step : Goto(t, step)
           \/ \E failed \in BOOLEAN : Settle(t, failed)
           \/ Proceed(t)
    PROVE  \A u \in Threads :
               \/ thread'[u] = thread[u]
               \/ thread'[u].pc = "idle"
               \/ /\ Busy(u) /\ thread'[u].group = thread[u].group
                  /\ thread'[u].batch \subseteq thread[u].batch
<1> DEFINE rest == thread[t].batch \ {Msg(t)}
<1>1. thread \in [Threads -> ThreadState] /\ thread[t] \in ThreadState
  BY DEF TypeOK
<1>2. \A step : /\ [thread[t] EXCEPT !.pc = step].group = thread[t].group
                /\ [thread[t] EXCEPT !.pc = step].batch = thread[t].batch
  BY <1>1 DEF ThreadState
<1>3. /\ [thread[t] EXCEPT !.batch = rest, !.pc = "check"].group = thread[t].group
      /\ [thread[t] EXCEPT !.batch = rest, !.pc = "check"].batch = rest
  BY <1>1 DEF ThreadState
<1>4. \A failed :
        /\ [thread[t] EXCEPT !.failed = failed, !.pc = "checkpoint"].group = thread[t].group
        /\ [thread[t] EXCEPT !.failed = failed, !.pc = "checkpoint"].batch = thread[t].batch
  BY <1>1 DEF ThreadState
<1>5. \/ \E step : thread' = [thread EXCEPT ![t] = [thread[t] EXCEPT !.pc = step]]
      \/ thread' = [thread EXCEPT ![t] = [thread[t] EXCEPT !.batch = rest, !.pc = "check"]]
      \/ \E failed : thread' = [thread EXCEPT
            ![t] = [thread[t] EXCEPT !.failed = failed, !.pc = "checkpoint"]]
      \/ thread' = [thread EXCEPT ![t] = IdleThread]
  BY <1>1 DEF Goto, Settle, Proceed
<1>6. \A u \in Threads : u # t => thread'[u] = thread[u]
  BY <1>1, <1>5
<1>7. \/ thread'[t].pc = "idle"
      \/ /\ thread'[t].group = thread[t].group
         /\ thread'[t].batch \subseteq thread[t].batch
  <2>1. CASE \E step : thread' = [thread EXCEPT ![t] = [thread[t] EXCEPT !.pc = step]]
    BY <1>1, <1>2, <2>1
  <2>2. CASE thread' = [thread EXCEPT ![t] = [thread[t] EXCEPT !.batch = rest, !.pc = "check"]]
    BY <1>1, <1>3, <2>2
  <2>3. CASE \E failed : thread' = [thread EXCEPT
                ![t] = [thread[t] EXCEPT !.failed = failed, !.pc = "checkpoint"]]
    BY <1>1, <1>4, <2>3
  <2>4. CASE thread' = [thread EXCEPT ![t] = IdleThread]
    BY <1>1, <2>4 DEF IdleThread
  <2> QED
    BY <1>5, <2>1, <2>2, <2>3, <2>4
<1> QED
  BY <1>6, <1>7

\* As long as batches are finished within the claim threshold, no message
\* gets into two hands.
LEMMA CustodyStep ==
    ASSUME ~SlowHandlers, TypeOK, TypeOK', Custody, [Next]_vars
    PROVE  Custody'
<1> USE DEF groupVars, tableVars, historyVars, consumerVars, vars
<1>1. ASSUME NEW g \in Groups, NEW m \in pel[g], TimePasses(g, m) PROVE Custody'
  <2>1. /\ stale' = [stale EXCEPT ![g] = @ \cup {m}]
        /\ UNCHANGED cursor /\ UNCHANGED pel /\ UNCHANGED thread
        /\ \A t \in Threads : ~Holds(t, g, m)
    BY <1>1 DEF TimePasses
  <2>2. \A h \in Groups : stale'[h] = IF h = g THEN stale[g] \cup {m} ELSE stale[h]
    BY <2>1 DEF TypeOK
  <2>3. \A h \in Groups : pel'[h] \cup stale'[h] \subseteq 1..cursor'[h]
    BY <2>1, <2>2 DEF Custody
  <2>4. ASSUME NEW t \in Threads, Busy(t)
        PROVE  thread[t].batch \subseteq (1..cursor[Group(t)]) \ stale'[Group(t)]
    <3>1. Group(t) \in Groups /\ thread[t].batch \subseteq (1..cursor[Group(t)]) \ stale[Group(t)]
      BY <2>4 DEF Custody, TypeOK
    <3>2. Group(t) = g => m \notin thread[t].batch
      BY <2>1, <2>4 DEF Holds
    <3> QED
      BY <2>2, <3>1, <3>2
  <2> QED
    BY <2>1, <2>3, <2>4 DEF Custody, Busy, Group
<1>2. ASSUME NEW r \in Replicas, NEW g \in Groups, ReadGroup(r, g) \/ ReadGroupLost(r, g)
      PROVE  Custody'
  <2> DEFINE next == FirstBatch((cursor[g] + 1)..Len(stream))
  <2>1. /\ cursor[g] \in Nat /\ Len(stream) \in Nat /\ cursor[g] <= Len(stream)
        /\ cursor' = [cursor EXCEPT ![g] = @ + Cardinality(next)]
        /\ pel' = [pel EXCEPT ![g] = @ \cup next]
        /\ UNCHANGED stale
    BY <1>2 DEF TypeOK, ReadGroup, ReadGroupLost, Deliver
  <2>2. /\ Cardinality(next) \in Nat
        /\ next = (cursor[g] + 1)..(cursor[g] + Cardinality(next))
    BY <2>1, BatchOfInterval
  <2>3. UNCHANGED thread \/ (~Busy(<<r, g>>) /\ Start(<<r, g>>, g, next))
    BY <1>2 DEF ReadGroup, ReadGroupLost
  <2> HIDE DEF next
  <2>4. /\ \A h \in Groups :
                cursor'[h] = IF h = g THEN cursor[g] + Cardinality(next) ELSE cursor[h]
        /\ \A h \in Groups : pel'[h] = IF h = g THEN pel[g] \cup next ELSE pel[h]
        /\ \A h \in Groups :
                cursor[h] \in Nat /\ cursor'[h] \in Nat /\ cursor[h] <= cursor'[h]
    <3>1. /\ cursor \in [Groups -> 0..Len(stream)]
          /\ pel \in [Groups -> SUBSET (1..Len(stream))]
      BY DEF TypeOK
    <3>2. \A h \in Groups :
             cursor'[h] = IF h = g THEN cursor[g] + Cardinality(next) ELSE cursor[h]
      BY <2>1, <3>1
    <3>3. \A h \in Groups : pel'[h] = IF h = g THEN pel[g] \cup next ELSE pel[h]
      BY <2>1, <3>1
    <3>4. \A h \in Groups : cursor[h] \in Nat
      BY <3>1
    <3>5. \A h \in Groups : cursor'[h] \in Nat /\ cursor[h] <= cursor'[h]
      BY <2>1, <2>2, <3>2, <3>4
    <3> QED
      BY <3>2, <3>3, <3>4, <3>5
  <2>5. \A h \in Groups : pel'[h] \cup stale'[h] \subseteq 1..cursor'[h]
    <3> SUFFICES ASSUME NEW h \in Groups, NEW m \in pel'[h] \cup stale'[h]
                 PROVE  m \in 1..cursor'[h]
      OBVIOUS
    <3>1. m \in 1..cursor[h] \/ (h = g /\ m \in next)
      BY <2>1, <2>4 DEF Custody
    <3> QED
      BY <2>1, <2>2, <2>4, <3>1
  <2>6. \A u \in Threads : Busy(u) /\ Group(u) = g =>
            thread[u].batch \subseteq 1..cursor[g]
    BY DEF Custody
  <2>7. stale[g] \subseteq 1..cursor[g]
    BY DEF Custody
  <2>8. next \cap (1..cursor[g]) = {} /\ next \in SUBSET Nat
    BY <2>1, <2>2
  <2>9. CASE UNCHANGED thread
    <3>1. ASSUME NEW u \in Threads, Busy(u)
          PROVE  thread[u].batch \subseteq (1..cursor'[Group(u)]) \ stale'[Group(u)]
      <4>1. Group(u) \in Groups /\ thread[u].batch \subseteq (1..cursor[Group(u)]) \ stale[Group(u)]
        BY <3>1 DEF Custody, TypeOK
      <4>2. cursor[Group(u)] \in Nat /\ cursor'[Group(u)] \in Nat
            /\ cursor[Group(u)] <= cursor'[Group(u)]
        BY <2>4, <4>1
      <4> QED
        BY <2>1, <4>1, <4>2
    <3> QED
      BY <2>5, <2>9, <3>1 DEF Custody, Busy, Group
  <2>10. CASE ~Busy(<<r, g>>) /\ Start(<<r, g>>, g, next)
    <3>1. next \subseteq (1..cursor'[g]) \ stale'[g]
      BY <2>1, <2>2, <2>4, <2>7, <2>8
    <3>2. <<r, g>> \in Threads
      BY DEF Threads
    <3>3. \A u \in Threads : Busy(u) /\ Group(u) = g => thread[u].batch \cap next = {}
      BY <2>6, <2>8
    <3>4. \A h \in Groups : cursor[h] <= cursor'[h] /\ stale'[h] \subseteq stale[h]
      BY <2>1, <2>4
    <3> QED
      BY <2>5, <2>8, <2>10, <3>1, <3>2, <3>3, <3>4, FreshBatchTaken
  <2> QED
    BY <2>3, <2>9, <2>10
<1>3. ASSUME NEW r \in Replicas, NEW g \in Groups, AutoClaim(r, g) PROVE Custody'
  <2> DEFINE claimed == FirstBatch(Claimable(g))
  <2>1. /\ ~Busy(<<r, RetryManager>>)
        /\ stale' = [stale EXCEPT ![g] = @ \ claimed]
        /\ UNCHANGED cursor /\ UNCHANGED pel
        /\ UNCHANGED thread \/ Start(<<r, RetryManager>>, g, claimed)
    BY <1>3 DEF AutoClaim
  <2>2. claimed \subseteq stale[g] /\ claimed \in SUBSET Nat
    <3>1. Claimable(g) \in SUBSET Nat /\ Claimable(g) \subseteq stale[g]
      BY DEF Claimable, TypeOK
    <3> QED
      BY <3>1, BatchOf
  <2> HIDE DEF claimed
  <2>3. \A h \in Groups : stale'[h] = IF h = g THEN stale[g] \ claimed ELSE stale[h]
    BY <2>1 DEF TypeOK
  <2>4. /\ \A h \in Groups : pel'[h] \cup stale'[h] \subseteq 1..cursor'[h]
        /\ \A h \in Groups : stale'[h] \subseteq stale[h]
        /\ \A h \in Groups : cursor'[h] = cursor[h] /\ cursor[h] <= cursor'[h]
    <3>1. \A h \in Groups : stale'[h] \subseteq stale[h]
      BY <2>3
    <3>2. \A h \in Groups : pel[h] \cup stale[h] \subseteq 1..cursor[h]
      BY DEF Custody
    <3>3. \A h \in Groups : cursor[h] \in Nat
      BY DEF TypeOK
    <3> QED
      BY <2>1, <3>1, <3>2, <3>3
  <2>5. CASE UNCHANGED thread
    BY <2>1, <2>4, <2>5 DEF Custody, Busy, Group, TypeOK
  <2>6. CASE Start(<<r, RetryManager>>, g, claimed)
    <3>1. claimed \subseteq (1..cursor'[g]) \ stale'[g]
      BY <2>1, <2>2, <2>3 DEF Custody
    <3>2. \A u \in Threads : Busy(u) /\ Group(u) = g => thread[u].batch \cap claimed = {}
      BY <2>2 DEF Custody
    <3>3. <<r, RetryManager>> \in Threads
      BY DEF Threads
    <3> QED
      BY <2>1, <2>2, <2>4, <2>6, <3>1, <3>2, <3>3, FreshBatchTaken
  <2> QED
    BY <2>1, <2>5, <2>6
<1>4. ASSUME NEW r \in Replicas, Crash(r) PROVE Custody'
  <2>1. /\ UNCHANGED cursor /\ UNCHANGED pel /\ UNCHANGED stale
        /\ \A u \in Threads : thread'[u] = thread[u] \/ thread'[u].pc = "idle"
    BY <1>4 DEF Crash, IdleThread
  <2> QED
    BY <2>1, NothingTaken DEF Busy
<1>5. ASSUME NEW t \in Threads, HandlerStep(t) \/ FaultyStep(t) PROVE Custody'
  <2>1. /\ Busy(t)
        /\ \/ \E step \in Step : Goto(t, step)
           \/ \E failed \in BOOLEAN : Settle(t, failed)
           \/ Proceed(t)
        /\ UNCHANGED cursor
    BY <1>5 DEF HandlerStep, FaultyStep, Check, Effect, EffectFails, MarkProcessed, Ack,
       HandleConsumeError, Checkpoint, HandlerFails, AckFails, HandleConsumeErrorFails,
       CheckpointFails, Busy, Step
  <2>2. \/ UNCHANGED pel /\ UNCHANGED stale
        \/ /\ pel' = [pel EXCEPT ![Group(t)] = @ \ {Msg(t)}]
           /\ stale' = [stale EXCEPT ![Group(t)] = @ \ {Msg(t)}]
    BY <1>5 DEF HandlerStep, FaultyStep, Check, Effect, EffectFails, MarkProcessed, Ack,
       HandleConsumeError, Checkpoint, HandlerFails, AckFails, HandleConsumeErrorFails,
       CheckpointFails
  <2>3. \A g \in Groups : /\ cursor'[g] = cursor[g] /\ pel'[g] \subseteq pel[g]
                          /\ stale'[g] \subseteq stale[g]
    <3>1. CASE UNCHANGED pel /\ UNCHANGED stale
      BY <2>1, <3>1
    <3>2. CASE /\ pel' = [pel EXCEPT ![Group(t)] = @ \ {Msg(t)}]
               /\ stale' = [stale EXCEPT ![Group(t)] = @ \ {Msg(t)}]
      <4>1. \A g \in Groups : pel'[g] \subseteq pel[g]
        BY <3>2 DEF TypeOK
      <4>2. \A g \in Groups : stale'[g] \subseteq stale[g]
        BY <3>2 DEF TypeOK
      <4> QED
        BY <2>1, <4>1, <4>2
    <3> QED
      BY <2>2, <3>1, <3>2
  <2> QED
    BY <2>1, <2>3, OnlyReleases, NothingTaken DEF Busy
<1>6. ASSUME UNCHANGED <<cursor, pel, stale, thread>> PROVE Custody'
  BY <1>6 DEF Custody, Busy, Group
<1> QED
  BY <1>1, <1>2, <1>3, <1>4, <1>5, <1>6
  DEF Next, ConsumerNext, RetryStep, Tick, AutoClaimFails, Arrive

\* Two goroutines never have the same event in hand, if it is in the stream once.
LEMMA OneHand ==
    ASSUME TypeOK, Custody, NEW t \in Threads, NEW u \in Threads, Busy(t), Busy(u),
           Group(t) = Group(u), Event(t) = Event(u), Unique(Event(t))
    PROVE  t = u
<1>1. /\ Msg(t) \in thread[t].batch /\ Msg(t) \in 1..Len(stream)
      /\ Msg(u) \in thread[u].batch /\ Msg(u) \in 1..Len(stream)
  BY MessageInHand
<1>2. Msg(t) = Msg(u)
  BY <1>1, StreamType DEF Unique, Event
<1> QED
  BY <1>1, <1>2 DEF Custody

LEMMA AtStable ==
    ASSUME TypeOK, Grows, NEW u \in Threads, thread'[u] = thread[u],
           NEW g, NEW k, NEW step, step # "idle"
    PROVE  At(u, g, k, step)' <=> At(u, g, k, step)
<1>1. CASE ~Busy(u)
  BY <1>1 DEF At, Busy
<1>2. CASE Busy(u)
  <2>1. Msg(u) \in 1..Len(stream) /\ Msg(u)' = Msg(u) /\ Group(u)' = Group(u)
    BY <1>2, MessageInHand DEF Msg, Group
  <2> QED
    BY <2>1 DEF At, Event, Grows
<1> QED
  BY <1>1, <1>2

LEMMA UniqueEarlier ==
    ASSUME TypeOK, TypeOK', Grows, NEW k, Unique(k)'
    PROVE  Unique(k)
<1>1. DOMAIN stream = 1..Len(stream) /\ DOMAIN stream' = 1..Len(stream')
      /\ Len(stream) \in Nat /\ Len(stream') \in Nat
  BY DEF TypeOK
<1> QED
  BY <1>1 DEF Unique, Grows

\* What other events and groups see of a goroutine that goes on with its own.
LEMMA GotoElsewhere ==
    ASSUME TypeOK, Grows, UNCHANGED stream, NEW t \in Threads, Busy(t),
           NEW next \in Step, Goto(t, next), NEW g, NEW k, ~(Group(t) = g /\ Event(t) = k)
    PROVE  \A u \in Threads : \A step \in Step \ {"idle"} :
               At(u, g, k, step)' <=> At(u, g, k, step)
<1>1. /\ Group(t)' = Group(t) /\ Event(t)' = Event(t)
      /\ \A u \in Threads : u # t => thread'[u] = thread[u]
  BY GotoMoves
<1>2. \A step : ~At(t, g, k, step) /\ ~At(t, g, k, step)'
  BY <1>1 DEF At
<1> QED
  BY <1>1, <1>2, AtStable DEF Step

\* The count of an event that a step leaves alone.
LEMMA CountedStable ==
    ASSUME TypeOK, NEW g \in Groups, NEW k \in Keys, Counted(g, k),
           effects'[g][k] = effects[g][k], interrupted'[g][k] = interrupted[g][k],
           k \in processed'[g] <=> k \in processed[g],
           \A u \in Threads : At(u, g, k, "mark")' <=> At(u, g, k, "mark"),
           \A u \in Threads : At(u, g, k, "effect")' =>
                                  At(u, g, k, "effect") \/ k \notin processed[g]
    PROVE  Counted(g, k)'
<1>1. (\E u \in Threads : At(u, g, k, "mark")') <=> \E u \in Threads : At(u, g, k, "mark")
  OBVIOUS
<1> QED
  BY <1>1 DEF Counted

LEMMA SentStays ==
    ASSUME TypeOK, TypeOK', Grows, RunsWereSent, UNCHANGED effects
    PROVE  RunsWereSent'
<1> SUFFICES ASSUME NEW g \in Groups, NEW k \in Keys, effects'[g][k] > 0
             PROVE  \E i \in DOMAIN stream' : stream'[i] = k
  BY DEF RunsWereSent
<1>1. PICK i \in DOMAIN stream : stream[i] = k
  BY DEF RunsWereSent
<1>2. DOMAIN stream = 1..Len(stream) /\ Len(stream) \in Nat
  BY StreamType
<1>3. DOMAIN stream' = 1..Len(stream') /\ Len(stream') \in Nat
  <2>1. stream' \in Seq(Keys)
    BY DEF TypeOK
  <2> QED
    BY <2>1
<1> QED
  BY <1>1, <1>2, <1>3 DEF Grows

\* A step in which no domain service runs, no goroutine gets ready to run
\* one, and none is about to record a run.
LEMMA NothingRuns ==
    ASSUME RunInv, HandlerInv', Grows,
           UNCHANGED effects, UNCHANGED processed, UNCHANGED interrupted, faults <= faults',
           \A u \in Threads :
               \/ thread'[u] = thread[u]
               \/ thread'[u].pc \notin {"effect", "mark"} /\ thread[u].pc # "mark",
           ~SlowHandlers => Custody'
    PROVE  RunInv'
<1>0. TypeOK /\ TypeOK'
  BY DEF RunInv, HandlerInv
<1>1. RunsWereSent'
  BY <1>0, SentStays DEF RunInv
<1>2. InterruptionsAreFaults'
  BY <1>0 DEF RunInv, InterruptionsAreFaults, TypeOK
<1>3. ASSUME ~SlowHandlers PROVE RunsCounted'
  <2> SUFFICES ASSUME NEW g \in Groups, NEW k \in Keys, Unique(k)' PROVE Counted(g, k)'
    BY DEF RunsCounted
  <2>1. Counted(g, k)
    BY <1>0, <1>3, UniqueEarlier DEF RunInv, RunsCounted
  <2>2. ASSUME NEW u \in Threads
        PROVE  /\ At(u, g, k, "mark")' <=> At(u, g, k, "mark")
               /\ At(u, g, k, "effect")' => At(u, g, k, "effect")
    <3>1. CASE thread'[u] = thread[u]
      BY <1>0, <3>1, AtStable
    <3>2. CASE thread'[u].pc \notin {"effect", "mark"} /\ thread[u].pc # "mark"
      BY <3>2 DEF At
    <3> QED
      BY <3>1, <3>2
  <2> QED
    BY <1>0, <2>1, <2>2, CountedStable
<1> QED
  BY <1>1, <1>2, <1>3 DEF RunInv

\* The record is asked, and the event not in it.
LEMMA CheckRunInv ==
    ASSUME RunInv, HandlerInv', NEW t \in Threads, Check(t), ~SlowHandlers => Custody'
    PROVE  RunInv'
<1> USE DEF groupVars, tableVars, historyVars
<1>0. TypeOK /\ TypeOK' /\ Busy(t) /\ thread[t].pc = "check"
  BY DEF RunInv, HandlerInv, Check, Busy
<1>1. /\ UNCHANGED stream /\ UNCHANGED processed /\ UNCHANGED effects /\ UNCHANGED interrupted
      /\ UNCHANGED faults
      /\ \/ Goto(t, "ack")
         \/ Goto(t, "effect") /\ Event(t) \notin processed[Group(t)]
  BY DEF Check
<1>2. Grows /\ faults <= faults'
  BY <1>0, <1>1 DEF Grows, TypeOK
<1>3. CASE Goto(t, "ack")
  <2>1. \A u \in Threads : thread'[u] = thread[u] \/ (thread'[u].pc = "ack" /\ u = t)
    BY <1>0, <1>3, GotoMoves DEF Step
  <2> QED
    BY <1>0, <1>1, <1>2, <2>1, NothingRuns
<1>4. CASE Goto(t, "effect") /\ Event(t) \notin processed[Group(t)]
  <2>1. /\ thread'[t].pc = "effect" /\ Group(t)' = Group(t) /\ Event(t)' = Event(t)
        /\ \A u \in Threads : u # t => thread'[u] = thread[u]
    BY <1>0, <1>1, <1>4, GotoMoves DEF Step
  <2>2. ASSUME ~SlowHandlers PROVE RunsCounted'
    <3> SUFFICES ASSUME NEW g \in Groups, NEW k \in Keys, Unique(k)' PROVE Counted(g, k)'
      BY DEF RunsCounted
    <3>1. Counted(g, k)
      BY <1>0, <1>2, <2>2, UniqueEarlier DEF RunInv, RunsCounted
    <3>2. ASSUME NEW u \in Threads
          PROVE  /\ At(u, g, k, "mark")' <=> At(u, g, k, "mark")
                 /\ At(u, g, k, "effect")' => At(u, g, k, "effect") \/ k \notin processed[g]
      <4>1. CASE u = t
        BY <1>0, <1>4, <2>1, <4>1 DEF At
      <4>2. CASE u # t
        BY <1>0, <1>2, <2>1, <4>2, AtStable
      <4> QED
        BY <4>1, <4>2
    <3> QED
      BY <1>0, <1>1, <3>1, <3>2, CountedStable
  <2> QED
    BY <1>0, <1>1, <1>2, <2>2, SentStays DEF RunInv, InterruptionsAreFaults
<1> QED
  BY <1>1, <1>3, <1>4

\* The three steps after the check are those of one goroutine: nobody else is
\* at the event, whose record it has not found.
LEMMA AloneAtEvent ==
    ASSUME RunInv, ~SlowHandlers, NEW t \in Threads, Unique(Event(t)),
           thread[t].pc \in {"effect", "mark"}
    PROVE  /\ Group(t) \in Groups /\ Event(t) \in Keys
           /\ Event(t) \notin processed[Group(t)]
           /\ effects[Group(t)][Event(t)] = interrupted[Group(t)][Event(t)] +
                 IF thread[t].pc = "mark" THEN 1 ELSE 0
           /\ \A u \in Threads : \A step \in Step \ {"idle"} :
                 At(u, Group(t), Event(t), step) => u = t
<1>1. TypeOK /\ Busy(t)
  BY DEF RunInv, HandlerInv, Busy
<1>2. Group(t) \in Groups /\ Event(t) \in Keys
  BY <1>1, MessageInHand
<1>3. ASSUME NEW u \in Threads, NEW step \in Step \ {"idle"}, At(u, Group(t), Event(t), step)
      PROVE  u = t
  <2>1. Busy(u) /\ Group(u) = Group(t) /\ Event(u) = Event(t)
    BY <1>3 DEF At, Busy
  <2> QED
    BY <1>1, <2>1, OneHand DEF RunInv
<1>4. Counted(Group(t), Event(t))
  BY <1>2 DEF RunInv, RunsCounted
<1>5. Event(t) \notin processed[Group(t)]
  BY <1>4 DEF Counted, At
<1>6. (\E u \in Threads : At(u, Group(t), Event(t), "mark")) <=> thread[t].pc = "mark"
  BY <1>3 DEF At, Step
<1> QED
  BY <1>2, <1>3, <1>4, <1>5, <1>6 DEF Counted

\* The domain service runs.
LEMMA EffectRunInv ==
    ASSUME RunInv, HandlerInv', NEW t \in Threads, Effect(t), ~SlowHandlers => Custody'
    PROVE  RunInv'
<1> USE DEF groupVars, tableVars, historyVars
<1> DEFINE g0 == Group(t)
           k0 == Event(t)
<1>0. TypeOK /\ TypeOK' /\ Busy(t) /\ thread[t].pc = "effect"
  BY DEF RunInv, HandlerInv, Effect, Busy
<1>1. /\ UNCHANGED stream /\ UNCHANGED processed /\ UNCHANGED interrupted
      /\ UNCHANGED faults
      /\ Goto(t, "mark")
      /\ effects' = [effects EXCEPT ![g0][k0] = @ + 1]
  BY DEF Effect
<1>2. g0 \in Groups /\ k0 \in Keys /\ Msg(t) \in 1..Len(stream)
  BY <1>0, MessageInHand
<1>3. /\ thread'[t].pc = "mark" /\ Group(t)' = g0 /\ Event(t)' = k0
      /\ \A u \in Threads : u # t => thread'[u] = thread[u]
  BY <1>0, <1>1, GotoMoves DEF Step
<1> HIDE DEF g0, k0
<1>4. \A g \in Groups, k \in Keys :
         /\ effects[g][k] \in Nat
         /\ effects'[g][k] = IF g = g0 /\ k = k0 THEN effects[g][k] + 1 ELSE effects[g][k]
  <2>1. effects \in [Groups -> [Keys -> Nat]]
    BY <1>0 DEF TypeOK
  <2>2. effects' = [effects EXCEPT ![g0] = [@ EXCEPT ![k0] = effects[g0][k0] + 1]]
    BY <1>1
  <2>3. \A g \in Groups, k \in Keys :
           effects'[g][k] = IF g = g0 /\ k = k0 THEN effects[g][k] + 1 ELSE effects[g][k]
    BY <1>2, <2>1, <2>2
  <2> QED
    BY <2>1, <2>3
<1>5. Grows
  BY <1>0, <1>1, <1>4 DEF Grows, TypeOK
<1>6. RunsWereSent'
  <2>1. Msg(t) \in DOMAIN stream /\ stream[Msg(t)] = k0
    BY <1>0, <1>2 DEF TypeOK, Event, k0
  <2> QED
    BY <1>1, <1>4, <2>1 DEF RunInv, RunsWereSent
<1>7. InterruptionsAreFaults'
  BY <1>1 DEF RunInv, InterruptionsAreFaults
<1>8. ASSUME ~SlowHandlers PROVE RunsCounted'
  <2> SUFFICES ASSUME NEW g \in Groups, NEW k \in Keys, Unique(k) PROVE Counted(g, k)'
    BY <1>1 DEF RunsCounted, Unique
  <2>1. CASE g = g0 /\ k = k0
    <3>1. /\ k \notin processed[g] /\ effects[g][k] = interrupted[g][k]
          /\ \A u \in Threads : \A step \in Step \ {"idle"} : At(u, g, k, step) => u = t
      <4>1. interrupted[g][k] \in Nat
        BY <1>0 DEF TypeOK
      <4> QED
        BY <1>0, <1>8, <2>1, <4>1, AloneAtEvent DEF g0, k0
    <3>2. At(t, g, k, "mark")'
      BY <1>3, <2>1 DEF At
    <3>3. effects'[g][k] = interrupted'[g][k] + 1 /\ k \notin processed'[g]
      BY <1>1, <1>4, <2>1, <3>1
    <3> QED
      BY <3>2, <3>3 DEF Counted
  <2>2. CASE ~(g = g0 /\ k = k0)
    <3>1. \A u \in Threads : /\ At(u, g, k, "mark")' <=> At(u, g, k, "mark")
                             /\ At(u, g, k, "effect")' <=> At(u, g, k, "effect")
      BY <1>0, <1>1, <1>5, <2>2, GotoElsewhere DEF g0, k0, Step
    <3>2. Counted(g, k)
      BY <1>8 DEF RunInv, RunsCounted
    <3> QED
      BY <1>0, <1>1, <1>4, <2>2, <3>1, <3>2, CountedStable
  <2> QED
    BY <2>1, <2>2
<1> QED
  BY <1>6, <1>7, <1>8 DEF RunInv

\* The run is recorded.
LEMMA MarkRunInv ==
    ASSUME RunInv, HandlerInv', NEW t \in Threads, MarkProcessed(t), ~SlowHandlers => Custody'
    PROVE  RunInv'
<1> USE DEF groupVars, tableVars, historyVars
<1> DEFINE g0 == Group(t)
           k0 == Event(t)
<1>0. TypeOK /\ TypeOK' /\ Busy(t) /\ thread[t].pc = "mark"
  BY DEF RunInv, HandlerInv, MarkProcessed, Busy
<1>1. /\ UNCHANGED stream /\ UNCHANGED effects /\ UNCHANGED interrupted /\ UNCHANGED faults
      /\ Goto(t, "ack")
      /\ processed' = [processed EXCEPT ![g0] = @ \cup {k0}]
  BY DEF MarkProcessed
<1>2. g0 \in Groups /\ k0 \in Keys
  BY <1>0, MessageInHand
<1>3. /\ thread'[t].pc = "ack"
      /\ \A u \in Threads : u # t => thread'[u] = thread[u]
  BY <1>0, <1>1, GotoMoves DEF Step
<1> HIDE DEF g0, k0
<1>4. \A g \in Groups, k \in Keys :
         k \in processed'[g] <=> k \in processed[g] \/ (g = g0 /\ k = k0)
  BY <1>0, <1>1, <1>2 DEF TypeOK
<1>5. Grows
  BY <1>0, <1>1, <1>2 DEF Grows, TypeOK
<1>6. RunsWereSent' /\ InterruptionsAreFaults'
  BY <1>0, <1>1, <1>5, SentStays DEF RunInv, InterruptionsAreFaults
<1>7. ASSUME ~SlowHandlers PROVE RunsCounted'
  <2> SUFFICES ASSUME NEW g \in Groups, NEW k \in Keys, Unique(k) PROVE Counted(g, k)'
    BY <1>1 DEF RunsCounted, Unique
  <2>1. CASE g = g0 /\ k = k0
    <3>1. /\ effects[g][k] = interrupted[g][k] + 1
          /\ \A u \in Threads : \A step \in Step \ {"idle"} : At(u, g, k, step) => u = t
      BY <1>0, <1>7, <2>1, AloneAtEvent DEF g0, k0
    <3>2. ASSUME NEW u \in Threads, At(u, g, k, "effect")' \/ At(u, g, k, "mark")' PROVE FALSE
      <4>1. u # t
        BY <1>3, <3>2 DEF At
      <4> QED
        BY <1>0, <1>3, <1>5, <3>1, <3>2, <4>1, AtStable DEF Step
    <3> QED
      BY <1>1, <1>4, <2>1, <3>1, <3>2 DEF Counted
  <2>2. CASE ~(g = g0 /\ k = k0)
    <3>1. \A u \in Threads : /\ At(u, g, k, "mark")' <=> At(u, g, k, "mark")
                             /\ At(u, g, k, "effect")' <=> At(u, g, k, "effect")
      BY <1>0, <1>1, <1>5, <2>2, GotoElsewhere DEF g0, k0, Step
    <3>2. Counted(g, k)
      BY <1>7 DEF RunInv, RunsCounted
    <3> QED
      BY <1>0, <1>1, <1>4, <2>2, <3>1, <3>2, CountedStable
  <2> QED
    BY <2>1, <2>2
<1> QED
  BY <1>6, <1>7 DEF RunInv

\* Goroutines are cut off, by a failure or with their replica. Whoever was
\* about to record a run has an interruption to show for it.
LEMMA CutOffRunInv ==
    ASSUME RunInv, HandlerInv', NEW Off \in SUBSET Threads,
           \A u \in Threads \ Off : thread'[u] = thread[u],
           \A u \in Off : thread'[u].pc \in {"idle", "fail"},
           \A g \in Groups, k \in Keys :
               interrupted'[g][k] = interrupted[g][k] +
                   IF \E t \in Off : At(t, g, k, "mark") THEN 1 ELSE 0,
           UNCHANGED stream, UNCHANGED effects, UNCHANGED processed,
           faults' = faults + 1, ~SlowHandlers => Custody'
    PROVE  RunInv'
<1>0. TypeOK /\ TypeOK'
  BY DEF RunInv, HandlerInv
<1>1. Grows
  BY <1>0 DEF Grows, TypeOK
<1>2. RunsWereSent'
  BY <1>0, <1>1, SentStays DEF RunInv
<1>3. InterruptionsAreFaults'
  <2> SUFFICES ASSUME NEW g \in Groups, NEW k \in Keys PROVE interrupted'[g][k] <= faults'
    BY DEF InterruptionsAreFaults
  <2>1. interrupted[g][k] \in Nat /\ faults \in Nat /\ interrupted[g][k] <= faults
    BY <1>0 DEF TypeOK, RunInv, InterruptionsAreFaults
  <2>2. interrupted'[g][k] \in {interrupted[g][k], interrupted[g][k] + 1}
    BY <2>1
  <2> QED
    BY <2>1, <2>2
<1>4. ASSUME ~SlowHandlers PROVE RunsCounted'
  <2> SUFFICES ASSUME NEW g \in Groups, NEW k \in Keys, Unique(k) PROVE Counted(g, k)'
    BY DEF RunsCounted, Unique
  <2>0. Counted(g, k) /\ interrupted[g][k] \in Nat
    BY <1>0, <1>4 DEF RunInv, RunsCounted, TypeOK
  <2>1. ASSUME NEW u \in Threads, NEW step \in {"effect", "mark"}
        PROVE  At(u, g, k, step)' <=> u \notin Off /\ At(u, g, k, step)
    <3>1. CASE u \in Off
      BY <3>1 DEF At
    <3>2. CASE u \notin Off
      BY <1>0, <1>1, <3>2, AtStable
    <3> QED
      BY <3>1, <3>2
  <2>2. ASSUME NEW t \in Off, At(t, g, k, "mark") PROVE Counted(g, k)'
    <3>1. Group(t) = g /\ Event(t) = k /\ thread[t].pc = "mark"
      BY <2>2 DEF At
    <3>2. /\ k \notin processed[g] /\ effects[g][k] = interrupted[g][k] + 1
          /\ \A u \in Threads : \A step \in Step \ {"idle"} : At(u, g, k, step) => u = t
      BY <1>4, <3>1, AloneAtEvent
    <3>3. \A u \in Threads : ~At(u, g, k, "mark")'
      BY <2>1, <2>2, <3>2 DEF Step
    <3>4. interrupted'[g][k] = interrupted[g][k] + 1
      BY <2>2
    <3>5. effects'[g][k] = interrupted'[g][k] + 0
      BY <2>0, <3>2, <3>4
    <3> QED
      BY <3>2, <3>3, <3>5 DEF Counted
  <2>3. CASE ~ \E t \in Off : At(t, g, k, "mark")
    <3>1. interrupted'[g][k] = interrupted[g][k]
      BY <2>0, <2>3
    <3> QED
      BY <1>0, <2>0, <2>1, <2>3, <3>1, CountedStable
  <2> QED
    BY <2>2, <2>3
<1> QED
  BY <1>2, <1>3, <1>4 DEF RunInv

LEMMA InitRuns == Init /\ HandlerInv => RunInv
<1> SUFFICES ASSUME Init, HandlerInv PROVE RunInv
  OBVIOUS
<1>1. Custody
  BY DEF Init, Custody, Busy, IdleThread
<1>2. \A g \in Groups, k \in Keys : effects[g][k] = 0 /\ interrupted[g][k] = 0
  BY DEF Init
<1>3. \A t \in Threads : \A g, k : ~At(t, g, k, "mark") /\ ~At(t, g, k, "effect")
  BY DEF Init, At, IdleThread
<1>4. RunsCounted
  BY <1>2, <1>3 DEF Init, RunsCounted, Counted
<1>5. faults = 0
  BY DEF Init
<1> QED
  BY <1>1, <1>2, <1>4, <1>5 DEF RunInv, RunsWereSent, InterruptionsAreFaults

\* No step of the consumers makes an event run a second time without cause.
LEMMA RunInvStep == RunInv /\ [Next]_vars => RunInv'
<1> SUFFICES ASSUME RunInv, [Next]_vars PROVE RunInv'
  OBVIOUS
<1> USE DEF groupVars, tableVars, historyVars, consumerVars, vars
<1>0. /\ TypeOK /\ TypeOK' /\ HandlerInv /\ HandlerInv'
      /\ faults \in Nat
  <2>1. TypeOK /\ TypeOK' /\ HandlerInv /\ HandlerInv'
    BY TypeStep, HandlerInvStep DEF RunInv, HandlerInv
  <2>2. TypeOK => faults \in Nat
    BY DEF TypeOK
  <2> QED
    BY <2>1, <2>2
<1>1. ~SlowHandlers => Custody'
  BY <1>0, CustodyStep DEF RunInv
<1>2. ASSUME NEW t \in Threads, Check(t) PROVE RunInv'
  BY <1>0, <1>1, <1>2, CheckRunInv
<1>3. ASSUME NEW t \in Threads, Effect(t) PROVE RunInv'
  BY <1>0, <1>1, <1>3, EffectRunInv
<1>4. ASSUME NEW t \in Threads, MarkProcessed(t) PROVE RunInv'
  BY <1>0, <1>1, <1>4, MarkRunInv
<1>5. ASSUME NEW t \in Threads, HandlerFails(t) PROVE RunInv'
  <2>1. /\ Busy(t) /\ Goto(t, "fail")
        /\ interrupted' = IF thread[t].pc = "mark"
                          THEN [interrupted EXCEPT ![Group(t)][Event(t)] = @ + 1]
                          ELSE interrupted
        /\ UNCHANGED stream /\ UNCHANGED effects /\ UNCHANGED processed
        /\ faults' = faults + 1
    BY <1>5 DEF HandlerFails, Busy, Fault
  <2>2. /\ \A u \in Threads : u # t => thread'[u] = thread[u]
        /\ thread'[t].pc = "fail"
    BY <1>0, <2>1, GotoMoves DEF Step
  <2>3. Group(t) \in Groups /\ Event(t) \in Keys
    BY <1>0, <2>1, MessageInHand
  <2>4. \A g \in Groups, k \in Keys :
           interrupted'[g][k] = interrupted[g][k] +
               IF \E u \in {t} : At(u, g, k, "mark") THEN 1 ELSE 0
    <3>1. interrupted \in [Groups -> [Keys -> Nat]]
      BY <1>0 DEF TypeOK
    <3>2. \A g \in Groups, k \in Keys :
             interrupted'[g][k] = interrupted[g][k] +
                 IF thread[t].pc = "mark" /\ g = Group(t) /\ k = Event(t) THEN 1 ELSE 0
      BY <2>1, <2>3, <3>1
    <3> QED
      BY <3>2 DEF At
  <2> DEFINE Off == {t}
  <2>5. /\ Off \in SUBSET Threads
        /\ \A u \in Threads \ Off : thread'[u] = thread[u]
        /\ \A u \in Off : thread'[u].pc \in {"idle", "fail"}
        /\ \A g \in Groups, k \in Keys :
              interrupted'[g][k] = interrupted[g][k] +
                  IF \E u \in Off : At(u, g, k, "mark") THEN 1 ELSE 0
    BY <2>2, <2>4
  <2> HIDE DEF Off
  <2> QED
    BY <1>0, <1>1, <2>1, <2>5, CutOffRunInv
<1>6. ASSUME NEW r \in Replicas, Crash(r) PROVE RunInv'
  <2> DEFINE Off == {u \in Threads : u[1] = r}
  <2>1. /\ UNCHANGED stream /\ UNCHANGED effects /\ UNCHANGED processed
        /\ faults' = faults + 1
        /\ \A u \in Threads : thread'[u] = IF u[1] = r THEN IdleThread ELSE thread[u]
        /\ \A g \in Groups, k \in Keys :
              interrupted'[g][k] = interrupted[g][k] +
                  IF \E t \in Threads : t[1] = r /\ At(t, g, k, "mark") THEN 1 ELSE 0
    BY <1>6 DEF Crash, Fault
  <2>2. \A g, k : (\E t \in Threads : t[1] = r /\ At(t, g, k, "mark"))
                     <=> \E t \in Off : At(t, g, k, "mark")
    OBVIOUS
  <2>3. \A g \in Groups, k \in Keys :
              interrupted'[g][k] = interrupted[g][k] +
                  IF \E t \in Off : At(t, g, k, "mark") THEN 1 ELSE 0
    BY <2>1, <2>2
  <2>4. /\ Off \in SUBSET Threads
        /\ \A u \in Threads \ Off : thread'[u] = thread[u]
        /\ \A u \in Off : thread'[u].pc \in {"idle", "fail"}
    BY <2>1 DEF IdleThread
  <2> HIDE DEF Off
  <2> QED
    BY <1>0, <1>1, <2>1, <2>3, <2>4, CutOffRunInv
<1>7. ASSUME NEW t \in Threads,
             \/ EffectFails(t) \/ Ack(t) \/ AckFails(t) \/ HandleConsumeError(t)
             \/ HandleConsumeErrorFails(t) \/ Checkpoint(t) \/ CheckpointFails(t)
      PROVE  RunInv'
  <2>1. /\ thread[t].pc # "mark" /\ UNCHANGED stream /\ UNCHANGED effects
        /\ UNCHANGED processed /\ UNCHANGED interrupted
        /\ UNCHANGED faults \/ Fault
        /\ Goto(t, "fail") \/ (\E failed \in BOOLEAN : Settle(t, failed)) \/ Proceed(t)
    BY <1>7 DEF EffectFails, Ack, AckFails, HandleConsumeError, HandleConsumeErrorFails,
                Checkpoint, CheckpointFails
  <2>2. /\ \A u \in Threads : u # t => thread'[u] = thread[u]
        /\ thread'[t].pc \notin {"effect", "mark"}
    <3>1. CASE Goto(t, "fail")
      BY <1>0, <3>1, GotoMoves DEF Step
    <3>2. CASE \E failed \in BOOLEAN : Settle(t, failed)
      BY <1>0, <3>2, SettleMoves
    <3>3. CASE Proceed(t)
      <4>1. thread \in [Threads -> ThreadState]
        BY <1>0 DEF TypeOK
      <4> QED
        BY <3>3, <4>1 DEF Proceed, ThreadState, IdleThread
    <3> QED
      BY <2>1, <3>1, <3>2, <3>3
  <2>3. Grows /\ faults <= faults'
    BY <1>0, <2>1 DEF Grows, TypeOK, Fault
  <2> QED
    BY <1>0, <1>1, <2>1, <2>2, <2>3, NothingRuns
<1>8. ASSUME NEW r \in Replicas, NEW g \in Groups,
             \/ ReadGroup(r, g) \/ ReadGroupLost(r, g)
             \/ AutoClaim(r, g) \/ AutoClaimFails(r, g)
      PROVE  RunInv'
  <2>1. /\ UNCHANGED stream /\ UNCHANGED effects /\ UNCHANGED processed
        /\ UNCHANGED interrupted
        /\ UNCHANGED faults \/ Fault
        /\ \/ UNCHANGED thread
           \/ \E t \in Threads : \E batch : ~Busy(t) /\ Start(t, g, batch)
    BY <1>8 DEF ReadGroup, ReadGroupLost, Deliver, AutoClaim, AutoClaimFails, Threads
  <2>2. \A u \in Threads :
            thread'[u] = thread[u] \/ (thread'[u].pc = "check" /\ thread[u].pc = "idle")
    BY <1>0, <2>1 DEF Start, TypeOK, Busy
  <2>3. Grows /\ faults <= faults'
    BY <1>0, <2>1 DEF Grows, TypeOK, Fault
  <2> QED
    BY <1>0, <1>1, <2>1, <2>2, <2>3, NothingRuns
<1>9. ASSUME NEW k \in Keys, Arrive(k) PROVE RunInv'
  <2>1. /\ Len(stream') = Len(stream) + 1 /\ Len(stream) \in Nat
        /\ \A m \in 1..Len(stream) : stream'[m] = stream[m]
        /\ UNCHANGED thread /\ UNCHANGED effects /\ UNCHANGED processed
        /\ UNCHANGED interrupted /\ UNCHANGED faults
    BY <1>0, <1>9 DEF Arrive, TypeOK
  <2>2. Grows /\ faults <= faults'
    BY <1>0, <2>1 DEF Grows
  <2> QED
    BY <1>0, <1>1, <2>1, <2>2, NothingRuns
<1>10. ASSUME UNCHANGED <<stream, thread, effects, processed, interrupted, faults>>
       PROVE  RunInv'
  <2>1. Grows /\ faults <= faults'
    BY <1>0, <1>10 DEF Grows, TypeOK
  <2> QED
    BY <1>0, <1>1, <1>10, <2>1, NothingRuns
<1> QED
  BY <1>2, <1>3, <1>4, <1>5, <1>6, <1>7, <1>8, <1>9, <1>10
  DEF Next, ConsumerNext, RetryStep, HandlerStep, FaultyStep, TimePasses, Tick

LEMMA RunsCorrect == Spec => []RunInv
  BY InitType, InitHandler, InitRuns, RunInvStep, PTL DEF Spec

\* What the count says of an event that is in the stream once.
LEMMA RunsOfOne ==
    ASSUME RunInv, ~SlowHandlers, NEW g \in Groups, NEW k \in Keys, Unique(k)
    PROVE  /\ effects[g][k] <= interrupted[g][k] + 1
           /\ k \in processed[g] => effects[g][k] = interrupted[g][k] + 1
           /\ effects[g][k] <= faults + 1
<1>1. /\ interrupted[g][k] \in Nat /\ faults \in Nat /\ interrupted[g][k] <= faults
      /\ Counted(g, k)
  BY DEF RunInv, HandlerInv, TypeOK, InterruptionsAreFaults, RunsCounted
<1>2. /\ effects[g][k] \in {interrupted[g][k], interrupted[g][k] + 1}
      /\ k \in processed[g] => effects[g][k] = interrupted[g][k] + 1
  BY <1>1 DEF Counted
<1> QED
  BY <1>1, <1>2

\* While batches are finished within the claim threshold, an event that is in
\* the stream once runs again only after a crash or a failed INSERT came
\* between its run and its record, exactly once for each of those: for any
\* replicas, groups, batches and faults.
THEOREM RunAgainOnlyIfInterruptedAlways == Spec => []RunAgainOnlyIfInterrupted
<1>1. RunInv => RunAgainOnlyIfInterrupted
  <2>1. Distinct => \A k \in Keys : Unique(k)
    BY DEF Unique, Distinct
  <2> QED
    BY <2>1, RunsOfOne DEF RunAgainOnlyIfInterrupted
<1> QED
  BY <1>1, RunsCorrect, PTL

\* Whoever appends to the stream, the invariant stays (see EventBackbone).
LEMMA ArrivalsKeepRunInv ==
    ASSUME RunInv, stream' \in Seq(Keys), Len(stream) <= Len(stream'),
           \A m \in 1..Len(stream) : stream'[m] = stream[m],
           faults' \in 0..MaxFaults, faults <= faults', UNCHANGED consumerVars
    PROVE  RunInv'
<1> USE DEF groupVars, tableVars, historyVars, consumerVars
<1>0. TypeOK /\ HandlerInv
  BY DEF RunInv, HandlerInv
<1>1. TypeOK'
  <2>1. /\ Len(stream) \in Nat /\ Len(stream') \in Nat
        /\ 1..Len(stream) \subseteq 1..Len(stream') /\ 0..Len(stream) \subseteq 0..Len(stream')
    BY <1>0 DEF TypeOK
  <2>2. ThreadsOK'
    BY <1>0, <2>1 DEF TypeOK, ThreadsOK, Busy, Group
  <2> QED
    BY <1>0, <2>1, <2>2 DEF TypeOK, ThreadsOK
<1>2. Grows
  BY <1>0 DEF Grows, TypeOK
<1>3. HandlerInv'
  BY <1>0, <1>1, <1>2, PlainStep
<1>4. Custody => Custody'
  BY DEF Custody, Busy, Group
<1> QED
  BY <1>2, <1>3, <1>4, NothingRuns DEF RunInv

-----------------------------------------------------------------------------
(* Batches end: what keeps the fairness of the goroutines from being spent *)
(* on one batch for ever.                                                  *)

\* The steps a goroutine has left for the message it is at, if nothing fails,
\* and for its whole batch.
ToGo == [check |-> 5, effect |-> 4, mark |-> 3, ack |-> 2, fail |-> 2, checkpoint |-> 1]
StepsLeft(t) ==
    IF Busy(t) THEN 5 * (Cardinality(thread[t].batch) - 1) + ToGo[thread[t].pc] ELSE 0

BatchBounded ==
    \A t \in Threads : Busy(t) => Cardinality(thread[t].batch) \in 1..BatchSize

\* Whatever a busy goroutine does, and whatever fails, brings it nearer to
\* the end of its batch.
BatchAdvances ==
    \A t \in Threads :
        Busy(t) => thread'[t] = thread[t] \/ StepsLeft(t)' < StepsLeft(t)

\* No batch is longer than STREAMS_BATCH_SIZE.
LEMMA BatchSizeKept ==
    ASSUME NEW n \in Nat, NEW S \in SUBSET (1..n)
    PROVE  IsFiniteSet(FirstBatch(S)) /\ Cardinality(FirstBatch(S)) \in 0..BatchSize
<1> DEFINE B == FirstBatch(S)
<1>0. BatchSize \in Nat
  BY ConsumerAssumption
<1>1. /\ IsFiniteSet(S) /\ IsFiniteSet(B) /\ B \in SUBSET S
      /\ \A x : IsFiniteSet({i \in S : i < x})
  <2>1. IsFiniteSet(1..n)
    BY FS_Interval
  <2>2. B \in SUBSET (1..n) /\ \A x : {i \in S : i < x} \in SUBSET (1..n)
    BY DEF FirstBatch
  <2> QED
    BY <2>1, <2>2, FS_Subset DEF FirstBatch
<1>2. CASE B = {}
  BY <1>0, <1>1, <1>2, FS_EmptySet
<1>3. CASE B # {}
  <2> DEFINE D == {n - i : i \in B}
  <2>1. D \in SUBSET Nat /\ D # {}
    BY <1>1, <1>3
  <2>2. PICK x \in B : \A i \in B : n - x <= n - i
    <3>1. Least(D) \in D /\ \A d \in D : Least(D) <= d
      BY <2>1, LeastMember
    <3> QED
      BY <3>1
  <2>7. Cardinality({i \in S : i < x}) < BatchSize
    BY <2>2 DEF FirstBatch
  <2> HIDE DEF B, D
  <2>3. \A i \in B : i \in S /\ i \in Nat /\ i <= x
    <3> SUFFICES ASSUME NEW i \in B PROVE i \in S /\ i \in Nat /\ i <= x
      OBVIOUS
    <3>1. i \in S /\ i \in 1..n /\ x \in 1..n /\ n - x <= n - i
      BY <1>1, <2>2
    <3> QED
      BY <3>1
  <2>4. B \ {x} \in SUBSET {i \in S : i < x}
    <3> SUFFICES ASSUME NEW i \in B, i # x PROVE i \in S /\ i < x
      OBVIOUS
    <3> QED
      BY <2>2, <2>3
  <2>5. Cardinality(B \ {x}) = Cardinality(B) - 1 /\ Cardinality(B) \in Nat
    BY <1>1, FS_RemoveElement, FS_CardinalityType
  <2>6. /\ Cardinality(B \ {x}) <= Cardinality({i \in S : i < x})
        /\ Cardinality({i \in S : i < x}) \in Nat
    BY <1>1, <2>4, FS_Subset, FS_CardinalityType
  <2> QED
    BY <1>0, <1>1, <2>5, <2>6, <2>7 DEF B
<1> QED
  BY <1>2, <1>3

\* The batch in hand is finite, and shorter without the message it is at.
LEMMA BatchInHand ==
    ASSUME TypeOK, NEW t \in Threads, Busy(t)
    PROVE  /\ Cardinality(thread[t].batch) \in Nat \ {0}
           /\ Cardinality(thread[t].batch \ {Msg(t)}) = Cardinality(thread[t].batch) - 1
           /\ thread[t].batch \ {Msg(t)} # {} =>
                  Cardinality(thread[t].batch \ {Msg(t)}) \in Nat \ {0}
<1> DEFINE B == thread[t].batch
<1>1. B \in SUBSET (1..Len(stream)) /\ Msg(t) \in B /\ Len(stream) \in Nat
  BY MessageInHand, StreamType
<1>2. IsFiniteSet(B)
  <2>1. IsFiniteSet(1..Len(stream))
    BY <1>1, FS_Interval
  <2> HIDE DEF B
  <2> QED
    BY <1>1, <2>1, FS_Subset
<1> HIDE DEF B
<1>3. /\ IsFiniteSet(B \ {Msg(t)}) /\ Cardinality(B \ {Msg(t)}) = Cardinality(B) - 1
      /\ Cardinality(B) \in Nat /\ Cardinality(B \ {Msg(t)}) \in Nat
  BY <1>1, <1>2, FS_RemoveElement, FS_CardinalityType
<1>4. B # {} /\ (Cardinality(B) = 0 <=> B = {})
  BY <1>1, <1>2, FS_EmptySet
<1>5. Cardinality(B \ {Msg(t)}) = 0 <=> B \ {Msg(t)} = {}
  BY <1>3, FS_EmptySet
<1> QED
  BY <1>3, <1>4, <1>5 DEF B

\* A goroutine at work moves on: within a message, to the next or to rest.
LEMMA ThreadMoves ==
    ASSUME TypeOK, NEW t \in Threads, HandlerStep(t) \/ FaultyStep(t)
    PROVE  /\ Busy(t)
           /\ \A u \in Threads : u # t => thread'[u] = thread[u]
           /\ \/ thread'[t].pc = "idle"
              \/ /\ thread'[t].batch = thread[t].batch
                 /\ thread'[t].pc \in Step \ {"idle"} /\ ToGo[thread'[t].pc] < ToGo[thread[t].pc]
              \/ /\ thread'[t].batch = thread[t].batch \ {Msg(t)}
                 /\ thread[t].batch \ {Msg(t)} # {} /\ thread'[t].pc = "check"
<1> DEFINE rest == thread[t].batch \ {Msg(t)}
           next == [thread[t] EXCEPT !.batch = rest, !.pc = "check"]
<1>1. thread \in [Threads -> ThreadState] /\ thread[t] \in ThreadState
  BY DEF TypeOK
<1>0. next.pc = "check" /\ next.batch = rest
  BY <1>1 DEF ThreadState
<1>2. ASSUME NEW step \in Step, Goto(t, step)
      PROVE  /\ \A u \in Threads : u # t => thread'[u] = thread[u]
             /\ thread'[t].pc = step /\ thread'[t].batch = thread[t].batch
  BY <1>1, <1>2, GotoMoves DEF ThreadState
<1>3. ASSUME NEW failed \in BOOLEAN, Settle(t, failed)
      PROVE  /\ \A u \in Threads : u # t => thread'[u] = thread[u]
             /\ \/ /\ thread'[t].pc = "check" /\ thread'[t].batch = rest /\ rest # {}
                \/ thread'[t].pc = "checkpoint" /\ thread'[t].batch = thread[t].batch
  <2> DEFINE done == [thread[t] EXCEPT !.failed = failed, !.pc = "checkpoint"]
  <2>1. \/ rest # {} /\ thread' = [thread EXCEPT ![t] = next]
        \/ thread' = [thread EXCEPT ![t] = done]
    BY <1>3 DEF Settle
  <2>2. done.pc = "checkpoint" /\ done.batch = thread[t].batch
    BY <1>1 DEF ThreadState
  <2> HIDE DEF next, done, rest
  <2> QED
    BY <1>0, <1>1, <2>1, <2>2
<1>4. ASSUME Proceed(t)
      PROVE  /\ \A u \in Threads : u # t => thread'[u] = thread[u]
             /\ \/ thread'[t].pc = "idle"
                \/ thread'[t].pc = "check" /\ thread'[t].batch = rest /\ rest # {}
  <2>1. \/ thread' = [thread EXCEPT ![t] = IdleThread]
        \/ rest # {} /\ thread' = [thread EXCEPT ![t] = next]
    BY <1>4 DEF Proceed
  <2> HIDE DEF next, rest
  <2> QED
    BY <1>0, <1>1, <2>1 DEF IdleThread
<1>5. CASE Check(t) \/ Effect(t) \/ EffectFails(t) \/ MarkProcessed(t) \/ HandlerFails(t)
  <2>1. \/ thread[t].pc = "check" /\ (Goto(t, "effect") \/ Goto(t, "ack") \/ Goto(t, "fail"))
        \/ thread[t].pc = "effect" /\ (Goto(t, "mark") \/ Goto(t, "fail"))
        \/ thread[t].pc = "mark" /\ (Goto(t, "ack") \/ Goto(t, "fail"))
    BY <1>5 DEF Check, Effect, EffectFails, MarkProcessed, HandlerFails
  <2> QED
    BY <1>2, <2>1 DEF Step, Busy, ToGo
<1>6. CASE Ack(t) \/ AckFails(t) \/ HandleConsumeError(t) \/ HandleConsumeErrorFails(t)
  <2>1. thread[t].pc \in {"ack", "fail"} /\ \E failed \in BOOLEAN : Settle(t, failed)
    BY <1>6 DEF Ack, AckFails, HandleConsumeError, HandleConsumeErrorFails
  <2> QED
    BY <1>3, <2>1 DEF Step, Busy, ToGo
<1>7. CASE Checkpoint(t) \/ CheckpointFails(t)
  <2>1. thread[t].pc = "checkpoint" /\ Proceed(t)
    BY <1>7 DEF Checkpoint, CheckpointFails
  <2> QED
    BY <1>4, <2>1 DEF Busy
<1> QED
  BY <1>5, <1>6, <1>7 DEF HandlerStep, FaultyStep

\* Every other step leaves a goroutine as it is, takes it off its work, or
\* gives it a batch when it has none.
LEMMA OthersMoves ==
    ASSUME TypeOK, [Next]_vars
    PROVE  \/ \E t \in Threads : HandlerStep(t) \/ FaultyStep(t)
           \/ \A u \in Threads :
                 \/ thread'[u] = thread[u] \/ thread'[u].pc = "idle"
                 \/ /\ ~Busy(u)
                    /\ \E S \in SUBSET (1..Len(stream)) :
                          /\ FirstBatch(S) # {} /\ thread'[u].batch = FirstBatch(S)
                          /\ thread'[u].pc = "check"
<1> USE DEF groupVars, tableVars, historyVars, consumerVars, vars
<1>0. thread \in [Threads -> ThreadState] /\ Len(stream) \in Nat
  BY StreamType DEF TypeOK
<1>1. ASSUME NEW t \in Threads, ~Busy(t), NEW g, NEW S \in SUBSET (1..Len(stream)),
             FirstBatch(S) # {}, Start(t, g, FirstBatch(S)), NEW u \in Threads
      PROVE  \/ thread'[u] = thread[u]
             \/ /\ ~Busy(u) /\ thread'[u].batch = FirstBatch(S)
                /\ thread'[u].pc = "check"
  BY <1>0, <1>1 DEF Start
<1>2. ASSUME NEW r \in Replicas, NEW g \in Groups, ReadGroup(r, g)
      PROVE  \E t \in Threads, S \in SUBSET (1..Len(stream)) :
                ~Busy(t) /\ FirstBatch(S) # {} /\ Start(t, g, FirstBatch(S))
  <2> DEFINE S == (cursor[g] + 1)..Len(stream)
  <2>1. cursor[g] \in Nat
    BY <1>0 DEF TypeOK
  <2>2. S \in SUBSET (1..Len(stream))
    BY <1>0, <2>1
  <2> QED
    BY <1>2, <2>2 DEF ReadGroup, Deliver, Threads
<1>3. ASSUME NEW r \in Replicas, NEW g \in Groups, AutoClaim(r, g)
      PROVE  \/ UNCHANGED thread
             \/ \E t \in Threads, S \in SUBSET (1..Len(stream)) :
                   ~Busy(t) /\ FirstBatch(S) # {} /\ Start(t, g, FirstBatch(S))
  <2>1. Claimable(g) \in SUBSET (1..Len(stream))
    BY DEF Claimable, TypeOK
  <2> QED
    BY <1>3, <2>1 DEF AutoClaim, Threads
<1>4. ASSUME NEW r \in Replicas, Crash(r), NEW u \in Threads
      PROVE  thread'[u] = thread[u] \/ thread'[u].pc = "idle"
  BY <1>4 DEF Crash, IdleThread
<1>5. \/ \E t \in Threads : HandlerStep(t) \/ FaultyStep(t)
      \/ \E r \in Replicas, g \in Groups : ReadGroup(r, g) \/ AutoClaim(r, g)
      \/ \E r \in Replicas : Crash(r)
      \/ UNCHANGED thread
  BY DEF Next, ConsumerNext, RetryStep, TimePasses, ReadGroupLost, AutoClaimFails, Tick, Arrive
<1>6. ASSUME NEW t \in Threads, NEW g, NEW S \in SUBSET (1..Len(stream)), ~Busy(t),
             FirstBatch(S) # {}, Start(t, g, FirstBatch(S)), NEW u \in Threads
      PROVE  \/ thread'[u] = thread[u] \/ thread'[u].pc = "idle"
             \/ /\ ~Busy(u)
                /\ \E Q \in SUBSET (1..Len(stream)) :
                      /\ FirstBatch(Q) # {} /\ thread'[u].batch = FirstBatch(Q)
                      /\ thread'[u].pc = "check"
  BY <1>1, <1>6
<1>7. CASE \E r \in Replicas, g \in Groups : ReadGroup(r, g) \/ AutoClaim(r, g)
  BY <1>2, <1>3, <1>6, <1>7
<1>8. CASE UNCHANGED thread \/ \E r \in Replicas : Crash(r)
  BY <1>4, <1>8
<1> QED
  BY <1>5, <1>7, <1>8

LEMMA BatchStep ==
    ASSUME TypeOK, TypeOK', BatchBounded, [Next]_vars
    PROVE  BatchBounded' /\ BatchAdvances
<1>0. BatchSize \in Nat /\ Len(stream) \in Nat
  BY StreamType, ConsumerAssumption
<1> SUFFICES ASSUME NEW u \in Threads
             PROVE  /\ Busy(u)' => Cardinality(thread'[u].batch) \in 1..BatchSize
                    /\ Busy(u) => thread'[u] = thread[u] \/ StepsLeft(u)' < StepsLeft(u)
  BY DEF BatchBounded, BatchAdvances
<1>1. Busy(u) => /\ Cardinality(thread[u].batch) \in 1..BatchSize
                 /\ thread[u].pc \in Step \ {"idle"}
  BY DEF BatchBounded, Busy, TypeOK, ThreadState
<1>2. \A step \in Step \ {"idle"} : ToGo[step] \in 1..5
  BY DEF Step, ToGo
<1>3. CASE thread'[u] = thread[u]
  BY <1>1, <1>3 DEF Busy
<1>4. CASE thread'[u].pc = "idle"
  BY <1>1, <1>2, <1>4 DEF Busy, StepsLeft
<1>5. CASE /\ ~Busy(u)
           /\ \E S \in SUBSET (1..Len(stream)) :
                 /\ FirstBatch(S) # {} /\ thread'[u].batch = FirstBatch(S)
                 /\ thread'[u].pc = "check"
  <2>1. PICK S \in SUBSET (1..Len(stream)) :
            FirstBatch(S) # {} /\ thread'[u].batch = FirstBatch(S)
    BY <1>5
  <2>2. IsFiniteSet(FirstBatch(S)) /\ Cardinality(FirstBatch(S)) \in 0..BatchSize
    BY <1>0, BatchSizeKept
  <2>3. Cardinality(FirstBatch(S)) # 0
    BY <2>1, <2>2, FS_EmptySet
  <2> QED
    BY <1>0, <1>5, <2>1, <2>2, <2>3
<1>6. CASE HandlerStep(u) \/ FaultyStep(u)
  <2>1. /\ Busy(u)
        /\ Cardinality(thread[u].batch) \in Nat \ {0}
        /\ Cardinality(thread[u].batch \ {Msg(u)}) = Cardinality(thread[u].batch) - 1
        /\ thread[u].batch \ {Msg(u)} # {} =>
               Cardinality(thread[u].batch \ {Msg(u)}) \in Nat \ {0}
    BY <1>6, ThreadMoves, BatchInHand
  <2>2. \/ thread'[u].pc = "idle"
        \/ /\ thread'[u].batch = thread[u].batch
           /\ thread'[u].pc \in Step \ {"idle"} /\ ToGo[thread'[u].pc] < ToGo[thread[u].pc]
        \/ /\ thread'[u].batch = thread[u].batch \ {Msg(u)}
           /\ thread[u].batch \ {Msg(u)} # {} /\ thread'[u].pc = "check"
    BY <1>6, ThreadMoves
  <2>3. CASE /\ thread'[u].batch = thread[u].batch
             /\ thread'[u].pc \in Step \ {"idle"} /\ ToGo[thread'[u].pc] < ToGo[thread[u].pc]
    <3>1. /\ ToGo[thread'[u].pc] \in 1..5 /\ ToGo[thread[u].pc] \in 1..5
          /\ Cardinality(thread[u].batch) \in 1..BatchSize
      BY <1>1, <1>2, <2>1, <2>3
    <3> QED
      BY <2>1, <2>3, <3>1 DEF Busy, StepsLeft
  <2>4. CASE /\ thread'[u].batch = thread[u].batch \ {Msg(u)}
             /\ thread[u].batch \ {Msg(u)} # {} /\ thread'[u].pc = "check"
    <3>1. /\ ToGo[thread[u].pc] \in 1..5 /\ ToGo["check"] = 5
          /\ Cardinality(thread[u].batch) \in 1..BatchSize
      BY <1>1, <1>2, <2>1 DEF ToGo
    <3>2. Cardinality(thread'[u].batch) = Cardinality(thread[u].batch) - 1
          /\ Cardinality(thread'[u].batch) \in Nat \ {0}
      BY <2>1, <2>4
    <3> QED
      BY <1>0, <2>1, <2>4, <3>1, <3>2 DEF Busy, StepsLeft
  <2> QED
    BY <1>4, <2>2, <2>3, <2>4
<1> QED
  BY <1>3, <1>4, <1>5, <1>6, OthersMoves, ThreadMoves

LEMMA InitBatch == Init => BatchBounded
  BY DEF Init, BatchBounded, Busy, IdleThread

\* A goroutine that has a batch is at the end of it after at most five steps
\* for each of its messages, whatever fails and whatever the others do.
THEOREM BatchesEnd ==
    Spec => /\ [][BatchAdvances]_vars
            /\ [](\A t \in Threads : StepsLeft(t) \in 0..(5 * BatchSize))
<1>1. TypeOK /\ BatchBounded => \A t \in Threads : StepsLeft(t) \in 0..(5 * BatchSize)
  <2> SUFFICES ASSUME TypeOK, BatchBounded, NEW t \in Threads
               PROVE  StepsLeft(t) \in 0..(5 * BatchSize)
    OBVIOUS
  <2>1. BatchSize \in Nat
    BY ConsumerAssumption
  <2>2. Busy(t) => /\ Cardinality(thread[t].batch) \in 1..BatchSize
                   /\ ToGo[thread[t].pc] \in 1..5
    BY DEF BatchBounded, Busy, TypeOK, ThreadState, Step, ToGo
  <2> QED
    BY <2>1, <2>2 DEF StepsLeft
<1> QED
  BY <1>1, InitBatch, BatchStep, TypeCorrect, PTL DEF Spec

-----------------------------------------------------------------------------
(* Refinement *)

\* What a step of the consumers does to the two tables the contract is about:
\* nothing, one run of a wanted event of the stream, or one record of a run.
LEMMA RunsAndRecords ==
    ASSUME HandlerInv, ConsumerNext
    PROVE  /\ UNCHANGED stream
           /\ \/ UNCHANGED effects /\ UNCHANGED processed
              \/ \E g \in Groups, k \in Keys :
                    /\ k \in Wants[g] /\ \E i \in DOMAIN stream : stream[i] = k
                    /\ effects' = [effects EXCEPT ![g][k] = @ + 1]
                    /\ UNCHANGED processed
              \/ \E g \in Groups, k \in Keys :
                    /\ effects[g][k] > 0
                    /\ processed' = [processed EXCEPT ![g] = @ \cup {k}]
                    /\ UNCHANGED effects
<1>0. TypeOK
  BY DEF HandlerInv
<1> USE DEF groupVars, tableVars, historyVars
<1>1. UNCHANGED stream
  BY DEF ConsumerNext, TimePasses, ReadGroup, ReadGroupLost, Deliver, AutoClaimFails,
     RetryStep, Tick, AutoClaim, Crash, HandlerStep, FaultyStep, Check, Effect,
     EffectFails, MarkProcessed, Ack, HandleConsumeError, Checkpoint, HandlerFails,
     AckFails, HandleConsumeErrorFails, CheckpointFails
<1>2. ASSUME NEW t \in Threads, Effect(t)
      PROVE  \E g \in Groups, k \in Keys :
                /\ k \in Wants[g] /\ \E i \in DOMAIN stream : stream[i] = k
                /\ effects' = [effects EXCEPT ![g][k] = @ + 1]
                /\ UNCHANGED processed
  <2>1. Busy(t) /\ thread[t].pc = "effect" /\ UNCHANGED processed
        /\ effects' = [effects EXCEPT ![Group(t)][Event(t)] = @ + 1]
    BY <1>2 DEF Effect, Busy
  <2>2. Group(t) \in Groups /\ Event(t) \in Keys /\ Msg(t) \in 1..Len(stream)
    BY <1>0, <2>1, MessageInHand
  <2>3. Event(t) \in Wants[Group(t)] /\ Msg(t) \in DOMAIN stream
    BY <1>0, <2>1, <2>2 DEF HandlerInv, Knows, TypeOK
  <2> QED
    BY <2>1, <2>2, <2>3 DEF Event
<1>3. ASSUME NEW t \in Threads, MarkProcessed(t)
      PROVE  \E g \in Groups, k \in Keys :
                /\ effects[g][k] > 0
                /\ processed' = [processed EXCEPT ![g] = @ \cup {k}]
                /\ UNCHANGED effects
  <2>1. Busy(t) /\ thread[t].pc = "mark" /\ UNCHANGED effects
        /\ processed' = [processed EXCEPT ![Group(t)] = @ \cup {Event(t)}]
    BY <1>3 DEF MarkProcessed, Busy
  <2>2. Group(t) \in Groups /\ Event(t) \in Keys
    BY <1>0, <2>1, MessageInHand
  <2>3. effects[Group(t)][Event(t)] > 0
    BY <2>1 DEF HandlerInv, Knows
  <2> QED
    BY <2>1, <2>2, <2>3
<1>4. \/ UNCHANGED effects /\ UNCHANGED processed
      \/ \E t \in Threads : Effect(t) \/ MarkProcessed(t)
  BY DEF ConsumerNext, TimePasses, ReadGroup, ReadGroupLost, Deliver, AutoClaimFails,
     RetryStep, Tick, AutoClaim, Crash, HandlerStep, FaultyStep, Check,
     EffectFails, Ack, HandleConsumeError, Checkpoint, HandlerFails,
     AckFails, HandleConsumeErrorFails, CheckpointFails
<1> QED
  BY <1>1, <1>2, <1>3, <1>4

\* The consumers implement the at-least-once contract: a run of a domain
\* service is a Run of the contract, markProcessed is a Record, the arrival of
\* a message a Send, and everything else is invisible to it.
THEOREM ContractImplemented == Spec => ContractSpec
<1> DEFINE Sent == {stream[i] : i \in DOMAIN stream}
<1>1. Init => Contract!Init
  BY DEF Init, Contract!Init
<1>2. HandlerInv /\ [Next]_vars => [Contract!Next]_(Contract!vars)
  <2> SUFFICES ASSUME HandlerInv, [Next]_vars
               PROVE  [Contract!Next]_(Contract!vars)
    OBVIOUS
  <2>0. TypeOK
    BY DEF HandlerInv
  <2> USE DEF groupVars, tableVars, historyVars, consumerVars, vars
  <2>1. ASSUME UNCHANGED stream, UNCHANGED effects, UNCHANGED processed
        PROVE  UNCHANGED Contract!vars
    BY <2>1 DEF Contract!vars
  <2>2. ASSUME UNCHANGED stream, UNCHANGED processed, NEW g \in Groups, NEW k \in Keys,
               k \in Wants[g], NEW i \in DOMAIN stream, stream[i] = k,
               effects' = [effects EXCEPT ![g][k] = @ + 1]
        PROVE  Contract!Next
    <3>1. Contract!Run(g, k)
      BY <2>2 DEF Contract!Run
    <3> QED
      BY <3>1 DEF Contract!Next
  <2>3. ASSUME UNCHANGED stream, UNCHANGED effects, NEW g \in Groups, NEW k \in Keys,
               effects[g][k] > 0, processed' = [processed EXCEPT ![g] = @ \cup {k}]
        PROVE  Contract!Next
    <3>1. Contract!Record(g, k)
      BY <2>3 DEF Contract!Record
    <3> QED
      BY <3>1 DEF Contract!Next
  <2>4. ASSUME NEW k \in Keys, Arrive(k) PROVE Contract!Next
    <3>1. stream \in Seq(Keys) /\ stream' = Append(stream, k)
      BY <2>0, <2>4 DEF Arrive, TypeOK
    <3>2. /\ DOMAIN stream' = 1..(Len(stream) + 1) /\ DOMAIN stream = 1..Len(stream)
          /\ Len(stream) \in Nat /\ stream'[Len(stream) + 1] = k
          /\ \A i \in 1..Len(stream) : stream'[i] = stream[i]
      BY <3>1
    <3>3. Sent' = Sent \cup {k}
      <4>1. \A x : x \in Sent' <=> \E i \in 1..(Len(stream) + 1) : x = stream'[i]
        BY <3>2
      <4>2. \A x : x \in Sent <=> \E i \in 1..Len(stream) : x = stream[i]
        BY <3>2
      <4>3. \A x : x \in Sent' <=> x \in Sent \/ x = k
        BY <3>2, <4>1, <4>2
      <4> QED
        BY <4>3
    <3>4. Contract!Send(k)
      BY <2>4, <3>3 DEF Arrive, Contract!Send
    <3> QED
      BY <3>4 DEF Contract!Next
  <2>5. CASE ConsumerNext
    BY <2>1, <2>2, <2>3, <2>5, RunsAndRecords
  <2>6. CASE UNCHANGED vars
    BY <2>1, <2>6
  <2> QED
    BY <2>4, <2>5, <2>6 DEF Next
<1> QED
  BY <1>1, <1>2, HandlerCorrect, PTL DEF Spec, ContractSpec, Contract!Spec

=============================================================================
