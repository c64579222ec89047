------------------------- MODULE EventBackboneProofs -------------------------
(***************************************************************************)
(* The event backbone end to end, for any publishers, consumers, number of *)
(* events and number of faults.  Each side keeps the invariant its own     *)
(* proofs rest on whatever the other does: the consumers leave the stream  *)
(* alone, and the publishers only append to it.                            *)
(***************************************************************************)
EXTENDS EventBackbone, TLAPS

PP == INSTANCE EventPublisherProofs
CP == INSTANCE StreamConsumerProofs

BackboneInv == PP!OutboxInv /\ CP!RunInv

-----------------------------------------------------------------------------
(* PP and CP extend the modules that P and C name. *)

LEMMA SamePublisher ==
    /\ P!Init => PP!Init
    /\ P!Next => PP!Next
<1> USE DEF P!Refused, PP!Refused, P!Recorded, PP!Recorded, P!InStream, PP!InStream,
            P!Written, PP!Written, P!MayWrite, PP!MayWrite, P!Goto, PP!Goto, P!Fault, PP!Fault,
            P!Return, PP!Return, P!Callers, PP!Callers, P!NoEnvelope, PP!NoEnvelope
<1>1. P!Init => PP!Init
  BY DEF P!Init, PP!Init
<1>2. \A p \in P!Callers : P!Step(p) => PP!Step(p)
  BY DEF P!Step, PP!Step, P!CreateEventLog, PP!CreateEventLog,
     P!RefuseDuplicate, PP!RefuseDuplicate, P!XAdd, PP!XAdd,
     P!MarkEventLogPublished, PP!MarkEventLogPublished,
     P!MarkEventLogPublishFailed, PP!MarkEventLogPublishFailed
<1>3. \A p \in P!Callers : P!FaultyStep(p) => PP!FaultyStep(p)
  BY DEF P!FaultyStep, PP!FaultyStep, P!CreateEventLogFails, PP!CreateEventLogFails,
     P!XAddResent, PP!XAddResent, P!XAddFails, PP!XAddFails,
     P!MarkEventLogPublishedFails, PP!MarkEventLogPublishedFails,
     P!MarkEventLogPublishFailedFails, PP!MarkEventLogPublishFailedFails,
     P!Crash, PP!Crash
<1>4. P!ReplayStep => PP!ReplayStep
  BY DEF P!ReplayStep, PP!ReplayStep, P!RequestReplay, PP!RequestReplay,
     P!ReplayNext, PP!ReplayNext, P!ReplayCompletes, PP!ReplayCompletes
<1>5. \A p \in Producers, k \in Keys : P!Publish(p, k) => PP!Publish(p, k)
  BY DEF P!Publish, PP!Publish
<1> QED
  BY <1>1, <1>2, <1>3, <1>4, <1>5 DEF P!Next, PP!Next

LEMMA SameConsumer ==
    /\ C!Init => CP!Init
    /\ C!ConsumerNext => CP!ConsumerNext
<1> USE DEF C!groupVars, CP!groupVars, C!tableVars, CP!tableVars,
            C!historyVars, CP!historyVars, C!Threads, CP!Threads, C!IsLoop, CP!IsLoop,
            C!IdleThread, CP!IdleThread, C!Busy, CP!Busy, C!Group, CP!Group,
            C!Least, CP!Least, C!Msg, CP!Msg, C!Event, CP!Event, C!Holds, CP!Holds,
            C!Fault, CP!Fault, C!Start, CP!Start, C!Goto, CP!Goto,
            C!At, CP!At
<1>0. /\ \A S : C!FirstBatch(S) = CP!FirstBatch(S)
      /\ \A g \in Groups : C!Claimable(g) = CP!Claimable(g)
  <2>1. \A S : C!Cardinality(S) = CP!Cardinality(S)
    BY DEF C!Cardinality, CP!Cardinality
  <2> QED
    BY <2>1 DEF C!FirstBatch, CP!FirstBatch, C!Claimable, CP!Claimable
<1>1. C!Init => CP!Init
  BY DEF C!Init, CP!Init
<1>2. \A g \in Groups : \A m \in pel[g] : C!TimePasses(g, m) => CP!TimePasses(g, m)
  BY DEF C!TimePasses, CP!TimePasses
<1>3. \A g \in Groups : C!Deliver(g) => CP!Deliver(g)
  <2>1. \A S : C!Cardinality(S) = CP!Cardinality(S)
    BY DEF C!Cardinality, CP!Cardinality
  <2> QED
    BY <1>0, <2>1 DEF C!Deliver, CP!Deliver
<1>4. \A r \in Replicas, g \in Groups :
         C!ReadGroup(r, g) \/ C!ReadGroupLost(r, g) \/ C!AutoClaimFails(r, g) =>
             CP!ReadGroup(r, g) \/ CP!ReadGroupLost(r, g) \/ CP!AutoClaimFails(r, g)
  BY <1>0, <1>3 DEF C!ReadGroup, CP!ReadGroup, C!ReadGroupLost, CP!ReadGroupLost,
     C!AutoClaimFails, CP!AutoClaimFails
<1>5. \A r \in Replicas : C!RetryStep(r) \/ C!Crash(r) => CP!RetryStep(r) \/ CP!Crash(r)
  BY <1>0 DEF C!RetryStep, CP!RetryStep, C!Tick, CP!Tick, C!AutoClaim, CP!AutoClaim, C!Crash, CP!Crash
<1> USE DEF C!Settle, CP!Settle, C!DeadLetter, CP!DeadLetter,
            C!SetCheckpoint, CP!SetCheckpoint, C!Proceed, CP!Proceed
<1>6. \A t \in C!Threads : C!HandlerStep(t) => CP!HandlerStep(t)
  BY DEF C!HandlerStep, CP!HandlerStep, C!Check, CP!Check, C!Effect, CP!Effect,
     C!EffectFails, CP!EffectFails, C!MarkProcessed, CP!MarkProcessed, C!Ack, CP!Ack,
     C!HandleConsumeError, CP!HandleConsumeError, C!Checkpoint, CP!Checkpoint
<1>7. \A t \in C!Threads : C!FaultyStep(t) => CP!FaultyStep(t)
  BY DEF C!FaultyStep, CP!FaultyStep, C!HandlerFails, CP!HandlerFails,
     C!AckFails, CP!AckFails, C!HandleConsumeErrorFails, CP!HandleConsumeErrorFails,
     C!CheckpointFails, CP!CheckpointFails
<1> QED
  BY <1>1, <1>2, <1>4, <1>5, <1>6, <1>7 DEF C!ConsumerNext, CP!ConsumerNext

-----------------------------------------------------------------------------
(* The two invariants together *)

LEMMA InitBackbone == Init => BackboneInv
<1> SUFFICES ASSUME Init PROVE BackboneInv
  OBVIOUS
<1>1. PP!Init /\ CP!Init
  BY SamePublisher, SameConsumer DEF Init
<1>2. PP!OutboxInv
  BY <1>1, PP!InitType, PP!InitOutbox, BackboneAssumption
  DEF P!PublisherAssumption
<1>3. CP!RunInv
  BY <1>1, CP!InitType, CP!InitHandler, CP!InitRuns, BackboneAssumption
  DEF C!ConsumerAssumption
<1> QED
  BY <1>2, <1>3 DEF BackboneInv

\* The publishers, which the consumers see as messages that arrive.
LEMMA PublisherSideStep == BackboneInv /\ PublisherSide => BackboneInv'
<1> SUFFICES ASSUME BackboneInv, PublisherSide PROVE BackboneInv'
  OBVIOUS
<1>1. PP!OutboxInv /\ PP!TypeOK /\ CP!RunInv /\ PP!Next /\ UNCHANGED consumerVars
  BY SamePublisher DEF BackboneInv, PublisherSide, PP!OutboxInv
<1>2. PP!TypeOK' /\ PP!OutboxInv'
  BY <1>1, PP!TypeStep, PP!OutboxStep, BackboneAssumption DEF P!PublisherAssumption
<1>3. Len(stream) <= Len(stream') /\ \A m \in 1..Len(stream) : stream'[m] = stream[m]
  BY <1>1, PP!StreamOnlyAppended, BackboneAssumption DEF P!PublisherAssumption
<1>4. stream' \in Seq(Keys) /\ faults' \in 0..MaxFaults
  BY <1>2 DEF PP!TypeOK
<1>5. UNCHANGED CP!consumerVars /\ faults <= faults'
  BY <1>1, PP!FaultsGrow, BackboneAssumption DEF P!PublisherAssumption, consumerVars, CP!consumerVars, CP!groupVars, CP!tableVars, CP!historyVars
<1>6. CP!RunInv'
  BY <1>1, <1>3, <1>4, <1>5, CP!ArrivalsKeepRunInv, BackboneAssumption
  DEF C!ConsumerAssumption
<1> QED
  BY <1>2, <1>6 DEF BackboneInv

\* The consumers, of which the publishers see nothing.
LEMMA ConsumerSideStep == BackboneInv /\ ConsumerSide => BackboneInv' /\ UNCHANGED stream
<1> SUFFICES ASSUME BackboneInv, ConsumerSide PROVE BackboneInv' /\ UNCHANGED stream
  OBVIOUS
<1>1. PP!OutboxInv /\ CP!RunInv /\ CP!ConsumerNext /\ UNCHANGED publisherVars
  BY SameConsumer DEF BackboneInv, ConsumerSide
<1>2. CP!RunInv' /\ UNCHANGED stream
  <2>1. CP!RunInv'
    BY <1>1, CP!RunInvStep, BackboneAssumption DEF C!ConsumerAssumption, CP!Next
  <2>2. UNCHANGED stream
    BY <1>1 DEF CP!ConsumerNext, CP!TimePasses, CP!ReadGroup, CP!ReadGroupLost, CP!Deliver,
       CP!AutoClaimFails, CP!RetryStep, CP!Tick, CP!AutoClaim, CP!Crash, CP!HandlerStep,
       CP!FaultyStep, CP!Check, CP!Effect, CP!EffectFails, CP!MarkProcessed, CP!Ack,
       CP!HandleConsumeError, CP!Checkpoint, CP!HandlerFails, CP!AckFails,
       CP!HandleConsumeErrorFails, CP!CheckpointFails
  <2> QED
    BY <2>1, <2>2
<1>3. faults' \in 0..MaxFaults
  BY <1>2 DEF CP!RunInv, CP!HandlerInv, CP!TypeOK
<1>4. PP!OutboxInv'
  BY <1>1, <1>2, <1>3, PP!FaultsElsewhere, BackboneAssumption
  DEF P!PublisherAssumption, publisherVars
<1> QED
  BY <1>2, <1>4 DEF BackboneInv

\* Publishers and consumers keep their invariants in each other's company.
THEOREM BackboneCorrect == Spec => []BackboneInv
<1>1. BackboneInv /\ UNCHANGED vars => BackboneInv'
  <2> SUFFICES ASSUME BackboneInv, UNCHANGED vars PROVE BackboneInv'
    OBVIOUS
  <2>1. PP!OutboxInv'
    BY PP!OutboxStep, PP!TypeStep, BackboneAssumption
    DEF P!PublisherAssumption, BackboneInv, vars, publisherVars, PP!vars, PP!OutboxInv
  <2>2. CP!RunInv'
    BY CP!RunInvStep, BackboneAssumption
    DEF C!ConsumerAssumption, BackboneInv, vars, consumerVars, CP!vars, CP!consumerVars,
        CP!groupVars, CP!tableVars, CP!historyVars
  <2> QED
    BY <2>1, <2>2 DEF BackboneInv
<1>2. BackboneInv /\ [Next]_vars => BackboneInv'
  BY <1>1, PublisherSideStep, ConsumerSideStep DEF Next
<1> QED
  BY InitBackbone, <1>2, PTL DEF Spec

-----------------------------------------------------------------------------
(* Safety *)

\* No domain service ever runs for an event that has no row in event_log.
THEOREM RunsAreRecordedAlways == Spec => []RunsAreRecorded
<1>1. BackboneInv => RunsAreRecorded
  <2> SUFFICES ASSUME BackboneInv, NEW g \in Groups, NEW k \in Keys, effects[g][k] > 0
               PROVE  eventLog[k].status # "absent"
    BY DEF RunsAreRecorded
  <2>1. PP!InStream(k)
    BY DEF BackboneInv, CP!RunInv, CP!RunsWereSent, PP!InStream
  <2> QED
    BY <2>1 DEF BackboneInv, PP!OutboxInv, PP!StreamFollowsLog
<1> QED
  BY <1>1, BackboneCorrect, PTL

\* Events whose XADD was not sent again come once.
LEMMA UniqueUnlessResent ==
    ASSUME BackboneInv, NEW k \in Keys \ resent
    PROVE  CP!Unique(k)
  BY DEF BackboneInv, PP!OutboxInv, PP!DispatchedOnce, CP!Unique

\* While handlers keep the claim threshold, an event runs again only after a
\* crash or a failed INSERT between its run and its record, once for each of
\* those, or if the Redis client has sent its XADD twice; nothing is assumed
\* of the stream.
THEOREM RunAgainOnlyIfInterruptedAlways == Spec => []RunAgainOnlyIfInterrupted
<1>1. BackboneInv => RunAgainOnlyIfInterrupted
  BY UniqueUnlessResent, CP!RunsOfOne, BackboneAssumption
  DEF C!ConsumerAssumption, BackboneInv, RunAgainOnlyIfInterrupted
<1> QED
  BY <1>1, BackboneCorrect, PTL

\* Every run beyond the first is paid for by a fault.
THEOREM RunsBoundedByFaultsAlways == Spec => []RunsBoundedByFaults
<1>1. BackboneInv => RunsBoundedByFaults
  BY UniqueUnlessResent, CP!RunsOfOne, BackboneAssumption
  DEF C!ConsumerAssumption, BackboneInv, RunsBoundedByFaults
<1> QED
  BY <1>1, BackboneCorrect, PTL

\* An event that was answered "ok" is, for every group that wants it,
\* processed, unread or pending.
THEOREM OkIsNeverLostAlways == Spec => []OkIsNeverLost
<1>1. BackboneInv => OkIsNeverLost
  <2> SUFFICES ASSUME BackboneInv, NEW k \in Keys, "ok" \in told[k],
                      NEW g \in Groups, k \in Wants[g] \ processed[g]
               PROVE  \E m \in DOMAIN stream :
                          stream[m] = k /\ (m > cursor[g] \/ m \in pel[g])
    BY DEF OkIsNeverLost
  <2>1. PICK m \in DOMAIN stream : stream[m] = k
    BY DEF BackboneInv, PP!OutboxInv, PP!OkMeansPublished, PP!StreamFollowsLog, PP!InStream
  <2>2. m \in Nat \ {0} /\ cursor[g] \in Nat
    BY DEF BackboneInv, PP!OutboxInv, PP!TypeOK, CP!RunInv, CP!HandlerInv, CP!TypeOK
  <2>3. CASE m \in 1..cursor[g] /\ m \notin pel[g]
    BY <2>1, <2>3 DEF BackboneInv, CP!RunInv, CP!HandlerInv, CP!AcknowledgedIsHandled
  <2> QED
    BY <2>1, <2>2, <2>3
<1> QED
  BY <1>1, BackboneCorrect, PTL

-----------------------------------------------------------------------------
(* Refinement *)

\* The backbone implements the at-least-once contract: XADD is its Send, the
\* run of a domain service its Run and markProcessed its Record.
THEOREM ContractImplemented == Spec => ContractSpec
<1> USE DEF P!Recorded, P!InStream
<1>1. Init => Contract!Init
  BY DEF Init, P!Init, C!Init, Contract!Init
<1>2. BackboneInv /\ BackboneInv' /\ [Next]_vars => [Contract!Next]_(Contract!vars)
  <2> SUFFICES ASSUME BackboneInv, BackboneInv', [Next]_vars
               PROVE  [Contract!Next]_(Contract!vars)
    OBVIOUS
  <2> DEFINE SentHere == {k \in P!Recorded : P!InStream(k)}
  <2>1. SentHere = PP!Sent /\ SentHere' = PP!Sent'
    BY DEF PP!Sent, PP!Recorded, PP!InStream
  <2>2. CASE PublisherSide
    <3>1. PP!Next /\ PP!OutboxInv /\ PP!OutboxInv' /\ UNCHANGED effects /\ UNCHANGED processed
      BY <2>2, SamePublisher DEF PublisherSide, BackboneInv, consumerVars
    <3>2. PP!Sent' = PP!Sent \/ \E k \in Keys : PP!Sent' = PP!Sent \cup {k}
      BY <3>1, PP!SendsOne, BackboneAssumption DEF P!PublisherAssumption
    <3>3. SentHere' = SentHere \/ \E k \in Keys : SentHere' = SentHere \cup {k}
      BY <2>1, <3>2
    <3> QED
      BY <3>1, <3>3 DEF Contract!Next, Contract!Send, Contract!vars
  <2>3. CASE ConsumerSide
    <3>1. /\ CP!ConsumerNext /\ CP!HandlerInv /\ UNCHANGED eventLog
          /\ PP!OutboxInv
      BY <2>3, SameConsumer DEF ConsumerSide, BackboneInv, CP!RunInv, publisherVars
    <3>2. /\ UNCHANGED stream
          /\ \/ UNCHANGED effects /\ UNCHANGED processed
             \/ \E g \in Groups, k \in Keys :
                   /\ k \in Wants[g] /\ \E i \in DOMAIN stream : stream[i] = k
                   /\ effects' = [effects EXCEPT ![g][k] = @ + 1]
                   /\ UNCHANGED processed
             \/ \E g \in Groups, k \in Keys :
                   /\ effects[g][k] > 0
                   /\ processed' = [processed EXCEPT ![g] = @ \cup {k}]
                   /\ UNCHANGED effects
      BY <3>1, CP!RunsAndRecords, BackboneAssumption DEF C!ConsumerAssumption
    <3>3. SentHere' = SentHere
      BY <3>1, <3>2
    <3>4. CASE UNCHANGED effects /\ UNCHANGED processed
      BY <3>3, <3>4 DEF Contract!vars
    <3>5. ASSUME NEW g \in Groups, NEW k \in Keys, k \in Wants[g],
                 \E i \in DOMAIN stream : stream[i] = k,
                 effects' = [effects EXCEPT ![g][k] = @ + 1], UNCHANGED processed
          PROVE  Contract!Next
      <4>1. eventLog[k].status # "absent"
        BY <3>1, <3>5 DEF PP!OutboxInv, PP!StreamFollowsLog, PP!InStream
      <4>2. k \in SentHere
        BY <3>5, <4>1
      <4>3. Contract!Run(g, k)
        BY <3>3, <3>5, <4>2 DEF Contract!Run
      <4> QED
        BY <4>3 DEF Contract!Next
    <3>6. ASSUME NEW g \in Groups, NEW k \in Keys, effects[g][k] > 0,
                 processed' = [processed EXCEPT ![g] = @ \cup {k}], UNCHANGED effects
          PROVE  Contract!Next
      <4>1. Contract!Record(g, k)
        BY <3>3, <3>6 DEF Contract!Record
      <4> QED
        BY <4>1 DEF Contract!Next
    <3> QED
      BY <3>2, <3>4, <3>5, <3>6
  <2>4. CASE UNCHANGED vars
    BY <2>4 DEF vars, publisherVars, consumerVars, Contract!vars
  <2> QED
    BY <2>2, <2>3, <2>4 DEF Next
<1> QED
  BY <1>1, <1>2, BackboneCorrect, PTL DEF Spec, ContractSpec, Contract!Spec

=============================================================================
