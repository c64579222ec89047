------------------------ MODULE WorkflowEngineProofs ------------------------
(***************************************************************************)
(* Type correctness and safety of WorkflowEngine, for any goroutines,      *)
(* workflows, chains, mentions, cap and number of faults.                  *)
(***************************************************************************)
EXTENDS WorkflowEngine, FiniteSetTheorems, WellFoundedInduction, TLAPS

-----------------------------------------------------------------------------
(* Type correctness *)

\* A set of workflows that is not empty has a first one.
LEMMA FirstWorkflow ==
    ASSUME NEW S \in SUBSET Workflows, S # {}
    PROVE  Min(S) \in S
<1> DEFINE R == OpToRel(<, Nat)
<1>0. S \subseteq Nat
  BY EngineAssumption
<1>1. IsWellFoundedOn(R, Nat)
  BY NatLessThanWellFounded
<1>2. \A m, n \in Nat : n < m => <<n, m>> \in R
  BY DEF OpToRel
<1> HIDE DEF R
<1>3. PICK m \in S : \A n \in S : <<n, m>> \notin R
  BY <1>0, <1>1, WFMin
<1>4. \A n \in S : m <= n
  <2> SUFFICES ASSUME NEW n \in S PROVE m <= n
    OBVIOUS
  <2>1. n \in Nat /\ m \in Nat
    BY <1>0
  <2>2. ~(n < m)
    BY <1>2, <1>3, <2>1
  <2> QED
    BY <2>1, <2>2
<1> QED
  BY <1>4 DEF Min

Working(r) == thread[r].pc \notin {"idle", "list", "return"}

\* What a goroutine knows of its place: the row it has created is the one of
\* its workflow and mention, and its outcomes keep up with the chain.
ThreadOK(r) ==
    /\ thread[r] \in ThreadState
    /\ Busy(r) => Mention(r) \in Mentions
    /\ Working(r) => thread[r].todo # {}
    /\ thread[r].pc \in {"has", "count", "create"} => thread[r].steps = <<>>
    /\ HasRow(r) =>
          /\ thread[r].row \in DOMAIN executions
          /\ executions[thread[r].row].workflow = Current(r)
          /\ executions[thread[r].row].mention = Mention(r)
          /\ IF thread[r].pc = "finish"
             THEN Len(thread[r].steps) = Len(Chain[Current(r)])
             ELSE Len(thread[r].steps) < Len(Chain[Current(r)])

TypeInv == TypeOK /\ \A r \in Runners : ThreadOK(r)

LEMMA CurrentType ==
    ASSUME TypeOK, NEW r \in Runners, Working(r)
    PROVE  /\ Current(r) \in thread[r].todo
           /\ Current(r) \in Workflows
           /\ Mention(r) \in Mentions
           /\ Len(Chain[Current(r)]) \in Nat \ {0}
<1>1. thread[r].todo \in SUBSET Workflows /\ thread[r].todo # {}
  BY DEF TypeOK, ThreadState, Working
<1>2. Current(r) \in thread[r].todo
  BY <1>1, FirstWorkflow DEF Current
<1>3. Mention(r) \in Mentions
  BY DEF TypeOK, Working, Busy
<1>4. Chain[Current(r)] \in Seq(LeadKind \cup PlainKind) /\ Chain[Current(r)] # <<>>
  BY <1>1, <1>2, EngineAssumption
<1>5. Len(Chain[Current(r)]) \in Nat \ {0}
  BY <1>4
<1> QED
  BY <1>1, <1>2, <1>3, <1>5

\* The rows there are keep their place, workflow and mention.
RowsKept ==
    /\ DOMAIN executions \subseteq DOMAIN executions'
    /\ \A i \in DOMAIN executions :
          /\ executions'[i].workflow = executions[i].workflow
          /\ executions'[i].mention = executions[i].mention

\* A goroutine that stays where it is stays well placed.
LEMMA StaysOK ==
    ASSUME RowsKept, NEW q, thread'[q] = thread[q], ThreadOK(q)
    PROVE  ThreadOK(q)'
BY DEF RowsKept, ThreadOK, Busy, Mention, Working, HasRow, Current

\* The rest of TypeOK, without thread.
TablesOK ==
    /\ executions \in Seq(Execution)
    /\ hourStart \in 0..Len(executions)
    /\ leads \in [Mentions -> Nat]
    /\ pending \subseteq requested /\ requested \subseteq Mentions
    /\ qualified \in [Mentions -> Nat] /\ overlapped \subseteq Mentions
    /\ performed \subseteq Workflows \X Mentions \X (Nat \ {0})
    /\ repeated \subseteq performed
    /\ excused \subseteq Workflows \X Mentions
    /\ abandoned \subseteq DOMAIN executions
    /\ streams \in BOOLEAN /\ faults \in 0..MaxFaults

\* One goroutine moves and the others stay.
LEMMA OneMoves ==
    ASSUME TypeInv, RowsKept, TablesOK', NEW r \in Runners, NEW new,
           thread' = [thread EXCEPT ![r] = new], ThreadOK(r)'
    PROVE  TypeInv'
<1>1. thread' \in [Runners -> ThreadState]
  <2>1. thread'[r] \in ThreadState
    BY DEF ThreadOK
  <2> QED
    BY <2>1 DEF TypeInv, TypeOK
<1>2. ASSUME NEW q \in Runners PROVE ThreadOK(q)'
  <2>1. CASE q = r
    BY <2>1
  <2>2. CASE q # r
    <3>1. thread'[q] = thread[q]
      BY <2>2 DEF TypeInv, TypeOK
    <3> QED
      BY <3>1, StaysOK DEF TypeInv
  <2> QED
    BY <2>1, <2>2
<1>3. \A q \in Runners :
        /\ Busy(q)' => Mention(q)' \in Mentions
        /\ thread'[q].pc \notin {"idle", "list", "return"} => thread'[q].todo # {}
        /\ HasRow(q)' => thread'[q].row \in DOMAIN executions'
  BY <1>2 DEF ThreadOK, Working
<1> QED
  BY <1>1, <1>2, <1>3 DEF TypeInv, TypeOK, TablesOK

LEMMA GotoOK ==
    ASSUME TypeInv, RowsKept, TablesOK', NEW r \in Runners, NEW step \in Step, Goto(r, step),
           \/ thread[r].pc = "list" /\ step = "return"
           \/ thread[r].pc = "has" /\ step = "count"
           \/ thread[r].pc = "count" /\ step = "create"
           \/ thread[r].pc = "act" /\ step = "lead"
    PROVE  TypeInv'
<1> DEFINE new == [thread[r] EXCEPT !.pc = step]
<1>1. thread[r] \in ThreadState /\ new \in ThreadState
  BY DEF TypeInv, TypeOK, ThreadState
<1>2. thread' = [thread EXCEPT ![r] = new]
  BY DEF Goto
<1>3. thread'[r] = new
  BY <1>2 DEF TypeInv, TypeOK
<1>4. ThreadOK(r)'
  <2>1. ThreadOK(r)
    BY DEF TypeInv
  <2> QED
    BY <1>1, <1>3, <2>1
    DEF ThreadOK, RowsKept, ThreadState, Busy, Mention, Working, HasRow, Current
<1> QED
  BY <1>2, <1>4, OneMoves

LEMMA TurnToOK ==
    ASSUME TypeInv, RowsKept, TablesOK', NEW r \in Runners, Busy(r),
           NEW S \in SUBSET Workflows, TurnTo(r, S)
    PROVE  TypeInv'
<1> DEFINE new == [thread[r] EXCEPT !.pc = IF S = {} THEN "return" ELSE "has",
                                    !.todo = S, !.row = 0, !.steps = <<>>]
<1>1. thread[r] \in ThreadState /\ Mention(r) \in Mentions
  BY DEF TypeInv, TypeOK
<1>2. thread' = [thread EXCEPT ![r] = new]
  BY DEF TurnTo
<1>3. thread'[r] = new
  BY <1>2 DEF TypeInv, TypeOK
<1>4. /\ new \in ThreadState
      /\ new.mention = thread[r].mention /\ new.todo = S
      /\ new.pc = IF S = {} THEN "return" ELSE "has"
  <2> DEFINE next == IF S = {} THEN "return" ELSE "has"
  <2>1. next \in Step /\ <<>> \in Seq(StepStatus)
    BY DEF Step
  <2> HIDE DEF next
  <2>2. [thread[r] EXCEPT !.pc = next, !.todo = S, !.row = 0, !.steps = <<>>]
          \in ThreadState
    BY <1>1, <2>1 DEF ThreadState
  <2>3. /\ new = [thread[r] EXCEPT !.pc = next, !.todo = S, !.row = 0, !.steps = <<>>]
        /\ new.mention = thread[r].mention /\ new.todo = S /\ new.pc = next
    BY <1>1 DEF ThreadState, next
  <2> QED
    BY <2>2, <2>3 DEF next
<1>5. ThreadOK(r)'
  BY <1>1, <1>3, <1>4 DEF ThreadOK, Busy, Mention, Working, HasRow
<1> QED
  BY <1>2, <1>5, OneMoves

LEMMA RecordOK ==
    ASSUME TypeInv, RowsKept, TablesOK', NEW r \in Runners, thread[r].pc \in {"act", "lead"},
           NEW outcome \in StepStatus, Record(r, outcome)
    PROVE  TypeInv'
<1> DEFINE steps == Append(thread[r].steps, outcome)
           next == IF Len(steps) < Len(Chain[Current(r)]) THEN "act" ELSE "finish"
           new == [thread[r] EXCEPT !.steps = steps, !.pc = next]
<1>1. thread[r] \in ThreadState /\ ThreadOK(r) /\ Working(r)
  BY DEF TypeInv, TypeOK, Working
<1>2. thread' = [thread EXCEPT ![r] = new]
  BY DEF Record
<1>3. thread'[r] = new
  BY <1>2 DEF TypeInv, TypeOK
<1>4. /\ steps \in Seq(StepStatus) /\ Len(steps) = Len(thread[r].steps) + 1
      /\ Len(thread[r].steps) \in Nat
  BY <1>1 DEF ThreadState
<1>5. /\ new \in ThreadState
      /\ new.mention = thread[r].mention /\ new.todo = thread[r].todo
      /\ new.row = thread[r].row /\ new.steps = steps /\ new.pc = next
  BY <1>1, <1>4 DEF ThreadState, Step
<1>6. Len(thread[r].steps) < Len(Chain[Current(r)]) /\ Len(Chain[Current(r)]) \in Nat
  BY <1>1, CurrentType DEF TypeInv, ThreadOK, HasRow
<1>7. Current(r)' = Current(r) /\ Mention(r)' = Mention(r)
  BY <1>3, <1>5 DEF Current, Mention
<1>8. /\ thread[r].row \in DOMAIN executions'
      /\ executions'[thread[r].row].workflow = Current(r)
      /\ executions'[thread[r].row].mention = Mention(r)
  BY <1>1 DEF ThreadOK, HasRow, RowsKept
<1>9. thread[r].todo # {} /\ Mention(r) \in Mentions
  BY <1>1 DEF ThreadOK, Working, Busy
<1>10. ThreadOK(r)'
  <2>1. IF next = "finish" THEN Len(steps) = Len(Chain[Current(r)])
        ELSE Len(steps) < Len(Chain[Current(r)])
    BY <1>4, <1>6
  <2> QED
    BY <2>1, <1>3, <1>5, <1>7, <1>8, <1>9 DEF ThreadOK, Busy, Working, HasRow
<1> QED
  BY <1>2, <1>10, OneMoves

\* A step that leaves the table of executions alone keeps its rows.
LEMMA SameRows ==
    ASSUME executions' = executions
    PROVE  RowsKept
BY DEF RowsKept

\* So does one that adds a row,
LEMMA AddedRow ==
    ASSUME TypeOK, NEW row \in Execution, executions' = Append(executions, row)
    PROVE  /\ RowsKept
           /\ executions' \in Seq(Execution)
           /\ Len(executions') = Len(executions) + 1
           /\ executions'[Len(executions) + 1] = row
           /\ DOMAIN executions' = DOMAIN executions \cup {Len(executions) + 1}
           /\ \A i \in DOMAIN executions : executions'[i] = executions[i]
<1>1. executions \in Seq(Execution)
  BY DEF TypeOK
<1>2. /\ executions' \in Seq(Execution) /\ Len(executions') = Len(executions) + 1
      /\ Len(executions) \in Nat
  BY <1>1
<1>3. /\ executions'[Len(executions) + 1] = row
      /\ \A i \in DOMAIN executions : executions'[i] = executions[i]
  BY <1>1
<1>4. DOMAIN executions' = DOMAIN executions \cup {Len(executions) + 1}
  <2>1. DOMAIN executions = 1..Len(executions) /\ DOMAIN executions' = 1..(Len(executions) + 1)
    BY <1>1, <1>2
  <2> QED
    BY <1>2, <2>1
<1> QED
  BY <1>2, <1>3, <1>4 DEF RowsKept

\* and one that stores an outcome.
LEMMA StoredOutcome ==
    ASSUME TypeInv, NEW r \in Runners, thread[r].pc = "finish", StoreOutcome(r)
    PROVE  /\ RowsKept
           /\ executions' \in Seq(Execution)
           /\ Len(executions') = Len(executions)
           /\ DOMAIN executions' = DOMAIN executions
           /\ executions'[thread[r].row].status
                 = IF Failed(thread[r].steps) THEN "failed" ELSE "completed"
           /\ executions'[thread[r].row].steps = thread[r].steps
           /\ \A i \in DOMAIN executions : i # thread[r].row => executions'[i] = executions[i]
<1> DEFINE row == thread[r].row
           status == IF Failed(thread[r].steps) THEN "failed" ELSE "completed"
           new == [executions[row] EXCEPT !.status = status, !.steps = thread[r].steps]
<1>1. executions \in Seq(Execution) /\ row \in DOMAIN executions
      /\ thread[r].steps \in Seq(StepStatus)
  BY DEF TypeInv, TypeOK, HasRow, ThreadState
<1>2. status \in Status
  BY DEF Status
<1>3. executions[row] \in Execution
  BY <1>1
<1> HIDE DEF status
<1>4. /\ new \in Execution /\ new.workflow = executions[row].workflow
      /\ new.mention = executions[row].mention
      /\ new.status = status /\ new.steps = thread[r].steps
  BY <1>1, <1>2, <1>3 DEF Execution
<1>5. executions' = [executions EXCEPT ![row] = new]
  BY DEF StoreOutcome, status
<1> HIDE DEF new
<1>6. /\ executions' \in Seq(Execution) /\ Len(executions') = Len(executions)
      /\ DOMAIN executions' = DOMAIN executions
      /\ executions'[row] = new
      /\ \A i \in DOMAIN executions : i # row => executions'[i] = executions[i]
  BY <1>1, <1>4, <1>5
<1>7. RowsKept
  BY <1>4, <1>6 DEF RowsKept
<1> QED
  BY <1>4, <1>6, <1>7 DEF status

LEMMA InitType == Init => TypeInv
<1> SUFFICES ASSUME Init PROVE TypeInv
  OBVIOUS
<1>1. IdleThread \in ThreadState /\ IdleThread.pc = "idle"
  BY DEF IdleThread, ThreadState, Step
<1>2. \A r \in Runners : thread[r] = IdleThread
  BY DEF Init
<1>3. executions \in Seq(Execution) /\ Len(executions) = 0 /\ thread \in [Runners -> ThreadState]
  BY <1>1 DEF Init
<1> QED
  BY <1>1, <1>2, <1>3, EngineAssumption
  DEF Init, TypeInv, TypeOK, ThreadOK, Busy, Working, HasRow

\* Taking effect, and excusing.
LEMMA EffectsType ==
    ASSUME TypeInv, NEW r \in Runners, thread[r].pc \in {"act", "lead"}
    PROVE  /\ Perform(r) => /\ performed' \subseteq Workflows \X Mentions \X (Nat \ {0})
                            /\ repeated' \subseteq performed'
           /\ Complete(r) => \/ Record(r, "completed") /\ Perform(r)
                             \/ Record(r, "skipped") /\ UNCHANGED effects
<1>1. Current(r) \in Workflows /\ Mention(r) \in Mentions
  BY CurrentType DEF TypeInv, Working
<1>2. NextAction(r) \in Nat \ {0}
  <2>1. thread[r].steps \in Seq(StepStatus)
    BY DEF TypeInv, TypeOK, ThreadState
  <2> QED
    BY <2>1 DEF NextAction
<1>3. <<Current(r), Mention(r), NextAction(r)>> \in Workflows \X Mentions \X (Nat \ {0})
  BY <1>1, <1>2
<1>4. Perform(r) => performed' \subseteq Workflows \X Mentions \X (Nat \ {0})
  BY <1>3 DEF Perform, TypeInv, TypeOK
<1>5. Perform(r) => repeated' \subseteq performed'
  BY DEF Perform, TypeInv, TypeOK
<1> QED
  BY <1>4, <1>5 DEF Complete

LEMMA ExcuseType ==
    ASSUME TypeInv, NEW r \in Runners, Working(r), Excuse(r)
    PROVE  excused' \subseteq Workflows \X Mentions
BY CurrentType DEF TypeInv, TypeOK, Excuse

LEMMA AddLeadType ==
    ASSUME TypeInv, NEW m \in Mentions, AddLead(m)
    PROVE  leads' \in [Mentions -> Nat]
BY DEF TypeInv, TypeOK, AddLead

LEMMA FaultType == ASSUME TypeInv, Fault PROVE faults' \in 0..MaxFaults
BY EngineAssumption DEF Fault, TypeInv, TypeOK

LEMMA NextWorkflowOK ==
    ASSUME TypeInv, RowsKept, TablesOK', NEW r \in Runners, Working(r), NextWorkflow(r)
    PROVE  TypeInv'
<1>1. thread[r].todo \ {Current(r)} \in SUBSET Workflows /\ Busy(r)
  BY DEF TypeInv, TypeOK, ThreadState, Working, Busy
<1> QED
  BY <1>1, TurnToOK DEF NextWorkflow

\* A step of the environment moves no goroutine.
LEMMA NoneMoves ==
    ASSUME TypeInv, UNCHANGED <<executions, thread>>, TablesOK'
    PROVE  TypeInv'
<1>1. \A q \in Runners : ThreadOK(q)'
  BY SameRows, StaysOK DEF TypeInv
<1>2. TypeOK'
  BY DEF TypeInv, TypeOK, TablesOK, Busy, Mention, HasRow
<1> QED
  BY <1>1, <1>2 DEF TypeInv

LEMMA EnvironmentType ==
    ASSUME TypeInv, TimePasses \/ \E m \in Mentions : Request(m) \/ Qualify(m)
    PROVE  TypeInv'
<1>1. ASSUME NEW m \in Mentions, Request(m) PROVE TypeInv'
  <2>1. faults' \in 0..MaxFaults
    BY <1>1, FaultType DEF Request, TypeInv, TypeOK
  <2>2. TablesOK'
    BY <1>1, <2>1 DEF Request, TypeInv, TypeOK, TablesOK, tables, history, effects
  <2> QED
    BY <1>1, <2>2, NoneMoves DEF Request, tables
<1>2. ASSUME NEW m \in Mentions, Qualify(m) PROVE TypeInv'
  <2>1. leads' \in [Mentions -> Nat] /\ qualified' \in [Mentions -> Nat]
        /\ faults' \in 0..MaxFaults
    <3>1. leads' \in [Mentions -> Nat]
      BY <1>2, AddLeadType DEF Qualify
    <3>2. qualified' \in [Mentions -> Nat]
      BY <1>2 DEF Qualify, TypeInv, TypeOK
    <3>3. faults' \in 0..MaxFaults
      BY <1>2, FaultType DEF Qualify, TypeInv, TypeOK
    <3> QED
      BY <3>1, <3>2, <3>3
  <2>2. TablesOK'
    BY <1>2, <2>1 DEF Qualify, TypeInv, TypeOK, TablesOK, history, effects
  <2> QED
    BY <1>2, <2>2, NoneMoves DEF Qualify
<1>3. CASE TimePasses
  <2>1. hourStart' \in 0..Len(executions)'
    BY <1>3 DEF TimePasses, TypeInv, TypeOK, tables
  <2>2. TablesOK'
    BY <1>3, <2>1 DEF TimePasses, TypeInv, TypeOK, TablesOK, tables, requests, history, effects
  <2> QED
    BY <1>3, <2>2, NoneMoves DEF TimePasses, tables
<1> QED
  BY <1>1, <1>2, <1>3

\* Engine.Run: taking a request, listing the workflows, returning.
LEMMA RunType ==
    ASSUME TypeInv, NEW r \in Runners,
           \/ \E m \in Mentions : Start(r, m)
           \/ ListWorkflows(r) \/ ListWorkflowsFails(r) \/ Return(r)
    PROVE  TypeInv'
<1>1. CASE \E m \in Mentions : Start(r, m)
  <2>1. PICK m \in Mentions : Start(r, m)
    BY <1>1
  <2>2. executions' = executions /\ RowsKept
    BY <2>1, SameRows DEF Start, tables
  <2>3. TablesOK'
    BY <2>1 DEF Start, TypeInv, TypeOK, TablesOK, tables, history, effects
  <2> DEFINE new == [IdleThread EXCEPT !.pc = "list", !.mention = m]
  <2>4. /\ new \in ThreadState /\ new.pc = "list" /\ new.mention = m
    <3>1. IdleThread \in ThreadState
      BY DEF IdleThread, ThreadState, Step
    <3>2. "list" \in Step
      BY DEF Step
    <3> QED
      BY <3>1, <3>2 DEF ThreadState
  <2>5. thread' = [thread EXCEPT ![r] = new] /\ thread'[r] = new
    BY <2>1 DEF Start, TypeInv, TypeOK
  <2>6. ThreadOK(r)'
    BY <2>4, <2>5 DEF ThreadOK, Busy, Mention, Working, HasRow
  <2> QED
    BY <2>2, <2>3, <2>5, <2>6, OneMoves
<1>2. CASE ListWorkflows(r)
  <2>1. TablesOK' /\ RowsKept
    BY <1>2, SameRows
    DEF ListWorkflows, TypeInv, TypeOK, TablesOK, tables, requests, history, effects
  <2>2. Matching(Mention(r)) \in SUBSET Workflows /\ Busy(r)
    BY <1>2 DEF Matching, ListWorkflows, Busy
  <2> QED
    BY <1>2, <2>1, <2>2, TurnToOK DEF ListWorkflows
<1>3. CASE ListWorkflowsFails(r)
  <2>1. Mention(r) \in Mentions
    BY <1>3 DEF ListWorkflowsFails, TypeInv, TypeOK, Busy
  <2>2. excused' \subseteq Workflows \X Mentions
    <3>1. Matching(Mention(r)) \subseteq Workflows
      BY DEF Matching
    <3>2. {<<w, Mention(r)>> : w \in Matching(Mention(r))} \subseteq Workflows \X Mentions
      BY <2>1, <3>1
    <3> QED
      BY <1>3, <3>2 DEF ListWorkflowsFails, TypeInv, TypeOK
  <2>3. faults' \in 0..MaxFaults
    BY <1>3, EngineAssumption DEF ListWorkflowsFails, Fault, TypeInv, TypeOK
  <2>4. TablesOK' /\ RowsKept
    BY <1>3, <2>2, <2>3, SameRows
    DEF ListWorkflowsFails, TypeInv, TypeOK, TablesOK, tables, requests, effects
  <2> QED
    BY <1>3, <2>4, GotoOK DEF ListWorkflowsFails, Step
<1>4. CASE Return(r)
  <2>1. TablesOK' /\ RowsKept
    BY <1>4, SameRows DEF Return, TypeInv, TypeOK, TablesOK, tables, history, effects
  <2>2. thread' = [thread EXCEPT ![r] = IdleThread] /\ thread'[r] = IdleThread
    BY <1>4 DEF Return, TypeInv, TypeOK
  <2>3. IdleThread \in ThreadState /\ IdleThread.pc = "idle"
    BY DEF IdleThread, ThreadState, Step
  <2>4. ThreadOK(r)'
    BY <2>2, <2>3 DEF ThreadOK, Busy, Mention, Working, HasRow
  <2> QED
    BY <2>1, <2>2, <2>4, OneMoves
<1> QED
  BY <1>1, <1>2, <1>3, <1>4

\* The checks of runOne.
LEMMA CheckType ==
    ASSUME TypeInv, NEW r \in Runners,
           HasExecution(r) \/ CountExecutions(r) \/ CheckFails(r)
    PROVE  TypeInv'
<1>1. Working(r) /\ executions' = executions /\ RowsKept
  BY SameRows DEF HasExecution, CountExecutions, CheckFails, Working, tables
<1>2. CASE HasExecution(r)
  <2>1. TablesOK'
    BY <1>2 DEF HasExecution, TypeInv, TypeOK, TablesOK, tables, requests, history, effects
  <2> QED
    BY <1>1, <1>2, <2>1, NextWorkflowOK, GotoOK DEF HasExecution, Step
<1>3. CASE CountExecutions(r)
  <2>1. excused' \subseteq Workflows \X Mentions
    BY <1>1, <1>3, ExcuseType DEF CountExecutions, TypeInv, TypeOK
  <2>2. TablesOK'
    BY <1>3, <2>1 DEF CountExecutions, TypeInv, TypeOK, TablesOK, tables, requests, effects
  <2>3. NextWorkflow(r) \/ Goto(r, "create")
    BY <1>3 DEF CountExecutions
  <2>4. thread[r].pc = "count"
    BY <1>3 DEF CountExecutions
  <2> QED
    BY <1>1, <2>2, <2>3, <2>4, NextWorkflowOK, GotoOK DEF Step
<1>4. CASE CheckFails(r)
  <2>1. excused' \subseteq Workflows \X Mentions /\ faults' \in 0..MaxFaults
    BY <1>1, <1>4, ExcuseType, FaultType DEF CheckFails
  <2>2. TablesOK'
    BY <1>4, <2>1 DEF CheckFails, TypeInv, TypeOK, TablesOK, tables, requests, effects
  <2> QED
    BY <1>1, <1>4, <2>2, NextWorkflowOK DEF CheckFails
<1> QED
  BY <1>2, <1>3, <1>4

LEMMA NewRowType ==
    ASSUME TypeInv, NEW r \in Runners, Working(r)
    PROVE  /\ NewRow(r) \in Execution
           /\ NewRow(r).workflow = Current(r) /\ NewRow(r).mention = Mention(r)
           /\ NewRow(r).status = "running" /\ NewRow(r).steps = <<>>
<1>1. Current(r) \in Workflows /\ Mention(r) \in Mentions
  BY CurrentType DEF TypeInv
<1>2. "running" \in Status /\ <<>> \in Seq(StepStatus)
  BY DEF Status
<1> QED
  BY <1>1, <1>2 DEF NewRow, Execution

\* The creation of an execution.
LEMMA CreateType ==
    ASSUME TypeInv, NEW r \in Runners, CreateExecution(r) \/ CreateExecutionFails(r)
    PROVE  TypeInv'
<1>1. Working(r) /\ thread[r].pc = "create"
  BY DEF CreateExecution, CreateExecutionFails, Working
<1>2. NewRow(r) \in Execution /\ Len(executions) \in Nat
  BY <1>1, NewRowType DEF TypeInv, TypeOK
<1>3. ASSUME executions' = Append(executions, NewRow(r)), hourStart' = hourStart
      PROVE  /\ RowsKept /\ executions' \in Seq(Execution)
             /\ hourStart' \in 0..Len(executions)'
             /\ DOMAIN executions' = DOMAIN executions \cup {Len(executions) + 1}
             /\ executions'[Len(executions) + 1] = NewRow(r)
  <2>1. /\ RowsKept /\ executions' \in Seq(Execution)
        /\ Len(executions') = Len(executions) + 1
        /\ DOMAIN executions' = DOMAIN executions \cup {Len(executions) + 1}
        /\ executions'[Len(executions) + 1] = NewRow(r)
    BY <1>2, <1>3, AddedRow DEF TypeInv
  <2>2. hourStart' \in 0..Len(executions)'
    BY <1>2, <1>3, <2>1 DEF TypeInv, TypeOK
  <2> QED
    BY <2>1, <2>2
<1>4. CASE CreateExecution(r)
  <2>1. executions' = Append(executions, NewRow(r)) /\ hourStart' = hourStart
    BY <1>4 DEF CreateExecution
  <2>2. TablesOK'
    BY <1>3, <1>4, <2>1
    DEF CreateExecution, TypeInv, TypeOK, TablesOK, requests, history, effects
  <2> DEFINE new == [thread[r] EXCEPT !.pc = "act", !.row = Len(executions) + 1]
  <2>3. thread[r] \in ThreadState /\ ThreadOK(r)
    BY DEF TypeInv, TypeOK
  <2>4. /\ new \in ThreadState /\ new.pc = "act" /\ new.row = Len(executions) + 1
        /\ new.mention = thread[r].mention /\ new.todo = thread[r].todo
        /\ new.steps = thread[r].steps
    <3>1. "act" \in Step /\ Len(executions) + 1 \in Nat
      BY <1>2 DEF Step
    <3> QED
      BY <2>3, <3>1 DEF ThreadState
  <2>5. thread' = [thread EXCEPT ![r] = new] /\ thread'[r] = new
    BY <1>4 DEF CreateExecution, TypeInv, TypeOK
  <2>6. Current(r)' = Current(r) /\ Mention(r)' = Mention(r)
    BY <2>4, <2>5 DEF Current, Mention
  <2>7. /\ executions'[new.row].workflow = Current(r)
        /\ executions'[new.row].mention = Mention(r)
        /\ new.row \in DOMAIN executions'
    BY <1>1, <1>3, <2>1, <2>4, NewRowType
  <2>8. Len(new.steps) < Len(Chain[Current(r)])
    <3>1. new.steps = <<>> /\ Len(Chain[Current(r)]) \in Nat \ {0}
      BY <1>1, <2>3, <2>4, CurrentType DEF TypeInv, ThreadOK
    <3> QED
      BY <3>1
  <2>9. thread[r].todo # {} /\ Mention(r) \in Mentions
    BY <1>1, <2>3 DEF ThreadOK, Working, Busy
  <2>10. ThreadOK(r)'
    BY <2>4, <2>5, <2>6, <2>7, <2>8, <2>9 DEF ThreadOK, Busy, Working, HasRow
  <2> QED
    BY <1>3, <2>1, <2>2, <2>5, <2>10, OneMoves
<1>5. CASE CreateExecutionFails(r)
  <2>1. CASE executions' = executions /\ abandoned' = abandoned /\ Excuse(r)
    <3>1. TablesOK'
      BY <1>1, <1>5, <2>1, ExcuseType, FaultType
      DEF CreateExecutionFails, TypeInv, TypeOK, TablesOK, requests, effects
    <3> QED
      BY <1>1, <1>5, <2>1, <3>1, SameRows, NextWorkflowOK DEF CreateExecutionFails
  <2>2. CASE /\ executions' = Append(executions, NewRow(r))
             /\ abandoned' = abandoned \cup {Len(executions) + 1} /\ excused' = excused
    <3>1. hourStart' = hourStart
      BY <1>5 DEF CreateExecutionFails
    <3>2. TablesOK'
      BY <1>3, <1>5, <2>2, <3>1, FaultType
      DEF CreateExecutionFails, TypeInv, TypeOK, TablesOK, requests, effects
    <3> QED
      BY <1>1, <1>3, <1>5, <2>2, <3>1, <3>2, NextWorkflowOK DEF CreateExecutionFails
  <2> QED
    BY <1>5, <2>1, <2>2 DEF CreateExecutionFails
<1> QED
  BY <1>4, <1>5

\* The actions of the chain.
LEMMA ActionType ==
    ASSUME TypeInv, NEW r \in Runners,
           PlainAction(r) \/ FindLead(r) \/ CreateLead(r) \/ ActionFails(r)
    PROVE  TypeInv'
<1>1. /\ thread[r].pc \in {"act", "lead"} /\ executions' = executions /\ RowsKept
      /\ Mention(r) \in Mentions
  <2>1. thread[r].pc \in {"act", "lead"} /\ executions' = executions
    BY DEF PlainAction, FindLead, CreateLead, ActionFails, tables
  <2> QED
    BY <2>1, SameRows, CurrentType DEF TypeInv, Working
<1>2. /\ hourStart' = hourStart /\ UNCHANGED <<requests, excused, abandoned>>
      /\ leads' = leads \/ AddLead(Mention(r))
      /\ faults' = faults \/ Fault
      /\ UNCHANGED effects \/ Perform(r)
  BY EffectsType, <1>1 DEF PlainAction, FindLead, CreateLead, ActionFails, tables
<1>3. leads' \in [Mentions -> Nat] /\ faults' \in 0..MaxFaults
  BY <1>1, <1>2, AddLeadType, FaultType DEF TypeInv, TypeOK
<1>4. /\ performed' \subseteq Workflows \X Mentions \X (Nat \ {0})
      /\ repeated' \subseteq performed'
  <2>1. CASE Perform(r)
    BY <1>1, <2>1, EffectsType
  <2>2. CASE UNCHANGED effects
    BY <2>2 DEF effects, TypeInv, TypeOK
  <2> QED
    BY <1>2, <2>1, <2>2
<1>5. TablesOK'
  BY <1>1, <1>2, <1>3, <1>4 DEF TypeInv, TypeOK, TablesOK, requests
<1>6. \/ \E outcome \in StepStatus : Record(r, outcome)
      \/ thread[r].pc = "act" /\ Goto(r, "lead")
  BY <1>1, EffectsType DEF PlainAction, FindLead, CreateLead, ActionFails, StepStatus
<1> QED
  BY <1>1, <1>5, <1>6, RecordOK, GotoOK DEF Step

\* The end of an execution.
LEMMA FinishType ==
    ASSUME TypeInv, NEW r \in Runners, Finish(r) \/ FinishFails(r)
    PROVE  TypeInv'
<1>1. /\ thread[r].pc = "finish" /\ Working(r) /\ NextWorkflow(r)
      /\ executions' = executions \/ StoreOutcome(r)
      /\ UNCHANGED <<leads, hourStart, requests, effects, excused>>
      /\ faults' = faults \/ Fault
      /\ abandoned' = abandoned \/ abandoned' = abandoned \cup {thread[r].row}
  BY DEF Finish, FinishFails, Working, history
<1>2. /\ RowsKept /\ executions' \in Seq(Execution) /\ Len(executions') = Len(executions)
      /\ DOMAIN executions' = DOMAIN executions
  <2>1. CASE executions' = executions
    BY <2>1, SameRows DEF TypeInv, TypeOK
  <2>2. CASE StoreOutcome(r)
    BY <1>1, <2>2, StoredOutcome
  <2> QED
    BY <1>1, <2>1, <2>2
<1>3. thread[r].row \in DOMAIN executions
  BY <1>1 DEF TypeInv, TypeOK, HasRow
<1>4. hourStart' \in 0..Len(executions)' /\ faults' \in 0..MaxFaults
  BY <1>1, <1>2, FaultType DEF TypeInv, TypeOK
<1>5. abandoned' \subseteq DOMAIN executions'
  BY <1>1, <1>2, <1>3 DEF TypeInv, TypeOK
<1>6. TablesOK'
  BY <1>1, <1>2, <1>4, <1>5 DEF TypeInv, TypeOK, TablesOK, requests, effects
<1> QED
  BY <1>1, <1>2, <1>6, NextWorkflowOK

\* The death of a process.
LEMMA CrashType ==
    ASSUME TypeInv, NEW S \in SUBSET Runners, Crash(S)
    PROVE  TypeInv'
<1>1. executions' = executions /\ hourStart' = hourStart /\ RowsKept
  BY SameRows DEF Crash, tables
<1>2. abandoned' \subseteq DOMAIN executions
  BY DEF Crash, TypeInv, TypeOK
<1>3. excused' \subseteq Workflows \X Mentions
  <2>1. \A r \in S : Matching(Mention(r)) \X {Mention(r)} \subseteq Workflows \X Mentions
    <3> SUFFICES ASSUME NEW r \in S
                 PROVE  Matching(Mention(r)) \X {Mention(r)} \subseteq Workflows \X Mentions
      OBVIOUS
    <3>1. Mention(r) \in Mentions
      BY DEF Crash, TypeInv, TypeOK
    <3>2. Matching(Mention(r)) \subseteq Workflows
      BY DEF Matching
    <3> QED
      BY <3>1, <3>2
  <2>2. UNION {Matching(Mention(r)) \X {Mention(r)} : r \in S} \subseteq Workflows \X Mentions
    BY <2>1, Zenon
  <2> QED
    BY <2>2 DEF Crash, TypeInv, TypeOK
<1>4. TablesOK'
  BY <1>1, <1>2, <1>3, FaultType
  DEF Crash, TypeInv, TypeOK, TablesOK, tables, requests, effects
<1>5. IdleThread \in ThreadState /\ IdleThread.pc = "idle"
  BY DEF IdleThread, ThreadState, Step
<1>6. /\ thread' \in [Runners -> ThreadState]
      /\ \A q \in Runners : thread'[q] = IdleThread \/ thread'[q] = thread[q]
  BY <1>5 DEF Crash, TypeInv, TypeOK
<1>7. ASSUME NEW q \in Runners PROVE ThreadOK(q)'
  <2>1. CASE thread'[q] = thread[q]
    BY <1>1, <2>1, StaysOK DEF TypeInv
  <2>2. CASE thread'[q] = IdleThread
    BY <1>5, <2>2 DEF ThreadOK, Busy, Working, HasRow
  <2> QED
    BY <1>6, <2>1, <2>2
<1>8. TypeOK'
  BY <1>4, <1>6, <1>7 DEF TypeOK, TablesOK, ThreadOK, Working
<1> QED
  BY <1>7, <1>8 DEF TypeInv

LEMMA NextType == TypeInv /\ [Next]_vars => TypeInv'
<1> SUFFICES ASSUME TypeInv, [Next]_vars PROVE TypeInv'
  OBVIOUS
<1>1. CASE UNCHANGED vars
  <2>1. TablesOK'
    BY <1>1 DEF vars, tables, requests, history, effects, TypeInv, TypeOK, TablesOK
  <2> QED
    BY <1>1, <2>1, NoneMoves DEF vars, tables
<1>2. CASE TimePasses \/ \E m \in Mentions : Request(m) \/ Qualify(m)
  BY <1>2, EnvironmentType
<1>3. CASE \E r \in Runners, m \in Mentions : Start(r, m)
  BY <1>3, RunType
<1>4. ASSUME NEW r \in Runners, RunnerStep(r) \/ FaultyStep(r) PROVE TypeInv'
  BY <1>4, RunType, CheckType, CreateType, ActionType, FinishType DEF RunnerStep, FaultyStep
<1>5. CASE \E S \in SUBSET Runners \ {{}} : Crash(S)
  BY <1>5, CrashType
<1> QED
  BY <1>1, <1>2, <1>3, <1>4, <1>5 DEF Next

\* The workflow engine is type-correct: in particular a goroutine that has an
\* execution in hand has a workflow left and a row that exists.
THEOREM TypeCorrect == Spec => []TypeOK
<1>1. TypeInv => TypeOK
  BY DEF TypeInv
<1> QED
  BY <1>1, InitType, NextType, PTL DEF Spec

-----------------------------------------------------------------------------
(* What a step leaves alone *)

\* A goroutine goes from one state to the next, and stays with its mention
\* until it is idle.
LEMMA MovesAlone ==
    ASSUME TypeInv, NEW r \in Runners, RunnerStep(r) \/ FaultyStep(r)
    PROVE  /\ Busy(r)
           /\ \A q \in Runners : q # r => thread'[q] = thread[q]
           /\ thread'[r].pc # "idle" => thread'[r].mention = thread[r].mention
           /\ thread' \in [Runners -> ThreadState]
           /\ UNCHANGED <<hourStart, overlapped, qualified>>
<1>1. thread \in [Runners -> ThreadState] /\ TypeInv'
  <2>1. Next
    BY DEF Next
  <2> QED
    BY <2>1, NextType DEF TypeInv, TypeOK
<1>2. /\ Busy(r) /\ UNCHANGED <<hourStart, overlapped, qualified>>
  BY DEF Busy, RunnerStep, FaultyStep, ListWorkflows, ListWorkflowsFails, HasExecution,
         CountExecutions, CheckFails, CreateExecution, CreateExecutionFails, PlainAction,
         FindLead, CreateLead, ActionFails, Finish, FinishFails, Return, requests
<1> DEFINE Alone == /\ \A q \in Runners : q # r => thread'[q] = thread[q]
                    /\ thread'[r].pc # "idle" => thread'[r].mention = thread[r].mention
<1>3. thread[r] \in ThreadState
  BY <1>1
<1>4. ASSUME NEW S, TurnTo(r, S) PROVE Alone
  BY <1>1, <1>3, <1>4 DEF TurnTo, ThreadState
<1>5. ASSUME NEW step, Goto(r, step) PROVE Alone
  BY <1>1, <1>3, <1>5 DEF Goto, ThreadState
<1>6. ASSUME NEW outcome, Record(r, outcome) PROVE Alone
  <2> DEFINE next == IF Len(Append(thread[r].steps, outcome)) < Len(Chain[Current(r)])
                     THEN "act" ELSE "finish"
             new == [thread[r] EXCEPT !.steps = Append(thread[r].steps, outcome), !.pc = next]
  <2>1. thread' = [thread EXCEPT ![r] = new]
    BY <1>6 DEF Record
  <2> HIDE DEF next
  <2>2. new.mention = thread[r].mention
    BY <1>3 DEF ThreadState
  <2> HIDE DEF new
  <2> QED
    BY <1>1, <2>1, <2>2
<1>7. CreateExecution(r) => Alone
  BY <1>1, <1>3 DEF CreateExecution, ThreadState
<1>8. Return(r) => Alone
  BY <1>1 DEF Return, IdleThread
<1> HIDE DEF Alone
<1>9. NextWorkflow(r) => Alone
  BY <1>4 DEF NextWorkflow
<1>10. Complete(r) => Alone
  BY <1>6 DEF Complete
<1>11. Alone
  BY <1>4, <1>5, <1>6, <1>7, <1>8, <1>9, <1>10
  DEF RunnerStep, FaultyStep, ListWorkflows, ListWorkflowsFails, HasExecution,
      CountExecutions, CheckFails, CreateExecutionFails, PlainAction, FindLead,
      CreateLead, ActionFails, Finish, FinishFails
<1> QED
  BY <1>1, <1>2, <1>11 DEF Alone, TypeInv, TypeOK

\* Where a goroutine gets to, and from where.
LEMMA WhereTo ==
    ASSUME TypeInv, NEW r \in Runners, RunnerStep(r) \/ FaultyStep(r)
    PROVE  /\ thread'[r].pc = "count" =>
                HasExecution(r) /\ Goto(r, "count") /\ Rows(Current(r), Mention(r)) = {}
           /\ thread'[r].pc = "create" =>
                /\ CountExecutions(r) /\ Goto(r, "create")
                /\ ~(Cardinality(Recent(Current(r))) >= Cap)
           /\ thread'[r].pc = "lead" =>
                FindLead(r) /\ Goto(r, "lead") /\ ~(leads[Mention(r)] > 0)
           /\ HasRow(r)' =>
                \/ CreateExecution(r)
                \/ thread[r].pc = "act" /\ Goto(r, "lead")
                \/ /\ thread[r].pc \in {"act", "lead"}
                   /\ \E outcome \in StepStatus : Record(r, outcome)
<1> DEFINE To(places) == thread'[r].pc \in places
<1>1. thread \in [Runners -> ThreadState] /\ thread[r] \in ThreadState
  BY DEF TypeInv, TypeOK
<1>2. ASSUME NEW S, TurnTo(r, S) PROVE To({"has", "return"})
  BY <1>1, <1>2 DEF TurnTo, ThreadState
<1>3. NextWorkflow(r) => To({"has", "return"})
  BY <1>2 DEF NextWorkflow
<1>4. ASSUME NEW step, Goto(r, step) PROVE thread'[r].pc = step
  BY <1>1, <1>4 DEF Goto, ThreadState
<1>5. ASSUME NEW outcome, Record(r, outcome) PROVE To({"act", "finish"})
  <2> DEFINE next == IF Len(Append(thread[r].steps, outcome)) < Len(Chain[Current(r)])
                     THEN "act" ELSE "finish"
             new == [thread[r] EXCEPT !.steps = Append(thread[r].steps, outcome), !.pc = next]
  <2>1. thread' = [thread EXCEPT ![r] = new]
    BY <1>5 DEF Record
  <2>2. next \in {"act", "finish"}
    OBVIOUS
  <2> HIDE DEF next
  <2>3. new.pc = next
    BY <1>1 DEF ThreadState
  <2> HIDE DEF new
  <2> QED
    BY <1>1, <2>1, <2>2, <2>3
<1>6. Complete(r) => \E outcome \in StepStatus : Record(r, outcome)
  BY DEF Complete, StepStatus
<1>7. CreateExecution(r) => To({"act"})
  BY <1>1 DEF CreateExecution, ThreadState
<1>8. Return(r) => To({"idle"})
  BY <1>1 DEF Return, IdleThread
<1>9. CASE ListWorkflows(r) \/ ListWorkflowsFails(r) \/ Return(r)
  BY <1>2, <1>4, <1>8, <1>9 DEF ListWorkflows, ListWorkflowsFails, HasRow
<1>10. CASE HasExecution(r) \/ CountExecutions(r) \/ CheckFails(r)
  <2>1. CASE HasExecution(r)
    <3>1. \/ NextWorkflow(r)
          \/ Goto(r, "count") /\ Rows(Current(r), Mention(r)) = {}
      BY <2>1 DEF HasExecution
    <3> QED
      BY <1>3, <1>4, <2>1, <3>1 DEF HasRow
  <2>2. CASE CountExecutions(r)
    <3>1. \/ NextWorkflow(r)
          \/ Goto(r, "create") /\ ~(Cardinality(Recent(Current(r))) >= Cap)
      BY <2>2 DEF CountExecutions
    <3> QED
      BY <1>3, <1>4, <2>2, <3>1 DEF HasRow
  <2>3. CASE CheckFails(r)
    BY <1>3, <2>3 DEF CheckFails, HasRow
  <2> QED
    BY <1>10, <2>1, <2>2, <2>3
<1>11. CASE CreateExecution(r) \/ CreateExecutionFails(r)
  BY <1>3, <1>7, <1>11 DEF CreateExecutionFails, HasRow
<1>12. CASE PlainAction(r) \/ FindLead(r) \/ CreateLead(r) \/ ActionFails(r)
  <2>1. \/ FindLead(r) /\ thread[r].pc = "act" /\ Goto(r, "lead") /\ ~(leads[Mention(r)] > 0)
        \/ /\ thread[r].pc \in {"act", "lead"}
           /\ \E outcome \in StepStatus : Record(r, outcome)
    BY <1>6, <1>12 DEF PlainAction, FindLead, CreateLead, ActionFails, StepStatus
  <2> QED
    BY <1>4, <1>5, <2>1
<1>13. CASE Finish(r) \/ FinishFails(r)
  BY <1>3, <1>13 DEF Finish, FinishFails, HasRow
<1> QED
  BY <1>9, <1>10, <1>11, <1>12, <1>13 DEF RunnerStep, FaultyStep

\* What a goroutine does to the tables, and to the history of effects.
LEMMA WhatChanges ==
    ASSUME TypeInv, NEW r \in Runners, RunnerStep(r) \/ FaultyStep(r)
    PROVE  /\ \/ executions' = executions
              \/ thread[r].pc = "finish" /\ StoreOutcome(r)
              \/ thread[r].pc = "create" /\ executions' = Append(executions, NewRow(r))
           /\ \/ UNCHANGED effects
              \/ /\ thread[r].pc \in {"act", "lead"} /\ Perform(r)
                 /\ \E outcome \in StepStatus : Record(r, outcome)
           /\ \/ leads' = leads
              \/ /\ thread[r].pc = "lead" /\ AddLead(Mention(r))
                 /\ \E outcome \in StepStatus : Record(r, outcome)
<1>1. Complete(r) => /\ \E outcome \in StepStatus : Record(r, outcome)
                     /\ UNCHANGED effects \/ Perform(r)
  BY DEF Complete, StepStatus
<1>2. CASE \/ ListWorkflows(r) \/ ListWorkflowsFails(r) \/ Return(r) \/ HasExecution(r)
           \/ CountExecutions(r) \/ CheckFails(r)
  BY <1>2 DEF ListWorkflows, ListWorkflowsFails, Return, HasExecution, CountExecutions,
              CheckFails, tables, history
<1>3. CASE CreateExecution(r) \/ CreateExecutionFails(r)
  BY <1>3 DEF CreateExecution, CreateExecutionFails, history
<1>4. CASE PlainAction(r) \/ FindLead(r) \/ CreateLead(r) \/ ActionFails(r)
  BY <1>1, <1>4 DEF PlainAction, FindLead, CreateLead, ActionFails, tables, history, StepStatus
<1>5. CASE Finish(r) \/ FinishFails(r)
  BY <1>5 DEF Finish, FinishFails, history
<1> QED
  BY <1>2, <1>3, <1>4, <1>5 DEF RunnerStep, FaultyStep

-----------------------------------------------------------------------------
(* The hourly cap *)

Creating(w) == {r \in Runners : thread[r].pc = "create" /\ Current(r) = w}

\* The goroutines that have passed the count and not yet created their row
\* are counted with the rows of the last hour.
CapInv ==
    \A w \in Workflows :
        Cardinality(Recent(w)) + Cardinality(Creating(w)) + 1 <= Cap + Cardinality(Runners)

LEMMA CountedFinite ==
    ASSUME TypeOK, NEW w \in Workflows
    PROVE  /\ IsFiniteSet(Recent(w)) /\ Cardinality(Recent(w)) \in Nat
           /\ IsFiniteSet(Creating(w)) /\ Cardinality(Creating(w)) \in Nat
           /\ IsFiniteSet(Runners) /\ Cardinality(Runners) \in Nat
           /\ Cardinality(Creating(w)) <= Cardinality(Runners)
<1>1. Recent(w) \subseteq 1..Len(executions) /\ Len(executions) \in Nat
  BY DEF TypeOK, Recent
<1>2. IsFiniteSet(1..Len(executions))
  BY <1>1, FS_Interval
<1>3. IsFiniteSet(Recent(w)) /\ Cardinality(Recent(w)) \in Nat
  BY <1>1, <1>2, FS_Subset, FS_CardinalityType
<1>4. Creating(w) \subseteq Runners /\ IsFiniteSet(Runners)
  BY EngineAssumption DEF Creating
<1> QED
  BY <1>3, <1>4, FS_Subset, FS_CardinalityType

\* A step that adds neither to the rows nor to the goroutines keeps it.
LEMMA CapShrinks ==
    ASSUME TypeInv, CapInv,
           \A w \in Workflows : Recent(w)' \subseteq Recent(w) /\ Creating(w)' \subseteq Creating(w)
    PROVE  CapInv'
<1> SUFFICES ASSUME NEW w \in Workflows
             PROVE  Cardinality(Recent(w)') + Cardinality(Creating(w)') + 1
                      <= Cap + Cardinality(Runners)
  BY DEF CapInv
<1>1. /\ IsFiniteSet(Recent(w)) /\ Cardinality(Recent(w)) \in Nat
      /\ IsFiniteSet(Creating(w)) /\ Cardinality(Creating(w)) \in Nat
      /\ Cardinality(Runners) \in Nat
  BY CountedFinite DEF TypeInv
<1>2. /\ Cardinality(Recent(w)') <= Cardinality(Recent(w)) /\ Cardinality(Recent(w)') \in Nat
      /\ Cardinality(Creating(w)') <= Cardinality(Creating(w))
      /\ Cardinality(Creating(w)') \in Nat
  BY <1>1, FS_Subset, FS_CardinalityType
<1>3. Cardinality(Recent(w)) + Cardinality(Creating(w)) + 1 <= Cap + Cardinality(Runners)
  BY DEF CapInv
<1> QED
  BY <1>1, <1>2, <1>3, EngineAssumption

\* The rows of the last hour: none is added by storing an outcome, and a new
\* row is one of its own workflow.
LEMMA RecentRows ==
    ASSUME TypeInv, NEW w \in Workflows, hourStart' = hourStart
    PROVE  /\ executions' = executions => Recent(w)' = Recent(w)
           /\ \A r \in Runners : thread[r].pc = "finish" /\ StoreOutcome(r) =>
                 Recent(w)' \subseteq Recent(w)
           /\ \A r \in Runners : thread[r].pc = "create" /\ executions' = Append(executions, NewRow(r)) =>
                 Recent(w)' \subseteq Recent(w) \cup
                    (IF Current(r) = w THEN {Len(executions) + 1} ELSE {})
<1>1. executions' = executions => Recent(w)' = Recent(w)
  BY DEF Recent
<1>2. ASSUME NEW r \in Runners, thread[r].pc = "finish", StoreOutcome(r)
      PROVE  Recent(w)' \subseteq Recent(w)
  <2>1. DOMAIN executions' = DOMAIN executions /\ RowsKept
    BY <1>2, StoredOutcome
  <2> QED
    BY <2>1 DEF Recent, RowsKept
<1>3. ASSUME NEW r \in Runners, thread[r].pc = "create",
             executions' = Append(executions, NewRow(r))
      PROVE  Recent(w)' \subseteq Recent(w) \cup
                (IF Current(r) = w THEN {Len(executions) + 1} ELSE {})
  <2>1. NewRow(r) \in Execution /\ NewRow(r).workflow = Current(r)
    BY <1>3, NewRowType DEF Working
  <2>2. /\ executions'[Len(executions) + 1] = NewRow(r)
        /\ DOMAIN executions' = DOMAIN executions \cup {Len(executions) + 1}
        /\ RowsKept
    BY <1>3, <2>1, AddedRow DEF TypeInv
  <2> QED
    BY <2>1, <2>2 DEF Recent, RowsKept
<1> QED
  BY <1>1, <1>2, <1>3

\* A goroutine that passes the count finds room under the cap.
LEMMA CapCounted ==
    ASSUME TypeInv, CapInv, NEW r \in Runners, RunnerStep(r) \/ FaultyStep(r),
           thread'[r].pc = "create"
    PROVE  CapInv'
<1>1. CountExecutions(r) /\ Goto(r, "create") /\ ~(Cardinality(Recent(Current(r))) >= Cap)
  BY WhereTo
<1>2. executions' = executions /\ hourStart' = hourStart
  BY <1>1 DEF CountExecutions, tables
<1>3. TypeInv'
  BY <1>1, CheckType
<1>4. /\ \A q \in Runners : q # r => thread'[q] = thread[q]
      /\ Current(r)' = Current(r)
  BY <1>1 DEF Goto, TypeInv, TypeOK, ThreadState, Current
<1> SUFFICES ASSUME NEW w \in Workflows
             PROVE  Cardinality(Recent(w)') + Cardinality(Creating(w)') + 1
                      <= Cap + Cardinality(Runners)
  BY DEF CapInv
<1>5. Recent(w)' = Recent(w)
  BY <1>2 DEF Recent
<1>6. /\ Cardinality(Recent(w)) \in Nat /\ Cardinality(Creating(w)) \in Nat
      /\ IsFiniteSet(Creating(w)) /\ Cardinality(Runners) \in Nat
      /\ Cardinality(Recent(w)) + Cardinality(Creating(w)) + 1 <= Cap + Cardinality(Runners)
  BY CountedFinite DEF TypeInv, CapInv
<1>7. CASE w = Current(r)
  <2>1. Creating(w)' \subseteq Runners /\ IsFiniteSet(Runners)
    BY EngineAssumption DEF Creating
  <2>2. Cardinality(Creating(w)') <= Cardinality(Runners) /\ Cardinality(Creating(w)') \in Nat
    BY <2>1, FS_Subset, FS_CardinalityType
  <2> QED
    BY <1>1, <1>5, <1>6, <1>7, <2>2, EngineAssumption
<1>8. CASE w # Current(r)
  <2>1. Creating(w)' \subseteq Creating(w)
    BY <1>4, <1>8 DEF Creating, Current
  <2>2. Cardinality(Creating(w)') <= Cardinality(Creating(w)) /\ Cardinality(Creating(w)') \in Nat
    BY <1>6, <2>1, FS_Subset, FS_CardinalityType
  <2> QED
    BY <1>5, <1>6, <2>2, EngineAssumption
<1> QED
  BY <1>7, <1>8

\* A goroutine that creates its row is no longer about to.
LEMMA CapUsed ==
    ASSUME TypeInv, CapInv, NEW r \in Runners, RunnerStep(r) \/ FaultyStep(r),
           thread'[r].pc # "create"
    PROVE  CapInv'
<1>1. \A q \in Runners : q # r => thread'[q] = thread[q]
  BY MovesAlone
<1>2. \A w \in Workflows : Creating(w)' \subseteq Creating(w) \ {r}
  BY <1>1 DEF Creating, Current
<1>3. hourStart' = hourStart
  BY MovesAlone
<1>4. CASE executions' = executions \/ (thread[r].pc = "finish" /\ StoreOutcome(r))
  <2>1. \A w \in Workflows : Recent(w)' \subseteq Recent(w)
    BY <1>3, <1>4, RecentRows
  <2> QED
    BY <1>2, <2>1, CapShrinks
<1>5. CASE thread[r].pc = "create" /\ executions' = Append(executions, NewRow(r))
  <2> SUFFICES ASSUME NEW w \in Workflows
               PROVE  Cardinality(Recent(w)') + Cardinality(Creating(w)') + 1
                        <= Cap + Cardinality(Runners)
    BY DEF CapInv
  <2> DEFINE added == IF Current(r) = w THEN {Len(executions) + 1} ELSE {}
  <2>1. Recent(w)' \subseteq Recent(w) \cup added
    BY <1>3, <1>5, RecentRows
  <2>2. /\ IsFiniteSet(Recent(w)) /\ Cardinality(Recent(w)) \in Nat
        /\ IsFiniteSet(Creating(w)) /\ Cardinality(Creating(w)) \in Nat
        /\ Cardinality(Runners) \in Nat
        /\ Cardinality(Recent(w)) + Cardinality(Creating(w)) + 1 <= Cap + Cardinality(Runners)
    BY CountedFinite DEF TypeInv, CapInv
  <2>3. CASE Current(r) = w
    <3>1. r \in Creating(w)
      BY <1>5, <2>3 DEF Creating
    <3>2. /\ IsFiniteSet(Creating(w) \ {r})
          /\ Cardinality(Creating(w) \ {r}) = Cardinality(Creating(w)) - 1
      BY <2>2, <3>1, FS_RemoveElement
    <3>3. /\ Cardinality(Creating(w)') <= Cardinality(Creating(w)) - 1
          /\ Cardinality(Creating(w)') \in Nat
      <4>1. IsFiniteSet(Creating(w)') /\ Cardinality(Creating(w)') <= Cardinality(Creating(w) \ {r})
        BY <1>2, <3>2, FS_Subset
      <4> QED
        BY <3>2, <4>1, FS_CardinalityType
    <3>4. /\ IsFiniteSet(Recent(w) \cup {Len(executions) + 1})
          /\ Cardinality(Recent(w) \cup {Len(executions) + 1}) <= Cardinality(Recent(w)) + 1
      <4> DEFINE new == Len(executions) + 1
      <4> HIDE DEF new
      <4>1. /\ IsFiniteSet(Recent(w) \cup {new})
            /\ Cardinality(Recent(w) \cup {new})
                 = IF new \in Recent(w) THEN Cardinality(Recent(w)) ELSE Cardinality(Recent(w)) + 1
        BY <2>2, FS_AddElement
      <4>2. Cardinality(Recent(w) \cup {new}) <= Cardinality(Recent(w)) + 1
        BY <2>2, <4>1
      <4> QED
        BY <4>1, <4>2 DEF new
    <3>5. /\ Cardinality(Recent(w)') <= Cardinality(Recent(w)) + 1
          /\ Cardinality(Recent(w)') \in Nat
      <4>1. Recent(w)' \subseteq Recent(w) \cup {Len(executions) + 1}
        BY <2>1, <2>3
      <4>2. /\ IsFiniteSet(Recent(w)')
            /\ Cardinality(Recent(w)') <= Cardinality(Recent(w) \cup {Len(executions) + 1})
        BY <3>4, <4>1, FS_Subset
      <4>3. Cardinality(Recent(w)') \in Nat /\ Cardinality(Recent(w) \cup {Len(executions) + 1}) \in Nat
        BY <3>4, <4>2, FS_CardinalityType
      <4> QED
        BY <2>2, <3>4, <4>2, <4>3
    <3> QED
      BY <2>2, <3>3, <3>5, EngineAssumption
  <2>4. CASE Current(r) # w
    <3>1. Recent(w)' \subseteq Recent(w)
      BY <2>1, <2>4
    <3>2. /\ Cardinality(Recent(w)') <= Cardinality(Recent(w)) /\ Cardinality(Recent(w)') \in Nat
          /\ Cardinality(Creating(w)') <= Cardinality(Creating(w))
          /\ Cardinality(Creating(w)') \in Nat
      BY <1>2, <2>2, <3>1, FS_Subset, FS_CardinalityType
    <3> QED
      BY <2>2, <3>2, EngineAssumption
  <2> QED
    BY <2>3, <2>4
<1> QED
  BY <1>4, <1>5, WhatChanges

LEMMA CapNext == TypeInv /\ CapInv /\ [Next]_vars => CapInv'
<1> SUFFICES ASSUME TypeInv, CapInv, [Next]_vars PROVE CapInv'
  OBVIOUS
<1>1. CASE UNCHANGED vars \/ TimePasses \/ \E m \in Mentions : Request(m) \/ Qualify(m)
  <2>1. executions' = executions /\ thread' = thread
    BY <1>1 DEF vars, tables, TimePasses, Request, Qualify
  <2>2. hourStart' \in Nat /\ hourStart \in Nat /\ hourStart <= hourStart'
    BY <1>1 DEF vars, TimePasses, Request, Qualify, TypeInv, TypeOK
  <2>3. \A w \in Workflows : Creating(w)' = Creating(w)
    BY <2>1 DEF Creating, Current
  <2>4. \A w \in Workflows : Recent(w)' \subseteq Recent(w)
    <3> SUFFICES ASSUME NEW w \in Workflows, NEW i \in DOMAIN executions, i > hourStart'
                 PROVE  i > hourStart
      BY <2>1 DEF Recent
    <3>1. i \in Nat
      BY DEF TypeInv, TypeOK
    <3> QED
      BY <2>2, <3>1
  <2> QED
    BY <2>3, <2>4, CapShrinks
<1>2. CASE \/ \E r \in Runners, m \in Mentions : Start(r, m)
           \/ \E S \in SUBSET Runners \ {{}} : Crash(S)
  <2>1. executions' = executions /\ hourStart' = hourStart
    BY <1>2 DEF Start, Crash, tables
  <2>2. \A q \in Runners : thread'[q] = thread[q] \/ thread'[q].pc # "create"
    <3>1. ASSUME NEW r \in Runners, NEW m \in Mentions, Start(r, m), NEW q \in Runners
          PROVE  thread'[q] = thread[q] \/ thread'[q].pc # "create"
      BY <3>1 DEF Start, IdleThread, TypeInv, TypeOK
    <3>2. ASSUME NEW S \in SUBSET Runners, Crash(S), NEW q \in Runners
          PROVE  thread'[q] = thread[q] \/ thread'[q].pc # "create"
      BY <3>2 DEF Crash, IdleThread, TypeInv, TypeOK
    <3> QED
      BY <1>2, <3>1, <3>2
  <2>3. \A w \in Workflows : Creating(w)' \subseteq Creating(w)
    BY <2>2 DEF Creating, Current
  <2>4. \A w \in Workflows : Recent(w)' = Recent(w)
    BY <2>1 DEF Recent
  <2> QED
    BY <2>3, <2>4, CapShrinks
<1>3. ASSUME NEW r \in Runners, RunnerStep(r) \/ FaultyStep(r) PROVE CapInv'
  BY <1>3, CapCounted, CapUsed
<1> QED
  BY <1>1, <1>2, <1>3 DEF Next

LEMMA InitCap == Init => CapInv
<1> SUFFICES ASSUME Init, NEW w \in Workflows
             PROVE  Cardinality(Recent(w)) + Cardinality(Creating(w)) + 1
                      <= Cap + Cardinality(Runners)
  BY DEF CapInv
<1>1. Recent(w) = {} /\ Creating(w) = {}
  BY DEF Init, Recent, Creating, IdleThread
<1>2. Cardinality(Recent(w)) = 0 /\ Cardinality(Creating(w)) = 0
  BY <1>1, FS_EmptySet
<1>3. Cardinality(Runners) \in Nat
  BY EngineAssumption, FS_CardinalityType
<1> QED
  BY <1>2, <1>3, EngineAssumption

\* Goroutines that count at the same time exceed the hourly cap of a workflow
\* by at most one run each.
THEOREM CapRespected == Spec => []CapOverrunBounded
<1>1. TypeInv /\ CapInv => CapOverrunBounded
  <2> SUFFICES ASSUME TypeInv, CapInv, NEW w \in Workflows
               PROVE  Cardinality(Recent(w)) + 1 <= Cap + Cardinality(Runners)
    BY DEF CapOverrunBounded
  <2>1. /\ Cardinality(Recent(w)) \in Nat /\ Cardinality(Creating(w)) \in Nat
        /\ Cardinality(Runners) \in Nat
        /\ Cardinality(Recent(w)) + Cardinality(Creating(w)) + 1 <= Cap + Cardinality(Runners)
    BY CountedFinite DEF TypeInv, CapInv
  <2> QED
    BY <2>1, EngineAssumption
<1> QED
  BY <1>1, InitType, InitCap, NextType, CapNext, PTL DEF Spec

-----------------------------------------------------------------------------
(* One run per mention *)

Alone ==
    \A q, r \in Runners :
        Busy(q) /\ Busy(r) /\ Mention(q) = Mention(r) /\ q # r => Mention(r) \in overlapped

\* What the check has seen stays true, as nobody else is at the mention.
Fresh ==
    \A r \in Runners :
        thread[r].pc \in {"count", "create"} /\ Mention(r) \notin overlapped =>
            Rows(Current(r), Mention(r)) = {}

OneRow ==
    \A m \in Mentions \ overlapped, w \in Workflows : \A i, j \in Rows(w, m) : i = j

EffectHasRow == \A x \in performed : Rows(x[1], x[2]) # {}

EffectIsPast ==
    \A r \in Runners :
        HasRow(r) /\ Mention(r) \notin overlapped =>
            \A i \in Nat : <<Current(r), Mention(r), i>> \in performed => i <= Len(thread[r].steps)

NoRepeat == \A x \in repeated : x[2] \in overlapped

\* RunsOncePerMention is not inductive: it needs what a goroutine knows between
\* its check and its row, and how far the effects of an execution have got.
RunInv == Alone /\ Fresh /\ OneRow /\ EffectHasRow /\ EffectIsPast /\ NoRepeat

LEMMA InitRun == Init => RunInv
BY DEF Init, RunInv, Alone, Fresh, OneRow, EffectHasRow, EffectIsPast, NoRepeat,
       Busy, HasRow, IdleThread, Rows

\* What an outcome changes in its goroutine.
LEMMA RecordMoves ==
    ASSUME TypeInv, NEW r \in Runners, NEW outcome \in StepStatus, Record(r, outcome)
    PROVE  /\ thread'[r].steps = Append(thread[r].steps, outcome)
           /\ Len(thread[r].steps) \in Nat
           /\ Len(thread'[r].steps) = Len(thread[r].steps) + 1
           /\ Current(r)' = Current(r) /\ Mention(r)' = Mention(r)
           /\ thread'[r].pc \in {"act", "finish"}
<1> DEFINE steps == Append(thread[r].steps, outcome)
           next == IF Len(steps) < Len(Chain[Current(r)]) THEN "act" ELSE "finish"
           new == [thread[r] EXCEPT !.steps = steps, !.pc = next]
<1>1. thread[r] \in ThreadState /\ thread \in [Runners -> ThreadState]
  BY DEF TypeInv, TypeOK
<1>2. thread' = [thread EXCEPT ![r] = new] /\ next \in {"act", "finish"}
  BY DEF Record
<1>3. Len(thread[r].steps) \in Nat /\ Len(steps) = Len(thread[r].steps) + 1
  BY <1>1 DEF ThreadState
<1> HIDE DEF steps, next
<1>4. /\ new.steps = steps /\ new.pc = next
      /\ new.mention = thread[r].mention /\ new.todo = thread[r].todo
  BY <1>1 DEF ThreadState
<1> HIDE DEF new
<1>5. thread'[r] = new
  BY <1>1, <1>2
<1> QED
  BY <1>2, <1>3, <1>4, <1>5 DEF Current, Mention, steps

LEMMA GotoMoves ==
    ASSUME TypeInv, NEW r \in Runners, NEW step, Goto(r, step)
    PROVE  /\ thread'[r].steps = thread[r].steps /\ thread'[r].pc = step
           /\ Current(r)' = Current(r) /\ Mention(r)' = Mention(r)
BY DEF Goto, TypeInv, TypeOK, ThreadState, Current, Mention

\* How the rows of a workflow and mention change.
LEMMA RowsOf ==
    ASSUME TypeInv, NEW r \in Runners, NEW w, NEW m
    PROVE  /\ executions' = executions => Rows(w, m)' = Rows(w, m)
           /\ thread[r].pc = "finish" /\ StoreOutcome(r) => Rows(w, m)' = Rows(w, m)
           /\ thread[r].pc = "create" /\ executions' = Append(executions, NewRow(r)) =>
                /\ Rows(w, m) \subseteq Rows(w, m)'
                /\ Rows(w, m)' \subseteq Rows(w, m) \cup {Len(executions) + 1}
                /\ w # Current(r) \/ m # Mention(r) => Rows(w, m)' = Rows(w, m)
<1>1. executions' = executions => Rows(w, m)' = Rows(w, m)
  BY DEF Rows
<1>2. thread[r].pc = "finish" /\ StoreOutcome(r) => Rows(w, m)' = Rows(w, m)
  <2>1. SUFFICES ASSUME thread[r].pc = "finish" /\ StoreOutcome(r)
                 PROVE  Rows(w, m)' = Rows(w, m)
    OBVIOUS
  <2>2. DOMAIN executions' = DOMAIN executions /\ RowsKept
    BY <2>1, StoredOutcome
  <2> QED
    BY <2>2 DEF Rows, RowsKept
<1>3. ASSUME thread[r].pc = "create", executions' = Append(executions, NewRow(r))
      PROVE  /\ Rows(w, m) \subseteq Rows(w, m)'
             /\ Rows(w, m)' \subseteq Rows(w, m) \cup {Len(executions) + 1}
             /\ w # Current(r) \/ m # Mention(r) => Rows(w, m)' = Rows(w, m)
  <2>1. /\ NewRow(r) \in Execution /\ NewRow(r).workflow = Current(r)
        /\ NewRow(r).mention = Mention(r)
    BY <1>3, NewRowType DEF Working
  <2>2. /\ executions'[Len(executions) + 1] = NewRow(r)
        /\ DOMAIN executions' = DOMAIN executions \cup {Len(executions) + 1}
        /\ RowsKept
    BY <1>3, <2>1, AddedRow DEF TypeInv
  <2> QED
    BY <2>1, <2>2 DEF Rows, RowsKept
<1> QED
  BY <1>1, <1>2, <1>3

\* Steps that touch neither rows nor effects, and only set goroutines to the
\* start or the end of their way.
LEMMA RunQuiet ==
    ASSUME RunInv, UNCHANGED <<executions, effects>>, overlapped \subseteq overlapped', Alone',
           \A q \in Runners : thread'[q] = thread[q] \/ thread'[q].pc \in {"idle", "list"}
    PROVE  RunInv'
<1>1. /\ \A w, m : Rows(w, m)' = Rows(w, m)
      /\ performed' = performed /\ repeated' = repeated
  BY DEF Rows, effects
<1>2. Fresh'
  BY <1>1 DEF RunInv, Fresh, Mention, Current
<1>3. OneRow' /\ EffectHasRow' /\ NoRepeat'
  BY <1>1 DEF RunInv, OneRow, EffectHasRow, NoRepeat
<1>4. EffectIsPast'
  BY <1>1 DEF RunInv, EffectIsPast, HasRow, Mention, Current
<1> QED
  BY <1>2, <1>3, <1>4 DEF RunInv

LEMMA RunOthers ==
    ASSUME TypeInv, RunInv,
           \/ TimePasses
           \/ \E m \in Mentions : Request(m) \/ Qualify(m)
           \/ \E r \in Runners, m \in Mentions : Start(r, m)
           \/ \E S \in SUBSET Runners : Crash(S)
    PROVE  RunInv'
<1>1. CASE TimePasses \/ \E m \in Mentions : Request(m) \/ Qualify(m)
  <2>1. UNCHANGED <<executions, effects, thread, overlapped>>
    BY <1>1 DEF TimePasses, Request, Qualify, tables, requests, history
  <2>2. Alone'
    BY <2>1 DEF RunInv, Alone, Busy, Mention
  <2> QED
    BY <2>1, <2>2, RunQuiet
<1>2. ASSUME NEW r \in Runners, NEW m \in Mentions, Start(r, m) PROVE RunInv'
  <2>1. UNCHANGED <<executions, effects>>
    BY <1>2 DEF Start, tables, history
  <2>2. overlapped' = IF \E q \in Runners : Busy(q) /\ Mention(q) = m
                      THEN overlapped \cup {m} ELSE overlapped
    BY <1>2 DEF Start
  <2>3. /\ thread'[r].pc = "list" /\ thread'[r].mention = m
        /\ \A q \in Runners : q # r => thread'[q] = thread[q]
    BY <1>2 DEF Start, IdleThread, TypeInv, TypeOK
  <2>4. Alone'
    BY <2>2, <2>3 DEF RunInv, Alone, Busy, Mention
  <2> QED
    BY <2>1, <2>2, <2>3, <2>4, RunQuiet
<1>3. ASSUME NEW S \in SUBSET Runners, Crash(S) PROVE RunInv'
  <2>1. UNCHANGED <<executions, effects, overlapped>>
    BY <1>3 DEF Crash, tables, requests
  <2>2. \A q \in Runners : thread'[q] = thread[q] \/ thread'[q].pc = "idle"
    BY <1>3 DEF Crash, IdleThread
  <2>3. Alone'
    BY <2>1, <2>2 DEF RunInv, Alone, Busy, Mention
  <2> QED
    BY <2>1, <2>2, <2>3, RunQuiet
<1> QED
  BY <1>1, <1>2, <1>3

LEMMA RunSteps ==
    ASSUME TypeInv, RunInv, NEW r \in Runners, RunnerStep(r) \/ FaultyStep(r)
    PROVE  RunInv'
<1>1. /\ Busy(r) /\ overlapped' = overlapped
      /\ \A q \in Runners : q # r => thread'[q] = thread[q]
      /\ thread'[r].pc # "idle" => thread'[r].mention = thread[r].mention
  BY MovesAlone
<1>2. Alone'
  BY <1>1 DEF RunInv, Alone, Busy, Mention
<1>3. \A w, m : Rows(w, m) \subseteq Rows(w, m)'
  BY WhatChanges, RowsOf
<1>4. \A w, m : Rows(w, m)' # Rows(w, m) =>
         /\ w = Current(r) /\ m = Mention(r) /\ thread[r].pc = "create"
         /\ Rows(w, m)' \subseteq Rows(w, m) \cup {Len(executions) + 1}
  BY WhatChanges, RowsOf
<1>5. \A q \in Runners : q # r /\ Busy(q) /\ Mention(q) = Mention(r) => Mention(q) \in overlapped
  BY <1>1 DEF RunInv, Alone
<1>6. \A q \in Runners : q # r =>
         Current(q)' = Current(q) /\ Mention(q)' = Mention(q) /\ Busy(q)' = Busy(q)
  BY <1>1 DEF Current, Mention, Busy
<1>7. Fresh'
  <2> SUFFICES ASSUME NEW q \in Runners, thread'[q].pc \in {"count", "create"},
                      Mention(q)' \notin overlapped
               PROVE  Rows(Current(q), Mention(q))' = {}
    BY <1>1 DEF Fresh
  <2>1. CASE q # r
    <3>1. Rows(Current(q), Mention(q)) = {}
      BY <1>1, <1>6, <2>1 DEF RunInv, Fresh
    <3>2. Busy(q) /\ Mention(q) # Mention(r)
      BY <1>1, <1>5, <1>6, <2>1 DEF Busy
    <3>3. ~(Rows(Current(q), Mention(q))' # Rows(Current(q), Mention(q)))
      <4>1. \A w, m : m # Mention(r) => Rows(w, m)' = Rows(w, m)
        BY <1>4
      <4>2. \A w, m : m # Mention(r) =>
               {i \in DOMAIN executions' : executions'[i].workflow = w /\ executions'[i].mention = m}
                  = {i \in DOMAIN executions : executions[i].workflow = w /\ executions[i].mention = m}
        BY <4>1 DEF Rows
      <4> QED
        BY <1>6, <2>1, <3>2, <4>2 DEF Rows
    <3> QED
      BY <3>1, <3>3
  <2>2. CASE q = r /\ thread'[r].pc = "count"
    <3>1. HasExecution(r) /\ Goto(r, "count") /\ Rows(Current(r), Mention(r)) = {}
      BY <2>2, WhereTo
    <3>2. executions' = executions /\ Current(r)' = Current(r) /\ Mention(r)' = Mention(r)
      BY <3>1, GotoMoves DEF HasExecution, tables
    <3> QED
      BY <2>2, <3>1, <3>2 DEF Rows
  <2>3. CASE q = r /\ thread'[r].pc = "create"
    <3>1. CountExecutions(r) /\ Goto(r, "create")
      BY <2>3, WhereTo
    <3>2. /\ executions' = executions /\ Current(r)' = Current(r) /\ Mention(r)' = Mention(r)
          /\ thread[r].pc = "count"
      BY <3>1, GotoMoves DEF CountExecutions, tables
    <3>3. Rows(Current(r), Mention(r)) = {}
      BY <2>3, <3>2 DEF RunInv, Fresh
    <3> QED
      BY <2>3, <3>2, <3>3 DEF Rows
  <2> QED
    BY <2>1, <2>2, <2>3
<1>8. OneRow'
  <2> SUFFICES ASSUME NEW m \in Mentions \ overlapped, NEW w \in Workflows,
                      NEW i \in Rows(w, m)', NEW j \in Rows(w, m)'
               PROVE  i = j
    BY <1>1 DEF OneRow
  <2>1. CASE Rows(w, m)' = Rows(w, m)
    BY <2>1 DEF RunInv, OneRow
  <2>2. CASE Rows(w, m)' # Rows(w, m)
    <3>1. /\ w = Current(r) /\ m = Mention(r) /\ thread[r].pc = "create"
          /\ Rows(w, m)' \subseteq Rows(w, m) \cup {Len(executions) + 1}
      BY <1>4, <2>2
    <3>2. Rows(w, m) = {}
      BY <3>1 DEF RunInv, Fresh
    <3> QED
      BY <3>1, <3>2
  <2> QED
    BY <2>1, <2>2
<1>9. CASE UNCHANGED effects
  <2>1. EffectHasRow' /\ NoRepeat'
    BY <1>1, <1>3, <1>9 DEF RunInv, EffectHasRow, NoRepeat, effects
  <2>2. EffectIsPast'
    <3> SUFFICES ASSUME NEW q \in Runners, HasRow(q)', Mention(q)' \notin overlapped,
                        NEW i \in Nat, <<Current(q)', Mention(q)', i>> \in performed
                 PROVE  i <= Len(thread'[q].steps)
      BY <1>1, <1>9 DEF EffectIsPast, effects
    <3>1. CASE q # r
      BY <1>1, <1>6, <3>1 DEF RunInv, EffectIsPast, HasRow
    <3>2. CASE q = r /\ CreateExecution(r)
      <4>1. /\ thread[r].pc = "create"
            /\ Current(r)' = Current(r) /\ Mention(r)' = Mention(r)
        BY <3>2 DEF CreateExecution, TypeInv, TypeOK, ThreadState, Current, Mention
      <4>2. Rows(Current(r), Mention(r)) = {}
        BY <3>2, <4>1 DEF RunInv, Fresh
      <4> QED
        BY <3>2, <4>1, <4>2 DEF RunInv, EffectHasRow
    <3>3. CASE q = r /\ thread[r].pc = "act" /\ Goto(r, "lead")
      BY <3>3, GotoMoves DEF RunInv, EffectIsPast, HasRow
    <3>4. ASSUME q = r, thread[r].pc \in {"act", "lead"}, NEW outcome \in StepStatus,
                 Record(r, outcome)
          PROVE  i <= Len(thread'[q].steps)
      <4>1. i <= Len(thread[r].steps)
        BY <3>4, RecordMoves DEF RunInv, EffectIsPast, HasRow
      <4> QED
        BY <3>4, <4>1, RecordMoves
    <3> QED
      BY <3>1, <3>2, <3>3, <3>4, WhereTo
  <2> QED
    BY <1>2, <1>7, <1>8, <2>1, <2>2 DEF RunInv
<1>10. ASSUME thread[r].pc \in {"act", "lead"}, Perform(r), NEW outcome \in StepStatus,
              Record(r, outcome)
       PROVE  RunInv'
  <2> DEFINE effect == <<Current(r), Mention(r), NextAction(r)>>
  <2>1. /\ performed' = performed \cup {effect}
        /\ repeated' = IF effect \in performed THEN repeated \cup {effect} ELSE repeated
        /\ NextAction(r) = Len(thread[r].steps) + 1 /\ Len(thread[r].steps) \in Nat
    BY <1>10, RecordMoves DEF Perform, NextAction
  <2>2. EffectHasRow'
    <3>1. Rows(Current(r), Mention(r)) # {}
      BY <1>10 DEF TypeInv, ThreadOK, HasRow, Rows
    <3>2. \A x \in performed' : Rows(x[1], x[2]) # {}
      BY <2>1, <3>1 DEF RunInv, EffectHasRow
    <3> QED
      BY <1>3, <3>2 DEF EffectHasRow
  <2>3. NoRepeat'
    <3>1. effect \in performed => Mention(r) \in overlapped
      BY <1>10, <2>1 DEF RunInv, EffectIsPast, HasRow
    <3> QED
      BY <1>1, <2>1, <3>1 DEF RunInv, NoRepeat
  <2>4. EffectIsPast'
    <3> SUFFICES ASSUME NEW q \in Runners, HasRow(q)', Mention(q)' \notin overlapped,
                        NEW i \in Nat, <<Current(q)', Mention(q)', i>> \in performed'
                 PROVE  i <= Len(thread'[q].steps)
      BY <1>1 DEF EffectIsPast
    <3>1. CASE q # r
      <4>1. Busy(q) /\ Mention(q) # Mention(r)
        BY <1>1, <1>5, <1>6, <3>1 DEF Busy, HasRow
      <4>2. <<Current(q), Mention(q), i>> \in performed
        BY <1>6, <2>1, <3>1, <4>1
      <4> QED
        BY <1>1, <1>6, <3>1, <4>2 DEF RunInv, EffectIsPast, HasRow
    <3>2. CASE q = r
      <4>1. Current(r)' = Current(r) /\ Mention(r)' = Mention(r)
            /\ Len(thread'[r].steps) = Len(thread[r].steps) + 1
        BY <1>10, RecordMoves
      <4>2. i <= Len(thread[r].steps) \/ i = Len(thread[r].steps) + 1
        BY <1>10, <2>1, <3>2, <4>1 DEF RunInv, EffectIsPast, HasRow
      <4> QED
        BY <2>1, <3>2, <4>1, <4>2
    <3> QED
      BY <3>1, <3>2
  <2> QED
    BY <1>2, <1>7, <1>8, <2>2, <2>3, <2>4 DEF RunInv
<1> QED
  BY <1>9, <1>10, WhatChanges

LEMMA RunNext == TypeInv /\ RunInv /\ [Next]_vars => RunInv'
<1> SUFFICES ASSUME TypeInv, RunInv, [Next]_vars PROVE RunInv'
  OBVIOUS
<1>1. CASE UNCHANGED vars
  <2>1. UNCHANGED <<executions, effects, thread, overlapped>>
    BY <1>1 DEF vars, tables, requests, history
  <2>2. Alone'
    BY <2>1 DEF RunInv, Alone, Busy, Mention
  <2> QED
    BY <2>1, <2>2, RunQuiet
<1>2. CASE Next
  BY <1>2, RunOthers, RunSteps DEF Next
<1> QED
  BY <1>1, <1>2

\* Unless two goroutines were at a mention together, no workflow has a second
\* execution for it, and no action of its chain took effect twice, whatever
\* crashes, redeliveries and lost answers there were.
THEOREM RunsOnce == Spec => []RunsOncePerMention
<1>1. TypeInv /\ RunInv => RunsOncePerMention
  BY DEF RunInv, OneRow, NoRepeat, RunsOncePerMention
<1> QED
  BY <1>1, InitType, InitRun, NextType, RunNext, PTL DEF Spec

-----------------------------------------------------------------------------
(* One lead per mention *)

\* What ensureLead has seen stays true, but for the lead qualifier.
LeadKnown ==
    \A r \in Runners :
        thread[r].pc = "lead" /\ Mention(r) \notin overlapped =>
            leads[Mention(r)] <= qualified[Mention(r)]

LeadInv == OneLeadPerMention /\ LeadKnown

LEMMA InitLead == Init => LeadInv
BY DEF Init, LeadInv, OneLeadPerMention, LeadKnown, IdleThread

LEMMA LeadQuiet ==
    ASSUME LeadInv, UNCHANGED <<leads, qualified>>, overlapped \subseteq overlapped',
           \A q \in Runners : thread'[q] = thread[q] \/ thread'[q].pc \in {"idle", "list"}
    PROVE  LeadInv'
BY DEF LeadInv, OneLeadPerMention, LeadKnown, Mention

LEMMA LeadOthers ==
    ASSUME TypeInv, LeadInv,
           \/ UNCHANGED vars \/ TimePasses
           \/ \E m \in Mentions : Request(m) \/ Qualify(m)
           \/ \E r \in Runners, m \in Mentions : Start(r, m)
           \/ \E S \in SUBSET Runners : Crash(S)
    PROVE  LeadInv'
<1>1. CASE UNCHANGED vars \/ TimePasses \/ \E m \in Mentions : Request(m)
  BY <1>1, LeadQuiet DEF vars, TimePasses, Request, tables, requests
<1>2. ASSUME NEW m \in Mentions, Qualify(m) PROVE LeadInv'
  <2>1. /\ qualified' = [qualified EXCEPT ![m] = qualified[m] + 1]
        /\ qualified \in [Mentions -> Nat]
        /\ leads' = [leads EXCEPT ![m] = leads[m] + 1] /\ leads \in [Mentions -> Nat]
        /\ UNCHANGED <<thread, overlapped>>
    BY <1>2 DEF Qualify, AddLead, TypeInv, TypeOK
  <2>2. OneLeadPerMention'
    BY <2>1 DEF LeadInv, OneLeadPerMention
  <2>3. \A r \in Runners : thread[r].pc = "lead" => Mention(r) \in Mentions
    BY CurrentType DEF TypeInv, Working
  <2>4. LeadKnown'
    BY <2>1, <2>3 DEF LeadInv, LeadKnown, Mention
  <2> QED
    BY <2>2, <2>4 DEF LeadInv
<1>3. ASSUME NEW r \in Runners, NEW m \in Mentions, Start(r, m) PROVE LeadInv'
  <2>1. UNCHANGED <<leads, qualified>> /\ overlapped \subseteq overlapped'
    BY <1>3 DEF Start, tables
  <2>2. \A q \in Runners : thread'[q] = thread[q] \/ thread'[q].pc = "list"
    BY <1>3 DEF Start, IdleThread, TypeInv, TypeOK
  <2> QED
    BY <2>1, <2>2, LeadQuiet
<1>4. ASSUME NEW S \in SUBSET Runners, Crash(S) PROVE LeadInv'
  <2>1. UNCHANGED <<leads, qualified, overlapped>>
    BY <1>4 DEF Crash, tables, requests
  <2>2. \A q \in Runners : thread'[q] = thread[q] \/ thread'[q].pc = "idle"
    BY <1>4 DEF Crash, IdleThread
  <2> QED
    BY <2>1, <2>2, LeadQuiet
<1> QED
  BY <1>1, <1>2, <1>3, <1>4

LEMMA LeadSteps ==
    ASSUME TypeInv, Alone, LeadInv, NEW r \in Runners, RunnerStep(r) \/ FaultyStep(r)
    PROVE  LeadInv'
<1>1. /\ Busy(r) /\ UNCHANGED <<overlapped, qualified>>
      /\ \A q \in Runners : q # r => thread'[q] = thread[q]
  BY MovesAlone
<1>2. \A q \in Runners : thread[q].pc = "lead" => Mention(q) \in Mentions
  BY CurrentType DEF TypeInv, Working
<1>3. leads \in [Mentions -> Nat] /\ qualified \in [Mentions -> Nat]
  BY DEF TypeInv, TypeOK
<1>4. CASE leads' = leads
  <2>1. OneLeadPerMention'
    BY <1>1, <1>4 DEF LeadInv, OneLeadPerMention
  <2>2. LeadKnown'
    <3> SUFFICES ASSUME NEW q \in Runners, thread'[q].pc = "lead", Mention(q)' \notin overlapped
                 PROVE  leads[Mention(q)'] <= qualified[Mention(q)']
      BY <1>1, <1>4 DEF LeadKnown
    <3>1. CASE q # r
      BY <1>1, <3>1 DEF LeadInv, LeadKnown, Mention
    <3>2. CASE q = r
      <4>1. FindLead(r) /\ Goto(r, "lead") /\ ~(leads[Mention(r)] > 0)
        BY <3>2, WhereTo
      <4>2. Mention(r)' = Mention(r) /\ Mention(r) \in Mentions
        BY <4>1, GotoMoves, CurrentType DEF FindLead, TypeInv, Working
      <4> QED
        BY <1>3, <3>2, <4>1, <4>2
    <3> QED
      BY <3>1, <3>2
  <2> QED
    BY <2>1, <2>2 DEF LeadInv
<1>5. ASSUME thread[r].pc = "lead", AddLead(Mention(r)), NEW outcome \in StepStatus,
             Record(r, outcome)
      PROVE  LeadInv'
  <2>1. leads' = [leads EXCEPT ![Mention(r)] = leads[Mention(r)] + 1] /\ Mention(r) \in Mentions
    BY <1>2, <1>5 DEF AddLead
  <2>2. Mention(r) \notin overlapped =>
           leads[Mention(r)] <= qualified[Mention(r)]
    BY <1>5 DEF LeadInv, LeadKnown
  <2>3. OneLeadPerMention'
    BY <1>1, <1>3, <2>1, <2>2 DEF LeadInv, OneLeadPerMention
  <2>4. LeadKnown'
    <3> SUFFICES ASSUME NEW q \in Runners, thread'[q].pc = "lead", Mention(q)' \notin overlapped
                 PROVE  leads'[Mention(q)'] <= qualified[Mention(q)']
      BY <1>1 DEF LeadKnown
    <3>1. q # r
      BY <1>5, RecordMoves
    <3>2. thread'[q] = thread[q] /\ Mention(q)' = Mention(q) /\ Mention(q) # Mention(r)
      BY <1>1, <3>1 DEF Alone, Busy, Mention
    <3> QED
      BY <1>2, <1>3, <2>1, <3>2 DEF LeadInv, LeadKnown
  <2> QED
    BY <2>3, <2>4 DEF LeadInv
<1> QED
  BY <1>4, <1>5, WhatChanges

LEMMA LeadNext == TypeInv /\ RunInv /\ LeadInv /\ [Next]_vars => LeadInv'
BY LeadOthers, LeadSteps DEF RunInv, Next

\* Unless two goroutines were at a mention together, the engine adds one lead
\* for it at most.
THEOREM OneLead == Spec => []OneLeadPerMention
<1>1. LeadInv => OneLeadPerMention
  BY DEF LeadInv
<1> QED
  BY <1>1, InitType, InitRun, InitLead, NextType, RunNext, LeadNext, PTL DEF Spec

-----------------------------------------------------------------------------
(* The report of an execution *)

\* What a goroutine is going to report as completed has taken effect.
ReportKept ==
    \A r \in Runners :
        HasRow(r) => \A i \in DOMAIN thread[r].steps :
            thread[r].steps[i] = "completed" => <<Current(r), Mention(r), i>> \in performed

ReportInv == ReportIsTrue /\ ReportKept

LEMMA InitReport == Init => ReportInv
BY DEF Init, ReportInv, ReportIsTrue, ReportKept, HasRow, IdleThread

LEMMA ReportQuiet ==
    ASSUME ReportInv, UNCHANGED <<executions, performed>>,
           \A q \in Runners : thread'[q] = thread[q] \/ thread'[q].pc \in {"idle", "list"}
    PROVE  ReportInv'
<1>1. ReportIsTrue'
  BY DEF ReportInv, ReportIsTrue
<1>2. ReportKept'
  BY DEF ReportInv, ReportKept, HasRow, Current, Mention
<1> QED
  BY <1>1, <1>2 DEF ReportInv

LEMMA ReportOthers ==
    ASSUME TypeInv, ReportInv,
           \/ UNCHANGED vars \/ TimePasses
           \/ \E m \in Mentions : Request(m) \/ Qualify(m)
           \/ \E r \in Runners, m \in Mentions : Start(r, m)
           \/ \E S \in SUBSET Runners : Crash(S)
    PROVE  ReportInv'
<1>1. UNCHANGED <<executions, performed>>
  BY DEF vars, TimePasses, Request, Qualify, Start, Crash, tables, history, effects
<1>2. CASE UNCHANGED vars \/ TimePasses \/ \E m \in Mentions : Request(m) \/ Qualify(m)
  BY <1>1, <1>2, ReportQuiet DEF vars, TimePasses, Request, Qualify
<1>3. ASSUME NEW r \in Runners, NEW m \in Mentions, Start(r, m) PROVE ReportInv'
  <2>1. \A q \in Runners : thread'[q] = thread[q] \/ thread'[q].pc = "list"
    BY <1>3 DEF Start, IdleThread, TypeInv, TypeOK
  <2> QED
    BY <1>1, <2>1, ReportQuiet
<1>4. ASSUME NEW S \in SUBSET Runners, Crash(S) PROVE ReportInv'
  <2>1. \A q \in Runners : thread'[q] = thread[q] \/ thread'[q].pc = "idle"
    BY <1>4 DEF Crash, IdleThread
  <2> QED
    BY <1>1, <2>1, ReportQuiet
<1> QED
  BY <1>2, <1>3, <1>4

\* An outcome is "completed" only with an effect.
LEMMA HonestOutcome ==
    ASSUME TypeInv, NEW r \in Runners, RunnerStep(r) \/ FaultyStep(r),
           thread[r].pc \in {"act", "lead"}
    PROVE  \/ Goto(r, "lead")
           \/ Record(r, "completed") /\ Perform(r)
           \/ Record(r, "skipped") \/ Record(r, "failed")
BY DEF RunnerStep, FaultyStep, ListWorkflows, ListWorkflowsFails, HasExecution,
       CountExecutions, CheckFails, CreateExecution, CreateExecutionFails, PlainAction,
       FindLead, CreateLead, ActionFails, Finish, FinishFails, Return, Complete

LEMMA ReportSteps ==
    ASSUME TypeInv, ReportInv, NEW r \in Runners, RunnerStep(r) \/ FaultyStep(r)
    PROVE  ReportInv'
<1>1. \A q \in Runners : q # r => thread'[q] = thread[q]
  BY MovesAlone
<1>2. performed \subseteq performed'
  BY WhatChanges DEF effects, Perform
<1>3. ReportIsTrue'
  <2> SUFFICES ASSUME NEW e \in DOMAIN executions', executions'[e].status # "running"
               PROVE  LET x == executions'[e] IN
                      /\ Len(x.steps) = Len(Chain[x.workflow])
                      /\ (x.status = "failed" <=> Failed(x.steps))
                      /\ \A i \in DOMAIN x.steps : x.steps[i] = "completed" =>
                            <<x.workflow, x.mention, i>> \in performed'
    BY DEF ReportIsTrue
  <2>1. CASE e \in DOMAIN executions /\ executions'[e] = executions[e]
    BY <1>2, <2>1 DEF ReportInv, ReportIsTrue
  <2>2. CASE thread[r].pc = "finish" /\ StoreOutcome(r) /\ e = thread[r].row
    <3>1. /\ executions'[e].steps = thread[r].steps
          /\ executions'[e].status
               = IF Failed(thread[r].steps) THEN "failed" ELSE "completed"
          /\ executions'[e].workflow = Current(r) /\ executions'[e].mention = Mention(r)
      BY <2>2, StoredOutcome DEF RowsKept, TypeInv, ThreadOK, HasRow
    <3>2. Len(thread[r].steps) = Len(Chain[Current(r)])
      BY <2>2 DEF TypeInv, ThreadOK, HasRow
    <3>3. \A i \in DOMAIN thread[r].steps : thread[r].steps[i] = "completed" =>
             <<Current(r), Mention(r), i>> \in performed'
      BY <1>2, <2>2 DEF ReportInv, ReportKept, HasRow
    <3> QED
      BY <3>1, <3>2, <3>3
  <2>3. CASE thread[r].pc = "create" /\ executions' = Append(executions, NewRow(r))
    <3>1. NewRow(r) \in Execution /\ NewRow(r).status = "running"
      BY <2>3, NewRowType DEF Working
    <3>2. /\ executions'[Len(executions) + 1] = NewRow(r)
          /\ DOMAIN executions' = DOMAIN executions \cup {Len(executions) + 1}
          /\ \A i \in DOMAIN executions : executions'[i] = executions[i]
      BY <2>3, <3>1, AddedRow DEF TypeInv
    <3> QED
      BY <2>1, <3>1, <3>2
  <2>4. CASE thread[r].pc = "finish" /\ StoreOutcome(r) /\ e # thread[r].row
    BY <2>1, <2>4, StoredOutcome
  <2>5. CASE executions' = executions
    BY <2>1, <2>5
  <2> QED
    BY <2>2, <2>3, <2>4, <2>5, WhatChanges
<1>4. ReportKept'
  <2> SUFFICES ASSUME NEW q \in Runners, HasRow(q)', NEW i \in DOMAIN thread'[q].steps,
                      thread'[q].steps[i] = "completed"
               PROVE  <<Current(q)', Mention(q)', i>> \in performed'
    BY DEF ReportKept
  <2>1. CASE q # r
    BY <1>1, <1>2, <2>1 DEF ReportInv, ReportKept, HasRow, Current, Mention
  <2>2. CASE q = r /\ CreateExecution(r)
    <3>1. thread[r].steps = <<>>
      BY <2>2 DEF CreateExecution, TypeInv, ThreadOK
    <3>2. thread'[r].steps = <<>>
      BY <2>2, <3>1 DEF CreateExecution, TypeInv, TypeOK, ThreadState
    <3> QED
      BY <2>2, <3>2
  <2>3. CASE q = r /\ thread[r].pc = "act" /\ Goto(r, "lead")
    BY <1>2, <2>3, GotoMoves DEF ReportInv, ReportKept, HasRow
  <2>4. ASSUME q = r, thread[r].pc \in {"act", "lead"}, NEW outcome \in StepStatus,
               Record(r, outcome), outcome = "completed" => Perform(r)
        PROVE  <<Current(q)', Mention(q)', i>> \in performed'
    <3>1. /\ thread'[r].steps = Append(thread[r].steps, outcome)
          /\ Current(r)' = Current(r) /\ Mention(r)' = Mention(r)
      BY <2>4, RecordMoves
    <3>2. thread[r].steps \in Seq(StepStatus)
      BY DEF TypeInv, TypeOK, ThreadState
    <3>3. \/ i \in DOMAIN thread[r].steps /\ thread[r].steps[i] = "completed"
          \/ i = Len(thread[r].steps) + 1 /\ outcome = "completed"
      BY <2>4, <3>1, <3>2
    <3>4. CASE i \in DOMAIN thread[r].steps /\ thread[r].steps[i] = "completed"
      BY <1>2, <2>4, <3>1, <3>4 DEF ReportInv, ReportKept, HasRow
    <3>5. CASE i = Len(thread[r].steps) + 1 /\ outcome = "completed"
      BY <2>4, <3>1, <3>5 DEF Perform, NextAction
    <3> QED
      BY <3>3, <3>4, <3>5
  <2>5. CASE q = r /\ thread[r].pc \in {"act", "lead"}
    <3>1. ~Goto(r, "lead") => \E outcome \in StepStatus :
             Record(r, outcome) /\ (outcome = "completed" => Perform(r))
      BY <2>5, HonestOutcome DEF StepStatus
    <3>2. CASE Goto(r, "lead")
      BY <1>2, <2>5, <3>2, GotoMoves DEF ReportInv, ReportKept, HasRow
    <3> QED
      BY <2>4, <2>5, <3>1, <3>2
  <2> QED
    BY <2>1, <2>2, <2>5, WhereTo
<1> QED
  BY <1>3, <1>4 DEF ReportInv

LEMMA ReportNext == TypeInv /\ ReportInv /\ [Next]_vars => ReportInv'
BY ReportOthers, ReportSteps DEF Next

\* An execution no longer running reports every action, failed if one failed,
\* and what it calls completed took effect.
THEOREM ReportsAreTrue == Spec => []ReportIsTrue
<1>1. ReportInv => ReportIsTrue
  BY DEF ReportInv
<1> QED
  BY <1>1, InitType, InitReport, NextType, ReportNext, PTL DEF Spec

-----------------------------------------------------------------------------
(* Rows and the goroutines that hold them *)

\* Where a goroutine gets to with the row it has.
LEMMA RowInHand ==
    ASSUME TypeInv, NEW r \in Runners
    PROVE  /\ \A S : TurnTo(r, S) => ~HasRow(r)'
           /\ \A step : Goto(r, step) =>
                 thread'[r].pc = step /\ thread'[r].row = thread[r].row
           /\ \A outcome : Record(r, outcome) =>
                 HasRow(r)' /\ thread'[r].row = thread[r].row
<1>1. thread \in [Runners -> ThreadState] /\ thread[r] \in ThreadState
  BY DEF TypeInv, TypeOK
<1>2. ASSUME NEW S, TurnTo(r, S) PROVE ~HasRow(r)'
  BY <1>1, <1>2 DEF TurnTo, ThreadState, HasRow
<1>3. ASSUME NEW step, Goto(r, step)
      PROVE  thread'[r].pc = step /\ thread'[r].row = thread[r].row
  BY <1>1, <1>3 DEF Goto, ThreadState
<1>4. ASSUME NEW outcome, Record(r, outcome)
      PROVE  HasRow(r)' /\ thread'[r].row = thread[r].row
  <2> DEFINE next == IF Len(Append(thread[r].steps, outcome)) < Len(Chain[Current(r)])
                     THEN "act" ELSE "finish"
             new == [thread[r] EXCEPT !.steps = Append(thread[r].steps, outcome), !.pc = next]
  <2>1. thread' = [thread EXCEPT ![r] = new] /\ next \in {"act", "finish"}
    BY <1>4 DEF Record
  <2> HIDE DEF next
  <2>2. new.pc = next /\ new.row = thread[r].row
    BY <1>1 DEF ThreadState
  <2> HIDE DEF new
  <2>3. thread'[r] = new
    BY <1>1, <2>1
  <2> QED
    BY <2>1, <2>2, <2>3 DEF HasRow
<1> QED
  BY <1>2, <1>3, <1>4

\* What a goroutine does to its row: nothing, create it, or let it go.
LEMMA RowMoves ==
    ASSUME TypeInv, NEW r \in Runners, RunnerStep(r) \/ FaultyStep(r)
    PROVE  \/ /\ UNCHANGED <<executions, abandoned>>
              /\ HasRow(r)' <=> HasRow(r)
              /\ HasRow(r) => thread'[r].row = thread[r].row
           \/ /\ thread[r].pc = "create" /\ executions' = Append(executions, NewRow(r))
              /\ \/ /\ thread'[r].row = Len(executions) + 1
                    /\ UNCHANGED abandoned
                 \/ /\ ~HasRow(r)'
                    /\ abandoned' = abandoned \cup {Len(executions) + 1}
           \/ /\ thread[r].pc = "finish" /\ ~HasRow(r)'
              /\ \/ StoreOutcome(r) /\ UNCHANGED abandoned
                 \/ /\ StoreOutcome(r) \/ UNCHANGED executions
                    /\ abandoned' = abandoned \cup {thread[r].row}
<1>1. thread \in [Runners -> ThreadState] /\ thread[r] \in ThreadState
  BY DEF TypeInv, TypeOK
<1>2. NextWorkflow(r) => ~HasRow(r)'
  BY RowInHand DEF NextWorkflow
<1>3. CASE \/ ListWorkflows(r) \/ ListWorkflowsFails(r) \/ Return(r) \/ HasExecution(r)
           \/ CountExecutions(r) \/ CheckFails(r)
  <2>1. UNCHANGED <<executions, abandoned>> /\ ~HasRow(r)
    BY <1>3 DEF ListWorkflows, ListWorkflowsFails, Return, HasExecution, CountExecutions,
       CheckFails, tables, history, HasRow
  <2>2. ~HasRow(r)'
    <3>1. CASE Return(r)
      BY <1>1, <3>1 DEF Return, IdleThread, HasRow
    <3>2. CASE ~Return(r)
      BY <1>2, <1>3, <3>2, RowInHand
      DEF ListWorkflows, ListWorkflowsFails, HasExecution, CountExecutions, CheckFails, HasRow
    <3> QED
      BY <3>1, <3>2
  <2> QED
    BY <2>1, <2>2
<1>4. CASE CreateExecution(r)
  <2>1. /\ thread[r].pc = "create" /\ executions' = Append(executions, NewRow(r))
        /\ UNCHANGED abandoned
    BY <1>4 DEF CreateExecution, history
  <2>2. thread'[r].row = Len(executions) + 1
    BY <1>1, <1>4 DEF CreateExecution, ThreadState
  <2> QED
    BY <2>1, <2>2
<1>5. CASE CreateExecutionFails(r)
  BY <1>2, <1>5 DEF CreateExecutionFails, HasRow
<1>6. CASE PlainAction(r) \/ FindLead(r) \/ CreateLead(r) \/ ActionFails(r)
  <2>1. UNCHANGED <<executions, abandoned>> /\ HasRow(r)
    BY <1>6 DEF PlainAction, FindLead, CreateLead, ActionFails, tables, history, HasRow
  <2>2. (\E outcome : Record(r, outcome)) \/ Goto(r, "lead")
    BY <1>6 DEF PlainAction, FindLead, CreateLead, ActionFails, Complete
  <2>3. HasRow(r)' /\ thread'[r].row = thread[r].row
    BY <2>2, RowInHand DEF HasRow
  <2> QED
    BY <2>1, <2>3
<1>7. CASE Finish(r) \/ FinishFails(r)
  BY <1>2, <1>7 DEF Finish, FinishFails, history
<1> QED
  BY <1>3, <1>4, <1>5, <1>6, <1>7 DEF RunnerStep, FaultyStep

\* RunningIsOwned, goroutine by goroutine.
OwnedInv ==
    /\ \A e \in DOMAIN executions \ Ended :
          e \in abandoned \/ \E r \in Runners : HasRow(r) /\ thread[r].row = e
    /\ \A r \in Runners : HasRow(r) =>
          /\ thread[r].row \in DOMAIN executions
          /\ thread[r].row \notin Ended \cup abandoned
    /\ \A q, r \in Runners :
          HasRow(q) /\ HasRow(r) /\ thread[q].row = thread[r].row => q = r

LEMMA InitOwned == Init => OwnedInv
BY DEF Init, OwnedInv, HasRow, IdleThread

\* Steps of no goroutine, or of some that have no row.
LEMMA OwnedQuiet ==
    ASSUME OwnedInv, UNCHANGED <<executions, abandoned>>,
           \A q \in Runners : /\ HasRow(q)' <=> HasRow(q)
                              /\ HasRow(q) => thread'[q].row = thread[q].row
    PROVE  OwnedInv'
BY DEF OwnedInv, Ended

LEMMA OwnedOthers ==
    ASSUME TypeInv, OwnedInv,
           \/ UNCHANGED vars \/ TimePasses
           \/ \E m \in Mentions : Request(m) \/ Qualify(m)
           \/ \E r \in Runners, m \in Mentions : Start(r, m)
           \/ \E S \in SUBSET Runners : Crash(S)
    PROVE  OwnedInv'
<1>1. CASE UNCHANGED vars \/ TimePasses \/ \E m \in Mentions : Request(m) \/ Qualify(m)
  <2>1. UNCHANGED <<executions, abandoned, thread>>
    BY <1>1 DEF vars, TimePasses, Request, Qualify, tables, history
  <2> QED
    BY <2>1, OwnedQuiet DEF HasRow
<1>2. ASSUME NEW r \in Runners, NEW m \in Mentions, Start(r, m) PROVE OwnedInv'
  <2>1. UNCHANGED <<executions, abandoned>>
    BY <1>2 DEF Start, tables, history, effects
  <2>2. /\ \A q \in Runners : q # r => thread'[q] = thread[q]
        /\ thread'[r].pc = "list" /\ thread[r].pc = "idle"
    BY <1>2 DEF Start, IdleThread, Busy, TypeInv, TypeOK
  <2> QED
    BY <2>1, <2>2, OwnedQuiet DEF HasRow
<1>3. ASSUME NEW S \in SUBSET Runners, Crash(S) PROVE OwnedInv'
  <2>1. /\ executions' = executions
        /\ abandoned' = abandoned \cup {thread[r].row : r \in {q \in S : HasRow(q)}}
    BY <1>3 DEF Crash, tables
  <2>2. \A q \in Runners :
           thread'[q] = IF q \in S THEN IdleThread ELSE thread[q]
    BY <1>3 DEF Crash
  <2>3. \A q \in Runners :
           /\ HasRow(q)' <=> q \notin S /\ HasRow(q)
           /\ HasRow(q)' => thread'[q].row = thread[q].row
    BY <2>2 DEF HasRow, IdleThread
  <2>4. Ended' = Ended
    BY <2>1 DEF Ended
  <2> QED
    BY <2>1, <2>3, <2>4 DEF OwnedInv
<1> QED
  BY <1>1, <1>2, <1>3

LEMMA OwnedSteps ==
    ASSUME TypeInv, OwnedInv, NEW r \in Runners, RunnerStep(r) \/ FaultyStep(r)
    PROVE  OwnedInv'
<1>1. \A q \in Runners : q # r => (HasRow(q)' <=> HasRow(q)) /\ thread'[q].row = thread[q].row
  BY MovesAlone DEF HasRow
<1>2. CASE /\ UNCHANGED <<executions, abandoned>>
           /\ HasRow(r)' <=> HasRow(r)
           /\ HasRow(r) => thread'[r].row = thread[r].row
  <2>1. \A q \in Runners : /\ HasRow(q)' <=> HasRow(q)
                           /\ HasRow(q) => thread'[q].row = thread[q].row
    BY <1>1, <1>2
  <2> QED
    BY <1>2, <2>1, OwnedQuiet
<1>3. CASE thread[r].pc = "create" /\ executions' = Append(executions, NewRow(r))
  <2> DEFINE e0 == Len(executions) + 1
  <2>1. NewRow(r) \in Execution /\ NewRow(r).status = "running"
    BY <1>3, NewRowType DEF Working
  <2>2. /\ DOMAIN executions' = DOMAIN executions \cup {e0} /\ executions'[e0] = NewRow(r)
        /\ \A i \in DOMAIN executions : executions'[i] = executions[i]
    BY <1>3, <2>1, AddedRow DEF TypeInv
  <2>3. e0 \notin DOMAIN executions /\ e0 \notin abandoned
    BY DEF TypeInv, TypeOK
  <2>4. Ended' = Ended
    BY <2>1, <2>2, <2>3 DEF Ended
  <2>5. ~HasRow(r) /\ Ended \subseteq DOMAIN executions
    BY <1>3 DEF HasRow, Ended
  <2> HIDE DEF e0
  <2>6. CASE HasRow(r)' /\ thread'[r].row = e0 /\ UNCHANGED abandoned
    BY <1>1, <2>2, <2>3, <2>4, <2>5, <2>6 DEF OwnedInv
  <2>7. CASE ~HasRow(r)' /\ abandoned' = abandoned \cup {e0}
    BY <1>1, <2>2, <2>3, <2>4, <2>5, <2>7 DEF OwnedInv
  <2>8. CASE ~HasRow(r)' /\ UNCHANGED abandoned
    <3>1. CreateExecution(r)
      BY <1>3, <2>3, <2>8 DEF RunnerStep, FaultyStep, ListWorkflows, ListWorkflowsFails,
         HasExecution, CountExecutions, CheckFails, CreateExecutionFails, PlainAction,
         FindLead, CreateLead, ActionFails, Finish, FinishFails, Return, e0
    <3> QED
      BY <2>8, <3>1 DEF CreateExecution, HasRow, TypeInv, TypeOK, ThreadState
  <2> QED
    BY <1>3, <2>5, <2>6, <2>7, <2>8, RowMoves DEF e0
<1>4. CASE /\ thread[r].pc = "finish" /\ ~HasRow(r)'
           /\ \/ StoreOutcome(r) /\ UNCHANGED abandoned
              \/ /\ StoreOutcome(r) \/ UNCHANGED executions
                 /\ abandoned' = abandoned \cup {thread[r].row}
  <2> DEFINE e0 == thread[r].row
  <2>1. HasRow(r) /\ e0 \in DOMAIN executions
    BY <1>4 DEF HasRow, OwnedInv
  <2>2. /\ DOMAIN executions' = DOMAIN executions
        /\ \A i \in DOMAIN executions : i # e0 => executions'[i] = executions[i]
        /\ \/ executions'[e0].status # "running" /\ UNCHANGED abandoned
           \/ abandoned' = abandoned \cup {e0}
    BY <1>4, StoredOutcome
  <2> HIDE DEF e0
  <2>3. /\ \A i \in DOMAIN executions \ {e0} : i \in Ended' <=> i \in Ended
        /\ e0 \in Ended' \cup abandoned'
        /\ abandoned \subseteq abandoned' /\ abandoned' \subseteq abandoned \cup {e0}
    BY <2>1, <2>2 DEF Ended
  <2>4. \A q \in Runners : HasRow(q)' => q # r /\ HasRow(q) /\ thread'[q].row # e0
    BY <1>1, <1>4, <2>1 DEF OwnedInv, e0
  <2>5. \A e \in DOMAIN executions' \ Ended' :
           e \in abandoned' \/ \E q \in Runners : HasRow(q)' /\ thread'[q].row = e
    <3> SUFFICES ASSUME NEW e \in DOMAIN executions' \ Ended', e \notin abandoned'
                 PROVE  \E q \in Runners : HasRow(q)' /\ thread'[q].row = e
      OBVIOUS
    <3>1. e # e0 /\ e \in DOMAIN executions \ Ended /\ e \notin abandoned
      BY <2>2, <2>3
    <3>2. PICK q \in Runners : HasRow(q) /\ thread[q].row = e
      BY <3>1 DEF OwnedInv
    <3>3. q # r
      BY <3>1, <3>2 DEF e0
    <3> QED
      BY <1>1, <3>2, <3>3
  <2>6. \A q \in Runners : HasRow(q)' =>
           /\ thread'[q].row \in DOMAIN executions'
           /\ thread'[q].row \notin Ended' \cup abandoned'
    BY <1>1, <2>2, <2>3, <2>4 DEF OwnedInv
  <2>7. \A p, q \in Runners :
           HasRow(p)' /\ HasRow(q)' /\ thread'[p].row = thread'[q].row => p = q
    BY <1>1, <2>4 DEF OwnedInv
  <2> QED
    BY <2>5, <2>6, <2>7 DEF OwnedInv
<1> QED
  BY <1>2, <1>3, <1>4, RowMoves

LEMMA OwnedNext == TypeInv /\ OwnedInv /\ [Next]_vars => OwnedInv'
BY OwnedOthers, OwnedSteps DEF Next

LEMMA OwnedCorrect == Spec => [](TypeInv /\ OwnedInv)
BY InitType, InitOwned, NextType, OwnedNext, PTL DEF Spec

\* A running execution is in the hands of exactly one goroutine, unless its
\* goroutine died or could not store the outcome.
THEOREM RunningIsOwnedAlways == Spec => []RunningIsOwned
<1>1. OwnedInv => RunningIsOwned
  BY DEF OwnedInv, RunningIsOwned
<1> QED
  BY <1>1, OwnedCorrect, PTL

\* Executions are never lost, passed on or written twice.
THEOREM ExecutionsAreFinalAlways == Spec => ExecutionsAreFinal
<1>1. TypeInv /\ OwnedInv /\ [Next]_vars => HistoryKept
  <2> SUFFICES ASSUME TypeInv, OwnedInv, [Next]_vars PROVE HistoryKept
    OBVIOUS
  <2>1. CASE executions' = executions
    BY <2>1 DEF HistoryKept
  <2>2. ASSUME NEW r \in Runners, RunnerStep(r) \/ FaultyStep(r) PROVE HistoryKept
    <3>1. CASE thread[r].pc = "create" /\ executions' = Append(executions, NewRow(r))
      <4>1. NewRow(r) \in Execution
        BY <3>1, NewRowType DEF Working
      <4> QED
        BY <3>1, <4>1, AddedRow DEF TypeInv, HistoryKept
    <3>2. CASE thread[r].pc = "finish" /\ StoreOutcome(r)
      <4>1. /\ thread[r].row \in DOMAIN executions
            /\ executions[thread[r].row].status = "running"
        BY <3>2 DEF OwnedInv, HasRow, Ended
      <4> QED
        BY <3>2, <4>1, StoredOutcome DEF RowsKept, HistoryKept
    <3> QED
      BY <2>1, <2>2, <3>1, <3>2, WhatChanges
  <2>3. CASE \/ UNCHANGED vars \/ TimePasses
             \/ \E m \in Mentions : Request(m) \/ Qualify(m)
             \/ \E r \in Runners, m \in Mentions : Start(r, m)
             \/ \E S \in SUBSET Runners : Crash(S)
    <3>1. executions' = executions
      BY <2>3 DEF vars, TimePasses, Request, Qualify, Start, Crash, tables
    <3> QED
      BY <2>1, <3>1
  <2> QED
    BY <2>2, <2>3 DEF Next
<1> QED
  BY <1>1, OwnedCorrect, PTL DEF Spec, ExecutionsAreFinal

-----------------------------------------------------------------------------
(* No match is lost *)

Done(w, m) == Rows(w, m) # {} \/ <<w, m>> \in excused

\* A goroutine that has the list of workflows has seen to those it has left
\* behind.
Served(r) ==
    /\ thread[r].pc \in {"list", "return"} => thread[r].todo = {}
    /\ Busy(r) /\ thread[r].pc # "list" =>
          \A w \in Matching(Mention(r)) \ thread[r].todo : Done(w, Mention(r))

MatchInv == NoMatchLost /\ \A r \in Runners : Served(r)

LEMMA InitMatch == Init => MatchInv
BY DEF Init, MatchInv, NoMatchLost, Served, Busy, IdleThread

\* What has been seen to stays so when a goroutine moves.
LEMMA StillDone ==
    ASSUME TypeInv, NEW r \in Runners, RunnerStep(r) \/ FaultyStep(r), NEW w, NEW m, Done(w, m)
    PROVE  Done(w, m)'
<1>1. Rows(w, m) # {} => Rows(w, m)' # {}
  BY WhatChanges, RowsOf
<1>2. excused \subseteq excused'
  BY DEF RunnerStep, FaultyStep, ListWorkflows, ListWorkflowsFails, HasExecution,
     CountExecutions, CheckFails, CreateExecution, CreateExecutionFails, PlainAction,
     FindLead, CreateLead, ActionFails, Finish, FinishFails, Return, Excuse, history
<1> QED
  BY <1>1, <1>2 DEF Done

\* How the workflows before a goroutine change.
LEMMA TodoOf ==
    ASSUME TypeInv, NEW r \in Runners
    PROVE  /\ \A S : TurnTo(r, S) =>
                 /\ thread'[r].todo = S
                 /\ thread'[r].pc = IF S = {} THEN "return" ELSE "has"
           /\ \A step : Goto(r, step) =>
                 thread'[r].pc = step /\ thread'[r].todo = thread[r].todo
           /\ \A outcome : Record(r, outcome) =>
                 thread'[r].pc \in {"act", "finish"} /\ thread'[r].todo = thread[r].todo
<1>1. thread \in [Runners -> ThreadState] /\ thread[r] \in ThreadState
  BY DEF TypeInv, TypeOK
<1>2. ASSUME NEW S, TurnTo(r, S)
      PROVE  /\ thread'[r].todo = S
             /\ thread'[r].pc = IF S = {} THEN "return" ELSE "has"
  <2> DEFINE next == IF S = {} THEN "return" ELSE "has"
             new == [thread[r] EXCEPT !.pc = next, !.todo = S, !.row = 0, !.steps = <<>>]
  <2>1. thread' = [thread EXCEPT ![r] = new]
    BY <1>2 DEF TurnTo
  <2> HIDE DEF next
  <2>2. new.pc = next /\ new.todo = S
    BY <1>1 DEF ThreadState
  <2> HIDE DEF new
  <2>3. thread'[r] = new
    BY <1>1, <2>1
  <2> QED
    BY <2>2, <2>3 DEF next
<1>3. ASSUME NEW step, Goto(r, step)
      PROVE  thread'[r].pc = step /\ thread'[r].todo = thread[r].todo
  BY <1>1, <1>3 DEF Goto, ThreadState
<1>4. ASSUME NEW outcome, Record(r, outcome)
      PROVE  thread'[r].pc \in {"act", "finish"} /\ thread'[r].todo = thread[r].todo
  <2> DEFINE next == IF Len(Append(thread[r].steps, outcome)) < Len(Chain[Current(r)])
                     THEN "act" ELSE "finish"
             new == [thread[r] EXCEPT !.steps = Append(thread[r].steps, outcome), !.pc = next]
  <2>1. thread' = [thread EXCEPT ![r] = new] /\ next \in {"act", "finish"}
    BY <1>4 DEF Record
  <2> HIDE DEF next
  <2>2. new.pc = next /\ new.todo = thread[r].todo
    BY <1>1 DEF ThreadState
  <2> HIDE DEF new
  <2>3. thread'[r] = new
    BY <1>1, <2>1
  <2> QED
    BY <2>1, <2>2, <2>3
<1> QED
  BY <1>2, <1>3, <1>4

\* A goroutine takes the list, goes on with a workflow, leaves it behind seen
\* to, or returns with none left.
LEMMA TodoMoves ==
    ASSUME TypeInv, NEW r \in Runners, RunnerStep(r) \/ FaultyStep(r),
           NEW w, w = Current(r), NEW m, m = Mention(r)
    PROVE  /\ UNCHANGED <<streams, requested>>
           /\ \/ /\ thread[r].pc = "list" /\ thread'[r].todo = Matching(m)
                 /\ thread'[r].pc = IF Matching(m) = {} THEN "return" ELSE "has"
                 /\ UNCHANGED pending
              \/ /\ thread[r].pc = "list" /\ thread'[r].todo = thread[r].todo
                 /\ thread'[r].pc = "return"
                 /\ \A x \in Matching(m) : <<x, m>> \in excused'
                 /\ UNCHANGED pending
              \/ /\ Working(r) /\ Working(r)' /\ thread'[r].todo = thread[r].todo
                 /\ UNCHANGED pending
              \/ /\ Working(r) /\ thread'[r].todo = thread[r].todo \ {w}
                 /\ thread'[r].pc = IF thread'[r].todo = {} THEN "return" ELSE "has"
                 /\ Done(w, m)'
                 /\ UNCHANGED pending
              \/ /\ thread[r].pc = "return" /\ thread'[r].pc = "idle"
                 /\ pending' = IF streams THEN pending \ {m} ELSE pending
<1> DEFINE Leaves == /\ thread'[r].todo = thread[r].todo \ {w}
                     /\ thread'[r].pc = IF thread'[r].todo = {} THEN "return" ELSE "has"
           Stays == Working(r)' /\ thread'[r].todo = thread[r].todo
<1>1. NextWorkflow(r) => Leaves
  BY TodoOf DEF NextWorkflow
<1>2. \A step \in {"count", "create", "lead"} : Goto(r, step) => Stays
  BY TodoOf DEF Working
<1>3. \A outcome : Record(r, outcome) => Stays
  BY TodoOf DEF Working
<1>4. Complete(r) => Stays
  BY <1>3 DEF Complete
<1> HIDE DEF Leaves, Stays
<1>5. CASE ListWorkflows(r) \/ ListWorkflowsFails(r)
  BY <1>5, TodoOf DEF ListWorkflows, ListWorkflowsFails, requests, Matching
<1>6. CASE HasExecution(r) \/ CountExecutions(r) \/ CheckFails(r)
  <2>1. UNCHANGED requests /\ Working(r)
    BY <1>6 DEF HasExecution, CountExecutions, CheckFails, Working
  <2>2. ASSUME ~Stays PROVE Leaves /\ (Rows(w, m) # {} \/ <<w, m>> \in excused')
    BY <1>1, <1>2, <1>6, <2>2 DEF HasExecution, CountExecutions, CheckFails, Excuse
  <2>3. Rows(w, m)' = Rows(w, m)
    BY <1>6, RowsOf DEF HasExecution, CountExecutions, CheckFails, tables
  <2> QED
    BY <2>1, <2>2, <2>3 DEF requests, Leaves, Stays, Done
<1>7. CASE CreateExecution(r)
  <2>1. UNCHANGED requests /\ Working(r)
    BY <1>7 DEF CreateExecution, Working
  <2>2. Stays
    BY <1>7 DEF CreateExecution, TypeInv, TypeOK, ThreadState, Working, Stays
  <2> QED
    BY <2>1, <2>2 DEF requests, Stays
<1>8. CASE CreateExecutionFails(r)
  <2>1. UNCHANGED requests /\ Working(r) /\ Leaves /\ thread[r].pc = "create"
    BY <1>1, <1>8 DEF CreateExecutionFails, Working
  <2>2. CASE Excuse(r)
    BY <2>1, <2>2 DEF Excuse, Done, Leaves, requests
  <2>3. CASE executions' = Append(executions, NewRow(r))
    <3>1. /\ NewRow(r) \in Execution /\ NewRow(r).workflow = w /\ NewRow(r).mention = m
      BY <2>1, NewRowType
    <3>2. Len(executions) + 1 \in Rows(w, m)'
      BY <2>3, <3>1, AddedRow DEF Rows, TypeInv
    <3> QED
      BY <2>1, <3>2 DEF Done, Leaves, requests
  <2> QED
    BY <1>8, <2>2, <2>3 DEF CreateExecutionFails
<1>9. CASE PlainAction(r) \/ FindLead(r) \/ CreateLead(r) \/ ActionFails(r)
  <2>1. UNCHANGED requests /\ Working(r)
    BY <1>9 DEF PlainAction, FindLead, CreateLead, ActionFails, Working
  <2>2. Stays
    BY <1>2, <1>3, <1>4, <1>9 DEF PlainAction, FindLead, CreateLead, ActionFails
  <2> QED
    BY <2>1, <2>2 DEF requests, Stays
<1>10. CASE Finish(r) \/ FinishFails(r)
  <2>1. UNCHANGED requests /\ Working(r) /\ Leaves /\ thread[r].pc = "finish"
        /\ (StoreOutcome(r) \/ executions' = executions)
    BY <1>1, <1>10 DEF Finish, FinishFails, Working
  <2>2. thread[r].row \in Rows(w, m)
    BY <2>1 DEF TypeInv, ThreadOK, HasRow, Rows
  <2>3. Rows(w, m)' = Rows(w, m)
    BY <2>1, RowsOf
  <2> QED
    BY <2>1, <2>2, <2>3 DEF Done, Leaves, requests
<1>11. CASE Return(r)
  BY <1>11 DEF Return, IdleThread, TypeInv, TypeOK
<1> QED
  BY <1>5, <1>6, <1>7, <1>8, <1>9, <1>10, <1>11 DEF RunnerStep, FaultyStep

LEMMA MatchSteps ==
    ASSUME TypeInv, MatchInv, NEW r \in Runners, RunnerStep(r) \/ FaultyStep(r)
    PROVE  MatchInv'
<1>1. /\ Busy(r) /\ \A q \in Runners : q # r => thread'[q] = thread[q]
      /\ thread'[r].pc # "idle" => thread'[r].mention = thread[r].mention
  BY MovesAlone
<1>2. \A w, m : Done(w, m) => Done(w, m)'
  BY StillDone
<1>3. Served(r)
  BY DEF MatchInv
<1> DEFINE Lists(m) == /\ thread[r].pc = "list" /\ thread'[r].todo = Matching(m)
                       /\ thread'[r].pc = IF Matching(m) = {} THEN "return" ELSE "has"
                       /\ UNCHANGED pending
           ListFails(m) == /\ thread[r].pc = "list" /\ thread'[r].todo = thread[r].todo
                           /\ thread'[r].pc = "return"
                           /\ \A x \in Matching(m) : <<x, m>> \in excused'
                           /\ UNCHANGED pending
           Stays == /\ Working(r) /\ Working(r)' /\ thread'[r].todo = thread[r].todo
                    /\ UNCHANGED pending
           Leaves(w, m) == /\ Working(r) /\ thread'[r].todo = thread[r].todo \ {w}
                           /\ thread'[r].pc = IF thread'[r].todo = {} THEN "return" ELSE "has"
                           /\ Rows(w, m)' # {} \/ <<w, m>> \in excused'
                           /\ UNCHANGED pending
           Returns(m) == /\ thread[r].pc = "return" /\ thread'[r].pc = "idle"
                         /\ pending' = IF streams THEN pending \ {m} ELSE pending
<1>4. PICK w0, m0 : w0 = Current(r) /\ m0 = Mention(r)
  OBVIOUS
<1>5. /\ UNCHANGED <<streams, requested>>
      /\ Lists(m0) \/ ListFails(m0) \/ Stays \/ Leaves(w0, m0) \/ Returns(m0)
  BY <1>4, TodoMoves DEF Done
<1>6. Matching(m0)' = Matching(m0) /\ (thread'[r].pc # "idle" => Mention(r)' = m0)
  BY <1>1, <1>4 DEF Matching, Mention
<1>7. ASSUME NEW w \in Workflows, NEW m \in requested, <<w, m>> \in Matches, ~Done(w, m)'
      PROVE  \/ m \in pending'
             \/ /\ ~streams
                /\ \E q \in Runners :
                      /\ Busy(q)' /\ Mention(q)' = m
                      /\ thread'[q].pc = "list" \/ w \in thread'[q].todo
  <2>1. w \in Matching(m) /\ ~Done(w, m)
    BY <1>2, <1>7 DEF Matching
  <2>2. CASE m \in pending
    <3>1. CASE m \notin pending'
      <4>1. Returns(m0) /\ m = m0
        BY <1>5, <2>2, <3>1
      <4> QED
        BY <1>1, <1>3, <1>4, <2>1, <4>1 DEF Served
    <3> QED
      BY <3>1
  <2>3. ASSUME ~streams, NEW q \in Runners, Busy(q), Mention(q) = m,
               thread[q].pc = "list" \/ w \in thread[q].todo
        PROVE  /\ Busy(q)' /\ Mention(q)' = m
               /\ thread'[q].pc = "list" \/ w \in thread'[q].todo
    <3>1. CASE q # r
      BY <1>1, <2>3, <3>1 DEF Busy, Mention
    <3>2. CASE q = r
      <4>1. m = m0 /\ ~(<<w, m>> \in excused')
        BY <1>4, <1>7, <2>3, <3>2 DEF Done
      <4>2. ~ListFails(m0) /\ ~Returns(m0)
        BY <1>3, <2>1, <2>3, <3>2, <4>1 DEF Served
      <4>3. CASE Lists(m0)
        BY <1>6, <2>1, <3>2, <4>1, <4>3 DEF Busy
      <4>4. CASE Stays
        BY <1>6, <2>3, <3>2, <4>1, <4>4 DEF Busy, Working
      <4>5. CASE Leaves(w0, m0)
        <5>1. w # w0
          BY <1>7, <4>1, <4>5 DEF Done
        <5>2. w \in thread'[r].todo
          BY <2>3, <3>2, <4>5, <5>1 DEF Working
        <5> QED
          BY <1>6, <3>2, <4>1, <4>5, <5>2 DEF Busy
      <4> QED
        BY <1>5, <4>2, <4>3, <4>4, <4>5
    <3> QED
      BY <3>1, <3>2
  <2> QED
    BY <2>1, <2>2, <2>3, <1>7 DEF MatchInv, NoMatchLost, Done
<1>8. NoMatchLost'
  BY <1>5, <1>7 DEF NoMatchLost, Done
<1>9. ASSUME NEW q \in Runners PROVE Served(q)'
  <2>1. CASE q # r
    <3>1. Served(q) /\ thread'[q] = thread[q] /\ Mention(q)' = Mention(q)
      BY <1>1, <2>1 DEF MatchInv, Mention
    <3> QED
      BY <1>2, <3>1 DEF Served, Busy, Matching
  <2>2. CASE q = r
    <3>1. thread'[r].pc \in {"list", "return"} => thread'[r].todo = {}
      BY <1>3, <1>5 DEF Served, Working
    <3>2. ASSUME Busy(r)', thread'[r].pc # "list", NEW w \in Matching(m0) \ thread'[r].todo
          PROVE  Done(w, m0)'
      <4>1. CASE Lists(m0)
        BY <3>2, <4>1
      <4>2. CASE ListFails(m0)
        BY <3>2, <4>2 DEF Done
      <4>3. CASE Stays
        BY <1>2, <1>3, <1>4, <3>2, <4>3 DEF Served, Busy, Working
      <4>4. CASE Leaves(w0, m0)
        <5>1. CASE w = w0
          BY <4>4, <5>1 DEF Done
        <5>2. CASE w # w0
          BY <1>2, <1>3, <1>4, <3>2, <4>4, <5>2 DEF Served, Busy, Working
        <5> QED
          BY <5>1, <5>2
      <4> QED
        BY <1>5, <3>2, <4>1, <4>2, <4>3, <4>4 DEF Busy
    <3>3. Busy(r)' => Mention(r)' = m0
      BY <1>6 DEF Busy
    <3> QED
      BY <1>6, <2>2, <3>1, <3>2, <3>3 DEF Served
  <2> QED
    BY <2>1, <2>2
<1> QED
  BY <1>8, <1>9 DEF MatchInv

LEMMA MatchOthers ==
    ASSUME TypeInv, MatchInv,
           \/ UNCHANGED vars \/ TimePasses
           \/ \E m \in Mentions : Request(m) \/ Qualify(m)
           \/ \E r \in Runners, m \in Mentions : Start(r, m)
           \/ \E S \in SUBSET Runners : Crash(S)
    PROVE  MatchInv'
<1>1. CASE UNCHANGED vars \/ TimePasses \/ \E m \in Mentions : Request(m) \/ Qualify(m)
  <2>1. /\ UNCHANGED <<executions, excused, thread, streams>>
        /\ \/ UNCHANGED <<requested, pending>>
           \/ \E m \in Mentions : requested' = requested \cup {m} /\ pending' = pending \cup {m}
    BY <1>1 DEF vars, TimePasses, Request, Qualify, tables, requests, history
  <2>2. NoMatchLost'
    <3> DEFINE Seen(w, m) ==
            \E r \in Runners : /\ Busy(r) /\ Mention(r) = m
                               /\ thread[r].pc = "list" \/ w \in thread[r].todo
    <3>1. \A w, m : (Seen(w, m)' <=> Seen(w, m)) /\ Rows(w, m)' = Rows(w, m)
      BY <2>1 DEF Rows, Busy, Mention
    <3> HIDE DEF Seen
    <3>2. /\ pending \subseteq pending'
          /\ \A m \in requested' : m \in requested \/ m \in pending'
      BY <2>1
    <3>3. \A w \in Workflows : \A m \in {x \in requested : <<w, x>> \in Matches} :
             \/ Rows(w, m) # {} \/ <<w, m>> \in excused \/ m \in pending
             \/ ~streams /\ Seen(w, m)
      BY DEF MatchInv, NoMatchLost, Seen
    <3>4. \A w \in Workflows : \A m \in {x \in requested' : <<w, x>> \in Matches} :
             \/ Rows(w, m)' # {} \/ <<w, m>> \in excused' \/ m \in pending'
             \/ ~streams' /\ Seen(w, m)'
      BY <2>1, <3>1, <3>2, <3>3
    <3> QED
      BY <3>4 DEF NoMatchLost, Seen
  <2>3. \A r \in Runners : Served(r)'
    BY <2>1 DEF MatchInv, Served, Busy, Mention, Done, Rows, Matching
  <2> QED
    BY <2>2, <2>3 DEF MatchInv
<1>2. ASSUME NEW r \in Runners, NEW m \in Mentions, Start(r, m) PROVE MatchInv'
  <2>1. /\ UNCHANGED <<executions, excused, streams, requested>>
        /\ ~Busy(r) /\ pending' = IF streams THEN pending ELSE pending \ {m}
    BY <1>2 DEF Start, tables, history
  <2>2. /\ thread'[r].pc = "list" /\ thread'[r].mention = m /\ thread'[r].todo = {}
        /\ \A q \in Runners : q # r => thread'[q] = thread[q]
    BY <1>2 DEF Start, IdleThread, TypeInv, TypeOK
  <2>3. Busy(r)' /\ Mention(r)' = m
    BY <2>2 DEF Busy, Mention
  <2>4. \A q \in Runners : Busy(q) =>
           q # r /\ Busy(q)' /\ Mention(q)' = Mention(q) /\ thread'[q] = thread[q]
    BY <2>1, <2>2 DEF Busy, Mention
  <2>5. NoMatchLost'
    <3> SUFFICES ASSUME NEW w \in Workflows, NEW x \in requested, <<w, x>> \in Matches,
                        Rows(w, x) = {}, <<w, x>> \notin excused, x \notin pending'
                 PROVE  /\ ~streams
                        /\ \E q \in Runners :
                              /\ Busy(q)' /\ Mention(q)' = x
                              /\ thread'[q].pc = "list" \/ w \in thread'[q].todo
      BY <2>1 DEF NoMatchLost, Rows
    <3>1. CASE x \in pending
      BY <2>1, <2>2, <2>3, <3>1
    <3>2. CASE x \notin pending
      <4>1. PICK q \in Runners : /\ ~streams /\ Busy(q) /\ Mention(q) = x
                                 /\ thread[q].pc = "list" \/ w \in thread[q].todo
        BY <3>2 DEF MatchInv, NoMatchLost
      <4> QED
        BY <2>4, <4>1
    <3> QED
      BY <3>1, <3>2
  <2>6. ASSUME NEW q \in Runners PROVE Served(q)'
    <3>1. CASE q = r
      BY <2>2, <3>1 DEF Served
    <3>2. CASE q # r
      BY <2>1, <2>2, <3>2 DEF MatchInv, Served, Busy, Mention, Done, Rows, Matching
    <3> QED
      BY <3>1, <3>2
  <2> QED
    BY <2>5, <2>6 DEF MatchInv
<1>3. ASSUME NEW S \in SUBSET Runners, Crash(S) PROVE MatchInv'
  <2>1. /\ UNCHANGED <<executions, streams, requested, pending>>
        /\ excused \subseteq excused'
        /\ ~streams => \A r \in S : Matching(Mention(r)) \X {Mention(r)} \subseteq excused'
    BY <1>3 DEF Crash, tables, requests
  <2>2. \A q \in Runners : thread'[q] = IF q \in S THEN IdleThread ELSE thread[q]
    BY <1>3 DEF Crash
  <2>3. \A q \in Runners : q \in S \/ thread'[q] = thread[q]
    BY <2>2
  <2>4. NoMatchLost'
    <3> SUFFICES ASSUME NEW w \in Workflows, NEW m \in requested, <<w, m>> \in Matches,
                        Rows(w, m) = {}, <<w, m>> \notin excused', m \notin pending
                 PROVE  /\ ~streams
                        /\ \E q \in Runners :
                              /\ Busy(q)' /\ Mention(q)' = m
                              /\ thread'[q].pc = "list" \/ w \in thread'[q].todo
      BY <2>1 DEF NoMatchLost, Rows
    <3>1. PICK q \in Runners : /\ ~streams /\ Busy(q) /\ Mention(q) = m
                               /\ thread[q].pc = "list" \/ w \in thread[q].todo
      BY <2>1 DEF MatchInv, NoMatchLost
    <3>2. q \notin S
      BY <2>1, <3>1 DEF Matching
    <3> QED
      BY <2>3, <3>1, <3>2 DEF Busy, Mention
  <2>5. ASSUME NEW q \in Runners PROVE Served(q)'
    <3>1. CASE q \in S
      BY <2>2, <3>1 DEF Served, Busy, IdleThread
    <3>2. CASE q \notin S
      BY <2>1, <2>3, <3>2 DEF MatchInv, Served, Busy, Mention, Done, Rows, Matching
    <3> QED
      BY <3>1, <3>2
  <2> QED
    BY <2>4, <2>5 DEF MatchInv
<1> QED
  BY <1>1, <1>2, <1>3

LEMMA MatchNext == TypeInv /\ MatchInv /\ [Next]_vars => MatchInv'
BY MatchOthers, MatchSteps DEF Next

\* A workflow that matches a requested mention has its execution or an
\* excuse, unless the event is not acknowledged or a goroutine has yet to
\* come to it: no crash, redelivery or failure of another workflow loses it.
THEOREM NoMatchLostAlways == Spec => []NoMatchLost
<1>1. MatchInv => NoMatchLost
  BY DEF MatchInv
<1> QED
  BY <1>1, InitType, InitMatch, NextType, MatchNext, PTL DEF Spec

=============================================================================
