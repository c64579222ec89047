------------------------- MODULE MentionPipelineProofs -------------------------
(***************************************************************************)
(* Proofs about MentionPipeline, for any finite set of posts, any stories, *)
(* any allowance and any configurations.                                   *)
(*                                                                         *)
(* Most of a worker's state is the map from posts to steps.  An action     *)
(* either moves one post of one worker (Moved) or gives one worker a new   *)
(* set of posts, all at one step (Loaded); the proofs of the invariants    *)
(* speak of these two only, never of the records.                          *)
(***************************************************************************)
EXTENDS MentionPipeline, FiniteSetTheorems, TLAPS

JobRec == [kind : Kinds, step : [Posts -> Steps],
           backfill : {"no", "due", "done"}, event : Posts \cup {NoPost}]

JobsOK == job \in [Workers -> JobRec]

OthersKept(w) == \A v \in Workers \ {w} : job'[v] = job[v]

\* One post of w moves on to the step s.
Moved(w, p, s) ==
    /\ OthersKept(w)
    /\ job'[w].kind = job[w].kind
    /\ job'[w].event = job[w].event
    /\ \A q \in Posts : job'[w].step[q] = IF q = p THEN s ELSE job[w].step[q]

\* w has the posts S in hand, all at the step s, and no other.
Loaded(w, S, s, k, e) ==
    /\ OthersKept(w)
    /\ job'[w].kind = k
    /\ job'[w].event = e
    /\ \A q \in Posts : job'[w].step[q] = IF q \in S THEN s ELSE "none"

SameBackfill(w) == job'[w].backfill = job[w].backfill

----------------------------------------------------------------------------
(* Footprints of the ways job is changed.                                  *)

LEMMA IdleIsJob == Idle \in JobRec
BY DEF Idle, JobRec, Kinds, Steps

\* A step at which w's post is put.
LEMMA MoveFoot ==
    ASSUME JobsOK, NEW w \in Workers, NEW p \in Posts, NEW s \in Steps, Move(w, p, s)
    PROVE  JobsOK' /\ Moved(w, p, s) /\ SameBackfill(w)
<1>1. job[w] \in JobRec
  BY DEF JobsOK
<1>2. [job[w] EXCEPT !.step[p] = s] \in JobRec
  BY <1>1 DEF JobRec
<1>3. job' = [job EXCEPT ![w] = [job[w] EXCEPT !.step[p] = s]]
  BY DEF Move, JobsOK
<1> QED
  BY <1>1, <1>2, <1>3 DEF JobsOK, JobRec, Moved, OthersKept, SameBackfill

\* A record with a new map of steps.
LEMMA LoadFoot ==
    ASSUME JobsOK, NEW w \in Workers, NEW r \in JobRec, NEW S, NEW s \in Steps, NEW T,
           T = [p \in Posts |-> IF p \in S THEN s ELSE "none"],
           job' = [job EXCEPT ![w] = [r EXCEPT !.step = T]]
    PROVE  JobsOK' /\ Loaded(w, S, s, r.kind, r.event) /\ job'[w].backfill = r.backfill
<1>1. T \in [Posts -> Steps]
  BY DEF Steps
<1>2. [r EXCEPT !.step = T] \in JobRec
  BY <1>1 DEF JobRec
<1> QED
  BY <1>2 DEF JobsOK, JobRec, Loaded, OthersKept

LEMMA PutFoot ==
    ASSUME JobsOK, NEW w \in Workers, NEW r \in JobRec, job' = [job EXCEPT ![w] = r]
    PROVE  JobsOK' /\ OthersKept(w) /\ job'[w] = r
BY DEF JobsOK, OthersKept

LEMMA BeginFoot ==
    ASSUME JobsOK, NEW w \in Workers, NEW kind \in Kinds, NEW found, Begin(w, kind, found)
    PROVE  JobsOK' /\ Loaded(w, found, "fetched", kind, NoPost)
           /\ job'[w].backfill = (IF kind = "scan" /\ Inline THEN "due" ELSE "no")
<1> DEFINE b == IF kind = "scan" /\ Inline THEN "due" ELSE "no"
           T == [p \in Posts |-> IF p \in found THEN "fetched" ELSE "none"]
           i == [Idle EXCEPT !.kind = kind, !.backfill = b, !.step = T]
<1>1. b \in {"no", "due", "done"} /\ T \in [Posts -> Steps]
  BY DEF Steps
<1>2. i \in JobRec
  <2> HIDE DEF b, T
  <2> QED BY <1>1, IdleIsJob DEF JobRec
<1>3. i.kind = kind /\ i.step = T /\ i.backfill = b /\ i.event = NoPost
  <2> HIDE DEF b, T
  <2> QED BY DEF Idle
<1>4. job' = [job EXCEPT ![w] = i]
  BY DEF Begin
<1>5. JobsOK' /\ OthersKept(w) /\ job'[w] = i
  <2> HIDE DEF i
  <2> QED BY <1>2, <1>4, PutFoot
<1> QED
  <2> HIDE DEF i
  <2> QED BY <1>3, <1>5 DEF Loaded

LEMMA PickFoot ==
    ASSUME JobsOK, NEW w \in Workers, NEW ps, NEW s \in Steps, NEW j \in JobRec,
           Pick(w, ps, s, j)
    PROVE  /\ JobsOK' /\ Loaded(w, ps, s, j.kind, j.event) /\ job'[w].backfill = j.backfill
           /\ raced' = raced \cup {p \in ps : \E v \in Workers \ {w} : Holds(v, p)}
<1> DEFINE T == [p \in Posts |-> IF p \in ps THEN s ELSE "none"]
<1>1. job' = [job EXCEPT ![w] = [j EXCEPT !.step = T]]
  BY DEF Pick
<1>2. T = [p \in Posts |-> IF p \in ps THEN s ELSE "none"]
  OBVIOUS
<1>3. JobsOK' /\ Loaded(w, ps, s, j.kind, j.event) /\ job'[w].backfill = j.backfill
  <2> HIDE DEF T
  <2> QED BY <1>1, <1>2, LoadFoot
<1> QED
  BY <1>3 DEF Pick

\* The worker puts everything down.
LEMMA IdleFoot ==
    ASSUME JobsOK, NEW w \in Workers, job' = [job EXCEPT ![w] = Idle]
    PROVE  JobsOK' /\ Loaded(w, {}, "none", "idle", NoPost) /\ job'[w].backfill = "no"
<1>1. JobsOK' /\ OthersKept(w) /\ job'[w] = Idle
  BY IdleIsJob, PutFoot
<1>2. Idle.kind = "idle" /\ Idle.event = NoPost /\ Idle.backfill = "no"
      /\ \A q \in Posts : Idle.step[q] = "none"
  BY DEF Idle
<1> QED
  BY <1>1, <1>2 DEF Loaded

LEMMA TypeJobs == TypeOK => JobsOK
BY DEF TypeOK, JobsOK, JobRec

----------------------------------------------------------------------------
(* What each action does to job.                                           *)

LEMMA LookUpFoot ==
    ASSUME JobsOK, NEW w \in Workers, NEW p \in Posts, LookUp(w, p)
    PROVE  /\ JobsOK' /\ SameBackfill(w) /\ job[w].step[p] = "fetched"
           /\ job[w].kind # "ingest" /\ Through(w, {"insert", "key"})
           /\ \/ Moved(w, p, "none")
              \/ Moved(w, p, "insert") /\ (~Duplicate(p) \/ p \in loose')
BY MoveFoot DEF LookUp, At, Steps

LEMMA InsertFoot ==
    ASSUME JobsOK, NEW w \in Workers, NEW p \in Posts, Insert(w, p)
    PROVE  /\ JobsOK'
           /\ job[w].step[p] = (IF job[w].kind = "ingest" THEN "fetched" ELSE "insert")
           /\ \/ Moved(w, p, "none") /\ SameBackfill(w) /\ UNCHANGED <<row, loose>>
              \/ /\ Moved(w, p, "none") /\ SameBackfill(w)
                 /\ row[p] = "absent"
                 /\ row' = [row EXCEPT ![p] = "new"]
                 /\ loose' = loose \cup {p}
              \/ /\ row[p] = "absent"
                 /\ row' = [row EXCEPT ![p] = "new"]
                 /\ Moved(w, p, IF job[w].kind = "ingest" THEN "held" ELSE "key")
                 /\ loose' = IF job[w].kind = "ingest" THEN loose \cup {p} ELSE loose
                 /\ job'[w].backfill = (IF Inline THEN "due" ELSE "no")
<1>1. job[w].step[p] = (IF job[w].kind = "ingest" THEN "fetched" ELSE "insert")
  BY DEF Insert, At
<1>2. CASE Move(w, p, "none") /\ UNCHANGED <<row, loose>>
  BY <1>1, <1>2, MoveFoot DEF Steps
<1>4. CASE /\ Move(w, p, "none")
           /\ row[p] = "absent" /\ row' = [row EXCEPT ![p] = "new"] /\ loose' = loose \cup {p}
  BY <1>1, <1>4, MoveFoot DEF Steps
<1>3. CASE /\ row[p] = "absent"
           /\ row' = [row EXCEPT ![p] = "new"]
           /\ job' = [job EXCEPT
                 ![w].step[p] = IF job[w].kind = "ingest" THEN "held" ELSE "key",
                 ![w].backfill = IF Inline THEN "due" ELSE "no"]
           /\ loose' = IF job[w].kind = "ingest" THEN loose \cup {p} ELSE loose
  <2> DEFINE s == IF job[w].kind = "ingest" THEN "held" ELSE "key"
             b == IF Inline THEN "due" ELSE "no"
             r == [job[w] EXCEPT !.step[p] = s, !.backfill = b]
  <2>1. job[w] \in JobRec
    BY DEF JobsOK
  <2>2. s \in Steps /\ b \in {"no", "due", "done"}
    BY DEF Steps
  <2>3. /\ r \in JobRec /\ r.kind = job[w].kind /\ r.event = job[w].event /\ r.backfill = b
        /\ \A q \in Posts : r.step[q] = IF q = p THEN s ELSE job[w].step[q]
    <3> HIDE DEF s, b
    <3> QED BY <2>1, <2>2 DEF JobRec
  <2>4. job' = [job EXCEPT ![w] = r]
    BY <1>3 DEF JobsOK
  <2>5. JobsOK' /\ OthersKept(w) /\ job'[w] = r
    <3> HIDE DEF r
    <3> QED BY <2>3, <2>4, PutFoot
  <2>6. Moved(w, p, s) /\ job'[w].backfill = b
    <3> HIDE DEF s, b, r
    <3> QED BY <2>3, <2>5 DEF Moved
  <2> QED
    BY <1>1, <1>3, <2>5, <2>6
<1> QED
  BY <1>2, <1>3, <1>4 DEF Insert, Create

LEMMA RecordDedupeKeysFoot ==
    ASSUME JobsOK, NEW w \in Workers, NEW p \in Posts, RecordDedupeKeys(w, p)
    PROVE  /\ JobsOK' /\ SameBackfill(w) /\ job[w].step[p] = "key" /\ Moved(w, p, "held")
BY MoveFoot DEF RecordDedupeKeys, At, Steps

LEMMA PublishIngestedFoot ==
    ASSUME JobsOK, NEW w \in Workers, NEW p \in Posts, PublishIngested(w, p)
    PROVE  /\ JobsOK' /\ SameBackfill(w) /\ job[w].step[p] = "held"
           /\ Moved(w, p, IF Inline THEN "ready" ELSE "none")
<1>1. (IF Inline THEN "ready" ELSE "none") \in Steps
  BY DEF Steps
<1> QED
  BY <1>1, MoveFoot DEF PublishIngested, At

LEMMA RejectByRulesFoot ==
    ASSUME JobsOK, NEW w \in Workers, NEW p \in Posts, RejectByRules(w, p)
    PROVE  /\ JobsOK' /\ SameBackfill(w) /\ job[w].step[p] \in {"held", "ready"}
           /\ (mode.streams => job[w].step[p] = "ready")
           /\ Moved(w, p, "none")
BY MoveFoot DEF RejectByRules, Scores, Batch, At, Steps

LEMMA FilterMentionFoot ==
    ASSUME JobsOK, NEW w \in Workers, NEW p \in Posts, FilterMention(w, p)
    PROVE  /\ JobsOK' /\ SameBackfill(w) /\ job[w].step[p] = "paid"
           /\ \/ Moved(w, p, "passed") /\ UNCHANGED <<row, unstored>>
              \/ Moved(w, p, "none") /\ Record(p, "filtered")
BY MoveFoot DEF FilterMention, At, Steps

LEMMA ClassifyFoot ==
    ASSUME JobsOK, NEW w \in Workers, NEW p \in Posts, Classify(w, p)
    PROVE  /\ JobsOK' /\ SameBackfill(w) /\ job[w].step[p] = "passed"
           /\ \/ \E v \in Verdicts :
                    Record(p, v) /\ Moved(w, p, IF mode.streams THEN v ELSE AfterVerdict(v))
              \/ /\ Moved(w, p, "none")
                 /\ \/ row' = [row EXCEPT ![p] = "error"] /\ UNCHANGED unstored
                    \/ unstored' = unstored \cup {p} /\ UNCHANGED row
<1>1. \A v \in Verdicts : (IF mode.streams THEN v ELSE AfterVerdict(v)) \in Steps
  BY DEF Verdicts, AfterVerdict, Steps
<1> QED
  BY <1>1, MoveFoot DEF Classify, Record, At, Steps

LEMMA PublishScoredFoot ==
    ASSUME JobsOK, NEW w \in Workers, NEW p \in Posts, PublishScored(w, p)
    PROVE  /\ JobsOK' /\ SameBackfill(w) /\ job[w].step[p] \in Verdicts
           /\ Moved(w, p, AfterVerdict(job[w].step[p]))
<1>1. AfterVerdict(job[w].step[p]) \in Steps
  BY DEF AfterVerdict, Steps
<1> QED
  BY <1>1, MoveFoot DEF PublishScored, At

LEMMA QualifyAsLeadFoot ==
    ASSUME JobsOK, NEW w \in Workers, NEW p \in Posts, QualifyAsLead(w, p)
    PROVE  /\ JobsOK' /\ SameBackfill(w) /\ job[w].step[p] = "qualify"
           /\ Moved(w, p, IF mode.streams THEN "none" ELSE "flow")
<1>1. (IF mode.streams THEN "none" ELSE "flow") \in Steps
  BY DEF Steps
<1> QED
  BY <1>1, MoveFoot DEF QualifyAsLead, At

LEMMA RunWorkflowsFoot ==
    ASSUME JobsOK, NEW w \in Workers, NEW p \in Posts, RunWorkflows(w, p)
    PROVE  /\ JobsOK' /\ SameBackfill(w) /\ job[w].step[p] = "flow" /\ Moved(w, p, "none")
BY MoveFoot DEF RunWorkflows, At, Steps

LEMMA PanicFoot ==
    ASSUME JobsOK, NEW w \in Workers, NEW p \in Posts, Panic(w, p)
    PROVE  /\ JobsOK' /\ SameBackfill(w) /\ Moved(w, p, "none")
           /\ job[w].kind # "qualify"
           /\ job[w].step[p] \in {"paid", "passed", "qualify", "flow"} \cup Verdicts
BY MoveFoot DEF Panic, At, Steps

LEMMA TakeCreditsFoot ==
    ASSUME JobsOK, NEW w \in Workers, TakeCredits(w)
    PROVE  /\ JobsOK' /\ SameBackfill(w) /\ Scores(w)
           /\ \E kept \in SUBSET Batch(w) :
                 /\ Loaded(w, kept, "paid", job[w].kind, job[w].event)
                 /\ unpaid' = unpaid \cup (Batch(w) \ kept)
<1>1. job[w] \in JobRec /\ "paid" \in Steps
  BY DEF JobsOK, Steps
<1>2. PICK kept \in SUBSET Batch(w) :
          /\ unpaid' = unpaid \cup (Batch(w) \ kept)
          /\ job' = [job EXCEPT
                ![w].step = [p \in Posts |-> IF p \in kept THEN "paid" ELSE "none"]]
  BY DEF TakeCredits
<1> DEFINE T == [p \in Posts |-> IF p \in kept THEN "paid" ELSE "none"]
<1>3. "none" \in Steps
  BY DEF Steps
<1>4. job' = [job EXCEPT ![w] = [job[w] EXCEPT !.step = T]]
  BY <1>2 DEF JobsOK
<1>5. JobsOK' /\ Loaded(w, kept, "paid", job[w].kind, job[w].event)
      /\ job'[w].backfill = job[w].backfill
  <2> DEFINE r == [job[w] EXCEPT !.step = T]
  <2>1. /\ r \in JobRec /\ r.kind = job[w].kind /\ r.event = job[w].event
        /\ r.backfill = job[w].backfill /\ r.step = T
    <3>1. T \in [Posts -> Steps]
      BY <1>1, <1>3
    <3> HIDE DEF T
    <3> QED BY <1>1, <3>1 DEF JobRec
  <2>2. JobsOK' /\ OthersKept(w) /\ job'[w] = r
    <3>1. job' = [job EXCEPT ![w] = r]
      BY <1>4
    <3> HIDE DEF r
    <3> QED BY <2>1, <3>1, PutFoot
  <2> HIDE DEF r
  <2> QED
    BY <2>1, <2>2 DEF Loaded
<1> QED
  BY <1>2, <1>5 DEF SameBackfill, TakeCredits

LEMMA BackfillFoot ==
    ASSUME JobsOK, NEW w \in Workers, BackfillUnclassified(w)
    PROVE  /\ JobsOK' /\ job[w].backfill = "due" /\ Empty(w) /\ job'[w].backfill = "done"
           /\ \/ /\ Loaded(w, Unclassified, "ready", job[w].kind, job[w].event)
                 /\ raced' = raced \cup {p \in Unclassified :
                                            \E v \in Workers \ {w} : Holds(v, p)}
              \/ /\ Loaded(w, {}, "none", job[w].kind, job[w].event)
                 /\ raced \subseteq raced'
<1> DEFINE j == [job[w] EXCEPT !.backfill = "done"]
<1>1. j \in JobRec /\ j.kind = job[w].kind /\ j.event = job[w].event /\ j.backfill = "done"
  BY DEF JobsOK, JobRec
<1>2. \/ Pick(w, Unclassified, "ready", j)
      \/ Pick(w, {}, "none", j)
  BY DEF BackfillUnclassified
<1>3. "ready" \in Steps /\ "none" \in Steps
  BY DEF Steps
<1>4. job[w].backfill = "due" /\ Empty(w)
  BY DEF BackfillUnclassified
<1> HIDE DEF j
<1>5. CASE Pick(w, Unclassified, "ready", j)
  BY <1>1, <1>3, <1>4, <1>5, PickFoot
<1>6. CASE Pick(w, {}, "none", j)
  <2>1. /\ JobsOK' /\ Loaded(w, {}, "none", j.kind, j.event) /\ job'[w].backfill = j.backfill
        /\ raced' = raced \cup {p \in {} : \E v \in Workers \ {w} : Holds(v, p)}
    BY <1>1, <1>3, <1>6, PickFoot
  <2> QED
    BY <1>1, <1>4, <2>1
<1> QED
  BY <1>2, <1>5, <1>6

LEMMA PutKindFoot ==
    ASSUME JobsOK, NEW w \in Workers, NEW k \in Kinds,
           job' = [job EXCEPT ![w] = [Idle EXCEPT !.kind = k]]
    PROVE  JobsOK' /\ Loaded(w, {}, "none", k, NoPost) /\ job'[w].backfill = "no"
<1> DEFINE i == [Idle EXCEPT !.kind = k]
<1>1. i \in JobRec
  BY IdleIsJob DEF JobRec
<1>2. /\ i.kind = k /\ i.event = NoPost /\ i.backfill = "no"
      /\ \A q \in Posts : i.step[q] = "none"
  BY DEF Idle
<1>3. job' = [job EXCEPT ![w] = i]
  OBVIOUS
<1> HIDE DEF i
<1> QED
  BY <1>1, <1>2, <1>3, PutFoot DEF Loaded

LEMMA FinishFoot ==
    ASSUME JobsOK, NEW w \in Workers, Finish(w)
    PROVE  /\ JobsOK' /\ Empty(w) /\ job[w].kind \in {"poll", "scan", "ingest"}
           /\ job'[w].backfill = "no"
           /\ Loaded(w, {}, "none", IF job[w].kind = "poll" THEN "gap" ELSE "idle", NoPost)
<1>1. (IF job[w].kind = "poll" THEN "gap" ELSE "idle") \in Kinds
  BY DEF Kinds
<1> QED
  BY <1>1, PutKindFoot DEF Finish

LEMMA HandleIngestedFoot ==
    ASSUME JobsOK, NEW p \in Posts, HandleIngested(p)
    PROVE  /\ JobsOK' /\ job["scorer"].kind = "idle" /\ job'["scorer"].backfill = "no"
           /\ Loaded("scorer", {p}, "ready", "score", p)
           /\ raced' = raced \cup {q \in {p} : \E v \in Workers \ {"scorer"} : Holds(v, q)}
<1> DEFINE j == [Idle EXCEPT !.kind = "score", !.event = p]
           ps == {p}
<1>1. j \in JobRec
  BY IdleIsJob DEF JobRec, Kinds
<1>2. j.kind = "score" /\ j.event = p /\ j.backfill = "no"
  BY DEF Idle
<1>3. Pick("scorer", ps, "ready", j) /\ job["scorer"].kind = "idle"
  BY DEF HandleIngested
<1>4. /\ JobsOK' /\ job'["scorer"].backfill = "no"
      /\ Loaded("scorer", ps, "ready", "score", p)
      /\ raced' = raced \cup {q \in ps : \E v \in Workers \ {"scorer"} : Holds(v, q)}
  <2> HIDE DEF j, ps
  <2>1. "scorer" \in Workers /\ "ready" \in Steps
    BY DEF Workers, Steps
  <2>2. ASSUME NEW i \in JobRec, NEW S, Pick("scorer", S, "ready", i)
        PROVE  /\ JobsOK' /\ Loaded("scorer", S, "ready", i.kind, i.event)
               /\ job'["scorer"].backfill = i.backfill
    BY <2>1, <2>2, PickFoot
  <2>3. raced' = raced \cup {q \in ps : \E v \in Workers \ {"scorer"} : Holds(v, q)}
    BY <1>3 DEF Pick
  <2> QED
    BY <1>1, <1>2, <1>3, <2>2, <2>3
<1> QED
  BY <1>3, <1>4

LEMMA HandleScoredFoot ==
    ASSUME JobsOK, NEW p \in Posts, HandleScored(p)
    PROVE  /\ JobsOK' /\ job["qualifier"].kind = "idle" /\ job'["qualifier"].backfill = "no"
           /\ \E ps : /\ ps = (IF announced[p] = "hot" THEN {p} ELSE {})
                      /\ Loaded("qualifier", ps, "qualify", "qualify", p)
                      /\ raced' = raced \cup
                            {q \in ps : \E v \in Workers \ {"qualifier"} : Holds(v, q)}
<1> DEFINE j == [Idle EXCEPT !.kind = "qualify", !.event = p]
           ps == IF announced[p] = "hot" THEN {p} ELSE {}
<1>1. j \in JobRec
  BY IdleIsJob DEF JobRec, Kinds
<1>2. j.kind = "qualify" /\ j.event = p /\ j.backfill = "no"
  BY DEF Idle
<1>3. Pick("qualifier", ps, "qualify", j) /\ job["qualifier"].kind = "idle"
  BY DEF HandleScored
<1>4. /\ JobsOK' /\ job'["qualifier"].backfill = "no"
      /\ Loaded("qualifier", ps, "qualify", "qualify", p)
      /\ raced' = raced \cup {q \in ps : \E v \in Workers \ {"qualifier"} : Holds(v, q)}
  <2> HIDE DEF j, ps
  <2>1. "qualifier" \in Workers /\ "qualify" \in Steps
    BY DEF Workers, Steps
  <2>2. /\ JobsOK' /\ Loaded("qualifier", ps, "qualify", j.kind, j.event)
        /\ job'["qualifier"].backfill = j.backfill
        /\ raced' = raced \cup {q \in ps : \E v \in Workers \ {"qualifier"} : Holds(v, q)}
    BY <1>1, <1>3, <2>1, PickFoot
  <2> QED
    BY <1>2, <2>2
<1> QED
  BY <1>3, <1>4

LEMMA MarkProcessedFoot ==
    ASSUME JobsOK, NEW w \in Workers, MarkProcessed(w)
    PROVE  /\ JobsOK' /\ Empty(w) /\ job[w].kind \in {"score", "qualify"}
           /\ job'[w].backfill = "no" /\ Loaded(w, {}, "none", "idle", NoPost)
BY IdleFoot DEF MarkProcessed

LEMMA CrashFoot ==
    ASSUME JobsOK, NEW w \in Workers, Crash(w)
    PROVE  JobsOK' /\ job'[w].backfill = "no" /\ Loaded(w, {}, "none", "idle", NoPost)
BY IdleFoot DEF Crash

LEMMA SkipScanFoot ==
    ASSUME JobsOK, SkipScan
    PROVE  /\ JobsOK' /\ job["tick"].kind = "gap" /\ job'["tick"].backfill = "no"
           /\ Loaded("tick", {}, "none", "idle", NoPost)
BY IdleFoot DEF SkipScan, Workers

----------------------------------------------------------------------------
(* Shape: who does what, and how far its posts have come.                  *)

Consumers == {"scorer", "qualifier"}
KindsOf(w) ==
    CASE w = "scorer" -> {"idle", "score"}
      [] w = "qualifier" -> {"idle", "qualify"}
      [] OTHER -> {"idle", "poll", "gap", "scan", "ingest"}

\* A consumer has its event's post in hand and no other; an idle worker none.
WorkerOK(w) ==
    /\ job[w].kind \in KindsOf(w)
    /\ job[w].kind \in {"idle", "gap"} => Empty(w) /\ job[w].backfill # "due"
    /\ job[w].kind \in {"score", "qualify"} =>
          /\ job[w].event \in Posts
          /\ \A q \in Posts : q # job[w].event => job[w].step[q] = "none"

ScoreSteps == {"none", "ready", "paid", "passed", "qualify", "flow"} \cup Verdicts

StepsOK(w) ==
    \A p \in Posts :
        /\ job[w].kind = "score" => job[w].step[p] \in ScoreSteps
        /\ job[w].kind = "qualify" => job[w].step[p] \in {"none", "qualify", "flow"}

\* What streams without the inline path, and the qualifier's consumer, exclude.
ModeOK(w) ==
    /\ w \in Consumers => job[w].backfill # "due"
    /\ job[w].backfill = "due" => Inline
    /\ ~Inline /\ w \notin Consumers =>
          \A p \in Posts : job[w].step[p] \in Crawling \cup {"none", "held"}
    /\ mode.async /\ w # "qualifier" => \A p \in Posts : job[w].step[p] # "qualify"
    /\ job[w].kind = "qualify" => mode.async

Early == Crawling \cup {"held", "ready"}

\* A batch enters scoring as a whole.
PhaseOK(w) ==
    \A p, q \in Posts :
        job[w].step[p] \in Early => job[w].step[q] \in Early \cup {"none"}

Shape == \A w \in Workers : WorkerOK(w) /\ StepsOK(w) /\ ModeOK(w) /\ PhaseOK(w)

\* The steps a post may go through.
Follows(a, s) ==
    \/ a \in Crawling /\ s \in {"none", "insert", "key", "held"}
    \/ a \in {"held", "ready"} /\ s \in {"none", "ready"}
    \/ a = "paid" /\ s \in {"none", "passed"}
    \/ a = "passed" /\ s \in {"none", "hot", "cold", "qualify", "flow"}
    \/ a \in Verdicts /\ s \in {"none", "qualify", "flow"}
    \/ a \in {"qualify", "flow"} /\ s \in {"none", "flow"}

LEMMA OthersShape ==
    ASSUME JobsOK, Shape, NEW w \in Workers, OthersKept(w), UNCHANGED mode,
           NEW v \in Workers \ {w}
    PROVE  (WorkerOK(v) /\ StepsOK(v) /\ ModeOK(v) /\ PhaseOK(v))'
<1>1. job'[v] = job[v] /\ mode' = mode
  BY DEF OthersKept
<1>2. WorkerOK(v) /\ StepsOK(v) /\ ModeOK(v) /\ PhaseOK(v)
  BY DEF Shape
<1> QED
  BY <1>1, <1>2 DEF WorkerOK, StepsOK, ModeOK, PhaseOK, Empty, Inline

LEMMA MovedShape ==
    ASSUME JobsOK, Shape, UNCHANGED mode, NEW w \in Workers, NEW p \in Posts, NEW s,
           Moved(w, p, s), Follows(job[w].step[p], s),
           SameBackfill(w) \/ (job'[w].backfill = "due" => Inline /\ w \notin Consumers),
           s \in Crawling \cup {"none", "held"} \/ Inline \/ w \in Consumers,
           s = "qualify" => ~mode.async
    PROVE  Shape'
<1>1. WorkerOK(w) /\ StepsOK(w) /\ ModeOK(w) /\ PhaseOK(w)
  BY DEF Shape
<1>2. /\ job'[w].kind = job[w].kind /\ job'[w].event = job[w].event
      /\ \A q \in Posts : job'[w].step[q] = IF q = p THEN s ELSE job[w].step[q]
  BY DEF Moved
<1>3. job[w].step[p] # "none" /\ job[w].kind \notin {"idle", "gap"}
  BY <1>1 DEF Follows, Crawling, Verdicts, WorkerOK, Empty
<1>4. WorkerOK(w)'
  <2>1. job[w].kind \in {"score", "qualify"} => p = job[w].event
    BY <1>1, <1>3 DEF WorkerOK
  <2> QED BY <1>1, <1>2, <1>3, <2>1 DEF WorkerOK
<1>5. StepsOK(w)'
  BY <1>1, <1>2 DEF StepsOK, Follows, ScoreSteps, Crawling, Verdicts
<1>6. ModeOK(w)'
  BY <1>1, <1>2 DEF ModeOK, SameBackfill, Inline
<1>7. PhaseOK(w)'
  BY <1>1, <1>2 DEF PhaseOK, Follows, Early, Crawling, Verdicts
<1> QED
  BY <1>4, <1>5, <1>6, <1>7, OthersShape DEF Shape, Moved

LEMMA LoadedShape ==
    ASSUME JobsOK, Shape, UNCHANGED mode, NEW w \in Workers, NEW S, NEW s, NEW k, NEW e,
           Loaded(w, S, s, k, e), k \in KindsOf(w),
           job'[w].backfill = "due" => Inline /\ w \notin Consumers,
           k \in {"idle", "gap"} => (S = {} \/ s = "none") /\ job'[w].backfill # "due",
           k \in {"score", "qualify"} =>
              /\ e \in Posts
              /\ S = {} \/ S = {e} \/ \A q \in Posts : q # e => q \notin S,
           k = "score" => s \in ScoreSteps,
           k = "qualify" => s \in {"none", "qualify", "flow"} /\ mode.async,
           S = {} \/ s \in Crawling \cup {"none", "held"} \/ Inline \/ w \in Consumers,
           s = "qualify" => w = "qualifier"
    PROVE  Shape'
<1>1. /\ job'[w].kind = k /\ job'[w].event = e
      /\ \A q \in Posts : job'[w].step[q] = IF q \in S THEN s ELSE "none"
  BY DEF Loaded
<1>2. WorkerOK(w)'
  BY <1>1 DEF WorkerOK, Empty
<1>3. StepsOK(w)'
  BY <1>1 DEF StepsOK, ScoreSteps
<1>4. ModeOK(w)'
  BY <1>1 DEF ModeOK, Inline
<1>5. PhaseOK(w)'
  BY <1>1 DEF PhaseOK, Early, Crawling
<1> QED
  BY <1>2, <1>3, <1>4, <1>5, OthersShape DEF Shape, Loaded

LEMMA NextShape ==
    ASSUME PipelineAssumption, TypeOK, Shape, [Next]_vars
    PROVE  JobsOK' /\ Shape'
<1>0. JobsOK
  BY TypeJobs
<1> USE <1>0
<1>1. ASSUME NEW w \in Workers, NEW p \in Posts, LookUp(w, p) PROVE JobsOK' /\ Shape'
  <2>1. UNCHANGED mode
    BY <1>1 DEF LookUp
  <2> QED
    BY <1>1, <2>1, LookUpFoot, MovedShape DEF Follows, Crawling
<1>2. ASSUME NEW w \in Workers, NEW p \in Posts, Insert(w, p) PROVE JobsOK' /\ Shape'
  <2>1. UNCHANGED mode
    BY <1>2 DEF Insert
  <2>2. w \notin Consumers
    BY <1>2, InsertFoot DEF Shape, StepsOK, WorkerOK, KindsOf, Empty, Consumers, ScoreSteps, Verdicts
  <2> QED
    BY <1>2, <2>1, <2>2, InsertFoot, MovedShape DEF Follows, Crawling
<1>3. ASSUME NEW w \in Workers, NEW p \in Posts, RecordDedupeKeys(w, p) PROVE JobsOK' /\ Shape'
  <2>1. UNCHANGED mode
    BY <1>3 DEF RecordDedupeKeys
  <2> QED
    BY <1>3, <2>1, RecordDedupeKeysFoot, MovedShape DEF Follows, Crawling
<1>4. ASSUME NEW w \in Workers, NEW p \in Posts, PublishIngested(w, p) PROVE JobsOK' /\ Shape'
  <2>1. UNCHANGED mode
    BY <1>4 DEF PublishIngested
  <2> QED
    BY <1>4, <2>1, PublishIngestedFoot, MovedShape DEF Follows, Crawling
<1>5. ASSUME NEW w \in Workers, NEW p \in Posts, RejectByRules(w, p) PROVE JobsOK' /\ Shape'
  <2>1. UNCHANGED mode
    BY <1>5 DEF RejectByRules
  <2> QED
    BY <1>5, <2>1, RejectByRulesFoot, MovedShape DEF Follows, Crawling
<1>6. ASSUME NEW w \in Workers, NEW p \in Posts, FilterMention(w, p) PROVE JobsOK' /\ Shape'
  <2>1. UNCHANGED mode
    BY <1>6 DEF FilterMention
  <2>2. Inline \/ w \in Consumers
    BY <1>6, FilterMentionFoot DEF Shape, ModeOK, Crawling
  <2> QED
    BY <1>6, <2>1, <2>2, FilterMentionFoot, MovedShape DEF Follows
<1>7. ASSUME NEW w \in Workers, NEW p \in Posts, Classify(w, p) PROVE JobsOK' /\ Shape'
  <2>1. UNCHANGED mode
    BY <1>7 DEF Classify
  <2>2. Inline \/ w \in Consumers
    BY <1>7, ClassifyFoot DEF Shape, ModeOK, Crawling
  <2>3. PICK s : Moved(w, p, s) /\ s \in {"none", "hot", "cold", "qualify", "flow"}
                 /\ (s = "qualify" => ~mode.async)
    BY <1>7, ClassifyFoot DEF Verdicts, AfterVerdict
  <2> QED
    BY <1>7, <2>1, <2>2, <2>3, ClassifyFoot, MovedShape DEF Follows
<1>8. ASSUME NEW w \in Workers, NEW p \in Posts, PublishScored(w, p) PROVE JobsOK' /\ Shape'
  <2>1. UNCHANGED mode
    BY <1>8 DEF PublishScored
  <2>2. Inline \/ w \in Consumers
    BY <1>8, PublishScoredFoot DEF Shape, ModeOK, Crawling, Verdicts
  <2>3. PICK s : Moved(w, p, s) /\ s \in {"none", "qualify", "flow"}
                 /\ (s = "qualify" => ~mode.async)
    BY <1>8, PublishScoredFoot DEF AfterVerdict
  <2> QED
    BY <1>8, <2>1, <2>2, <2>3, PublishScoredFoot, MovedShape DEF Follows
<1>9. ASSUME NEW w \in Workers, NEW p \in Posts, QualifyAsLead(w, p) PROVE JobsOK' /\ Shape'
  <2>1. UNCHANGED mode
    BY <1>9 DEF QualifyAsLead
  <2>2. Inline \/ w \in Consumers
    BY <1>9, QualifyAsLeadFoot DEF Shape, ModeOK, Crawling
  <2> QED
    BY <1>9, <2>1, <2>2, QualifyAsLeadFoot, MovedShape DEF Follows
<1>10. ASSUME NEW w \in Workers, NEW p \in Posts, RunWorkflows(w, p) PROVE JobsOK' /\ Shape'
  <2>1. UNCHANGED mode
    BY <1>10 DEF RunWorkflows
  <2> QED
    BY <1>10, <2>1, RunWorkflowsFoot, MovedShape DEF Follows
<1>11. ASSUME NEW w \in Workers, TakeCredits(w) PROVE JobsOK' /\ Shape'
  <2>1. UNCHANGED mode
    BY <1>11 DEF TakeCredits
  <2>2. JobsOK' /\ SameBackfill(w) /\ Batch(w) # {}
    BY <1>11, TakeCreditsFoot DEF Scores
  <2>3. PICK kept \in SUBSET Batch(w) : Loaded(w, kept, "paid", job[w].kind, job[w].event)
    BY <1>11, TakeCreditsFoot
  <2>4. WorkerOK(w) /\ StepsOK(w) /\ ModeOK(w) /\ PhaseOK(w)
    BY DEF Shape
  <2>5. job[w].kind \notin {"idle", "gap", "qualify"}
    BY <2>2, <2>4 DEF Batch, At, WorkerOK, StepsOK, Empty
  <2>6. job[w].kind = "score" => \A q \in Posts : q # job[w].event => q \notin kept
    BY <2>3, <2>4 DEF Batch, At, WorkerOK
  <2>7. kept = {} \/ Inline \/ w \in Consumers
    <3>1. CASE mode.streams /\ ~Inline
      BY <2>2, <2>4, <3>1 DEF Batch, At, ModeOK, Crawling
    <3>2. CASE ~mode.streams
      BY <3>2 DEF Inline
    <3> QED
      BY <3>1, <3>2
  <2>8. job[w].kind \in KindsOf(w) /\ (job[w].kind = "score" => job[w].event \in Posts)
    BY <2>4 DEF WorkerOK
  <2>9. job'[w].backfill = "due" => Inline /\ w \notin Consumers
    BY <2>2, <2>4 DEF SameBackfill, ModeOK
  <2> QED
    BY <2>1, <2>2, <2>3, <2>5, <2>6, <2>7, <2>8, <2>9, LoadedShape DEF ScoreSteps
<1>12. ASSUME NEW w \in Workers, BackfillUnclassified(w) PROVE JobsOK' /\ Shape'
  <2>1. UNCHANGED mode
    BY <1>12 DEF BackfillUnclassified
  <2>2. WorkerOK(w) /\ ModeOK(w)
    BY DEF Shape
  <2>3. Inline /\ w \notin Consumers /\ JobsOK' /\ job'[w].backfill = "done"
    BY <1>12, <2>2, BackfillFoot DEF ModeOK
  <2>4. job[w].kind \in KindsOf(w) /\ job[w].kind \notin {"score", "qualify"}
    BY <2>2, <2>3 DEF WorkerOK, KindsOf, Consumers
  <2>5. job[w].kind \notin {"idle", "gap"}
    <3>1. job[w].backfill = "due"
      BY <1>12, BackfillFoot
    <3> QED BY <3>1, <2>2 DEF WorkerOK
  <2> QED
    BY <1>12, <2>1, <2>3, <2>4, <2>5, BackfillFoot, LoadedShape
<1>13. ASSUME NEW w \in Workers, Finish(w) PROVE JobsOK' /\ Shape'
  <2>1. UNCHANGED mode
    BY <1>13 DEF Finish
  <2>2. (IF job[w].kind = "poll" THEN "gap" ELSE "idle") \in KindsOf(w)
    BY <1>13, FinishFoot DEF Shape, WorkerOK, KindsOf
  <2> QED
    BY <1>13, <2>1, <2>2, FinishFoot, LoadedShape
<1>14. ASSUME NEW w \in Workers, MarkProcessed(w) PROVE JobsOK' /\ Shape'
  <2>1. UNCHANGED mode /\ "idle" \in KindsOf(w)
    BY <1>14 DEF MarkProcessed, KindsOf
  <2> QED
    BY <1>14, <2>1, MarkProcessedFoot, LoadedShape
<1>15. ASSUME NEW w \in Workers, Crash(w) PROVE JobsOK' /\ Shape'
  <2>1. UNCHANGED mode /\ "idle" \in KindsOf(w)
    BY <1>15 DEF Crash, KindsOf
  <2> QED
    BY <1>15, <2>1, CrashFoot, LoadedShape
<1>25. ASSUME NEW w \in Workers, NEW p \in Posts, Panic(w, p) PROVE JobsOK' /\ Shape'
  <2>1. UNCHANGED mode
    BY <1>25 DEF Panic
  <2>2. Inline \/ w \in Consumers
    BY <1>25, PanicFoot DEF Shape, ModeOK, Crawling, Verdicts
  <2> QED
    BY <1>25, <2>1, <2>2, PanicFoot, MovedShape DEF Follows
<1>16. ASSUME NEW w \in Workers, NEW kind \in {"poll", "scan", "ingest"}, NEW found,
              Begin(w, kind, found), UNCHANGED mode, w \notin Consumers
       PROVE  JobsOK' /\ Shape'
  <2>1. kind \in Kinds /\ kind \in KindsOf(w)
    BY <1>16 DEF Kinds, KindsOf, Consumers
  <2> QED
    BY <1>16, <2>1, BeginFoot, LoadedShape DEF Crawling
<1>17. ASSUME NEW found, PollProfiles(found) \/ PostSignals(found)
       PROVE  JobsOK' /\ Shape'
  BY <1>16, <1>17 DEF PollProfiles, PostSignals, Workers, Consumers
<1>18. ASSUME NEW w \in {"tick", "now"}, NEW found, ScanWorkspace(w, found)
       PROVE  JobsOK' /\ Shape'
  BY <1>16, <1>18 DEF ScanWorkspace, Workers, Consumers
<1>19. ASSUME SkipScan PROVE JobsOK' /\ Shape'
  <2>1. UNCHANGED mode /\ "idle" \in KindsOf("tick") /\ "tick" \in Workers
    BY <1>19 DEF SkipScan, KindsOf, Workers
  <2> QED
    BY <1>19, <2>1, SkipScanFoot, LoadedShape
<1>20. ASSUME NEW p \in Posts, HandleIngested(p) PROVE JobsOK' /\ Shape'
  <2>1. UNCHANGED mode /\ "score" \in KindsOf("scorer") /\ "scorer" \in Workers
    BY <1>20 DEF HandleIngested, KindsOf, Workers
  <2> QED
    BY <1>20, <2>1, HandleIngestedFoot, LoadedShape DEF ScoreSteps, Consumers
<1>21. ASSUME NEW p \in Posts, HandleScored(p) PROVE JobsOK' /\ Shape'
  <2>1. UNCHANGED mode /\ "qualify" \in KindsOf("qualifier") /\ "qualifier" \in Workers
    BY <1>21 DEF HandleScored, KindsOf, Workers
  <2>2. mode.async
    BY <1>21, PipelineAssumption DEF HandleScored, TypeOK
  <2> QED
    BY <1>21, <2>1, <2>2, HandleScoredFoot, LoadedShape DEF Consumers
<1>22. ASSUME UNCHANGED job, UNCHANGED mode PROVE JobsOK' /\ Shape'
  BY <1>22 DEF JobsOK, Shape, WorkerOK, StepsOK, ModeOK, PhaseOK, Empty, Inline
<1>23. RefreshFree \/ UNCHANGED vars => UNCHANGED job /\ UNCHANGED mode
  BY DEF RefreshFree, vars
<1>24. ASSUME NEW w \in Workers, Step(w) PROVE JobsOK' /\ Shape'
  BY <1>1, <1>2, <1>3, <1>4, <1>5, <1>6, <1>7, <1>8, <1>9, <1>10, <1>11, <1>12, <1>13,
     <1>14, <1>24 DEF Step
<1> QED
  BY <1>15, <1>17, <1>18, <1>19, <1>20, <1>21, <1>22, <1>23, <1>24, <1>25
     DEF Next, Poll, Scan

----------------------------------------------------------------------------
(* Types.                                                                  *)

TypeRest ==
    /\ mode \in Modes
    /\ row \in [Posts -> RowState]
    /\ leads \in [Posts -> Nat]
    /\ announced \in [Posts -> Verdicts \cup {"none"}]
    /\ balance \in 0..Allowance
    /\ after \subseteq Posts \X Posts
    /\ keyed \subseteq Posts /\ ingested \subseteq Posts /\ handed \subseteq Posts
    /\ done \subseteq Workers \X Posts
    /\ loose \subseteq Posts /\ raced \subseteq Posts /\ unpaid \subseteq Posts
    /\ unstored \subseteq Posts /\ redelivered \subseteq Posts
    /\ panicked \subseteq Posts /\ interrupted \subseteq Posts
    /\ overlapped \subseteq {Story[p] : p \in Posts}
    /\ faults \in 0..mode.maxFaults

LEMMA TypeParts == TypeOK <=> TypeRest /\ JobsOK
BY DEF TypeOK, TypeRest, JobsOK, JobRec

LEMMA FaultType ==
    ASSUME PipelineAssumption, mode \in Modes, faults \in 0..mode.maxFaults, UNCHANGED mode,
           Fault \/ UNCHANGED faults
    PROVE  faults' \in 0..mode'.maxFaults
BY DEF Fault, PipelineAssumption

LEMMA RecordType ==
    ASSUME TypeRest, NEW p \in Posts, NEW value \in RowState, Record(p, value)
    PROVE  /\ row' \in [Posts -> RowState] /\ unstored' \subseteq Posts
           /\ Fault \/ UNCHANGED faults
BY DEF Record, TypeRest

LEMMA NextType ==
    ASSUME PipelineAssumption, TypeOK, Shape, [Next]_vars, JobsOK'
    PROVE  TypeOK'
<1>0. TypeRest /\ JobsOK
  BY TypeParts
<1> USE DEF tables, streamState, history
<1>1. ASSUME NEW w \in Workers, NEW p \in Posts, LookUp(w, p) PROVE TypeRest'
  <2>1. faults' \in 0..mode'.maxFaults
    BY <1>0, <1>1, FaultType DEF LookUp, TypeRest
  <2>2. overlapped' \subseteq {Story[q] : q \in Posts}
    BY <1>0, <1>1 DEF LookUp, TypeRest
  <2> QED
    BY <1>0, <1>1, <2>1, <2>2 DEF LookUp, TypeRest
<1>2. ASSUME NEW w \in Workers, NEW p \in Posts, Insert(w, p) PROVE TypeRest'
  <2>1. faults' \in 0..mode'.maxFaults
    BY <1>0, <1>2, FaultType DEF Insert, TypeRest
  <2> QED
    BY <1>0, <1>2, <2>1 DEF Insert, Create, TypeRest, RowState
<1>3. ASSUME NEW w \in Workers, NEW p \in Posts, RecordDedupeKeys(w, p) PROVE TypeRest'
  <2>1. faults' \in 0..mode'.maxFaults
    BY <1>0, <1>3, FaultType DEF RecordDedupeKeys, TypeRest
  <2> QED
    BY <1>0, <1>3, <2>1 DEF RecordDedupeKeys, TypeRest
<1>4. ASSUME NEW w \in Workers, NEW p \in Posts, PublishIngested(w, p) PROVE TypeRest'
  <2>1. faults' \in 0..mode'.maxFaults
    BY <1>0, <1>4, FaultType DEF PublishIngested, TypeRest
  <2> QED
    BY <1>0, <1>4, <2>1 DEF PublishIngested, TypeRest
<1>5. ASSUME NEW w \in Workers, NEW p \in Posts, RejectByRules(w, p) PROVE TypeRest'
  <2>1. /\ row' \in [Posts -> RowState] /\ unstored' \subseteq Posts
        /\ Fault \/ UNCHANGED faults
    BY <1>0, <1>5, RecordType DEF RejectByRules, RowState
  <2>2. faults' \in 0..mode'.maxFaults
    BY <1>0, <1>5, <2>1, FaultType DEF RejectByRules, TypeRest
  <2> QED
    BY <1>0, <1>5, <2>1, <2>2 DEF RejectByRules, TypeRest
<1>6. ASSUME NEW w \in Workers, NEW p \in Posts, FilterMention(w, p) PROVE TypeRest'
  <2>1. /\ row' \in [Posts -> RowState] /\ unstored' \subseteq Posts
        /\ Fault \/ UNCHANGED faults
    BY <1>0, <1>6, RecordType DEF FilterMention, RowState, TypeRest
  <2>2. faults' \in 0..mode'.maxFaults
    BY <1>0, <1>6, <2>1, FaultType DEF FilterMention, TypeRest
  <2> QED
    BY <1>0, <1>6, <2>1, <2>2 DEF FilterMention, TypeRest
<1>7. ASSUME NEW w \in Workers, NEW p \in Posts, Classify(w, p) PROVE TypeRest'
  <2>1. /\ row' \in [Posts -> RowState] /\ unstored' \subseteq Posts
        /\ Fault \/ UNCHANGED faults
    BY <1>0, <1>7, RecordType DEF Classify, RowState, TypeRest
  <2>2. faults' \in 0..mode'.maxFaults
    BY <1>0, <1>7, <2>1, FaultType DEF Classify, TypeRest
  <2> QED
    BY <1>0, <1>7, <2>1, <2>2 DEF Classify, TypeRest
<1>8. ASSUME NEW w \in Workers, NEW p \in Posts, PublishScored(w, p) PROVE TypeRest'
  <2>1. faults' \in 0..mode'.maxFaults
    BY <1>0, <1>8, FaultType DEF PublishScored, TypeRest
  <2>2. announced' \in [Posts -> Verdicts \cup {"none"}]
    BY <1>0, <1>8 DEF PublishScored, TypeRest, At
  <2> QED
    BY <1>0, <1>8, <2>1, <2>2 DEF PublishScored, TypeRest
<1>9. ASSUME NEW w \in Workers, NEW p \in Posts, QualifyAsLead(w, p) PROVE TypeRest'
  <2>1. faults' \in 0..mode'.maxFaults
    BY <1>0, <1>9, FaultType DEF QualifyAsLead, TypeRest
  <2> QED
    BY <1>0, <1>9, <2>1 DEF QualifyAsLead, TypeRest
<1>10. ASSUME NEW w \in Workers, NEW p \in Posts, RunWorkflows(w, p) PROVE TypeRest'
  BY <1>0, <1>10 DEF RunWorkflows, TypeRest
<1>11. ASSUME NEW w \in Workers, TakeCredits(w) PROVE TypeRest'
  <2>1. PICK paid \in SUBSET Batch(w), kept \in SUBSET Batch(w) :
            /\ \/ Cardinality(paid) = balance
               \/ paid = Batch(w) /\ Cardinality(paid) <= balance
            /\ balance' \in {balance, balance - Cardinality(paid)}
            /\ Fault \/ UNCHANGED faults
            /\ unpaid' = unpaid \cup (Batch(w) \ kept)
    BY <1>11 DEF TakeCredits
  <2>2. paid \subseteq Posts /\ Batch(w) \subseteq Posts
    BY DEF Batch, At
  <2>3. Cardinality(paid) \in Nat
    BY <2>2, PipelineAssumption, FS_Subset, FS_CardinalityType DEF PipelineAssumption
  <2>4. balance' \in 0..Allowance
    <3>1. Allowance \in Nat /\ balance \in 0..Allowance
      BY <1>0, PipelineAssumption DEF TypeRest, PipelineAssumption
    <3> HIDE DEF Batch
    <3> QED BY <2>1, <2>3, <3>1
  <2>5. faults' \in 0..mode'.maxFaults
    BY <1>0, <1>11, <2>1, FaultType DEF TakeCredits, TypeRest
  <2>6. unpaid' \subseteq Posts
    BY <1>0, <2>1, <2>2 DEF TypeRest
  <2> QED
    BY <1>0, <1>11, <2>4, <2>5, <2>6 DEF TakeCredits, TypeRest
<1>12. ASSUME NEW w \in Workers, BackfillUnclassified(w) PROVE TypeRest'
  <2>1. faults' \in 0..mode'.maxFaults
    BY <1>0, <1>12, FaultType DEF BackfillUnclassified, TypeRest
  <2>2. raced' \subseteq Posts
    BY <1>0, <1>12 DEF BackfillUnclassified, Pick, TypeRest, Unclassified,
       Undecided
  <2> QED
    BY <1>0, <1>12, <2>1, <2>2 DEF BackfillUnclassified, TypeRest
<1>13. ASSUME NEW w \in Workers, Finish(w) PROVE TypeRest'
  BY <1>0, <1>13 DEF Finish, TypeRest
<1>14. ASSUME NEW w \in Workers, MarkProcessed(w) PROVE TypeRest'
  <2>1. job[w].event \in Posts
    BY <1>14 DEF MarkProcessed, Shape, WorkerOK
  <2>2. faults' \in 0..mode'.maxFaults
    BY <1>0, <1>14, FaultType DEF MarkProcessed, TypeRest
  <2> QED
    BY <1>0, <1>14, <2>1, <2>2 DEF MarkProcessed, TypeRest
<1>15. ASSUME NEW w \in Workers, Crash(w) PROVE TypeRest'
  <2>1. job[w].event \in Posts \cup {NoPost} /\ At(w, {"key"}) \subseteq Posts
    BY <1>0 DEF JobsOK, JobRec, At
  <2>2. faults' \in 0..mode'.maxFaults
    BY <1>0, <1>15, FaultType DEF Crash, TypeRest
  <2> QED
    BY <1>0, <1>15, <2>1, <2>2 DEF Crash, TypeRest
<1>23. ASSUME NEW w \in Workers, NEW p \in Posts, Panic(w, p) PROVE TypeRest'
  <2>1. faults' \in 0..mode'.maxFaults
    BY <1>0, <1>23, FaultType DEF Panic, TypeRest
  <2> QED
    BY <1>0, <1>23, <2>1 DEF Panic, TypeRest
<1>16. ASSUME NEW found, PollProfiles(found) \/ PostSignals(found) PROVE TypeRest'
  BY <1>0, <1>16 DEF PollProfiles, PostSignals, TypeRest
<1>17. ASSUME NEW w \in Workers, NEW found, ScanWorkspace(w, found) PROVE TypeRest'
  <2>1. faults' \in 0..mode'.maxFaults
    BY <1>0, <1>17, FaultType DEF ScanWorkspace, TypeRest
  <2> QED
    BY <1>0, <1>17, <2>1 DEF ScanWorkspace, TypeRest
<1>18. ASSUME SkipScan \/ UNCHANGED vars PROVE TypeRest'
  BY <1>0, <1>18 DEF SkipScan, vars, TypeRest
<1>19. ASSUME NEW p \in Posts, HandleIngested(p) \/ HandleScored(p) PROVE TypeRest'
  <2>1. raced' \subseteq Posts
    BY <1>0, <1>19 DEF HandleIngested, HandleScored, Pick, TypeRest
  <2> QED
    BY <1>0, <1>19, <2>1 DEF HandleIngested, HandleScored, TypeRest
<1>20. ASSUME RefreshFree PROVE TypeRest'
  <2>1. Allowance \in 0..Allowance
    BY PipelineAssumption DEF PipelineAssumption
  <2> QED
    BY <1>0, <1>20, <2>1 DEF RefreshFree, TypeRest
<1>21. ASSUME NEW w \in Workers, Step(w) PROVE TypeRest'
  BY <1>1, <1>2, <1>3, <1>4, <1>5, <1>6, <1>7, <1>8, <1>9, <1>10, <1>11, <1>12, <1>13,
     <1>14, <1>21 DEF Step
<1>22. TypeRest'
  <2>1. {"tick", "now"} \subseteq Workers
    BY DEF Workers
  <2> QED
    BY <1>15, <1>16, <1>17, <1>18, <1>19, <1>20, <1>21, <1>23, <2>1 DEF Next, Poll, Scan
<1> QED
  BY <1>22, TypeParts DEF TypeRest, TypeOK, JobsOK, JobRec

LEMMA InitShape ==
    ASSUME PipelineAssumption, Init
    PROVE  TypeOK /\ Shape
<1>1. \A w \in Workers : job[w] = Idle
  BY DEF Init
<1>2. /\ Idle.kind = "idle" /\ Idle.event = NoPost /\ Idle.backfill = "no"
      /\ \A q \in Posts : Idle.step[q] = "none"
  BY DEF Idle
<1>3. JobsOK
  BY IdleIsJob DEF Init, JobsOK
<1>4. TypeRest
  BY DEF Init, TypeRest, RowState, Verdicts, PipelineAssumption
<1>5. Shape
  BY <1>1, <1>2 DEF Shape, WorkerOK, StepsOK, ModeOK, PhaseOK, KindsOf, Empty, ScoreSteps, Early
<1> QED
  BY <1>3, <1>4, <1>5, TypeParts

\* Every variable of the pipeline has its type: the balance never falls below
\* nothing, and a handler that marks an event processed has one in hand.
THEOREM PipelineTypes == Spec => []TypeOK
<1>1. Init => TypeOK /\ Shape
  BY InitShape, PipelineAssumption
<1>2. TypeOK /\ Shape /\ [Next]_vars => (TypeOK /\ Shape)'
  BY NextShape, NextType, PipelineAssumption
<1> QED
  BY <1>1, <1>2, PTL DEF Spec

----------------------------------------------------------------------------
(* Rows: what a worker has in hand, and what an event tells of, is in the  *)
(* table.                                                                  *)

RowsOK ==
    /\ \A w \in Workers, p \in Posts : Holds(w, p) => row[p] # "absent"
    /\ \A p \in ingested : row[p] # "absent"
    /\ \A p \in Posts : announced[p] # "none" => row[p] # "absent"

RowsStay == \A p \in Posts : row[p] # "absent" => row'[p] # "absent"

LEMMA RowsKept ==
    ASSUME JobsOK, RowsOK, ingested \subseteq Posts, RowsStay, NEW w \in Workers,
           OthersKept(w),
           \A q \in ingested' : q \in ingested \/ (q \in Posts /\ Holds(w, q)),
           \A q \in Posts : announced'[q] # "none" => announced[q] # "none" \/ Holds(w, q),
           \A q \in Posts : Holds(w, q)' => Holds(w, q) \/ row'[q] # "absent"
    PROVE  RowsOK'
<1>1. \A v \in Workers \ {w} : job'[v] = job[v]
  BY DEF OthersKept
<1>2. \A v \in Workers, q \in Posts : Holds(v, q)' => row'[q] # "absent"
  BY <1>1 DEF RowsOK, RowsStay, Holds
<1>3. \A q \in ingested' : row'[q] # "absent"
  BY DEF RowsOK, RowsStay
<1>4. \A q \in Posts : announced'[q] # "none" => row'[q] # "absent"
  BY DEF RowsOK, RowsStay
<1> QED
  BY <1>2, <1>3, <1>4 DEF RowsOK

LEMMA RecordRow ==
    ASSUME TypeRest, NEW p \in Posts, NEW value, value # "absent", row[p] # "absent",
           Record(p, value)
    PROVE  RowsStay
BY DEF Record, RowsStay, TypeRest

LEMMA NextRows ==
    ASSUME TypeOK, Shape, RowsOK, [Next]_vars
    PROVE  RowsOK' /\ RowsStay
<1>0. TypeRest /\ JobsOK /\ ingested \subseteq Posts
  BY TypeParts DEF TypeRest
<1> USE <1>0 DEF tables, streamState, history
<1>1. ASSUME NEW w \in Workers, NEW p \in Posts, LookUp(w, p) PROVE RowsOK' /\ RowsStay
  <2>1. RowsStay
    BY <1>1 DEF LookUp, RowsStay
  <2>2. OthersKept(w) /\ \A q \in Posts : Holds(w, q)' => Holds(w, q)
    BY <1>1, LookUpFoot DEF Moved, Holds
  <2> QED
    BY <1>1, <2>1, <2>2, RowsKept DEF LookUp
<1>2. ASSUME NEW w \in Workers, NEW p \in Posts, Insert(w, p) PROVE RowsOK' /\ RowsStay
  <2>1. RowsStay /\ (row'[p] # "absent" \/ Moved(w, p, "none"))
    BY <1>2, InsertFoot DEF RowsStay, TypeRest
  <2>2. \A q \in Posts : Holds(w, q)' => Holds(w, q) \/ row'[q] # "absent"
    BY <1>2, <2>1, InsertFoot DEF Moved, Holds
  <2>3. OthersKept(w) /\ UNCHANGED <<ingested, announced>>
    BY <1>2, InsertFoot DEF Moved, Insert
  <2> QED
    BY <2>1, <2>2, <2>3, RowsKept
<1>3. ASSUME NEW w \in Workers, NEW p \in Posts, RecordDedupeKeys(w, p) PROVE RowsOK' /\ RowsStay
  <2>1. RowsStay
    BY <1>3 DEF RecordDedupeKeys, RowsStay
  <2> QED
    BY <1>3, <2>1, RecordDedupeKeysFoot, RowsKept DEF RecordDedupeKeys, Moved, Holds
<1>4. ASSUME NEW w \in Workers, NEW p \in Posts, PublishIngested(w, p) PROVE RowsOK' /\ RowsStay
  <2>1. RowsStay
    BY <1>4 DEF PublishIngested, RowsStay
  <2>2. Holds(w, p)
    BY <1>4, PublishIngestedFoot DEF Holds
  <2> QED
    BY <1>4, <2>1, <2>2, PublishIngestedFoot, RowsKept DEF PublishIngested, Moved, Holds
<1>5. ASSUME NEW w \in Workers, NEW p \in Posts, RejectByRules(w, p) PROVE RowsOK' /\ RowsStay
  <2>1. Holds(w, p)
    BY <1>5, RejectByRulesFoot DEF Holds
  <2>2. RowsStay
    BY <1>5, <2>1, RecordRow DEF RejectByRules, RowsOK
  <2> QED
    BY <1>5, <2>1, <2>2, RejectByRulesFoot, RowsKept DEF RejectByRules, Moved, Holds
<1>6. ASSUME NEW w \in Workers, NEW p \in Posts, FilterMention(w, p) PROVE RowsOK' /\ RowsStay
  <2>1. Holds(w, p)
    BY <1>6, FilterMentionFoot DEF Holds
  <2>2. RowsStay
    BY <1>6, <2>1, RecordRow DEF FilterMention, RowsOK, RowsStay
  <2> QED
    BY <1>6, <2>1, <2>2, FilterMentionFoot, RowsKept DEF FilterMention, Moved, Holds
<1>7. ASSUME NEW w \in Workers, NEW p \in Posts, Classify(w, p) PROVE RowsOK' /\ RowsStay
  <2>1. Holds(w, p)
    BY <1>7, ClassifyFoot DEF Holds
  <2>2. RowsStay
    BY <1>7, <2>1, RecordRow DEF Classify, RowsOK, RowsStay, Verdicts, TypeRest
  <2>3. PICK s : Moved(w, p, s)
    BY <1>7, ClassifyFoot
  <2> QED
    BY <1>7, <2>1, <2>2, <2>3, RowsKept DEF Classify, Moved, Holds
<1>8. ASSUME NEW w \in Workers, NEW p \in Posts, PublishScored(w, p) PROVE RowsOK' /\ RowsStay
  <2>1. Holds(w, p)
    BY <1>8, PublishScoredFoot DEF Holds, Verdicts
  <2>2. RowsStay
    BY <1>8 DEF PublishScored, RowsStay
  <2>3. \A q \in Posts : announced'[q] # "none" => announced[q] # "none" \/ q = p
    BY <1>8 DEF PublishScored, TypeRest
  <2>4. OthersKept(w) /\ ingested' = ingested
    BY <1>8, PublishScoredFoot DEF PublishScored, Moved
  <2>5. \A q \in Posts : Holds(w, q)' => Holds(w, q)
    BY <1>8, <2>1, PublishScoredFoot DEF Moved, Holds
  <2> QED
    BY <2>1, <2>2, <2>3, <2>4, <2>5, RowsKept
<1>9. ASSUME NEW w \in Workers, NEW p \in Posts, QualifyAsLead(w, p) PROVE RowsOK' /\ RowsStay
  <2>1. RowsStay /\ Holds(w, p)
    BY <1>9, QualifyAsLeadFoot DEF QualifyAsLead, RowsStay, Holds
  <2> QED
    BY <1>9, <2>1, QualifyAsLeadFoot, RowsKept DEF QualifyAsLead, Moved, Holds
<1>10. ASSUME NEW w \in Workers, NEW p \in Posts, RunWorkflows(w, p) PROVE RowsOK' /\ RowsStay
  <2>1. RowsStay
    BY <1>10 DEF RunWorkflows, RowsStay
  <2> QED
    BY <1>10, <2>1, RunWorkflowsFoot, RowsKept DEF RunWorkflows, Moved, Holds
<1>11. ASSUME NEW w \in Workers, TakeCredits(w) PROVE RowsOK' /\ RowsStay
  <2>1. RowsStay /\ UNCHANGED <<ingested, announced>>
    BY <1>11 DEF TakeCredits, RowsStay
  <2>2. \A q \in Batch(w) : q \in Posts /\ Holds(w, q)
    BY DEF Batch, At, Holds
  <2>3. OthersKept(w) /\ \A q \in Posts : Holds(w, q)' => q \in Batch(w)
    BY <1>11, TakeCreditsFoot DEF Loaded, Holds
  <2> QED
    BY <2>1, <2>2, <2>3, RowsKept
<1>12. ASSUME NEW w \in Workers, BackfillUnclassified(w) PROVE RowsOK' /\ RowsStay
  <2>1. RowsStay /\ UNCHANGED <<row, ingested, announced>>
    BY <1>12 DEF BackfillUnclassified, RowsStay
  <2>2. OthersKept(w) /\ \A q \in Posts : Holds(w, q)' => q \in Unclassified
    BY <1>12, BackfillFoot DEF Loaded, Holds
  <2>3. \A q \in Unclassified : row[q] # "absent"
    BY DEF Unclassified, Undecided
  <2> QED
    BY <2>1, <2>2, <2>3, RowsKept
<1>13. ASSUME NEW w \in Workers, NEW k, NEW s \in {"none", "fetched"}, NEW S, NEW e,
              Loaded(w, S, s, k, e), UNCHANGED <<row, ingested, announced>>
       PROVE  RowsOK' /\ RowsStay
  <2>1. RowsStay /\ OthersKept(w) /\ \A q \in Posts : ~(Holds(w, q)')
    BY <1>13 DEF RowsStay, Loaded, Holds
  <2> QED
    BY <1>13, <2>1, RowsKept
<1>14. ASSUME NEW w \in Workers, Finish(w) \/ MarkProcessed(w) \/ Crash(w)
       PROVE  RowsOK' /\ RowsStay
  <2>1. UNCHANGED <<row, ingested, announced>>
    BY <1>14 DEF Finish, MarkProcessed, Crash
  <2> QED
    BY <1>13, <1>14, <2>1, FinishFoot, MarkProcessedFoot, CrashFoot
<1>23. ASSUME NEW w \in Workers, NEW p \in Posts, Panic(w, p) PROVE RowsOK' /\ RowsStay
  <2>1. RowsStay
    BY <1>23 DEF Panic, RowsStay
  <2> QED
    BY <1>23, <2>1, PanicFoot, RowsKept DEF Panic, Moved, Holds
<1>15. ASSUME NEW w \in Workers, NEW kind \in {"poll", "scan", "ingest"}, NEW found,
              Begin(w, kind, found), UNCHANGED <<row, ingested, announced>>
       PROVE  RowsOK' /\ RowsStay
  BY <1>13, <1>15, BeginFoot DEF Kinds
<1>16. ASSUME NEW found, PollProfiles(found) \/ PostSignals(found) PROVE RowsOK' /\ RowsStay
  BY <1>15, <1>16 DEF PollProfiles, PostSignals, Workers
<1>17. ASSUME NEW w \in {"tick", "now"}, NEW found, ScanWorkspace(w, found)
       PROVE  RowsOK' /\ RowsStay
  BY <1>15, <1>17 DEF ScanWorkspace, Workers
<1>18. ASSUME SkipScan PROVE RowsOK' /\ RowsStay
  <2>1. UNCHANGED <<row, ingested, announced>> /\ "tick" \in Workers
    BY <1>18 DEF SkipScan, Workers
  <2> QED
    BY <1>13, <1>18, <2>1, SkipScanFoot
<1>19. ASSUME NEW p \in Posts, HandleIngested(p) PROVE RowsOK' /\ RowsStay
  <2>1. /\ UNCHANGED <<row, ingested, announced>> /\ RowsStay /\ "scorer" \in Workers
        /\ row[p] # "absent"
    BY <1>19 DEF HandleIngested, RowsStay, Workers, RowsOK
  <2>2. OthersKept("scorer") /\ \A q \in Posts : Holds("scorer", q)' => q = p
    BY <1>19, HandleIngestedFoot DEF Loaded, Holds
  <2> QED
    BY <2>1, <2>2, RowsKept
<1>20. ASSUME NEW p \in Posts, HandleScored(p) PROVE RowsOK' /\ RowsStay
  <2>1. /\ UNCHANGED <<row, ingested, announced>> /\ RowsStay /\ "qualifier" \in Workers
        /\ row[p] # "absent"
    BY <1>20 DEF HandleScored, RowsStay, Workers, RowsOK
  <2>2. OthersKept("qualifier") /\ \A q \in Posts : Holds("qualifier", q)' => q = p
    BY <1>20, HandleScoredFoot DEF Loaded, Holds
  <2> QED
    BY <2>1, <2>2, RowsKept
<1>21. ASSUME RefreshFree \/ UNCHANGED vars PROVE RowsOK' /\ RowsStay
  BY <1>21 DEF RefreshFree, vars, RowsOK, RowsStay, Holds
<1>22. ASSUME NEW w \in Workers, Step(w) PROVE RowsOK' /\ RowsStay
  BY <1>1, <1>2, <1>3, <1>4, <1>5, <1>6, <1>7, <1>8, <1>9, <1>10, <1>11, <1>12, <1>14,
     <1>22 DEF Step
<1> QED
  BY <1>14, <1>16, <1>17, <1>18, <1>19, <1>20, <1>21, <1>22, <1>23 DEF Next, Poll, Scan

----------------------------------------------------------------------------
(* Duplicates.                                                             *)

\* A row without keys is about to have them, or its keys are excused.
RowsAreKeyed ==
    \A p \in Posts :
        row[p] # "absent" => p \in keyed \cup loose \/ \E w \in Workers : job[w].step[p] = "key"

OneStory(p, q) == p # q /\ Story[p] = Story[q]

\* A post that passed the lookup has no row of its story beside it, unless a
\* crawler inserted that one meanwhile.
LookupHolds ==
    \A w \in Workers, p, q \in Posts :
        job[w].step[p] = "insert" /\ OneStory(p, q) /\ row[q] # "absent"
            => p \in loose \/ q \in loose \/ Story[p] \in overlapped

InsertsOverlap ==
    \A w, v \in Workers, p, q \in Posts :
        job[w].step[p] = "insert" /\ job[v].step[q] = "insert" /\ OneStory(p, q)
            => Story[p] \in overlapped

KeysInv == RowsAreKeyed /\ LookupHolds /\ InsertsOverlap /\ DuplicateRowsNeedOverlap

\* A step that neither inserts a row nor passes the lookup.
LEMMA KeysKept ==
    ASSUME JobsOK, KeysInv, NEW w \in Workers, OthersKept(w),
           \A q \in Posts : row'[q] # "absent" => row[q] # "absent",
           keyed \subseteq keyed', loose \subseteq loose', overlapped \subseteq overlapped',
           \A q \in Posts : job'[w].step[q] = "insert" => job[w].step[q] = "insert",
           \A q \in Posts : job[w].step[q] = "key" => job'[w].step[q] = "key"
                                                      \/ q \in keyed' \cup loose'
    PROVE  KeysInv'
<1>1. \A v \in Workers \ {w} : job'[v] = job[v]
  BY DEF OthersKept
<1>2. RowsAreKeyed'
  <2>1. ASSUME NEW q \in Posts, row'[q] # "absent", q \notin keyed' \cup loose'
        PROVE  \E v \in Workers : job'[v].step[q] = "key"
    <3>1. PICK v \in Workers : job[v].step[q] = "key"
      BY <2>1 DEF KeysInv, RowsAreKeyed
    <3>2. job'[v].step[q] = "key"
      BY <1>1, <2>1, <3>1
    <3> QED BY <3>2
  <2> QED BY <2>1 DEF RowsAreKeyed
<1>3. \A v \in Workers, q \in Posts : job'[v].step[q] = "insert" => job[v].step[q] = "insert"
  BY <1>1
<1>4. LookupHolds'
  BY <1>3 DEF KeysInv, LookupHolds, OneStory
<1>5. InsertsOverlap'
  BY <1>3 DEF KeysInv, InsertsOverlap, OneStory
<1>6. DuplicateRowsNeedOverlap'
  BY DEF KeysInv, DuplicateRowsNeedOverlap
<1> QED
  BY <1>2, <1>4, <1>5, <1>6 DEF KeysInv

LEMMA LookUpKeys ==
    ASSUME TypeOK, KeysInv, NEW w \in Workers, NEW p \in Posts, LookUp(w, p)
    PROVE  KeysInv'
<1>0. JobsOK
  BY TypeJobs
<1>1. /\ row' = row /\ keyed' = keyed /\ loose \subseteq loose'
      /\ overlapped' = (IF \E v \in Workers \ {w} : \E q \in At(v, {"insert", "key"}) :
                              Story[q] = Story[p]
                        THEN overlapped \cup {Story[p]} ELSE overlapped)
  BY DEF LookUp, tables
<1>2. OthersKept(w) /\ job[w].step[p] = "fetched" /\ Through(w, {"insert", "key"})
  BY <1>0, LookUpFoot DEF Moved
<1>3. CASE Moved(w, p, "none")
  <2>1. overlapped \subseteq overlapped'
    BY <1>1
  <2> QED BY <1>0, <1>1, <1>2, <1>3, <2>1, KeysKept DEF Moved
<1>4. CASE Moved(w, p, "insert") /\ (~Duplicate(p) \/ p \in loose')
  <2>1. overlapped \subseteq overlapped'
    BY <1>1
  <2>2. \A v \in Workers, q \in Posts :
            job[v].step[q] \in {"insert", "key"} /\ Story[q] = Story[p] => Story[p] \in overlapped'
    BY <1>1, <1>2 DEF Through, At
  <2>3. \A v \in Workers, q \in Posts :
            job'[v].step[q] = (IF v = w /\ q = p THEN "insert" ELSE job[v].step[q])
    BY <1>4 DEF Moved, OthersKept
  <2>4. RowsAreKeyed'
    BY <1>1, <1>2, <2>3 DEF KeysInv, RowsAreKeyed
  <2>5. ASSUME NEW q \in Posts, OneStory(p, q), row[q] # "absent"
        PROVE  p \in loose' \/ q \in loose' \/ Story[p] \in overlapped'
    <3>1. CASE p \in loose' \/ q \in loose
      BY <1>1, <3>1
    <3>2. CASE \E v \in Workers : job[v].step[q] = "key"
      BY <2>2, <2>5, <3>2 DEF OneStory
    <3>3. CASE ~Duplicate(p)
      BY <2>5, <3>1, <3>2, <3>3 DEF Duplicate, OneStory, KeysInv, RowsAreKeyed
    <3> QED
      BY <1>4, <3>1, <3>3
  <2>6. LookupHolds'
    <3> SUFFICES ASSUME NEW v \in Workers, NEW a \in Posts, NEW b \in Posts,
                        job'[v].step[a] = "insert", OneStory(a, b), row[b] # "absent"
                 PROVE  a \in loose' \/ b \in loose' \/ Story[a] \in overlapped'
      BY <1>1 DEF LookupHolds, OneStory
    <3>1. CASE v = w /\ a = p
      BY <2>5, <3>1
    <3>2. CASE ~(v = w /\ a = p)
      BY <1>1, <2>1, <2>3, <3>2 DEF KeysInv, LookupHolds
    <3> QED BY <3>1, <3>2
  <2>7. InsertsOverlap'
    BY <2>1, <2>2, <2>3 DEF KeysInv, InsertsOverlap, OneStory
  <2>8. DuplicateRowsNeedOverlap'
    BY <1>1, <2>1 DEF KeysInv, DuplicateRowsNeedOverlap
  <2> QED
    BY <2>4, <2>6, <2>7, <2>8 DEF KeysInv
<1> QED
  BY <1>0, <1>3, <1>4, LookUpFoot

LEMMA InsertKeys ==
    ASSUME TypeOK, KeysInv, NEW w \in Workers, NEW p \in Posts, Insert(w, p)
    PROVE  KeysInv'
<1>0. JobsOK /\ TypeRest
  BY TypeParts
<1>1. keyed' = keyed /\ overlapped' = overlapped
  BY DEF Insert
<1>2. job[w].step[p] = (IF job[w].kind = "ingest" THEN "fetched" ELSE "insert")
  BY <1>0, InsertFoot
<1>3. CASE Moved(w, p, "none") /\ UNCHANGED <<row, loose>>
  BY <1>0, <1>1, <1>2, <1>3, KeysKept DEF Moved
<1>4. ASSUME NEW s \in {"none", "held", "key"},
             /\ row[p] = "absent"
             /\ row' = [row EXCEPT ![p] = "new"]
             /\ Moved(w, p, s)
             /\ loose' = IF s = "key" THEN loose ELSE loose \cup {p},
             s = "key" => job[w].kind # "ingest"
      PROVE  KeysInv'
  <2>1. \A v \in Workers, q \in Posts :
            job'[v].step[q] = IF v = w /\ q = p THEN s ELSE job[v].step[q]
    BY <1>4 DEF Moved, OthersKept
  <2>2. \A q \in Posts : row'[q] = IF q = p THEN "new" ELSE row[q]
    BY <1>0, <1>4 DEF TypeRest
  <2>3. loose \subseteq loose' /\ (p \in loose' \/ job[w].step[p] = "insert")
    BY <1>2, <1>4
  <2>4. RowsAreKeyed'
    <3> SUFFICES ASSUME NEW q \in Posts, row'[q] # "absent", q \notin keyed \cup loose'
                 PROVE  \E v \in Workers : job'[v].step[q] = "key"
      BY <1>1 DEF RowsAreKeyed
    <3>1. CASE q = p
      BY <1>4, <2>1, <3>1
    <3>2. CASE q # p
      BY <2>1, <2>2, <2>3, <3>2 DEF KeysInv, RowsAreKeyed
    <3> QED BY <3>1, <3>2
  <2>5. \A v \in Workers, q \in Posts : job'[v].step[q] = "insert" => job[v].step[q] = "insert"
    BY <2>1
  <2>6. LookupHolds'
    <3> SUFFICES ASSUME NEW v \in Workers, NEW a \in Posts, NEW b \in Posts,
                        job'[v].step[a] = "insert", OneStory(a, b), row'[b] # "absent"
                 PROVE  a \in loose' \/ b \in loose' \/ Story[a] \in overlapped
      BY <1>1 DEF LookupHolds, OneStory
    <3>1. CASE b = p
      BY <2>3, <2>5, <3>1 DEF KeysInv, InsertsOverlap
    <3>2. CASE b # p
      BY <2>2, <2>3, <2>5, <3>2 DEF KeysInv, LookupHolds
    <3> QED BY <3>1, <3>2
  <2>7. InsertsOverlap'
    BY <1>1, <2>5 DEF KeysInv, InsertsOverlap, OneStory
  <2>8. DuplicateRowsNeedOverlap'
    BY <1>1, <2>2, <2>3 DEF KeysInv, DuplicateRowsNeedOverlap, LookupHolds, OneStory
  <2> QED
    BY <2>4, <2>6, <2>7, <2>8 DEF KeysInv
<1> QED
  BY <1>0, <1>3, <1>4, InsertFoot

LEMMA NextKeys ==
    ASSUME TypeOK, Shape, RowsOK, KeysInv, [Next]_vars
    PROVE  KeysInv'
<1>0. TypeRest /\ JobsOK
  BY TypeParts
<1> USE <1>0 DEF tables, streamState, history
<1>1. ASSUME NEW w \in Workers, NEW p \in Posts, RecordDedupeKeys(w, p) PROVE KeysInv'
  <2>1. /\ keyed \subseteq keyed' /\ loose \subseteq loose' /\ p \in keyed' \cup loose'
        /\ UNCHANGED <<row, overlapped>>
    BY <1>1 DEF RecordDedupeKeys
  <2> QED
    BY <1>1, <2>1, RecordDedupeKeysFoot, KeysKept DEF Moved
<1>2. ASSUME NEW w \in Workers, NEW p \in Posts, NEW s, Moved(w, p, s),
             s \notin {"insert", "key"}, job[w].step[p] # "key",
             UNCHANGED <<keyed, loose, overlapped>>,
             \A q \in Posts : row'[q] # "absent" => row[q] # "absent"
      PROVE  KeysInv'
  BY <1>2, KeysKept DEF Moved
<1>3. ASSUME NEW w \in Workers, NEW p \in Posts, Holds(w, p), NEW value, Record(p, value)
      PROVE  \A q \in Posts : row'[q] # "absent" => row[q] # "absent"
  BY <1>3 DEF Record, RowsOK, TypeRest
<1>4. ASSUME NEW w \in Workers, NEW p \in Posts, PublishIngested(w, p) PROVE KeysInv'
  BY <1>2, <1>4, PublishIngestedFoot DEF PublishIngested
<1>5. ASSUME NEW w \in Workers, NEW p \in Posts, RejectByRules(w, p) PROVE KeysInv'
  <2>1. \A q \in Posts : row'[q] # "absent" => row[q] # "absent"
    BY <1>3, <1>5, RejectByRulesFoot DEF RejectByRules, Holds
  <2> QED
    BY <1>2, <1>5, <2>1, RejectByRulesFoot DEF RejectByRules
<1>6. ASSUME NEW w \in Workers, NEW p \in Posts, FilterMention(w, p) PROVE KeysInv'
  <2>1. \A q \in Posts : row'[q] # "absent" => row[q] # "absent"
    BY <1>3, <1>6, FilterMentionFoot DEF Holds
  <2> QED
    BY <1>2, <1>6, <2>1, FilterMentionFoot DEF FilterMention
<1>7. ASSUME NEW w \in Workers, NEW p \in Posts, Classify(w, p) PROVE KeysInv'
  <2>1. Holds(w, p) /\ row[p] # "absent"
    BY <1>7, ClassifyFoot DEF Holds, RowsOK
  <2>2. \A q \in Posts : row'[q] # "absent" => row[q] # "absent"
    BY <1>3, <1>7, <2>1, ClassifyFoot DEF TypeRest
  <2>3. PICK s : Moved(w, p, s) /\ s \notin {"insert", "key"}
    BY <1>7, ClassifyFoot DEF AfterVerdict, Verdicts
  <2> QED
    BY <1>2, <1>7, <2>2, <2>3, ClassifyFoot DEF Classify
<1>8. ASSUME NEW w \in Workers, NEW p \in Posts, PublishScored(w, p) PROVE KeysInv'
  <2>1. AfterVerdict(job[w].step[p]) \notin {"insert", "key"} /\ job[w].step[p] # "key"
    BY <1>8, PublishScoredFoot DEF AfterVerdict, Verdicts
  <2> QED
    BY <1>2, <1>8, <2>1, PublishScoredFoot DEF PublishScored
<1>9. ASSUME NEW w \in Workers, NEW p \in Posts, QualifyAsLead(w, p) PROVE KeysInv'
  BY <1>2, <1>9, QualifyAsLeadFoot DEF QualifyAsLead
<1>10. ASSUME NEW w \in Workers, NEW p \in Posts, RunWorkflows(w, p) PROVE KeysInv'
  BY <1>2, <1>10, RunWorkflowsFoot DEF RunWorkflows
<1>25. ASSUME NEW w \in Workers, NEW p \in Posts, Panic(w, p) PROVE KeysInv'
  BY <1>2, <1>25, PanicFoot DEF Panic, Verdicts
<1>11. ASSUME NEW w \in Workers, NEW S, NEW s, NEW k, NEW e, Loaded(w, S, s, k, e), s # "insert",
              \A q \in Posts : job[w].step[q] = "key" => q \in loose',
              UNCHANGED <<row, keyed, overlapped>>, loose \subseteq loose'
       PROVE  KeysInv'
  BY <1>11, KeysKept DEF Loaded
<1>12. ASSUME NEW w \in Workers, TakeCredits(w) PROVE KeysInv'
  <2>1. \A q \in Posts : job[w].step[q] # "key"
    BY <1>12, TakeCreditsFoot DEF Scores, Through, At, Crawling
  <2> QED
    BY <1>11, <1>12, <2>1, TakeCreditsFoot DEF TakeCredits
<1>13. ASSUME NEW w \in Workers, BackfillUnclassified(w) PROVE KeysInv'
  BY <1>11, <1>13, BackfillFoot DEF BackfillUnclassified, Empty
<1>14. ASSUME NEW w \in Workers, Finish(w) PROVE KeysInv'
  BY <1>11, <1>14, FinishFoot DEF Finish, Empty
<1>15. ASSUME NEW w \in Workers, MarkProcessed(w) PROVE KeysInv'
  BY <1>11, <1>15, MarkProcessedFoot DEF MarkProcessed, Empty
<1>16. ASSUME NEW w \in Workers, Crash(w) PROVE KeysInv'
  BY <1>11, <1>16, CrashFoot DEF Crash, At
<1>17. ASSUME NEW w \in Workers, NEW kind \in {"poll", "scan", "ingest"}, NEW found,
              Begin(w, kind, found), job[w].kind \in {"idle", "gap"},
              UNCHANGED <<row, keyed, loose, overlapped>>
       PROVE  KeysInv'
  <2>1. Empty(w) /\ kind \in Kinds
    BY <1>17 DEF Shape, WorkerOK, Kinds
  <2> QED
    BY <1>11, <1>17, <2>1, BeginFoot DEF Empty
<1>18. ASSUME NEW found, PollProfiles(found) \/ PostSignals(found) PROVE KeysInv'
  BY <1>17, <1>18 DEF PollProfiles, PostSignals, Workers
<1>19. ASSUME NEW w \in {"tick", "now"}, NEW found, ScanWorkspace(w, found) PROVE KeysInv'
  BY <1>17, <1>19 DEF ScanWorkspace, Workers
<1>20. ASSUME SkipScan PROVE KeysInv'
  <2>1. "tick" \in Workers /\ Empty("tick")
    BY <1>20 DEF SkipScan, Workers, Shape, WorkerOK
  <2> QED
    BY <1>11, <1>20, <2>1, SkipScanFoot DEF SkipScan, Empty
<1>21. ASSUME NEW p \in Posts, HandleIngested(p) PROVE KeysInv'
  <2>1. "scorer" \in Workers /\ Empty("scorer")
    BY <1>21 DEF HandleIngested, Workers, Shape, WorkerOK
  <2> QED
    BY <1>11, <1>21, <2>1, HandleIngestedFoot DEF HandleIngested, Empty
<1>22. ASSUME NEW p \in Posts, HandleScored(p) PROVE KeysInv'
  <2>1. "qualifier" \in Workers /\ Empty("qualifier")
    BY <1>22 DEF HandleScored, Workers, Shape, WorkerOK
  <2> QED
    BY <1>11, <1>22, <2>1, HandleScoredFoot DEF HandleScored, Empty
<1>23. ASSUME RefreshFree \/ UNCHANGED vars PROVE KeysInv'
  BY <1>23 DEF RefreshFree, vars, KeysInv, RowsAreKeyed, LookupHolds, InsertsOverlap,
               DuplicateRowsNeedOverlap, OneStory
<1>24. ASSUME NEW w \in Workers, Step(w) PROVE KeysInv'
  BY <1>1, <1>4, <1>5, <1>6, <1>7, <1>8, <1>9, <1>10, <1>12, <1>13, <1>14, <1>15,
     <1>24, LookUpKeys, InsertKeys DEF Step
<1> QED
  BY <1>16, <1>18, <1>19, <1>20, <1>21, <1>22, <1>23, <1>24, <1>25 DEF Next, Poll, Scan

LEMMA InitKeys ==
    ASSUME Init
    PROVE  RowsOK /\ KeysInv
<1>1. /\ ingested = {}
      /\ \A p \in Posts : row[p] = "absent" /\ announced[p] = "none"
      /\ \A w \in Workers, p \in Posts : job[w].step[p] = "none"
  BY DEF Init, Idle
<1> QED
  BY <1>1 DEF RowsOK, Holds, KeysInv, RowsAreKeyed, LookupHolds, InsertsOverlap,
              DuplicateRowsNeedOverlap

\* dropBeforeInsert asks for the keys in one statement and the keys are stored
\* in another, after the insert: still, two rows of one story need two inserts
\* that overlapped, a statement that failed, or the extension's handler.
THEOREM OneRowAStory == Spec => []DuplicateRowsNeedOverlap
<1> DEFINE I == TypeOK /\ Shape /\ RowsOK /\ KeysInv
<1>1. Init => I
  BY InitShape, InitKeys, PipelineAssumption
<1>2. I /\ [Next]_vars => I'
  BY NextShape, NextType, NextRows, NextKeys, PipelineAssumption
<1>3. I => DuplicateRowsNeedOverlap
  BY DEF KeysInv
<1> QED
  BY <1>1, <1>2, <1>3, PTL DEF Spec

----------------------------------------------------------------------------
(* Marks: what the scorer's consumer marks as processed has a stage.       *)

Unstaged(p) == row[p] \in {"absent", "new"}
Excused(p) == p \in unpaid \cup unstored \cup panicked

MarkedIsStaged == \A p \in Posts : <<"scorer", p>> \in done => ~Unstaged(p) \/ Excused(p)

InHand(w, k, p) == job[w].kind = k /\ job[w].event = p

\* While the consumer has the post, it is on its way to a stage or has one.
ScoringNow(w) ==
    \A p \in Posts :
        InHand(w, "score", p) /\ Unstaged(p) /\ ~Excused(p)
            => job[w].step[p] \in {"ready", "paid", "passed"}

MarksInv == MarkedIsStaged /\ \A w \in Workers : ScoringNow(w)

LEMMA MarksKept ==
    ASSUME JobsOK, MarksInv, NEW w \in Workers, OthersKept(w),
           \A q \in Posts : Unstaged(q)' => Unstaged(q),
           unpaid \subseteq unpaid', unstored \subseteq unstored',
           panicked \subseteq panicked',
           \A q \in Posts : <<"scorer", q>> \in done' => <<"scorer", q>> \in done
                                                       \/ ~Unstaged(q)' \/ Excused(q)',
           ScoringNow(w)'
    PROVE  MarksInv'
<1>1. MarkedIsStaged'
  BY DEF MarksInv, MarkedIsStaged, Excused
<1>2. ASSUME NEW v \in Workers \ {w} PROVE ScoringNow(v)'
  <2>1. job'[v] = job[v]
    BY DEF OthersKept
  <2> QED
    BY <2>1 DEF MarksInv, ScoringNow, InHand, Excused
<1> QED
  BY <1>1, <1>2 DEF MarksInv

\* A post moves on, or two of a batch: what the consumer has at a step past
\* scoring has its stage.
LEMMA MarksMoved ==
    ASSUME JobsOK, Shape, MarksInv, NEW w \in Workers, NEW p \in Posts, NEW s, Moved(w, p, s),
           \A q \in Posts : Unstaged(q)' => Unstaged(q),
           unpaid \subseteq unpaid', unstored \subseteq unstored',
           panicked \subseteq panicked', UNCHANGED done,
           \/ ~Unstaged(p)' \/ Excused(p)'
           \/ job[w].step[p] \notin {"ready", "paid", "passed"}
           \/ s \in {"ready", "paid", "passed"}
    PROVE  MarksInv'
<1>1. ScoringNow(w)
  BY DEF MarksInv
<1>2. ScoringNow(w)'
  BY <1>1 DEF ScoringNow, InHand, Moved, Excused
<1> QED
  BY <1>2, MarksKept DEF Moved

LEMMA RecordStages ==
    ASSUME TypeRest, NEW p \in Posts, NEW value, value \notin {"absent", "new"},
           Record(p, value)
    PROVE  /\ \A q \in Posts : Unstaged(q)' => Unstaged(q)
           /\ unstored \subseteq unstored'
           /\ ~Unstaged(p)' \/ p \in unstored'
BY DEF Record, TypeRest, Unstaged

LEMMA NextMarks ==
    ASSUME TypeOK, Shape, MarksInv, [Next]_vars
    PROVE  MarksInv'
<1>0. TypeRest /\ JobsOK
  BY TypeParts
<1> USE <1>0 DEF tables, streamState, history
<1>1. ASSUME NEW w \in Workers, NEW p \in Posts, LookUp(w, p) PROVE MarksInv'
  <2>1. UNCHANGED <<row, unpaid, unstored, panicked, done>>
    BY <1>1 DEF LookUp
  <2> QED
    BY <1>1, <2>1, LookUpFoot, MarksMoved DEF Unstaged
<1>2. ASSUME NEW w \in Workers, NEW p \in Posts, Insert(w, p) PROVE MarksInv'
  <2>1. UNCHANGED <<unpaid, unstored, panicked, done>>
    BY <1>2 DEF Insert
  <2>2. \A q \in Posts : Unstaged(q)' => Unstaged(q)
    BY <1>2, InsertFoot DEF Unstaged, TypeRest
  <2>3. job[w].step[p] \notin {"ready", "paid", "passed"} /\ \E s : Moved(w, p, s)
    BY <1>2, InsertFoot
  <2> QED
    BY <2>1, <2>2, <2>3, MarksMoved
<1>3. ASSUME NEW w \in Workers, NEW p \in Posts, RecordDedupeKeys(w, p) PROVE MarksInv'
  BY <1>3, RecordDedupeKeysFoot, MarksMoved DEF RecordDedupeKeys, Unstaged
<1>4. ASSUME NEW w \in Workers, NEW p \in Posts, PublishIngested(w, p) PROVE MarksInv'
  BY <1>4, PublishIngestedFoot, MarksMoved DEF PublishIngested, Unstaged
<1>5. ASSUME NEW w \in Workers, NEW p \in Posts, RejectByRules(w, p) PROVE MarksInv'
  <2>1. /\ \A q \in Posts : Unstaged(q)' => Unstaged(q)
        /\ unstored \subseteq unstored'
        /\ ~Unstaged(p)' \/ Excused(p)'
    BY <1>5, RecordStages DEF RejectByRules, Excused
  <2> QED
    BY <1>5, <2>1, RejectByRulesFoot, MarksMoved DEF RejectByRules
<1>6. ASSUME NEW w \in Workers, NEW p \in Posts, FilterMention(w, p) PROVE MarksInv'
  <2>1. CASE Moved(w, p, "passed") /\ UNCHANGED <<row, unstored>>
    BY <1>6, <2>1, MarksMoved DEF FilterMention, Unstaged
  <2>2. CASE Moved(w, p, "none") /\ Record(p, "filtered")
    <3>1. /\ \A q \in Posts : Unstaged(q)' => Unstaged(q)
          /\ unstored \subseteq unstored'
          /\ ~Unstaged(p)' \/ Excused(p)'
      BY <2>2, RecordStages DEF Excused
    <3> QED
      BY <1>6, <2>2, <3>1, MarksMoved DEF FilterMention
  <2> QED
    BY <1>6, <2>1, <2>2, FilterMentionFoot
<1>7. ASSUME NEW w \in Workers, NEW p \in Posts, Classify(w, p) PROVE MarksInv'
  <2>1. /\ \A q \in Posts : Unstaged(q)' => Unstaged(q)
        /\ unstored \subseteq unstored'
        /\ ~Unstaged(p)' \/ Excused(p)'
    <3>1. CASE \/ row' = [row EXCEPT ![p] = "error"] /\ UNCHANGED unstored
               \/ unstored' = unstored \cup {p} /\ UNCHANGED row
      BY <3>1 DEF Unstaged, Excused, TypeRest
    <3>2. CASE \E v \in Verdicts : Record(p, v)
      BY <3>2, RecordStages DEF Excused, Verdicts
    <3> QED
      BY <1>7, <3>1, <3>2, ClassifyFoot
  <2>2. PICK s : Moved(w, p, s)
    BY <1>7, ClassifyFoot
  <2> QED
    BY <1>7, <2>1, <2>2, MarksMoved DEF Classify
<1>8. ASSUME NEW w \in Workers, NEW p \in Posts, PublishScored(w, p) PROVE MarksInv'
  BY <1>8, PublishScoredFoot, MarksMoved DEF PublishScored, Unstaged, Verdicts
<1>9. ASSUME NEW w \in Workers, NEW p \in Posts, QualifyAsLead(w, p) PROVE MarksInv'
  BY <1>9, QualifyAsLeadFoot, MarksMoved DEF QualifyAsLead, Unstaged
<1>10. ASSUME NEW w \in Workers, NEW p \in Posts, RunWorkflows(w, p) PROVE MarksInv'
  BY <1>10, RunWorkflowsFoot, MarksMoved DEF RunWorkflows, Unstaged
<1>11. ASSUME NEW w \in Workers, OthersKept(w), UNCHANGED <<row, unstored, panicked>>,
              unpaid \subseteq unpaid', ScoringNow(w)', UNCHANGED done
       PROVE  MarksInv'
  BY <1>11, MarksKept DEF Unstaged
<1>12. ASSUME NEW w \in Workers, TakeCredits(w) PROVE MarksInv'
  <2>1. PICK kept \in SUBSET Batch(w) :
            /\ Loaded(w, kept, "paid", job[w].kind, job[w].event)
            /\ unpaid' = unpaid \cup (Batch(w) \ kept)
    BY <1>12, TakeCreditsFoot
  <2>2. WorkerOK(w) /\ PhaseOK(w) /\ Batch(w) # {} /\ UNCHANGED <<row, unstored, panicked, done>>
    BY <1>12 DEF TakeCredits, Shape, Scores
  <2>3. ASSUME NEW p \in Posts, InHand(w, "score", p)' PROVE p \in Batch(w)
    <3>1. InHand(w, "score", p)
      BY <2>1, <2>3 DEF Loaded, InHand
    <3>2. \A q \in Batch(w) : q \in Posts /\ job[w].step[q] # "none"
      BY DEF Batch, At
    <3> QED
      BY <2>2, <3>1, <3>2 DEF WorkerOK, InHand
  <2>4. ScoringNow(w)'
    BY <2>1, <2>2, <2>3 DEF ScoringNow, Loaded, Excused
  <2> QED
    BY <1>11, <2>1, <2>2, <2>4 DEF Loaded
<1>13. ASSUME NEW w \in Workers, NEW k, NEW S, NEW s, NEW e, Loaded(w, S, s, k, e), k # "score"
       PROVE  OthersKept(w) /\ ScoringNow(w)'
  BY <1>13 DEF Loaded, ScoringNow, InHand
<1>14. ASSUME NEW w \in Workers, BackfillUnclassified(w) PROVE MarksInv'
  <2>1. job[w].kind # "score"
    BY <1>14, BackfillFoot DEF Shape, WorkerOK, ModeOK, KindsOf, Consumers
  <2> QED
    BY <1>11, <1>13, <1>14, <2>1, BackfillFoot DEF BackfillUnclassified
<1>15. ASSUME NEW w \in Workers, Finish(w) \/ Crash(w) PROVE MarksInv'
  BY <1>11, <1>13, <1>15, FinishFoot, CrashFoot DEF Finish, Crash
<1>16. ASSUME NEW w \in Workers, MarkProcessed(w) PROVE MarksInv'
  <2>1. OthersKept(w) /\ ScoringNow(w)' /\ UNCHANGED <<row, unpaid, unstored, panicked>>
    BY <1>13, <1>16, MarkProcessedFoot DEF MarkProcessed
  <2>2. ASSUME NEW q \in Posts, <<"scorer", q>> \in done', <<"scorer", q>> \notin done
        PROVE  ~Unstaged(q)' \/ Excused(q)'
    <3>1. w = "scorer" /\ q = job[w].event
      BY <1>16, <2>2 DEF MarkProcessed
    <3>2. InHand(w, "score", q) /\ job[w].step[q] = "none"
      BY <1>16, <3>1 DEF MarkProcessed, Shape, WorkerOK, KindsOf, InHand, Empty
    <3> QED
      BY <2>1, <3>2 DEF MarksInv, ScoringNow, Unstaged, Excused
  <2> QED
    BY <2>1, <2>2, MarksKept DEF Unstaged
<1>25. ASSUME NEW w \in Workers, NEW p \in Posts, Panic(w, p) PROVE MarksInv'
  <2>1. UNCHANGED <<row, unpaid, unstored, done>> /\ panicked \subseteq panicked'
    BY <1>25 DEF Panic
  <2>2. Moved(w, p, "none") /\ (Excused(p)' \/ job[w].step[p] \notin {"ready", "paid", "passed"})
    BY <1>25, PanicFoot DEF Panic, At, Excused, Verdicts
  <2> QED
    BY <2>1, <2>2, MarksMoved DEF Unstaged
<1>17. ASSUME NEW w \in Workers, NEW kind \in {"poll", "scan", "ingest"}, NEW found,
              Begin(w, kind, found), UNCHANGED <<row, unpaid, unstored, panicked, done>>
       PROVE  MarksInv'
  <2>1. kind \in Kinds /\ kind # "score"
    BY DEF Kinds
  <2> QED
    BY <1>11, <1>13, <1>17, <2>1, BeginFoot
<1>18. ASSUME NEW found, PollProfiles(found) \/ PostSignals(found) PROVE MarksInv'
  BY <1>17, <1>18 DEF PollProfiles, PostSignals, Workers
<1>19. ASSUME NEW w \in {"tick", "now"}, NEW found, ScanWorkspace(w, found) PROVE MarksInv'
  BY <1>17, <1>19 DEF ScanWorkspace, Workers
<1>20. ASSUME SkipScan PROVE MarksInv'
  <2>1. "tick" \in Workers
    BY DEF Workers
  <2> QED
    BY <1>11, <1>13, <1>20, <2>1, SkipScanFoot DEF SkipScan
<1>21. ASSUME NEW p \in Posts, HandleIngested(p) PROVE MarksInv'
  <2>1. "scorer" \in Workers /\ UNCHANGED <<row, unpaid, unstored, panicked, done>>
    BY <1>21 DEF HandleIngested, Workers
  <2>2. ScoringNow("scorer")'
    BY <1>21, HandleIngestedFoot DEF ScoringNow, Loaded, InHand
  <2> QED
    BY <1>11, <1>21, <2>1, <2>2, HandleIngestedFoot DEF Loaded
<1>22. ASSUME NEW p \in Posts, HandleScored(p) PROVE MarksInv'
  <2>1. "qualifier" \in Workers /\ UNCHANGED <<row, unpaid, unstored, panicked, done>>
    BY <1>22 DEF HandleScored, Workers
  <2> QED
    BY <1>11, <1>13, <1>22, <2>1, HandleScoredFoot
<1>23. ASSUME RefreshFree \/ UNCHANGED vars PROVE MarksInv'
  BY <1>23 DEF RefreshFree, vars, MarksInv, MarkedIsStaged, ScoringNow, Unstaged, Excused, InHand
<1>24. ASSUME NEW w \in Workers, Step(w) PROVE MarksInv'
  BY <1>1, <1>2, <1>3, <1>4, <1>5, <1>6, <1>7, <1>8, <1>9, <1>10, <1>12, <1>14, <1>15,
     <1>16, <1>24 DEF Step
<1> QED
  BY <1>15, <1>18, <1>19, <1>20, <1>21, <1>22, <1>23, <1>24, <1>25 DEF Next, Poll, Scan

\* handleScorerMessage learns of no error of the scoring it calls: still, the
\* mention of an event it marks as processed has its stage, unless credits ran
\* out, its UPDATE failed or its part of the batch panicked.
THEOREM MarkedIsScored == Spec => []ProcessedIsScored
<1> DEFINE I == TypeOK /\ Shape /\ MarksInv
<1>1. Init => I
  <2>1. Init => MarksInv
    BY DEF Init, Idle, MarksInv, MarkedIsStaged, ScoringNow, InHand
  <2> QED BY <2>1, InitShape, PipelineAssumption
<1>2. I /\ [Next]_vars => I'
  BY NextShape, NextType, NextMarks, PipelineAssumption
<1>3. I => ProcessedIsScored
  BY DEF MarksInv, MarkedIsStaged, ProcessedIsScored, Unstaged, Excused
<1> QED
  BY <1>1, <1>2, <1>3, PTL DEF Spec

----------------------------------------------------------------------------
(* One pass: a mention that was not rescored had one worker, one verdict   *)
(* and at most one lead.                                                   *)

Waiting == {"key", "held", "ready", "paid", "passed"}

OneHolder(p) ==
    \A w, v \in Workers : Holds(w, p) /\ Holds(v, p) /\ w # v => p \in raced

\* What the row, the event and the lead say while a worker has the mention.
StageFits(p) ==
    \A w \in Workers :
        /\ job[w].step[p] \in Waiting => row[p] \in {"new", "error"}
        /\ job[w].step[p] \in Verdicts =>
              row[p] \in Verdicts /\ leads[p] = 0 /\ announced[p] = "none"
        /\ job[w].step[p] = "qualify" => row[p] \in Verdicts /\ leads[p] = 0

LeadFits(p) ==
    /\ row[p] \in {"absent", "new", "error"} => leads[p] = 0
    /\ announced[p] # "none" => row[p] \in Verdicts
    /\ leads[p] <= 1

\* Without the inline path only an event leads to a stage, and with the
\* qualifier's consumer only one leads to a lead; each event is handled once.
Handled(c, k, p) == <<c, p>> \in done \/ InHand(c, k, p)
EventFits(p) ==
    /\ ~Inline /\ row[p] \notin {"absent", "new"} => Handled("scorer", "score", p)
    /\ mode.async /\ leads[p] > 0 => Handled("qualifier", "qualify", p)

\* A mention that is not scored again comes before the classifier undecided:
\* without streams as long as it is in one hand, with streams alone as long as
\* its event comes once, also when a stage could not be stored.
Pass(p) ==
    /\ ~mode.streams /\ p \notin raced =>
          \A w \in Workers : job[w].step[p] \in Waiting => row[p] \in {"new", "error"}
    /\ ~Inline /\ p \notin redelivered =>
          /\ row[p] \notin {"absent", "new"} \/ announced[p] # "none"
                => Handled("scorer", "score", p)
          /\ job["scorer"].step[p] \in Waiting => row[p] = "new" /\ announced[p] = "none"
          /\ job["scorer"].step[p] \in Verdicts => announced[p] = "none"

\* With streams alone one worker makes the leads, and each event one at most.
Follower == IF mode.async THEN "qualifier" ELSE "scorer"
FollowKind == IF mode.async THEN "qualify" ELSE "score"
Unfollowed == Waiting \cup Verdicts \cup {"qualify"}

OneFollowUp(p) ==
    ~Inline /\ p \notin redelivered =>
        /\ leads[p] <= 1
        /\ leads[p] > 0 => Handled(Follower, FollowKind, p)
        /\ job[Follower].step[p] \in Unfollowed => leads[p] = 0

\* The mention may have been in two hands, or pass twice.
Disturbed(p) == p \in raced \cup unstored \cup redelivered \/ Dual

Solo(p) ==
    /\ OneHolder(p) /\ Pass(p) /\ OneFollowUp(p)
    /\ ~Disturbed(p) => StageFits(p) /\ LeadFits(p) /\ EventFits(p)

SoloInv ==
    /\ ~mode.streams => ingested = {}
    /\ \A p \in Posts : Solo(p)

ExcusesGrow ==
    /\ mode' = mode
    /\ raced \subseteq raced' /\ unstored \subseteq unstored' /\ redelivered \subseteq redelivered'

\* A consumer keeps its place, or its event is marked or comes again.
TurnKept(p) ==
    \A c \in Consumers, k \in {"score", "qualify"} :
        Handled(c, k, p) => Handled(c, k, p)' \/ p \in redelivered'

\* w may take p up.
MayTake(w, p) ==
    /\ ~mode.streams => row[p] \in {"new", "error"}
    /\ w = "scorer" /\ ~Inline /\ p \notin redelivered => row[p] = "new" /\ announced[p] = "none"

\* Nobody comes to score p who had not and may not, and nobody decides it.
LEMMA PassKept ==
    ASSUME NEW p \in Posts, Pass(p), ExcusesGrow, TurnKept(p),
           row'[p] = row[p], announced'[p] = announced[p],
           \A v \in Workers :
              /\ job'[v].step[p] \in Waiting => job[v].step[p] \in Waiting \/ MayTake(v, p)
              /\ job'[v].step[p] \in Verdicts => job[v].step[p] \in Verdicts
    PROVE  Pass(p)'
<1>1. ASSUME ~mode.streams, p \notin raced', NEW v \in Workers, job'[v].step[p] \in Waiting
      PROVE  row'[p] \in {"new", "error"}
  BY <1>1 DEF Pass, MayTake, ExcusesGrow
<1>2. ASSUME ~Inline, p \notin redelivered'
      PROVE  /\ row'[p] \notin {"absent", "new"} \/ announced'[p] # "none"
                   => Handled("scorer", "score", p)'
             /\ job'["scorer"].step[p] \in Waiting => row'[p] = "new" /\ announced'[p] = "none"
             /\ job'["scorer"].step[p] \in Verdicts => announced'[p] = "none"
  <2>1. p \notin redelivered /\ "scorer" \in Workers \cap Consumers
    BY <1>2 DEF ExcusesGrow, Workers, Consumers
  <2>2. Handled("scorer", "score", p) => Handled("scorer", "score", p)'
    BY <1>2, <2>1 DEF TurnKept
  <2> QED
    BY <1>2, <2>1, <2>2 DEF Pass, MayTake
<1> QED
  BY <1>1, <1>2 DEF Pass, ExcusesGrow, Inline

MayFollow(w, p) == w = Follower /\ ~Inline /\ p \notin redelivered => leads[p] = 0

LEMMA FollowUpKept ==
    ASSUME NEW p \in Posts, OneFollowUp(p), ExcusesGrow, TurnKept(p), leads'[p] = leads[p],
           \A v \in Workers :
              job'[v].step[p] \in Unfollowed => job[v].step[p] \in Unfollowed \/ MayFollow(v, p)
    PROVE  OneFollowUp(p)'
<1>1. /\ Follower' = Follower /\ FollowKind' = FollowKind /\ Inline' = Inline
      /\ Follower \in Workers \cap Consumers /\ FollowKind \in {"score", "qualify"}
  BY DEF ExcusesGrow, Follower, FollowKind, Inline, Workers, Consumers
<1> SUFFICES ASSUME ~Inline, p \notin redelivered'
             PROVE  /\ leads'[p] <= 1
                    /\ leads'[p] > 0 => Handled(Follower, FollowKind, p)'
                    /\ job'[Follower].step[p] \in Unfollowed => leads'[p] = 0
  BY <1>1 DEF OneFollowUp
<1>2. p \notin redelivered
  BY DEF ExcusesGrow
<1>3. Handled(Follower, FollowKind, p) => Handled(Follower, FollowKind, p)'
  BY <1>1 DEF TurnKept
<1> QED
  BY <1>1, <1>2, <1>3 DEF OneFollowUp, MayFollow

\* w may move p, but not by a verdict.
Quiet(w, p) ==
    /\ OthersKept(w)
    /\ row'[p] = row[p] /\ leads'[p] = leads[p] /\ announced'[p] = announced[p]
    /\ Holds(w, p)' =>
          /\ Holds(w, p)
          /\ \/ job'[w].step[p] = job[w].step[p]
             \/ {job[w].step[p], job'[w].step[p]} \subseteq Waiting
             \/ job'[w].step[p] = "flow"

LEMMA SoloQuiet ==
    ASSUME NEW p \in Posts, NEW w \in Workers, Solo(p), ExcusesGrow, Quiet(w, p), TurnKept(p)
    PROVE  Solo(p)'
<1>1. \A v \in Workers \ {w} : job'[v] = job[v]
  BY DEF Quiet, OthersKept
<1>2. OneHolder(p)'
  <2> SUFFICES ASSUME NEW a \in Workers, NEW b \in Workers, Holds(a, p)', Holds(b, p)', a # b
               PROVE  p \in raced'
    BY DEF OneHolder
  <2>1. Holds(a, p) /\ Holds(b, p)
    BY <1>1 DEF Quiet, Holds
  <2> QED
    BY <2>1 DEF Solo, OneHolder, ExcusesGrow
<1>3. ASSUME ~Disturbed(p)' PROVE StageFits(p)' /\ LeadFits(p)' /\ EventFits(p)'
  <2>1. StageFits(p) /\ LeadFits(p) /\ EventFits(p) /\ p \notin redelivered'
    BY <1>3 DEF Solo, Disturbed, Dual, ExcusesGrow
  <2>2. LeadFits(p)'
    BY <2>1 DEF Quiet, LeadFits
  <2>3. EventFits(p)'
    BY <2>1 DEF Quiet, EventFits, TurnKept, Consumers, ExcusesGrow, Inline
  <2>4. ASSUME NEW v \in Workers
        PROVE  /\ job'[v].step[p] \in Waiting => row'[p] \in {"new", "error"}
               /\ job'[v].step[p] \in Verdicts =>
                     row'[p] \in Verdicts /\ leads'[p] = 0 /\ announced'[p] = "none"
               /\ job'[v].step[p] = "qualify" => row'[p] \in Verdicts /\ leads'[p] = 0
    <3>1. CASE v # w \/ job'[v].step[p] = job[v].step[p]
      BY <1>1, <2>1, <3>1 DEF StageFits, Quiet
    <3>2. CASE v = w /\ job'[v].step[p] # job[v].step[p]
      <4>1. CASE ~(Holds(w, p)')
        BY <3>2, <4>1 DEF Holds, Waiting, Verdicts
      <4>2. CASE job'[w].step[p] = "flow"
        BY <3>2, <4>2 DEF Waiting, Verdicts
      <4>3. CASE {job[w].step[p], job'[w].step[p]} \subseteq Waiting
        BY <2>1, <3>2, <4>3 DEF StageFits, Quiet, Waiting, Verdicts
      <4> QED
        BY <3>2, <4>1, <4>2, <4>3 DEF Quiet
    <3> QED
      BY <3>1, <3>2
  <2>5. StageFits(p)'
    BY <2>4 DEF StageFits
  <2> QED
    BY <2>2, <2>3, <2>5
<1>4. Pass(p)'
  <2>1. \A v \in Workers :
           /\ job'[v].step[p] \in Waiting => job[v].step[p] \in Waiting
           /\ job'[v].step[p] \in Verdicts => job[v].step[p] \in Verdicts
    BY <1>1 DEF Quiet, Holds, Waiting, Verdicts
  <2> QED
    BY <2>1, PassKept DEF Quiet, Solo
<1>5. OneFollowUp(p)'
  <2>1. \A v \in Workers :
           job'[v].step[p] \in Unfollowed => job[v].step[p] \in Unfollowed
    BY <1>1 DEF Quiet, Holds, Waiting, Verdicts, Unfollowed
  <2> QED
    BY <2>1, FollowUpKept DEF Quiet, Solo
<1> QED
  BY <1>2, <1>3, <1>4, <1>5 DEF Solo


\* Moving a post leaves every consumer its event.
LEMMA TurnMoved ==
    ASSUME NEW w \in Workers, NEW p \in Posts, NEW s, Moved(w, p, s), done \subseteq done'
    PROVE  \A q \in Posts : TurnKept(q)
<1>1. \A v \in Workers : job'[v].kind = job[v].kind /\ job'[v].event = job[v].event
  BY DEF Moved, OthersKept
<1> QED
  BY <1>1 DEF TurnKept, Handled, InHand, Consumers, Workers

\* A worker stores a stage or a verdict, or tries to, and moves on.
Stages(w, p, s, value) ==
    /\ job[w].step[p] \in {"ready", "paid", "passed"} \/ (job[w].step[p] = "held" /\ Inline)
    /\ Moved(w, p, s)
    /\ value \notin {"absent", "new"}
    /\ s = "none" \/ (s \in Verdicts \cup {"qualify", "flow"} /\ value \in Verdicts)
    /\ row'[p] = value \/ p \in unstored'
    /\ \A q \in Posts : q # p => row'[q] = row[q]
    /\ UNCHANGED <<leads, announced, done>>

LEMMA SoloStaged ==
    ASSUME TypeRest, Shape, NEW p \in Posts, NEW w \in Workers, Solo(p), ExcusesGrow,
           NEW s, NEW value, Stages(w, p, s, value)
    PROVE  Solo(p)'
<1> USE DEF Stages
<1>1. \A v \in Workers : v # w => job'[v] = job[v]
  BY DEF Moved, OthersKept
<1>2. Holds(w, p) /\ job'[w].step[p] = s
  BY DEF Holds, Waiting, Moved
<1>3. OneHolder(p)'
  <2> SUFFICES ASSUME NEW a \in Workers, NEW b \in Workers, Holds(a, p)', Holds(b, p)', a # b
               PROVE  p \in raced'
    BY DEF OneHolder
  <2>1. Holds(a, p) /\ Holds(b, p)
    BY <1>1, <1>2 DEF Holds
  <2> QED
    BY <2>1 DEF Solo, OneHolder, ExcusesGrow
<1>4. ASSUME ~Inline PROVE w = "scorer" /\ Handled("scorer", "score", p)'
  <2>1. w \in Consumers /\ WorkerOK(w) /\ StepsOK(w)
    BY <1>4 DEF Shape, ModeOK, Waiting, Crawling
  <2>2. job[w].kind = "score" /\ job[w].event = p /\ w = "scorer"
    BY <2>1 DEF WorkerOK, StepsOK, KindsOf, Consumers, Waiting, Empty
  <2>3. InHand("scorer", "score", p)'
    BY <2>2 DEF InHand, Moved
  <2> QED BY <2>2, <2>3 DEF Handled
<1>5. Pass(p)'
  <2>1. s \notin Waiting
    BY DEF Waiting, Verdicts
  <2>2. ASSUME ~mode.streams, p \notin raced', NEW v \in Workers
        PROVE  job'[v].step[p] \notin Waiting
    BY <1>1, <1>2, <2>1, <2>2 DEF Solo, OneHolder, ExcusesGrow, Holds, Waiting
  <2>3. ASSUME ~Inline, p \notin redelivered'
        PROVE  /\ job'["scorer"].step[p] \notin Waiting
               /\ announced'[p] = "none" /\ Handled("scorer", "score", p)'
    BY <1>2, <1>4, <2>1, <2>3 DEF Solo, Pass, ExcusesGrow, Waiting
  <2> QED
    BY <2>2, <2>3 DEF Pass, ExcusesGrow, Inline
<1>6. ASSUME ~Disturbed(p)' PROVE StageFits(p)' /\ LeadFits(p)' /\ EventFits(p)'
  <2>1. StageFits(p) /\ LeadFits(p) /\ EventFits(p) /\ row'[p] = value
    BY <1>6 DEF Solo, Disturbed, Dual, ExcusesGrow
  <2>2. row[p] \in {"new", "error"} /\ leads[p] = 0 /\ announced[p] = "none"
    BY <2>1 DEF StageFits, LeadFits, Waiting, Verdicts
  <2>3. \A v \in Workers : v # w => ~Holds(v, p)
    BY <1>2, <1>6 DEF Solo, OneHolder, Disturbed, ExcusesGrow
  <2>4. StageFits(p)'
    <3> SUFFICES ASSUME NEW v \in Workers
                 PROVE  /\ job'[v].step[p] \in Waiting => row'[p] \in {"new", "error"}
                        /\ job'[v].step[p] \in Verdicts =>
                              row'[p] \in Verdicts /\ leads'[p] = 0 /\ announced'[p] = "none"
                        /\ job'[v].step[p] = "qualify" => row'[p] \in Verdicts /\ leads'[p] = 0
      BY DEF StageFits
    <3>1. CASE v = w
      BY <1>2, <2>1, <2>2, <3>1 DEF Waiting, Verdicts
    <3>2. CASE v # w
      BY <1>1, <2>3, <3>2 DEF Holds, Waiting, Verdicts
    <3> QED BY <3>1, <3>2
  <2>5. LeadFits(p)'
    BY <2>1, <2>2 DEF LeadFits
  <2>6. EventFits(p)'
    BY <1>4, <2>2 DEF EventFits, ExcusesGrow, Inline
  <2> QED
    BY <2>4, <2>5, <2>6
<1>7. OneFollowUp(p)'
  <2>1. TurnKept(p)
    BY TurnMoved
  <2>2. \A v \in Workers :
           job'[v].step[p] \in Unfollowed => job[v].step[p] \in Unfollowed
    BY <1>1 DEF Unfollowed, Waiting
  <2> QED
    BY <2>1, <2>2, FollowUpKept DEF Solo
<1> QED
  BY <1>3, <1>5, <1>6, <1>7 DEF Solo


LEMMA SoloInsert ==
    ASSUME TypeOK, Shape, RowsOK, SoloInv, NEW w \in Workers, NEW p \in Posts, Insert(w, p),
           row'[p] # row[p]
    PROVE  Solo(p)'
<1>0. TypeRest /\ JobsOK /\ ExcusesGrow
  BY TypeParts DEF Insert, ExcusesGrow
<1>1. PICK s \in {"none", "held", "key"} :
          /\ row[p] = "absent" /\ row'[p] = "new"
          /\ Moved(w, p, s)
          /\ UNCHANGED <<leads, announced, done>>
  BY <1>0, InsertFoot DEF Insert, streamState, TypeRest
<1>2. \A v \in Workers : ~Holds(v, p)
  BY <1>1 DEF RowsOK
<1>3. \A v \in Workers : /\ v # w => ~(Holds(v, p)')
                         /\ job'[v].step[p] \notin Verdicts \cup {"qualify"}
  BY <1>1, <1>2 DEF Moved, OthersKept, Holds, Verdicts
<1>4. OneHolder(p)'
  BY <1>3 DEF OneHolder
<1>5. ASSUME ~Disturbed(p)' PROVE StageFits(p)' /\ LeadFits(p)' /\ EventFits(p)'
  <2>1. leads[p] = 0 /\ announced[p] = "none"
    BY <1>0, <1>1, <1>5 DEF SoloInv, Solo, LeadFits, Disturbed, Dual, ExcusesGrow, Verdicts
  <2> QED
    BY <1>1, <1>3, <2>1 DEF StageFits, LeadFits, EventFits
<1>6. Pass(p)'
  <2>1. announced[p] = "none"
    BY <1>1 DEF RowsOK
  <2>2. job'["scorer"].step[p] \notin Verdicts
    BY <1>3 DEF Workers
  <2> QED
    BY <1>1, <2>1, <2>2 DEF Pass
<1>7. OneFollowUp(p)'
  <2>1. TurnKept(p)
    BY <1>1, TurnMoved
  <2>2. w \notin Consumers
    <3>1. WorkerOK(w) /\ StepsOK(w) /\ job[w].step[p] \in {"fetched", "insert"}
      BY DEF Shape, Insert, At
    <3> QED
      BY <3>1 DEF WorkerOK, StepsOK, KindsOf, Consumers, ScoreSteps, Verdicts, Empty
  <2>3. MayFollow(w, p)
    BY <2>2 DEF MayFollow, Follower, Consumers
  <2>4. \A v \in Workers \ {w} : job'[v] = job[v]
    BY <1>1 DEF Moved, OthersKept
  <2> QED
    BY <1>0, <1>1, <2>1, <2>3, <2>4, FollowUpKept DEF SoloInv, Solo
<1> QED
  BY <1>4, <1>5, <1>6, <1>7 DEF Solo


LEMMA SoloPublish ==
    ASSUME TypeOK, Shape, SoloInv, NEW w \in Workers, NEW p \in Posts, PublishScored(w, p)
    PROVE  Solo(p)'
<1>0. TypeRest /\ JobsOK /\ ExcusesGrow
  BY TypeParts DEF PublishScored, ExcusesGrow
<1>1. /\ job[w].step[p] \in Verdicts /\ Moved(w, p, AfterVerdict(job[w].step[p]))
      /\ UNCHANGED <<row, leads, done>>
  BY <1>0, PublishScoredFoot DEF PublishScored, tables
<1>2. \A v \in Workers : v # w => job'[v] = job[v]
  BY <1>1 DEF Moved, OthersKept
<1>3. Holds(w, p) /\ job'[w].step[p] \in {"none", "qualify", "flow"}
  BY <1>1 DEF Holds, Verdicts, Moved, AfterVerdict
<1>4. OneHolder(p)'
  <2> SUFFICES ASSUME NEW a \in Workers, NEW b \in Workers, Holds(a, p)', Holds(b, p)', a # b
               PROVE  p \in raced'
    BY DEF OneHolder
  <2>1. Holds(a, p) /\ Holds(b, p)
    BY <1>2, <1>3 DEF Holds
  <2> QED
    BY <1>0, <2>1 DEF SoloInv, Solo, OneHolder, ExcusesGrow
<1>5. ASSUME ~Disturbed(p)' PROVE StageFits(p)' /\ LeadFits(p)' /\ EventFits(p)'
  <2>1. StageFits(p) /\ LeadFits(p) /\ EventFits(p) /\ p \notin raced
    BY <1>0, <1>5 DEF SoloInv, Solo, Disturbed, Dual, ExcusesGrow
  <2>2. row[p] \in Verdicts /\ leads[p] = 0
    BY <1>1, <2>1 DEF StageFits
  <2>3. \A v \in Workers : v # w => ~Holds(v, p)
    BY <1>3, <2>1 DEF SoloInv, Solo, OneHolder
  <2>4. \A v \in Workers : job'[v].step[p] \notin Waiting \cup Verdicts
    BY <1>2, <1>3, <2>3 DEF Holds, Waiting, Verdicts
  <2>5. StageFits(p)'
    BY <1>1, <2>2, <2>4 DEF StageFits
  <2>6. LeadFits(p)'
    BY <1>1, <2>2 DEF LeadFits, Verdicts
  <2>7. EventFits(p)'
    <3>1. TurnKept(p)
      BY <1>1, TurnMoved
    <3>2. p \notin redelivered'
      BY <1>5 DEF Disturbed
    <3> QED
      BY <1>0, <1>1, <2>1, <2>2, <3>1, <3>2 DEF EventFits, TurnKept, ExcusesGrow, Inline, Consumers
  <2> QED
    BY <2>5, <2>6, <2>7
<1>6. Pass(p)'
  <2>1. Solo(p) /\ \A v \in Workers : /\ job'[v].step[p] \in Waiting => job[v].step[p] \in Waiting
                                      /\ job'[v].step[p] \in Verdicts => job[v].step[p] \in Verdicts
    BY <1>1, <1>2, <1>3 DEF SoloInv, Waiting, Verdicts
  <2>2. ASSUME ~Inline PROVE w = "scorer" /\ Handled("scorer", "score", p)'
    <3>1. w \in Consumers /\ WorkerOK(w) /\ StepsOK(w)
      BY <1>1, <2>2 DEF Shape, ModeOK, Verdicts, Crawling
    <3>2. job[w].kind = "score" /\ job[w].event = p /\ w = "scorer"
      BY <1>1, <3>1 DEF WorkerOK, StepsOK, KindsOf, Consumers, Verdicts, Empty
    <3>3. InHand("scorer", "score", p)'
      BY <1>1, <3>2 DEF InHand, Moved
    <3> QED BY <3>2, <3>3 DEF Handled
  <2>3. ASSUME ~Inline PROVE job'["scorer"].step[p] \notin Waiting \cup Verdicts
    BY <1>3, <2>2, <2>3 DEF Waiting, Verdicts
  <2> QED
    BY <1>0, <1>1, <2>1, <2>2, <2>3 DEF Solo, Pass, ExcusesGrow, Inline
<1>7. OneFollowUp(p)'
  <2>1. TurnKept(p) /\ OneFollowUp(p)
    BY <1>1, TurnMoved DEF SoloInv, Solo
  <2>2. \A v \in Workers :
           job'[v].step[p] \in Unfollowed => job[v].step[p] \in Unfollowed
    BY <1>1, <1>2 DEF Unfollowed
  <2> QED
    BY <1>0, <1>1, <2>1, <2>2, FollowUpKept
<1> QED
  BY <1>4, <1>5, <1>6, <1>7 DEF Solo


LEMMA SoloQualify ==
    ASSUME TypeOK, Shape, SoloInv, NEW w \in Workers, NEW p \in Posts, QualifyAsLead(w, p)
    PROVE  Solo(p)'
<1>0. TypeRest /\ JobsOK /\ ExcusesGrow
  BY TypeParts DEF QualifyAsLead, ExcusesGrow
<1>1. /\ job[w].step[p] = "qualify" /\ Moved(w, p, IF mode.streams THEN "none" ELSE "flow")
      /\ UNCHANGED <<row, announced, done>> /\ leads'[p] \in {leads[p], leads[p] + 1}
  BY <1>0, QualifyAsLeadFoot DEF QualifyAsLead, streamState, TypeRest
<1>2. \A v \in Workers : v # w => job'[v] = job[v]
  BY <1>1 DEF Moved, OthersKept
<1>3. Holds(w, p) /\ job'[w].step[p] \in {"none", "flow"}
  BY <1>1 DEF Holds, Moved
<1>4. OneHolder(p)'
  <2> SUFFICES ASSUME NEW a \in Workers, NEW b \in Workers, Holds(a, p)', Holds(b, p)', a # b
               PROVE  p \in raced'
    BY DEF OneHolder
  <2>1. Holds(a, p) /\ Holds(b, p)
    BY <1>2, <1>3 DEF Holds
  <2> QED
    BY <1>0, <2>1 DEF SoloInv, Solo, OneHolder, ExcusesGrow
<1>5. ASSUME ~Disturbed(p)' PROVE StageFits(p)' /\ LeadFits(p)' /\ EventFits(p)'
  <2>1. StageFits(p) /\ LeadFits(p) /\ EventFits(p) /\ p \notin raced
    BY <1>0, <1>5 DEF SoloInv, Solo, Disturbed, Dual, ExcusesGrow
  <2>2. row[p] \in Verdicts /\ leads[p] = 0
    BY <1>1, <2>1 DEF StageFits
  <2>3. \A v \in Workers : v # w => ~Holds(v, p)
    BY <1>3, <2>1 DEF SoloInv, Solo, OneHolder
  <2>4. \A v \in Workers : job'[v].step[p] \notin Waiting \cup Verdicts \cup {"qualify"}
    BY <1>2, <1>3, <2>3 DEF Holds, Waiting, Verdicts
  <2>5. StageFits(p)'
    BY <2>4 DEF StageFits
  <2>6. LeadFits(p)'
    BY <1>1, <2>2 DEF LeadFits, Verdicts
  <2>7. EventFits(p)'
    <3>1. TurnKept(p)
      BY <1>1, TurnMoved
    <3>2. p \notin redelivered'
      BY <1>5 DEF Disturbed
    <3>3. mode.async => Handled("qualifier", "qualify", p)'
      <4> SUFFICES ASSUME mode.async PROVE InHand("qualifier", "qualify", p)'
        BY DEF Handled
      <4>1. w = "qualifier" /\ WorkerOK(w)
        BY <1>1 DEF Shape, ModeOK
      <4>2. job[w].kind = "qualify" /\ job[w].event = p
        BY <1>1, <4>1 DEF WorkerOK, KindsOf, Empty
      <4> QED
        BY <1>1, <4>1, <4>2 DEF InHand, Moved
    <3> QED
      BY <1>0, <1>1, <2>1, <3>1, <3>2, <3>3
         DEF EventFits, TurnKept, ExcusesGrow, Inline, Consumers
  <2> QED
    BY <2>5, <2>6, <2>7
<1>6. Pass(p)'
  <2>1. \A v \in Workers : /\ job'[v].step[p] \in Waiting => job[v].step[p] \in Waiting
                           /\ job'[v].step[p] \in Verdicts => job[v].step[p] \in Verdicts
    BY <1>2, <1>3 DEF Waiting, Verdicts
  <2>2. TurnKept(p) /\ Pass(p)
    BY <1>1, TurnMoved DEF SoloInv, Solo
  <2> QED
    BY <1>0, <1>1, <2>1, <2>2, PassKept
<1>7. OneFollowUp(p)'
  <2>1. /\ OneFollowUp(p) /\ leads[p] \in Nat /\ Follower' = Follower
        /\ FollowKind' = FollowKind /\ Inline' = Inline
    BY <1>0 DEF SoloInv, Solo, TypeRest, ExcusesGrow, Follower, FollowKind, Inline
  <2>2. ASSUME ~Inline PROVE w = Follower /\ InHand(w, FollowKind, p)
    <3>1. w \in Consumers /\ WorkerOK(w) /\ ModeOK(w) /\ job[w].kind # "idle"
      BY <1>1, <2>2 DEF Shape, ModeOK, WorkerOK, Crawling, Empty
    <3>2. w = Follower /\ job[w].kind = FollowKind
      BY <1>1, <3>1 DEF ModeOK, WorkerOK, KindsOf, Consumers, Follower, FollowKind
    <3>3. job[w].event = p
      BY <1>1, <3>1, <3>2 DEF WorkerOK, FollowKind
    <3> QED BY <3>2, <3>3 DEF InHand
  <2>3. ASSUME ~Inline, p \notin redelivered'
        PROVE  /\ leads'[p] <= 1 /\ Handled(Follower, FollowKind, p)'
               /\ job'[Follower].step[p] \notin Unfollowed
    <3>1. leads[p] = 0
      BY <1>0, <1>1, <2>1, <2>2, <2>3 DEF OneFollowUp, Unfollowed, ExcusesGrow
    <3>2. InHand(w, FollowKind, p)'
      BY <1>1, <2>1, <2>2, <2>3 DEF InHand, Moved
    <3>3. job'[w].step[p] \notin Unfollowed
      BY <1>3 DEF Unfollowed, Waiting, Verdicts
    <3> QED
      BY <1>1, <2>1, <2>2, <2>3, <3>1, <3>2, <3>3 DEF Handled
  <2> QED
    BY <2>1, <2>3 DEF OneFollowUp
<1> QED
  BY <1>4, <1>5, <1>6, <1>7 DEF Solo


\* A worker with empty hands takes up posts, or puts its event down.
LEMMA SoloPick ==
    ASSUME NEW p \in Posts, NEW w \in Workers, Solo(p), ExcusesGrow, TurnKept(p),
           OthersKept(w), ~Holds(w, p), UNCHANGED <<row, leads, announced>>,
           Holds(w, p)' => \A v \in Workers \ {w} : Holds(v, p) => p \in raced',
           job'[w].step[p] \notin Verdicts,
           job'[w].step[p] \in Waiting => MayTake(w, p),
           job'[w].step[p] \in Waiting \cup {"qualify"} => MayFollow(w, p),
           ~Disturbed(p)' =>
              /\ job'[w].step[p] \in Waiting => row[p] \in {"new", "error"}
              /\ job'[w].step[p] = "qualify" => row[p] \in Verdicts /\ leads[p] = 0
    PROVE  Solo(p)'
<1>1. \A v \in Workers \ {w} : job'[v] = job[v]
  BY DEF OthersKept
<1>2. OneHolder(p)'
  <2> SUFFICES ASSUME NEW a \in Workers, NEW b \in Workers, Holds(a, p)', Holds(b, p)', a # b
               PROVE  p \in raced'
    BY DEF OneHolder
  <2>1. CASE a # w /\ b # w
    BY <1>1, <2>1 DEF Solo, OneHolder, ExcusesGrow, Holds
  <2>2. CASE a = w \/ b = w
    BY <1>1, <2>2 DEF Holds
  <2> QED BY <2>1, <2>2
<1>3. ASSUME ~Disturbed(p)' PROVE StageFits(p)' /\ LeadFits(p)' /\ EventFits(p)'
  <2>1. StageFits(p) /\ LeadFits(p) /\ EventFits(p) /\ p \notin redelivered'
    BY <1>3 DEF Solo, Disturbed, Dual, ExcusesGrow
  <2>2. StageFits(p)'
    <3> SUFFICES ASSUME NEW v \in Workers
                 PROVE  /\ job'[v].step[p] \in Waiting => row'[p] \in {"new", "error"}
                        /\ job'[v].step[p] \in Verdicts =>
                              row'[p] \in Verdicts /\ leads'[p] = 0 /\ announced'[p] = "none"
                        /\ job'[v].step[p] = "qualify" => row'[p] \in Verdicts /\ leads'[p] = 0
      BY DEF StageFits
    <3>1. CASE v = w
      BY <1>3, <3>1
    <3>2. CASE v # w
      BY <1>1, <2>1, <3>2 DEF StageFits
    <3> QED BY <3>1, <3>2
  <2>3. LeadFits(p)'
    BY <2>1 DEF LeadFits
  <2>4. EventFits(p)'
    BY <2>1 DEF EventFits, TurnKept, Consumers, ExcusesGrow, Inline
  <2> QED
    BY <2>2, <2>3, <2>4
<1>4. Pass(p)'
  <2>1. \A v \in Workers :
           /\ job'[v].step[p] \in Waiting => job[v].step[p] \in Waiting \/ MayTake(v, p)
           /\ job'[v].step[p] \in Verdicts => job[v].step[p] \in Verdicts
    BY <1>1
  <2> QED
    BY <2>1, PassKept DEF Solo
<1>5. OneFollowUp(p)'
  <2>1. \A v \in Workers : job'[v].step[p] \in Unfollowed =>
                              job[v].step[p] \in Unfollowed \/ MayFollow(v, p)
    BY <1>1 DEF Unfollowed
  <2> QED
    BY <2>1, FollowUpKept DEF Solo
<1> QED
  BY <1>2, <1>3, <1>4, <1>5 DEF Solo


LEMMA NextSolo ==
    ASSUME TypeOK, Shape, RowsOK, SoloInv, [Next]_vars, PipelineAssumption
    PROVE  \A p \in Posts : Solo(p)'
<1>0. TypeRest /\ JobsOK /\ \A p \in Posts : Solo(p)
  BY TypeParts DEF SoloInv
<1> USE <1>0 DEF tables, streamState, history
<1>1. ASSUME NEW w \in Workers, NEW p \in Posts, NEW s, Moved(w, p, s), ExcusesGrow,
             UNCHANGED done, \A q \in Posts : q # p => /\ row'[q] = row[q] /\ leads'[q] = leads[q]
                                                       /\ announced'[q] = announced[q],
             Solo(p)'
      PROVE  \A q \in Posts : Solo(q)'
  <2> SUFFICES ASSUME NEW q \in Posts, q # p PROVE Solo(q)'
    BY <1>1
  <2>1. TurnKept(q)
    BY <1>1, TurnMoved
  <2>2. Quiet(w, q)
    BY <1>1 DEF Quiet, Moved, Holds
  <2> QED
    BY <1>1, <2>1, <2>2, SoloQuiet
<1>2. ASSUME NEW w \in Workers, NEW p \in Posts, NEW s, Moved(w, p, s), ExcusesGrow,
             UNCHANGED <<row, leads, announced, done>>,
             \/ s \in {"none", "fetched", "insert", "flow"}
             \/ {job[w].step[p], s} \subseteq Waiting,
             Holds(w, p) \/ s \in {"none", "fetched", "insert"}
      PROVE  \A q \in Posts : Solo(q)'
  <2>1. TurnKept(p)
    BY <1>2, TurnMoved
  <2>2. Quiet(w, p)
    BY <1>2 DEF Quiet, Moved, Holds
  <2>3. Solo(p)'
    BY <1>2, <2>1, <2>2, SoloQuiet
  <2> QED
    BY <1>1, <1>2, <2>3
<1>3. ASSUME NEW w \in Workers, NEW p \in Posts, LookUp(w, p) PROVE \A q \in Posts : Solo(q)'
  <2>1. ExcusesGrow /\ UNCHANGED <<row, leads, announced, done>>
    BY <1>3 DEF LookUp, ExcusesGrow
  <2> QED
    BY <1>2, <1>3, <2>1, LookUpFoot
<1>4. ASSUME NEW w \in Workers, NEW p \in Posts, Insert(w, p) PROVE \A q \in Posts : Solo(q)'
  <2>1. ExcusesGrow /\ UNCHANGED <<leads, announced, done>>
    BY <1>4 DEF Insert, ExcusesGrow
  <2>2. CASE Moved(w, p, "none") /\ UNCHANGED row
    BY <1>2, <2>1, <2>2
  <2>3. ASSUME NEW s, row[p] = "absent", row' = [row EXCEPT ![p] = "new"], Moved(w, p, s)
        PROVE  \A q \in Posts : Solo(q)'
    <3>1. row'[p] # row[p] /\ \A q \in Posts : q # p => row'[q] = row[q]
      BY <2>3 DEF TypeRest
    <3>2. Solo(p)'
      BY <1>4, <3>1, SoloInsert
    <3> QED
      BY <1>1, <2>1, <2>3, <3>1, <3>2
  <2> QED
    BY <1>4, <2>2, <2>3, InsertFoot
<1>5. ASSUME NEW w \in Workers, NEW p \in Posts, RecordDedupeKeys(w, p)
      PROVE  \A q \in Posts : Solo(q)'
  <2>1. ExcusesGrow /\ UNCHANGED <<row, leads, announced, done>>
    BY <1>5 DEF RecordDedupeKeys, ExcusesGrow
  <2> QED
    BY <1>2, <1>5, <2>1, RecordDedupeKeysFoot DEF Waiting, Holds
<1>6. ASSUME NEW w \in Workers, NEW p \in Posts, PublishIngested(w, p)
      PROVE  \A q \in Posts : Solo(q)'
  <2>1. ExcusesGrow /\ UNCHANGED <<row, leads, announced, done>>
    BY <1>6 DEF PublishIngested, ExcusesGrow
  <2> QED
    BY <1>2, <1>6, <2>1, PublishIngestedFoot DEF Waiting, Holds
<1>7. ASSUME NEW w \in Workers, NEW p \in Posts, NEW s, NEW value, ExcusesGrow,
             Stages(w, p, s, value)
      PROVE  \A q \in Posts : Solo(q)'
  <2>1. Solo(p)'
    BY <1>7, SoloStaged
  <2> QED
    BY <1>1, <1>7, <2>1 DEF Stages
<1>8. ASSUME NEW p \in Posts, NEW value, Record(p, value), UNCHANGED <<mode, raced, redelivered>>
      PROVE  /\ ExcusesGrow /\ (row'[p] = value \/ p \in unstored')
             /\ \A q \in Posts : q # p => row'[q] = row[q]
  BY <1>8 DEF Record, TypeRest, ExcusesGrow
<1>9. ASSUME NEW w \in Workers, NEW p \in Posts,
             RejectByRules(w, p) \/ (FilterMention(w, p) /\ ~UNCHANGED <<row, unstored>>)
      PROVE  \A q \in Posts : Solo(q)'
  <2>1. job[w].step[p] \in {"ready", "paid"} \/ (job[w].step[p] = "held" /\ Inline)
    <3>1. mode.streams \in BOOLEAN
      BY PipelineAssumption DEF PipelineAssumption, TypeRest
    <3> QED
      BY <1>9, <3>1, RejectByRulesFoot, FilterMentionFoot DEF Inline
  <2>2. /\ UNCHANGED <<mode, leads, announced, done, raced, redelivered>>
        /\ Record(p, "filtered") /\ Moved(w, p, "none")
    BY <1>9, RejectByRulesFoot, FilterMentionFoot DEF RejectByRules, FilterMention
  <2>3. /\ ExcusesGrow /\ (row'[p] = "filtered" \/ p \in unstored')
        /\ \A q \in Posts : q # p => row'[q] = row[q]
    <3>1. UNCHANGED <<mode, raced, redelivered>>
      BY <2>2
    <3> QED
      BY <1>8, <2>2, <3>1
  <2>4. Stages(w, p, "none", "filtered")
    BY <2>1, <2>2, <2>3 DEF Stages
  <2> QED
    BY <1>7, <2>3, <2>4
<1>10. ASSUME NEW w \in Workers, NEW p \in Posts, FilterMention(w, p), UNCHANGED <<row, unstored>>
       PROVE  \A q \in Posts : Solo(q)'
  <2>1. ExcusesGrow /\ UNCHANGED <<row, leads, announced, done>>
    BY <1>10 DEF FilterMention, ExcusesGrow
  <2>2. Holds(w, p) /\ {job[w].step[p], "passed"} \subseteq Waiting
    BY <1>10, FilterMentionFoot DEF Waiting, Holds
  <2>3. \E s \in {"none", "passed"} : Moved(w, p, s)
    BY <1>10, FilterMentionFoot
  <2> QED
    BY <1>2, <2>1, <2>2, <2>3
<1>28. ASSUME NEW w \in Workers, NEW p \in Posts, Classify(w, p)
       PROVE  \A q \in Posts : Solo(q)'
  <2>1. /\ UNCHANGED <<mode, leads, announced, done, raced, redelivered>>
        /\ job[w].step[p] = "passed"
    BY <1>28, ClassifyFoot DEF Classify
  <2>2. CASE /\ Moved(w, p, "none")
             /\ \/ row' = [row EXCEPT ![p] = "error"] /\ UNCHANGED unstored
                \/ unstored' = unstored \cup {p} /\ UNCHANGED row
    <3>1. ExcusesGrow /\ Stages(w, p, "none", "error")
      BY <2>1, <2>2 DEF Stages, ExcusesGrow, TypeRest
    <3> QED
      BY <1>7, <3>1
  <2>3. ASSUME NEW v \in Verdicts, Record(p, v),
               Moved(w, p, IF mode.streams THEN v ELSE AfterVerdict(v))
        PROVE  \A q \in Posts : Solo(q)'
    <3>1. /\ (IF mode.streams THEN v ELSE AfterVerdict(v)) \in
                 {"none"} \cup Verdicts \cup {"qualify", "flow"}
          /\ v \notin {"absent", "new"}
      BY DEF AfterVerdict, Verdicts
    <3>2. /\ ExcusesGrow /\ (row'[p] = v \/ p \in unstored')
          /\ \A q \in Posts : q # p => row'[q] = row[q]
      <4>1. UNCHANGED <<mode, raced, redelivered>>
        BY <2>1
      <4> QED
        BY <1>8, <2>3, <4>1
    <3>3. Stages(w, p, IF mode.streams THEN v ELSE AfterVerdict(v), v)
      BY <2>1, <2>3, <3>1, <3>2 DEF Stages
    <3> QED
      BY <1>7, <3>2, <3>3
  <2> QED
    BY <1>28, <2>2, <2>3, ClassifyFoot
<1>11. ASSUME NEW w \in Workers, NEW p \in Posts, PublishScored(w, p)
       PROVE  \A q \in Posts : Solo(q)'
  <2>1. /\ ExcusesGrow /\ UNCHANGED <<row, leads, done>>
        /\ \A q \in Posts : q # p => announced'[q] = announced[q]
    BY <1>11 DEF PublishScored, ExcusesGrow, TypeRest
  <2>2. Solo(p)'
    BY <1>11, SoloPublish
  <2> QED
    BY <1>1, <1>11, <2>1, <2>2, PublishScoredFoot
<1>12. ASSUME NEW w \in Workers, NEW p \in Posts, QualifyAsLead(w, p)
       PROVE  \A q \in Posts : Solo(q)'
  <2>1. /\ ExcusesGrow /\ UNCHANGED <<row, announced, done>>
        /\ \A q \in Posts : q # p => leads'[q] = leads[q]
    BY <1>12 DEF QualifyAsLead, ExcusesGrow, TypeRest
  <2>2. Solo(p)'
    BY <1>12, SoloQualify
  <2> QED
    BY <1>1, <1>12, <2>1, <2>2, QualifyAsLeadFoot
<1>13. ASSUME NEW w \in Workers, NEW p \in Posts, RunWorkflows(w, p)
       PROVE  \A q \in Posts : Solo(q)'
  <2>1. ExcusesGrow /\ UNCHANGED <<row, leads, announced, done>>
    BY <1>13 DEF RunWorkflows, ExcusesGrow
  <2> QED
    BY <1>2, <1>13, <2>1, RunWorkflowsFoot
<1>29. ASSUME NEW w \in Workers, NEW p \in Posts, Panic(w, p) PROVE \A q \in Posts : Solo(q)'
  <2>1. ExcusesGrow /\ UNCHANGED <<row, leads, announced, done>>
    BY <1>29 DEF Panic, ExcusesGrow
  <2> QED
    BY <1>2, <1>29, <2>1, PanicFoot
<1>14. ASSUME NEW w \in Workers, TakeCredits(w) PROVE \A q \in Posts : Solo(q)'
  <2>1. PICK kept \in SUBSET Batch(w) : Loaded(w, kept, "paid", job[w].kind, job[w].event)
    BY <1>14, TakeCreditsFoot
  <2>2. ExcusesGrow /\ UNCHANGED <<row, leads, announced, done>>
    BY <1>14 DEF TakeCredits, ExcusesGrow
  <2>3. \A v \in Workers : job'[v].kind = job[v].kind /\ job'[v].event = job[v].event
    BY <2>1 DEF Loaded, OthersKept
  <2>4. ASSUME NEW q \in Posts PROVE TurnKept(q) /\ Quiet(w, q)
    <3>1. TurnKept(q)
      BY <2>2, <2>3 DEF TurnKept, Handled, InHand, Consumers, Workers
    <3>2. q \in Batch(w) => job[w].step[q] \in {"held", "ready"}
      BY DEF Batch, At
    <3>3. q \in kept => job[w].step[q] \in Waiting
      BY <3>2 DEF Waiting
    <3>4. Quiet(w, q)
      BY <2>1, <2>2, <3>3 DEF Quiet, Loaded, Holds, Waiting
    <3> QED BY <3>1, <3>4
  <2> QED
    BY <2>2, <2>4, SoloQuiet
<1>15. ASSUME NEW w \in Workers, NEW k, NEW S, NEW s \in {"none", "fetched"}, NEW e,
              Loaded(w, S, s, k, e), ExcusesGrow, UNCHANGED <<row, leads, announced>>,
              \A q \in Posts : TurnKept(q)
       PROVE  \A q \in Posts : Solo(q)'
  BY <1>15, SoloQuiet DEF Quiet, Loaded, Holds
<1>16. ASSUME NEW w \in Workers, OthersKept(w), done \subseteq done',
              w \in Consumers => job[w].kind \notin {"score", "qualify"}
       PROVE  \A q \in Posts : TurnKept(q)
  BY <1>16 DEF TurnKept, Handled, InHand, OthersKept, Consumers, Workers
<1>17. ASSUME NEW w \in Workers, BackfillUnclassified(w) PROVE \A q \in Posts : Solo(q)'
  <2>1. /\ ExcusesGrow /\ UNCHANGED <<row, leads, announced, done>> /\ Empty(w)
        /\ OthersKept(w) /\ w \notin Consumers
    BY <1>17, BackfillFoot DEF BackfillUnclassified, ExcusesGrow, Loaded, Shape, ModeOK, Pick
  <2>2. \A q \in Posts : TurnKept(q)
    BY <1>16, <2>1
  <2>3. ASSUME NEW q \in Posts PROVE Solo(q)'
    <3>1. ~Holds(w, q)
      BY <2>1 DEF Empty, Holds
    <3>2. /\ job'[w].step[q] \in {"none", "ready"}
          /\ job'[w].step[q] = "ready" => q \in Unclassified
          /\ job'[w].step[q] = "ready" =>
                raced' = raced \cup {p \in Unclassified : \E v \in Workers \ {w} : Holds(v, p)}
      BY <1>17, BackfillFoot DEF Loaded
    <3>3. job'[w].step[q] # "none" => job'[w].step[q] = "ready" /\ row[q] \in {"new", "error"}
      BY <3>2 DEF Unclassified, Undecided
    <3>4. Holds(w, q)' => \A v \in Workers \ {w} : Holds(v, q) => q \in raced'
      BY <3>2 DEF Holds
    <3>5. job'[w].step[q] \notin Verdicts /\ job'[w].step[q] # "qualify"
      BY <3>2 DEF Verdicts
    <3>6. job'[w].step[q] \in Waiting => MayTake(w, q)
      BY <2>1, <3>3 DEF MayTake, Waiting, Consumers
    <3>7. MayFollow(w, q)
      BY <2>1 DEF MayFollow, Follower, Consumers
    <3> QED
      BY <2>1, <2>2, <3>1, <3>3, <3>4, <3>5, <3>6, <3>7, SoloPick DEF Waiting
  <2> QED BY <2>3
<1>18. ASSUME NEW w \in Workers, Finish(w) PROVE \A q \in Posts : Solo(q)'
  <2>1. ExcusesGrow /\ UNCHANGED <<row, leads, announced, done>>
    BY <1>18 DEF Finish, ExcusesGrow
  <2>2. \A q \in Posts : TurnKept(q)
    BY <1>16, <1>18, <2>1, FinishFoot DEF Loaded
  <2> QED
    BY <1>15, <1>18, <2>1, <2>2, FinishFoot
<1>19. ASSUME NEW w \in Workers, MarkProcessed(w) \/ Crash(w) PROVE \A q \in Posts : Solo(q)'
  <2>1. ExcusesGrow /\ UNCHANGED <<row, leads, announced>> /\ done \subseteq done'
    BY <1>19 DEF MarkProcessed, Crash, ExcusesGrow
  <2>2. Loaded(w, {}, "none", "idle", NoPost)
    BY <1>19, MarkProcessedFoot, CrashFoot
  <2>3. ASSUME NEW q \in Posts PROVE TurnKept(q)
    <3>1. job[w].event = q => <<w, q>> \in done' \/ q \in redelivered'
      BY <1>19, PipelineAssumption DEF MarkProcessed, Crash, PipelineAssumption
    <3> QED
      BY <2>1, <2>2, <3>1 DEF TurnKept, Handled, InHand, Loaded, OthersKept, Consumers, Workers
  <2> QED
    BY <1>15, <2>1, <2>2, <2>3
<1>20. ASSUME NEW w \in Workers \ Consumers, NEW kind \in {"poll", "scan", "ingest"}, NEW found,
              Begin(w, kind, found), UNCHANGED <<mode, row, leads, announced, done>>,
              UNCHANGED <<raced, unstored, redelivered>>
       PROVE  \A q \in Posts : Solo(q)'
  <2>1. ExcusesGrow /\ Loaded(w, found, "fetched", kind, NoPost)
    BY <1>20, BeginFoot DEF ExcusesGrow, Kinds
  <2>2. \A q \in Posts : TurnKept(q)
    BY <1>16, <1>20, <2>1 DEF Loaded
  <2> QED
    BY <1>15, <1>20, <2>1, <2>2
<1>21. ASSUME NEW found, PollProfiles(found) \/ PostSignals(found) PROVE \A q \in Posts : Solo(q)'
  BY <1>20, <1>21 DEF PollProfiles, PostSignals, Workers, Consumers
<1>22. ASSUME NEW w \in {"tick", "now"}, NEW found, ScanWorkspace(w, found)
       PROVE  \A q \in Posts : Solo(q)'
  BY <1>20, <1>22 DEF ScanWorkspace, Workers, Consumers
<1>23. ASSUME SkipScan PROVE \A q \in Posts : Solo(q)'
  <2>1. ExcusesGrow /\ UNCHANGED <<row, leads, announced, done>> /\ "tick" \in Workers \ Consumers
    BY <1>23 DEF SkipScan, ExcusesGrow, Workers, Consumers
  <2>2. \A q \in Posts : TurnKept(q)
    BY <1>16, <1>23, <2>1, SkipScanFoot DEF Loaded
  <2> QED
    BY <1>15, <1>23, <2>1, <2>2, SkipScanFoot
<1>24. ASSUME NEW p \in Posts, HandleIngested(p) PROVE \A q \in Posts : Solo(q)'
  <2>0. /\ UNCHANGED <<mode, unstored, redelivered, row, leads, announced, done>>
        /\ "scorer" \in Workers /\ job["scorer"].kind = "idle"
        /\ p \in ingested /\ <<"scorer", p>> \notin done
        /\ raced \subseteq raced'
    BY <1>24, HandleIngestedFoot DEF HandleIngested, Workers
  <2>1. /\ ExcusesGrow /\ UNCHANGED <<row, leads, announced, done>> /\ Empty("scorer")
        /\ "scorer" \in Workers /\ job["scorer"].kind = "idle"
        /\ p \in ingested /\ <<"scorer", p>> \notin done
    BY <2>0 DEF ExcusesGrow, Shape, WorkerOK
  <2>2. /\ OthersKept("scorer")
        /\ \A q \in Posts : job'["scorer"].step[q] = IF q = p THEN "ready" ELSE "none"
        /\ raced' = raced \cup {q \in {p} : \E v \in Workers \ {"scorer"} : Holds(v, q)}
    BY <1>24, HandleIngestedFoot DEF Loaded
  <2>3. \A q \in Posts : TurnKept(q)
    BY <1>16, <2>1, <2>2
  <2>4. ~Disturbed(p) => row[p] \in {"new", "error"}
    <3>1. row[p] # "absent" /\ mode.streams
      BY <2>1 DEF RowsOK, SoloInv
    <3>2. ~Handled("scorer", "score", p)
      BY <2>1 DEF Handled, InHand
    <3> QED
      BY <3>1, <3>2 DEF Solo, EventFits, Disturbed, Dual, Inline
  <2>5. MayTake("scorer", p) /\ MayFollow("scorer", p)
    <3>1. row[p] # "absent" /\ mode.streams /\ ~Handled("scorer", "score", p)
      BY <2>1 DEF RowsOK, SoloInv, Handled, InHand
    <3>2. MayTake("scorer", p)
      BY <3>1 DEF MayTake, Solo, Pass
    <3>3. leads[p] \in Nat /\ OneFollowUp(p)
      BY DEF TypeRest, Solo
    <3>4. MayFollow("scorer", p)
      BY <3>1, <3>3 DEF MayFollow, OneFollowUp, Follower, FollowKind
    <3> QED
      BY <3>2, <3>4
  <2>6. ASSUME NEW q \in Posts PROVE Solo(q)'
    <3>1. ~Holds("scorer", q)
      BY <2>1 DEF Empty, Holds
    <3>2. Holds("scorer", q)' => \A v \in Workers \ {"scorer"} : Holds(v, q) => q \in raced'
      BY <2>2 DEF Holds
    <3>3. ~Disturbed(q)' => ~Disturbed(q)
      BY <2>1 DEF Disturbed, Dual, ExcusesGrow
    <3>4. job'["scorer"].step[q] \notin Verdicts /\ job'["scorer"].step[q] # "qualify"
      BY <2>2 DEF Verdicts
    <3>5. ~Disturbed(q)' => (job'["scorer"].step[q] \in Waiting => row[q] \in {"new", "error"})
      BY <2>2, <2>4, <3>3 DEF Waiting
    <3>6. job'["scorer"].step[q] \in Waiting => MayTake("scorer", q)
      BY <2>2, <2>5 DEF Waiting
    <3>7. job'["scorer"].step[q] \in Waiting \cup {"qualify"} => MayFollow("scorer", q)
      BY <2>2, <2>5 DEF Waiting
    <3> QED
      BY <2>1, <2>2, <2>3, <3>1, <3>2, <3>4, <3>5, <3>6, <3>7, SoloPick
  <2> QED BY <2>6
<1>25. ASSUME NEW p \in Posts, HandleScored(p) PROVE \A q \in Posts : Solo(q)'
  <2>0. /\ UNCHANGED <<mode, unstored, redelivered, row, leads, announced, done>>
        /\ "qualifier" \in Workers /\ job["qualifier"].kind = "idle"
        /\ announced[p] # "none" /\ <<"qualifier", p>> \notin done
        /\ raced \subseteq raced' /\ "qualifier" \in mode.workers
    BY <1>25, HandleScoredFoot DEF HandleScored, Workers
  <2>1. /\ ExcusesGrow /\ UNCHANGED <<row, leads, announced, done>> /\ Empty("qualifier")
        /\ "qualifier" \in Workers /\ job["qualifier"].kind = "idle"
        /\ announced[p] # "none" /\ <<"qualifier", p>> \notin done /\ mode.async
    BY <2>0, PipelineAssumption DEF ExcusesGrow, Shape, WorkerOK, PipelineAssumption, TypeRest
  <2>2. PICK ps : /\ ps = (IF announced[p] = "hot" THEN {p} ELSE {})
                  /\ Loaded("qualifier", ps, "qualify", "qualify", p)
                  /\ raced' = raced \cup
                        {q \in ps : \E v \in Workers \ {"qualifier"} : Holds(v, q)}
    BY <1>25, HandleScoredFoot
  <2>3. /\ OthersKept("qualifier")
        /\ \A q \in Posts : job'["qualifier"].step[q] = (IF q \in ps THEN "qualify" ELSE "none")
        /\ \A q \in ps : q = p
    BY <2>2 DEF Loaded
  <2>4. \A q \in Posts : TurnKept(q)
    BY <1>16, <2>1, <2>3
  <2>5. ~Disturbed(p) => row[p] \in Verdicts /\ leads[p] = 0
    <3>1. ~Handled("qualifier", "qualify", p)
      BY <2>1 DEF Handled, InHand
    <3>2. leads[p] \in Nat
      BY DEF TypeRest
    <3> QED
      BY <2>1, <3>1, <3>2 DEF Solo, EventFits, LeadFits
  <2>6. MayFollow("qualifier", p)
    <3>1. ~Handled("qualifier", "qualify", p)
      BY <2>1 DEF Handled, InHand
    <3>2. leads[p] \in Nat /\ OneFollowUp(p)
      BY DEF TypeRest, Solo
    <3> QED
      BY <2>1, <3>1, <3>2 DEF MayFollow, OneFollowUp, Follower, FollowKind
  <2>7. ASSUME NEW q \in Posts PROVE Solo(q)'
    <3>1. ~Holds("qualifier", q)
      BY <2>1 DEF Empty, Holds
    <3>2. Holds("qualifier", q)' => \A v \in Workers \ {"qualifier"} : Holds(v, q) => q \in raced'
      BY <2>2, <2>3 DEF Holds
    <3>3. ~Disturbed(q)' => ~Disturbed(q)
      BY <2>1 DEF Disturbed, Dual, ExcusesGrow
    <3>4. job'["qualifier"].step[q] \notin Verdicts \cup Waiting
      BY <2>3 DEF Verdicts, Waiting
    <3>5. ~Disturbed(q)' =>
             (job'["qualifier"].step[q] = "qualify" => row[q] \in Verdicts /\ leads[q] = 0)
      BY <2>3, <2>5, <3>3
    <3>6. job'["qualifier"].step[q] \in Waiting \cup {"qualify"} => MayFollow("qualifier", q)
      BY <2>3, <2>6 DEF Waiting
    <3> QED
      BY <2>1, <2>3, <2>4, <3>1, <3>2, <3>4, <3>5, <3>6, SoloPick
  <2> QED BY <2>7
<1>26. ASSUME RefreshFree \/ UNCHANGED vars PROVE \A q \in Posts : Solo(q)'
  <2>1. /\ ExcusesGrow /\ UNCHANGED <<row, leads, announced, done, job>> /\ "tick" \in Workers
    BY <1>26 DEF RefreshFree, vars, ExcusesGrow, Workers
  <2>2. \A q \in Posts : Quiet("tick", q) /\ TurnKept(q)
    BY <2>1 DEF Quiet, TurnKept, OthersKept, Holds, Handled, InHand
  <2> QED
    BY <2>1, <2>2, SoloQuiet
<1>27. ASSUME NEW w \in Workers, Step(w) PROVE \A q \in Posts : Solo(q)'
  BY <1>3, <1>4, <1>5, <1>6, <1>9, <1>10, <1>11, <1>12, <1>13, <1>14, <1>17, <1>18,
     <1>19, <1>27, <1>28 DEF Step
<1> QED
  BY <1>19, <1>21, <1>22, <1>23, <1>24, <1>25, <1>26, <1>27, <1>29 DEF Next, Poll, Scan

LEMMA NextStreams ==
    ASSUME TypeOK, SoloInv, [Next]_vars
    PROVE  ~mode'.streams => ingested' = {}
<1> USE DEF streamState
<1>1. ASSUME NEW w \in Workers, NEW p \in Posts, PublishIngested(w, p)
      PROVE  mode' = mode /\ mode.streams
  BY <1>1 DEF PublishIngested
<1>2. ASSUME NEW w \in Workers, NEW p \in Posts,
             \/ LookUp(w, p) \/ Insert(w, p) \/ RecordDedupeKeys(w, p) \/ RejectByRules(w, p)
             \/ FilterMention(w, p) \/ Classify(w, p)
      PROVE  UNCHANGED <<mode, ingested>>
  BY <1>2 DEF LookUp, Insert, RecordDedupeKeys, RejectByRules, FilterMention, Classify
<1>3. ASSUME NEW w \in Workers, NEW p \in Posts,
             PublishScored(w, p) \/ QualifyAsLead(w, p) \/ RunWorkflows(w, p) \/ Panic(w, p)
      PROVE  UNCHANGED <<mode, ingested>>
  BY <1>3 DEF PublishScored, QualifyAsLead, RunWorkflows, Panic
<1>4. ASSUME NEW w \in Workers, \/ TakeCredits(w) \/ BackfillUnclassified(w) \/ Finish(w)
                                \/ MarkProcessed(w) \/ Crash(w)
      PROVE  UNCHANGED <<mode, ingested>>
  BY <1>4 DEF TakeCredits, BackfillUnclassified, Finish, MarkProcessed, Crash
<1>5. ASSUME SkipScan \/ Poll \/ RefreshFree \/ UNCHANGED vars
             \/ \E found \in SUBSET mode.posts : PostSignals(found)
             \/ \E w \in {"tick", "now"} : Scan(w)
             \/ \E q \in Posts : HandleIngested(q) \/ HandleScored(q)
      PROVE  UNCHANGED <<mode, ingested>>
  BY <1>5 DEF SkipScan, Poll, RefreshFree, vars, PostSignals, Scan, ScanWorkspace, PollProfiles,
              HandleIngested, HandleScored
<1> QED
  BY <1>1, <1>2, <1>3, <1>4, <1>5 DEF Next, Step, SoloInv

SoloAll == TypeOK /\ Shape /\ RowsOK /\ SoloInv

LEMMA SoloAllInvariant ==
    /\ Init => SoloAll
    /\ SoloAll /\ [Next]_vars => SoloAll'
<1>1. ASSUME Init PROVE SoloInv
  <2>1. /\ ingested = {}
        /\ \A p \in Posts : row[p] = "absent" /\ announced[p] = "none" /\ leads[p] = 0
        /\ \A w \in Workers, p \in Posts : job[w].step[p] = "none"
    BY <1>1 DEF Init, Idle
  <2> QED
    BY <2>1
    DEF SoloInv, Solo, Pass, OneFollowUp, Follower, Unfollowed, OneHolder, StageFits, LeadFits,
        EventFits, Holds, Waiting, Verdicts, Workers
<1>2. Init => SoloAll
  BY <1>1, InitShape, InitKeys, PipelineAssumption DEF SoloAll
<1>3. ASSUME SoloAll, [Next]_vars PROVE SoloAll'
  <2>1. /\ JobsOK' /\ Shape' /\ TypeOK' /\ RowsOK'
    BY <1>3, NextShape, NextType, NextRows, PipelineAssumption DEF SoloAll
  <2>2. SoloInv'
    BY <1>3, NextSolo, NextStreams, PipelineAssumption DEF SoloAll, SoloInv
  <2> QED
    BY <2>1, <2>2 DEF SoloAll
<1> QED
  BY <1>2, <1>3

\* leads has no unique constraint on the mention: that qualifyAsLead makes one
\* lead only rests on every mention's being scored, and followed up, once.
THEOREM OneLeadAMention == Spec => []SecondLeadOnlyIfRescored
<1>1. ASSUME SoloAll PROVE SecondLeadOnlyIfRescored
  <2> SUFFICES ASSUME NEW p \in Posts, ~Rescored(p) PROVE ~(leads[p] > 1)
    BY DEF SecondLeadOnlyIfRescored
  <2>1. leads[p] \in Nat /\ Solo(p)
    BY <1>1 DEF SoloAll, TypeOK, SoloInv
  <2>2. CASE mode.streams
    <3>1. ~Inline /\ p \notin redelivered
      BY <2>2 DEF Rescored, ScoredAgain, Dual, Inline
    <3> QED
      BY <2>1, <3>1 DEF Solo, OneFollowUp
  <2>3. CASE ~mode.streams
    <3>1. ~Disturbed(p)
      BY <2>3 DEF Rescored, ScoredAgain, Disturbed, Dual
    <3> QED
      BY <2>1, <3>1 DEF Solo, LeadFits
  <2> QED
    BY <2>2, <2>3
<1> QED
  BY <1>1, SoloAllInvariant, PTL DEF Spec

\* Who may change the row of a post: an insert, or a worker that scores it.
LEMMA RowChange ==
    ASSUME TypeOK, Shape, RowsOK, [Next]_vars, NEW p \in Posts, row'[p] # row[p]
    PROVE  \/ row[p] = "absent"
           \/ \E w \in Workers : job[w].step[p] \in Waiting /\ (Inline \/ w = "scorer")
<1>0. TypeRest /\ JobsOK
  BY TypeParts
<1> USE <1>0 DEF tables
<1>1. CASE UNCHANGED row
  BY <1>1
<1>2. ASSUME NEW w \in Workers, NEW q \in Posts, Insert(w, q) PROVE row[p] = "absent"
  BY <1>2, InsertFoot DEF TypeRest
<1>3. ASSUME NEW w \in Workers, NEW q \in Posts,
             RejectByRules(w, q) \/ FilterMention(w, q) \/ Classify(w, q)
      PROVE  job[w].step[p] \in Waiting /\ (Inline \/ w = "scorer")
  <2>1. job[w].step[q] \in {"ready", "paid", "passed"} \/ (job[w].step[q] = "held" /\ Inline)
    <3>1. mode.streams \in BOOLEAN
      BY PipelineAssumption DEF PipelineAssumption, TypeRest
    <3> QED
      BY <1>3, <3>1, RejectByRulesFoot, FilterMentionFoot, ClassifyFoot DEF Inline
  <2>2. ASSUME ~Inline PROVE w = "scorer"
    <3>1. w \in Consumers /\ WorkerOK(w) /\ StepsOK(w)
      BY <2>1, <2>2 DEF Shape, ModeOK, Crawling
    <3> QED
      BY <2>1, <3>1 DEF WorkerOK, StepsOK, KindsOf, Consumers, Empty
  <2>3. \E value : row' = [row EXCEPT ![q] = value] \/ row' = row
    BY <1>3 DEF RejectByRules, FilterMention, Classify, Record
  <2> QED
    BY <2>1, <2>2, <2>3 DEF TypeRest, Waiting
<1>4. ASSUME NEW w \in Workers, NEW q \in Posts,
             \/ LookUp(w, q) \/ RecordDedupeKeys(w, q) \/ PublishIngested(w, q)
             \/ PublishScored(w, q) \/ QualifyAsLead(w, q) \/ RunWorkflows(w, q)
             \/ Panic(w, q)
      PROVE  UNCHANGED row
  BY <1>4 DEF LookUp, RecordDedupeKeys, PublishIngested, PublishScored, QualifyAsLead,
              RunWorkflows, Panic
<1>5. ASSUME NEW w \in Workers, \/ TakeCredits(w) \/ BackfillUnclassified(w) \/ Finish(w)
                                \/ MarkProcessed(w) \/ Crash(w)
      PROVE  UNCHANGED row
  BY <1>5 DEF TakeCredits, BackfillUnclassified, Finish, MarkProcessed, Crash
<1>6. ASSUME SkipScan \/ Poll \/ RefreshFree \/ UNCHANGED vars
             \/ \E found \in SUBSET mode.posts : PostSignals(found)
             \/ \E w \in {"tick", "now"} : Scan(w)
             \/ \E q \in Posts : HandleIngested(q) \/ HandleScored(q)
      PROVE  UNCHANGED row
  BY <1>6 DEF SkipScan, Poll, RefreshFree, vars, PostSignals, Scan, ScanWorkspace, PollProfiles,
              HandleIngested, HandleScored
<1> QED
  BY <1>1, <1>2, <1>3, <1>4, <1>5, <1>6 DEF Next, Step

\* A verdict, once stored, is not changed by a pass of another worker or a
\* later one, unless the mention was in two hands, or with streams when its
\* event came twice or every mention is scored twice anyway.
THEOREM VerdictsStand == Spec => VerdictStands
<1>1. ASSUME SoloAll, [Next]_vars
      PROVE  \A p \in Posts : row[p] \in Verdicts /\ row'[p] # row[p] => ScoredAgain(p)
  <2> SUFFICES ASSUME NEW p \in Posts, row[p] \in Verdicts, row'[p] # row[p], ~ScoredAgain(p)
               PROVE  FALSE
    OBVIOUS
  <2>1. PICK w \in Workers : job[w].step[p] \in Waiting /\ (Inline \/ w = "scorer")
    BY <1>1, RowChange DEF SoloAll, Verdicts
  <2>2. Pass(p)
    BY <1>1 DEF SoloAll, SoloInv, Solo
  <2>3. row[p] \in {"new", "error"}
    BY <2>1, <2>2 DEF Pass, ScoredAgain, Dual, Inline
  <2> QED
    BY <2>3 DEF Verdicts
<1> QED
  BY <1>1, SoloAllInvariant, PTL DEF Spec, VerdictStands

----------------------------------------------------------------------------
(* Follow-up: a hot mention has its lead or somebody will make it.         *)

OnItsWay(p) == \E w \in Workers : job[w].step[p] \in {"hot", "qualify"}

EventPromises(p) ==
    /\ mode.async
    /\ \/ announced[p] = "hot" /\ <<"qualifier", p>> \notin done
       \/ announced[p] = "cold" /\ ScoredAgain(p)

HotFits(p) ==
    row[p] = "hot" /\ p \notin interrupted => leads[p] > 0 \/ OnItsWay(p) \/ EventPromises(p)

\* The consumer's mark stands for a lead.
QualifierFits(p) ==
    /\ Handled("qualifier", "qualify", p) => announced[p] # "none"
    /\ announced[p] = "hot" /\ p \notin interrupted =>
          /\ <<"qualifier", p>> \in done => leads[p] > 0
          /\ InHand("qualifier", "qualify", p) =>
                leads[p] > 0 \/ job["qualifier"].step[p] = "qualify"

Followed(p) == HotFits(p) /\ QualifierFits(p)

HotInv == \A p \in Posts : Followed(p)

\* Nothing is lost of p: what is on its way goes on, ends in a lead or counts
\* as interrupted.
Carried(w, p) ==
    /\ OthersKept(w) /\ ExcusesGrow
    /\ row'[p] = row[p] \/ row'[p] # "hot"
    /\ announced'[p] = announced[p] /\ leads'[p] \in {leads[p], leads[p] + 1}
    /\ interrupted \subseteq interrupted'
    /\ <<"qualifier", p>> \in done' <=> <<"qualifier", p>> \in done
    /\ InHand(w, "qualify", p)' => InHand(w, "qualify", p)
    /\ job[w].step[p] \in {"hot", "qualify"} =>
          job'[w].step[p] = job[w].step[p] \/ leads'[p] > leads[p] \/ p \in interrupted'

LEMMA FollowedCarried ==
    ASSUME TypeRest, NEW w \in Workers, NEW p \in Posts, Followed(p), Carried(w, p)
    PROVE  Followed(p)'
<1>1. \A v \in Workers : v # w => job'[v] = job[v]
  BY DEF Carried, OthersKept
<1>2. ScoredAgain(p) => ScoredAgain(p)'
  BY DEF Carried, ExcusesGrow, ScoredAgain, Dual
<1>3. leads[p] \in Nat /\ leads'[p] \in Nat /\ leads'[p] >= leads[p]
  BY DEF TypeRest, Carried
<1>4. HotFits(p)'
  <2> SUFFICES ASSUME row'[p] = "hot", p \notin interrupted', ~(leads'[p] > 0)
               PROVE  OnItsWay(p)' \/ EventPromises(p)'
    BY DEF HotFits
  <2>1. row[p] = "hot" /\ p \notin interrupted /\ ~(leads[p] > 0) /\ ~(leads'[p] > leads[p])
    BY <1>3 DEF Carried
  <2>2. CASE OnItsWay(p)
    <3>1. PICK v \in Workers : job[v].step[p] \in {"hot", "qualify"}
      BY <2>2 DEF OnItsWay
    <3>2. job'[v].step[p] = job[v].step[p]
      BY <1>1, <2>1, <3>1 DEF Carried
    <3> QED
      BY <3>1, <3>2 DEF OnItsWay
  <2>3. CASE EventPromises(p)
    BY <1>2, <2>3 DEF EventPromises, Carried, ExcusesGrow
  <2> QED
    BY <2>1, <2>2, <2>3 DEF Followed, HotFits
<1>5. InHand("qualifier", "qualify", p)' => InHand("qualifier", "qualify", p)
  BY <1>1 DEF Carried, InHand, Workers
<1>6. QualifierFits(p)'
  <2>1. Handled("qualifier", "qualify", p)' => announced'[p] # "none"
    BY <1>5 DEF Followed, QualifierFits, Handled, Carried
  <2> SUFFICES ASSUME announced'[p] = "hot", p \notin interrupted'
               PROVE  /\ <<"qualifier", p>> \in done' => leads'[p] > 0
                      /\ InHand("qualifier", "qualify", p)' =>
                            leads'[p] > 0 \/ job'["qualifier"].step[p] = "qualify"
    BY <2>1 DEF QualifierFits
  <2>2. announced[p] = "hot" /\ p \notin interrupted
    BY DEF Carried
  <2>3. <<"qualifier", p>> \in done' => leads'[p] > 0
    BY <1>3, <2>2 DEF Followed, QualifierFits, Carried
  <2>4. ASSUME InHand("qualifier", "qualify", p)', ~(leads'[p] > 0)
        PROVE  job'["qualifier"].step[p] = "qualify"
    <3>1. ~(leads[p] > 0) /\ ~(leads'[p] > leads[p])
      BY <1>3, <2>4
    <3>2. job["qualifier"].step[p] = "qualify"
      BY <1>5, <2>2, <2>4, <3>1 DEF Followed, QualifierFits
    <3> QED
      BY <1>1, <3>1, <3>2 DEF Carried, Workers
  <2> QED
    BY <2>3, <2>4
<1> QED
  BY <1>4, <1>6 DEF Followed

LEMMA FollowedClassify ==
    ASSUME TypeOK, Shape, PipelineAssumption, HotInv, NEW w \in Workers, NEW p \in Posts,
           Classify(w, p), row'[p] = "hot", row[p] # "hot"
    PROVE  Followed(p)'
<1>0. TypeRest /\ JobsOK
  BY TypeParts
<1>1. Moved(w, p, IF mode.streams THEN "hot" ELSE AfterVerdict("hot"))
      /\ job[w].step[p] = "passed"
  BY <1>0, ClassifyFoot DEF Record, TypeRest
<1>2. mode.streams \/ ~mode.async
  BY <1>0, PipelineAssumption DEF PipelineAssumption, TypeRest
<1>3. job'[w].step[p] \in {"hot", "qualify"}
  BY <1>1, <1>2 DEF Moved, AfterVerdict
<1>4. HotFits(p)'
  BY <1>3 DEF HotFits, OnItsWay
<1>5. UNCHANGED <<announced, interrupted, done, leads>>
      /\ \A v \in Workers : job'[v].kind = job[v].kind /\ job'[v].event = job[v].event
  BY <1>1 DEF Classify, streamState, Moved, OthersKept
<1>6. job["qualifier"].step[p] = "qualify" => job'["qualifier"].step[p] = "qualify"
  BY <1>1 DEF Moved, OthersKept, Workers
<1>7. "qualifier" \in Workers
  BY DEF Workers
<1>8. QualifierFits(p)'
  BY <1>5, <1>6, <1>7 DEF HotInv, Followed, QualifierFits, Handled, InHand
<1> QED
  BY <1>4, <1>8 DEF Followed

LEMMA FollowedPublish ==
    ASSUME SoloAll, PipelineAssumption, HotInv, NEW w \in Workers, NEW p \in Posts,
           PublishScored(w, p)
    PROVE  Followed(p)'
<1>0. TypeRest /\ JobsOK
  BY TypeParts DEF SoloAll
<1>1. /\ job[w].step[p] \in Verdicts /\ Moved(w, p, AfterVerdict(job[w].step[p]))
      /\ UNCHANGED <<mode, row, leads, done, raced, unstored, redelivered>>
      /\ interrupted \subseteq interrupted'
  BY <1>0, PublishScoredFoot DEF PublishScored, tables
<1>2. \/ p \in interrupted'
      \/ /\ interrupted' = interrupted
         /\ announced'[p] = (IF announced[p] # "none" THEN announced[p] ELSE job[w].step[p])
  BY <1>0 DEF PublishScored, TypeRest
<1>3. announced'[p] \in {announced[p], job[w].step[p]} /\ (announced[p] # "none" => announced'[p] = announced[p])
  BY <1>0 DEF PublishScored, TypeRest
<1>4. \A v \in Workers : v # w => job'[v] = job[v]
  BY <1>1 DEF Moved, OthersKept
<1>5. ~Handled("qualifier", "qualify", p) \/ announced[p] # "none"
  BY DEF HotInv, Followed, QualifierFits
<1>6. \A v \in Workers : job'[v].kind = job[v].kind /\ job'[v].event = job[v].event
  BY <1>1 DEF Moved, OthersKept
<1>7. "qualifier" \in Workers
  BY DEF Workers
<1>8. Handled("qualifier", "qualify", p)' <=> Handled("qualifier", "qualify", p)
  BY <1>1, <1>6, <1>7 DEF Handled, InHand
<1>9. HotFits(p)'
  <2> SUFFICES ASSUME row[p] = "hot", p \notin interrupted', ~(leads[p] > 0)
               PROVE  OnItsWay(p)' \/ EventPromises(p)'
    BY <1>1 DEF HotFits
  <2>1. p \notin interrupted
        /\ announced'[p] = (IF announced[p] # "none" THEN announced[p] ELSE job[w].step[p])
    BY <1>1, <1>2
  <2>2. CASE job[w].step[p] = "hot" /\ ~mode.async
    <3>1. job'[w].step[p] = "qualify"
      BY <1>1, <2>2 DEF Moved, AfterVerdict
    <3> QED
      BY <3>1 DEF OnItsWay
  <2>3. CASE job[w].step[p] = "hot" /\ mode.async
    <3>1. CASE announced'[p] = "hot"
      <4>1. <<"qualifier", p>> \notin done
        <5>1. CASE announced[p] = "none"
          BY <1>5, <5>1 DEF Handled
        <5>2. CASE announced[p] # "none"
          BY <1>3, <2>1, <3>1, <5>2 DEF HotInv, Followed, QualifierFits
        <5> QED BY <5>1, <5>2
      <4> QED
        BY <1>1, <2>3, <3>1, <4>1 DEF EventPromises
    <3>2. CASE announced'[p] # "hot"
      <4>1. announced[p] # "none" /\ announced'[p] = announced[p]
        BY <2>1, <2>3, <3>2
      <4>2. ScoredAgain(p)
        <5>1. Pass(p) /\ mode.streams /\ "scorer" \in Workers
          BY <2>3, <1>0, PipelineAssumption
             DEF SoloAll, SoloInv, Solo, PipelineAssumption, TypeRest, Workers
        <5>2. ASSUME ~Inline PROVE w = "scorer"
          <6>1. w \in Consumers /\ WorkerOK(w) /\ StepsOK(w)
            BY <2>3, <5>2 DEF SoloAll, Shape, ModeOK, Crawling
          <6> QED
            BY <2>3, <6>1 DEF WorkerOK, StepsOK, KindsOf, Consumers, Empty
        <5> QED
          BY <2>3, <4>1, <5>1, <5>2 DEF Pass, ScoredAgain, Dual, Inline, Verdicts
      <4>3. announced'[p] = "cold"
        BY <1>0, <3>2, <4>1 DEF TypeRest, Verdicts
      <4>4. ScoredAgain(p)'
        BY <1>1, <4>2 DEF ScoredAgain, Dual
      <4> QED
        BY <1>1, <2>3, <4>3, <4>4 DEF EventPromises
    <3> QED
      BY <3>1, <3>2
  <2>4. CASE job[w].step[p] = "cold"
    <3>1. CASE OnItsWay(p)
      <4>1. PICK v \in Workers : job[v].step[p] \in {"hot", "qualify"}
        BY <3>1 DEF OnItsWay
      <4>2. job'[v].step[p] = job[v].step[p]
        BY <1>4, <2>4, <4>1
      <4> QED
        BY <4>1, <4>2 DEF OnItsWay
    <3>2. CASE EventPromises(p)
      BY <1>1, <1>3, <3>2 DEF EventPromises, ScoredAgain, Dual
    <3> QED
      BY <2>1, <3>1, <3>2 DEF HotInv, Followed, HotFits
  <2> QED
    BY <1>1, <2>2, <2>3, <2>4 DEF Verdicts
<1>10. QualifierFits(p)'
  <2>1. Handled("qualifier", "qualify", p)' => announced'[p] # "none"
    BY <1>3, <1>5, <1>8
  <2>2. ASSUME announced'[p] = "hot", p \notin interrupted'
        PROVE  /\ <<"qualifier", p>> \in done' => leads'[p] > 0
               /\ InHand("qualifier", "qualify", p)' =>
                     leads'[p] > 0 \/ job'["qualifier"].step[p] = "qualify"
    <3>1. Handled("qualifier", "qualify", p) => announced[p] = "hot" /\ p \notin interrupted
      BY <1>1, <1>3, <1>5, <2>2
    <3>2. job["qualifier"].step[p] = "qualify" => job'["qualifier"].step[p] = "qualify"
      BY <1>1, <1>4, <1>7 DEF Verdicts
    <3>3. InHand("qualifier", "qualify", p)' => InHand("qualifier", "qualify", p)
      BY <1>6, <1>7 DEF InHand
    <3> QED
      BY <1>1, <3>1, <3>2, <3>3 DEF HotInv, Followed, QualifierFits, Handled
  <2> QED
    BY <2>1, <2>2 DEF QualifierFits
<1> QED
  BY <1>9, <1>10 DEF Followed

LEMMA NextFollowed ==
    ASSUME SoloAll, HotInv, [Next]_vars, PipelineAssumption
    PROVE  HotInv'
<1>0. /\ TypeOK /\ Shape /\ RowsOK /\ TypeRest /\ JobsOK
      /\ \A p \in Posts : leads[p] \in Nat /\ Followed(p)
  BY TypeParts DEF SoloAll, HotInv, TypeRest
<1> USE <1>0 DEF tables, streamState, history
<1>1. ASSUME NEW w \in Workers, \A q \in Posts : Carried(w, q) PROVE HotInv'
  BY <1>1, FollowedCarried DEF HotInv
<1>2. ASSUME NEW w \in Workers, NEW p \in Posts, \A q \in Posts : q # p => Carried(w, q),
             Followed(p)'
      PROVE  HotInv'
  BY <1>2, FollowedCarried DEF HotInv
\* A post moves that is not yet hot, or no longer on its way.
<1>3. ASSUME NEW w \in Workers, NEW p \in Posts, NEW s, Moved(w, p, s),
             job[w].step[p] \notin {"hot", "qualify"},
             UNCHANGED <<mode, leads, announced, done>>,
             raced \subseteq raced', unstored \subseteq unstored', redelivered \subseteq redelivered',
             interrupted \subseteq interrupted',
             \A q \in Posts : row'[q] = row[q] \/ row'[q] # "hot"
      PROVE  HotInv'
  <2>1. ExcusesGrow
    BY <1>3 DEF ExcusesGrow
  <2>2. \A q \in Posts : Carried(w, q)
    BY <1>3, <2>1 DEF Carried, Moved, InHand
  <2> QED
    BY <1>1, <2>2
<1>4. ASSUME NEW w \in Workers, NEW p \in Posts, LookUp(w, p) PROVE HotInv'
  BY <1>3, <1>4, LookUpFoot DEF LookUp
<1>5. ASSUME NEW w \in Workers, NEW p \in Posts, Insert(w, p) PROVE HotInv'
  <2>1. \A q \in Posts : row'[q] = row[q] \/ row'[q] # "hot"
    BY <1>5, InsertFoot DEF TypeRest
  <2>2. job[w].step[p] \notin {"hot", "qualify"} /\ \E s : Moved(w, p, s)
    BY <1>5, InsertFoot
  <2> QED
    BY <1>3, <1>5, <2>1, <2>2 DEF Insert
<1>6. ASSUME NEW w \in Workers, NEW p \in Posts, RecordDedupeKeys(w, p) PROVE HotInv'
  BY <1>3, <1>6, RecordDedupeKeysFoot DEF RecordDedupeKeys
<1>7. ASSUME NEW w \in Workers, NEW p \in Posts, PublishIngested(w, p) PROVE HotInv'
  <2>1. /\ UNCHANGED <<mode, row, leads, announced, done, raced, unstored, redelivered>>
        /\ interrupted \subseteq interrupted'
    BY <1>7 DEF PublishIngested
  <2> QED
    BY <1>3, <1>7, <2>1, PublishIngestedFoot
<1>8. ASSUME NEW p \in Posts, NEW value, value # "hot", Record(p, value)
      PROVE  unstored \subseteq unstored' /\ \A q \in Posts : row'[q] = row[q] \/ row'[q] # "hot"
  BY <1>8 DEF Record, TypeRest
<1>9. ASSUME NEW w \in Workers, NEW p \in Posts, RejectByRules(w, p) PROVE HotInv'
  <2>1. unstored \subseteq unstored' /\ \A q \in Posts : row'[q] = row[q] \/ row'[q] # "hot"
    BY <1>8, <1>9 DEF RejectByRules
  <2>2. job[w].step[p] \notin {"hot", "qualify"} /\ Moved(w, p, "none")
    BY <1>9, RejectByRulesFoot
  <2>3. UNCHANGED <<mode, leads, announced, done, raced, redelivered, interrupted>>
    BY <1>9 DEF RejectByRules
  <2> QED
    BY <1>3, <2>1, <2>2, <2>3
<1>10. ASSUME NEW w \in Workers, NEW p \in Posts, FilterMention(w, p) PROVE HotInv'
  <2>1. unstored \subseteq unstored' /\ \A q \in Posts : row'[q] = row[q] \/ row'[q] # "hot"
    BY <1>8, <1>10, FilterMentionFoot
  <2>2. job[w].step[p] \notin {"hot", "qualify"} /\ \E s : Moved(w, p, s)
    BY <1>10, FilterMentionFoot
  <2>3. UNCHANGED <<mode, leads, announced, done, raced, redelivered, interrupted>>
    BY <1>10 DEF FilterMention
  <2> QED
    BY <1>3, <2>1, <2>2, <2>3
<1>11. ASSUME NEW w \in Workers, NEW p \in Posts, Classify(w, p) PROVE HotInv'
  <2>1. /\ UNCHANGED <<mode, leads, announced, done, raced, redelivered, interrupted>>
        /\ job[w].step[p] = "passed"
    BY <1>11, ClassifyFoot DEF Classify
  <2>2. unstored \subseteq unstored' /\ \A q \in Posts : q # p => row'[q] = row[q]
    <3>1. CASE \/ row' = [row EXCEPT ![p] = "error"] /\ UNCHANGED unstored
               \/ unstored' = unstored \cup {p} /\ UNCHANGED row
      BY <3>1 DEF TypeRest
    <3>2. CASE \E v \in Verdicts : Record(p, v)
      BY <3>2 DEF Record, TypeRest
    <3> QED
      BY <1>11, <3>1, <3>2, ClassifyFoot
  <2>3. PICK s : Moved(w, p, s)
    BY <1>11, ClassifyFoot
  <2>4. CASE row'[p] = row[p] \/ row'[p] # "hot"
    BY <1>3, <2>1, <2>2, <2>3, <2>4
  <2>5. CASE row'[p] = "hot" /\ row[p] # "hot"
    <3>1. Followed(p)'
      BY <1>11, <2>5, FollowedClassify
    <3>2. ExcusesGrow
      BY <2>1, <2>2 DEF ExcusesGrow
    <3>3. \A q \in Posts : q # p => Carried(w, q)
      BY <2>1, <2>2, <2>3, <3>2 DEF Carried, Moved, InHand
    <3> QED
      BY <1>2, <3>1, <3>3
  <2> QED
    BY <2>4, <2>5
<1>30. ASSUME NEW w \in Workers, NEW p \in Posts, Panic(w, p) PROVE HotInv'
  <2>1. /\ UNCHANGED <<mode, row, leads, announced, done, raced, unstored, redelivered>>
        /\ interrupted \subseteq interrupted'
    BY <1>30 DEF Panic
  <2>2. /\ Moved(w, p, "none")
        /\ job[w].step[p] \in {"hot", "qualify"} => p \in interrupted'
    BY <1>30, PanicFoot DEF Panic, At
  <2>3. ExcusesGrow
    BY <2>1 DEF ExcusesGrow
  <2>4. \A q \in Posts : Carried(w, q)
    BY <2>1, <2>2, <2>3 DEF Carried, Moved, InHand
  <2> QED
    BY <1>1, <2>4
<1>12. ASSUME NEW w \in Workers, NEW p \in Posts, PublishScored(w, p) PROVE HotInv'
  <2>1. Followed(p)'
    BY <1>12, FollowedPublish
  <2>2. /\ UNCHANGED <<mode, row, leads, done, raced, unstored, redelivered>>
        /\ interrupted \subseteq interrupted'
        /\ \A q \in Posts : q # p => announced'[q] = announced[q]
        /\ Moved(w, p, AfterVerdict(job[w].step[p]))
    BY <1>12, PublishScoredFoot DEF PublishScored, TypeRest
  <2>3. ExcusesGrow
    BY <2>2 DEF ExcusesGrow
  <2>4. \A q \in Posts : q # p => Carried(w, q)
    BY <2>2, <2>3 DEF Carried, Moved, InHand
  <2> QED
    BY <1>2, <2>1, <2>4
<1>13. ASSUME NEW w \in Workers, NEW p \in Posts, QualifyAsLead(w, p) PROVE HotInv'
  <2>1. /\ UNCHANGED <<mode, row, announced, done, raced, unstored, redelivered>>
        /\ interrupted \subseteq interrupted'
        /\ \A q \in Posts : leads'[q] \in {leads[q], leads[q] + 1}
        /\ leads'[p] = leads[p] + 1 \/ p \in interrupted'
        /\ \E s : Moved(w, p, s)
    BY <1>13, QualifyAsLeadFoot DEF QualifyAsLead, TypeRest
  <2>2. ExcusesGrow
    BY <2>1 DEF ExcusesGrow
  <2>3. \A q \in Posts : Carried(w, q)
    BY <2>1, <2>2 DEF Carried, Moved, InHand
  <2> QED
    BY <1>1, <2>3
<1>14. ASSUME NEW w \in Workers, NEW p \in Posts, RunWorkflows(w, p) PROVE HotInv'
  BY <1>3, <1>14, RunWorkflowsFoot DEF RunWorkflows
\* A worker with nothing on its way takes up posts, or puts all down.
<1>15. ASSUME NEW w \in Workers, NEW S, NEW s, NEW k, NEW e, Loaded(w, S, s, k, e),
              \A q \in Posts : job[w].step[q] \notin {"hot", "qualify"} \/ q \in interrupted',
              UNCHANGED <<mode, row, leads, announced, done>>,
              raced \subseteq raced', unstored \subseteq unstored', redelivered \subseteq redelivered',
              interrupted \subseteq interrupted',
              k = "qualify" => job[w].kind = k /\ job[w].event = e
       PROVE  HotInv'
  <2>1. ExcusesGrow
    BY <1>15 DEF ExcusesGrow
  <2>2. \A q \in Posts : Carried(w, q)
    BY <1>15, <2>1 DEF Carried, Loaded, InHand
  <2> QED
    BY <1>1, <2>2
<1>16. ASSUME NEW w \in Workers, TakeCredits(w) PROVE HotInv'
  <2>1. PICK kept \in SUBSET Batch(w) : Loaded(w, kept, "paid", job[w].kind, job[w].event)
    BY <1>16, TakeCreditsFoot
  <2>2. \A q \in Posts : job[w].step[q] \notin {"hot", "qualify"}
    <3>1. PhaseOK(w) /\ \E q \in Posts : job[w].step[q] \in {"held", "ready"}
      BY <1>16 DEF Shape, TakeCredits, Scores, Batch, At
    <3> QED
      BY <3>1 DEF PhaseOK, Early, Crawling
  <2> QED
    BY <1>15, <1>16, <2>1, <2>2 DEF TakeCredits
<1>17. ASSUME NEW w \in Workers, Empty(w)
       PROVE  \A q \in Posts : job[w].step[q] \notin {"hot", "qualify"}
  BY <1>17 DEF Empty
<1>18. ASSUME NEW w \in Workers, BackfillUnclassified(w) PROVE HotInv'
  <2>1. /\ UNCHANGED <<mode, row, leads, announced, done, unstored, redelivered, interrupted>>
        /\ \A q \in Posts : job[w].step[q] \notin {"hot", "qualify"}
    BY <1>17, <1>18, BackfillFoot DEF BackfillUnclassified
  <2>2. raced \subseteq raced'
    BY <1>18, BackfillFoot
  <2>3. \E S, s : Loaded(w, S, s, job[w].kind, job[w].event)
    BY <1>18, BackfillFoot
  <2> QED
    BY <1>15, <2>1, <2>2, <2>3
<1>19. ASSUME NEW w \in Workers, Finish(w) PROVE HotInv'
  <2>1. /\ UNCHANGED <<mode, row, leads, announced, done, raced, unstored, redelivered, interrupted>>
        /\ \A q \in Posts : job[w].step[q] \notin {"hot", "qualify"}
    BY <1>17, <1>19, FinishFoot DEF Finish
  <2>2. \E k : Loaded(w, {}, "none", k, NoPost) /\ k # "qualify"
    BY <1>19, FinishFoot
  <2> QED
    BY <1>15, <2>1, <2>2
<1>20. ASSUME NEW w \in Workers, Crash(w) PROVE HotInv'
  <2>1. \A q \in Posts : job[w].step[q] \notin {"hot", "qualify"} \/ q \in interrupted'
    BY <1>20 DEF Crash, Holds
  <2>2. /\ UNCHANGED <<mode, row, leads, announced, done, raced, unstored>>
        /\ interrupted \subseteq interrupted' /\ redelivered \subseteq redelivered'
    BY <1>20 DEF Crash
  <2> QED
    BY <1>15, <1>20, <2>1, <2>2, CrashFoot
<1>21. ASSUME NEW w \in Workers, MarkProcessed(w) PROVE HotInv'
  <2>1. /\ UNCHANGED <<mode, row, leads, announced, raced, unstored, interrupted>>
        /\ redelivered \subseteq redelivered' /\ Loaded(w, {}, "none", "idle", NoPost)
        /\ \A q \in Posts : job[w].step[q] = "none"
        /\ done' \subseteq done \cup {<<w, job[w].event>>} /\ done \subseteq done'
    BY <1>21, MarkProcessedFoot DEF MarkProcessed, Empty
  <2>2. ExcusesGrow
    BY <2>1 DEF ExcusesGrow
  <2>3. ASSUME NEW q \in Posts, w # "qualifier" \/ job[w].event # q \/ done' = done
        PROVE  Carried(w, q)
    BY <2>1, <2>2, <2>3 DEF Carried, Loaded, InHand
  <2>4. CASE w # "qualifier" \/ done' = done
    BY <1>1, <2>3, <2>4
  <2>5. CASE w = "qualifier" /\ done' # done
    <3>1. /\ job[w].event \in Posts
          /\ InHand("qualifier", "qualify", job[w].event)
      BY <1>21, <2>5, MarkProcessedFoot DEF Shape, WorkerOK, KindsOf, InHand
    <3>2. PICK p \in Posts : p = job[w].event
      BY <3>1
    <3>3. \A q \in Posts : q # p => Carried(w, q)
      BY <2>3, <3>2
    <3>4. /\ InHand("qualifier", "qualify", p)
          /\ announced[p] # "none"
          /\ (announced[p] = "hot" /\ p \notin interrupted => leads[p] > 0)
      BY <2>1, <2>5, <3>1, <3>2 DEF Followed, QualifierFits, Handled
    <3>5. Followed(p)'
      <4>1. /\ ~InHand("qualifier", "qualify", p)'
            /\ announced'[p] # "none"
            /\ (announced'[p] = "hot" /\ p \notin interrupted' => leads'[p] > 0)
        BY <2>1, <2>5, <3>4 DEF Loaded, InHand
      <4>2. QualifierFits(p)'
        BY <4>1 DEF QualifierFits, Handled
      <4>3. \A v \in Workers : v # w => job'[v] = job[v]
        BY <2>1 DEF Loaded, OthersKept
      <4>4. OnItsWay(p) => OnItsWay(p)'
        BY <2>1, <3>2, <4>3 DEF OnItsWay
      <4>5. announced[p] = "cold" /\ EventPromises(p) => EventPromises(p)'
        BY <2>1, <2>2 DEF EventPromises, ScoredAgain, Dual, ExcusesGrow
      <4>6. EventPromises(p) => announced[p] \in {"hot", "cold"}
        BY DEF EventPromises
      <4>7. HotFits(p)'
        BY <2>1, <3>4, <4>4, <4>5, <4>6 DEF HotFits, Followed
      <4> QED
        BY <4>2, <4>7 DEF Followed
    <3> QED
      BY <1>2, <3>2, <3>3, <3>5
  <2> QED
    BY <2>4, <2>5
<1>22. ASSUME NEW w \in Workers, NEW kind \in {"poll", "scan", "ingest"}, NEW found,
              Begin(w, kind, found), job[w].kind \in {"idle", "gap"},
              UNCHANGED <<mode, row, leads, announced, done>>,
              UNCHANGED <<raced, unstored, redelivered, interrupted>>
       PROVE  HotInv'
  <2>1. Loaded(w, found, "fetched", kind, NoPost) /\ kind # "qualify"
    BY <1>22, BeginFoot DEF Kinds
  <2>2. \A q \in Posts : job[w].step[q] \notin {"hot", "qualify"}
    BY <1>17, <1>22 DEF Shape, WorkerOK
  <2> QED
    BY <1>15, <1>22, <2>1, <2>2
<1>23. ASSUME NEW found, PollProfiles(found) \/ PostSignals(found) PROVE HotInv'
  BY <1>22, <1>23 DEF PollProfiles, PostSignals, Workers
<1>24. ASSUME NEW w \in {"tick", "now"}, NEW found, ScanWorkspace(w, found) PROVE HotInv'
  BY <1>22, <1>24 DEF ScanWorkspace, Workers
<1>25. ASSUME SkipScan PROVE HotInv'
  <2>1. "tick" \in Workers /\ UNCHANGED <<mode, row, leads, announced, done>>
        /\ UNCHANGED <<raced, unstored, redelivered, interrupted>>
    BY <1>25 DEF SkipScan, Workers
  <2>2. \A q \in Posts : job["tick"].step[q] \notin {"hot", "qualify"}
    BY <1>17, <1>25, <2>1 DEF SkipScan, Shape, WorkerOK
  <2> QED
    BY <1>15, <1>25, <2>1, <2>2, SkipScanFoot
<1>26. ASSUME NEW p \in Posts, HandleIngested(p) PROVE HotInv'
  <2>1. "scorer" \in Workers /\ UNCHANGED <<mode, row, leads, announced, done>>
        /\ UNCHANGED <<unstored, redelivered, interrupted>> /\ raced \subseteq raced'
    BY <1>26, HandleIngestedFoot DEF HandleIngested, Workers
  <2>2. \A q \in Posts : job["scorer"].step[q] \notin {"hot", "qualify"}
    BY <1>17, <1>26, <2>1, HandleIngestedFoot DEF Shape, WorkerOK
  <2> QED
    BY <1>15, <1>26, <2>1, <2>2, HandleIngestedFoot
<1>27. ASSUME NEW p \in Posts, HandleScored(p) PROVE HotInv'
  <2>1. "qualifier" \in Workers /\ UNCHANGED <<mode, row, leads, announced, done>>
        /\ UNCHANGED <<unstored, redelivered, interrupted>> /\ raced \subseteq raced'
        /\ announced[p] # "none" /\ <<"qualifier", p>> \notin done
    BY <1>27, HandleScoredFoot DEF HandleScored, Workers
  <2>2. \A q \in Posts : job["qualifier"].step[q] = "none"
    BY <1>27, <2>1, HandleScoredFoot DEF Shape, WorkerOK, Empty
  <2>3. PICK ps : /\ ps = (IF announced[p] = "hot" THEN {p} ELSE {})
                  /\ Loaded("qualifier", ps, "qualify", "qualify", p)
    BY <1>27, HandleScoredFoot
  <2>4. ExcusesGrow
    BY <2>1 DEF ExcusesGrow
  <2>5. \A q \in Posts : q # p => Carried("qualifier", q)
    BY <2>1, <2>2, <2>3, <2>4 DEF Carried, Loaded, InHand
  <2>6. Followed(p)'
    <3>1. \A v \in Workers : v # "qualifier" => job'[v] = job[v]
      BY <2>3 DEF Loaded, OthersKept
    <3>2. announced[p] = "hot" => job'["qualifier"].step[p] = "qualify"
      BY <2>3 DEF Loaded
    <3>3. QualifierFits(p)'
      BY <2>1, <3>2 DEF QualifierFits
    <3>4. OnItsWay(p) => OnItsWay(p)'
      BY <2>1, <2>2, <3>1 DEF OnItsWay
    <3>5. EventPromises(p) => EventPromises(p)'
      BY <2>1, <2>4 DEF EventPromises, ScoredAgain, Dual, ExcusesGrow
    <3>6. HotFits(p)'
      BY <2>1, <3>4, <3>5 DEF HotFits, Followed
    <3> QED
      BY <3>3, <3>6 DEF Followed
  <2> QED
    BY <1>2, <2>1, <2>5, <2>6
<1>28. ASSUME RefreshFree \/ UNCHANGED vars PROVE HotInv'
  <2>1. /\ ExcusesGrow /\ UNCHANGED <<row, leads, announced, done, job, interrupted>>
        /\ "tick" \in Workers
    BY <1>28 DEF RefreshFree, vars, ExcusesGrow, Workers
  <2>2. \A q \in Posts : Carried("tick", q)
    BY <2>1 DEF Carried, OthersKept, InHand
  <2> QED
    BY <1>1, <2>1, <2>2
<1>29. ASSUME NEW w \in Workers, Step(w) PROVE HotInv'
  BY <1>4, <1>5, <1>6, <1>7, <1>9, <1>10, <1>11, <1>12, <1>13, <1>14, <1>16, <1>18, <1>19,
     <1>21, <1>29 DEF Step
<1> QED
  BY <1>20, <1>23, <1>24, <1>25, <1>26, <1>27, <1>28, <1>29, <1>30 DEF Next, Poll, Scan

\* A mention stored as hot has its lead once no worker has it in hand, or its
\* event is still to be handled, unless a step in between failed; with one
\* exception, when it was scored again and its first event, the one that stands,
\* says cold. It holds inline, with streams, in dual-write and when the
\* qualifier's consumer makes the leads.
THEOREM HotHasLead == Spec => []HotMentionHasLead
<1> DEFINE I == SoloAll /\ HotInv
<1>1. Init => I
  <2>1. ASSUME Init PROVE HotInv
    <3>1. /\ \A p \in Posts : row[p] = "absent" /\ announced[p] = "none"
          /\ \A w \in Workers : job[w].kind = "idle"
          /\ \A w \in Workers, p \in Posts : job[w].step[p] = "none"
          /\ done = {}
      BY <2>1 DEF Init, Idle
    <3>2. "qualifier" \in Workers
      BY DEF Workers
    <3> QED
      BY <3>1, <3>2 DEF HotInv, Followed, HotFits, QualifierFits, Handled, InHand
  <2> QED
    BY <2>1, SoloAllInvariant
<1>2. I /\ [Next]_vars => I'
  BY SoloAllInvariant, NextFollowed, PipelineAssumption
<1>3. I => HotMentionHasLead
  <2> SUFFICES ASSUME HotInv, NEW p \in Posts, row[p] = "hot", AtRest(p), p \notin interrupted
               PROVE  leads[p] > 0 \/ EventPromises(p)
    BY DEF HotMentionHasLead, EventPromises
  <2>1. ~OnItsWay(p)
    BY DEF AtRest, Holds, OnItsWay
  <2> QED
    BY <2>1 DEF HotInv, Followed, HotFits
<1> QED
  BY <1>1, <1>2, <1>3, PTL DEF Spec

----------------------------------------------------------------------------
(* Every verdict reaches the workflow engine.                              *)

\* The steps from which a post still goes on to the workflow engine.
Handing == Verdicts \cup {"flow"} \cup IF mode.streams THEN {} ELSE {"qualify"}

HandedFits(p) ==
    row[p] \in Verdicts /\ p \notin interrupted =>
        p \in handed \/ \E w \in Workers : job[w].step[p] \in Handing

HandedInv == \A p \in Posts : HandedFits(p)

\* A new verdict is on its way, and what was on its way goes on, is handed over
\* or counts as interrupted.
HandedKept(w, p) ==
    /\ OthersKept(w) /\ mode' = mode
    /\ handed \subseteq handed' /\ interrupted \subseteq interrupted'
    /\ row'[p] \in Verdicts => row[p] \in Verdicts \/ job'[w].step[p] \in Handing
    /\ job[w].step[p] \in Handing =>
          job'[w].step[p] \in Handing \/ p \in handed' \/ p \in interrupted'

LEMMA HandedFitsKept ==
    ASSUME NEW w \in Workers, NEW p \in Posts, HandedFits(p), HandedKept(w, p)
    PROVE  HandedFits(p)'
<1>1. Handing' = Handing
  BY DEF HandedKept, Handing
<1> SUFFICES ASSUME row'[p] \in Verdicts, p \notin interrupted', p \notin handed'
             PROVE  \E v \in Workers : job'[v].step[p] \in Handing
  BY <1>1 DEF HandedFits
<1>2. p \notin interrupted /\ p \notin handed
  BY DEF HandedKept
<1>3. CASE job'[w].step[p] \in Handing
  BY <1>3
<1>4. CASE row[p] \in Verdicts
  <2>1. PICK v \in Workers : job[v].step[p] \in Handing
    BY <1>2, <1>4 DEF HandedFits
  <2>2. v = w \/ job'[v] = job[v]
    BY DEF HandedKept, OthersKept
  <2> QED
    BY <2>1, <2>2 DEF HandedKept
<1> QED
  BY <1>3, <1>4 DEF HandedKept

\* The steps before the verdict, and a qualifier's, hand nothing over.
Unhanding == {"none", "fetched", "insert", "key", "held", "ready", "paid", "passed"}

LEMMA UnhandingIsNotHanding == Unhanding \cap Handing = {}
BY DEF Unhanding, Handing, Verdicts

LEMMA NextHanded ==
    ASSUME TypeOK, Shape, HandedInv, [Next]_vars, PipelineAssumption
    PROVE  HandedInv'
<1>0. TypeRest /\ JobsOK
  BY TypeParts
<1> USE <1>0 DEF tables, streamState, history
<1>1. ASSUME NEW w \in Workers, \A q \in Posts : HandedKept(w, q) PROVE HandedInv'
  BY <1>1, HandedFitsKept DEF HandedInv
\* A post moves before its verdict; no verdict is stored.
<1>2. ASSUME NEW w \in Workers, NEW p \in Posts, NEW s, Moved(w, p, s),
             job[w].step[p] \in Unhanding, UNCHANGED <<mode, handed>>,
             interrupted \subseteq interrupted',
             \A q \in Posts : row'[q] = row[q] \/ row'[q] \notin Verdicts
      PROVE  HandedInv'
  <2>1. \A q \in Posts : HandedKept(w, q)
    BY <1>2, UnhandingIsNotHanding DEF HandedKept, Moved
  <2> QED
    BY <1>1, <2>1
<1>3. ASSUME NEW w \in Workers, NEW p \in Posts, LookUp(w, p) PROVE HandedInv'
  BY <1>2, <1>3, LookUpFoot DEF LookUp, Unhanding
<1>4. ASSUME NEW w \in Workers, NEW p \in Posts, Insert(w, p) PROVE HandedInv'
  <2>1. \A q \in Posts : row'[q] = row[q] \/ row'[q] \notin Verdicts
    BY <1>4, InsertFoot DEF TypeRest, Verdicts
  <2>2. job[w].step[p] \in Unhanding /\ \E s : Moved(w, p, s)
    BY <1>4, InsertFoot DEF Unhanding
  <2> QED
    BY <1>2, <1>4, <2>1, <2>2 DEF Insert
<1>5. ASSUME NEW w \in Workers, NEW p \in Posts, RecordDedupeKeys(w, p) PROVE HandedInv'
  BY <1>2, <1>5, RecordDedupeKeysFoot DEF RecordDedupeKeys, Unhanding
<1>6. ASSUME NEW w \in Workers, NEW p \in Posts, PublishIngested(w, p) PROVE HandedInv'
  <2>1. UNCHANGED <<mode, row, handed>> /\ interrupted \subseteq interrupted'
    BY <1>6 DEF PublishIngested
  <2> QED
    BY <1>2, <1>6, <2>1, PublishIngestedFoot DEF Unhanding
<1>7. ASSUME NEW p \in Posts, Record(p, "filtered")
      PROVE  \A q \in Posts : row'[q] = row[q] \/ row'[q] \notin Verdicts
  BY <1>7 DEF Record, TypeRest, Verdicts
<1>8. ASSUME NEW w \in Workers, NEW p \in Posts, RejectByRules(w, p) PROVE HandedInv'
  <2>1. \A q \in Posts : row'[q] = row[q] \/ row'[q] \notin Verdicts
    BY <1>7, <1>8 DEF RejectByRules
  <2>2. job[w].step[p] \in Unhanding /\ Moved(w, p, "none")
    BY <1>8, RejectByRulesFoot DEF Unhanding
  <2> QED
    BY <1>2, <1>8, <2>1, <2>2 DEF RejectByRules
<1>9. ASSUME NEW w \in Workers, NEW p \in Posts, FilterMention(w, p) PROVE HandedInv'
  <2>1. \A q \in Posts : row'[q] = row[q] \/ row'[q] \notin Verdicts
    BY <1>7, <1>9, FilterMentionFoot
  <2>2. job[w].step[p] \in Unhanding /\ \E s : Moved(w, p, s)
    BY <1>9, FilterMentionFoot DEF Unhanding
  <2> QED
    BY <1>2, <1>9, <2>1, <2>2 DEF FilterMention
<1>10. ASSUME NEW w \in Workers, NEW p \in Posts, Classify(w, p) PROVE HandedInv'
  <2>1. UNCHANGED <<mode, handed, interrupted>> /\ job[w].step[p] \in Unhanding
    BY <1>10, ClassifyFoot DEF Classify, Unhanding
  <2>2. CASE row' = [row EXCEPT ![p] = "error"] \/ UNCHANGED row
    <3>1. \A q \in Posts : row'[q] = row[q] \/ row'[q] \notin Verdicts
      BY <2>2 DEF TypeRest, Verdicts
    <3> QED
      BY <1>2, <1>10, <2>1, <3>1, ClassifyFoot
  <2>3. ASSUME NEW v \in Verdicts, Record(p, v),
               Moved(w, p, IF mode.streams THEN v ELSE AfterVerdict(v))
        PROVE  HandedInv'
    <3>1. mode.streams \/ ~mode.async
      BY PipelineAssumption DEF PipelineAssumption, TypeRest
    <3>2. (IF mode.streams THEN v ELSE AfterVerdict(v)) \in Handing
      BY <3>1 DEF AfterVerdict, Handing
    <3>3. \A q \in Posts : q # p => row'[q] = row[q]
      BY <2>3 DEF Record, TypeRest
    <3>4. \A q \in Posts : HandedKept(w, q)
      BY <2>1, <2>3, <3>2, <3>3 DEF HandedKept, Moved
    <3> QED
      BY <1>1, <3>4
  <2> QED
    BY <1>10, <2>2, <2>3, ClassifyFoot
<1>30. ASSUME NEW w \in Workers, NEW p \in Posts, Panic(w, p) PROVE HandedInv'
  <2>1. UNCHANGED <<mode, row, handed>> /\ interrupted \subseteq interrupted'
    BY <1>30 DEF Panic
  <2>2. Moved(w, p, "none") /\ (job[w].step[p] \in Handing => p \in interrupted')
    BY <1>30, PanicFoot DEF Panic, At, Handing, Verdicts
  <2>3. \A q \in Posts : HandedKept(w, q)
    BY <2>1, <2>2 DEF HandedKept, Moved
  <2> QED
    BY <1>1, <2>3
<1>11. ASSUME NEW w \in Workers, NEW p \in Posts, PublishScored(w, p) PROVE HandedInv'
  <2>1. /\ UNCHANGED <<mode, row>> /\ handed \subseteq handed'
        /\ interrupted \subseteq interrupted'
        /\ p \in handed' \/ p \in interrupted'
    BY <1>11 DEF PublishScored
  <2>2. \E s : Moved(w, p, s)
    BY <1>11, PublishScoredFoot
  <2>3. \A q \in Posts : HandedKept(w, q)
    BY <2>1, <2>2 DEF HandedKept, Moved
  <2> QED
    BY <1>1, <2>3
<1>12. ASSUME NEW w \in Workers, NEW p \in Posts, QualifyAsLead(w, p) PROVE HandedInv'
  <2>1. UNCHANGED <<mode, row, handed>> /\ interrupted \subseteq interrupted'
    BY <1>12 DEF QualifyAsLead
  <2>2. job[w].step[p] = "qualify" /\ Moved(w, p, IF mode.streams THEN "none" ELSE "flow")
    BY <1>12, QualifyAsLeadFoot
  <2>3. "qualify" \in Handing <=> ~mode.streams
    BY DEF Handing, Verdicts
  <2>4. "flow" \in Handing
    BY DEF Handing
  <2>5. \A q \in Posts : HandedKept(w, q)
    BY <2>1, <2>2, <2>3, <2>4 DEF HandedKept, Moved
  <2> QED
    BY <1>1, <2>5
<1>13. ASSUME NEW w \in Workers, NEW p \in Posts, RunWorkflows(w, p) PROVE HandedInv'
  <2>1. /\ UNCHANGED <<mode, row, interrupted>>
        /\ handed \subseteq handed' /\ p \in handed' /\ Moved(w, p, "none")
    BY <1>13, RunWorkflowsFoot DEF RunWorkflows
  <2>2. \A q \in Posts : HandedKept(w, q)
    BY <2>1 DEF HandedKept, Moved
  <2> QED
    BY <1>1, <2>2
\* A worker with nothing on its way takes up posts, or puts all down.
<1>14. ASSUME NEW w \in Workers, NEW S, NEW s, NEW k, NEW e, Loaded(w, S, s, k, e),
              \A q \in Posts : job[w].step[q] \in Unhanding \/ q \in interrupted',
              UNCHANGED <<mode, row, handed>>, interrupted \subseteq interrupted'
       PROVE  HandedInv'
  <2>1. \A q \in Posts : HandedKept(w, q)
    BY <1>14, UnhandingIsNotHanding DEF HandedKept, Loaded
  <2> QED
    BY <1>1, <2>1
<1>15. ASSUME NEW w \in Workers, TakeCredits(w) PROVE HandedInv'
  <2>1. PICK kept \in SUBSET Batch(w) : Loaded(w, kept, "paid", job[w].kind, job[w].event)
    BY <1>15, TakeCreditsFoot
  <2>2. PhaseOK(w) /\ \E q \in Posts : job[w].step[q] \in {"held", "ready"}
    BY <1>15 DEF Shape, TakeCredits, Scores, Batch, At
  <2>3. \A q \in Posts : job[w].step[q] \in Unhanding
    BY <2>2 DEF PhaseOK, Early, Crawling, Unhanding
  <2> QED
    BY <1>14, <1>15, <2>1, <2>3 DEF TakeCredits
<1>16. ASSUME NEW w \in Workers, Empty(w) PROVE \A q \in Posts : job[w].step[q] \in Unhanding
  BY <1>16 DEF Empty, Unhanding
<1>17. ASSUME NEW w \in Workers, BackfillUnclassified(w) PROVE HandedInv'
  <2>1. UNCHANGED <<mode, row, handed, interrupted>> /\ Empty(w)
    BY <1>17 DEF BackfillUnclassified
  <2>2. \E S, s : Loaded(w, S, s, job[w].kind, job[w].event)
    BY <1>17, BackfillFoot
  <2> QED
    BY <1>14, <1>16, <2>1, <2>2
<1>18. ASSUME NEW w \in Workers, Finish(w) PROVE HandedInv'
  <2>1. UNCHANGED <<mode, row, handed, interrupted>> /\ Empty(w)
    BY <1>18 DEF Finish
  <2>2. \E k : Loaded(w, {}, "none", k, NoPost)
    BY <1>18, FinishFoot
  <2> QED
    BY <1>14, <1>16, <2>1, <2>2
<1>19. ASSUME NEW w \in Workers, MarkProcessed(w) PROVE HandedInv'
  <2>1. UNCHANGED <<mode, row, handed, interrupted>> /\ Empty(w)
    BY <1>19 DEF MarkProcessed
  <2>2. Loaded(w, {}, "none", "idle", NoPost)
    BY <1>19, MarkProcessedFoot
  <2> QED
    BY <1>14, <1>16, <2>1, <2>2
<1>20. ASSUME NEW w \in Workers, Crash(w) PROVE HandedInv'
  <2>1. \A q \in Posts : job[w].step[q] \in Unhanding \/ q \in interrupted'
    BY <1>20 DEF Crash, Holds, Unhanding
  <2>2. UNCHANGED <<mode, row, handed>> /\ interrupted \subseteq interrupted'
    BY <1>20 DEF Crash
  <2> QED
    BY <1>14, <1>20, <2>1, <2>2, CrashFoot
<1>21. ASSUME NEW w \in Workers, job[w].kind \in {"idle", "gap"}
       PROVE  \A q \in Posts : job[w].step[q] \in Unhanding
  BY <1>16, <1>21 DEF Shape, WorkerOK
<1>22. ASSUME NEW w \in Workers, NEW kind \in Kinds, NEW found, Begin(w, kind, found),
              job[w].kind \in {"idle", "gap"}, UNCHANGED <<mode, row, handed, interrupted>>
       PROVE  HandedInv'
  <2>1. Loaded(w, found, "fetched", kind, NoPost)
    BY <1>22, BeginFoot
  <2> QED
    BY <1>14, <1>21, <1>22, <2>1
<1>23. ASSUME NEW found, PollProfiles(found) \/ PostSignals(found) PROVE HandedInv'
  BY <1>22, <1>23 DEF PollProfiles, PostSignals, Workers, Kinds
<1>24. ASSUME NEW w \in {"tick", "now"}, NEW found, ScanWorkspace(w, found) PROVE HandedInv'
  BY <1>22, <1>24 DEF ScanWorkspace, Workers, Kinds
<1>25. ASSUME SkipScan PROVE HandedInv'
  <2>1. "tick" \in Workers /\ job["tick"].kind = "gap"
        /\ UNCHANGED <<mode, row, handed, interrupted>>
    BY <1>25 DEF SkipScan, Workers
  <2> QED
    BY <1>14, <1>21, <1>25, <2>1, SkipScanFoot
<1>26. ASSUME NEW p \in Posts, HandleIngested(p) PROVE HandedInv'
  <2>1. "scorer" \in Workers /\ UNCHANGED <<mode, row, handed, interrupted>>
    BY <1>26 DEF HandleIngested, Workers
  <2> QED
    BY <1>14, <1>21, <1>26, <2>1, HandleIngestedFoot
<1>27. ASSUME NEW p \in Posts, HandleScored(p) PROVE HandedInv'
  <2>1. "qualifier" \in Workers /\ UNCHANGED <<mode, row, handed, interrupted>>
    BY <1>27 DEF HandleScored, Workers
  <2>2. \E S : Loaded("qualifier", S, "qualify", "qualify", p)
    BY <1>27, HandleScoredFoot
  <2>3. job["qualifier"].kind = "idle"
    BY <1>27 DEF HandleScored
  <2> QED
    BY <1>14, <1>21, <2>1, <2>2, <2>3
<1>28. ASSUME RefreshFree \/ UNCHANGED vars PROVE HandedInv'
  <2>1. UNCHANGED <<mode, row, handed, interrupted, job>> /\ "tick" \in Workers
    BY <1>28 DEF RefreshFree, vars, Workers
  <2>2. \A q \in Posts : HandedKept("tick", q)
    BY <2>1 DEF HandedKept, OthersKept
  <2> QED
    BY <1>1, <2>1, <2>2
<1>29. ASSUME NEW w \in Workers, Step(w) PROVE HandedInv'
  BY <1>3, <1>4, <1>5, <1>6, <1>8, <1>9, <1>10, <1>11, <1>12, <1>13, <1>15, <1>17, <1>18,
     <1>19, <1>29 DEF Step
<1> QED
  BY <1>20, <1>23, <1>24, <1>25, <1>26, <1>27, <1>28, <1>29, <1>30 DEF Next, Poll, Scan

\* A mention with a verdict that no worker has in hand was handed to the
\* workflow engine, inline after its lead or by its workflow.trigger event,
\* unless a step on the way failed: whoever scored it, however often.
THEOREM DecidedHanded == Spec => []DecidedIsHanded
<1> DEFINE I == SoloAll /\ HandedInv
<1>1. Init => I
  <2>1. ASSUME Init PROVE HandedInv
    BY <2>1 DEF Init, HandedInv, HandedFits, Verdicts
  <2> QED
    BY <2>1, SoloAllInvariant
<1>2. I /\ [Next]_vars => I'
  <2>1. SoloAll => TypeOK /\ Shape
    BY DEF SoloAll
  <2> QED
    BY <2>1, SoloAllInvariant, NextHanded, PipelineAssumption
<1>3. I => DecidedIsHanded
  <2> SUFFICES ASSUME HandedInv, NEW p \in Posts, row[p] \in Verdicts, AtRest(p),
                      p \notin interrupted
               PROVE  p \in handed
    BY DEF DecidedIsHanded
  <2>1. \A w \in Workers : job[w].step[p] \notin Handing
    BY UnhandingIsNotHanding DEF AtRest, Holds, Unhanding
  <2> QED
    BY <2>1 DEF HandedInv, HandedFits
<1> QED
  BY <1>1, <1>2, <1>3, PTL DEF Spec

=============================================================================
