-------------------------- MODULE WorkspacePartsProofs --------------------------
(***************************************************************************)
(* Proofs about the parts of a workspace: treg, chat actions, mute lists,  *)
(* automations and digests here; billing and leads in modules of their own.*)
(* The last section carries all of them over to WorkspaceParts, in which   *)
(* every part keeps to its own specification.                              *)
(***************************************************************************)
EXTENDS WorkspaceParts, BillingProofs, LeadRecordProofs

----------------------------------------------------------------------------
(* treg, for any number of calls, attempts and credits: a call is paid for *)
(* once, and no credit is lost or made.                                    *)

\* treg knows no key but the one a call made at first.
FirstKeys == \A k \in Key : treg[k] # "new" => k[2] = 1

Charged == {c \in Calls : call[c].charged}

Conserved == credits + Cardinality(Charged) = Purse

\* When a call holds a credit: from Spend to Settle, for an answer treg billed, and
\* once over only for that, or its caller had gone, or a statement had failed.
HoldsCredit(c) ==
    /\ call[c].at \in {"start", "spend"} => ~call[c].charged
    /\ call[c].at \in {"begin", "send", "wait", "settle"} => call[c].charged
    /\ call[c].result = "billed" => call[c].charged
    /\ call[c].at = "done" /\ call[c].charged =>
          call[c].result = "billed" \/ c \in hungUp \cup dropped

CreditsFollow == \A c \in Calls : HoldsCredit(c)

TregInv == TregTypeOK /\ FirstKeys /\ Conserved /\ CreditsFollow

----------------------------------------------------------------------------
LEMMA TregInitInv == TregInit => TregInv
<1> SUFFICES ASSUME TregInit PROVE TregInv
  OBVIOUS
<1>1. TregTypeOK
  <2>1. [at |-> "start", tries |-> 0, result |-> "none", charged |-> FALSE]
          \in [at: Places, tries: 0..MaxAttempts, result: Results, charged: BOOLEAN]
    BY TregAssumption DEF Places, Results
  <2> QED BY <2>1, TregAssumption DEF TregInit, TregTypeOK
<1>2. FirstKeys /\ CreditsFollow
  BY DEF TregInit, FirstKeys, CreditsFollow, HoldsCredit
<1>3. Charged = {}
  BY DEF TregInit, Charged
<1>4. Conserved
  BY <1>3, FS_EmptySet, TregAssumption DEF TregInit, Conserved
<1> QED BY <1>1, <1>2, <1>4 DEF TregInv

LEMMA KeyOfCall == \A c \in Calls : IdempotencyKey(c) \in Key /\ IdempotencyKey(c)[2] = 1
BY TregAssumption DEF IdempotencyKey, Key

LEMMA TregTypeStep == TregTypeOK /\ [TregNext]_tregVars => TregTypeOK'
<1> SUFFICES ASSUME TregTypeOK, [TregNext]_tregVars PROVE TregTypeOK'
  OBVIOUS
<1> USE TregAssumption DEF TregTypeOK, Places, Results, Goto, Settles, Ends
<1>1. ASSUME NEW c \in Calls, LookInCache(c) PROVE TregTypeOK'
  BY <1>1 DEF LookInCache
<1>2. ASSUME NEW c \in Calls, Spend(c) PROVE TregTypeOK'
  BY <1>2 DEF Spend
<1>3. ASSUME NEW c \in Calls, Begin(c) PROVE TregTypeOK'
  BY <1>3 DEF Begin
<1>4. ASSUME NEW c \in Calls, Send(c) PROVE TregTypeOK'
  <2>1. call' \in [Calls -> [at: Places, tries: 0..MaxAttempts, result: Results, charged: BOOLEAN]]
    BY <1>4 DEF Send
  <2>2. treg' \in [Key -> {"new", "running", "billed", "missed"}]
    BY <1>4, KeyOfCall DEF Send
  <2> QED BY <1>4, <2>1, <2>2 DEF Send
<1>5. ASSUME NEW c \in Calls, NoAnswer(c) PROVE TregTypeOK'
  BY <1>5 DEF NoAnswer, Retry
<1>6. ASSUME NEW c \in Calls, Refused(c) PROVE TregTypeOK'
  BY <1>6 DEF Refused
<1>7. ASSUME NEW c \in Calls, Answered(c) PROVE TregTypeOK'
  BY <1>7 DEF Answered
<1>8. ASSUME NEW c \in Calls, Settle(c) PROVE TregTypeOK'
  BY <1>8 DEF Settle
<1>9. ASSUME NEW c \in Calls, HangUp(c) PROVE TregTypeOK'
  BY <1>9 DEF HangUp
<1>10. ASSUME NEW k \in Key, TregAnswers(k) PROVE TregTypeOK'
  BY <1>10 DEF TregAnswers
<1>11. CASE TregCrash
  BY <1>11 DEF TregCrash
<1>12. CASE Resume \/ Expire \/ UNCHANGED tregVars
  BY <1>12 DEF Resume, Expire, tregVars
<1> QED
  BY <1>1, <1>2, <1>3, <1>4, <1>5, <1>6, <1>7, <1>8, <1>9, <1>10, <1>11, <1>12
     DEF TregNext, CallStep

\* Only Send makes a key known, and treg answers none but those.
LEMMA FirstKeysStep == TregTypeOK /\ FirstKeys /\ [TregNext]_tregVars => FirstKeys'
<1> SUFFICES ASSUME TregTypeOK, FirstKeys, [TregNext]_tregVars PROVE FirstKeys'
  OBVIOUS
<1>1. ASSUME NEW c \in Calls, Send(c) PROVE FirstKeys'
  BY <1>1, KeyOfCall DEF Send, FirstKeys, TregTypeOK
<1>2. ASSUME NEW k \in Key, TregAnswers(k) PROVE FirstKeys'
  BY <1>2 DEF TregAnswers, FirstKeys, TregTypeOK
<1>3. ASSUME treg' = treg PROVE FirstKeys'
  BY <1>3 DEF FirstKeys
<1> QED
  BY <1>1, <1>2, <1>3 DEF TregNext, CallStep, LookInCache, Spend, Begin, NoAnswer, Refused,
     Answered, Settle, HangUp, TregCrash, Resume, Expire, tregVars

LEMMA PaidOnceFollows == TregTypeOK /\ FirstKeys => PaidOnceAtTreg
<1> SUFFICES ASSUME TregTypeOK, FirstKeys, NEW c \in Calls
             PROVE  Cardinality({k \in Key : k[1] = c /\ treg[k] \in {"running", "billed"}}) <= 1
  BY DEF PaidOnceAtTreg
<1> DEFINE P == {k \in Key : k[1] = c /\ treg[k] \in {"running", "billed"}}
<1>1. P \subseteq {<<c, 1>>}
  BY DEF FirstKeys, Key
<1>2. IsFiniteSet({<<c, 1>>}) /\ Cardinality({<<c, 1>>}) = 1
  BY FS_Singleton
<1>3. Cardinality(P) <= Cardinality({<<c, 1>>})
  <2> HIDE DEF P
  <2> QED BY <1>1, <1>2, FS_Subset
<1> QED BY <1>2, <1>3

\* However many answers are lost and calls are tried again, treg runs and bills one
\* search per call (the Idempotency-Key of Client.call).
THEOREM TregPaidOnce == TregSpec => []PaidOnceAtTreg
<1>1. TregInit => TregTypeOK /\ FirstKeys
  BY TregInitInv DEF TregInv
<1>2. TregTypeOK /\ FirstKeys /\ [TregNext]_tregVars => (TregTypeOK /\ FirstKeys)'
  BY TregTypeStep, FirstKeysStep
<1>3. TregTypeOK /\ FirstKeys => PaidOnceAtTreg
  BY PaidOnceFollows
<1> QED BY <1>1, <1>2, <1>3, PTL DEF TregSpec

----------------------------------------------------------------------------
(* Credits.                                                                *)

LEMMA ChargedFinite == IsFiniteSet(Charged) /\ Cardinality(Charged) \in Nat
BY TregAssumption, FS_Subset, FS_CardinalityType DEF Charged

LEMMA ConservedSame ==
    ASSUME Conserved, credits' = credits, Charged' = Charged PROVE Conserved'
BY DEF Conserved

LEMMA ConservedStep ==
    ASSUME TregTypeOK, Conserved, CreditsFollow, [TregNext]_tregVars PROVE Conserved'
<1>1. ASSUME NEW c \in Calls, Spend(c) PROVE Conserved'
  <2>1. c \notin Charged
    BY <1>1 DEF Spend, CreditsFollow, HoldsCredit, Charged
  <2>2. CASE credits' = credits - 1 /\ call' = [call EXCEPT ![c].at = "begin", ![c].charged = TRUE]
    <3>1. Charged' = Charged \cup {c}
      BY <2>2 DEF Charged, TregTypeOK
    <3>2. Cardinality(Charged \cup {c}) = Cardinality(Charged) + 1
      BY <2>1, ChargedFinite, FS_AddElement
    <3> QED BY <2>2, <3>1, <3>2, ChargedFinite DEF Conserved, TregTypeOK
  <2>3. CASE credits' = credits /\ call' = [call EXCEPT ![c].at = "done", ![c].result = "error"]
    <3>1. Charged' = Charged
      BY <2>3 DEF Charged, TregTypeOK
    <3> QED BY <2>3, <3>1, ConservedSame
  <2>4. CASE credits' = credits - 1
             /\ call' = [call EXCEPT ![c].at = "done", ![c].result = "error", ![c].charged = TRUE]
    <3>1. Charged' = Charged \cup {c}
      BY <2>4 DEF Charged, TregTypeOK
    <3>2. Cardinality(Charged \cup {c}) = Cardinality(Charged) + 1
      BY <2>1, ChargedFinite, FS_AddElement
    <3> QED BY <2>4, <3>1, <3>2, ChargedFinite DEF Conserved, TregTypeOK
  <2> QED BY <1>1, <2>2, <2>3, <2>4 DEF Spend, Ends
<1>2. ASSUME NEW c \in Calls, Settle(c) PROVE Conserved'
  <2>1. c \in Charged
    BY <1>2 DEF Settle, CreditsFollow, HoldsCredit, Charged
  <2>2. CASE credits' = credits + 1 /\ call' = [call EXCEPT ![c].at = "done", ![c].charged = FALSE]
    <3>1. Charged' = Charged \ {c}
      BY <2>2 DEF Charged, TregTypeOK
    <3>2. Cardinality(Charged \ {c}) = Cardinality(Charged) - 1
      BY <2>1, ChargedFinite, FS_RemoveElement
    <3> QED BY <2>2, <3>1, <3>2, ChargedFinite DEF Conserved, TregTypeOK
  <2>3. CASE credits' = credits /\ call' = [call EXCEPT ![c].at = "done"]
    <3>1. Charged' = Charged
      BY <2>3 DEF Charged, TregTypeOK
    <3> QED BY <2>3, <3>1, ConservedSame
  <2> QED BY <1>2, <2>2, <2>3 DEF Settle, Goto
<1>3. ASSUME NEW c \in Calls, LookInCache(c) \/ Begin(c) \/ Send(c) \/ NoAnswer(c) \/ Refused(c)
                              \/ Answered(c)
      PROVE  Conserved'
  <2>1. credits' = credits
    BY <1>3 DEF LookInCache, Begin, Send, NoAnswer, Refused, Answered
  <2>2. \A d \in Calls : call'[d].charged = call[d].charged
    <3> USE DEF Goto, Settles, Ends, TregTypeOK
    <3>1. CASE LookInCache(c)
      BY <3>1 DEF LookInCache
    <3>2. CASE Begin(c)
      BY <3>2 DEF Begin
    <3>3. CASE Send(c)
      BY <3>3 DEF Send
    <3>4. CASE NoAnswer(c)
      BY <3>4 DEF NoAnswer, Retry
    <3>5. CASE Refused(c)
      BY <3>5 DEF Refused
    <3>6. CASE Answered(c)
      BY <3>6 DEF Answered
    <3> QED BY <1>3, <3>1, <3>2, <3>3, <3>4, <3>5, <3>6
  <2>3. Charged' = Charged
    BY <2>2 DEF Charged
  <2> QED BY <2>1, <2>3, ConservedSame
<1>4. CASE TregCrash
  <2>1. \A d \in Calls : call'[d].charged = call[d].charged
    BY <1>4 DEF TregCrash, TregTypeOK
  <2>2. Charged' = Charged
    BY <2>1 DEF Charged
  <2> QED BY <1>4, <2>2, ConservedSame DEF TregCrash
<1>5. ASSUME call' = call, credits' = credits PROVE Conserved'
  BY <1>5, ConservedSame DEF Charged
<1> QED
  BY <1>1, <1>2, <1>3, <1>4, <1>5 DEF TregNext, CallStep, HangUp, TregAnswers, Resume, Expire,
     tregVars

LEMMA CreditsFollowStep ==
    ASSUME TregTypeOK, CreditsFollow, [TregNext]_tregVars PROVE CreditsFollow'
<1> USE DEF CreditsFollow, HoldsCredit, TregTypeOK, Goto, Settles, Ends
<1>1. ASSUME NEW c \in Calls, LookInCache(c) PROVE CreditsFollow'
  BY <1>1 DEF LookInCache
<1>2. ASSUME NEW c \in Calls, Spend(c) PROVE CreditsFollow'
  BY <1>2 DEF Spend
<1>3. ASSUME NEW c \in Calls, Begin(c) PROVE CreditsFollow'
  BY <1>3 DEF Begin
<1>4. ASSUME NEW c \in Calls, Send(c) PROVE CreditsFollow'
  BY <1>4 DEF Send
<1>5. ASSUME NEW c \in Calls, NoAnswer(c) PROVE CreditsFollow'
  BY <1>5 DEF NoAnswer, Retry
<1>6. ASSUME NEW c \in Calls, Refused(c) PROVE CreditsFollow'
  BY <1>6 DEF Refused
<1>7. ASSUME NEW c \in Calls, Answered(c) PROVE CreditsFollow'
  BY <1>7 DEF Answered
<1>8. ASSUME NEW c \in Calls, Settle(c) PROVE CreditsFollow'
  BY <1>8 DEF Settle, Refundable
<1>9. ASSUME NEW c \in Calls, HangUp(c) PROVE CreditsFollow'
  BY <1>9 DEF HangUp
<1>10. CASE TregCrash
  BY <1>10 DEF TregCrash
<1>11. ASSUME UNCHANGED <<call, hungUp, dropped>> PROVE CreditsFollow'
  BY <1>11
<1> QED
  BY <1>1, <1>2, <1>3, <1>4, <1>5, <1>6, <1>7, <1>8, <1>9, <1>10, <1>11
     DEF TregNext, CallStep, TregAnswers, Resume, Expire, tregVars

\* For every set of calls, interleaving, lost answer and crash: the credits spent
\* and those left make the purse, a call that ended kept its credit only for an
\* answer treg billed, or its caller was gone, or the database failed in its charge or
\* refund, and such an answer is charged (Client.Call and meteredCall, Refund).
THEOREM TregCharges == TregSpec => []ChargedForAnswer
<1>1. TregInit => TregInv
  BY TregInitInv
<1>2. TregInv /\ [TregNext]_tregVars => TregInv'
  BY TregTypeStep, FirstKeysStep, ConservedStep, CreditsFollowStep DEF TregInv
<1>3. TregInv => ChargedForAnswer
  BY DEF TregInv, Conserved, CreditsFollow, HoldsCredit, Charged, ChargedForAnswer
<1> QED BY <1>1, <1>2, <1>3, PTL DEF TregSpec

----------------------------------------------------------------------------
(* Chat actions.                                                           *)

Acting(r) == request[r].at \in {"execute", "record"}

\* One request acts on an approved call, before it is recorded.
ChatInv ==
    /\ ChatTypeOK
    /\ \A q, r \in Requests : Acting(q) /\ Acting(r) => q = r
    /\ \A r \in Requests : Acting(r) => stored_call = "running"
    /\ \A r \in Requests :
          /\ request[r].at = "execute" => toolRuns = 0
          /\ request[r].at = "record" /\ request[r].outcome = "done" => toolRuns = 1
    /\ ToolRunsAtMostOnce

LEMMA ChatInitInv == ChatInit => ChatInv
BY DEF ChatInit, ChatInv, ChatTypeOK, ToolRunsAtMostOnce, Acting, NoRequest_C, CallStatus, Request

LEMMA ChatStep == ChatInv /\ [ChatNext]_chatVars => ChatInv'
<1> SUFFICES ASSUME ChatInv, [ChatNext]_chatVars PROVE ChatInv'
  OBVIOUS
<1> USE DEF ChatInv, ChatTypeOK, ToolRunsAtMostOnce, Acting, NoRequest_C, CallStatus, Request
<1>1. ASSUME NEW r \in Requests, NEW approve \in BOOLEAN, LoadCall(r, approve) PROVE ChatInv'
  BY <1>1 DEF LoadCall
<1>2. ASSUME NEW r \in Requests, DecideCall(r) PROVE ChatInv'
  <2>1. CASE stored_call = "pending" /\ request[r].approve /\ stored_call' = "running"
             /\ request' = [request EXCEPT ![r] = [at |-> "execute"]]
    BY <1>2, <2>1 DEF DecideCall
  <2>2. CASE /\ stored_call' = stored_call
                \/ (stored_call = "pending" /\ stored_call' \in {"running", "cancelled"})
             /\ request' = [request EXCEPT ![r] = [at |-> "idle"]]
    BY <1>2, <2>2 DEF DecideCall
  <2> QED BY <1>2, <2>1, <2>2 DEF DecideCall, Unchanged, ForgetRequest
<1>3. ASSUME NEW r \in Requests, ExecuteCall(r) PROVE ChatInv'
  BY <1>3 DEF ExecuteCall
<1>4. ASSUME NEW r \in Requests, RecordCall(r) PROVE ChatInv'
  BY <1>4 DEF RecordCall, Unchanged, ForgetRequest
<1>5. CASE ChatCrash \/ UNCHANGED chatVars
  BY <1>5 DEF ChatCrash, chatVars
<1> QED BY <1>1, <1>2, <1>3, <1>4, <1>5 DEF ChatNext, RequestStep

\* Whatever requests, failures and crashes there are, a confirmed tool runs at most
\* once, never when the call stands as pending or cancelled, and did when it stands
\* as done (the compare-and-swap of Confirm).
THEOREM ChatRunsOnce == ChatSpec => []ToolRunsAtMostOnce
<1>1. ChatInv => ToolRunsAtMostOnce
  BY DEF ChatInv
<1> QED BY <1>1, ChatInitInv, ChatStep, PTL DEF ChatSpec

----------------------------------------------------------------------------
(* Mute lists.                                                             *)

\* A change that store s has made and dropped its entry for is missing in v.
MissedBy(s, v) ==
    \E u \in Versions : v <= u /\ u < version /\ replaced[u].by = s /\ replaced[u].dropped

\* A list read at "read" as version v was current then.
Sound(v, read) ==
    /\ v <= version /\ read <= second
    /\ v < version => replaced[v].at >= read

EntriesSound ==
    \A s \in Stores : cache[s] # NoEntry =>
        /\ Sound(cache[s].version, cache[s].read)
        /\ cache[s].read <= cache[s].at /\ cache[s].at <= second
        /\ MissedBy(s, cache[s].version) => cache[s].raced

LoadsSound ==
    \A r \in Readers : reader[r].at = "keep" =>
        /\ Sound(reader[r].version, reader[r].read)
        /\ MissedBy(reader[r].store, reader[r].version) => reader[r].raced

MuteInv ==
    /\ MuteTypeOK
    /\ \A v \in Versions : v < version => replaced[v] # NotYet /\ replaced[v].at <= second
    /\ EntriesSound
    /\ LoadsSound
    /\ \A w \in Writers : writer[w].at = "drop" =>
          writer[w].change < version /\ replaced[writer[w].change].by = writer[w].store
    /\ StalenessBounded

LEMMA MuteInitInv == MuteInit => MuteInv
<1> SUFFICES ASSUME MuteInit PROVE MuteInv
  OBVIOUS
<1>1. MuteTypeOK
  BY MuteAssumption
     DEF MuteInit, MuteTypeOK, Seconds, Versions, NoEntry, NotYet, Free, Reader, Writer, Sure
<1>2. StalenessBounded
  BY MuteAssumption DEF MuteInit, StalenessBounded, Sure
<1> QED BY <1>1, <1>2, MuteAssumption DEF MuteInit, MuteInv, EntriesSound, LoadsSound, Versions, Free, MissedBy, Sound

LEMMA EntryNotNone == NoEntry \notin Entry
BY MuteAssumption DEF NoEntry, Entry, Versions

\* An answer that goes by a sound entry, fresh by the time it was kept.
LEMMA SoundAnswer ==
    ASSUME MuteInv, NEW s \in Stores, NEW e \in Entry,
           Sound(e.version, e.read), e.read <= e.at, e.at <= second, second - e.at < CacheTTL,
           MissedBy(s, e.version) => e.raced, GoBy(s, e)
    PROVE  StalenessBounded' /\ answer' \in [age: Int, load: Int, raced: BOOLEAN, missed: BOOLEAN]
<1> USE MuteAssumption
<1>1. second \in Nat /\ version \in Nat /\ e.version \in Nat /\ e.at \in Nat /\ e.read \in Nat
      /\ e.raced \in BOOLEAN /\ CacheTTL \in Nat /\ e.version \in Versions
  BY DEF MuteInv, MuteTypeOK, Entry, Seconds, Versions
<1>2. ASSUME e.version # version
      PROVE  replaced[e.version].at \in Nat /\ replaced[e.version].at >= e.read
  <2>1. e.version < version
    BY <1>1, <1>2 DEF Sound
  <2> QED BY <1>1, <2>1 DEF Sound, MuteInv, MuteTypeOK, Seconds
<1> DEFINE age == IF e.version = version THEN 0 ELSE second - replaced[e.version].at
<1>3. age \in Int /\ age < CacheTTL + (e.at - e.read)
  BY <1>1, <1>2
<1>4. answer' = [age |-> age, load |-> e.at - e.read, raced |-> e.raced,
                 missed |-> MissedBy(s, e.version)]
  BY DEF GoBy, MissedBy
<1>5. answer'.age = age /\ answer'.load = e.at - e.read /\ answer'.raced = e.raced
      /\ answer'.missed = MissedBy(s, e.version)
  BY <1>4
<1>6. MissedBy(s, e.version) \in BOOLEAN
  BY DEF MissedBy
<1> HIDE DEF age
<1>7. StalenessBounded'
  BY <1>3, <1>5 DEF StalenessBounded
<1>8. answer' \in [age: Int, load: Int, raced: BOOLEAN, missed: BOOLEAN]
  BY <1>1, <1>3, <1>4, <1>6
<1> QED BY <1>7, <1>8

LEMMA SureAnswer ==
    ASSUME NoAnswerGiven
    PROVE  StalenessBounded' /\ answer' \in [age: Int, load: Int, raced: BOOLEAN, missed: BOOLEAN]
BY MuteAssumption DEF NoAnswerGiven, Sure, StalenessBounded

LEMMA MuteStep == MuteInv /\ [MuteNext]_muteVars => MuteInv'
<1> SUFFICES ASSUME MuteInv, [MuteNext]_muteVars PROVE MuteInv'
  OBVIOUS
<1> USE MuteAssumption
<1>a. second \in Nat /\ version \in Nat
  BY DEF MuteInv, MuteTypeOK, Seconds, Versions
<1>1. ASSUME NEW r \in Readers, NEW s \in Stores, Ask(r, s) PROVE MuteInv'
  <2>1. CASE Fresh(cache[s])
    <3>1. cache[s] \in Entry /\ cache[s] # NoEntry
      BY <2>1 DEF Fresh, MuteInv, MuteTypeOK
    <3>2. StalenessBounded' /\ answer' \in [age: Int, load: Int, raced: BOOLEAN, missed: BOOLEAN]
      BY <1>1, <2>1, <3>1, SoundAnswer DEF Ask, Fresh, MuteInv, EntriesSound
    <3>3. UNCHANGED <<second, version, cache, reader, writer, replaced>>
      BY <1>1, <2>1 DEF Ask
    <3> QED BY <3>2, <3>3 DEF MuteInv, EntriesSound, LoadsSound, MuteTypeOK, Sound, MissedBy
  <2>2. CASE ~Fresh(cache[s])
    <3>1. NoAnswerGiven /\ UNCHANGED <<second, version, cache, writer, replaced>>
          /\ reader' = [reader EXCEPT ![r] = [at |-> "load", store |-> s]]
      BY <1>1, <2>2 DEF Ask
    <3>2. reader' \in [Readers -> Reader]
      BY <3>1 DEF MuteInv, MuteTypeOK, Reader
    <3>3. \A q \in Readers : reader'[q].at = "keep" => reader'[q] = reader[q]
      BY <3>1 DEF MuteInv, MuteTypeOK
    <3> QED BY <3>1, <3>2, <3>3, SureAnswer DEF MuteInv, EntriesSound, LoadsSound, MuteTypeOK, Sound, MissedBy
  <2> QED BY <2>1, <2>2
<1>2. ASSUME NEW r \in Readers, ReadList(r) PROVE MuteInv'
  <2>1. NoAnswerGiven /\ UNCHANGED <<second, version, cache, writer, replaced>>
    BY <1>2 DEF ReadList
  <2>2. reader[r] \in [at: {"load"}, store: Stores]
    BY <1>2 DEF ReadList, MuteInv, MuteTypeOK, Reader, Free
  <2>3. CASE reader' = [reader EXCEPT ![r] = Free]
    <3>1. reader' \in [Readers -> Reader]
      BY <2>3 DEF MuteInv, MuteTypeOK, Reader
    <3>2. \A q \in Readers : reader'[q].at = "keep" => reader'[q] = reader[q]
      BY <2>3 DEF MuteInv, MuteTypeOK, Free
    <3> QED BY <2>1, <3>1, <3>2, SureAnswer DEF MuteInv, EntriesSound, LoadsSound, MuteTypeOK, Sound, MissedBy
  <2>4. CASE reader' = [reader EXCEPT ![r] = [at |-> "keep", store |-> reader[r].store,
                            version |-> version, read |-> second, raced |-> FALSE]]
    <3>1. reader' \in [Readers -> Reader]
      BY <2>2, <2>4 DEF MuteInv, MuteTypeOK, Reader
    <3>2. \A q \in Readers : q # r => reader'[q] = reader[q]
      BY <2>4 DEF MuteInv, MuteTypeOK
    <3>3. reader'[r].version = version /\ reader'[r].read = second
      BY <2>4 DEF MuteInv, MuteTypeOK
    <3>4. Sound(version, second) /\ \A s : ~MissedBy(s, version)
      BY <1>a DEF Sound, MissedBy, Versions
    <3>5. \A q \in Readers : reader'[q].at = "keep" =>
            /\ Sound(reader'[q].version, reader'[q].read)
            /\ MissedBy(reader'[q].store, reader'[q].version) => reader'[q].raced
      BY <3>2, <3>3, <3>4 DEF MuteInv, LoadsSound
    <3> QED BY <2>1, <3>1, <3>5, SureAnswer DEF MuteInv, EntriesSound, LoadsSound, MuteTypeOK, Sound, MissedBy
  <2> QED BY <1>2, <2>3, <2>4 DEF ReadList
<1>3. ASSUME NEW r \in Readers, Keep(r) PROVE MuteInv'
  <2> DEFINE e == [version |-> reader[r].version, at |-> second,
                   read |-> reader[r].read, raced |-> reader[r].raced]
  <2>1. PICK s \in Stores : s = reader[r].store
    BY <1>3 DEF Keep, MuteInv, MuteTypeOK, Reader, Free
  <2>2. e \in Entry
    BY <1>3 DEF Keep, MuteInv, MuteTypeOK, Reader, Free, Entry
  <2>3. Sound(e.version, e.read) /\ e.read <= e.at /\ e.at <= second /\ second - e.at < CacheTTL
        /\ (MissedBy(s, e.version) => e.raced)
    BY <1>3, <1>a, <2>1 DEF Keep, MuteInv, LoadsSound, Sound
  <2>4. cache' = [cache EXCEPT ![s] = e] /\ GoBy(s, e) /\ reader' = [reader EXCEPT ![r] = Free]
        /\ UNCHANGED <<second, version, writer, replaced>>
    BY <1>3, <2>1 DEF Keep
  <2> HIDE DEF e
  <2>5. StalenessBounded' /\ answer' \in [age: Int, load: Int, raced: BOOLEAN, missed: BOOLEAN]
    BY <2>2, <2>3, <2>4, SoundAnswer
  <2>6. cache' \in [Stores -> Entry \cup {NoEntry}] /\ reader' \in [Readers -> Reader]
    BY <2>2, <2>4 DEF MuteInv, MuteTypeOK, Reader
  <2>7. \A q \in Readers : reader'[q].at = "keep" => reader'[q] = reader[q]
    BY <2>4 DEF MuteInv, MuteTypeOK, Free
  <2>8. \A t \in Stores : cache'[t] = cache[t] \/ (t = s /\ cache'[t] = e)
    BY <2>4 DEF MuteInv, MuteTypeOK
  <2>9. \A t \in Stores : cache'[t] # NoEntry =>
          /\ Sound(cache'[t].version, cache'[t].read)
          /\ cache'[t].read <= cache'[t].at /\ cache'[t].at <= second
          /\ MissedBy(t, cache'[t].version) => cache'[t].raced
    BY <2>3, <2>8 DEF MuteInv, EntriesSound
  <2> QED BY <2>4, <2>5, <2>6, <2>7, <2>9 DEF MuteInv, EntriesSound, LoadsSound, MuteTypeOK, Sound, MissedBy
<1>4. ASSUME NEW w \in Writers, NEW s \in Stores, Change(w, s) PROVE MuteInv'
  <2>1. version' = version + 1 /\ version < MaxVersion /\ version \in Versions
        /\ version' \in Versions
        /\ replaced' = [replaced EXCEPT ![version] = [at |-> second, by |-> s, dropped |-> FALSE]]
        /\ writer' = [writer EXCEPT ![w] = [at |-> "drop", store |-> s, change |-> version]]
        /\ UNCHANGED <<second, cache, reader>> /\ NoAnswerGiven
    BY <1>4, <1>a DEF Change, MuteInv, MuteTypeOK, Versions
  <2>2. replaced'[version] = [at |-> second, by |-> s, dropped |-> FALSE]
        /\ \A v \in Versions : v # version => replaced'[v] = replaced[v]
    BY <2>1 DEF MuteInv, MuteTypeOK
  <2>3. MuteTypeOK'
    BY <2>1, SureAnswer DEF MuteInv, MuteTypeOK, Writer, Seconds
  <2>4. \A v \in Versions : v < version' => replaced'[v] # NotYet /\ replaced'[v].at <= second
    <3>1. [at |-> second, by |-> s, dropped |-> FALSE] # NotYet
      BY <1>a DEF NotYet
    <3> QED BY <1>a, <2>1, <2>2, <3>1 DEF MuteInv, Versions
  <2>5. ASSUME NEW v \in Versions, NEW read \in Nat, Sound(v, read) PROVE Sound(v, read)'
    BY <1>a, <2>1, <2>2, <2>5 DEF Sound, Versions
  <2>6. ASSUME NEW t, NEW v \in Versions PROVE MissedBy(t, v)' => MissedBy(t, v)
    BY <1>a, <2>1, <2>2 DEF MissedBy, Versions
  <2>7. \A t \in Stores : cache[t] # NoEntry => cache[t].version \in Versions /\ cache[t].read \in Nat
    BY DEF MuteInv, MuteTypeOK, Entry, Seconds
  <2>8. \A r \in Readers : reader[r].at = "keep" => reader[r].version \in Versions
                                                /\ reader[r].read \in Nat
    BY DEF MuteInv, MuteTypeOK, Reader, Free, Seconds
  <2>9. \A u \in Writers : writer'[u].at = "drop" =>
          writer'[u].change < version' /\ replaced'[writer'[u].change].by = writer'[u].store
    <3> TAKE u \in Writers
    <3> HAVE writer'[u].at = "drop"
    <3>1. CASE u = w
      BY <1>a, <2>1, <2>2, <3>1 DEF MuteInv, MuteTypeOK
    <3>2. CASE u # w
      <4>1. writer'[u] = writer[u]
        BY <2>1, <3>2 DEF MuteInv, MuteTypeOK
      <4>2. writer[u].change \in Versions /\ writer[u].change < version
        BY <4>1 DEF MuteInv, MuteTypeOK, Writer, Free
      <4> QED BY <1>a, <2>1, <2>2, <4>1, <4>2 DEF MuteInv, Versions
    <3> QED BY <3>1, <3>2
  <2>10. EntriesSound'
    BY <2>1, <2>5, <2>6, <2>7 DEF MuteInv, EntriesSound
  <2>11. LoadsSound'
    BY <2>1, <2>5, <2>6, <2>8 DEF MuteInv, LoadsSound
  <2> QED BY <2>1, <2>3, <2>4, <2>9, <2>10, <2>11, SureAnswer DEF MuteInv
<1>5. ASSUME NEW w \in Writers, Invalidate(w) PROVE MuteInv'
  <2>1. PICK s \in Stores, c \in Versions : writer[w] = [at |-> "drop", store |-> s, change |-> c]
    BY <1>5 DEF Invalidate, MuteInv, MuteTypeOK, Writer, Free
  <2>2. c < version /\ replaced[c].by = s /\ replaced[c] \in [at: Seconds, by: Stores, dropped: BOOLEAN]
    BY <2>1 DEF MuteInv, MuteTypeOK
  <2>3. cache' = [cache EXCEPT ![s] = NoEntry] /\ writer' = [writer EXCEPT ![w] = Free]
        /\ reader' = [r \in Readers |-> IF reader[r].at = "keep" /\ reader[r].store = s
                                    THEN [reader[r] EXCEPT !.raced = TRUE] ELSE reader[r]]
        /\ replaced' = [replaced EXCEPT ![c].dropped = TRUE]
        /\ UNCHANGED <<second, version>> /\ NoAnswerGiven
    BY <1>5, <2>1 DEF Invalidate
  <2>4. \A v \in Versions : replaced'[v].at = replaced[v].at /\ replaced'[v].by = replaced[v].by
                            /\ (v # c => replaced'[v] = replaced[v])
    BY <2>2, <2>3 DEF MuteInv, MuteTypeOK
  <2>5. replaced'[c] \in [at: Seconds, by: Stores, dropped: BOOLEAN]
        /\ replaced' \in [Versions -> {NotYet} \cup [at: Seconds, by: Stores, dropped: BOOLEAN]]
    BY <2>2, <2>3 DEF MuteInv, MuteTypeOK
  <2>6. \A r \in Readers :
          /\ reader'[r] \in Reader
          /\ reader'[r].at = reader[r].at
          /\ reader[r].at = "keep" =>
                /\ reader'[r].store = reader[r].store /\ reader'[r].version = reader[r].version
                /\ reader'[r].read = reader[r].read
                /\ reader'[r].raced = (reader[r].raced \/ reader[r].store = s)
    <3> TAKE r \in Readers
    <3>1. CASE reader[r].at = "keep"
      <4>1. reader[r] \in [at: {"keep"}, store: Stores, version: Versions, read: Seconds, raced: BOOLEAN]
        BY <3>1 DEF MuteInv, MuteTypeOK, Reader, Free
      <4> QED BY <2>3, <4>1 DEF Reader
    <3>2. CASE reader[r].at # "keep"
      BY <2>3, <3>2 DEF MuteInv, MuteTypeOK
    <3> QED BY <3>1, <3>2
  <2>7. MuteTypeOK'
    <3>1. cache' \in [Stores -> Entry \cup {NoEntry}] /\ writer' \in [Writers -> Writer]
      BY <2>3 DEF MuteInv, MuteTypeOK, Writer
    <3>2. reader' \in [Readers -> Reader]
      BY <2>3, <2>6
    <3> QED BY <2>3, <2>5, <3>1, <3>2, SureAnswer DEF MuteInv, MuteTypeOK
  <2>8. \A v \in Versions : v < version' => replaced'[v] # NotYet /\ replaced'[v].at <= second'
    <3>1. replaced'[c] # NotYet
      BY <2>5 DEF NotYet, Seconds
    <3> QED BY <2>3, <2>4, <3>1 DEF MuteInv
  <2>9. ASSUME NEW v \in Versions, NEW read, Sound(v, read) PROVE Sound(v, read)'
    BY <2>3, <2>4, <2>9 DEF Sound
  <2>10. ASSUME NEW t, NEW v \in Versions, t # s PROVE MissedBy(t, v)' => MissedBy(t, v)
    BY <2>2, <2>3, <2>4, <2>10 DEF MissedBy
  <2>11. \A t \in Stores : cache'[t] # NoEntry => t # s /\ cache'[t] = cache[t]
                                               /\ cache[t].version \in Versions
    BY <2>3 DEF MuteInv, MuteTypeOK, Entry
  <2>12. EntriesSound'
    BY <2>3, <2>9, <2>10, <2>11 DEF MuteInv, EntriesSound
  <2>13. LoadsSound'
    <3>1. \A r \in Readers : reader[r].at = "keep" => reader[r].version \in Versions
      BY DEF MuteInv, MuteTypeOK, Reader, Free
    <3> QED BY <2>6, <2>9, <2>10, <3>1 DEF MuteInv, LoadsSound
  <2>14. \A u \in Writers : writer'[u].at = "drop" =>
          writer'[u].change < version' /\ replaced'[writer'[u].change].by = writer'[u].store
    <3>1. \A u \in Writers : writer'[u].at = "drop" => writer'[u] = writer[u]
                                                    /\ writer[u].change \in Versions
      BY <2>3 DEF MuteInv, MuteTypeOK, Writer, Free
    <3> QED BY <2>3, <2>4, <3>1 DEF MuteInv
  <2> QED BY <2>7, <2>8, <2>12, <2>13, <2>14, <2>3, SureAnswer DEF MuteInv
<1>6. CASE Second
  <2>1. second' = second + 1 /\ second' \in Seconds /\ NoAnswerGiven
        /\ UNCHANGED <<version, cache, reader, writer, replaced>>
    BY <1>6, <1>a DEF Second, Seconds
  <2>2. \A v \in Versions : v < version => replaced[v].at \in Nat
    BY DEF MuteInv, MuteTypeOK, Seconds
  <2>3. \A t \in Stores : cache[t] # NoEntry => cache[t].read \in Nat /\ cache[t].at \in Nat
    BY DEF MuteInv, MuteTypeOK, Entry, Seconds
  <2>4. \A r \in Readers : reader[r].at = "keep" => reader[r].read \in Nat
    BY DEF MuteInv, MuteTypeOK, Reader, Free, Seconds
  <2> QED BY <1>a, <2>1, <2>2, <2>3, <2>4, SureAnswer DEF MuteInv, EntriesSound, LoadsSound, MuteTypeOK, Sound, MissedBy
<1>7. CASE UNCHANGED muteVars
  BY <1>7 DEF muteVars, MuteInv, EntriesSound, LoadsSound, MuteTypeOK, Sound, MissedBy, StalenessBounded
<1> QED BY <1>1, <1>2, <1>3, <1>4, <1>5, <1>6, <1>7 DEF MuteNext

\* However loads, changes and requests interleave over any number of caches, a mute
\* list gone by was current less than CacheTTL and its load's time ago, and lacks a
\* change made through the same store only if that raced the load (Store.list).
THEOREM MuteStaleness == MuteSpec => []StalenessBounded
<1>1. MuteInv => StalenessBounded
  BY DEF MuteInv
<1> QED BY <1>1, MuteInitInv, MuteStep, PTL DEF MuteSpec

----------------------------------------------------------------------------
(* Automations.                                                            *)

Covered_A(m) ==
    \/ m \in counted \cup late \cup unheard \cup sorted \cup hidden
    \/ \E w \in Runners : m \in Cleared(w)

\* Nothing created after the origin, up to x, is hidden.
Heard(x) ==
    \A m \in Arrivals :
        origin # Never /\ origin < created[m] /\ created[m] <= x => Covered_A(m)

InWindow(r, m) == created[m] # Never /\ r.since < created[m] /\ created[m] <= r.started

\* A run that has found its mentions, and not failed since.
WillReport(r) == r.at = "archive" \/ (r.at = "finish" /\ r.ok)

\* A runner is on time, and begins to look where another scheduled run has looked,
\* or before the origin.
RunnerOK(w) ==
    /\ runner[w] # OffDuty =>
          runner[w].started <= instant /\ instant - runner[w].started <= RunTime
    /\ runner[w].at = "listed" =>
          IF runner[w].last = Never THEN Heard(runner[w].started + RunTime - Lookback)
          ELSE lastRun # Never /\ runner[w].last <= runner[w].started /\ Heard(runner[w].last)
    /\ runner[w].at \in {"search", "archive", "finish", "mark"} =>
          /\ runner[w].since <= runner[w].started
          /\ Heard(runner[w].since)
          /\ origin = Never => runner[w].since = runner[w].started - Lookback
    /\ runner[w].at \in {"archive", "finish"} => runner[w].cleared \subseteq runner[w].found
    /\ runner[w].at = "archive" => runner[w].noise \subseteq runner[w].found
    /\ WillReport(runner[w]) =>
          \A m \in Arrivals : InWindow(runner[w], m) => m \in runner[w].found \/ Covered_A(m)
    /\ runner[w].at = "mark" /\ Advances(runner[w]) =>
          \A m \in Arrivals : InWindow(runner[w], m) => Covered_A(m)

MarkOK ==
    /\ origin = Never <=> lastRun = Never
    /\ lastRun <= instant
    /\ Heard(lastRun)

\* A mention lost the status "new" by hand, or to a run.
StatusOK == \A m \in Arrivals \ fresh : Covered_A(m)

AutomationInv == AutomationTypeOK /\ MarkOK /\ StatusOK /\ \A w \in Runners : RunnerOK(w)

LEMMA TimesAreInts ==
    /\ LastInstant \in Nat /\ Lookback \in Nat /\ RunTime \in Nat /\ 2 * RunTime <= Lookback
    /\ Instants \subseteq Nat /\ Instant \subseteq Int
    /\ Never = -1 /\ Never \notin Instants
BY AutomationAssumption DEF Instants, Instant, Never

LEMMA RunnerFields ==
    ASSUME AutomationTypeOK, NEW w \in Runners
    PROVE  /\ runner[w].at = "idle" => runner[w] = OffDuty
           /\ runner[w] = OffDuty => runner[w].at = "idle"
           /\ runner[w].at = "listed" =>
                 runner[w] \in [at: {"listed"}, last: Instant, started: Instants]
           /\ runner[w].at = "search" => runner[w] \in
                 [at: {"search"}, slot: Instant, since: Int, started: Instants]
           /\ runner[w].at = "archive" => runner[w] \in
                 [at: {"archive"}, slot: Instant, since: Int, started: Instants,
                  found: SUBSET Arrivals, noise: SUBSET Arrivals, cleared: SUBSET Arrivals]
           /\ runner[w].at \in {"finish", "mark"} => runner[w] \in
                 [at: {"finish", "mark"}, slot: Instant, since: Int, started: Instants,
                  ok: BOOLEAN, found: SUBSET Arrivals, cleared: SUBSET Arrivals]
           /\ runner[w].at \in {"idle", "listed", "search", "archive", "finish", "mark"}
BY DEF AutomationTypeOK, Runner, OffDuty

LEMMA AutomationInitInv == AutomationInit => AutomationInv
<1> SUFFICES ASSUME AutomationInit PROVE AutomationInv
  OBVIOUS
<1>1. AutomationTypeOK
  BY TimesAreInts, AutomationAssumption
     DEF AutomationInit, AutomationTypeOK, Instants, Instant, Runner
<1>2. MarkOK
  BY TimesAreInts DEF AutomationInit, MarkOK, Heard
<1>3. \A w \in Runners : RunnerOK(w)
  BY DEF AutomationInit, RunnerOK, WillReport, OffDuty
<1>4. StatusOK
  BY DEF AutomationInit, StatusOK
<1> QED BY <1>1, <1>2, <1>3, <1>4 DEF AutomationInv

\* A step forgets nothing, and gives a new mention a later instant.
Onward ==
    /\ \A m \in Arrivals : Covered_A(m) => Covered_A(m)'
    /\ \A m \in fresh \ fresh' : Covered_A(m)'
    /\ instant' >= instant
    /\ \A m \in Arrivals : created'[m] = created[m] \/ created'[m] > instant

\* What a step may do but take from what is covered: a run's archived mentions go over
\* into what it counts or hides.
LEMMA CoverKept ==
    ASSUME NEW w, \A v \in Runners \ {w} : runner'[v] = runner[v],
           counted \subseteq counted', late \subseteq late', unheard \subseteq unheard',
           sorted \subseteq sorted', hidden \subseteq hidden',
           w \in Runners => Cleared(w) \subseteq Cleared(w)' \cup counted' \cup unheard' \cup hidden'
    PROVE  \A m \in Arrivals : Covered_A(m) => Covered_A(m)'
<1>1. \A v \in Runners \ {w} : Cleared(v)' = Cleared(v)
  BY DEF Cleared
<1> QED BY <1>1 DEF Covered_A

\* Heard(x) after the step, for an x from before it.
HeardNext(x) ==
    \A m \in Arrivals :
        origin' # Never /\ origin' < created'[m] /\ created'[m] <= x => Covered_A(m)'

LEMMA AutomationInts ==
    ASSUME AutomationTypeOK
    PROVE  /\ instant \in Nat /\ lastRun \in Int /\ origin \in Int
           /\ \A m \in Arrivals : created[m] \in Int
           /\ \A w \in Runners : runner[w] # OffDuty => runner[w].started \in Nat
           /\ \A w \in Runners : runner[w].at = "listed" => runner[w].last \in Int
           /\ \A w \in Runners : runner[w].at \in {"search", "archive", "finish", "mark"} =>
                 runner[w].since \in Int
<1>1. instant \in Nat /\ lastRun \in Int /\ origin \in Int
  BY TimesAreInts DEF AutomationTypeOK
<1>2. \A m \in Arrivals : created[m] \in Int
  BY TimesAreInts DEF AutomationTypeOK
<1> QED BY <1>1, <1>2, TimesAreInts, RunnerFields

LEMMA AutomationIntsNext ==
    ASSUME AutomationTypeOK'
    PROVE  instant' \in Nat /\ \A m \in Arrivals : created'[m] \in Int
<1>1. instant' \in Nat
  BY TimesAreInts DEF AutomationTypeOK
<1>2. created' \in [Arrivals -> Instant]
  BY DEF AutomationTypeOK
<1> QED BY <1>1, <1>2, TimesAreInts

LEMMA HeardKept ==
    ASSUME AutomationTypeOK, AutomationTypeOK', Onward, origin' = origin
    PROVE  \A x \in Int : x <= instant /\ Heard(x) => HeardNext(x)
BY AutomationInts, AutomationIntsNext DEF Heard, HeardNext, Onward

LEMMA RunnerKept ==
    ASSUME AutomationTypeOK, AutomationTypeOK', Onward, NEW w \in Runners, RunnerOK(w),
           runner'[w] = runner[w], origin' = origin, lastRun # Never => lastRun' # Never,
           runner[w] # OffDuty => instant' - runner[w].started <= RunTime
    PROVE  RunnerOK(w)'
<1> DEFINE r == runner[w]
<1>a. instant \in Nat /\ instant' \in Nat /\ instant <= instant'
      /\ \A m \in Arrivals : created[m] \in Int /\ created'[m] \in Int
  BY AutomationInts, AutomationIntsNext DEF Onward
<1>1. r # OffDuty => r.started \in Nat /\ r.started <= instant
  BY AutomationInts DEF RunnerOK
<1>2. r # OffDuty => r.started <= instant' /\ instant' - r.started <= RunTime
  BY <1>a, <1>1
<1>3. r.at = "listed" => IF r.last = Never THEN HeardNext(r.started + RunTime - Lookback)
                         ELSE lastRun' # Never /\ r.last <= r.started /\ HeardNext(r.last)
  <2> HAVE r.at = "listed"
  <2>1. r.last \in Int /\ r.started \in Nat /\ r.started <= instant
    BY <1>1, AutomationInts, RunnerFields DEF OffDuty
  <2>2. CASE r.last = Never
    <3>1. r.started + RunTime - Lookback \in Int /\ r.started + RunTime - Lookback <= instant
      BY <2>1, <1>a, TimesAreInts
    <3> QED BY <2>2, <3>1, HeardKept DEF RunnerOK
  <2>3. CASE r.last # Never
    <3>1. lastRun # Never /\ r.last <= r.started /\ Heard(r.last)
      BY <2>3 DEF RunnerOK
    <3> QED BY <2>1, <2>3, <3>1, <1>a, HeardKept
  <2> QED BY <2>2, <2>3
<1>4. r.at \in {"search", "archive", "finish", "mark"} =>
        /\ r.since <= r.started
        /\ HeardNext(r.since)
        /\ origin' = Never => r.since = r.started - Lookback
  <2> HAVE r.at \in {"search", "archive", "finish", "mark"}
  <2>1. r.since \in Int /\ r.started \in Nat /\ r.started <= instant
    BY <1>1, AutomationInts, RunnerFields DEF OffDuty
  <2> QED BY <2>1, <1>a, HeardKept DEF RunnerOK
<1>5. \A m \in Arrivals :
        r.at \in {"archive", "finish", "mark"} /\ created'[m] # Never /\ r.since < created'[m]
          /\ created'[m] <= r.started => InWindow(r, m)
  BY <1>1, <1>a, RunnerFields, AutomationInts DEF Onward, InWindow, OffDuty
<1>6. WillReport(r) =>
        \A m \in Arrivals : created'[m] # Never /\ r.since < created'[m] /\ created'[m] <= r.started
                            => m \in r.found \/ Covered_A(m)'
  BY <1>5 DEF RunnerOK, Onward, WillReport
<1>7. r.at = "mark" /\ Advances(r) =>
        \A m \in Arrivals : created'[m] # Never /\ r.since < created'[m] /\ created'[m] <= r.started
                            => Covered_A(m)'
  BY <1>5 DEF RunnerOK, Onward
<1>8. /\ r.at \in {"archive", "finish"} => r.cleared \subseteq r.found
      /\ r.at = "archive" => r.noise \subseteq r.found
  BY DEF RunnerOK
<1> HIDE DEF r
<1>9. r = runner[w] /\ runner'[w] = r
  BY DEF r
<1> QED
  BY <1>2, <1>3, <1>4, <1>6, <1>7, <1>8, <1>9
     DEF RunnerOK, Heard, HeardNext, InWindow, Advances, WillReport

\* What a tick guarantees: all that are busy were in time before it.
LEMMA TickTime ==
    ASSUME AutomationTypeOK, Tick
    PROVE  instant' = instant + 1 /\ instant' \in Instants
           /\ \A w \in Runners : runner[w] # OffDuty => instant' - runner[w].started <= RunTime
<1>1. instant \in Nat /\ instant' = instant + 1 /\ instant < LastInstant
  BY AutomationInts DEF Tick
<1>2. \A w \in Runners : runner[w] # OffDuty =>
          runner[w].started \in Nat /\ instant - runner[w].started < RunTime
  BY AutomationInts DEF Tick
<1> QED BY <1>1, <1>2, TimesAreInts DEF Instants

\* A run starts at a tick, with the window its list gives.
LEMMA StartStep ==
    ASSUME AutomationTypeOK, NEW w \in Runners, NEW s \in Instant, runner[w].at = "listed",
           Start(w, s)
    PROVE  \E since \in Int :
             /\ runner' = [runner EXCEPT ![w] = [at |-> "search", slot |-> s, started |-> instant',
                                                since |-> since]]
             /\ since = IF runner[w].last = Never THEN instant' - Lookback ELSE runner[w].last
<1> DEFINE since == Since(runner[w].last, instant')
<1>1. instant' \in Nat /\ runner[w].last \in Int
  BY AutomationInts, TickTime, TimesAreInts DEF Start
<1>2. since = (IF runner[w].last = Never THEN instant' - Lookback ELSE runner[w].last)
  BY DEF Since
<1>3. since \in Int
  BY <1>1, <1>2, TimesAreInts
<1>4. runner' = [runner EXCEPT ![w] = [at |-> "search", slot |-> s, started |-> instant',
                                     since |-> since]]
  BY DEF Start
<1> HIDE DEF since
<1> QED BY <1>2, <1>3, <1>4

LEMMA AutomationTypeStep ==
    AutomationInv /\ [AutomationNext]_automationVars => AutomationTypeOK'
<1> SUFFICES ASSUME AutomationInv, AutomationTypeOK, [AutomationNext]_automationVars
             PROVE  AutomationTypeOK'
  BY DEF AutomationInv
<1>1. ASSUME NEW w \in Runners, List(w) PROVE AutomationTypeOK'
  BY <1>1 DEF List, AutomationTypeOK, Runner, mentionVars, historyVars
<1>2. ASSUME NEW w \in Runners, NEW s \in Instants, ClaimRun(w, s) PROVE AutomationTypeOK'
  <2>1. s \in Instant
    BY DEF Instant
  <2>2. instant' \in Instants /\ runner' \in [Runners -> Runner]
    BY <1>2, <2>1, StartStep, TickTime DEF ClaimRun, Start, AutomationTypeOK, Runner
  <2> QED BY <1>2, <2>2 DEF ClaimRun, AutomationTypeOK, mentionVars, historyVars
<1>3. ASSUME NEW w \in Runners, RunNow(w) PROVE AutomationTypeOK'
  <2>1. Manual \in Instant
    BY DEF Instant, Manual, Never
  <2>2. instant' \in Instants /\ runner' \in [Runners -> Runner]
    BY <1>3, <2>1, StartStep, TickTime DEF RunNow, Start, AutomationTypeOK, Runner
  <2> QED BY <1>3, <2>2 DEF RunNow, AutomationTypeOK, mentionVars, historyVars
<1>4. ASSUME NEW w \in Runners, PassOver(w) \/ RunnerCrash(w) PROVE AutomationTypeOK'
  <2>1. Cleared(w) \subseteq Arrivals
    BY RunnerFields DEF Cleared
  <2> QED
    BY <1>4, <2>1 DEF PassOver, RunnerCrash, AutomationTypeOK, Runner, mentionVars, historyVars
<1>5. ASSUME NEW w \in Runners, Search(w) PROVE AutomationTypeOK'
  <2>1. runner[w] \in [at: {"search"}, slot: Instant, since: Int, started: Instants]
    BY <1>5, RunnerFields DEF Search
  <2>2. Finds(runner[w].since) \subseteq Arrivals
    BY DEF Finds, AutomationTypeOK
  <2>3. /\ Reports(runner[w], FALSE, {}, {}) \in Runner
        /\ Reports(runner[w], TRUE, Finds(runner[w].since), {}) \in Runner
        /\ \A noise \in SUBSET Finds(runner[w].since) :
              [at |-> "archive", slot |-> runner[w].slot, since |-> runner[w].since,
               started |-> runner[w].started, found |-> Finds(runner[w].since),
               noise |-> noise, cleared |-> {}] \in Runner
    BY <2>1, <2>2 DEF Reports, Runner
  <2>4. \E q \in Runner : runner' = [runner EXCEPT ![w] = q]
    BY <1>5, <2>3 DEF Search
  <2>5. runner' \in [Runners -> Runner]
    BY <2>4 DEF AutomationTypeOK
  <2> QED BY <1>5, <2>5 DEF Search, AutomationTypeOK, mentionVars
<1>12. ASSUME NEW w \in Runners, Archive(w) PROVE AutomationTypeOK'
  <2>1. runner[w] \in [at: {"archive"}, slot: Instant, since: Int, started: Instants,
                       found: SUBSET Arrivals, noise: SUBSET Arrivals, cleared: SUBSET Arrivals]
    BY <1>12, RunnerFields DEF Archive
  <2>2. PICK m \in runner[w].noise :
          \/ /\ fresh' = fresh \ {m}
             /\ runner' = [runner EXCEPT ![w] =
                   IF runner[w].noise = {m}
                   THEN Reports(runner[w], TRUE, runner[w].found, runner[w].cleared \cup {m})
                   ELSE [runner[w] EXCEPT !.noise = @ \ {m}, !.cleared = @ \cup {m}]]
             /\ UNCHANGED hidden
          \/ /\ fresh' \in {fresh, fresh \ {m}}
             /\ runner' = [runner EXCEPT ![w] = Reports(runner[w], FALSE, {}, {})]
             /\ hidden' = hidden \cup runner[w].cleared \cup (fresh \ fresh')
    BY <1>12 DEF Archive
  <2>3. Reports(runner[w], TRUE, runner[w].found, runner[w].cleared \cup {m}) \in Runner
        /\ [runner[w] EXCEPT !.noise = @ \ {m}, !.cleared = @ \cup {m}] \in Runner
        /\ Reports(runner[w], FALSE, {}, {}) \in Runner
    BY <2>1 DEF Reports, Runner
  <2>4. runner' \in [Runners -> Runner]
    BY <2>2, <2>3 DEF AutomationTypeOK
  <2>5. fresh' \subseteq Arrivals /\ hidden' \subseteq Arrivals
    BY <2>1, <2>2 DEF AutomationTypeOK
  <2> QED BY <1>12, <2>4, <2>5 DEF Archive, AutomationTypeOK
<1>6. ASSUME NEW w \in Runners, FinishAutomation(w) PROVE AutomationTypeOK'
  <2>1. runner[w] \in [at: {"finish", "mark"}, slot: Instant, since: Int, started: Instants,
                       ok: BOOLEAN, found: SUBSET Arrivals, cleared: SUBSET Arrivals]
    BY <1>6, RunnerFields DEF FinishAutomation
  <2>2. runner' \in [Runners -> Runner]
    BY <1>6, <2>1 DEF FinishAutomation, AutomationTypeOK, Runner
  <2>3. occurrence' \in [Instants -> {"none", "running", "succeeded", "failed"}]
    BY <1>6 DEF FinishAutomation, AutomationTypeOK
  <2>4. counted' \subseteq Arrivals /\ unheard' \subseteq Arrivals /\ hidden' \subseteq Arrivals
    BY <1>6, <2>1 DEF FinishAutomation, AutomationTypeOK
  <2> QED BY <1>6, <2>2, <2>3, <2>4 DEF FinishAutomation, AutomationTypeOK, mentionVars
<1>7. ASSUME NEW w \in Runners, MarkLastRun(w) PROVE AutomationTypeOK'
  <2>1. runner[w] \in [at: {"finish", "mark"}, slot: Instant, since: Int, started: Instants,
                       ok: BOOLEAN, found: SUBSET Arrivals, cleared: SUBSET Arrivals] /\ runner[w].at = "mark"
    BY <1>7, RunnerFields DEF MarkLastRun
  <2>2. runner[w].since <= runner[w].started
    BY <2>1 DEF AutomationInv, RunnerOK
  <2>3. (IF runner[w].since < 0 THEN 0 ELSE runner[w].since) \in Instants
    BY <2>1, <2>2, TimesAreInts DEF Instants
  <2>4. lastRun' \in Instant /\ origin' \in Instant
    BY <1>7, <2>1, <2>3 DEF MarkLastRun, AutomationTypeOK, Instant
  <2>5. runner' \in [Runners -> Runner]
    BY <1>7 DEF MarkLastRun, AutomationTypeOK, Runner
  <2> QED BY <1>7, <2>4, <2>5 DEF MarkLastRun, AutomationTypeOK, mentionVars
<1>8. ASSUME NEW m \in Arrivals, Arrive(m) PROVE AutomationTypeOK'
  BY <1>8, TickTime DEF Arrive, AutomationTypeOK, Instant, historyVars
<1>9. ASSUME NEW m \in Arrivals, Commit(m) PROVE AutomationTypeOK'
  BY <1>9 DEF Commit, AutomationTypeOK, historyVars
<1>13. ASSUME NEW m \in Arrivals, Sort(m) PROVE AutomationTypeOK'
  BY <1>13 DEF Sort, AutomationTypeOK
<1>10. CASE Pass
  BY <1>10, TickTime DEF Pass, AutomationTypeOK, mentionVars, historyVars
<1>11. CASE UNCHANGED automationVars
  BY <1>11 DEF automationVars, AutomationTypeOK, mentionVars, historyVars
<1> QED
  BY <1>1, <1>2, <1>3, <1>4, <1>5, <1>6, <1>7, <1>8, <1>9, <1>10, <1>11,
     <1>12, <1>13
     DEF AutomationNext, RunnerStep

\* A step in which only w does something, or no runner, and no run is marked.
LEMMA OthersKept ==
    ASSUME AutomationInv, AutomationTypeOK', Onward, origin' = origin, lastRun' = lastRun,
           NEW w,
           \A v \in Runners \ {w} : runner'[v] = runner[v],
           instant' = instant \/ Tick,
           w \in Runners => RunnerOK(w)'
    PROVE  AutomationInv'
<1>1. \A v \in Runners : runner[v] # OffDuty => instant' - runner[v].started <= RunTime
  BY TickTime DEF AutomationInv, RunnerOK
<1>2. ASSUME NEW v \in Runners, v # w PROVE RunnerOK(v)'
  BY <1>1, <1>2, RunnerKept DEF AutomationInv
<1>3. MarkOK'
  <2>1. lastRun <= instant' /\ HeardNext(lastRun)
    BY AutomationInts, AutomationIntsNext, HeardKept DEF AutomationInv, MarkOK, Onward
  <2> QED BY <2>1 DEF AutomationInv, MarkOK, Heard, HeardNext
<1>4. StatusOK'
  BY DEF AutomationInv, StatusOK, Onward
<1> QED BY <1>2, <1>3, <1>4 DEF AutomationInv

LEMMA StartKeeps ==
    ASSUME AutomationInv, AutomationTypeOK', NEW w \in Runners, NEW s \in Instant,
           runner[w].at = "listed", Start(w, s),
           UNCHANGED <<lastRun, mentionVars, historyVars>>
    PROVE  AutomationInv'
<1>1. AutomationTypeOK /\ MarkOK /\ RunnerOK(w)
  BY DEF AutomationInv
<1>2. Tick /\ instant' = instant + 1 /\ instant \in Nat
  BY <1>1, TickTime, AutomationInts DEF Start
<1>3. Onward
  <2>1. \A v \in Runners \ {w} : runner'[v] = runner[v]
    BY <1>1 DEF Start, AutomationTypeOK
  <2>2. Cleared(w) = {}
    BY DEF Cleared
  <2>3. \A m \in Arrivals : Covered_A(m) => Covered_A(m)'
    BY <2>1, <2>2, CoverKept DEF historyVars
  <2> QED BY <1>2, <2>3 DEF Onward, mentionVars
<1>4. PICK since \in Int :
        /\ runner' = [runner EXCEPT ![w] = [at |-> "search", slot |-> s, started |-> instant',
                                           since |-> since]]
        /\ since = IF runner[w].last = Never THEN instant' - Lookback ELSE runner[w].last
  BY <1>1, StartStep
<1>5. runner[w] # OffDuty /\ runner[w].started \in Nat /\ runner[w].last \in Int
      /\ runner[w].started <= instant /\ instant' - runner[w].started <= RunTime
  BY <1>1, <1>2, TickTime, AutomationInts, RunnerFields DEF OffDuty, RunnerOK
<1>6. since <= instant' /\ HeardNext(since) /\ (origin' = Never => since = instant' - Lookback)
  <2>1. CASE runner[w].last = Never
    <3> DEFINE x == runner[w].started + RunTime - Lookback
    <3>1. x \in Int /\ x <= instant /\ since <= x /\ Heard(x) /\ since = instant' - Lookback
      BY <1>1, <1>2, <1>4, <1>5, <2>1, TimesAreInts DEF RunnerOK
    <3>2. HeardNext(x)
      BY <1>1, <1>3, <3>1, HeardKept DEF historyVars
    <3>3. HeardNext(since)
      BY <3>1, <3>2, AutomationIntsNext DEF HeardNext
    <3> QED BY <1>2, <3>1, <3>3, TimesAreInts
  <2>2. CASE runner[w].last # Never
    <3>1. since = runner[w].last /\ lastRun # Never /\ since <= runner[w].started /\ Heard(since)
      BY <1>1, <1>4, <2>2 DEF RunnerOK
    <3>2. since <= instant
      BY <1>2, <1>5, <3>1
    <3>3. HeardNext(since)
      BY <1>1, <1>3, <3>1, <3>2, HeardKept DEF historyVars
    <3> QED BY <1>1, <1>2, <3>1, <3>2, <3>3 DEF MarkOK, historyVars
  <2> QED BY <2>1, <2>2
<1>7. RunnerOK(w)'
  <2>1. runner'[w] = [at |-> "search", slot |-> s, started |-> instant', since |-> since]
    BY <1>1, <1>4 DEF AutomationTypeOK
  <2>2. instant' - instant' <= RunTime
    BY <1>2, TimesAreInts
  <2> QED BY <1>6, <2>1, <2>2, <1>2 DEF RunnerOK, Heard, HeardNext, WillReport
<1>8. \A v \in Runners \ {w} : runner'[v] = runner[v]
  BY <1>1, <1>4 DEF AutomationTypeOK
<1> QED BY <1>2, <1>3, <1>7, <1>8, OthersKept DEF historyVars

\* A successful scheduled run moves last_run_at to its start: what was created up to
\* there is covered by the run itself, or by the one its window began with.
LEMMA MarkMoves ==
    ASSUME AutomationInv, AutomationTypeOK', NEW w \in Runners, MarkLastRun(w),
           Advances(runner[w]), lastRun' = runner[w].started,
           origin' = IF origin = Never THEN (IF runner[w].since < 0 THEN 0 ELSE runner[w].since)
                     ELSE origin
    PROVE  AutomationInv'
<1> DEFINE r == runner[w]
<1>1. AutomationTypeOK /\ MarkOK /\ RunnerOK(w)
  BY DEF AutomationInv
<1>2. r.at = "mark" /\ r # OffDuty /\ runner' = [runner EXCEPT ![w] = OffDuty]
      /\ UNCHANGED <<instant, created, fresh, counted, late, unheard, sorted, hidden>>
  BY <1>1, RunnerFields DEF MarkLastRun, mentionVars
<1>b. \A m \in Arrivals : Covered_A(m) => Covered_A(m)'
  <2>1. \A v \in Runners \ {w} : runner'[v] = runner[v]
    BY <1>1, <1>2 DEF AutomationTypeOK
  <2>2. Cleared(w) = {}
    BY <1>2 DEF Cleared
  <2> QED BY <1>2, <2>1, <2>2, CoverKept
<1>3. r.started \in Nat /\ r.since \in Int /\ instant \in Nat /\ r.started <= instant
      /\ instant - r.started <= RunTime /\ r.since <= r.started
      /\ \A m \in Arrivals : created[m] \in Int
  BY <1>1, <1>2, AutomationInts DEF RunnerOK
<1>4. origin' # Never /\ lastRun' # Never /\ lastRun' <= instant /\ lastRun' = r.started
  BY <1>1, <1>3, TimesAreInts
<1>5. HeardNext(r.started)
  <2> SUFFICES ASSUME NEW m \in Arrivals, origin' < created[m], created[m] <= r.started
               PROVE  Covered_A(m)
    BY <1>2, <1>b DEF HeardNext
  <2>1. ASSUME r.since < created[m], created[m] # Never PROVE Covered_A(m)
    BY <1>1, <1>2, <2>1 DEF RunnerOK, InWindow
  <2>2. CASE origin = Never
    <3>1. r.since < created[m] /\ created[m] # Never
      BY <1>3, <2>2, TimesAreInts
    <3> QED BY <2>1, <3>1
  <2>3. CASE origin # Never
    <3>1. origin' = origin /\ origin \in Instants
      BY <1>1, <2>3 DEF AutomationTypeOK, Instant
    <3>2. created[m] # Never
      BY <1>3, <3>1, TimesAreInts
    <3>3. CASE created[m] <= r.since
      BY <1>1, <1>2, <2>3, <3>1, <3>3 DEF RunnerOK, Heard
    <3> QED BY <1>3, <2>1, <3>2, <3>3
  <2> QED BY <2>2, <2>3
<1>6. \A x \in Int : x <= r.started => HeardNext(x)
  BY <1>2, <1>3, <1>5 DEF HeardNext
<1>7. ASSUME origin # Never PROVE \A x : Heard(x) => HeardNext(x)
  BY <1>2, <1>b, <1>7 DEF Heard, HeardNext
<1>8. MarkOK'
  BY <1>2, <1>4, <1>5 DEF MarkOK, Heard, HeardNext
<1>11. StatusOK'
  BY <1>2, <1>b DEF AutomationInv, StatusOK
<1>9. ASSUME NEW v \in Runners, v # w PROVE RunnerOK(v)'
  <2> DEFINE q == runner[v]
  <2>1. runner'[v] = q /\ RunnerOK(v)
    BY <1>1, <1>2, <1>9 DEF AutomationInv, AutomationTypeOK
  <2>2. q # OffDuty => q.started \in Nat /\ q.started <= instant /\ instant - q.started <= RunTime
    BY <1>1, <2>1, AutomationInts DEF RunnerOK
  <2>3. q.at = "listed" => IF q.last = Never THEN HeardNext(q.started + RunTime - Lookback)
                           ELSE lastRun' # Never /\ q.last <= q.started /\ HeardNext(q.last)
    <3> HAVE q.at = "listed"
    <3>1. q.started \in Nat /\ q.started <= instant
      BY <1>1, <2>2, RunnerFields DEF OffDuty
    <3>2. CASE origin # Never
      BY <1>4, <1>7, <2>1, <3>2 DEF RunnerOK
    <3>3. CASE origin = Never
      <4>1. q.last = Never
        BY <1>1, <2>1, <3>3 DEF MarkOK, RunnerOK
      <4>2. q.started + RunTime - Lookback \in Int
            /\ q.started + RunTime - Lookback <= r.started
        BY <1>3, <3>1, TimesAreInts
      <4> QED BY <1>6, <4>1, <4>2
    <3> QED BY <3>2, <3>3
  <2>4. q.at \in {"search", "archive", "finish", "mark"} => q.since <= q.started /\ HeardNext(q.since)
    <3> HAVE q.at \in {"search", "archive", "finish", "mark"}
    <3>1. q.since <= q.started /\ Heard(q.since)
      BY <2>1 DEF RunnerOK
    <3>2. CASE origin # Never
      BY <1>7, <3>1, <3>2
    <3>3. CASE origin = Never
      <4>1. q.since = q.started - Lookback /\ q.started \in Nat /\ q.started <= instant
        BY <1>1, <2>1, <2>2, <3>3, RunnerFields DEF RunnerOK, OffDuty
      <4>2. q.since \in Int /\ q.since <= r.started
        BY <1>3, <4>1, TimesAreInts
      <4> QED BY <1>6, <3>1, <4>2
    <3> QED BY <3>2, <3>3
  <2>5. /\ WillReport(q) => \A m \in Arrivals : InWindow(q, m) => m \in q.found \/ Covered_A(m)'
        /\ q.at = "mark" /\ Advances(q) => \A m \in Arrivals : InWindow(q, m) => Covered_A(m)'
        /\ q.at \in {"archive", "finish"} => q.cleared \subseteq q.found
        /\ q.at = "archive" => q.noise \subseteq q.found
    BY <1>b, <2>1 DEF RunnerOK
  <2> HIDE DEF q
  <2>6. q = runner[v]
    BY DEF q
  <2> QED
    BY <1>2, <1>4, <2>1, <2>2, <2>3, <2>4, <2>5
       DEF RunnerOK, Heard, HeardNext, InWindow, Advances, WillReport
<1>10. RunnerOK(w)'
  <2>1. runner'[w] = OffDuty
    BY <1>1, <1>2 DEF AutomationTypeOK
  <2> QED BY <2>1 DEF RunnerOK, OffDuty, WillReport
<1> QED BY <1>8, <1>9, <1>10, <1>11 DEF AutomationInv

\* A step in which w neither archives nor gives up what it archived.
LEMMA SameOnward ==
    ASSUME AutomationTypeOK, NEW w \in Runners, Cleared(w) = {}, NEW r,
           runner' = [runner EXCEPT ![w] = r],
           UNCHANGED <<instant, created, fresh, counted, unheard, sorted, hidden>>,
           late \subseteq late'
    PROVE  Onward
<1>1. \A v \in Runners \ {w} : runner'[v] = runner[v]
  BY DEF AutomationTypeOK
<1>2. \A m \in Arrivals : Covered_A(m) => Covered_A(m)'
  BY <1>1, CoverKept
<1> QED BY <1>2, AutomationInts DEF Onward

\* A run that keeps its window stays in order.
LEMMA WindowKept ==
    ASSUME AutomationInv, AutomationTypeOK', Onward, origin' = origin, instant' = instant,
           NEW w \in Runners, runner[w].at \in {"search", "archive", "finish"}
    PROVE  /\ runner[w].started <= instant /\ instant - runner[w].started <= RunTime
           /\ runner[w].since <= runner[w].started /\ HeardNext(runner[w].since)
           /\ origin = Never => runner[w].since = runner[w].started - Lookback
<1>1. AutomationTypeOK /\ RunnerOK(w) /\ runner[w] # OffDuty
  BY DEF AutomationInv, OffDuty
<1>2. runner[w].since \in Int /\ runner[w].started \in Nat /\ instant \in Nat
  BY <1>1, AutomationInts
<1>3. runner[w].since <= instant
  BY <1>1, <1>2 DEF RunnerOK
<1> QED BY <1>1, <1>2, <1>3, HeardKept DEF RunnerOK

LEMMA SearchKeeps ==
    ASSUME AutomationInv, AutomationTypeOK', NEW w \in Runners, Search(w)
    PROVE  AutomationInv'
<1>1. AutomationTypeOK /\ StatusOK /\ runner[w].at = "search"
      /\ late' = late \cup {m \in Arrivals \ stored : created[m] # Never}
      /\ UNCHANGED <<instant, lastRun, mentionVars, counted, origin, unheard, sorted, hidden>>
  BY DEF AutomationInv, Search
<1>2. PICK q : runner' = [runner EXCEPT ![w] = q]
                /\ \/ q = Reports(runner[w], FALSE, {}, {})
                   \/ q = Reports(runner[w], TRUE, Finds(runner[w].since), {})
                   \/ \E noise \in SUBSET Finds(runner[w].since) :
                         q = [at |-> "archive", slot |-> runner[w].slot, since |-> runner[w].since,
                              started |-> runner[w].started, found |-> Finds(runner[w].since),
                              noise |-> noise, cleared |-> {}]
  BY DEF Search
<1>3. Onward
  BY <1>1, <1>2, SameOnward DEF Cleared, mentionVars
<1>4. \A m \in Arrivals : InWindow(runner[w], m) => m \in Finds(runner[w].since) \/ Covered_A(m)'
  <2> TAKE m \in Arrivals
  <2> HAVE InWindow(runner[w], m)
  <2>1. runner[w].since < created[m] /\ created[m] # Never /\ runner[w].since \in Int
        /\ created[m] \in Int
    BY <1>1, AutomationInts DEF InWindow
  <2>2. CASE m \notin stored
    BY <1>1, <2>1, <2>2 DEF Covered_A
  <2>3. CASE m \notin fresh
    BY <1>1, <1>3, <2>3 DEF StatusOK, Onward
  <2>4. CASE m \in stored \cap fresh
    BY <2>1, <2>4 DEF Finds
  <2> QED BY <2>2, <2>3, <2>4
<1>5. RunnerOK(w)'
  <2>1. runner'[w] = q
    BY <1>1, <1>2 DEF AutomationTypeOK
  <2>2. /\ q.since = runner[w].since /\ q.started = runner[w].started
        /\ q.at \in {"archive", "finish"} /\ q.cleared = {} /\ q # OffDuty
        /\ WillReport(q) => q.found = Finds(runner[w].since)
        /\ q.at = "archive" => q.noise \subseteq q.found
    BY <1>2 DEF Reports, WillReport, OffDuty
  <2> HIDE DEF WillReport
  <2>3. /\ runner[w].started <= instant /\ instant - runner[w].started <= RunTime
        /\ runner[w].since <= runner[w].started /\ HeardNext(runner[w].since)
        /\ origin = Never => runner[w].since = runner[w].started - Lookback
    BY <1>1, <1>3, WindowKept
  <2>4. WillReport(q) => \A m \in Arrivals : InWindow(runner[w], m) => m \in q.found \/ Covered_A(m)'
    BY <1>4, <2>2
  <2> QED
    BY <1>1, <2>1, <2>2, <2>3, <2>4
       DEF RunnerOK, Heard, HeardNext, InWindow, WillReport, mentionVars
<1>6. \A v \in Runners \ {w} : runner'[v] = runner[v]
  BY <1>1, <1>2 DEF AutomationTypeOK
<1> QED BY <1>1, <1>3, <1>5, <1>6, OthersKept

LEMMA ArchiveKeeps ==
    ASSUME AutomationInv, AutomationTypeOK', NEW w \in Runners, Archive(w)
    PROVE  AutomationInv'
<1> DEFINE r == runner[w]
<1>1. AutomationTypeOK /\ RunnerOK(w) /\ r.at = "archive"
      /\ UNCHANGED <<instant, lastRun, created, stored, counted, origin, late, unheard, sorted>>
  BY DEF AutomationInv, Archive
<1>2. r \in [at: {"archive"}, slot: Instant, since: Int, started: Instants,
             found: SUBSET Arrivals, noise: SUBSET Arrivals, cleared: SUBSET Arrivals]
  BY <1>1, RunnerFields
<1>3. PICK m, q :
        /\ m \in r.noise
        /\ runner' = [runner EXCEPT ![w] = q]
        /\ \/ /\ fresh' = fresh \ {m} /\ hidden' = hidden
              /\ \/ q = Reports(r, TRUE, r.found, r.cleared \cup {m})
                 \/ q = [r EXCEPT !.noise = @ \ {m}, !.cleared = @ \cup {m}]
           \/ /\ fresh' \in {fresh, fresh \ {m}}
              /\ hidden' = hidden \cup r.cleared \cup (fresh \ fresh')
              /\ q = Reports(r, FALSE, {}, {})
  BY DEF Archive
<1>4. /\ q.since = r.since /\ q.started = r.started /\ q.at \in {"archive", "finish"} /\ q # OffDuty
      /\ q.cleared = {} \/ (q.cleared = r.cleared \cup {m} /\ q.found = r.found)
      /\ WillReport(q) => q.found = r.found
      /\ q.at = "archive" => q.noise \subseteq r.noise /\ q.found = r.found
      /\ r.cleared \subseteq q.cleared \cup hidden' /\ hidden \subseteq hidden'
      /\ fresh \ fresh' \subseteq q.cleared \cup hidden'
  <2>1. CASE q = Reports(r, TRUE, r.found, r.cleared \cup {m}) /\ fresh' = fresh \ {m}
             /\ hidden' = hidden
    BY <2>1 DEF Reports, WillReport, OffDuty
  <2>2. CASE q = [r EXCEPT !.noise = @ \ {m}, !.cleared = @ \cup {m}] /\ fresh' = fresh \ {m}
             /\ hidden' = hidden
    <3>1. q.at = "archive" /\ q.since = r.since /\ q.started = r.started /\ q.found = r.found
          /\ q.noise = r.noise \ {m} /\ q.cleared = r.cleared \cup {m}
      BY <1>2, <2>2
    <3> QED BY <2>2, <3>1 DEF WillReport, OffDuty
  <2>3. CASE q = Reports(r, FALSE, {}, {})
             /\ hidden' = hidden \cup r.cleared \cup (fresh \ fresh')
    BY <2>3 DEF Reports, WillReport, OffDuty
  <2> QED BY <1>3, <2>1, <2>2, <2>3
<1>5. runner'[w] = q /\ \A v \in Runners \ {w} : runner'[v] = runner[v]
  BY <1>1, <1>3 DEF AutomationTypeOK
<1>6. Cleared(w) = r.cleared /\ Cleared(w)' = q.cleared
  BY <1>1, <1>4, <1>5 DEF Cleared
<1>8. Onward
  <2>1. \A n \in Arrivals : Covered_A(n) => Covered_A(n)'
    BY <1>1, <1>4, <1>5, <1>6, CoverKept
  <2>2. \A n \in fresh \ fresh' : Covered_A(n)'
    BY <1>4, <1>6 DEF Covered_A
  <2> QED BY <1>1, <2>1, <2>2, AutomationInts DEF Onward
<1>9. m \in r.found
  BY <1>1, <1>3 DEF RunnerOK
<1>10. RunnerOK(w)'
  <2>1. /\ r.started <= instant /\ instant - r.started <= RunTime
        /\ r.since <= r.started /\ HeardNext(r.since)
        /\ origin = Never => r.since = r.started - Lookback
    BY <1>1, <1>8, WindowKept
  <2>2. WillReport(q) => \A n \in Arrivals : InWindow(r, n) => n \in q.found \/ Covered_A(n)'
    BY <1>1, <1>4, <1>8 DEF RunnerOK, WillReport, Onward
  <2>3. q.cleared \subseteq q.found /\ (q.at = "archive" => q.noise \subseteq q.found)
    BY <1>1, <1>4, <1>9 DEF RunnerOK
  <2> HIDE DEF r
  <2> QED
    BY <1>1, <1>4, <1>5, <2>1, <2>2, <2>3
       DEF RunnerOK, Heard, HeardNext, InWindow, WillReport
<1> QED BY <1>1, <1>5, <1>8, <1>10, OthersKept

LEMMA FinishKeeps ==
    ASSUME AutomationInv, AutomationTypeOK', NEW w \in Runners, FinishAutomation(w)
    PROVE  AutomationInv'
<1>1. AutomationTypeOK /\ RunnerOK(w) /\ runner[w].at = "finish"
      /\ runner' = [runner EXCEPT ![w].at = "mark"]
      /\ UNCHANGED <<instant, lastRun, mentionVars, origin, late, sorted>>
      /\ counted \subseteq counted' /\ unheard \subseteq unheard' /\ hidden \subseteq hidden'
      /\ (runner[w].slot # Manual => runner[w].found \subseteq counted' \cup unheard')
      /\ (runner[w].slot = Manual => runner[w].cleared \subseteq hidden')
  BY DEF AutomationInv, FinishAutomation
<1>2. runner[w].cleared \subseteq runner[w].found
  BY <1>1 DEF RunnerOK
<1>3. \A v \in Runners \ {w} : runner'[v] = runner[v]
  BY <1>1 DEF AutomationTypeOK
<1>4. Onward
  <2>1. Cleared(w) \subseteq counted' \cup unheard' \cup hidden'
    BY <1>1, <1>2 DEF Cleared
  <2>2. \A m \in Arrivals : Covered_A(m) => Covered_A(m)'
    BY <1>1, <1>3, <2>1, CoverKept
  <2> QED BY <1>1, <2>2, AutomationInts DEF Onward, mentionVars
<1>5. RunnerOK(w)'
  <2>1. runner'[w].at = "mark" /\ runner'[w].slot = runner[w].slot
        /\ runner'[w].since = runner[w].since /\ runner'[w].started = runner[w].started
        /\ runner'[w].ok = runner[w].ok
    BY <1>1, RunnerFields DEF AutomationTypeOK
  <2>2. /\ runner[w].started <= instant /\ instant - runner[w].started <= RunTime
        /\ runner[w].since <= runner[w].started /\ HeardNext(runner[w].since)
        /\ origin = Never => runner[w].since = runner[w].started - Lookback
    BY <1>1, <1>4, WindowKept
  <2>3. Advances(runner[w]) => \A m \in Arrivals : InWindow(runner[w], m) => Covered_A(m)'
    BY <1>1, <1>4 DEF RunnerOK, Advances, WillReport, Onward, Covered_A
  <2> QED
    BY <1>1, <2>1, <2>2, <2>3
       DEF RunnerOK, Heard, HeardNext, InWindow, Advances, WillReport, mentionVars
<1> QED BY <1>1, <1>3, <1>4, <1>5, OthersKept

LEMMA AutomationStep == AutomationInv /\ [AutomationNext]_automationVars => AutomationInv'
<1> SUFFICES ASSUME AutomationInv, AutomationTypeOK, AutomationTypeOK',
                    [AutomationNext]_automationVars
             PROVE  AutomationInv'
  BY AutomationTypeStep DEF AutomationInv
<1>a. instant \in Nat /\ \A v \in Runners : runner[v] # OffDuty => runner[v].started \in Nat
  BY AutomationInts
<1>1. ASSUME NEW w \in Runners, List(w) PROVE AutomationInv'
  <2>1. runner' = [runner EXCEPT ![w] = [at |-> "listed", last |-> lastRun, started |-> instant]]
        /\ UNCHANGED <<instant, lastRun, mentionVars, historyVars>> /\ Cleared(w) = {}
    BY <1>1 DEF List, Cleared, OffDuty
  <2>2. Onward
    BY <1>a, <2>1, SameOnward DEF historyVars, mentionVars
  <2>3. RunnerOK(w)'
    <3>1. runner'[w] = [at |-> "listed", last |-> lastRun, started |-> instant]
      BY <2>1 DEF AutomationTypeOK
    <3>2. instant <= instant /\ instant - instant <= RunTime
      BY <1>a, TimesAreInts
    <3>3. MarkOK
      BY DEF AutomationInv
    <3>4. IF lastRun = Never THEN origin = Never ELSE lastRun <= instant /\ Heard(lastRun)
      BY <3>3 DEF MarkOK
    <3> QED BY <2>1, <2>2, <3>1, <3>2, <3>4 DEF RunnerOK, WillReport, Heard, Onward, mentionVars, historyVars
  <2>4. \A v \in Runners \ {w} : runner'[v] = runner[v]
    BY <2>1 DEF AutomationTypeOK
  <2> QED BY <2>1, <2>2, <2>3, <2>4, OthersKept DEF historyVars
<1>2. ASSUME NEW w \in Runners, NEW s \in Instants, ClaimRun(w, s) PROVE AutomationInv'
  BY <1>2, StartKeeps DEF ClaimRun, Instant
<1>3. ASSUME NEW w \in Runners, RunNow(w) PROVE AutomationInv'
  BY <1>3, StartKeeps DEF RunNow, Instant, Manual, Never
<1>4. ASSUME NEW w \in Runners, runner' = [runner EXCEPT ![w] = OffDuty],
             UNCHANGED <<instant, lastRun, mentionVars, counted, origin, late, unheard, sorted>>,
             hidden' = hidden \cup Cleared(w)
      PROVE  AutomationInv'
  <2>1. \A v \in Runners \ {w} : runner'[v] = runner[v]
    BY <1>4 DEF AutomationTypeOK
  <2>2. \A m \in Arrivals : Covered_A(m) => Covered_A(m)'
    BY <1>4, <2>1, CoverKept
  <2>3. Onward
    BY <1>a, <1>4, <2>2 DEF Onward, mentionVars
  <2>4. RunnerOK(w)'
    BY <1>4 DEF AutomationTypeOK, RunnerOK, WillReport, OffDuty
  <2> QED BY <1>4, <2>1, <2>3, <2>4, OthersKept
<1>5. ASSUME NEW w \in Runners, Search(w) PROVE AutomationInv'
  BY <1>5, SearchKeeps
<1>12. ASSUME NEW w \in Runners, Archive(w) PROVE AutomationInv'
  BY <1>12, ArchiveKeeps
<1>6. ASSUME NEW w \in Runners, FinishAutomation(w) PROVE AutomationInv'
  BY <1>6, FinishKeeps
<1>7. ASSUME NEW w \in Runners, MarkLastRun(w) PROVE AutomationInv'
  <2>1. Cleared(w) = {}
    BY <1>7 DEF MarkLastRun, Cleared
  <2> QED BY <1>4, <1>7, <2>1, MarkMoves DEF MarkLastRun, mentionVars
<1>8. ASSUME instant' = instant \/ Tick,
             UNCHANGED <<lastRun, runner, counted, origin, late, unheard, hidden>>,
             sorted \subseteq sorted', fresh \ fresh' \subseteq sorted',
             \A m \in Arrivals : created'[m] = created[m] \/ created'[m] > instant
      PROVE  AutomationInv'
  <2>1. PICK w : w \notin Runners
    BY NoSetContainsEverything
  <2>2. \A m \in Arrivals : Covered_A(m) => Covered_A(m)'
    BY <1>8, <2>1, CoverKept
  <2>3. Onward
    BY <1>a, <1>8, <2>2 DEF Onward, Tick, Covered_A
  <2> QED BY <1>8, <2>1, <2>3, OthersKept
<1>9. ASSUME NEW m \in Arrivals, Arrive(m) PROVE AutomationInv'
  <2>1. instant' > instant
    BY <1>a, <1>9 DEF Arrive, Tick
  <2>2. \A n \in Arrivals : created'[n] = created[n] \/ created'[n] > instant
    BY <1>9, <2>1 DEF Arrive, AutomationTypeOK
  <2> QED BY <1>8, <1>9, <2>2 DEF Arrive, historyVars
<1>10. CASE Pass \/ (\E m \in Arrivals : Commit(m) \/ Sort(m)) \/ UNCHANGED automationVars
  <2>1. ASSUME NEW m \in Arrivals, Sort(m) PROVE AutomationInv'
    BY <1>8, <2>1 DEF Sort
  <2> QED BY <1>8, <1>10, <2>1 DEF Pass, Commit, automationVars, mentionVars, historyVars
<1>13. ASSUME NEW w \in Runners, PassOver(w) PROVE AutomationInv'
  <2>1. Cleared(w) = {}
    BY <1>13 DEF PassOver, Cleared
  <2> QED BY <1>4, <1>13, <2>1 DEF PassOver, historyVars
<1> QED
  BY <1>1, <1>2, <1>3, <1>4, <1>5, <1>6, <1>7, <1>9, <1>10, <1>12, <1>13
     DEF AutomationNext, RunnerStep, RunnerCrash

\* For any number of runs, scheduled and manual, that fail, stop or overlap: a mention
\* created between the first successful window's begin and last_run_at was counted, but
\* for inserts still open at a search, results that could not be given, and mentions
\* that were not "new" any more, by hand or for a run that archived them and is under
\* way, manual or failed (runPlaybook's window, dailyTriage; only MarkLastRun advances
\* it).
THEOREM AutomationHidesNothing == AutomationSpec => []NoMentionHidden
<1>1. AutomationInv => NoMentionHidden
  BY DEF AutomationInv, MarkOK, Heard, Covered_A, NoMentionHidden
<1> QED BY <1>1, AutomationInitInv, AutomationStep, PTL DEF AutomationSpec

----------------------------------------------------------------------------
(* Digests, for any number of senders, slots and claims.  SentOncePerPeriod*)
(* and GapKept rest on one count.  Of the senders that hold a slot (they   *)
(* deliver it, or will record that nothing went out), the copies that went *)
(* out and the slot's being open to one more claim or recorded as not sent,*)
(* there is one at first; and one more each time the slot was left pending *)
(* for 15 minutes, or went out with the answer lost.                       *)

\* w's slot, once claimed, has not gone out by w.
Holds_D(w, s) ==
    \/ sender[w].at = "deliver" /\ sender[w].slot = s
    \/ sender[w].at = "finish" /\ sender[w].slot = s /\ sender[w].outcome # "sent"

Holders(s) == {w \in Senders : Holds_D(w, s)}

\* The slot is settled, or a sender was seen at work within 15 minutes.
Shut(s) == run[s].status = "sent" \/ (run[s].status = "pending" /\ s \notin rested)
Open(s) == IF Shut(s) THEN 0 ELSE 1

\* What excuses further copies of the slot's digest.
Extra(s) == overdue[s] + unanswered[s]

Counted == \A s \in Slots : Cardinality(Holders(s)) + copies[s] + Open(s) <= 1 + Extra(s)

\* A sender that records a send has made it.
SendsAreCopies ==
    \A w \in Senders :
        sender[w].at = "finish" /\ sender[w].outcome = "sent" => copies[sender[w].slot] > 0

\* No claim is under way near a slot that is taken, unless they passed each other.
ClaimsSeeTaken ==
    \A w \in Senders : \A s, t \in Slots :
        Claims(w, s) /\ Near(s, t) /\ Taken(t) => s \in rivals \/ Extra(t) > 0

\* Nor are two near slots taken.
TakenApart ==
    \A s, t \in Slots :
        Near(s, t) /\ Taken(s) /\ Taken(t)
            => {s, t} \cap rivals # {} \/ Extra(s) > 0 \/ Extra(t) > 0

\* The bound on claims of a slot counts from its first.
Untried == \A s \in Slots : run[s].status = "none" => run[s].attempts = 0

DigestInv == DigestTypeOK /\ Untried /\ Counted /\ SendsAreCopies /\ ClaimsSeeTaken /\ TakenApart

----------------------------------------------------------------------------
(* Types.                                                                  *)

LEMMA SlotsAreHours == Slots \subseteq Nat
BY DigestAssumption DEF Slots

LEMMA DigestInitType == DigestInit => DigestTypeOK /\ Untried
BY DigestAssumption, SMT DEF DigestInit, DigestTypeOK, Untried, Slots, Statuses, Sender, NoDigest

LEMMA ExtraType == DigestTypeOK => \A s \in Slots : Extra(s) \in Nat
BY SMT DEF DigestTypeOK, Extra

LEMMA UntouchedType ==
    ASSUME DigestTypeOK, NEW T \in SUBSET Slots, Untouched(T)
    PROVE  run' = run /\ sender' = sender /\ copies' = copies /\ rivals' = rivals
           /\ rested' \subseteq Slots /\ unanswered' = unanswered /\ overdue' \in [Slots -> Nat]
           /\ \A s \in Slots : overdue'[s] >= overdue[s]
BY SMT DEF DigestTypeOK, Untouched

\* What a claim that succeeds does, with its slot named.
LEMMA ClaimStep ==
    ASSUME DigestTypeOK, NEW w \in Senders, Claim(w)
    PROVE  \/ UNCHANGED <<run, rested, rivals>> /\ sender' = [sender EXCEPT ![w] = NoDigest]
           \/ \E s \in Slots :
                 /\ Claims(w, s)
                 /\ run[s].status = "none" \/ Retakable(s)
                 /\ run' = [run EXCEPT ![s] =
                        [status |-> "pending", attempts |-> run[s].attempts + 1]]
                 /\ rested' = rested \ {s}
                 /\ sender' = [sender EXCEPT ![w] = [at |-> "deliver", slot |-> s]]
                 /\ rivals' = rivals \cup
                       {t \in Slots : Near(s, t) /\ \E v \in Senders : Claims(v, t)}
<1>1. sender[w] \in [at: {"claim", "deliver"}, slot: Slots]
  BY DEF Claim, DigestTypeOK, Sender, NoDigest
<1>2. PICK s \in Slots : s = sender[w].slot
  BY <1>1
<1>3. [sender EXCEPT ![w].at = "deliver"] = [sender EXCEPT ![w] = [at |-> "deliver", slot |-> s]]
  <2>1. [sender[w] EXCEPT !.at = "deliver"] = [at |-> "deliver", slot |-> s]
    BY <1>1, <1>2
  <2> QED BY <2>1
<1> QED
  BY <1>1, <1>2, <1>3 DEF Claim, Claims

LEMMA DeliverStep ==
    ASSUME DigestTypeOK, NEW w \in Senders, Deliver(w)
    PROVE  \E s \in Slots : \E outcome \in Outcomes : \E wentOut \in BOOLEAN :
              /\ sender[w] = [at |-> "deliver", slot |-> s]
              /\ sender' = [sender EXCEPT ![w] = [at |-> "finish", slot |-> s, outcome |-> outcome]]
              /\ outcome = "sent" => wentOut
              /\ copies' = IF wentOut THEN [copies EXCEPT ![s] = @ + 1] ELSE copies
              /\ unanswered' = IF wentOut /\ outcome # "sent"
                               THEN [unanswered EXCEPT ![s] = @ + 1] ELSE unanswered
<1>1. sender[w] \in [at: {"claim", "deliver"}, slot: Slots]
  BY DEF Deliver, DigestTypeOK, Sender, NoDigest
<1>2. PICK s \in Slots : s = sender[w].slot
  BY <1>1
<1>3. sender[w] = [at |-> "deliver", slot |-> s]
  BY <1>1, <1>2 DEF Deliver
<1> QED
  BY <1>2, <1>3 DEF Deliver, Outcomes

LEMMA FinishStep ==
    ASSUME DigestTypeOK, NEW w \in Senders, FinishRun(w)
    PROVE  \E s \in Slots : \E outcome \in Outcomes :
              /\ sender[w] = [at |-> "finish", slot |-> s, outcome |-> outcome]
              /\ sender' = [sender EXCEPT ![w] = NoDigest]
              /\ \/ /\ run' = [run EXCEPT ![s] = [status |-> outcome, attempts |-> run[s].attempts]]
                    /\ rested' = rested \ {s}
                 \/ UNCHANGED <<run, rested>>
<1>1. sender[w] \in [at: {"finish"}, slot: Slots, outcome: Outcomes]
  BY DEF FinishRun, DigestTypeOK, Sender, NoDigest
<1>2. PICK s \in Slots, outcome \in Outcomes : s = sender[w].slot /\ outcome = sender[w].outcome
  BY <1>1
<1>3. [run EXCEPT ![s].status = outcome] =
         [run EXCEPT ![s] = [status |-> outcome, attempts |-> run[s].attempts]]
  <2>1. [run[s] EXCEPT !.status = outcome] = [status |-> outcome, attempts |-> run[s].attempts]
    BY <1>2 DEF DigestTypeOK
  <2> QED BY <2>1
<1> QED
  BY <1>1, <1>2, <1>3 DEF FinishRun

LEMMA DigestTypeStep ==
    ASSUME DigestTypeOK, Untried, [DigestNext]_digestVars PROVE DigestTypeOK' /\ Untried'
<1> USE DigestAssumption, SlotsAreHours DEF DigestTypeOK, Untried
<1>1. ASSUME NEW w \in Senders, NEW s \in Slots, FallDue(w, s) PROVE DigestTypeOK' /\ Untried'
  BY <1>1 DEF FallDue, Sender
<1>2. ASSUME NEW w \in Senders, Claim(w) PROVE DigestTypeOK' /\ Untried'
  <2>1. hour' = hour /\ copies' = copies /\ unanswered' = unanswered /\ overdue' = overdue
    BY <1>2 DEF Claim
  <2>2. CASE UNCHANGED <<run, rested, rivals>> /\ sender' = [sender EXCEPT ![w] = NoDigest]
    BY <2>1, <2>2 DEF Sender
  <2>3. ASSUME NEW s \in Slots,
               run[s].status = "none" \/ Retakable(s),
               run' = [run EXCEPT ![s] = [status |-> "pending", attempts |-> run[s].attempts + 1]],
               rested' = rested \ {s},
               sender' = [sender EXCEPT ![w] = [at |-> "deliver", slot |-> s]],
               rivals' = rivals \cup
                   {t \in Slots : Near(s, t) /\ \E v \in Senders : Claims(v, t)}
        PROVE  DigestTypeOK' /\ Untried'
    <3>1. run[s].attempts + 1 \in 0..MaxClaims
      BY <2>3, SMT DEF Retakable
    <3>2. run' \in [Slots -> [status: Statuses, attempts: 0..MaxClaims]] /\ Untried'
      BY <2>3, <3>1 DEF Statuses
    <3>3. sender' \in [Senders -> Sender]
      BY <2>3 DEF Sender
    <3> QED BY <2>1, <2>3, <3>2, <3>3
  <2> QED BY <1>2, <2>2, <2>3, ClaimStep
<1>3. ASSUME NEW w \in Senders, Deliver(w) PROVE DigestTypeOK' /\ Untried'
  <2>1. PICK s \in Slots, outcome \in Outcomes, wentOut \in BOOLEAN :
          /\ sender' = [sender EXCEPT ![w] = [at |-> "finish", slot |-> s, outcome |-> outcome]]
          /\ copies' = IF wentOut THEN [copies EXCEPT ![s] = @ + 1] ELSE copies
          /\ unanswered' = IF wentOut /\ outcome # "sent"
                           THEN [unanswered EXCEPT ![s] = @ + 1] ELSE unanswered
    BY <1>3, DeliverStep
  <2>2. sender' \in [Senders -> Sender]
    BY <2>1 DEF Sender
  <2>3. copies' \in [Slots -> Nat] /\ unanswered' \in [Slots -> Nat]
    BY <2>1
  <2> QED BY <1>3, <2>2, <2>3 DEF Deliver
<1>4. ASSUME NEW w \in Senders, FinishRun(w) PROVE DigestTypeOK' /\ Untried'
  <2>1. PICK s \in Slots, outcome \in Outcomes :
          /\ sender' = [sender EXCEPT ![w] = NoDigest]
          /\ \/ /\ run' = [run EXCEPT ![s] = [status |-> outcome, attempts |-> run[s].attempts]]
                /\ rested' = rested \ {s}
             \/ UNCHANGED <<run, rested>>
    BY <1>4, FinishStep
  <2>2. run' \in [Slots -> [status: Statuses, attempts: 0..MaxClaims]] /\ Untried'
    BY <2>1 DEF Statuses, Outcomes
  <2>3. sender' \in [Senders -> Sender] /\ rested' \subseteq Slots
    BY <2>1 DEF Sender
  <2> QED BY <1>4, <2>2, <2>3 DEF FinishRun
<1>5. ASSUME NEW w \in Senders, SenderCrash(w) PROVE DigestTypeOK' /\ Untried'
  BY <1>5 DEF SenderCrash, Sender
<1>6. CASE Rest
  <2>1. PICK s \in Waiting : Untouched({s}) /\ hour' = hour
    BY <1>6 DEF Rest
  <2>2. {s} \in SUBSET Slots
    BY DEF Waiting
  <2> QED BY <2>1, <2>2, UntouchedType
<1>7. CASE Hour
  <2>1. Waiting \in SUBSET Slots
    BY DEF Waiting
  <2>2. hour' \in Slots
    BY <1>7, SMT DEF Hour, Slots
  <2>3. Untouched(Waiting)
    BY <1>7 DEF Hour
  <2> QED BY <2>1, <2>2, <2>3, UntouchedType
<1>8. CASE UNCHANGED digestVars
  BY <1>8 DEF digestVars
<1> QED
  BY <1>1, <1>2, <1>3, <1>4, <1>5, <1>6, <1>7, <1>8 DEF DigestNext, SenderStep

\* Every digest run, slot and sender stays within its type, and a slot is never
\* claimed more than MaxClaims times (claimDigestRun's attempts bound), for any
\* schedule and any number of processes.
THEOREM DigestTypes == DigestSpec => []DigestTypeOK
<1>1. DigestInit => DigestTypeOK /\ Untried
  BY DigestInitType
<1>2. DigestTypeOK /\ Untried /\ [DigestNext]_digestVars => (DigestTypeOK /\ Untried)'
  BY DigestTypeStep
<1> QED BY <1>1, <1>2, PTL DEF DigestSpec

----------------------------------------------------------------------------
(* The count.                                                              *)

LEMMA HoldersFinite == \A s : IsFiniteSet(Holders(s)) /\ Cardinality(Holders(s)) \in Nat
BY DigestAssumption, FS_Subset, FS_CardinalityType DEF Holders

\* A sender that comes to hold s, or ceases to, changes the count of one.
LEMMA HoldersGain ==
    ASSUME NEW s, NEW w \in Senders, Holders(s)' \subseteq Holders(s) \cup {w}
    PROVE  Cardinality(Holders(s)') <= Cardinality(Holders(s)) + 1
           /\ Cardinality(Holders(s)') \in Nat
<1>1. IsFiniteSet(Holders(s)) /\ Cardinality(Holders(s)) \in Nat
  BY HoldersFinite
<1>2. IsFiniteSet(Holders(s) \cup {w})
      /\ Cardinality(Holders(s) \cup {w}) <= Cardinality(Holders(s)) + 1
  <2> DEFINE H == Holders(s)
  <2>1. IsFiniteSet(H \cup {w})
        /\ Cardinality(H \cup {w}) = IF w \in H THEN Cardinality(H) ELSE Cardinality(H) + 1
    <3> HIDE DEF H
    <3> QED BY <1>1, FS_AddElement DEF H
  <2> QED BY <1>1, <2>1
<1> QED
  BY <1>1, <1>2, FS_Subset, FS_CardinalityType

LEMMA HoldersLose ==
    ASSUME NEW s, NEW w \in Senders, w \in Holders(s), Holders(s)' \subseteq Holders(s) \ {w}
    PROVE  Cardinality(Holders(s)') + 1 <= Cardinality(Holders(s))
           /\ Cardinality(Holders(s)') \in Nat
<1>1. IsFiniteSet(Holders(s)) /\ Cardinality(Holders(s)) \in Nat
  BY HoldersFinite
<1>2. IsFiniteSet(Holders(s) \ {w})
      /\ Cardinality(Holders(s) \ {w}) = Cardinality(Holders(s)) - 1
  BY <1>1, FS_RemoveElement
<1> QED
  BY <1>1, <1>2, FS_Subset, FS_CardinalityType

LEMMA HoldersKeep ==
    ASSUME NEW s, Holders(s)' \subseteq Holders(s)
    PROVE  Cardinality(Holders(s)') <= Cardinality(Holders(s))
           /\ Cardinality(Holders(s)') \in Nat
BY HoldersFinite, FS_Subset, FS_CardinalityType

LEMMA CountedInit == DigestInit => Counted
<1> SUFFICES ASSUME DigestInit, NEW s \in Slots
             PROVE  Cardinality(Holders(s)) + copies[s] + Open(s) <= 1 + Extra(s)
  BY DEF Counted
<1>1. Holders(s) = {}
  BY DEF DigestInit, Holders, Holds_D, NoDigest
<1>2. Cardinality(Holders(s)) = 0
  BY <1>1, FS_EmptySet
<1> QED
  BY <1>2 DEF DigestInit, Open, Extra

\* What is left to show when a step leaves the slot's row, copies and lateness.
LEMMA CountedKept ==
    ASSUME DigestTypeOK, DigestTypeOK', Counted, NEW s \in Slots,
           Holders(s)' \subseteq Holders(s),
           copies'[s] = copies[s], Extra(s)' >= Extra(s), Open(s)' <= Open(s)
    PROVE  Cardinality(Holders(s)') + copies'[s] + Open(s)' <= 1 + Extra(s)'
<1>1. Cardinality(Holders(s)') <= Cardinality(Holders(s)) /\ Cardinality(Holders(s)') \in Nat
  BY HoldersKeep
<1>2. Cardinality(Holders(s)) \in Nat
  BY HoldersFinite
<1>3. Cardinality(Holders(s)) + copies[s] + Open(s) <= 1 + Extra(s)
  BY DEF Counted
<1>4. copies[s] \in Nat /\ copies'[s] \in Nat /\ Extra(s) \in Nat /\ Extra(s)' \in Nat
      /\ Open(s) \in {0, 1} /\ Open(s)' \in {0, 1}
  BY DEF DigestTypeOK, Open, Extra
<1> QED
  BY <1>1, <1>2, <1>3, <1>4

LEMMA CountedStep ==
    ASSUME DigestTypeOK, DigestTypeOK', Counted, [DigestNext]_digestVars PROVE Counted'
<1> SUFFICES ASSUME NEW s \in Slots
             PROVE  Cardinality(Holders(s)') + copies'[s] + Open(s)' <= 1 + Extra(s)'
  BY DEF Counted
<1>a. Cardinality(Holders(s)) + copies[s] + Open(s) <= 1 + Extra(s)
      /\ Cardinality(Holders(s)) \in Nat /\ copies[s] \in Nat /\ copies'[s] \in Nat
      /\ Extra(s) \in Nat /\ Open(s) \in {0, 1} /\ Open(s)' \in {0, 1}
  BY HoldersFinite, ExtraType DEF Counted, DigestTypeOK, Open
<1>1. ASSUME NEW w \in Senders, NEW t \in Slots, FallDue(w, t)
      PROVE  Cardinality(Holders(s)') + copies'[s] + Open(s)' <= 1 + Extra(s)'
  <2>1. Holders(s)' \subseteq Holders(s)
    BY <1>1 DEF FallDue, Holders, Holds_D, DigestTypeOK
  <2>2. copies'[s] = copies[s] /\ Extra(s)' >= Extra(s) /\ Open(s)' <= Open(s)
    BY <1>1, <1>a DEF FallDue, Open, Shut, Extra
  <2> QED BY <2>1, <2>2, CountedKept
<1>2. ASSUME NEW w \in Senders, Claim(w)
      PROVE  Cardinality(Holders(s)') + copies'[s] + Open(s)' <= 1 + Extra(s)'
  <2>1. copies' = copies /\ Extra(s)' = Extra(s)
    BY <1>2 DEF Claim, Extra
  <2>2. CASE UNCHANGED <<run, rested, rivals>> /\ sender' = [sender EXCEPT ![w] = NoDigest]
    <3>1. Holders(s)' \subseteq Holders(s)
      BY <2>2 DEF Holders, Holds_D, DigestTypeOK, NoDigest
    <3>2. Open(s)' <= Open(s)
      BY <2>2, <1>a DEF Open, Shut
    <3> QED BY <2>1, <3>1, <3>2, <1>a, CountedKept
  <2>3. ASSUME NEW t \in Slots, Claims(w, t),
               run[t].status = "none" \/ Retakable(t),
               run' = [run EXCEPT ![t] = [status |-> "pending", attempts |-> run[t].attempts + 1]],
               rested' = rested \ {t},
               sender' = [sender EXCEPT ![w] = [at |-> "deliver", slot |-> t]]
        PROVE  Cardinality(Holders(s)') + copies'[s] + Open(s)' <= 1 + Extra(s)'
    <3>1. CASE s = t
      <4>1. Holders(s)' \subseteq Holders(s) \cup {w}
        BY <2>3, <3>1 DEF Holders, Holds_D, DigestTypeOK
      <4>2. Open(s) = 1
        BY <2>3, <3>1 DEF Open, Shut, Retakable
      <4>3. Open(s)' = 0
        BY <2>3, <3>1 DEF Open, Shut, DigestTypeOK
      <4>4. Cardinality(Holders(s)') <= Cardinality(Holders(s)) + 1
            /\ Cardinality(Holders(s)') \in Nat
        BY <4>1, HoldersGain
      <4> QED BY <4>2, <4>3, <4>4, <1>a, <2>1
    <3>2. CASE s # t
      <4>1. Holders(s)' \subseteq Holders(s)
        BY <2>3, <3>2 DEF Holders, Holds_D, DigestTypeOK
      <4>2. Open(s)' <= Open(s)
        BY <2>3, <3>2, <1>a DEF Open, Shut, DigestTypeOK
      <4> QED BY <2>1, <4>1, <4>2, <1>a, CountedKept
    <3> QED BY <3>1, <3>2
  <2> QED BY <1>2, <2>2, <2>3, ClaimStep
<1>3. ASSUME NEW w \in Senders, Deliver(w)
      PROVE  Cardinality(Holders(s)') + copies'[s] + Open(s)' <= 1 + Extra(s)'
  <2>1. PICK t \in Slots, outcome \in Outcomes, wentOut \in BOOLEAN :
          /\ sender[w] = [at |-> "deliver", slot |-> t]
          /\ sender' = [sender EXCEPT ![w] = [at |-> "finish", slot |-> t, outcome |-> outcome]]
          /\ outcome = "sent" => wentOut
          /\ copies' = IF wentOut THEN [copies EXCEPT ![t] = @ + 1] ELSE copies
          /\ unanswered' = IF wentOut /\ outcome # "sent"
                           THEN [unanswered EXCEPT ![t] = @ + 1] ELSE unanswered
    BY <1>3, DeliverStep
  <2>2. overdue' = overdue /\ Open(s)' = Open(s)
    BY <1>3 DEF Deliver, Open, Shut
  <2>3. CASE s = t /\ outcome = "sent"
    <3>1. w \in Holders(s)
      BY <2>1, <2>3 DEF Holders, Holds_D
    <3>2. Holders(s)' \subseteq Holders(s) \ {w}
      BY <2>1, <2>3 DEF Holders, Holds_D, DigestTypeOK
    <3>3. Cardinality(Holders(s)') + 1 <= Cardinality(Holders(s))
          /\ Cardinality(Holders(s)') \in Nat
      BY <3>1, <3>2, HoldersLose
    <3>4. copies'[s] = copies[s] + 1 /\ Extra(s)' = Extra(s)
      BY <2>1, <2>2, <2>3 DEF DigestTypeOK, Extra
    <3> QED BY <3>3, <3>4, <2>2, <1>a
  <2>4. CASE ~(s = t /\ outcome = "sent")
    <3>1. Holders(s)' \subseteq Holders(s)
      BY <2>1, <2>4 DEF Holders, Holds_D, DigestTypeOK
    <3>2. CASE s = t /\ wentOut
      <4>1. copies'[s] = copies[s] + 1 /\ Extra(s)' = Extra(s) + 1
        BY <2>1, <2>2, <2>4, <3>2 DEF DigestTypeOK, Extra
      <4>2. Cardinality(Holders(s)') <= Cardinality(Holders(s))
            /\ Cardinality(Holders(s)') \in Nat
        BY <3>1, HoldersKeep
      <4> QED BY <4>1, <4>2, <2>2, <1>a
    <3>3. CASE ~(s = t /\ wentOut)
      <4>1. copies'[s] = copies[s] /\ Extra(s)' = Extra(s)
        BY <2>1, <2>2, <3>3 DEF DigestTypeOK, Extra
      <4> QED BY <2>2, <3>1, <4>1, <1>a, CountedKept
    <3> QED BY <3>2, <3>3
  <2> QED BY <2>3, <2>4
<1>4. ASSUME NEW w \in Senders, FinishRun(w)
      PROVE  Cardinality(Holders(s)') + copies'[s] + Open(s)' <= 1 + Extra(s)'
  <2>1. PICK t \in Slots, outcome \in Outcomes :
          /\ sender[w] = [at |-> "finish", slot |-> t, outcome |-> outcome]
          /\ sender' = [sender EXCEPT ![w] = NoDigest]
          /\ \/ /\ run' = [run EXCEPT ![t] = [status |-> outcome, attempts |-> run[t].attempts]]
                /\ rested' = rested \ {t}
             \/ UNCHANGED <<run, rested>>
    BY <1>4, FinishStep
  <2>2. copies' = copies /\ Extra(s)' = Extra(s)
    BY <1>4 DEF FinishRun, Extra
  <2>3. CASE s = t /\ outcome # "sent"
    <3>1. w \in Holders(s)
      BY <2>1, <2>3 DEF Holders, Holds_D
    <3>2. Holders(s)' \subseteq Holders(s) \ {w}
      BY <2>1, <2>3 DEF Holders, Holds_D, DigestTypeOK, NoDigest
    <3>3. Cardinality(Holders(s)') + 1 <= Cardinality(Holders(s))
          /\ Cardinality(Holders(s)') \in Nat
      BY <3>1, <3>2, HoldersLose
    <3>4. Open(s)' <= 1 + Open(s)
      BY <1>a
    <3> QED BY <3>3, <3>4, <2>2, <1>a
  <2>4. CASE ~(s = t /\ outcome # "sent")
    <3>1. Holders(s)' \subseteq Holders(s)
      BY <2>1 DEF Holders, Holds_D, DigestTypeOK, NoDigest
    <3>2. Open(s)' <= Open(s)
      <4>1. CASE UNCHANGED <<run, rested>>
        BY <4>1, <1>a DEF Open, Shut
      <4>2. CASE s # t
        BY <2>1, <4>2, <1>a DEF Open, Shut, DigestTypeOK
      <4>3. CASE s = t /\ run' = [run EXCEPT ![t] =
                        [status |-> outcome, attempts |-> run[t].attempts]]
        <5>1. run'[s].status = "sent"
          BY <2>4, <4>3 DEF DigestTypeOK
        <5> QED BY <5>1, <1>a DEF Open, Shut
      <4> QED BY <2>1, <4>1, <4>2, <4>3
    <3> QED BY <2>2, <3>1, <3>2, <1>a, CountedKept
  <2> QED BY <2>3, <2>4
<1>5. ASSUME NEW w \in Senders, SenderCrash(w)
      PROVE  Cardinality(Holders(s)') + copies'[s] + Open(s)' <= 1 + Extra(s)'
  <2>1. Holders(s)' \subseteq Holders(s)
    BY <1>5 DEF SenderCrash, Holders, Holds_D, DigestTypeOK, NoDigest
  <2>2. copies'[s] = copies[s] /\ Extra(s)' >= Extra(s) /\ Open(s)' <= Open(s)
    BY <1>5, <1>a DEF SenderCrash, Open, Shut, Extra
  <2> QED BY <2>1, <2>2, CountedKept
<1>6. ASSUME NEW T \in SUBSET Waiting, Untouched(T)
      PROVE  Cardinality(Holders(s)') + copies'[s] + Open(s)' <= 1 + Extra(s)'
  <2>1. Holders(s)' = Holders(s) /\ copies' = copies /\ run' = run
    BY <1>6 DEF Untouched, Holders, Holds_D
  <2>2. CASE s \in T /\ run[s].status = "pending"
    <3>1. Extra(s)' = Extra(s) + 1
      BY <1>6, <2>2 DEF Untouched, Extra, DigestTypeOK
    <3>2. Open(s)' <= 1 + Open(s)
      BY <1>a
    <3> QED BY <2>1, <3>1, <3>2, <1>a
  <2>3. CASE ~(s \in T /\ run[s].status = "pending")
    <3>1. Extra(s)' = Extra(s)
      BY <1>6, <2>3 DEF Untouched, Extra
    <3>2. Open(s)' = Open(s)
      BY <1>6, <2>1, <2>3 DEF Untouched, Open, Shut
    <3> QED BY <2>1, <3>1, <3>2, <1>a
  <2> QED BY <2>2, <2>3
<1>7. CASE Rest
  BY <1>6, <1>7 DEF Rest
<1>8. CASE Hour
  BY <1>6, <1>8 DEF Hour
<1>9. CASE UNCHANGED digestVars
  <2>1. Holders(s)' = Holders(s) /\ copies' = copies /\ Extra(s)' = Extra(s) /\ Open(s)' = Open(s)
    BY <1>9 DEF digestVars, Holders, Holds_D, Open, Shut, Extra
  <2> QED BY <2>1, <1>a
<1> QED
  BY <1>1, <1>2, <1>3, <1>4, <1>5, <1>7, <1>8, <1>9 DEF DigestNext, SenderStep

LEMMA CountedBounds == DigestTypeOK /\ Counted => SentOncePerPeriod
<1> SUFFICES ASSUME DigestTypeOK, Counted, NEW s \in Slots PROVE copies[s] <= 1 + Extra(s)
  BY DEF SentOncePerPeriod, Extra, DigestTypeOK
<1>1. Cardinality(Holders(s)) + copies[s] + Open(s) <= 1 + Extra(s)
      /\ Cardinality(Holders(s)) \in Nat /\ copies[s] \in Nat /\ Extra(s) \in Nat
      /\ Open(s) \in {0, 1}
  BY HoldersFinite, ExtraType DEF Counted, DigestTypeOK, Open
<1> QED BY <1>1

\* A digest goes out once per period however many processes run the scheduler and
\* whatever fails or stops, but for one more copy each time its run was left
\* pending for 15 minutes (claimDigestRun) or a POST that went out was not answered
\* (deliver's error).
THEOREM DigestSentOnce == DigestSpec => []SentOncePerPeriod
<1>1. DigestInit => DigestTypeOK /\ Untried /\ Counted
  BY DigestInitType, CountedInit
<1>2. DigestTypeOK /\ Untried /\ Counted /\ [DigestNext]_digestVars
        => (DigestTypeOK /\ Untried /\ Counted)'
  BY DigestTypeStep, CountedStep
<1>3. DigestTypeOK /\ Untried /\ Counted => SentOncePerPeriod
  BY CountedBounds
<1> QED BY <1>1, <1>2, <1>3, PTL DEF DigestSpec

----------------------------------------------------------------------------
(* The gap.                                                                *)

LEMMA NearSymmetric == \A s, t \in Slots : Near(s, t) => Near(t, s) /\ s # t
BY DigestAssumption, SlotsAreHours DEF Near

\* Once its digest went out, a slot that was never late nor unanswered is taken.
LEMMA OutIsTaken ==
    ASSUME DigestTypeOK, Counted, NEW s \in Slots, copies[s] > 0, ~(Extra(s) > 0)
    PROVE  Taken(s)
<1>1. Cardinality(Holders(s)) + copies[s] + Open(s) <= 1 + Extra(s)
      /\ Cardinality(Holders(s)) \in Nat /\ copies[s] \in Nat /\ Extra(s) \in Nat
      /\ Open(s) \in {0, 1}
  BY HoldersFinite, ExtraType DEF Counted, DigestTypeOK, Open
<1>2. Open(s) = 0
  BY <1>1
<1> QED BY <1>2 DEF Open, Shut, Taken

\* A step that takes no further slot, puts no sender at a claim and forgets no
\* rival nor excuse keeps near slots apart.
LEMMA ApartKept ==
    ASSUME ClaimsSeeTaken, TakenApart, DigestTypeOK,
           \A t \in Slots : Taken(t)' => Taken(t) \/ Extra(t) > 0,
           \A w \in Senders : \A s \in Slots : Claims(w, s)' => Claims(w, s),
           rivals \subseteq rivals',
           \A t \in Slots : Extra(t) > 0 => Extra(t)' > 0
    PROVE  ClaimsSeeTaken' /\ TakenApart'
<1>1. \A s, t \in Slots : Near(s, t)' <=> Near(s, t)
  BY DEF Near
<1> QED BY <1>1 DEF ClaimsSeeTaken, TakenApart

LEMMA SendsStep ==
    ASSUME DigestTypeOK, SendsAreCopies, [DigestNext]_digestVars PROVE SendsAreCopies'
<1> USE DEF SendsAreCopies
<1>1. ASSUME NEW w \in Senders, NEW t \in Slots, FallDue(w, t) PROVE SendsAreCopies'
  BY <1>1 DEF FallDue, DigestTypeOK
<1>2. ASSUME NEW w \in Senders, Claim(w) PROVE SendsAreCopies'
  <2>1. copies' = copies
    BY <1>2 DEF Claim
  <2>2. \/ sender' = [sender EXCEPT ![w] = NoDigest]
        \/ \E t \in Slots : sender' = [sender EXCEPT ![w] = [at |-> "deliver", slot |-> t]]
    BY <1>2, ClaimStep
  <2> QED BY <2>1, <2>2 DEF DigestTypeOK, NoDigest
<1>3. ASSUME NEW w \in Senders, Deliver(w) PROVE SendsAreCopies'
  <2>1. PICK t \in Slots, outcome \in Outcomes, wentOut \in BOOLEAN :
          /\ sender' = [sender EXCEPT ![w] = [at |-> "finish", slot |-> t, outcome |-> outcome]]
          /\ outcome = "sent" => wentOut
          /\ copies' = IF wentOut THEN [copies EXCEPT ![t] = @ + 1] ELSE copies
    BY <1>3, DeliverStep
  <2>2. \A s \in Slots : copies[s] > 0 => copies'[s] > 0
    BY <2>1 DEF DigestTypeOK
  <2>3. outcome = "sent" => copies'[t] > 0
    BY <2>1 DEF DigestTypeOK
  <2> SUFFICES ASSUME NEW v \in Senders, sender'[v].at = "finish", sender'[v].outcome = "sent"
               PROVE  copies'[sender'[v].slot] > 0
    OBVIOUS
  <2>4. CASE v = w
    BY <2>1, <2>3, <2>4 DEF DigestTypeOK
  <2>5. CASE v # w
    <3>1. sender'[v] = sender[v]
      BY <2>1, <2>5 DEF DigestTypeOK
    <3>2. sender[v] \in [at: {"finish"}, slot: Slots, outcome: Outcomes]
      BY <3>1 DEF DigestTypeOK, Sender, NoDigest
    <3> QED BY <3>1, <3>2, <2>2
  <2> QED BY <2>4, <2>5
<1>4. ASSUME NEW w \in Senders, FinishRun(w) PROVE SendsAreCopies'
  BY <1>4 DEF FinishRun, DigestTypeOK, NoDigest
<1>5. ASSUME NEW w \in Senders, SenderCrash(w) PROVE SendsAreCopies'
  BY <1>5 DEF SenderCrash, DigestTypeOK, NoDigest
<1>6. CASE Rest \/ Hour \/ UNCHANGED digestVars
  BY <1>6 DEF Rest, Hour, Untouched, digestVars
<1> QED
  BY <1>1, <1>2, <1>3, <1>4, <1>5, <1>6 DEF DigestNext, SenderStep

LEMMA ApartStep ==
    ASSUME DigestTypeOK, Counted, SendsAreCopies, ClaimsSeeTaken, TakenApart,
           [DigestNext]_digestVars
    PROVE  ClaimsSeeTaken' /\ TakenApart'
<1>1. ASSUME NEW w \in Senders, NEW u \in Slots, FallDue(w, u)
      PROVE  ClaimsSeeTaken' /\ TakenApart'
  <2>1. run' = run /\ (\A t : Extra(t)' = Extra(t)) /\ rivals' = rivals
        /\ sender' = [sender EXCEPT ![w] = [at |-> "claim", slot |-> u]]
        /\ ~\E t \in Slots : Near(u, t) /\ Taken(t)
    BY <1>1 DEF FallDue, Extra
  <2>2. \A t \in Slots : Taken(t)' <=> Taken(t)
    BY <2>1 DEF Taken
  <2>3. \A v \in Senders : \A s \in Slots :
            Claims(v, s)' => Claims(v, s) \/ s = u
    BY <2>1 DEF Claims, DigestTypeOK
  <2>4. ClaimsSeeTaken'
    BY <2>1, <2>2, <2>3 DEF ClaimsSeeTaken, Near
  <2>5. TakenApart'
    BY <2>1, <2>2 DEF TakenApart, Near
  <2> QED BY <2>4, <2>5
<1>2. ASSUME NEW w \in Senders, Claim(w) PROVE ClaimsSeeTaken' /\ TakenApart'
  <2>1. \A t : Extra(t)' = Extra(t)
    BY <1>2 DEF Claim, Extra
  <2>2. CASE UNCHANGED <<run, rested, rivals>> /\ sender' = [sender EXCEPT ![w] = NoDigest]
    <3>1. \A v \in Senders : \A s \in Slots : Claims(v, s)' => Claims(v, s)
      BY <2>2 DEF Claims, NoDigest, DigestTypeOK
    <3>2. \A t \in Slots : Taken(t)' <=> Taken(t)
      BY <2>2 DEF Taken
    <3> QED BY <2>1, <2>2, <3>1, <3>2, ApartKept
  <2>3. ASSUME NEW u \in Slots, Claims(w, u),
               run' = [run EXCEPT ![u] = [status |-> "pending", attempts |-> run[u].attempts + 1]],
               sender' = [sender EXCEPT ![w] = [at |-> "deliver", slot |-> u]],
               rivals' = rivals \cup
                   {t \in Slots : Near(u, t) /\ \E v \in Senders : Claims(v, t)}
        PROVE  ClaimsSeeTaken' /\ TakenApart'
    <3>1. \A t \in Slots : Taken(t)' => Taken(t) \/ t = u
      BY <2>3 DEF Taken, DigestTypeOK
    <3>2. \A v \in Senders : \A s \in Slots : Claims(v, s)' => Claims(v, s)
      BY <2>3 DEF Claims, DigestTypeOK
    <3>3. \A s \in Slots : Near(u, s) /\ (\E v \in Senders : Claims(v, s)) => s \in rivals'
      BY <2>3
    <3>4. rivals \subseteq rivals'
      BY <2>3
    <3>5. \A s, t \in Slots : Near(s, t)' <=> Near(s, t)
      BY DEF Near
    <3>6. ClaimsSeeTaken'
      <4> SUFFICES ASSUME NEW v \in Senders, NEW s \in Slots, NEW t \in Slots,
                          Claims(v, s)', Near(s, t), Taken(t)'
                   PROVE  s \in rivals' \/ Extra(t)' > 0
        BY <3>5 DEF ClaimsSeeTaken
      <4>1. Claims(v, s)
        BY <3>2
      <4>2. CASE Taken(t)
        BY <4>1, <4>2, <3>4, <2>1 DEF ClaimsSeeTaken
      <4>3. CASE t = u
        BY <4>1, <4>3, <3>3, NearSymmetric
      <4> QED BY <4>2, <4>3, <3>1
    <3>7. \A t \in Slots : Near(u, t) /\ Taken(t) => u \in rivals' \/ Extra(t)' > 0
      BY <2>1, <2>3, <3>4 DEF ClaimsSeeTaken
    <3>8. TakenApart'
      <4> SUFFICES ASSUME NEW s \in Slots, NEW t \in Slots, Near(s, t), Taken(s)', Taken(t)'
                   PROVE  {s, t} \cap rivals' # {} \/ Extra(s)' > 0 \/ Extra(t)' > 0
        BY <3>5 DEF TakenApart
      <4>1. CASE Taken(s) /\ Taken(t)
        BY <4>1, <3>4, <2>1 DEF TakenApart
      <4>2. CASE s = u /\ Taken(t)
        BY <4>2, <3>7
      <4>3. CASE t = u /\ Taken(s)
        BY <4>3, <3>7, NearSymmetric
      <4> QED BY <4>1, <4>2, <4>3, <3>1, NearSymmetric
    <3> QED BY <3>6, <3>8
  <2> QED BY <1>2, <2>2, <2>3, ClaimStep
<1>3. ASSUME NEW w \in Senders, Deliver(w) PROVE ClaimsSeeTaken' /\ TakenApart'
  <2>1. run' = run /\ rivals' = rivals
    BY <1>3 DEF Deliver
  <2>2. \A v \in Senders : \A s \in Slots : Claims(v, s)' => Claims(v, s)
    BY <1>3, DeliverStep DEF Claims, DigestTypeOK
  <2>3. \A t \in Slots : Taken(t)' <=> Taken(t)
    BY <2>1 DEF Taken
  <2>4. \A t \in Slots : Extra(t) > 0 => Extra(t)' > 0
    <3>1. overdue' = overdue /\ \A t \in Slots : unanswered'[t] >= unanswered[t]
      BY <1>3, DeliverStep DEF DigestTypeOK, Deliver
    <3>2. unanswered' \in [Slots -> Nat]
      BY <1>3, DeliverStep DEF DigestTypeOK
    <3> QED BY <3>1, <3>2 DEF Extra, DigestTypeOK
  <2> QED BY <2>1, <2>2, <2>3, <2>4, ApartKept
<1>4. ASSUME NEW w \in Senders, FinishRun(w) PROVE ClaimsSeeTaken' /\ TakenApart'
  <2>1. PICK u \in Slots, outcome \in Outcomes :
          /\ sender[w] = [at |-> "finish", slot |-> u, outcome |-> outcome]
          /\ sender' = [sender EXCEPT ![w] = NoDigest]
          /\ \/ run' = [run EXCEPT ![u] = [status |-> outcome, attempts |-> run[u].attempts]]
             \/ UNCHANGED run
    BY <1>4, FinishStep
  <2>2. (\A t : Extra(t)' = Extra(t)) /\ rivals' = rivals
    BY <1>4 DEF FinishRun, Extra
  <2>3. \A v \in Senders : \A s \in Slots : Claims(v, s)' => Claims(v, s)
    BY <2>1 DEF Claims, DigestTypeOK, NoDigest
  <2>4. outcome = "sent" => Taken(u) \/ Extra(u) > 0
    BY <2>1, OutIsTaken DEF SendsAreCopies
  <2>5. \A t \in Slots : Taken(t)' => Taken(t) \/ (t = u /\ outcome = "sent")
    BY <2>1 DEF Taken, DigestTypeOK, Outcomes
  <2> QED BY <2>2, <2>3, <2>4, <2>5, ApartKept
<1>5. ASSUME NEW w \in Senders, SenderCrash(w) PROVE ClaimsSeeTaken' /\ TakenApart'
  <2>1. run' = run /\ (\A t : Extra(t)' = Extra(t)) /\ rivals' = rivals
        /\ sender' = [sender EXCEPT ![w] = NoDigest]
    BY <1>5 DEF SenderCrash, Extra
  <2>2. \A v \in Senders : \A s \in Slots : Claims(v, s)' => Claims(v, s)
    BY <2>1 DEF Claims, DigestTypeOK, NoDigest
  <2>3. \A t \in Slots : Taken(t)' <=> Taken(t)
    BY <2>1 DEF Taken
  <2> QED BY <2>1, <2>2, <2>3, ApartKept
<1>6. ASSUME NEW T \in SUBSET Slots, Untouched(T) PROVE ClaimsSeeTaken' /\ TakenApart'
  <2>1. run' = run /\ sender' = sender /\ rivals' = rivals /\ unanswered' = unanswered
        /\ \A s \in Slots : overdue'[s] >= overdue[s] /\ overdue[s] \in Nat /\ overdue'[s] \in Nat
    BY <1>6, UntouchedType DEF DigestTypeOK
  <2>2. \A v \in Senders : \A s \in Slots : Claims(v, s)' => Claims(v, s)
    BY <2>1 DEF Claims
  <2>3. \A t \in Slots : Taken(t)' <=> Taken(t)
    BY <2>1 DEF Taken
  <2>4. \A t \in Slots : Extra(t) > 0 => Extra(t)' > 0
    BY <2>1 DEF Extra, DigestTypeOK
  <2> QED BY <2>1, <2>2, <2>3, <2>4, ApartKept
<1>7. CASE Rest
  BY <1>6, <1>7 DEF Rest, Waiting
<1>8. CASE Hour
  BY <1>6, <1>8 DEF Hour, Waiting
<1>9. CASE UNCHANGED digestVars
  BY <1>9 DEF digestVars, ClaimsSeeTaken, TakenApart, Claims, Taken, Near, Extra
<1> QED
  BY <1>1, <1>2, <1>3, <1>4, <1>5, <1>7, <1>8, <1>9 DEF DigestNext, SenderStep

LEMMA ApartBounds == DigestTypeOK /\ Counted /\ TakenApart => GapKept
<1> SUFFICES ASSUME DigestTypeOK, Counted, TakenApart, NEW s \in Slots, NEW t \in Slots,
                    Near(s, t), copies[s] > 0, copies[t] > 0
             PROVE  {s, t} \cap rivals # {} \/ Extra(s) + Extra(t) > 0
  BY DEF GapKept, Extra, DigestTypeOK
<1>1. Extra(s) \in Nat /\ Extra(t) \in Nat
  BY ExtraType
<1>2. CASE Extra(s) > 0 \/ Extra(t) > 0
  BY <1>1, <1>2
<1>3. CASE ~(Extra(s) > 0) /\ ~(Extra(t) > 0)
  BY <1>3, OutIsTaken DEF TakenApart
<1> QED BY <1>2, <1>3

\* However the customer edits the send time, digests of slots less than MinGap
\* apart both go out only if their claims passed each other, or one of them was
\* late or went out unanswered (the NOT EXISTS of claimDigestRun).
THEOREM DigestGap == DigestSpec => []GapKept
<1>1. DigestInit => DigestInv
  <2>1. DigestInit => SendsAreCopies /\ ClaimsSeeTaken /\ TakenApart
    BY DEF DigestInit, SendsAreCopies, ClaimsSeeTaken, TakenApart, Claims, Taken, NoDigest
  <2> QED BY <2>1, DigestInitType, CountedInit DEF DigestInv
<1>2. DigestInv /\ [DigestNext]_digestVars => DigestInv'
  BY DigestTypeStep, CountedStep, SendsStep, ApartStep DEF DigestInv
<1>3. DigestInv => GapKept
  BY ApartBounds DEF DigestInv
<1> QED BY <1>1, <1>2, <1>3, PTL DEF DigestSpec

----------------------------------------------------------------------------
(* The parts together.                                                     *)

LEMMA PartsStep ==
    [PartsNext]_allVars =>
        /\ [BillingNext]_billingVars /\ [TregNext]_tregVars /\ [DigestNext]_digestVars
        /\ [AutomationNext]_automationVars /\ [ChatNext]_chatVars /\ [MuteNext]_muteVars
        /\ [LeadNext]_leadVars /\ UNCHANGED part
<1> SUFFICES ASSUME [PartsNext]_allVars
             PROVE  /\ [BillingNext]_billingVars /\ [TregNext]_tregVars /\ [DigestNext]_digestVars
                    /\ [AutomationNext]_automationVars /\ [ChatNext]_chatVars /\ [MuteNext]_muteVars
                    /\ [LeadNext]_leadVars /\ UNCHANGED part
  OBVIOUS
<1>1. GrantsStep => BillingNext
  BY DEF GrantsStep, BillingNext
<1>2. LimitsStep => BillingNext
  BY DEF LimitsStep, BillingNext, AtDodo
<1>3. /\ LeadsStep => LeadNext
      /\ SlotsStep => DigestNext
      /\ TriageStep => AutomationNext
  BY DEF LeadsStep, SlotsStep, TriageStep
<1>4. CASE PartsNext
  BY <1>1, <1>2, <1>3, <1>4 DEF PartsNext
<1>5. CASE UNCHANGED allVars
  BY <1>5 DEF allVars
<1> QED BY <1>4, <1>5

\* Every part of WorkspaceParts keeps to its own specification, and so all that is
\* proved of each holds of the run's model too.
THEOREM PartsImplementParts ==
    PartsSpec => /\ BillingSpec /\ TregSpec /\ DigestSpec
                 /\ AutomationSpec /\ ChatSpec /\ MuteSpec /\ LeadSpec
<1>1. PartsInit => /\ BillingInit /\ TregInit /\ DigestInit /\ AutomationInit /\ ChatInit
                   /\ MuteInit /\ LeadInit
  BY DEF PartsInit
<1> QED
  BY <1>1, PartsStep, PTL
     DEF PartsSpec, BillingSpec, TregSpec, DigestSpec, AutomationSpec, ChatSpec, MuteSpec, LeadSpec

\* The state of every part stays within the domains its operations are written for.
THEOREM PartsTypes == PartsSpec => []PartsTypeOK
<1> DEFINE TregPart == TregTypeOK
           DigestPart == DigestTypeOK /\ Untried
           Inv == /\ part \in Parts /\ BillingBase /\ TregPart /\ DigestPart
                  /\ AutomationInv /\ ChatInv /\ MuteInv /\ LeadBase
<1>1. PartsInit => Inv
  BY BillingInitBase, TregInitInv, DigestInitType, AutomationInitInv, ChatInitInv, MuteInitInv,
     LeadInitBase
     DEF PartsInit, TregInv
<1>2. Inv /\ [PartsNext]_allVars => Inv'
  BY PartsStep, BillingBaseStep, TregTypeStep, DigestTypeStep, AutomationStep, ChatStep, MuteStep,
     LeadBaseStep
<1>3. Inv => PartsTypeOK
  BY DEF PartsTypeOK, BillingBase, AutomationInv, ChatInv, MuteInv, LeadBase
<1> QED BY <1>1, <1>2, <1>3, PTL DEF PartsSpec

\* What the runs check of the parts, for any number of actors: nothing is claimed,
\* charged, granted or run twice, no list served or window kept is staler than the
\* code allows, and what is written to a lead and its contact stands.
THEOREM PartsSafe ==
    PartsSpec => /\ []AllowanceOncePerPeriod /\ []PlanMatchesDodo /\ []KeywordOverrunBounded
                 /\ []PaidOnceAtTreg /\ []ChargedForAnswer
                 /\ []SentOncePerPeriod /\ []GapKept
                 /\ []NoMentionHidden /\ []ToolRunsAtMostOnce /\ []StalenessBounded
                 /\ []EnrichCapHolds /\ []PaidOncePerLead /\ []StageStands
                 /\ []OneContactPerLead /\ []ContactNotBehind
BY PartsImplementParts, AllowanceOnce, PlanMatches, KeywordOverrun, TregPaidOnce, TregCharges,
   DigestSentOnce, DigestGap, AutomationHidesNothing, ChatRunsOnce, MuteStaleness,
   EnrichWithinCap, PaidOnce, StageIsKept, OneContact, NotBehind, PTL

=================================================================================
