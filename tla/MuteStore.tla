------------------------------- MODULE MuteStore -------------------------------
(***************************************************************************)
(* A workspace's mute list and the caches in front of it                   *)
(* (internal/mutes/store.go).  The API's router, the monitor and every     *)
(* process have a store of their own.  One through which a mute is added or*)
(* deleted drops its entry; the others serve theirs for CacheTTL.  A load  *)
(* reads the list outside the lock and keeps it with the time it ends.     *)
(* The list is its version, the number of changes so far.                  *)
(***************************************************************************)
EXTENDS Integers, FiniteSets

CONSTANTS
    Stores,      \* caches
    Readers,     \* requests at one time that ask IsMuted
    Writers,     \* requests at one time that add or delete a mute
    CacheTTL,    \* how long an entry is served
    LastSecond,  \* bound on the time
    MaxVersion   \* bound on the changes

ASSUME MuteAssumption == CacheTTL \in Nat \ {0} /\ LastSecond \in Nat /\ MaxVersion \in Nat

VARIABLES
    second,   \* the time
    version,  \* the list in the table of mutes
    cache,    \* each store's entry
    reader,   \* what each reader is doing
    writer,   \* what each writer is doing
    \* History, read by properties only:
    replaced, \* when each version was replaced, and by which store's change
    answer    \* what IsMuted went by, in the step just made

muteVars == <<second, version, cache, reader, writer, replaced, answer>>

Seconds == 0..LastSecond
Versions == 0..MaxVersion
NoEntry == [version |-> -1]
NotYet == [at |-> -1]
\* When the list was read from the table and, history, whether the store dropped
\* its entry between then and "at".
Entry == [version: Versions, at: Seconds, read: Seconds, raced: BOOLEAN]
Free == [at |-> "idle"]
Reader == {Free} \cup [at: {"load"}, store: Stores]
              \cup [at: {"keep"}, store: Stores, version: Versions, read: Seconds, raced: BOOLEAN]
Writer == {Free} \cup [at: {"drop"}, store: Stores, change: Versions]

----------------------------------------------------------------------------
\* Goes by e in store s: how long ago its version was replaced, whether a change
\* already made through s is missing.
GoBy(s, e) ==
    answer' = [age |-> IF e.version = version THEN 0 ELSE second - replaced[e.version].at,
               load |-> e.at - e.read,
               raced |-> e.raced,
               missed |-> \E v \in Versions : e.version <= v /\ v < version
                                              /\ replaced[v].by = s /\ replaced[v].dropped]

Sure == [age |-> 0, load |-> 0, raced |-> FALSE, missed |-> FALSE]
NoAnswerGiven == answer' = Sure

\* A plausible bug: an entry is served until it is dropped.
BugFresh(e) == e # NoEntry

Fresh(e) == e # NoEntry /\ second - e.at < CacheTTL

\* list looks under the lock; a fresh entry is the answer.
Ask(r, s) ==
    /\ reader[r] = Free
    /\ IF Fresh(cache[s])
       THEN GoBy(s, cache[s]) /\ UNCHANGED reader
       ELSE reader' = [reader EXCEPT ![r] = [at |-> "load", store |-> s]] /\ NoAnswerGiven
    /\ UNCHANGED <<second, version, cache, writer, replaced>>

\* ListMutes; its failure ends the request.
ReadList(r) ==
    /\ reader[r].at = "load"
    /\ \/ reader' = [reader EXCEPT ![r] = [at |-> "keep", store |-> reader[r].store,
                            version |-> version, read |-> second, raced |-> FALSE]]
       \/ reader' = [reader EXCEPT ![r] = Free]
    /\ UNCHANGED <<second, version, cache, writer, replaced>>
    /\ NoAnswerGiven

\* The time kept is now, not that of the query.
Keep(r) ==
    LET e == [version |-> reader[r].version, at |-> second,
              read |-> reader[r].read, raced |-> reader[r].raced] IN
    /\ reader[r].at = "keep"
    /\ cache' = [cache EXCEPT ![reader[r].store] = e]
    /\ GoBy(reader[r].store, e)
    /\ reader' = [reader EXCEPT ![r] = Free]
    /\ UNCHANGED <<second, version, writer, replaced>>

\* CreateMute or DeleteMute, through store s.
Change(w, s) ==
    /\ writer[w] = Free
    /\ version < MaxVersion
    /\ version' = version + 1
    /\ replaced' = [replaced EXCEPT ![version] = [at |-> second, by |-> s, dropped |-> FALSE]]
    /\ writer' = [writer EXCEPT ![w] = [at |-> "drop", store |-> s, change |-> version]]
    /\ UNCHANGED <<second, cache, reader>>
    /\ NoAnswerGiven

\* Invalidate drops the entry.  A load under way is not told.
Invalidate(w) ==
    LET s == writer[w].store IN
    /\ writer[w].at = "drop"
    /\ cache' = [cache EXCEPT ![s] = NoEntry]
    /\ reader' = [r \in Readers |-> IF reader[r].at = "keep" /\ reader[r].store = s
                                    THEN [reader[r] EXCEPT !.raced = TRUE] ELSE reader[r]]
    /\ replaced' = [replaced EXCEPT ![writer[w].change].dropped = TRUE]
    /\ writer' = [writer EXCEPT ![w] = Free]
    /\ UNCHANGED <<second, version>>
    /\ NoAnswerGiven

Second ==
    /\ second < LastSecond
    /\ second' = second + 1
    /\ UNCHANGED <<version, cache, reader, writer, replaced>>
    /\ NoAnswerGiven

----------------------------------------------------------------------------
MuteInit ==
    /\ second = 0
    /\ version = 0
    /\ cache = [s \in Stores |-> NoEntry]
    /\ reader = [r \in Readers |-> Free]
    /\ writer = [w \in Writers |-> Free]
    /\ replaced = [v \in Versions |-> NotYet]
    /\ answer = Sure

MuteNext ==
    \/ \E r \in Readers : (\E s \in Stores : Ask(r, s)) \/ ReadList(r) \/ Keep(r)
    \/ \E w \in Writers : (\E s \in Stores : Change(w, s)) \/ Invalidate(w)
    \/ Second

MuteSpec == MuteInit /\ [][MuteNext]_muteVars

----------------------------------------------------------------------------
(* Properties.                                                             *)

MuteTypeOK ==
    /\ second \in Seconds
    /\ version \in Versions
    /\ cache \in [Stores -> Entry \cup {NoEntry}]
    /\ reader \in [Readers -> Reader]
    /\ writer \in [Writers -> Writer]
    /\ replaced \in [Versions -> {NotYet} \cup [at: Seconds, by: Stores, dropped: BOOLEAN]]
    /\ answer \in [age: Int, load: Int, raced: BOOLEAN, missed: BOOLEAN]

\* "cacheTTL bounds how stale a workspace's mute list may be": a list gone by was
\* replaced less than CacheTTL ago, and the time its load took; and it lacks a
\* change this store itself has made only if that load was under way then.
StalenessBounded ==
    /\ answer.age < CacheTTL + answer.load
    /\ answer.missed => answer.raced

================================================================================
