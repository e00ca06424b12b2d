------------------------------ MODULE RagProofs ------------------------------
(***************************************************************************)
(* Theorems about RagSync, for any issues, syncs, delay and precision of   *)
(* a query: no change is missed by the syncs, and a completed one leaves   *)
(* the copy in step.                                                       *)
(***************************************************************************)
EXTENDS RagSync, TLAPS

SyncRecord ==
    [pc : Phases, ids : SUBSET Issues, stale : SUBSET Issues, since : 0..MaxTime,
     fetched : Versions, at : 0..MaxTime, writing : SUBSET Issues]

\* What a sync holds is typed and agrees with itself.
Sound(s) ==
    /\ sync[s] \in SyncRecord
    /\ sync[s].since <= now /\ sync[s].at <= now
    /\ sync[s].stale \cap sync[s].ids = {}
    /\ sync[s].stale # {} => sync[s].pc = "scrolled"
    /\ sync[s].writing \subseteq DOMAIN sync[s].fetched
    /\ sync[s].writing # {} => sync[s].pc \in {"upserting", "idle"}

RagTyped ==
    /\ now \in Delay..MaxTime /\ watermark \in 0..now /\ changes \in 0..MaxChanges
    /\ jira \in Versions /\ stored \in Versions
    /\ slow \in BOOLEAN /\ overlapped \in BOOLEAN
    /\ sync \in [Syncs -> SyncRecord]
    /\ \A s \in Syncs : Sound(s)

\* One sync at a time writes, so that what it holds is about the copy it will find.
Alone == \A s, r \in Syncs : Writes(s) /\ Writes(r) => s = r

\* The next sync that takes place will fetch the issue again.
Refetched(i) == jira[i].at >= JqlTimestamp(watermark)

\* What an issue that Jira did not list has become is new; what is stored was listed,
\* or is to be removed.
Listed(s) ==
    /\ sync[s].pc \in {"listed", "scrolled"} =>
           \A i \in DOMAIN jira \ sync[s].ids : Refetched(i)
    /\ sync[s].pc = "scrolled" => DOMAIN stored \subseteq sync[s].ids \cup sync[s].stale
    /\ sync[s].pc \in {"reconciled", "fetching", "upserting", "saving"} =>
           DOMAIN stored \subseteq sync[s].ids

\* What is being written was fetched since the watermark.
Fetched(s) ==
    /\ sync[s].pc = "fetching" => sync[s].since = watermark
    /\ sync[s].pc \in {"upserting", "saving"} \/ sync[s].writing # {} =>
           /\ DOMAIN sync[s].fetched \subseteq sync[s].ids
           /\ \A i \in DOMAIN sync[s].fetched \cap DOMAIN jira : Refetched(i)

\* An issue that has not changed since the fetch is in step, or will be when the upserts
\* and deletions of this sync are done.
Pending(s, i) ==
    IF i \in DOMAIN sync[s].fetched
    THEN /\ jira[i] = sync[s].fetched[i]
         /\ i \in Active(sync[s].fetched) /\ i \notin sync[s].writing =>
                i \in DOMAIN stored /\ stored[i] = jira[i]
    ELSE InStep(i)

Written(s) ==
    /\ sync[s].pc = "upserting" =>
           \A i \in DOMAIN jira : jira[i].at >= sync[s].at \/ Pending(s, i)
    /\ sync[s].pc = "saving" =>
           \A i \in DOMAIN jira : jira[i].at >= sync[s].at \/ InStep(i)

Copied(s) == Listed(s) /\ Fetched(s) /\ Written(s)

InSequence ==
    /\ Alone
    /\ \A i \in DOMAIN jira : InStep(i) \/ Refetched(i)
    /\ \A s \in Syncs : Copied(s)

RagInv == RagTyped /\ (slow \/ overlapped \/ InSequence)

-----------------------------------------------------------------------------
(* The database as a function on some of the issues.                       *)

LEMMA Version ==
    ASSUME NEW f \in Versions
    PROVE  /\ DOMAIN f \subseteq Issues
           /\ \A i \in DOMAIN f : f[i] \in Issue
BY DEF Versions

LEMMA VersionOf ==
    ASSUME NEW f, f = [i \in DOMAIN f |-> f[i]], DOMAIN f \subseteq Issues,
           \A i \in DOMAIN f : f[i] \in Issue
    PROVE  f \in Versions
<1>1. f \in [DOMAIN f -> Issue]
  OBVIOUS
<1>2. QED
  BY <1>1 DEF Versions

LEMMA NoVersion == <<>> \in Versions /\ DOMAIN <<>> = {}
<1>1. DOMAIN <<>> = {}
  OBVIOUS
<1>2. <<>> \in [{} -> Issue]
  OBVIOUS
<1>3. QED
  BY <1>1, <1>2 DEF Versions

LEMMA RestrictVersion ==
    ASSUME NEW f \in Versions, NEW kept \in SUBSET DOMAIN f
    PROVE  /\ Restrict(f, kept) \in Versions
           /\ DOMAIN Restrict(f, kept) = kept
           /\ \A i \in kept : Restrict(f, kept)[i] = f[i]
<1>1. /\ DOMAIN Restrict(f, kept) = kept
      /\ \A i \in kept : Restrict(f, kept)[i] = f[i]
      /\ Restrict(f, kept) = [i \in DOMAIN Restrict(f, kept) |-> Restrict(f, kept)[i]]
  BY DEF Restrict
<1>2. QED
  BY <1>1, Version, VersionOf

LEMMA WithoutVersion ==
    ASSUME NEW f \in Versions, NEW gone
    PROVE  /\ Without(f, gone) \in Versions
           /\ DOMAIN Without(f, gone) = DOMAIN f \ gone
           /\ \A i \in DOMAIN f \ gone : Without(f, gone)[i] = f[i]
BY RestrictVersion, DOMAIN f \ gone \in SUBSET DOMAIN f DEF Without

LEMMA WithVersion ==
    ASSUME NEW f \in Versions, NEW i \in Issues, NEW v \in Issue
    PROVE  /\ With(f, i, v) \in Versions
           /\ DOMAIN With(f, i, v) = {i} \cup DOMAIN f
           /\ With(f, i, v)[i] = v
           /\ \A j \in DOMAIN f \ {i} : With(f, i, v)[j] = f[j]
<1> DEFINE g == With(f, i, v)
<1>1. /\ DOMAIN g = {i} \cup DOMAIN f
      /\ g[i] = v
      /\ \A j \in DOMAIN f \ {i} : g[j] = f[j]
      /\ g = [j \in DOMAIN g |-> g[j]]
  BY DEF With
<1>2. g \in Versions
  <2>1. DOMAIN g \subseteq Issues /\ \A j \in DOMAIN g : g[j] \in Issue
    BY <1>1, Version
  <2>2. QED
    BY <1>1, <2>1, VersionOf
<1>3. QED
  BY <1>1, <1>2

\* A query asks for no later time than the one it was given.
LEMMA JqlBelow ==
    ASSUME NEW t \in Nat
    PROVE  JqlTimestamp(t) \in Int /\ JqlTimestamp(t) <= t
<1>1. t % Minute \in 0..(Minute - 1)
  BY RagAssumption
<1>2. QED
  BY <1>1 DEF JqlTimestamp
-----------------------------------------------------------------------------
(* Types.                                                                  *)

LEMMA TypedStart == Init => RagTyped
<1> SUFFICES ASSUME Init PROVE RagTyped
  OBVIOUS
<1>1. Idle \in SyncRecord
  BY NoVersion, RagAssumption DEF Idle, SyncRecord, Phases
<1>2. sync \in [Syncs -> SyncRecord]
  BY <1>1 DEF Init
<1>3. ASSUME NEW s \in Syncs PROVE Sound(s)
  <2>1. sync[s] = Idle /\ now \in Nat
    BY RagAssumption DEF Init
  <2>2. QED
    BY <1>1, <2>1, NoVersion DEF Sound, Idle
<1>4. now \in Delay..MaxTime /\ watermark \in 0..now /\ changes \in 0..MaxChanges
  BY RagAssumption DEF Init
<1>5. QED
  BY <1>2, <1>3, <1>4, NoVersion DEF Init, RagTyped

LEMMA TypedImplies == RagTyped => RagTypeOK
<1> SUFFICES ASSUME RagTyped PROVE RagTypeOK
  OBVIOUS
<1>1. ASSUME NEW s \in Syncs
      PROVE  /\ sync[s].pc \in Phases
             /\ sync[s].fetched \in Versions
             /\ {sync[s].since, sync[s].at} \subseteq 0..now
             /\ sync[s].ids \subseteq Issues /\ sync[s].stale \subseteq Issues \ sync[s].ids
             /\ sync[s].writing \subseteq DOMAIN sync[s].fetched
             /\ sync[s].writing # {} => sync[s].pc \in {"upserting", "idle"}
  BY RagAssumption DEF RagTyped, Sound, SyncRecord
<1>2. QED
  BY <1>1, RagAssumption DEF RagTyped, RagTypeOK

Untouched(s) == \A r \in Syncs \ {s} : sync'[r] = sync[r]

\* A step of one sync keeps the types when what it leaves is sound.
LEMMA TypedSync ==
    ASSUME RagTyped, NEW s \in Syncs, Untouched(s), sync' \in [Syncs -> SyncRecord],
           Sound(s)', UNCHANGED jiraVars,
           stored' \in Versions, watermark' \in 0..now, slow' \in BOOLEAN, overlapped' \in BOOLEAN
    PROVE  RagTyped'
<1>1. ASSUME NEW r \in Syncs PROVE Sound(r)'
  <2>1. CASE r = s
    BY <2>1
  <2>2. CASE r # s
    BY <2>2 DEF RagTyped, Untouched, Sound, jiraVars
  <2>3. QED
    BY <2>1, <2>2
<1>2. QED
  BY <1>1 DEF RagTyped, jiraVars

LEMMA Becomes ==
    ASSUME sync \in [Syncs -> SyncRecord], NEW s \in Syncs, NEW e \in SyncRecord,
           sync' = [sync EXCEPT ![s] = e]
    PROVE  sync' \in [Syncs -> SyncRecord] /\ Untouched(s) /\ sync'[s] = e
BY DEF Untouched

-----------------------------------------------------------------------------
(* What each step of a sync does, field by field.                          *)

LEMMA Restarts ==
    ASSUME RagTyped, NEW s \in Syncs, sync' = [sync EXCEPT ![s] = Idle],
           UNCHANGED jiraVars, UNCHANGED stored,
           watermark' \in 0..now, slow' \in BOOLEAN, overlapped' \in BOOLEAN
    PROVE  RagTyped' /\ Untouched(s) /\ sync'[s].pc = "idle" /\ sync'[s].writing = {}
<1>0. Idle \in SyncRecord /\ now \in Nat
  BY NoVersion, RagAssumption DEF Idle, SyncRecord, Phases, RagTyped
<1>1. sync' \in [Syncs -> SyncRecord] /\ Untouched(s) /\ sync'[s] = Idle
  BY <1>0 DEF RagTyped, Untouched
<1>2. Sound(s)' /\ sync'[s].pc = "idle" /\ sync'[s].writing = {}
  BY <1>0, <1>1 DEF Sound, Idle, jiraVars
<1>3. QED
  BY <1>1, <1>2, TypedSync DEF RagTyped

LEMMA DoesList ==
    ASSUME RagTyped, NEW s \in Syncs, ListIssues(s)
    PROVE  /\ RagTyped' /\ Untouched(s)
           /\ sync'[s].pc = "listed" /\ sync'[s].ids = DOMAIN jira /\ sync'[s].writing = {}
<1>0. DOMAIN jira \subseteq Issues /\ Idle \in SyncRecord /\ now \in Nat
  BY Version, NoVersion, RagAssumption DEF RagTyped, Idle, SyncRecord, Phases
<1>1. /\ sync' \in [Syncs -> SyncRecord] /\ Untouched(s)
      /\ sync'[s] = [Idle EXCEPT !.pc = "listed", !.ids = DOMAIN jira]
  BY <1>0 DEF ListIssues, RagTyped, SyncRecord, Untouched, Phases
<1>2. /\ Sound(s)' /\ sync'[s].pc = "listed" /\ sync'[s].ids = DOMAIN jira
      /\ sync'[s].writing = {}
  BY <1>0, <1>1 DEF Sound, Idle, jiraVars, ListIssues
<1>3. UNCHANGED jiraVars /\ stored' \in Versions /\ watermark' \in 0..now
      /\ slow' \in BOOLEAN /\ overlapped' \in BOOLEAN
  BY DEF ListIssues, RagTyped
<1>4. QED
  BY <1>1, <1>2, <1>3, TypedSync

LEMMA DoesScroll ==
    ASSUME RagTyped, NEW s \in Syncs, Scroll(s)
    PROVE  /\ RagTyped' /\ Untouched(s)
           /\ sync'[s].pc = "scrolled" /\ sync'[s].ids = sync[s].ids
           /\ sync'[s].stale = DOMAIN stored \ sync[s].ids /\ sync'[s].writing = {}
<1>0. Sound(s) /\ sync \in [Syncs -> SyncRecord] /\ DOMAIN stored \subseteq Issues
  BY Version DEF RagTyped
<1>1. /\ sync' \in [Syncs -> SyncRecord] /\ Untouched(s)
      /\ sync'[s] = [sync[s] EXCEPT !.pc = "scrolled", !.stale = DOMAIN stored \ sync[s].ids]
  <2>1. PICK x \in SyncRecord : x = sync[s]
    BY <1>0
  <2>2. PICK e : e = [x EXCEPT !.pc = "scrolled", !.stale = DOMAIN stored \ x.ids]
    OBVIOUS
  <2>3. e \in SyncRecord
    BY <1>0, <2>1, <2>2 DEF SyncRecord, Phases
  <2>4. sync' = [sync EXCEPT ![s] = e]
    BY <1>0, <2>1, <2>2 DEF Scroll
  <2>5. QED
    BY <1>0, <2>1, <2>2, <2>3, <2>4, Becomes
<1>2. Sound(s)' /\ sync'[s].writing = {}
  BY <1>0, <1>1 DEF Sound, SyncRecord, jiraVars, Scroll
<1>3. UNCHANGED jiraVars /\ stored' \in Versions /\ watermark' \in 0..now
      /\ slow' \in BOOLEAN /\ overlapped' \in BOOLEAN
  BY DEF Scroll, RagTyped
<1>4. QED
  BY <1>0, <1>1, <1>2, <1>3, TypedSync DEF SyncRecord, Sound

LEMMA DoesDeleteStale ==
    ASSUME RagTyped, NEW s \in Syncs, DeleteStale(s)
    PROVE  /\ RagTyped' /\ Untouched(s)
           /\ sync'[s].pc = "reconciled" /\ sync'[s].ids = sync[s].ids
           /\ sync'[s].writing = {}
<1>0. Sound(s) /\ sync \in [Syncs -> SyncRecord]
  BY DEF RagTyped
<1>1. /\ sync' \in [Syncs -> SyncRecord] /\ Untouched(s)
      /\ sync'[s] = [sync[s] EXCEPT !.pc = "reconciled", !.stale = {}]
  <2>1. PICK x \in SyncRecord : x = sync[s]
    BY <1>0
  <2>2. PICK e : e = [x EXCEPT !.pc = "reconciled", !.stale = {}]
    OBVIOUS
  <2>3. e \in SyncRecord
    BY <1>0, <2>1, <2>2 DEF SyncRecord, Phases
  <2>4. sync' = [sync EXCEPT ![s] = e]
    BY <1>0, <2>1, <2>2 DEF DeleteStale
  <2>5. QED
    BY <1>0, <2>1, <2>2, <2>3, <2>4, Becomes
<1>2. Sound(s)' /\ sync'[s].writing = {}
  BY <1>0, <1>1 DEF Sound, SyncRecord, jiraVars, DeleteStale
<1>3. UNCHANGED jiraVars /\ stored' \in Versions /\ watermark' \in 0..now
      /\ slow' \in BOOLEAN /\ overlapped' \in BOOLEAN
  BY WithoutVersion DEF DeleteStale, RagTyped
<1>4. QED
  BY <1>0, <1>1, <1>2, <1>3, TypedSync DEF SyncRecord, Sound

LEMMA DoesRead ==
    ASSUME RagTyped, NEW s \in Syncs, ReadWatermark(s)
    PROVE  /\ RagTyped' /\ Untouched(s)
           /\ sync'[s].pc = "fetching" /\ sync'[s].ids = sync[s].ids
           /\ sync'[s].since = watermark /\ sync'[s].writing = {}
<1>0. Sound(s) /\ sync \in [Syncs -> SyncRecord] /\ watermark \in 0..MaxTime /\ watermark <= now
  BY RagAssumption DEF RagTyped
<1>1. /\ sync' \in [Syncs -> SyncRecord] /\ Untouched(s)
      /\ sync'[s] = [sync[s] EXCEPT !.pc = "fetching", !.since = watermark]
  <2>1. PICK x \in SyncRecord : x = sync[s]
    BY <1>0
  <2>2. PICK e : e = [x EXCEPT !.pc = "fetching", !.since = watermark]
    OBVIOUS
  <2>3. e \in SyncRecord
    BY <1>0, <2>1, <2>2 DEF SyncRecord, Phases
  <2>4. sync' = [sync EXCEPT ![s] = e]
    BY <1>0, <2>1, <2>2 DEF ReadWatermark
  <2>5. QED
    BY <1>0, <2>1, <2>2, <2>3, <2>4, Becomes
<1>2. Sound(s)' /\ sync'[s].writing = {}
  BY <1>0, <1>1 DEF Sound, SyncRecord, jiraVars, ReadWatermark
<1>3. UNCHANGED jiraVars /\ stored' \in Versions /\ watermark' \in 0..now
      /\ slow' \in BOOLEAN /\ overlapped' \in BOOLEAN
  BY DEF ReadWatermark, RagTyped
<1>4. QED
  BY <1>0, <1>1, <1>2, <1>3, TypedSync DEF SyncRecord, Sound

Query(s) == {i \in DOMAIN jira : jira[i].at >= JqlTimestamp(sync[s].since)}

LEMMA DoesFetch ==
    ASSUME RagTyped, NEW s \in Syncs, Fetch(s)
    PROVE  /\ RagTyped' /\ Untouched(s)
           /\ sync'[s].pc = "upserting" /\ sync'[s].at = now
           /\ sync'[s].ids = sync[s].ids \cup Query(s)
           /\ DOMAIN sync'[s].fetched = Query(s)
           /\ \A i \in Query(s) : sync'[s].fetched[i] = jira[i]
           /\ sync'[s].writing = Active(sync'[s].fetched)
<1>0. /\ Sound(s) /\ sync \in [Syncs -> SyncRecord]
      /\ DOMAIN jira \subseteq Issues /\ now \in 0..MaxTime /\ now <= now
  BY Version, RagAssumption DEF RagTyped
<1>1. PICK fetched \in Versions : fetched = Restrict(jira, Query(s))
  BY RestrictVersion, Query(s) \in SUBSET DOMAIN jira DEF RagTyped, Query
<1>2. /\ DOMAIN fetched = Query(s) /\ \A i \in Query(s) : fetched[i] = jira[i]
      /\ Query(s) \subseteq Issues
  BY RestrictVersion, <1>0, <1>1 DEF RagTyped, Query
<1>3. PICK active \in SUBSET Issues : active = Active(fetched) /\ active \subseteq Query(s)
  BY <1>2 DEF Active
<1>4. PICK ids \in SUBSET Issues : ids = sync[s].ids \cup Query(s)
  BY <1>0, <1>2 DEF Sound, SyncRecord
<1>5. sync' = [sync EXCEPT ![s].pc = "upserting", ![s].at = now,
                           ![s].ids = @ \cup DOMAIN fetched,
                           ![s].fetched = fetched, ![s].writing = Active(fetched)]
  BY <1>1 DEF Fetch, Query
<1>6. sync' = [sync EXCEPT ![s] = [sync[s] EXCEPT !.pc = "upserting", !.at = now, !.ids = ids,
                           !.fetched = fetched, !.writing = active]]
  BY <1>0, <1>2, <1>3, <1>4, <1>5
<1>7. /\ sync' \in [Syncs -> SyncRecord] /\ Untouched(s)
      /\ sync'[s] = [sync[s] EXCEPT !.pc = "upserting", !.at = now, !.ids = ids,
                           !.fetched = fetched, !.writing = active]
  <2>1. PICK x \in SyncRecord : x = sync[s]
    BY <1>0
  <2>2. PICK e : e = [x EXCEPT !.pc = "upserting", !.at = now, !.ids = ids,
                               !.fetched = fetched, !.writing = active]
    OBVIOUS
  <2>3. e \in SyncRecord
    BY <1>0, <2>2 DEF SyncRecord, Phases
  <2>4. QED
    BY <1>0, <1>6, <2>1, <2>2, <2>3, Becomes
<1>8. UNCHANGED jiraVars /\ stored' \in Versions /\ watermark' \in 0..now
      /\ slow' \in BOOLEAN /\ overlapped' \in BOOLEAN
  BY DEF Fetch, RagTyped
<1>9. sync[s].stale = {}
  BY <1>0 DEF Sound, Fetch
<1>10. /\ sync'[s].pc = "upserting" /\ sync'[s].at = now /\ sync'[s].ids = ids
       /\ sync'[s].fetched = fetched /\ sync'[s].writing = active
       /\ sync'[s].stale = {} /\ sync'[s].since = sync[s].since
  BY <1>0, <1>7, <1>9 DEF SyncRecord, Sound
<1>11. Sound(s)'
  BY <1>0, <1>2, <1>3, <1>7, <1>8, <1>10 DEF Sound, jiraVars
<1>12. QED
  BY <1>2, <1>3, <1>4, <1>7, <1>8, <1>10, <1>11, TypedSync

LEMMA DoesUpsert ==
    ASSUME RagTyped, NEW s \in Syncs, NEW i \in Issues, Upsert(s, i) \/ UpsertFails(s, i)
    PROVE  /\ RagTyped' /\ Untouched(s)
           /\ i \in DOMAIN sync[s].fetched
           /\ sync'[s].pc = (IF Upsert(s, i) THEN sync[s].pc ELSE "idle")
           /\ sync'[s].ids = sync[s].ids /\ sync'[s].at = sync[s].at
           /\ sync'[s].fetched = sync[s].fetched
           /\ sync'[s].writing = sync[s].writing \ {i}
           /\ sync[s].writing # {} /\ sync[s].pc \in {"upserting", "idle"}
<1> DEFINE pc == IF Upsert(s, i) THEN sync[s].pc ELSE "idle"
<1>0. /\ Sound(s) /\ sync \in [Syncs -> SyncRecord] /\ i \in sync[s].writing
      /\ sync[s].fetched \in Versions /\ i \in DOMAIN sync[s].fetched
      /\ pc \in Phases /\ pc \in {"upserting", "idle"} /\ sync[s].stale = {}
  BY DEF RagTyped, Sound, SyncRecord, Upsert, UpsertFails, Phases
<1>1. sync' = [sync EXCEPT ![s] = [sync[s] EXCEPT !.pc = pc, !.writing = sync[s].writing \ {i}]]
  <2>1. CASE Upsert(s, i)
    BY <1>0, <2>1 DEF Upsert, SyncRecord
  <2>2. CASE ~Upsert(s, i)
    BY <1>0, <2>2 DEF UpsertFails, SyncRecord
  <2>3. QED
    BY <2>1, <2>2
<1> HIDE DEF pc
<1>2. /\ sync' \in [Syncs -> SyncRecord] /\ Untouched(s)
      /\ sync'[s] = [sync[s] EXCEPT !.pc = pc, !.writing = sync[s].writing \ {i}]
  BY <1>0, <1>1 DEF SyncRecord, Untouched
<1>3. UNCHANGED jiraVars /\ stored' \in Versions /\ watermark' \in 0..now
      /\ slow' \in BOOLEAN /\ overlapped' \in BOOLEAN
  <2>1. sync[s].fetched[i] \in Issue
    BY <1>0, Version
  <2>2. stored \in Versions
    BY DEF RagTyped
  <2>3. With(stored, i, sync[s].fetched[i]) \in Versions
    BY <2>1, <2>2, WithVersion
  <2>4. QED
    BY <2>2, <2>3 DEF Upsert, UpsertFails, RagTyped
<1>4. /\ sync'[s].pc = pc /\ sync'[s].writing = sync[s].writing \ {i}
      /\ sync'[s].ids = sync[s].ids /\ sync'[s].at = sync[s].at
      /\ sync'[s].fetched = sync[s].fetched
      /\ sync'[s].stale = {} /\ sync'[s].since = sync[s].since
  BY <1>0, <1>2 DEF SyncRecord, Sound
<1>5. Sound(s)'
  BY <1>0, <1>2, <1>3, <1>4 DEF Sound, jiraVars
<1>6. RagTyped'
  BY <1>2, <1>3, <1>5, TypedSync
<1>7. QED
  BY <1>0, <1>2, <1>4, <1>6 DEF pc, Sound

LEMMA DoesDeleteInactive ==
    ASSUME RagTyped, NEW s \in Syncs, DeleteInactive(s)
    PROVE  /\ RagTyped' /\ Untouched(s)
           /\ sync'[s].pc = "saving" /\ sync'[s].ids = sync[s].ids
           /\ sync'[s].fetched = sync[s].fetched /\ sync'[s].at = sync[s].at
           /\ sync'[s].writing = {}
<1>0. /\ Sound(s) /\ sync \in [Syncs -> SyncRecord] /\ sync[s].writing = {}
      /\ sync[s].stale = {}
  BY DEF RagTyped, Sound, DeleteInactive
<1>1. /\ sync' \in [Syncs -> SyncRecord] /\ Untouched(s)
      /\ sync'[s] = [sync[s] EXCEPT !.pc = "saving"]
  BY <1>0 DEF DeleteInactive, SyncRecord, Untouched, Phases
<1>2. UNCHANGED jiraVars /\ stored' \in Versions /\ watermark' \in 0..now
      /\ slow' \in BOOLEAN /\ overlapped' \in BOOLEAN
  BY WithoutVersion DEF DeleteInactive, RagTyped
<1>3. /\ sync'[s].pc = "saving" /\ sync'[s].writing = {}
      /\ sync'[s].ids = sync[s].ids /\ sync'[s].at = sync[s].at
      /\ sync'[s].fetched = sync[s].fetched
      /\ sync'[s].stale = {} /\ sync'[s].since = sync[s].since
  BY <1>0, <1>1 DEF SyncRecord, Sound
<1>4. Sound(s)'
  BY <1>0, <1>1, <1>2, <1>3 DEF Sound, jiraVars
<1>5. QED
  BY <1>1, <1>2, <1>3, <1>4, TypedSync

LEMMA DoesEnd ==
    ASSUME RagTyped, NEW s \in Syncs, Save(s) \/ SyncFails(s)
    PROVE  /\ RagTyped' /\ Untouched(s) /\ sync'[s].pc = "idle" /\ sync'[s].writing = {}
           /\ sync[s].pc # "idle"
<1>1. sync' = [sync EXCEPT ![s] = Idle] /\ UNCHANGED jiraVars /\ UNCHANGED stored
      /\ slow' \in BOOLEAN /\ overlapped' \in BOOLEAN
  <2>1. CASE Save(s)
    <3>1. slow' \in BOOLEAN
      BY <2>1 DEF Save, RagTyped
    <3>2. QED
      BY <2>1, <3>1 DEF Save, RagTyped
  <2>2. CASE SyncFails(s)
    BY <2>2 DEF SyncFails, RagTyped
  <2>3. QED
    BY <2>1, <2>2
<1>2. watermark' \in 0..now /\ sync[s].pc # "idle"
  BY RagAssumption DEF Save, SavedAt, SyncFails, RagTyped
<1>3. QED
  BY <1>1, <1>2, Restarts

-----------------------------------------------------------------------------
(* A change in Jira, at whatever point the syncs stand.                    *)

LEMMA ClockKeeps ==
    ASSUME RagTyped, Tick
    PROVE  RagTyped' /\ (InSequence => InSequence')
<1>1. now \in Nat /\ now' = now + 1 /\ now' \in Delay..MaxTime
  BY RagAssumption DEF RagTyped, Tick
<1>2. ASSUME NEW s \in Syncs PROVE Sound(s)'
  <2>1. Sound(s) /\ sync'[s] = sync[s] /\ sync[s].at \in Nat /\ sync[s].since \in Nat
    BY DEF RagTyped, Sound, SyncRecord, Tick
  <2>2. QED
    BY <1>1, <2>1 DEF Sound
<1>3. watermark' \in 0..now'
  BY <1>1 DEF RagTyped, Tick
<1>4. RagTyped'
  BY <1>1, <1>2, <1>3 DEF RagTyped, Tick
<1>5. InSequence => InSequence'
  BY DEF Tick, InSequence, Alone, Writes, Copied, Listed, Fetched, Written, Refetched, Pending,
         InStep
<1>6. QED
  BY <1>4, <1>5

\* An issue that is not as it was has just been changed.
LEMMA Changed ==
    ASSUME RagTyped, NEW k \in Issues, Change(k)
    PROVE  /\ RagTyped'
           /\ DOMAIN jira' \subseteq DOMAIN jira \cup {k}
           /\ DOMAIN jira \subseteq DOMAIN jira' \cup {k}
           /\ \A i \in DOMAIN jira' :
                  jira'[i].at = now \/ (i # k /\ i \in DOMAIN jira /\ jira'[i] = jira[i])
           /\ UNCHANGED <<now, stored, watermark, sync, slow, overlapped>>
<1>1. changes' \in 1..MaxChanges /\ UNCHANGED <<now, stored, watermark, sync, slow, overlapped>>
  BY RagAssumption DEF Change, RagTyped
<1>2. CASE \E status \in Status :
             jira' = With(jira, k, [change |-> changes', at |-> now, status |-> status])
  <2>1. PICK v \in Issue : v.at = now /\ jira' = With(jira, k, v)
    <3>1. PICK status \in Status :
              jira' = With(jira, k, [change |-> changes', at |-> now, status |-> status])
      BY <1>2
    <3>2. [change |-> changes', at |-> now, status |-> status] \in Issue
      BY <1>1, RagAssumption DEF Issue, RagTyped
    <3>3. QED
      BY <3>1, <3>2
  <2>2. jira \in Versions
    BY DEF RagTyped
  <2>3. /\ jira' \in Versions /\ DOMAIN jira' = {k} \cup DOMAIN jira
        /\ jira'[k] = v /\ \A i \in DOMAIN jira \ {k} : jira'[i] = jira[i]
    BY <2>1, <2>2, WithVersion
  <2>4. RagTyped'
    BY <1>1, <2>3 DEF RagTyped, Sound
  <2>5. QED
    BY <1>1, <2>1, <2>3, <2>4
<1>3. CASE jira' = Without(jira, {k})
  <2>1. /\ jira' \in Versions /\ DOMAIN jira' = DOMAIN jira \ {k}
        /\ \A i \in DOMAIN jira \ {k} : jira'[i] = jira[i]
    BY <1>3, WithoutVersion DEF RagTyped
  <2>2. RagTyped'
    BY <1>1, <2>1 DEF RagTyped, Sound
  <2>3. QED
    BY <1>1, <2>1, <2>2
<1>4. QED
  BY <1>2, <1>3 DEF Change

LEMMA ChangeKeeps ==
    ASSUME RagTyped, InSequence, NEW k \in Issues, Change(k)
    PROVE  InSequence'
<1>1. watermark \in Nat /\ watermark <= now /\ now \in Nat
  BY RagAssumption DEF RagTyped
<1>2. JqlTimestamp(watermark) \in Int /\ JqlTimestamp(watermark) <= watermark
  BY <1>1, JqlBelow
<1>3. now >= JqlTimestamp(watermark)
  BY <1>1, <1>2
<1>4. \A i \in DOMAIN jira' : Refetched(i)' \/ (i # k /\ i \in DOMAIN jira /\ jira'[i] = jira[i])
  BY <1>3, Changed DEF Refetched, JqlTimestamp
<1>5. \A i \in DOMAIN jira' : i \in DOMAIN jira /\ jira'[i] = jira[i] =>
          /\ InStep(i) => InStep(i)'
          /\ Refetched(i) => Refetched(i)'
  BY Changed DEF InStep, Refetched, JqlTimestamp
<1>6. ASSUME NEW i \in DOMAIN jira' PROVE InStep(i)' \/ Refetched(i)'
  BY <1>4, <1>5 DEF InSequence
<1>7. ASSUME NEW s \in Syncs PROVE Copied(s)'
  <2>1. Copied(s) /\ sync'[s] = sync[s] /\ sync[s].at \in Nat /\ sync[s].at <= now /\ stored' = stored
    BY Changed DEF InSequence, RagTyped, Sound, SyncRecord
  <2>2. Listed(s)'
    BY <1>4, <1>5, <2>1, Changed DEF Copied, Listed
  <2>3. Fetched(s)'
    BY <1>4, <1>5, <2>1, Changed DEF Copied, Fetched
  <2>4. ASSUME NEW i \in DOMAIN jira'
        PROVE  \/ jira'[i].at >= sync'[s].at
               \/ i \in DOMAIN jira /\ jira'[i] = jira[i]
    BY <1>1, <2>1, Changed
  <2>5. \A i \in DOMAIN jira' : i \in DOMAIN jira /\ jira'[i] = jira[i] =>
            (Pending(s, i) => Pending(s, i)')
    BY <1>5, <2>1 DEF Pending
  <2>6. Written(s)'
    BY <1>5, <2>1, <2>4, <2>5 DEF Copied, Written
  <2>7. QED
    BY <2>2, <2>3, <2>6 DEF Copied
<1>8. Alone'
  BY Changed DEF InSequence, Alone, Writes
<1>9. QED
  BY <1>6, <1>7, <1>8 DEF InSequence

-----------------------------------------------------------------------------
(* The steps of the one sync that writes.                                  *)

\* Nothing is claimed of a sync that does not write.
LEMMA OnlyOne ==
    ASSUME NEW s \in Syncs, Alone, Untouched(s),
           Writes(s) \/ \A r \in Syncs : ~Writes(r), Copied(s)',
           \A i \in DOMAIN jira' : (InStep(i) \/ Refetched(i))'
    PROVE  InSequence'
<1>1. ASSUME NEW r \in Syncs \ {s}
      PROVE  sync'[r].pc = "idle" /\ sync'[r].writing = {}
  BY DEF Alone, Untouched, Writes
<1>2. \A r \in Syncs \ {s} : Copied(r)'
  BY <1>1 DEF Copied, Listed, Fetched, Written
<1>3. Alone'
  BY <1>1 DEF Alone, Writes
<1>4. QED
  BY <1>2, <1>3 DEF InSequence

LEMMA ListKeeps ==
    ASSUME RagTyped, InSequence, NEW s \in Syncs, ListIssues(s), ~overlapped'
    PROVE  InSequence'
<1>1. \A r \in Syncs : ~Writes(r)
  BY DEF ListIssues
<1>2. UNCHANGED <<jira, stored, watermark>>
  BY DEF ListIssues, jiraVars
<1>3. Copied(s)'
  BY <1>2, DoesList DEF Copied, Listed, Fetched, Written
<1>4. \A i \in DOMAIN jira' : (InStep(i) \/ Refetched(i))'
  BY <1>2 DEF InSequence, InStep, Refetched, JqlTimestamp
<1>5. QED
  BY <1>1, <1>3, <1>4, DoesList, OnlyOne DEF InSequence

LEMMA ReconcileKeeps ==
    ASSUME RagTyped, InSequence, NEW s \in Syncs, Scroll(s) \/ DeleteStale(s) \/ ReadWatermark(s)
    PROVE  InSequence'
<1>1. Writes(s) /\ Copied(s) /\ Alone /\ Sound(s)
  BY DEF InSequence, Writes, Scroll, DeleteStale, ReadWatermark, RagTyped
<1>2. UNCHANGED <<jira, watermark>>
  BY DEF Scroll, DeleteStale, ReadWatermark, jiraVars
<1>3. \A i : Refetched(i)' = Refetched(i)
  BY <1>2 DEF Refetched, JqlTimestamp
<1>4. CASE Scroll(s)
  <2>1. stored' = stored
    BY <1>4 DEF Scroll
  <2>2. Copied(s)'
    BY <1>1, <1>2, <1>3, <1>4, <2>1, DoesScroll DEF Copied, Listed, Fetched, Written, Scroll
  <2>3. \A i \in DOMAIN jira' : (InStep(i) \/ Refetched(i))'
    BY <1>2, <1>3, <2>1 DEF InSequence, InStep
  <2>4. QED
    BY <1>1, <1>4, <2>2, <2>3, DoesScroll, OnlyOne
<1>5. CASE DeleteStale(s)
  <2>1. /\ DOMAIN stored' = DOMAIN stored \ sync[s].stale
        /\ \A i \in DOMAIN stored' : stored'[i] = stored[i]
    <3>1. PICK gone : gone = sync[s].stale
      OBVIOUS
    <3>2. stored \in Versions
      BY DEF RagTyped
    <3>3. stored' = Without(stored, gone)
      BY <1>5, <3>1 DEF DeleteStale
    <3>4. /\ stored' \in Versions /\ DOMAIN stored' = DOMAIN stored \ gone
          /\ \A i \in DOMAIN stored \ gone : stored'[i] = stored[i]
      BY <3>2, <3>3, WithoutVersion
    <3>5. QED
      BY <3>1, <3>4
  <2>2. Copied(s)'
    BY <1>1, <1>2, <1>5, <2>1, DoesDeleteStale DEF Copied, Listed, Fetched, Written, DeleteStale
  <2>3. ASSUME NEW i \in DOMAIN jira' PROVE (InStep(i) \/ Refetched(i))'
    <3>1. CASE i \in sync[s].stale
      <4>1. i \notin sync[s].ids
        BY <1>1, <3>1 DEF Sound
      <4>2. QED
        BY <1>1, <1>2, <1>3, <1>5, <4>1 DEF Copied, Listed, DeleteStale
    <3>2. CASE i \notin sync[s].stale
      BY <1>2, <1>3, <2>1, <3>2 DEF InSequence, InStep
    <3>3. QED
      BY <3>1, <3>2
  <2>4. QED
    BY <1>1, <1>5, <2>2, <2>3, DoesDeleteStale, OnlyOne
<1>6. CASE ReadWatermark(s)
  <2>1. stored' = stored
    BY <1>6 DEF ReadWatermark
  <2>2. Copied(s)'
    BY <1>1, <1>2, <1>6, <2>1, DoesRead DEF Copied, Listed, Fetched, Written, ReadWatermark
  <2>3. \A i \in DOMAIN jira' : (InStep(i) \/ Refetched(i))'
    BY <1>2, <1>3, <2>1 DEF InSequence, InStep
  <2>4. QED
    BY <1>1, <1>6, <2>2, <2>3, DoesRead, OnlyOne
<1>7. QED
  BY <1>4, <1>5, <1>6

LEMMA FetchKeeps ==
    ASSUME RagTyped, InSequence, NEW s \in Syncs, Fetch(s)
    PROVE  InSequence'
<1>1. Writes(s) /\ Copied(s) /\ Alone
  BY DEF InSequence, Writes, Fetch
<1>2. UNCHANGED <<jira, watermark, stored>>
  BY DEF Fetch, jiraVars
<1>3. \A i : Refetched(i)' = Refetched(i) /\ InStep(i)' = InStep(i)
  BY <1>2 DEF Refetched, JqlTimestamp, InStep
<1>4. \A i \in DOMAIN jira : i \in Query(s) <=> Refetched(i)
  BY <1>1 DEF Query, Refetched, Copied, Fetched, Fetch
<1>5. Listed(s)'
  BY <1>1, <1>2, DoesFetch DEF Copied, Listed, Fetch
<1>6. Fetched(s)'
  BY <1>2, <1>3, <1>4, DoesFetch DEF Fetched
<1>7. ASSUME NEW i \in DOMAIN jira PROVE Pending(s, i)'
  <2>1. CASE i \in Query(s)
    BY <1>2, <2>1, DoesFetch DEF Pending
  <2>2. CASE i \notin Query(s)
    BY <1>2, <1>3, <1>4, <2>2, DoesFetch DEF Pending, InSequence
  <2>3. QED
    BY <2>1, <2>2
<1>8. Written(s)'
  BY <1>2, <1>7, DoesFetch DEF Written
<1>9. \A i \in DOMAIN jira' : (InStep(i) \/ Refetched(i))'
  BY <1>2, <1>3 DEF InSequence
<1>10. QED
  BY <1>1, <1>5, <1>6, <1>8, <1>9, DoesFetch, OnlyOne DEF Copied

LEMMA UpsertKeeps ==
    ASSUME RagTyped, InSequence, NEW s \in Syncs, NEW k \in Issues,
           Upsert(s, k) \/ UpsertFails(s, k)
    PROVE  InSequence'
<1>1. Writes(s) /\ Copied(s) /\ Alone /\ k \in sync[s].writing /\ Sound(s)
  BY DEF InSequence, Writes, Upsert, UpsertFails, RagTyped
<1>2. UNCHANGED <<jira, watermark>>
  BY DEF Upsert, UpsertFails, jiraVars
<1>3. \A i : Refetched(i)' = Refetched(i)
  BY <1>2 DEF Refetched, JqlTimestamp
<1>4. Fetched(s)'
  BY <1>1, <1>2, <1>3, DoesUpsert DEF Copied, Fetched
<1>5. CASE UpsertFails(s, k)
  <2>1. stored' = stored /\ sync'[s].pc = "idle"
    BY <1>5 DEF UpsertFails, RagTyped
  <2>2. Listed(s)' /\ Written(s)'
    BY <2>1 DEF Listed, Written
  <2>3. \A i \in DOMAIN jira' : (InStep(i) \/ Refetched(i))'
    BY <1>2, <1>3, <2>1 DEF InSequence, InStep
  <2>4. QED
    BY <1>1, <1>4, <2>2, <2>3, DoesUpsert, OnlyOne DEF Copied
<1>6. CASE Upsert(s, k)
  <2>1. /\ DOMAIN stored' = {k} \cup DOMAIN stored
        /\ stored'[k] = sync[s].fetched[k]
        /\ \A i \in DOMAIN stored \ {k} : stored'[i] = stored[i]
    <3>1. PICK v \in Issue : v = sync[s].fetched[k]
      BY <1>1, Version DEF Sound, SyncRecord
    <3>2. stored \in Versions
      BY DEF RagTyped
    <3>3. stored' = With(stored, k, v)
      BY <1>6, <3>1 DEF Upsert
    <3>4. /\ stored' \in Versions /\ DOMAIN stored' = {k} \cup DOMAIN stored
          /\ stored'[k] = v /\ \A i \in DOMAIN stored \ {k} : stored'[i] = stored[i]
      BY <3>1, <3>2, <3>3, WithVersion
    <3>5. QED
      BY <3>1, <3>4
  <2>2. sync'[s].pc = sync[s].pc /\ k \in DOMAIN sync[s].fetched
    BY <1>6, DoesUpsert
  <2>3. k \in DOMAIN jira => Refetched(k)
    BY <1>1, <2>2 DEF Copied, Fetched
  <2>4. ASSUME NEW i \in DOMAIN jira' PROVE (InStep(i) \/ Refetched(i))'
    BY <1>2, <1>3, <2>1, <2>3 DEF InSequence, InStep
  <2>5. Listed(s)'
    BY <1>1, <2>1, <2>2, DoesUpsert DEF Copied, Listed, Fetched
  <2>6. ASSUME NEW i \in DOMAIN jira, Pending(s, i) PROVE Pending(s, i)'
    <3>1. CASE i = k
      BY <1>2, <2>1, <2>2, <2>6, <3>1, DoesUpsert DEF Pending
    <3>2. CASE i # k
      BY <1>2, <2>1, <2>6, <3>2, DoesUpsert DEF Pending, InStep
    <3>3. QED
      BY <3>1, <3>2
  <2>7. Written(s)'
    BY <1>1, <1>2, <2>2, <2>6, DoesUpsert DEF Copied, Written
  <2>8. QED
    BY <1>1, <1>4, <2>4, <2>5, <2>7, DoesUpsert, OnlyOne DEF Copied
<1>7. QED
  BY <1>5, <1>6

LEMMA DeleteInactiveKeeps ==
    ASSUME RagTyped, InSequence, NEW s \in Syncs, DeleteInactive(s)
    PROVE  InSequence'
<1> DEFINE inactive == DOMAIN sync[s].fetched \ Active(sync[s].fetched)
<1>1. Writes(s) /\ Copied(s) /\ Alone /\ sync[s].pc = "upserting" /\ sync[s].writing = {}
  BY DEF InSequence, Writes, DeleteInactive
<1>2. UNCHANGED <<jira, watermark>>
  BY DEF DeleteInactive, jiraVars
<1>3. \A i : Refetched(i)' = Refetched(i)
  BY <1>2 DEF Refetched, JqlTimestamp
<1>4. /\ DOMAIN stored' = DOMAIN stored \ inactive
      /\ \A i \in DOMAIN stored' : stored'[i] = stored[i]
  <2>1. PICK gone : gone = inactive
    OBVIOUS
  <2>2. stored \in Versions
    BY DEF RagTyped
  <2>3. stored' = Without(stored, gone)
    BY <2>1 DEF DeleteInactive
  <2>4. /\ stored' \in Versions /\ DOMAIN stored' = DOMAIN stored \ gone
        /\ \A i \in DOMAIN stored \ gone : stored'[i] = stored[i]
    BY <2>2, <2>3, WithoutVersion
  <2>5. QED
    BY <2>1, <2>4
<1>5. Fetched(s)' /\ Listed(s)'
  BY <1>1, <1>2, <1>3, <1>4, DoesDeleteInactive DEF Copied, Fetched, Listed
<1>6. ASSUME NEW i \in DOMAIN jira, Pending(s, i) PROVE InStep(i)'
  <2>1. CASE i \in DOMAIN sync[s].fetched
    BY <1>1, <1>2, <1>4, <1>6, <2>1 DEF Pending, InStep, Active
  <2>2. CASE i \notin DOMAIN sync[s].fetched
    BY <1>2, <1>4, <1>6, <2>2 DEF Pending, InStep
  <2>3. QED
    BY <2>1, <2>2
<1>7. Written(s)'
  BY <1>1, <1>2, <1>6, DoesDeleteInactive DEF Copied, Written
<1>8. ASSUME NEW i \in DOMAIN jira' PROVE (InStep(i) \/ Refetched(i))'
  <2>1. CASE i \in inactive
    BY <1>1, <1>2, <1>3, <2>1 DEF Copied, Fetched
  <2>2. CASE i \notin inactive
    BY <1>2, <1>3, <1>4, <2>2 DEF InSequence, InStep
  <2>3. QED
    BY <2>1, <2>2
<1>9. QED
  BY <1>1, <1>5, <1>7, <1>8, DoesDeleteInactive, OnlyOne DEF Copied

\* A save within the delay moves the watermark to no later than the fetch.
LEMMA EndKeeps ==
    ASSUME RagTyped, InSequence, NEW s \in Syncs, Save(s) \/ SyncFails(s), ~slow'
    PROVE  InSequence'
<1>1. Writes(s) /\ Copied(s) /\ Alone /\ Sound(s)
  BY DoesEnd DEF InSequence, Writes, RagTyped
<1>2. UNCHANGED <<jira, stored>>
  BY DEF Save, SyncFails, jiraVars
<1>3. \A i : InStep(i)' = InStep(i)
  BY <1>2 DEF InStep
<1>4. ASSUME SyncFails(s), NEW i \in DOMAIN jira'
      PROVE  (InStep(i) \/ Refetched(i))'
  <2>1. Refetched(i)' = Refetched(i)
    BY <1>2, <1>4 DEF Refetched, JqlTimestamp, SyncFails
  <2>2. QED
    BY <1>2, <1>3, <2>1 DEF InSequence
<1>5. ASSUME Save(s), NEW i \in DOMAIN jira'
      PROVE  (InStep(i) \/ Refetched(i))'
  <2>1. /\ watermark' = now - Delay /\ now - sync[s].at <= Delay
        /\ now \in Nat /\ Delay \in Nat /\ now >= Delay /\ sync[s].at \in Nat
    <3>1. watermark' = now - Delay /\ (slow' <=> slow \/ now - sync[s].at > Delay)
      BY <1>5 DEF Save, SavedAt, RagTyped
    <3>2. now \in Nat /\ Delay \in Nat /\ now >= Delay /\ sync[s].at \in Nat
      BY <1>1, RagAssumption DEF Sound, SyncRecord, RagTyped
    <3>3. QED
      BY <3>1, <3>2
  <2>2. watermark' \in Nat /\ watermark' <= sync[s].at
    BY <2>1
  <2>3. JqlTimestamp(watermark') \in Int /\ JqlTimestamp(watermark') <= watermark'
    BY <2>2, JqlBelow
  <2>4. InStep(i) \/ Refetched(i)'
    <3>1. jira[i].at \in Nat
      BY <1>2, Version DEF RagTyped, Issue
    <3>2. InStep(i) \/ jira[i].at >= sync[s].at
      BY <1>1, <1>2, <1>5 DEF Copied, Written, Save
    <3>3. QED
      BY <1>2, <2>1, <2>2, <2>3, <3>1, <3>2 DEF Refetched, JqlTimestamp
  <2>5. QED
    BY <1>2, <1>3, <2>4
<1>6. \A i \in DOMAIN jira' : (InStep(i) \/ Refetched(i))'
  BY <1>4, <1>5
<1>7. Copied(s)'
  BY DoesEnd DEF Copied, Listed, Fetched, Written
<1>8. QED
  BY <1>1, <1>6, <1>7, DoesEnd, OnlyOne

-----------------------------------------------------------------------------
(* The invariant and what follows from it.                                 *)

LEMMA RagStart == Init => RagInv
<1> SUFFICES ASSUME Init PROVE RagInv
  OBVIOUS
<1>1. /\ RagTyped /\ DOMAIN jira = {} /\ DOMAIN stored = {}
      /\ \A s \in Syncs : sync[s].pc = "idle" /\ sync[s].writing = {}
  BY TypedStart, NoVersion DEF Init, Idle
<1>2. InSequence
  BY <1>1 DEF InSequence, Alone, Writes, Copied, Listed, Fetched, Written
<1>3. QED
  BY <1>1, <1>2 DEF RagInv

LEMMA SyncKeeps ==
    ASSUME RagTyped, NEW s \in Syncs, SyncStep(s)
    PROVE  RagTyped' /\ (InSequence /\ ~slow' /\ ~overlapped' => InSequence')
<1>1. CASE ListIssues(s)
  BY <1>1, DoesList, ListKeeps
<1>2. CASE Scroll(s)
  BY <1>2, DoesScroll, ReconcileKeeps
<1>3. CASE DeleteStale(s)
  BY <1>3, DoesDeleteStale, ReconcileKeeps
<1>4. CASE ReadWatermark(s)
  BY <1>4, DoesRead, ReconcileKeeps
<1>5. CASE Fetch(s)
  BY <1>5, DoesFetch, FetchKeeps
<1>6. CASE \E i \in Issues : Upsert(s, i) \/ UpsertFails(s, i)
  BY <1>6, DoesUpsert, UpsertKeeps
<1>7. CASE DeleteInactive(s)
  BY <1>7, DoesDeleteInactive, DeleteInactiveKeeps
<1>8. CASE Save(s) \/ SyncFails(s)
  BY <1>8, DoesEnd, EndKeeps
<1>9. QED
  BY <1>1, <1>2, <1>3, <1>4, <1>5, <1>6, <1>7, <1>8 DEF SyncStep

\* A sync that was slow or overlapped stays on record.
LEMMA GhostsStay ==
    ASSUME RagTyped, Next
    PROVE  (slow => slow') /\ (overlapped => overlapped')
<1>1. ASSUME NEW s \in Syncs, SyncStep(s) PROVE (slow => slow') /\ (overlapped => overlapped')
  <2>1. CASE ListIssues(s)
    BY <2>1 DEF ListIssues
  <2>2. CASE Scroll(s) \/ DeleteStale(s) \/ ReadWatermark(s) \/ Fetch(s)
    <3>1. slow' = slow /\ overlapped' = overlapped
      BY <2>2, Zenon DEF Scroll, DeleteStale, ReadWatermark, Fetch
    <3>2. QED
      BY <3>1
  <2>3. CASE \E i \in Issues : Upsert(s, i) \/ UpsertFails(s, i)
    BY <2>3 DEF Upsert, UpsertFails
  <2>4. CASE DeleteInactive(s) \/ SyncFails(s)
    BY <2>4 DEF DeleteInactive, SyncFails
  <2>5. CASE Save(s)
    <3>1. (slow' <=> slow \/ now - sync[s].at > Delay) /\ overlapped' = overlapped
      BY <2>5 DEF Save, RagTyped
    <3>2. QED
      BY <3>1
  <2>6. QED
    BY <1>1, <2>1, <2>2, <2>3, <2>4, <2>5 DEF SyncStep
<1>2. CASE Tick
  BY <1>2 DEF Tick
<1>3. CASE \E i \in Issues : Change(i)
  BY <1>3 DEF Change
<1>4. QED
  BY <1>1, <1>2, <1>3 DEF Next

LEMMA RagKeeps ==
    ASSUME RagInv, [Next]_vars
    PROVE  RagInv'
<1>1. RagTyped
  BY DEF RagInv
<1>2. CASE Tick
  BY <1>1, <1>2, ClockKeeps, GhostsStay DEF RagInv, Next
<1>3. CASE \E i \in Issues : Change(i)
  BY <1>1, <1>3, Changed, ChangeKeeps DEF RagInv
<1>4. CASE \E s \in Syncs : SyncStep(s)
  BY <1>1, <1>4, SyncKeeps, GhostsStay DEF RagInv, Next
<1>5. CASE UNCHANGED vars
  BY <1>5 DEF vars, jiraVars, RagInv, RagTyped, Sound, InSequence, Alone, Writes, Copied, Listed,
              Fetched, Written, Refetched, Pending, InStep
<1>6. QED
  BY <1>2, <1>3, <1>4, <1>5 DEF Next

LEMMA RagInvariant == Spec => []RagInv
<1>1. RagInv /\ [Next]_vars => RagInv'
  BY RagKeeps
<1>2. QED
  BY RagStart, <1>1, PTL DEF Spec

\* Every variable of the synchronisation keeps its type: what a sync removes is none of what
\* Jira listed, and what it writes is what it fetched.
THEOREM RagTypeCorrect == Spec => []RagTypeOK
<1>1. RagInv => RagTypeOK
  BY TypedImplies DEF RagInv
<1>2. QED
  BY RagInvariant, <1>1, PTL

\* rag_sync_service.py: however many issues change, are deleted or created again while a
\* sync is under way, and wherever it fails, the next sync will fetch what is not in step.
THEOREM NoChangeIsMissed == Spec => []NothingMissed
<1>1. RagInv => NothingMissed
  BY DEF RagInv, InSequence, Refetched, NothingMissed
<1>2. QED
  BY RagInvariant, <1>1, PTL

\* A sync that saves its watermark has left the copy, and what the incident agent is
\* offered, as Jira was when the sync fetched.
THEOREM SyncsCatchUp == Spec => CatchesUp
<1>1. ASSUME RagInv, NEW s \in Syncs, Save(s), ~slow, ~overlapped,
             NEW i \in Issues, Settled(s, i)
      PROVE  /\ InStep(i)
             /\ i \in Candidates <=> i \in DOMAIN jira /\ jira[i].status = "open"
  <2>1. Copied(s) /\ sync[s].pc = "saving" /\ Sound(s) /\ jira \in Versions
    BY <1>1 DEF RagInv, RagTyped, InSequence, Save
  <2>2. CASE i \in DOMAIN jira /\ jira[i].at < sync[s].at
    <3>1. jira[i] \in Issue
      BY <2>1, <2>2, Version
    <3>2. jira[i].at \in Int /\ sync[s].at \in Int /\ jira[i].status \in Status
      BY <2>1, <3>1 DEF Issue, Sound, SyncRecord
    <3>3. InStep(i)
      BY <2>1, <2>2, <3>2 DEF Copied, Written
    <3>4. QED
      BY <2>2, <3>2, <3>3 DEF InStep, Candidates, Hits, Status, VALID_STATUSES, TERMINAL_STATUSES
  <2>3. CASE i \notin DOMAIN jira /\ i \notin sync[s].ids
    <3>1. i \notin DOMAIN stored
      BY <2>1, <2>3 DEF Copied, Listed
    <3>2. QED
      BY <2>3, <3>1 DEF InStep, Candidates, Hits
  <2>4. QED
    BY <1>1, <2>2, <2>3 DEF Settled
<1>2. RagInv /\ [Next]_vars => [\A s \in Syncs : Save(s) => slow \/ overlapped \/
          \A i \in Issues : Settled(s, i) =>
              /\ InStep(i)
              /\ i \in Candidates <=> i \in DOMAIN jira /\ jira[i].status = "open"]_vars
  BY <1>1
<1>3. QED
  BY RagInvariant, <1>2, PTL DEF Spec, CatchesUp
=============================================================================
