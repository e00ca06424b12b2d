------------------------------- MODULE RagSync -------------------------------
(***************************************************************************)
(* The copy of a Jira project's issues in the vector database, by which    *)
(* the incident agent looks for duplicates                                 *)
(* (common/services/rag_sync_service.py, vector_db_service.py,             *)
(* agents/incident_creation/main.py).  A sync removes what was deleted,    *)
(* fetches what changed since the watermark, writes it and moves the       *)
(* watermark to a minute ago.  POST /update-rag-db takes no lock: syncs    *)
(* may overlap.  The embedding service's retries make a write late.        *)
(***************************************************************************)
EXTENDS Integers, Functions

CONSTANTS
    Issues,      \* the ids of issues
    Syncs,       \* concurrent requests to update the database
    Delay,       \* EXECUTION_DELAY_SECONDS, in ticks
    Minute,      \* the precision of a time in JQL, in ticks
    MaxChanges,  \* bound: changes made in Jira
    MaxTime      \* bound: ticks

ASSUME RagAssumption ==
    /\ {MaxChanges, MaxTime} \subseteq Nat
    /\ Delay \in 0..MaxTime
    /\ Minute \in Nat \ {0}

VARIABLES
    now,         \* the clock of Jira and of the orchestrator
    changes,     \* changes made in Jira so far
    jira,        \* the issues in Jira: their last change, its time and their status
    stored,      \* the points of the tickets collection: what was fetched of the issue
    watermark,   \* last_update of the project's point in the metadata collection
    sync,        \* what each sync holds
    slow,        \* ghost: some sync saved more than Delay after it had fetched
    overlapped   \* ghost: some sync began while another one still wrote

jiraVars == <<now, changes, jira>>
vars == <<jiraVars, stored, watermark, sync, slow, overlapped>>

VALID_STATUSES    == {"open", "done"}
TERMINAL_STATUSES == {"done", "closed"}
Status == VALID_STATUSES \cup TERMINAL_STATUSES
Issue  == [change : 1..MaxChanges, at : 0..MaxTime, status : Status]

Versions == UNION {[keys -> Issue] : keys \in SUBSET Issues}

\* ids: what Jira listed; stale: points to remove; since: the watermark read; fetched:
\* the issues of the query; at: when; writing: those whose upsert has not returned.
Phases == {"idle", "listed", "scrolled", "reconciled", "fetching", "upserting", "saving"}
Idle == [pc |-> "idle", ids |-> {}, stale |-> {}, since |-> 0, fetched |-> <<>>, at |-> 0,
         writing |-> {}]

RagTypeOK ==
    /\ now \in Delay..MaxTime /\ watermark \in 0..MaxTime /\ changes \in 0..MaxChanges
    /\ jira \in Versions /\ stored \in Versions
    /\ \A s \in Syncs :
        /\ sync[s].pc \in Phases
        /\ sync[s].fetched \in Versions
        /\ {sync[s].since, sync[s].at} \subseteq 0..now
        /\ sync[s].ids \subseteq Issues /\ sync[s].stale \subseteq Issues \ sync[s].ids
        /\ sync[s].writing \subseteq DOMAIN sync[s].fetched
        /\ sync[s].writing # {} => sync[s].pc \in {"upserting", "idle"}
    /\ {slow, overlapped} \subseteq BOOLEAN

Without(db, ids)   == Restrict(db, DOMAIN db \ ids)
With(db, i, issue) == [j \in DOMAIN db \cup {i} |-> IF j = i THEN issue ELSE db[j]]

-----------------------------------------------------------------------------
(* Jira.                                                                   *)

Tick ==
    /\ now < MaxTime
    /\ now' = now + 1
    /\ UNCHANGED <<changes, jira, stored, watermark, sync, slow, overlapped>>

\* An issue is created or changed, or deleted for good.
Change(i) ==
    /\ changes < MaxChanges
    /\ changes' = changes + 1
    /\ \/ \E status \in Status :
            jira' = With(jira, i, [change |-> changes', at |-> now, status |-> status])
       \/ i \in DOMAIN jira /\ jira' = Without(jira, {i})
    /\ UNCHANGED <<now, stored, watermark, sync, slow, overlapped>>

-----------------------------------------------------------------------------
(* JiraRagSyncService.sync_project.                                        *)

\* Still at work, or failed with upserts under way: gather() does not wait for them.
Writes(s) == sync[s].pc # "idle" \/ sync[s].writing # {}

\* _reconcile_deleted_issues: the issues that Jira lists, ...
ListIssues(s) ==
    /\ ~Writes(s)
    /\ sync' = [sync EXCEPT ![s] = [Idle EXCEPT !.pc = "listed", !.ids = DOMAIN jira]]
    /\ overlapped' = (overlapped \/ \E r \in Syncs : Writes(r))
    /\ UNCHANGED <<jiraVars, stored, watermark, slow>>

\* Seeded fault: the difference is taken the wrong way round.
ScrollSwapped(s) ==
    /\ sync[s].pc = "listed"
    /\ sync' = [sync EXCEPT ![s].pc = "scrolled",
                            ![s].stale = sync[s].ids \ DOMAIN stored]
    /\ UNCHANGED <<jiraVars, stored, watermark, slow, overlapped>>

\* ... the points that are stored, ...
Scroll(s) ==
    /\ sync[s].pc = "listed"
    /\ sync' = [sync EXCEPT ![s].pc = "scrolled",
                            ![s].stale = DOMAIN stored \ sync[s].ids]
    /\ UNCHANGED <<jiraVars, stored, watermark, slow, overlapped>>

\* Seeded fault: what is stale is not removed.
DeleteStaleNot(s) ==
    /\ sync[s].pc = "scrolled"
    /\ sync' = [sync EXCEPT ![s].pc = "reconciled", ![s].stale = {}]
    /\ UNCHANGED <<jiraVars, stored, watermark, slow, overlapped>>

\* ... and of these the ones that are gone from Jira are deleted.
DeleteStale(s) ==
    /\ sync[s].pc = "scrolled"
    /\ stored' = Without(stored, sync[s].stale)
    /\ sync' = [sync EXCEPT ![s].pc = "reconciled", ![s].stale = {}]
    /\ UNCHANGED <<jiraVars, watermark, slow, overlapped>>

\* _get_last_update_timestamp.
ReadWatermark(s) ==
    /\ sync[s].pc = "reconciled"
    /\ sync' = [sync EXCEPT ![s].pc = "fetching", ![s].since = watermark]
    /\ UNCHANGED <<jiraVars, stored, watermark, slow, overlapped>>

\* A query states times to the minute.
JqlTimestamp(t) == t - (t % Minute)

Active(fetched) == {i \in DOMAIN fetched : fetched[i].status \in VALID_STATUSES}

\* _fetch_issues_updated_since; the upserts of the active issues start together.
Fetch(s) ==
    /\ sync[s].pc = "fetching"
    /\ LET fetched == Restrict(jira, {i \in DOMAIN jira : jira[i].at >= JqlTimestamp(sync[s].since)})
       IN  sync' = [sync EXCEPT ![s].pc = "upserting", ![s].at = now, ![s].ids = @ \cup DOMAIN fetched,
                                ![s].fetched = fetched, ![s].writing = Active(fetched)]
    /\ UNCHANGED <<jiraVars, stored, watermark, slow, overlapped>>

\* An issue is embedded, however often that is retried, and written as it was fetched.
Upsert(s, i) ==
    /\ i \in sync[s].writing
    /\ stored' = With(stored, i, sync[s].fetched[i])
    /\ sync' = [sync EXCEPT ![s].writing = @ \ {i}]
    /\ UNCHANGED <<jiraVars, watermark, slow, overlapped>>

\* The first upsert to fail ends the sync; the others go on.
UpsertFails(s, i) ==
    /\ i \in sync[s].writing
    /\ sync' = [sync EXCEPT ![s].writing = @ \ {i}, ![s].pc = "idle"]
    /\ UNCHANGED <<jiraVars, stored, watermark, slow, overlapped>>

\* Once all are written, the inactive issues are deleted.
DeleteInactive(s) ==
    /\ sync[s].pc = "upserting"
    /\ sync[s].writing = {}
    /\ stored' = Without(stored, DOMAIN sync[s].fetched \ Active(sync[s].fetched))
    /\ sync' = [sync EXCEPT ![s].pc = "saving"]
    /\ UNCHANGED <<jiraVars, watermark, slow, overlapped>>

\* Seeded fault: the time of the save itself becomes the watermark.
SavedAtNow == now

\* _save_last_update_timestamp.
SavedAt == now - Delay

Save(s) ==
    /\ sync[s].pc = "saving"
    /\ watermark' = SavedAt
    /\ slow' = (slow \/ now - sync[s].at > Delay)
    /\ sync' = [sync EXCEPT ![s] = Idle]
    /\ UNCHANGED <<jiraVars, stored, overlapped>>

\* Any other call fails, the deletion of the inactive issues after the last upsert
\* included: the request answers 500 and the watermark stays.
SyncFails(s) ==
    /\ sync[s].pc # "idle"
    /\ sync[s].writing = {}
    /\ sync' = [sync EXCEPT ![s] = Idle]
    /\ UNCHANGED <<jiraVars, stored, watermark, slow, overlapped>>

-----------------------------------------------------------------------------
Init ==
    /\ now = Delay /\ changes = 0
    /\ watermark = 0     \* DEFAULT_LAST_UPDATE
    /\ jira = <<>> /\ stored = <<>>
    /\ sync = [s \in Syncs |-> Idle]
    /\ slow = FALSE /\ overlapped = FALSE

SyncStep(s) ==
    \/ ListIssues(s) \/ Scroll(s) \/ DeleteStale(s) \/ ReadWatermark(s) \/ Fetch(s)
    \/ \E i \in Issues : Upsert(s, i) \/ UpsertFails(s, i)
    \/ DeleteInactive(s) \/ Save(s) \/ SyncFails(s)

Next ==
    \/ Tick
    \/ \E i \in Issues : Change(i)
    \/ \E s \in Syncs : SyncStep(s)

Spec == Init /\ [][Next]_vars

-----------------------------------------------------------------------------
\* What a search of the tickets that leaves out some statuses can find.
Hits(excluded) == {i \in DOMAIN stored : stored[i].status \notin excluded}

\* _search_duplicate_candidates_in_rag: what the incident agent is offered.
Candidates == Hits(TERMINAL_STATUSES)

\* The copy of an issue is what the next incident should be compared with: its last
\* version while its status is a valid one, and nothing otherwise.
InStep(i) ==
    /\ i \in DOMAIN stored <=> i \in DOMAIN jira /\ jira[i].status \in VALID_STATUSES
    /\ i \in DOMAIN stored => stored[i] = jira[i]

\* No change is ever missed: a copy that is out of step will be fetched by the next sync,
\* or the issue is gone and will be removed by it.  Only two things break this: a sync
\* that saves later than Delay after its fetch, and syncs that overlap, the left-over
\* upserts of a failed one included.
NothingMissed ==
    slow \/ overlapped \/
        \A i \in DOMAIN jira : InStep(i) \/ jira[i].at >= JqlTimestamp(watermark)

\* A completed sync leaves every issue in step that did not change after its fetch, and
\* no point of an issue that was deleted before it listed them; of these, the incident
\* agent is offered the open ones.
Settled(s, i) ==
    \/ i \in DOMAIN jira /\ jira[i].at < sync[s].at
    \/ i \notin DOMAIN jira /\ i \notin sync[s].ids

CatchesUp ==
    [][\A s \in Syncs : Save(s) => slow \/ overlapped \/
        \A i \in Issues : Settled(s, i) =>
            /\ InStep(i)
            /\ i \in Candidates <=> i \in DOMAIN jira /\ jira[i].status = "open"]_vars
=============================================================================
