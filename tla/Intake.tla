-------------------------------- MODULE Intake --------------------------------
(***************************************************************************)
(* The webhooks of the orchestrator and their job queue                    *)
(* (orchestrator/main.py: _RequirementReviewGuard, the two triggers,       *)
(* _pipeline_consumer).  A requirement event passes the guard's two        *)
(* windows; a story event is not guarded.  Either puts a job on the queue, *)
(* and a semaphore lets a few jobs run at once.                            *)
(***************************************************************************)
EXTENDS Integers, Sequences, FiniteSets, Functions

CONSTANTS
    Items,          \* the work items of Feishu Project that send events
    DedupWindow,    \* REQUIREMENT_REVIEW_DEDUP_WINDOW_SECONDS, in ticks
    Minute,         \* the 60 seconds of the rate cap, in ticks
    MaxPerMinute,   \* REQUIREMENT_REVIEW_MAX_PER_MINUTE
    MaxConcurrent,  \* MAX_CONCURRENT_PIPELINES
    MaxJobs,        \* bound: accepted events
    MaxStories,     \* bound: of these, story events
    MaxTime         \* bound: ticks

ASSUME IntakeAssumption ==
    /\ {DedupWindow, Minute, MaxPerMinute, MaxJobs, MaxStories, MaxTime} \subseteq Nat
    /\ MaxConcurrent \in Nat \ {0}

VARIABLES
    now,            \* time.monotonic()
    lastSeen,       \* _last_seen: when each remembered work item was accepted
    globalWindow,   \* _global_window: its entries, named by the job they stand for
    jobs,           \* the accepted jobs, in order; of a review also the work item and when
    phase,          \* where each job stands
    queue,          \* _pipeline_queue
    unfinished,     \* its count of jobs put and not yet task_done
    waiting,        \* jobs that wait for the semaphore, in order
    permits         \* the semaphore's value

guardVars  == <<now, lastSeen, globalWindow>>
queueVars  == <<queue, unfinished, waiting, permits>>
intakeVars == <<guardVars, jobs, phase, queueVars>>

Reviews == {j \in DOMAIN jobs : jobs[j].kind = "review"}

Job == [kind : {"review"}, item : Items, at : 0..MaxTime] \cup [kind : {"pipeline"}]
Phases == {"queued", "waiting", "requesting", "generating", "batching", "classifying",
           "reviewing", "ended"}

IntakeTypeOK ==
    /\ now \in 0..MaxTime
    /\ DOMAIN lastSeen \subseteq Items /\ Range(lastSeen) \subseteq 0..MaxTime
    /\ globalWindow \subseteq DOMAIN jobs
    /\ jobs \in Seq(Job)
    /\ phase \in [DOMAIN jobs -> Phases]
    /\ queue \in Seq(DOMAIN jobs)
    /\ unfinished \in Nat
    /\ waiting \in Seq(DOMAIN jobs)
    /\ permits \in 0..MaxConcurrent

IntakeInit ==
    /\ now = 0
    /\ lastSeen = <<>>
    /\ globalWindow = {}
    /\ jobs = <<>>
    /\ phase = <<>>
    /\ queue = <<>>
    /\ unfinished = 0
    /\ waiting = <<>>
    /\ permits = MaxConcurrent

\* Only differences matter: the clock starts with the first requirement event.
Tick ==
    /\ Reviews # {}
    /\ now < MaxTime
    /\ now' = now + 1
    /\ UNCHANGED <<lastSeen, globalWindow, jobs, phase, queueVars>>

-----------------------------------------------------------------------------
(* _RequirementReviewGuard.check: its lock is held and nothing is awaited. *)

\* Seeded fault: an item is forgotten at the end of the window, not after it.
RememberedLess == Restrict(lastSeen, {i \in DOMAIN lastSeen : now - lastSeen[i] < DedupWindow})

\* What is left of the two windows once expired entries are evicted.
Remembered == Restrict(lastSeen, {i \in DOMAIN lastSeen : now - lastSeen[i] <= DedupWindow})
InWindow   == {j \in globalWindow : now - jobs[j].at <= Minute}

\* The rate is looked at first: over it, a duplicate counts as rate limited.
DropReason(i) ==
    CASE Cardinality(InWindow) >= MaxPerMinute -> "rate_limited"
      [] Cardinality(InWindow) < MaxPerMinute /\ i \in DOMAIN Remembered -> "duplicate"
      [] OTHER -> "None"

-----------------------------------------------------------------------------
(* The triggers.                                                           *)

Put(job) ==
    /\ Len(jobs) < MaxJobs
    /\ jobs' = Append(jobs, job)
    /\ phase' = Append(phase, "queued")
    /\ queue' = Append(queue, Len(jobs'))
    /\ unfinished' = unfinished + 1
    /\ UNCHANGED <<waiting, permits>>

\* A complete event passes the guard or is dropped (204 either way or 202).  One that
\* is no JSON object or has no id or no PRD link is dropped before: nothing changes.
RequirementReady(i) ==
    /\ \/ /\ DropReason(i) = "None"
          /\ Put([kind |-> "review", item |-> i, at |-> now])
          /\ lastSeen' = [k \in DOMAIN Remembered \cup {i} |->
                             IF k = i THEN now ELSE Remembered[k]]
          /\ globalWindow' = InWindow \cup {Len(jobs')}
       \/ /\ DropReason(i) # "None"
          /\ lastSeen' = Remembered
          /\ globalWindow' = InWindow
          /\ UNCHANGED <<jobs, phase, queueVars>>
    /\ UNCHANGED now

\* Any story, also one that was queued before; without an id or a document it is 400.
StoryReady ==
    /\ Cardinality(DOMAIN jobs \ Reviews) < MaxStories
    /\ Put([kind |-> "pipeline"])
    /\ UNCHANGED guardVars

-----------------------------------------------------------------------------
(* _pipeline_consumer.                                                     *)

\* The consumer makes a background task of each job, which waits for the semaphore.
Consume ==
    /\ queue # <<>>
    /\ queue' = Tail(queue)
    /\ waiting' = Append(waiting, Head(queue))
    /\ phase' = [phase EXCEPT ![Head(queue)] = "waiting"]
    /\ UNCHANGED <<guardVars, jobs, unfinished, permits>>

\* The semaphore serves its waiters in order.
StartJob ==
    /\ waiting # <<>>
    /\ permits > 0
    /\ permits' = permits - 1
    /\ waiting' = Tail(waiting)
    /\ phase' = [phase EXCEPT ![Head(waiting)] =
                     IF jobs[Head(waiting)].kind = "review" THEN "requesting" ELSE "generating"]
    /\ UNCHANGED <<guardVars, jobs, queue, unfinished>>

\* Seeded fault: a permit is not given back.
EndsJobKeepingPermit(j) ==
    /\ phase' = [phase EXCEPT ![j] = "ended"]
    /\ unfinished' = unfinished - 1
    /\ UNCHANGED <<guardVars, jobs, queue, waiting, permits>>

\* However a job ends, it is task_done and gives its permit back.
EndsJob(j) ==
    /\ phase' = [phase EXCEPT ![j] = "ended"]
    /\ permits' = permits + 1
    /\ unfinished' = unfinished - 1
    /\ UNCHANGED <<guardVars, jobs, queue, waiting>>

MovesTo(j, next) ==
    /\ phase' = [phase EXCEPT ![j] = next]
    /\ UNCHANGED <<guardVars, jobs, queueVars>>

IntakeNext ==
    \/ Tick
    \/ \E i \in Items : RequirementReady(i)
    \/ StoryReady
    \/ Consume
    \/ StartJob

-----------------------------------------------------------------------------
\* What the guard promises of the accepted requirement events, at any distance: at most
\* MaxPerMinute of them within a minute, and two of one work item further apart than
\* the dedup window.
WithinLimits ==
    /\ \A j \in Reviews :
        Cardinality({k \in Reviews : jobs[k].at - jobs[j].at \in 0..Minute}) <= MaxPerMinute
    /\ \A j, k \in Reviews :
        j < k /\ jobs[j].item = jobs[k].item => jobs[k].at - jobs[j].at > DedupWindow

\* Nothing else is dropped: lazy eviction forgets neither too late nor too early.
OnlyExcessDropped ==
    \A i \in Items :
        DropReason(i) # "None" =>
            \/ Cardinality({k \in Reviews : now - jobs[k].at <= Minute}) = MaxPerMinute
            \/ \E k \in Reviews : jobs[k].item = i /\ now - jobs[k].at <= DedupWindow

GuardPrecise == WithinLimits /\ OnlyExcessDropped
=============================================================================
