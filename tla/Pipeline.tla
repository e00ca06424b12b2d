------------------------------- MODULE Pipeline -------------------------------
(***************************************************************************)
(* The jobs of the queue (orchestrator/main.py: _run_requirement_review,   *)
(* _run_pipeline): a story's document becomes test cases, these become     *)
(* work items of Feishu Project, and what two more agents answer is        *)
(* written to the work items by their ids.  The client's calls are         *)
(* synchronous, so a whole round of writes is one step; any call in it may *)
(* fail.                                                                   *)
(***************************************************************************)
EXTENDS Intake, PrdChunking

CONSTANTS
    Docs,        \* the requirement documents
    NoDoc,       \* no document read
    AgentSlots,  \* requests the generation agents work on at a time
    BatchSize,   \* AC_BATCH_SIZE
    MaxCases     \* bound: test cases of a pipeline

ASSUME PipelineAssumption ==
    /\ {AgentSlots, BatchSize} \subseteq Nat \ {0}
    /\ MaxCases \in Nat
    /\ Docs \subseteq Document

VARIABLES
    configured,  \* whether the Feishu Project credentials are set
    doc,         \* the document the generation agent has read for each job
    keys,        \* the key of each test case of a running pipeline
    workItems    \* the test cases' work items: their label and their comments

pipelineVars == <<configured, doc, keys, workItems>>
vars == <<intakeVars, pipelineVars>>

\* A work item is named by the job and the test case it was created for.  The client
\* overwrites its label field and adds to its comments; both say which case they are about.
Name     == [job : 1..MaxJobs, case : 1..MaxCases]
NoKey    == [job |-> 0, case |-> 0]    \* no key, a MOCK-TC one or one the model made up
NoLabel  == NoKey
WorkItem == [label : Name \cup {NoLabel}, comments : SUBSET Name]

PipelineTypeOK ==
    /\ IntakeTypeOK
    /\ configured \in BOOLEAN
    /\ doc \in [1..MaxJobs -> Docs \cup {NoDoc}]
    /\ keys \in [1..MaxJobs -> Seq(DOMAIN workItems \cup {NoKey})]
    /\ DOMAIN workItems \subseteq Name /\ Range(workItems) \subseteq WorkItem

PipelineInit ==
    /\ IntakeInit
    /\ configured \in BOOLEAN
    /\ doc = [j \in 1..MaxJobs |-> NoDoc]
    /\ keys = [j \in 1..MaxJobs |-> <<>>]
    /\ workItems = <<>>

In(j, where) == j \in DOMAIN phase /\ phase[j] = where

-----------------------------------------------------------------------------
(* What comes back from an agent.                                          *)

\* A pipeline's requests: for test cases (before and after an agent is free for them),
\* for their classification and for their review.
Awaiting(j) == In(j, "generating") \/ In(j, "batching") \/ In(j, "classifying") \/ In(j, "reviewing")

\* Whatever raises is recorded as an error and ends the pipeline, as its last step does.
EndsPipeline(j) ==
    /\ EndsJob(j)
    /\ doc' = [doc EXCEPT ![j] = NoDoc]
    /\ keys' = [keys EXCEPT ![j] = <<>>]

\* The request raised, its task did not complete, or what came back is not exactly one
\* text, an AgentExecutionError or no model: what the pipeline has written stays.
GivesUp(j) ==
    /\ Awaiting(j)
    /\ EndsPipeline(j)
    /\ UNCHANGED <<configured, workItems>>

\* A review job only looks at the status: the agent itself comments on the story.
ReviewAnswered(j) ==
    /\ In(j, "requesting")
    /\ EndsJob(j)
    /\ UNCHANGED pipelineVars

-----------------------------------------------------------------------------
(* The generation agent.                                                   *)

\* The dispatcher gives an agent no more requests than it has slots.
ReadsDocument(j) ==
    /\ In(j, "generating")
    /\ Cardinality({k \in DOMAIN phase : phase[k] = "batching"}) < AgentSlots
    /\ \E d \in Docs : doc' = [doc EXCEPT ![j] = d]
    /\ MovesTo(j, "batching")
    /\ UNCHANGED <<configured, keys, workItems>>

\* A functional document is chunked; from any other a model extracts the criteria.
\* They are answered in batches, whose results are put together in the order of the
\* batches.  One failed batch fails the request, but only once all have ended.
Batches(n)    == (n + BatchSize - 1) \div BatchSize
Criteria(d)   == IF Kind(d) = "functional" THEN {Len(Chunks(d))} ELSE 0..MaxCases
CaseCounts == [d \in Docs |->
    UNION {IF Batches(n) = 0 THEN {0} ELSE 0..MaxCases : n \in Criteria(d)}]

-----------------------------------------------------------------------------
(* The write-back.                                                         *)

Nth(S, i) == CHOOSE n \in S : Cardinality({m \in S : m <= n}) = i

\* Seeded fault: the ids are assigned back in reverse.
AssignedReversed(j, n, made) ==
    [c \in 1..n |-> IF c <= Cardinality(made)
                    THEN [job |-> j, case |-> Nth(made, Cardinality(made) + 1 - c)] ELSE NoKey]

\* Seeded fault: every answer is taken to carry an id.
AssignedAll(j, n, made) == [c \in 1..n |-> [job |-> j, case |-> c]]

\* zip(test_cases, keys, strict=False): the i-th id made goes to the i-th test case.
Assigned(j, n, made) ==
    [c \in 1..n |-> IF c <= Cardinality(made) THEN [job |-> j, case |-> Nth(made, c)] ELSE NoKey]

With(j, made) ==
    [k \in DOMAIN workItems \cup {[job |-> j, case |-> c] : c \in made} |->
        IF k \in DOMAIN workItems THEN workItems[k] ELSE [label |-> NoLabel, comments |-> {}]]

\* The n test cases are created one by one.  A response without an id skips its case; a
\* failing call, whether it created its work item or not, ends the pipeline before any
\* key is assigned.  Without credentials no work item is made.
WritesTestCases(j) ==
    /\ In(j, "batching")
    /\ \E n \in CaseCounts[doc[j]] : \E made \in SUBSET (1..n) :
        /\ configured \/ made = {}
        /\ workItems' = With(j, made)
        /\ \/ /\ keys' = [keys EXCEPT ![j] = Assigned(j, n, made)]
              /\ doc' = [doc EXCEPT ![j] = NoDoc]
              /\ MovesTo(j, "classifying")
           \/ configured /\ n > 0 /\ EndsPipeline(j)
    /\ UNCHANGED configured

\* Seeded fault: whatever key the agent names is written to.
KnownAny(j) == DOMAIN workItems

\* _get_known_test_case_keys.
Known(j) == Range(keys[j]) \ {NoKey}

\* What an answer names of them: any, as models write it.  The review agent has the test
\* cases answered in batches and puts the answers together; one that fails, or test
\* cases it cannot find in its message, fail the request.
Named(j) == {named \cap Known(j) : named \in SUBSET DOMAIN workItems}

\* An agent is given the test cases with their keys.  What it says under a key is about
\* the case that carries it; under a key it was not given, about one of the job's cases.
About(j, k) ==
    [job |-> j, case |-> CHOOSE c \in 1..MaxCases :
                            k \in Range(keys[j]) => c \in DOMAIN keys[j] /\ keys[j][c] = k]

\* Of the keys named in the answer the known ones are written to, one by one; a failing
\* call ends the pipeline with some of them written.
Writes(j, next, changed) ==
    /\ \/ next # "ended" /\ MovesTo(j, next) /\ UNCHANGED <<doc, keys>>
       \/ EndsPipeline(j)
    /\ \E written \in Named(j) :
           workItems' = [k \in DOMAIN workItems |->
                            IF k \in written THEN changed[k] ELSE workItems[k]]
    /\ UNCHANGED configured

WritesLabels(j) ==
    /\ In(j, "classifying")
    /\ Writes(j, "reviewing",
              [k \in DOMAIN workItems |-> [workItems[k] EXCEPT !.label = About(j, k)]])

\* Before the review is asked for, the document is read again.
WritesComments(j) ==
    /\ In(j, "reviewing")
    /\ Writes(j, "ended",
              [k \in DOMAIN workItems |-> [workItems[k] EXCEPT !.comments = @ \cup {About(j, k)}]])

-----------------------------------------------------------------------------
Step(j) ==
    GivesUp(j) \/ ReviewAnswered(j) \/ ReadsDocument(j) \/ WritesTestCases(j)
    \/ WritesLabels(j) \/ WritesComments(j)

Next ==
    \/ IntakeNext /\ UNCHANGED pipelineVars
    \/ \E j \in 1..MaxJobs : Step(j)

Spec == PipelineInit /\ [][Next]_vars

\* Fairness: the consumer and the waiters of the semaphore are coroutines that run when
\* they can, and every call a job makes ends by itself or by its timeout.
FairSpec ==
    /\ Spec
    /\ WF_vars(Consume /\ UNCHANGED pipelineVars)
    /\ WF_vars(StartJob /\ UNCHANGED pipelineVars)
    /\ WF_vars(\E j \in 1..MaxJobs : Step(j))

-----------------------------------------------------------------------------
\* Chunking a functional document keeps every text line that stands under a heading, in
\* one chunk and in order, whatever short sections are merged and long ones split.
TextKept ==
    \A j \in DOMAIN doc :
        doc[j] # NoDoc /\ Kind(doc[j]) = "functional" => ChunkText(doc[j]) = DocumentText(doc[j])

\* Concurrent pipelines, also of one story, keep out of each other's work items: labels
\* and comments are only written by the pipeline that created the work item, whatever
\* keys the agents name.
Notes(k) == ({workItems[k].label} \cup workItems[k].comments) \ {NoLabel}
OwnWorkItems == \A k \in DOMAIN workItems : \A note \in Notes(k) : note.job = k.job

\* The pairing by position is right up to the first case that got no id, and wrong for
\* every key after it: a label or comment is about the work item's own case exactly if
\* no case up to the one it is about was skipped.
PairedUpToFirstSkip ==
    \A k \in DOMAIN workItems : \A note \in Notes(k) :
        note.case = k.case <=>
            \A c \in 1..note.case : [job |-> note.job, case |-> c] \in DOMAIN workItems

\* Every accepted job comes to an end, also behind more jobs than may run at once.
JobsEnd ==
    \A j \in 1..MaxJobs : j \in DOMAIN phase ~> (j \in DOMAIN phase /\ phase[j] = "ended")
=============================================================================
