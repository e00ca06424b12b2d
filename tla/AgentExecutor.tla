---------------------------- MODULE AgentExecutor ----------------------------
(***************************************************************************)
(* An agent's execution of A2A requests (common/agent_executor.py with     *)
(* common/agent_log_capture.py and the attributes of common/agent_base.py  *)
(* it uses), and what the orchestrator keeps of the event stream           *)
(* (orchestrator/main.py, _handle_stream_chunk and the _save_* functions). *)
(* Requests run concurrently on one executor and one agent object.         *)
(***************************************************************************)
EXTENDS Integers, SequencesExt

CONSTANTS
    Requests,    \* requests the A2A server hands to execute()
    None,        \* no request: an attribute that is None
    MaxLines,    \* bound: log lines of a run
    MaxReports,  \* bound: activities a run reports
    BufferSize   \* max_records of the log handler

ASSUME ExecutorAssumption ==
    /\ None \notin Requests
    /\ MaxLines \in Nat /\ MaxReports \in Nat /\ BufferSize \in Nat \ {0}

VARIABLES
    pc,          \* where execute() stands for each request
    outcome,     \* how its run_task ended
    active,      \* _active_runs
    cancelling,  \* requests whose run_task was told to cancel
    latest,      \* the run whose usage and trace the agent's attributes hold
    captured,    \* the local token_usage and trace, by the run they come from
    received,    \* the request whose message is latest_received_message
    saved,       \* the requests whose files a run's tool has saved
    logged,      \* _emitted_total: log lines of the request so far
    drained,     \* _drain_cursor
    sending,     \* the batch flush_logs_loop is sending
    reported,    \* activities put into the request's queue so far
    forwarded,   \* activities the flush loop has taken from it
    sentAny,     \* sent_any_logs
    lost,        \* ghost: lines the buffer or an aborted flush has lost
    events,      \* what execute() has emitted on the request's queue
    consumed,    \* how many of them the orchestrator has read
    record       \* agent_logs of the request's TaskRecord

runVars    == <<pc, outcome, active, cancelling>>
sharedVars == <<latest, captured, received, saved>>
logVars    == <<logged, drained, sending, sentAny, lost>>
streamVars == <<consumed, record>>
activities == <<reported, forwarded>>
vars == <<runVars, sharedVars, logVars, activities, events, streamVars>>

Phase == {"new", "starting", "scheduled", "running", "ended", "stopping", "sending", "done"}
Line  == 1..MaxLines
Kind  == {"task", "working", "logs", "result", "usage", "completed", "failed", "canceled"}

\* "of" is the run a usage and trace artifact describes.
Event == [kind : Kind, lines : Seq(Line), append : BOOLEAN, last : BOOLEAN,
          of : Requests \cup {None}]

Plain(kind) == [kind |-> kind, lines |-> <<>>, append |-> FALSE, last |-> FALSE, of |-> None]
Chunk(lines, append, last) ==
    [kind |-> "logs", lines |-> lines, append |-> append, last |-> last, of |-> None]
Usage(run) == [Plain("usage") EXCEPT !.of = run]

Terminal == {"completed", "failed", "canceled"}

\* Every variable keeps its type: the cursors never pass what they count.
ExecTypeOK ==
    /\ pc \in [Requests -> Phase]
    /\ outcome \in [Requests -> {"none", "ok", "error", "crash", "cancelled"}]
    /\ active \in SUBSET Requests
    /\ cancelling \in SUBSET Requests
    /\ latest \in Requests \cup {None}
    /\ captured \in [Requests -> Requests \cup {None}]
    /\ received \in Requests \cup {None}
    /\ saved \in [Requests -> SUBSET Requests]
    /\ logged \in [Requests -> 0..MaxLines]
    /\ \A r \in Requests : drained[r] \in 0..logged[r]
    /\ sending \in [Requests -> Seq(Line)]
    /\ reported \in [Requests -> 0..MaxReports]
    /\ \A r \in Requests : forwarded[r] \in 0..reported[r]
    /\ sentAny \in [Requests -> BOOLEAN]
    /\ lost \in [Requests -> SUBSET Line]
    /\ events \in [Requests -> Seq(Event)]
    /\ \A r \in Requests : consumed[r] \in 0..Len(events[r])
    /\ record \in [Requests -> Seq(Line)]

Init ==
    /\ pc = [r \in Requests |-> "new"]
    /\ outcome = [r \in Requests |-> "none"]
    /\ active = {} /\ cancelling = {}
    /\ latest = None /\ received = None
    /\ captured = [r \in Requests |-> None]
    /\ saved = [r \in Requests |-> {}]
    /\ logged = [r \in Requests |-> 0]
    /\ drained = [r \in Requests |-> 0]
    /\ sending = [r \in Requests |-> <<>>]
    /\ reported = [r \in Requests |-> 0]
    /\ forwarded = [r \in Requests |-> 0]
    /\ sentAny = [r \in Requests |-> FALSE]
    /\ lost = [r \in Requests |-> {}]
    /\ events = [r \in Requests |-> <<>>]
    /\ consumed = [r \in Requests |-> 0]
    /\ record = [r \in Requests |-> <<>>]

Goto(r, phase) == pc' = [pc EXCEPT ![r] = phase]
Emit(r, es)    == events' = [events EXCEPT ![r] = @ \o es]

-----------------------------------------------------------------------------
(* The start of execute().                                                 *)

\* Up to the first await: the agent's shared attributes are reset.
Begin(r) ==
    /\ pc[r] = "new"
    /\ Goto(r, "starting")
    /\ latest' = None
    /\ UNCHANGED <<outcome, active, cancelling, captured, received, saved,
                   logVars, activities, events, streamVars>>

\* A request without a message fails at once.
Reject(r) ==
    /\ pc[r] = "starting"
    /\ Goto(r, "done")
    /\ Emit(r, <<Plain("failed")>>)
    /\ UNCHANGED <<outcome, active, cancelling, sharedVars, logVars, activities,
                   streamVars>>

\* The task and WORKING are sent; the run and the two flush loops are scheduled.
StartRun(r) ==
    /\ pc[r] = "starting"
    /\ Goto(r, "scheduled")
    /\ active' = active \cup {r}
    /\ Emit(r, <<Plain("task"), Plain("working")>>)
    /\ UNCHANGED <<outcome, cancelling, sharedVars, logVars, activities, streamVars>>

-----------------------------------------------------------------------------
(* The run: AgentBase.run with the tools it calls.  A model call that      *)
(* fails for a while starts the model again, with the tools it calls.      *)

\* The first step of the run; one cancelled before it never takes it.
RunStarts(r) ==
    /\ pc[r] = "scheduled" /\ r \notin cancelling
    /\ Goto(r, "running")
    /\ received' = r
    /\ UNCHANGED <<outcome, active, cancelling, latest, captured, saved, logVars,
                   activities, events, streamVars>>

LogLine(r) ==
    /\ pc[r] = "running"
    /\ logged[r] < MaxLines
    /\ logged' = [logged EXCEPT ![r] = @ + 1]
    /\ UNCHANGED <<runVars, sharedVars, drained, sending, sentAny, lost, activities, events,
                   streamVars>>

\* report_activity: a full queue drops the report.
Report(r) ==
    /\ pc[r] = "running"
    /\ reported[r] < MaxReports
    /\ reported' = [reported EXCEPT ![r] = @ + 1]
    /\ UNCHANGED <<runVars, sharedVars, logVars, forwarded, events, streamVars>>

\* The incident agent's _save_artifacts saves the files of latest_received_message.
SaveArtifacts(r) ==
    /\ pc[r] = "running"
    /\ saved' = [saved EXCEPT ![r] = @ \cup {received}]
    /\ UNCHANGED <<runVars, latest, captured, received, logVars, activities, events, streamVars>>

RunEnds(r, how) ==
    /\ Goto(r, "ended")
    /\ outcome' = [outcome EXCEPT ![r] = how]
    /\ UNCHANGED <<active, cancelling, captured, received, saved, logVars,
                   activities, events, streamVars>>

RunSucceeds(r) ==
    /\ pc[r] = "running" /\ r \notin cancelling
    /\ RunEnds(r, "ok")
    /\ latest' = r

\* AgentRuntimeError, before or after usage and trace were recorded.
RunFails(r) ==
    /\ pc[r] = "running" /\ r \notin cancelling
    /\ RunEnds(r, "error")
    /\ latest' \in {latest, r}

\* Reading the message's parts fails, outside run()'s own handler.
RunCrashes(r) ==
    /\ pc[r] = "running" /\ r \notin cancelling
    /\ RunEnds(r, "crash")
    /\ UNCHANGED latest

RunCancelled(r) ==
    /\ pc[r] \in {"scheduled", "running"} /\ r \in cancelling
    /\ RunEnds(r, "cancelled")
    /\ UNCHANGED latest

-----------------------------------------------------------------------------
(* The flush loops, which run until execute() stops them.                  *)
Looping(r) == pc[r] \in {"scheduled", "running", "ended"}

\* drain(): the lines since the last one, as far as the buffer still holds them.
Oldest(r) ==
    IF logged[r] - drained[r] > BufferSize THEN logged[r] - BufferSize ELSE drained[r]
Drained(r) == [i \in 1..(logged[r] - Oldest(r)) |-> Oldest(r) + i]
Overflow(r) == drained[r] + 1 .. Oldest(r)

\* Seeded fault: the cursor stays where it was.
DrainRepeated(r) ==
    /\ lost' = [lost EXCEPT ![r] = @ \cup Overflow(r)]
    /\ UNCHANGED drained

Drain(r) ==
    /\ drained' = [drained EXCEPT ![r] = logged[r]]
    /\ lost' = [lost EXCEPT ![r] = @ \cup Overflow(r)]

FlushStart(r) ==
    /\ Looping(r)
    /\ sending[r] = <<>>
    /\ drained[r] < logged[r]
    /\ sending' = [sending EXCEPT ![r] = Drained(r)]
    /\ Drain(r)
    /\ UNCHANGED <<runVars, sharedVars, logged, sentAny, activities, events, streamVars>>

FlushEnd(r) ==
    /\ Looping(r)
    /\ sending[r] # <<>>
    /\ Emit(r, <<Chunk(sending[r], sentAny[r], FALSE)>>)
    /\ sentAny' = [sentAny EXCEPT ![r] = TRUE]
    /\ sending' = [sending EXCEPT ![r] = <<>>]
    /\ UNCHANGED <<runVars, sharedVars, logged, drained, lost, activities, streamVars>>

\* Seeded faults: the loop does not wait for a report; it is left running after the
\* shutdown.
ForwardUnchecked(r) ==
    /\ Looping(r)
    /\ forwarded' = [forwarded EXCEPT ![r] = @ + 1]
    /\ Emit(r, <<Plain("working")>>)
    /\ UNCHANGED <<runVars, sharedVars, logVars, reported, streamVars>>

ForwardAlways(r) ==
    /\ pc[r] \notin {"new", "starting"}
    /\ forwarded[r] < reported[r]
    /\ forwarded' = [forwarded EXCEPT ![r] = @ + 1]
    /\ Emit(r, <<Plain("working")>>)
    /\ UNCHANGED <<runVars, sharedVars, logVars, reported, streamVars>>

ForwardActivity(r) ==
    /\ Looping(r)
    /\ forwarded[r] < reported[r]
    /\ forwarded' = [forwarded EXCEPT ![r] = @ + 1]
    /\ Emit(r, <<Plain("working")>>)
    /\ UNCHANGED <<runVars, sharedVars, logVars, reported, streamVars>>

-----------------------------------------------------------------------------
(* The ordered shutdown in execute()'s finally and what follows it.        *)

\* execute() resumes: it reads the agent's attributes and stops the loops; a batch
\* that is being sent is lost with its loop.
Resume(r) ==
    /\ pc[r] = "ended"
    /\ Goto(r, "stopping")
    /\ captured' = IF outcome[r] = "ok" THEN [captured EXCEPT ![r] = latest] ELSE captured
    /\ active' = active \ {r}
    /\ lost' = [lost EXCEPT ![r] = @ \cup ToSet(sending[r])]
    /\ sending' = [sending EXCEPT ![r] = <<>>]
    /\ UNCHANGED <<outcome, cancelling, latest, received, saved, logged, drained,
                   sentAny, activities, events, streamVars>>

\* Seeded faults: the final chunk is sent only when lines remain; the remaining lines
\* are not drained.
FinalChunkIfAny(r) ==
    /\ pc[r] = "stopping"
    /\ Goto(r, "sending")
    /\ Drain(r)
    /\ IF Drained(r) # <<>>
       THEN Emit(r, <<Chunk(Drained(r), sentAny[r], TRUE)>>)
       ELSE UNCHANGED events
    /\ UNCHANGED <<outcome, active, cancelling, sharedVars, logged, sending,
                   sentAny, activities, streamVars>>
FinalChunkEmpty(r) ==
    /\ pc[r] = "stopping"
    /\ Goto(r, "sending")
    /\ IF sentAny[r]
       THEN Emit(r, <<Chunk(<<>>, sentAny[r], TRUE)>>)
       ELSE UNCHANGED events
    /\ UNCHANGED <<outcome, active, cancelling, sharedVars, logVars, activities,
                   streamVars>>

\* The loops have stopped: the last log chunk, empty if need be.
FinalChunk(r) ==
    /\ pc[r] = "stopping"
    /\ Goto(r, "sending")
    /\ Drain(r)
    /\ IF Drained(r) # <<>> \/ sentAny[r]
       THEN Emit(r, <<Chunk(Drained(r), sentAny[r], TRUE)>>)
       ELSE UNCHANGED events
    /\ UNCHANGED <<outcome, active, cancelling, sharedVars, logged, sending,
                   sentAny, activities, streamVars>>

UsageOf(r) == IF captured[r] = None THEN <<>> ELSE <<Usage(captured[r])>>

\* The artifacts and the terminal status of each outcome.
Closing(r) ==
    CASE outcome[r] = "ok" -> <<Plain("result")>> \o UsageOf(r) \o <<Plain("completed")>>
      [] outcome[r] = "error" -> <<Plain("result"), Plain("failed")>>
      [] outcome[r] = "crash" -> <<Plain("failed")>>
      [] OTHER -> <<Plain("canceled")>>

\* Seeded fault: a cancelled run ends without a status.
CloseSilently(r) ==
    /\ pc[r] = "sending"
    /\ Goto(r, "done")
    /\ IF outcome[r] = "cancelled" THEN UNCHANGED events ELSE Emit(r, Closing(r))
    /\ UNCHANGED <<outcome, active, cancelling, sharedVars, logVars, activities,
                   streamVars>>

Close(r) ==
    /\ pc[r] = "sending"
    /\ Goto(r, "done")
    /\ Emit(r, Closing(r))
    /\ UNCHANGED <<outcome, active, cancelling, sharedVars, logVars, activities,
                   streamVars>>

-----------------------------------------------------------------------------
\* cancel(): told to the active run, which may have ended already.  Without an active
\* run CANCELED goes to the cancel call's own queue and execute() is not told.
Cancel(r) ==
    /\ r \in active
    /\ pc[r] \in {"scheduled", "running"}
    /\ cancelling' = cancelling \cup {r}
    /\ UNCHANGED <<pc, outcome, active, sharedVars, logVars, activities, events, streamVars>>

-----------------------------------------------------------------------------
(* The orchestrator reads the stream.                                      *)
LogLines(es) == FlattenSeq([i \in DOMAIN es |-> es[i].lines])

\* The lines of the collected logs artifact: those of the chunks up to the last one.
Collected(es) ==
    IF \E i \in DOMAIN es : es[i].kind = "logs" /\ es[i].last THEN LogLines(es) ELSE <<>>

\* Seeded fault: the collected logs are added to the streamed ones.
ReadTwice(r) ==
    /\ consumed[r] < Len(events[r])
    /\ consumed' = [consumed EXCEPT ![r] = @ + 1]
    /\ LET e == events[r][consumed[r] + 1]
           all == Collected(SubSeq(events[r], 1, consumed[r]))
       IN  record' = [record EXCEPT ![r] = IF e.kind \in {"completed", "failed"}
                                           THEN @ \o all ELSE @ \o e.lines]
    /\ UNCHANGED <<runVars, sharedVars, logVars, activities, events>>

\* A log chunk is appended to the record; at the end the collected logs, if any,
\* replace it.  CANCELED is not a status the orchestrator's loop ends on.
Read(r) ==
    /\ consumed[r] < Len(events[r])
    /\ consumed' = [consumed EXCEPT ![r] = @ + 1]
    /\ LET e == events[r][consumed[r] + 1]
           all == Collected(SubSeq(events[r], 1, consumed[r]))
       IN  record' = [record EXCEPT ![r] = IF e.kind \in {"completed", "failed"} /\ all # <<>>
                                           THEN all ELSE @ \o e.lines]
    /\ UNCHANGED <<runVars, sharedVars, logVars, activities, events>>

-----------------------------------------------------------------------------
EndRun(r) == RunSucceeds(r) \/ RunFails(r) \/ RunCrashes(r) \/ RunCancelled(r)
Run(r) == RunStarts(r) \/ LogLine(r) \/ Report(r) \/ SaveArtifacts(r) \/ EndRun(r)
Loops(r) == FlushStart(r) \/ FlushEnd(r) \/ ForwardActivity(r)
Execute(r) == Begin(r) \/ Reject(r) \/ StartRun(r) \/ Resume(r) \/ FinalChunk(r) \/ Close(r)

Next == \E r \in Requests : Execute(r) \/ Run(r) \/ Loops(r) \/ Cancel(r) \/ Read(r)

Spec == Init /\ [][Next]_vars

\* The event loop resumes execute() when it can go on, a run ends (its model calls and
\* retries are bounded), and the orchestrator reads what is sent.
FairSpec ==
    /\ Spec
    /\ \A r \in Requests :
        /\ WF_vars(Reject(r) \/ StartRun(r) \/ Resume(r) \/ FinalChunk(r) \/ Close(r))
        /\ WF_vars(RunStarts(r) \/ EndRun(r))
        /\ WF_vars(Read(r))

-----------------------------------------------------------------------------
LogChunks(r) == {i \in DOMAIN events[r] : events[r][i].kind = "logs"}

\* Log chunks are framed as A2A asks: the first opens the artifact, the others append,
\* and once the request has ended exactly the last one is marked last.
LogsFramed ==
    \A r \in Requests :
        /\ \A i \in LogChunks(r) :
               events[r][i].append <=> \E j \in LogChunks(r) : j < i
        /\ \A i, j \in LogChunks(r) : events[r][i].last => j <= i
        /\ pc[r] = "done" /\ LogChunks(r) # {} =>
               \E i \in LogChunks(r) : events[r][i].last

\* No log line is sent twice and the lines keep their order, whether the flush loop
\* or the shutdown drains them and whenever the buffer overflows.
LinesInOrder ==
    \A r \in Requests : LET ls == LogLines(events[r]) IN
        \A i \in 1..(Len(ls) - 1) : ls[i] < ls[i + 1]

\* When a request has ended every line it logged was sent, or was lost in a full
\* buffer or an aborted flush, and never both.
LinesAccounted ==
    \A r \in Requests : LET sent == ToSet(LogLines(events[r])) IN
        /\ sent \cap lost[r] = {}
        /\ pc[r] = "done" => sent \cup lost[r] = 1..logged[r]

\* execute() ends with one terminal status, and emits nothing after it: no activity
\* and no log chunk of a loop that was still running.
TerminalStatusLast ==
    \A r \in Requests :
        /\ \A i \in DOMAIN events[r] : events[r][i].kind \in Terminal => i = Len(events[r])
        /\ pc[r] = "done" => events[r] # <<>> /\ Last(events[r]).kind \in Terminal

\* Once the orchestrator has read the terminal status, the record holds exactly the
\* lines that were sent, though each reaches it twice (as a chunk and as an artifact).
RecordComplete ==
    \A r \in Requests :
        pc[r] = "done" /\ consumed[r] = Len(events[r]) => record[r] = LogLines(events[r])

\* Every request that is begun ends, also when it is cancelled.
ExecutionEnds ==
    \A r \in Requests : pc[r] = "starting" ~>
        consumed[r] > 0 /\ events[r][consumed[r]].kind \in Terminal

-----------------------------------------------------------------------------
\* config.py:174, "Maximum number of concurrent tasks a single agent process can handle
\* safely": a request saves its own files and reports its own usage and trace.
OnlyOwnData ==
    \A r \in Requests :
        /\ saved[r] \subseteq {r}
        /\ \A i \in DOMAIN events[r] : events[r][i].kind = "usage" => events[r][i].of = r
=============================================================================
