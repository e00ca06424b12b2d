---------------------------- MODULE StreamingHub ----------------------------
(***************************************************************************)
(* The hub that broadcasts events to the dashboard's global streams        *)
(* (orchestrator/streaming_hub.py), with the part of the task history the  *)
(* snapshot is built from.  The hub's and a buffer's lock are held over no  *)
(* await that suspends, so publishing to all subscribers is one step.      *)
(*                                                                         *)
(* An event is one dict that every subscriber buffers, and coalescing       *)
(* rewrites it in place: "content" says what the dict that was created for *)
(* the n-th activity of a task reads now.                                  *)
(***************************************************************************)
EXTENDS Integers, SequencesExt

CONSTANTS
    Clients,        \* dashboards; each has at most one global subscriber
    Tasks,          \* tasks of the orchestrator
    Capacity,       \* _QUEUE_MAXSIZE
    MaxActivities   \* bound: activities a task reports

ASSUME HubAssumption == Capacity \in Nat \ {0} /\ MaxActivities \in Nat

VARIABLES
    status,      \* TaskHistory: "none", "RUNNING" or ended
    activity,    \* TaskHistory: current_activity, the number of the report; 0 is None
    reports,     \* activities the task has reported
    content,     \* the report that each activity dict holds
    subscribed,  \* clients with a subscriber in _global_subs
    buffer,      \* _items of each subscriber
    index        \* _activity_index: the task's buffered dict, 0 if none

historyVars == <<status, activity, reports>>
hubVars     == <<content, subscribed, buffer, index>>

Report == 1..MaxActivities

\* What a buffer holds; "dict" names the activity dict of the task.
Activity(t, n) == [kind |-> "agent_activity", task |-> t, dict |-> n]
Done(t)        == [kind |-> "task_done", task |-> t, dict |-> 0]
Gap            == [kind |-> "gap"]
Item == {Activity(t, n) : t \in Tasks, n \in Report} \cup {Done(t) : t \in Tasks} \cup {Gap}

HubTypeOK ==
    /\ status \in [Tasks -> {"none", "RUNNING", "ENDED"}]
    /\ reports \in [Tasks -> 0..MaxActivities]
    /\ \A t \in Tasks : activity[t] \in {0, reports[t]}
    /\ content \in [Tasks -> [Report -> Report]]
    /\ subscribed \in SUBSET Clients
    /\ \A c \in Clients : buffer[c] \in Seq(Item) /\ Len(buffer[c]) <= Capacity
    /\ index \in [Clients -> [Tasks -> 0..MaxActivities]]

HubInit ==
    /\ status = [t \in Tasks |-> "none"]
    /\ activity = [t \in Tasks |-> 0]
    /\ reports = [t \in Tasks |-> 0]
    /\ content = [t \in Tasks |-> [n \in Report |-> n]]
    /\ subscribed = {}
    /\ buffer = [c \in Clients |-> <<>>]
    /\ index = [c \in Clients |-> [t \in Tasks |-> 0]]

-----------------------------------------------------------------------------
(* _Subscriber: one buffer.                                                *)

\* _discard_from_index: only the dict the index names leaves it.
Discarded(ix, item) ==
    IF item.kind = "agent_activity" /\ ix[item.task] = item.dict
    THEN [ix EXCEPT ![item.task] = 0] ELSE ix

Indexed(ix, item) ==
    IF item.kind = "agent_activity" THEN [ix EXCEPT ![item.task] = item.dict] ELSE ix

Full(c) == Len(buffer[c]) >= Capacity

\* The buffered activity of the same task is rewritten instead of a new one appended.
Coalesces(c, item) == item.kind = "agent_activity" /\ index[c][item.task] # 0

\* Seeded fault: the gap is one item too many.
BufferedBeyond(c, item) ==
    IF c \notin subscribed \/ Coalesces(c, item) THEN buffer[c]
    ELSE Append(buffer[c], IF Full(c) THEN Gap ELSE item)

\* _put_locked and _append: a full buffer gives up its oldest item and the new one,
\* and gains a gap.
Buffered(c, item) ==
    IF c \notin subscribed \/ Coalesces(c, item) THEN buffer[c]
    ELSE IF Full(c) THEN Append(Tail(buffer[c]), Gap)
    ELSE Append(buffer[c], item)

\* Seeded fault: an overflow leaves the dropped item in the index.
IndexKept(c, item) ==
    IF c \notin subscribed \/ Coalesces(c, item) \/ Full(c) THEN index[c]
    ELSE Indexed(index[c], item)

IndexAfter(c, item) ==
    IF c \notin subscribed \/ Coalesces(c, item) THEN index[c]
    ELSE IF Full(c) THEN Discarded(index[c], Head(buffer[c]))
    ELSE Indexed(index[c], item)

-----------------------------------------------------------------------------
(* StreamingHub: publish_global.                                           *)

\* Seeded fault: a dict is left as it is once one of the subscribers has taken it.
RewriteHeldByAll(item) ==
    IF item.kind # "agent_activity" THEN content
    ELSE [content EXCEPT ![item.task] = [n \in Report |->
            IF subscribed # {} /\ \A c \in subscribed : index[c][item.task] = n
            THEN item.dict ELSE @[n]]]

\* The dicts the subscribers' indices name for the task now read as the new event.
Rewritten(item) ==
    IF item.kind # "agent_activity" THEN content
    ELSE [content EXCEPT ![item.task] = [n \in Report |->
            IF \E c \in subscribed : index[c][item.task] = n THEN item.dict ELSE @[n]]]

Publish(item) ==
    /\ content' = Rewritten(item)
    /\ buffer' = [c \in Clients |-> Buffered(c, item)]
    /\ index' = [c \in Clients |-> IndexAfter(c, item)]
    /\ UNCHANGED subscribed

\* Seeded fault: a buffer outlives its connection.
UnsubscribeKeepBuffer(c) ==
    subscribed' = subscribed \ {c} /\ UNCHANGED <<content, buffer, index>>

\* subscribe_global enters with an empty buffer and drops it when it leaves.
Subscribe(c) == subscribed' = subscribed \cup {c} /\ UNCHANGED <<content, buffer, index>>
Unsubscribe(c) ==
    /\ subscribed' = subscribed \ {c}
    /\ buffer' = [buffer EXCEPT ![c] = <<>>]
    /\ index' = [index EXCEPT ![c] = [t \in Tasks |-> 0]]
    /\ UNCHANGED content

\* Seeded fault: the item stays in the index.
TakeKeepIndex(c) ==
    /\ buffer' = [buffer EXCEPT ![c] = Tail(@)]
    /\ UNCHANGED <<content, subscribed, index>>

\* get(): the oldest item leaves the buffer and the index.
Take(c) ==
    /\ buffer' = [buffer EXCEPT ![c] = Tail(@)]
    /\ index' = [index EXCEPT ![c] = Discarded(@, Head(buffer[c]))]
    /\ UNCHANGED <<content, subscribed>>

-----------------------------------------------------------------------------
(* The dispatcher's calls (orchestrator/main.py).                          *)

\* The record is added; no event is published.
StartTask(t) ==
    /\ status[t] = "none"
    /\ status' = [status EXCEPT ![t] = "RUNNING"]
    /\ UNCHANGED <<activity, reports, hubVars>>

\* A WORKING status with a text.
ReportActivity(t) ==
    /\ status[t] = "RUNNING"
    /\ reports[t] < MaxActivities
    /\ reports' = [reports EXCEPT ![t] = @ + 1]
    /\ activity' = [activity EXCEPT ![t] = reports[t] + 1]
    /\ Publish(Activity(t, reports[t] + 1))
    /\ UNCHANGED status

\* Seeded fault: the record is not updated.
FinalizeUnrecorded(t) ==
    /\ status[t] = "RUNNING"
    /\ Publish(Done(t))
    /\ UNCHANGED historyVars

\* _finalize_task: status, activity and event in one step.
Finalize(t) ==
    /\ status[t] = "RUNNING"
    /\ status' = [status EXCEPT ![t] = "ENDED"]
    /\ activity' = [activity EXCEPT ![t] = 0]
    /\ Publish(Done(t))
    /\ UNCHANGED reports

HubNext == \E t \in Tasks : StartTask(t) \/ ReportActivity(t) \/ Finalize(t)

-----------------------------------------------------------------------------
Buffers(c, t, n) == {i \in DOMAIN buffer[c] : buffer[c][i] = Activity(t, n)}

\* The activity index names the one buffered activity of each task, and nothing that
\* has left the buffer: what is coalesced is still to be delivered.
IndexMatchesBuffer ==
    \A c \in Clients, t \in Tasks :
        LET held == {i \in DOMAIN buffer[c] :
                        buffer[c][i].kind = "agent_activity" /\ buffer[c][i].task = t}
        IN  IF index[c][t] = 0 THEN held = {}
            ELSE \E i \in held : held = {i} /\ buffer[c][i].dict = index[c][t]

\* Subscribers that entered at different times and have taken different items share
\* the dicts that are rewritten: whatever a buffer holds of a task, under whichever
\* dict, still reads as the newest activity of that task.
BufferedIsNewest ==
    \A c \in Clients, t \in Tasks, n \in Report :
        Buffers(c, t, n) # {} => content[t][n] = reports[t]
=============================================================================
