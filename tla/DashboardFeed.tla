---------------------------- MODULE DashboardFeed ----------------------------
(***************************************************************************)
(* The dashboard's live view: the global SSE endpoint (orchestrator/       *)
(* main.py) and the browser's side of it (ui/src/App.tsx, api/sse.ts).     *)
(* A connection delivers a snapshot and then what the hub's subscriber     *)
(* buffers; the browser also polls the task list and reconciles the two.   *)
(***************************************************************************)
EXTENDS StreamingHub

CONSTANTS
    WireCap,       \* bound: events sent and not yet handled by the browser
    MaxConnects    \* bound: connections a browser makes

ASSUME FeedAssumption == WireCap \in Nat \ {0} /\ MaxConnects \in Nat

VARIABLES
    conn,      \* "down", "opening" (snapshot sent, not subscribed), "open", "expired"
    connects,  \* connections made so far
    wire,      \* events on their way to the browser
    live,      \* liveStore: the activity of the task's entry, or NoEntry
    reply,     \* the answer to a poll that is under way, or <<>>
    polled,    \* the tasks the last poll returned, with their statuses
    missed,    \* ghost: an event was published between snapshot and subscription
    warned     \* ghost: the browser has received a gap on this connection

linkVars  == <<conn, connects, wire>>
viewVars  == <<live, polled>>
ghostVars == <<missed, warned>>
vars == <<historyVars, hubVars, linkVars, viewVars, reply, ghostVars>>

NoEntry == -1

Snapshot == [kind |-> "snapshot",
             tasks |-> [t \in Tasks |-> IF status[t] = "RUNNING" THEN activity[t] ELSE NoEntry]]
AuthError == [kind |-> "auth_error"]

\* An event as the server serialises it: an activity with the text its dict has now.
Sent(item) ==
    CASE item.kind = "agent_activity" ->
           [kind |-> "agent_activity", task |-> item.task, text |-> content[item.task][item.dict]]
      [] item.kind = "task_done" -> [kind |-> "task_done", task |-> item.task]
      [] OTHER -> item

Event == {[kind |-> "agent_activity", task |-> t, text |-> n] : t \in Tasks, n \in Report}
         \cup {[kind |-> "task_done", task |-> t] : t \in Tasks}
         \cup {Gap, AuthError}
         \cup {[kind |-> "snapshot", tasks |-> f] : f \in [Tasks -> NoEntry..MaxActivities]}

\* Every variable of the feed keeps its type; the buffers stay within their bound.
FeedTypeOK ==
    /\ HubTypeOK
    /\ conn \in [Clients -> {"down", "opening", "open", "expired"}]
    /\ connects \in [Clients -> 0..MaxConnects]
    /\ \A c \in Clients : wire[c] \in Seq(Event)
    /\ live \in [Clients -> [Tasks -> NoEntry..MaxActivities]]
    /\ polled \in [Clients -> [Tasks -> {"none", "RUNNING", "ENDED"}]]
    /\ \A c \in Clients : reply[c] \in {<<>>} \cup [Tasks -> {"none", "RUNNING", "ENDED"}]
    /\ missed \in [Clients -> BOOLEAN]
    /\ warned \in [Clients -> BOOLEAN]
    /\ \A c \in Clients : c \in subscribed <=> conn[c] = "open"

Init ==
    /\ HubInit
    /\ conn = [c \in Clients |-> "down"]
    /\ connects = [c \in Clients |-> 0]
    /\ wire = [c \in Clients |-> <<>>]
    /\ live = [c \in Clients |-> [t \in Tasks |-> NoEntry]]
    /\ reply = [c \in Clients |-> <<>>]
    /\ polled = [c \in Clients |-> [t \in Tasks |-> "none"]]
    /\ missed = [c \in Clients |-> FALSE]
    /\ warned = [c \in Clients |-> FALSE]

-----------------------------------------------------------------------------
(* The server.                                                             *)

\* What a step of the dispatcher may publish: StartTask publishes nothing.
Published == \E t \in Tasks : reports'[t] # reports[t] \/ (status'[t] = "ENDED" /\ status[t] # "ENDED")

\* A step of the dispatcher; a connection that is being opened does not get its event.
Dispatcher ==
    /\ HubNext
    /\ missed' = [c \in Clients |-> missed[c] \/ (conn[c] = "opening" /\ Published)]
    /\ UNCHANGED <<linkVars, viewVars, reply, warned>>

\* The browser connects with a valid token: the snapshot is built and sent first.
Open(c) ==
    /\ conn[c] = "down"
    /\ connects[c] < MaxConnects
    /\ connects' = [connects EXCEPT ![c] = @ + 1]
    /\ conn' = [conn EXCEPT ![c] = "opening"]
    /\ wire' = [wire EXCEPT ![c] = <<Snapshot>>]
    /\ missed' = [missed EXCEPT ![c] = FALSE]
    /\ warned' = [warned EXCEPT ![c] = FALSE]
    /\ UNCHANGED <<historyVars, hubVars, viewVars, reply>>

\* The generator goes on after the snapshot and subscribes.
BeginStream(c) ==
    /\ conn[c] = "opening"
    /\ conn' = [conn EXCEPT ![c] = "open"]
    /\ Subscribe(c)
    /\ UNCHANGED <<historyVars, connects, wire, viewVars, reply, ghostVars>>

\* _sse_hub_events takes the next event; a heartbeat changes nothing.
Forward(c) ==
    /\ conn[c] = "open"
    /\ buffer[c] # <<>>
    /\ Len(wire[c]) < WireCap
    /\ wire' = [wire EXCEPT ![c] = Append(@, Sent(Head(buffer[c])))]
    /\ Take(c)
    /\ UNCHANGED <<historyVars, conn, connects, viewVars, reply, ghostVars>>

\* The token has expired: auth_error is the stream's last event.
Expire(c) ==
    /\ conn[c] = "open"
    /\ conn' = [conn EXCEPT ![c] = "expired"]
    /\ wire' = [wire EXCEPT ![c] = Append(@, AuthError)]
    /\ Unsubscribe(c)
    /\ UNCHANGED <<historyVars, connects, viewVars, reply, ghostVars>>

\* The connection is lost with what is on the wire (external).
Lose(c) ==
    /\ conn[c] # "down"
    /\ conn' = [conn EXCEPT ![c] = "down"]
    /\ wire' = [wire EXCEPT ![c] = <<>>]
    /\ Unsubscribe(c)
    /\ UNCHANGED <<historyVars, connects, viewVars, reply, ghostVars>>

-----------------------------------------------------------------------------
(* The browser.                                                            *)

\* handleSseEvent and liveReducer: a gap is ignored.
Handled(entries, e) ==
    CASE e.kind = "snapshot" -> e.tasks
      [] e.kind = "agent_activity" -> [entries EXCEPT ![e.task] = e.text]
      [] e.kind = "task_done" -> [entries EXCEPT ![e.task] = NoEntry]
      [] OTHER -> entries

Receive(c) ==
    /\ wire[c] # <<>>
    /\ LET e == Head(wire[c]) IN
        /\ live' = [live EXCEPT ![c] = Handled(@, e)]
        /\ conn' = [conn EXCEPT ![c] = IF e.kind = "auth_error" THEN "down" ELSE @]
        /\ warned' = [warned EXCEPT ![c] = @ \/ e.kind = "gap"]
    /\ wire' = [wire EXCEPT ![c] = Tail(@)]
    /\ UNCHANGED <<historyVars, hubVars, connects, polled, reply, missed>>

\* The server answers a poll of the task list.
AnswerPoll(c) ==
    /\ reply[c] = <<>>
    /\ reply' = [reply EXCEPT ![c] = status]
    /\ UNCHANGED <<historyVars, hubVars, linkVars, viewVars, ghostVars>>

Reconciled(entries, tasks) ==
    [t \in Tasks |-> IF tasks[t] = "ENDED" THEN NoEntry ELSE entries[t]]

\* The answer arrives.  The effect runs when the list has changed; other fields of
\* the records may have changed too.
ReceivePoll(c) ==
    /\ reply[c] # <<>>
    /\ polled' = [polled EXCEPT ![c] = reply[c]]
    /\ \/ live' = [live EXCEPT ![c] = Reconciled(@, reply[c])]
       \/ reply[c] = polled[c] /\ UNCHANGED live
    /\ reply' = [reply EXCEPT ![c] = <<>>]
    /\ UNCHANGED <<historyVars, hubVars, linkVars, ghostVars>>

-----------------------------------------------------------------------------
Server(c)  == BeginStream(c) \/ Forward(c) \/ Expire(c)
Browser(c) == Open(c) \/ Receive(c) \/ AnswerPoll(c) \/ ReceivePoll(c)

Next == Dispatcher \/ \E c \in Clients : Server(c) \/ Browser(c) \/ Lose(c)

Spec == Init /\ [][Next]_vars

-----------------------------------------------------------------------------
\* What the browser has still to receive on its connection, as it would be sent now.
Stream(c) == wire[c] \o [i \in DOMAIN buffer[c] |-> Sent(buffer[c][i])]

TextOf(e, t) ==
    CASE e.kind = "snapshot" -> e.tasks[t]
      [] e.kind = "agent_activity" /\ e.task = t -> e.text
      [] OTHER -> NoEntry

\* A connection never tells an older activity after a newer one, nor any activity of
\* a task it has reported as done, although buffered activities are rewritten in place,
\* also by what is published while another connection is behind or ahead of it.
StreamOrdered ==
    \A c \in Clients, t \in Tasks : LET s == Stream(c) IN
        \A i, j \in DOMAIN s : i < j /\ TextOf(s[j], t) # NoEntry =>
            /\ TextOf(s[i], t) < TextOf(s[j], t)
            /\ ~(s[i].kind = "task_done" /\ s[i].task = t)

\* The task's entry never goes back to an older activity, across reconnections too.
LiveNeverOlder ==
    [][\A c \in Clients, t \in Tasks : live'[c][t] # NoEntry => live'[c][t] >= live[c][t]]_vars

\* When a browser has received all its connection has for it, its live state is the
\* orchestrator's - or it was told of a gap, or an event fell between the snapshot and
\* the subscription.  Nothing else is lost without a word.
InStep ==
    \A c \in Clients :
        conn[c] = "open" /\ Stream(c) = <<>> /\ ~missed[c] /\ ~warned[c] =>
            \A t \in Tasks :
                /\ status[t] = "ENDED" => live[c][t] = NoEntry
                /\ status[t] = "RUNNING" /\ activity[t] > 0 => live[c][t] = activity[t]

=============================================================================
