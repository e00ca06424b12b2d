----------------------------- MODULE FeedProofs -----------------------------
(***************************************************************************)
(* Theorems about DashboardFeed and StreamingHub, for any dashboards,      *)
(* tasks, buffer size and number of connections.                           *)
(***************************************************************************)
EXTENDS DashboardFeed, TLAPS

TaskStatus == {"none", "RUNNING", "ENDED"}

HistoryTyped ==
    /\ status \in [Tasks -> TaskStatus]
    /\ reports \in [Tasks -> 0..MaxActivities]
    /\ activity \in [Tasks -> 0..MaxActivities]
    /\ \A t \in Tasks :
           /\ status[t] = "none" => reports[t] = 0
           /\ activity[t] = IF status[t] = "RUNNING" THEN reports[t] ELSE 0

HubTyped ==
    /\ content \in [Tasks -> [Report -> Report]]
    /\ subscribed \in SUBSET Clients
    /\ buffer \in [Clients -> Seq(Item)]
    /\ \A c \in Clients : Len(buffer[c]) <= Capacity
    /\ index \in [Clients -> [Tasks -> 0..MaxActivities]]

LinkTyped ==
    /\ conn \in [Clients -> {"down", "opening", "open", "expired"}]
    /\ connects \in [Clients -> 0..MaxConnects]
    /\ wire \in [Clients -> Seq(Event)]
    /\ live \in [Clients -> [Tasks -> NoEntry..MaxActivities]]
    /\ polled \in [Clients -> [Tasks -> TaskStatus]]
    /\ reply \in [Clients -> {<<>>} \cup [Tasks -> TaskStatus]]
    /\ missed \in [Clients -> BOOLEAN]
    /\ warned \in [Clients -> BOOLEAN]
    /\ \A c \in Clients : c \in subscribed <=> conn[c] = "open"

FeedTyped == HistoryTyped /\ HubTyped /\ LinkTyped

-----------------------------------------------------------------------------
(* The buffer.                                                             *)

IsActivity(e, t) == e.kind = "agent_activity" /\ e.task = t
IsDone(e, t)     == e.kind = "task_done" /\ e.task = t

\* The index names the one buffered activity of the task.
Named(c, t) ==
    /\ \A i \in DOMAIN buffer[c] : IsActivity(buffer[c][i], t) =>
           /\ index[c][t] # 0 /\ buffer[c][i].dict = index[c][t]
           /\ \A j \in DOMAIN buffer[c] : IsActivity(buffer[c][j], t) => i = j
    /\ index[c][t] # 0 => \E i \in DOMAIN buffer[c] : IsActivity(buffer[c][i], t)
    /\ c \notin subscribed => buffer[c] = <<>>

\* The dict it names was made for a report of the past and reads as the last one; a dict
\* that is yet to be made will read as made.
Newest(c, t) ==
    index[c][t] # 0 => index[c][t] <= reports[t] /\ content[t][index[c][t]] = reports[t]

Unwritten(t) == \A n \in Report : n > reports[t] => content[t][n] = n

\* A task is done once, and after all its activities.
DoneLast(c, t) ==
    /\ \A i \in DOMAIN buffer[c] : IsDone(buffer[c][i], t) => status[t] = "ENDED"
    /\ \A i, j \in DOMAIN buffer[c] :
           i < j /\ IsActivity(buffer[c][j], t) => ~IsDone(buffer[c][i], t)

Buffering(c, t) == Named(c, t) /\ Newest(c, t) /\ DoneLast(c, t)

-----------------------------------------------------------------------------
(* The wire and the browser.                                               *)

\* What is on the wire is in order, newer than the entry and older than what is buffered.
InOrder(c, t) ==
    /\ \A i \in DOMAIN wire[c] :
           /\ TextOf(wire[c][i], t) <= reports[t]
           /\ TextOf(wire[c][i], t) # NoEntry => live[c][t] <= TextOf(wire[c][i], t)
           /\ IsDone(wire[c][i], t) => status[t] = "ENDED"
           /\ index[c][t] # 0 =>
                  TextOf(wire[c][i], t) < reports[t] /\ ~IsDone(wire[c][i], t)
    /\ \A i, j \in DOMAIN wire[c] : i < j /\ TextOf(wire[c][j], t) # NoEntry =>
           TextOf(wire[c][i], t) < TextOf(wire[c][j], t) /\ ~IsDone(wire[c][i], t)
    /\ live[c][t] <= reports[t]
    /\ reply[c] # <<>> /\ reply[c][t] = "ENDED" => status[t] = "ENDED"

\* What the entry will be when the browser has received what is on the wire.
About(e, t) == e.kind = "snapshot" \/ IsActivity(e, t) \/ IsDone(e, t)

Says(c, t, text) ==
    \/ \E i \in DOMAIN wire[c] :
           /\ About(wire[c][i], t) /\ TextOf(wire[c][i], t) = text
           /\ \A j \in DOMAIN wire[c] : i < j => ~About(wire[c][j], t)
    \/ live[c][t] = text /\ \A i \in DOMAIN wire[c] : ~About(wire[c][i], t)

Excused(c) ==
    \/ conn[c] \notin {"opening", "open"} \/ missed[c] \/ warned[c]
    \/ \E i \in DOMAIN wire[c] : wire[c][i].kind = "gap"
    \/ \E i \in DOMAIN buffer[c] : buffer[c][i].kind = "gap"

Told(c, t) ==
    Excused(c) \/
        /\ status[t] = "ENDED" =>
               \/ \E i \in DOMAIN buffer[c] : IsDone(buffer[c][i], t)
               \/ index[c][t] = 0 /\ Says(c, t, NoEntry)
        /\ status[t] = "RUNNING" /\ activity[t] > 0 =>
               index[c][t] # 0 \/ Says(c, t, activity[t])

Delivering(c, t) == InOrder(c, t) /\ Told(c, t)

\* An expired token is the last thing a connection tells.
Expiring(c) ==
    \A i \in DOMAIN wire[c] : wire[c][i].kind = "auth_error" =>
        conn[c] = "expired" /\ \A j \in DOMAIN wire[c] : j <= i

FeedInv ==
    /\ FeedTyped
    /\ \A t \in Tasks : Unwritten(t)
    /\ \A c \in Clients : Expiring(c)
    /\ \A c \in Clients, t \in Tasks : Buffering(c, t) /\ Delivering(c, t)

-----------------------------------------------------------------------------
(* Items and events.                                                       *)

LEMMA ItemKinds ==
    ASSUME NEW e \in Item
    PROVE  /\ e.kind \in {"agent_activity", "task_done", "gap"}
           /\ e.kind = "agent_activity" =>
                  e.task \in Tasks /\ e.dict \in Report /\ e = Activity(e.task, e.dict)
           /\ e.kind = "task_done" => e.task \in Tasks /\ e = Done(e.task)
           /\ e.kind = "gap" => e = Gap
<1>1. CASE \E t \in Tasks, n \in Report : e = Activity(t, n)
  BY <1>1 DEF Activity
<1>2. CASE \E t \in Tasks : e = Done(t)
  BY <1>2 DEF Done
<1>3. CASE e = Gap
  BY <1>3 DEF Gap
<1>4. QED
  BY <1>1, <1>2, <1>3 DEF Item

LEMMA Kinds ==
    /\ \A t \in Tasks, n \in Report :
           /\ Activity(t, n) \in Item /\ Activity(t, n).kind = "agent_activity"
           /\ Activity(t, n).task = t /\ Activity(t, n).dict = n
    /\ \A t \in Tasks :
           Done(t) \in Item /\ Done(t).kind = "task_done" /\ Done(t).task = t
    /\ Gap \in Item /\ Gap.kind = "gap"
<1>1. ASSUME NEW t \in Tasks, NEW n \in Report
      PROVE  /\ Activity(t, n) \in Item /\ Activity(t, n).kind = "agent_activity"
             /\ Activity(t, n).task = t /\ Activity(t, n).dict = n
  <2>1. Activity(t, n) \in Item
    BY DEF Item
  <2>2. QED
    BY <2>1 DEF Activity
<1>2. ASSUME NEW t \in Tasks
      PROVE  Done(t) \in Item /\ Done(t).kind = "task_done" /\ Done(t).task = t
  <2>1. Done(t) \in Item
    BY DEF Item
  <2>2. QED
    BY <2>1 DEF Done
<1>3. Gap \in Item /\ Gap.kind = "gap"
  BY DEF Item, Gap
<1>4. QED
  BY <1>1, <1>2, <1>3

\* What an event tells about a task.
LEMMA Texts ==
    ASSUME NEW e \in Event, NEW t \in Tasks
    PROVE  /\ e.kind \in {"agent_activity", "task_done", "gap", "auth_error", "snapshot"}
           /\ e.kind = "agent_activity" => e.task \in Tasks /\ e.text \in Report
           /\ e.kind = "task_done" => e.task \in Tasks
           /\ e.kind = "snapshot" =>
                  e.tasks \in [Tasks -> NoEntry..MaxActivities] /\ TextOf(e, t) = e.tasks[t]
           /\ IsActivity(e, t) => TextOf(e, t) = e.text
           /\ e.kind # "snapshot" /\ ~IsActivity(e, t) => TextOf(e, t) = NoEntry
           /\ TextOf(e, t) \in NoEntry..MaxActivities
<1> USE HubAssumption
<1>1. CASE \E u \in Tasks, n \in Report : e = [kind |-> "agent_activity", task |-> u, text |-> n]
  BY <1>1 DEF TextOf, IsActivity, NoEntry, Report
<1>2. CASE \E u \in Tasks : e = [kind |-> "task_done", task |-> u]
  BY <1>2 DEF TextOf, IsActivity, NoEntry
<1>3. CASE e \in {Gap, AuthError}
  BY <1>3 DEF TextOf, IsActivity, NoEntry, Gap, AuthError
<1>4. CASE \E f \in [Tasks -> NoEntry..MaxActivities] : e = [kind |-> "snapshot", tasks |-> f]
  BY <1>4 DEF TextOf, IsActivity
<1>5. QED
  BY <1>1, <1>2, <1>3, <1>4 DEF Event

\* What the server sends of a buffered item.
LEMMA SentKinds ==
    ASSUME HubTyped, NEW e \in Item, NEW t \in Tasks
    PROVE  /\ Sent(e) \in Event
           /\ IsActivity(Sent(e), t) <=> IsActivity(e, t)
           /\ IsDone(Sent(e), t) <=> IsDone(e, t)
           /\ Sent(e).kind = e.kind
           /\ TextOf(Sent(e), t) = IF IsActivity(e, t) THEN content[t][e.dict] ELSE NoEntry
<1>1. CASE e.kind = "agent_activity"
  <2>1. e.task \in Tasks /\ e.dict \in Report
    BY <1>1, ItemKinds
  <2>2. PICK n \in Report : n = content[e.task][e.dict]
    BY <2>1 DEF HubTyped
  <2>3. Sent(e) = [kind |-> "agent_activity", task |-> e.task, text |-> n]
    BY <1>1, <2>2 DEF Sent
  <2>4. QED
    BY <1>1, <2>1, <2>2, <2>3 DEF Event, IsActivity, IsDone, TextOf
<1>2. CASE e.kind = "task_done"
  <2>1. e.task \in Tasks /\ Sent(e) = [kind |-> "task_done", task |-> e.task]
    BY <1>2, ItemKinds DEF Sent
  <2>2. QED
    BY <1>2, <2>1 DEF Event, IsActivity, IsDone, TextOf
<1>3. CASE e.kind = "gap"
  <2>1. e = Gap /\ Sent(e) = Gap
    BY <1>3, ItemKinds DEF Sent
  <2>2. QED
    BY <2>1 DEF Event, IsActivity, IsDone, TextOf, Gap
<1>4. QED
  BY <1>1, <1>2, <1>3, ItemKinds

LEMMA SnapshotSays ==
    ASSUME HistoryTyped
    PROVE  /\ Snapshot \in Event /\ Snapshot.kind = "snapshot"
           /\ \A t \in Tasks :
                  TextOf(Snapshot, t) = IF status[t] = "RUNNING" THEN activity[t] ELSE NoEntry
<1>1. PICK f \in [Tasks -> NoEntry..MaxActivities] :
          f = [u \in Tasks |-> IF status[u] = "RUNNING" THEN activity[u] ELSE NoEntry]
  <2>1. \A u \in Tasks : (IF status[u] = "RUNNING" THEN activity[u] ELSE NoEntry)
                             \in NoEntry..MaxActivities
    BY HubAssumption DEF HistoryTyped, NoEntry
  <2>2. QED
    BY <2>1
<1>2. Snapshot = [kind |-> "snapshot", tasks |-> f]
  BY <1>1 DEF Snapshot
<1>3. Snapshot \in Event
  BY <1>2 DEF Event
<1>4. Snapshot.kind = "snapshot" /\ \A t \in Tasks : TextOf(Snapshot, t) = f[t]
  BY <1>2 DEF TextOf
<1>5. QED
  BY <1>1, <1>3, <1>4

-----------------------------------------------------------------------------
(* Sequences.                                                              *)

\* What follows the head moves up by one.
LEMMA TailAt ==
    ASSUME NEW S, NEW s \in Seq(S), s # <<>>
    PROVE  /\ Head(s) \in S /\ Head(s) = s[1] /\ 1 \in DOMAIN s
           /\ Tail(s) \in Seq(S) /\ Len(Tail(s)) = Len(s) - 1
           /\ \A i \in DOMAIN Tail(s) : i + 1 \in DOMAIN s /\ Tail(s)[i] = s[i + 1]
           /\ \A i \in DOMAIN s : i # 1 => i - 1 \in DOMAIN Tail(s)
           /\ \A i \in DOMAIN s : i \in Nat /\ i >= 1
OBVIOUS

LEMMA AppendAt ==
    ASSUME NEW S, NEW s \in Seq(S), NEW e \in S
    PROVE  /\ Append(s, e) \in Seq(S) /\ Len(Append(s, e)) = Len(s) + 1
           /\ DOMAIN Append(s, e) = DOMAIN s \cup {Len(s) + 1}
           /\ \A i \in DOMAIN s : i \in Nat /\ i < Len(s) + 1 /\ Append(s, e)[i] = s[i]
           /\ Append(s, e)[Len(s) + 1] = e
OBVIOUS

-----------------------------------------------------------------------------
(* How a publication changes one buffer.                                   *)

Kept(c, item) ==
    /\ c \notin subscribed \/ Coalesces(c, item)
    /\ buffer'[c] = buffer[c] /\ index'[c] = index[c]

Overflown(c, item) ==
    /\ c \in subscribed /\ ~Coalesces(c, item) /\ buffer[c] # <<>>
    /\ buffer'[c] = Append(Tail(buffer[c]), Gap)
    /\ index'[c] = Discarded(index[c], Head(buffer[c]))

Added(c, item) ==
    /\ c \in subscribed /\ ~Coalesces(c, item)
    /\ buffer'[c] = Append(buffer[c], item)
    /\ index'[c] = Indexed(index[c], item)

LEMMA PublishCases ==
    ASSUME HubTyped, NEW item \in Item, Publish(item), NEW c \in Clients
    PROVE  /\ Kept(c, item) \/ Overflown(c, item) \/ Added(c, item)
           /\ buffer'[c] \in Seq(Item) /\ Len(buffer'[c]) <= Capacity
           /\ index'[c] \in [Tasks -> 0..MaxActivities]
<1>1. /\ buffer'[c] = Buffered(c, item) /\ index'[c] = IndexAfter(c, item)
      /\ buffer[c] \in Seq(Item) /\ Len(buffer[c]) <= Capacity
      /\ index[c] \in [Tasks -> 0..MaxActivities] /\ Capacity \in Nat \ {0}
  BY HubAssumption DEF Publish, HubTyped
<1>2. CASE c \notin subscribed \/ Coalesces(c, item)
  <2>1. buffer'[c] = buffer[c] /\ index'[c] = index[c]
    BY <1>1, <1>2 DEF Buffered, IndexAfter
  <2>2. QED
    BY <1>1, <1>2, <2>1 DEF Kept
<1>3. CASE c \in subscribed /\ ~Coalesces(c, item) /\ Full(c)
  <2>1. /\ buffer'[c] = Append(Tail(buffer[c]), Gap)
        /\ index'[c] = Discarded(index[c], Head(buffer[c]))
    BY <1>1, <1>3 DEF Buffered, IndexAfter
  <2>2. buffer[c] # <<>>
    BY <1>1, <1>3 DEF Full
  <2>3. buffer'[c] \in Seq(Item) /\ Len(buffer'[c]) <= Capacity
    BY <1>1, <2>1, <2>2, TailAt, AppendAt, Kinds
  <2>4. index'[c] \in [Tasks -> 0..MaxActivities]
    <3>1. PICK ix \in [Tasks -> 0..MaxActivities] : ix = index[c]
      BY <1>1
    <3>2. 0 \in 0..MaxActivities
      BY HubAssumption
    <3>3. PICK e : e = Head(buffer[c])
      OBVIOUS
    <3>4. Discarded(ix, e) \in [Tasks -> 0..MaxActivities]
      BY <3>2 DEF Discarded
    <3>5. QED
      BY <2>1, <3>1, <3>3, <3>4
  <2>5. QED
    BY <1>3, <2>1, <2>2, <2>3, <2>4 DEF Overflown
<1>4. CASE c \in subscribed /\ ~Coalesces(c, item) /\ ~Full(c)
  <2>1. buffer'[c] = Append(buffer[c], item) /\ index'[c] = Indexed(index[c], item)
    BY <1>1, <1>4 DEF Buffered, IndexAfter
  <2>2. buffer'[c] \in Seq(Item) /\ Len(buffer'[c]) <= Capacity
    BY <1>1, <1>4, <2>1 DEF Full
  <2>3. index'[c] \in [Tasks -> 0..MaxActivities]
    BY <1>1, <2>1, ItemKinds, HubAssumption DEF Indexed, Report
  <2>4. QED
    BY <1>4, <2>1, <2>2, <2>3 DEF Added
<1>5. QED
  BY <1>2, <1>3, <1>4

-----------------------------------------------------------------------------
(* The index through every change of a buffer.                             *)

LEMMA NamedOverflown ==
    ASSUME HubTyped, NEW item \in Item, NEW c \in Clients, NEW t \in Tasks,
           Named(c, t), Overflown(c, item), UNCHANGED subscribed
    PROVE  /\ Named(c, t)'
           /\ index'[c][t] \in {0, index[c][t]}
           /\ \E i \in DOMAIN buffer'[c] : buffer'[c][i].kind = "gap"
<1> DEFINE b == buffer[c]
           n == Len(b)
<1>1. /\ b \in Seq(Item) /\ b # <<>> /\ Head(b) \in Item /\ Head(b) = b[1]
      /\ index[c] \in [Tasks -> 0..MaxActivities]
  BY TailAt DEF HubTyped, Overflown
<1>2. /\ DOMAIN buffer'[c] = 1..n /\ n \in Nat /\ n >= 1
      /\ \A i \in 1..(n - 1) : buffer'[c][i] = b[i + 1]
      /\ buffer'[c][n] = Gap
  BY <1>1, Kinds DEF Overflown
<1>3. buffer'[c][n].kind = "gap" /\ ~IsActivity(Gap, t)
  BY <1>2, Kinds DEF IsActivity
<1>4. CASE IsActivity(b[1], t)
  <2>1. b[1].dict = index[c][t] /\ 1 \in DOMAIN b
    BY <1>1, <1>2, <1>4 DEF Named
  <2>2. index'[c][t] = 0
    BY <1>1, <1>4, <2>1 DEF Overflown, Discarded, IsActivity
  <2>3. \A i \in DOMAIN buffer'[c] : ~IsActivity(buffer'[c][i], t)
    BY <1>1, <1>2, <1>3, <1>4, <2>1 DEF Named
  <2>4. QED
    BY <1>2, <1>3, <2>2, <2>3 DEF Named, Overflown
<1>5. CASE ~IsActivity(b[1], t)
  <2>1. index'[c][t] = index[c][t]
    BY <1>1, <1>5, ItemKinds DEF Overflown, Discarded, IsActivity
  <2>2. ASSUME NEW i \in DOMAIN buffer'[c], IsActivity(buffer'[c][i], t)
        PROVE  /\ index'[c][t] # 0 /\ buffer'[c][i].dict = index'[c][t]
               /\ \A j \in DOMAIN buffer'[c] : IsActivity(buffer'[c][j], t) => i = j
    <3>1. i \in 1..(n - 1) /\ i + 1 \in DOMAIN b /\ buffer'[c][i] = b[i + 1]
      BY <1>1, <1>2, <1>3, <2>2
    <3>2. \A j \in DOMAIN buffer'[c] : IsActivity(buffer'[c][j], t) =>
              j \in 1..(n - 1) /\ j + 1 \in DOMAIN b /\ buffer'[c][j] = b[j + 1]
      BY <1>1, <1>2, <1>3
    <3>3. QED
      BY <2>1, <2>2, <3>1, <3>2 DEF Named
  <2>3. ASSUME index'[c][t] # 0 PROVE \E i \in DOMAIN buffer'[c] : IsActivity(buffer'[c][i], t)
    <3>1. PICK i \in DOMAIN b : IsActivity(b[i], t)
      BY <2>1, <2>3 DEF Named
    <3>2. i - 1 \in 1..(n - 1) /\ buffer'[c][i - 1] = b[i]
      BY <1>1, <1>2, <1>5, <3>1
    <3>3. QED
      BY <1>2, <3>1, <3>2
  <2>4. c \in subscribed'
    BY DEF Overflown
  <2>5. Named(c, t)'
    BY <2>2, <2>3, <2>4 DEF Named
  <2>6. QED
    BY <1>2, <1>3, <2>1, <2>5
<1>6. QED
  BY <1>4, <1>5

LEMMA NamedAdded ==
    ASSUME HubTyped, NEW item \in Item, NEW c \in Clients, NEW t \in Tasks,
           Named(c, t), Added(c, item), UNCHANGED subscribed
    PROVE  /\ Named(c, t)'
           /\ index'[c][t] = (IF IsActivity(item, t) THEN item.dict ELSE index[c][t])
           /\ \A i \in DOMAIN buffer[c] :
                  i \in DOMAIN buffer'[c] /\ buffer'[c][i] = buffer[c][i]
           /\ \E i \in DOMAIN buffer'[c] : buffer'[c][i] = item
<1> DEFINE b == buffer[c]
           n == Len(b) + 1
<1>1. b \in Seq(Item) /\ index[c] \in [Tasks -> 0..MaxActivities] /\ c \in subscribed'
  BY DEF HubTyped, Added
<1>2. /\ DOMAIN buffer'[c] = DOMAIN b \cup {n} /\ n \notin DOMAIN b
      /\ \A i \in DOMAIN b : buffer'[c][i] = b[i]
      /\ buffer'[c][n] = item
  BY <1>1 DEF Added
<1> HIDE DEF b, n
<1>3. CASE IsActivity(item, t)
  <2>1. item.dict \in Report /\ item.dict # 0
    BY <1>3, ItemKinds, HubAssumption DEF IsActivity, Report
  <2>2. index[c][t] = 0
    BY <1>3 DEF Added, Coalesces, IsActivity
  <2>3. \A i \in DOMAIN b : ~IsActivity(b[i], t)
    BY <2>2 DEF Named, b
  <2>4. index'[c][t] = item.dict
    BY <1>1, <1>3 DEF Added, Indexed, IsActivity
  <2>5. \A i \in DOMAIN buffer'[c] : IsActivity(buffer'[c][i], t) => i = n
    BY <1>2, <2>3
  <2>6. Named(c, t)'
    BY <1>1, <1>2, <1>3, <2>1, <2>4, <2>5 DEF Named
  <2>7. QED
    BY <1>2, <1>3, <2>4, <2>6 DEF b
<1>4. CASE ~IsActivity(item, t)
  <2>1. index'[c][t] = index[c][t]
    BY <1>1, <1>4 DEF Added, Indexed, IsActivity
  <2>2. \A i \in DOMAIN buffer'[c] : IsActivity(buffer'[c][i], t) => i \in DOMAIN b
    BY <1>2, <1>4
  <2>3. ASSUME NEW i \in DOMAIN buffer'[c], IsActivity(buffer'[c][i], t)
        PROVE  /\ index'[c][t] # 0 /\ buffer'[c][i].dict = index'[c][t]
               /\ \A j \in DOMAIN buffer'[c] : IsActivity(buffer'[c][j], t) => i = j
    BY <1>2, <2>1, <2>2, <2>3 DEF Named, b
  <2>4. index'[c][t] # 0 => \E i \in DOMAIN buffer'[c] : IsActivity(buffer'[c][i], t)
    BY <1>2, <2>1 DEF Named, b
  <2>5. Named(c, t)'
    BY <1>1, <2>3, <2>4 DEF Named
  <2>6. QED
    BY <1>2, <1>4, <2>1, <2>5 DEF b
<1>5. QED
  BY <1>3, <1>4

LEMMA NamedTaken ==
    ASSUME HubTyped, NEW c \in Clients, NEW t \in Tasks, c \in subscribed,
           Named(c, t), Take(c), buffer[c] # <<>>
    PROVE  /\ Named(c, t)'
           /\ index'[c][t] = (IF IsActivity(Head(buffer[c]), t) THEN 0 ELSE index[c][t])
           /\ IsActivity(Head(buffer[c]), t) =>
                  index[c][t] # 0 /\ Head(buffer[c]).dict = index[c][t]
<1> DEFINE b == buffer[c]
<1>1. /\ b \in Seq(Item) /\ Head(b) \in Item /\ Head(b) = b[1] /\ 1 \in DOMAIN b
      /\ index[c] \in [Tasks -> 0..MaxActivities] /\ c \in subscribed'
  BY TailAt DEF HubTyped, Take
<1>2. buffer'[c] = Tail(b) /\ index'[c] = Discarded(index[c], Head(b))
  BY DEF HubTyped, Take
<1>3. /\ \A i \in DOMAIN buffer'[c] : i \in Nat /\ i >= 1 /\ i + 1 \in DOMAIN b /\ buffer'[c][i] = b[i + 1]
      /\ \A i \in DOMAIN b : i \in Nat /\ (i # 1 => i - 1 \in DOMAIN buffer'[c] /\ buffer'[c][i - 1] = b[i])
  BY <1>1, <1>2
<1>4. IsActivity(b[1], t) => b[1].dict = index[c][t] /\ index[c][t] # 0
  BY <1>1 DEF Named
<1>5. index'[c][t] = (IF IsActivity(b[1], t) THEN 0 ELSE index[c][t])
  BY <1>1, <1>2, <1>4, ItemKinds DEF Discarded, IsActivity
<1>6. ASSUME NEW i \in DOMAIN buffer'[c], IsActivity(buffer'[c][i], t)
      PROVE  /\ index'[c][t] # 0 /\ buffer'[c][i].dict = index'[c][t]
             /\ \A j \in DOMAIN buffer'[c] : IsActivity(buffer'[c][j], t) => i = j
  <2>1. IsActivity(b[i + 1], t) /\ i + 1 \in DOMAIN b /\ i + 1 # 1
    BY <1>3, <1>6
  <2>2. ~IsActivity(b[1], t)
    BY <1>1, <2>1 DEF Named
  <2>3. \A j \in DOMAIN buffer'[c] : IsActivity(buffer'[c][j], t) => i + 1 = j + 1
    BY <1>3, <2>1 DEF Named
  <2>4. QED
    BY <1>3, <1>5, <2>1, <2>2, <2>3 DEF Named
<1>7. ASSUME index'[c][t] # 0 PROVE \E i \in DOMAIN buffer'[c] : IsActivity(buffer'[c][i], t)
  <2>1. PICK i \in DOMAIN b : IsActivity(b[i], t)
    BY <1>5, <1>7 DEF Named
  <2>2. i # 1
    BY <1>5, <1>7, <2>1
  <2>3. QED
    BY <1>3, <2>1, <2>2
<1>8. Named(c, t)'
  BY <1>1, <1>6, <1>7 DEF Named
<1>9. QED
  BY <1>1, <1>4, <1>5, <1>8

-----------------------------------------------------------------------------
(* A publication, for every client and task.                               *)

LEMMA ContentAfter ==
    ASSUME HubTyped, NEW item \in Item, Publish(item)
    PROVE  /\ content' \in [Tasks -> [Report -> Report]]
           /\ \A t \in Tasks, n \in Report :
                  content'[t][n] =
                      IF IsActivity(item, t) /\ \E c \in subscribed : index[c][t] = n
                      THEN item.dict ELSE content[t][n]
<1>1. CASE item.kind # "agent_activity"
  BY <1>1 DEF Publish, Rewritten, IsActivity, HubTyped
<1>2. CASE item.kind = "agent_activity"
  <2>1. item.task \in Tasks /\ item.dict \in Report
    BY <1>2, ItemKinds
  <2>2. content' = [content EXCEPT ![item.task] = [n \in Report |->
              IF \E c \in subscribed : index[c][item.task] = n
              THEN item.dict ELSE content[item.task][n]]]
    BY <1>2 DEF Publish, Rewritten, HubTyped
  <2>3. QED
    BY <1>2, <2>1, <2>2 DEF HubTyped, IsActivity
<1>3. QED
  BY <1>1, <1>2

LEMMA HubPublishTyped ==
    ASSUME HubTyped, NEW item \in Item, Publish(item)
    PROVE  HubTyped'
<1>1. content' \in [Tasks -> [Report -> Report]] /\ subscribed' = subscribed
  BY ContentAfter DEF Publish
<1>2. /\ buffer' = [c \in Clients |-> buffer'[c]]
      /\ index' = [c \in Clients |-> index'[c]]
  BY DEF Publish
<1>3. \A c \in Clients :
          /\ buffer'[c] \in Seq(Item) /\ Len(buffer'[c]) <= Capacity
          /\ index'[c] \in [Tasks -> 0..MaxActivities]
  BY PublishCases
<1>4. buffer' \in [Clients -> Seq(Item)] /\ index' \in [Clients -> [Tasks -> 0..MaxActivities]]
  BY <1>2, <1>3
<1>5. QED
  BY <1>1, <1>3, <1>4 DEF HubTyped

\* The buffer keeps what it holds in order; when it overflows it holds a gap.
LEMMA NamedPublished ==
    ASSUME HubTyped, NEW item \in Item, Publish(item), NEW c \in Clients, NEW t \in Tasks,
           Named(c, t)
    PROVE  /\ Named(c, t)'
           /\ \/ index'[c][t] \in {0, index[c][t]}
              \/ IsActivity(item, t) /\ index'[c][t] = item.dict
           /\ \/ Kept(c, item)
              \/ Overflown(c, item) /\ \E i \in DOMAIN buffer'[c] : buffer'[c][i].kind = "gap"
              \/ /\ Added(c, item)
                 /\ index'[c][t] = (IF IsActivity(item, t) THEN item.dict ELSE index[c][t])
                 /\ \A i \in DOMAIN buffer[c] :
                        i \in DOMAIN buffer'[c] /\ buffer'[c][i] = buffer[c][i]
                 /\ \E i \in DOMAIN buffer'[c] : buffer'[c][i] = item
<1>1. subscribed' = subscribed
  BY DEF Publish
<1>2. CASE Kept(c, item)
  BY <1>1, <1>2 DEF Kept, Named
<1>3. CASE Overflown(c, item)
  BY <1>1, <1>3, NamedOverflown
<1>4. CASE Added(c, item)
  BY <1>1, <1>4, NamedAdded
<1>5. QED
  BY <1>2, <1>3, <1>4, PublishCases

LEMMA Undisturbed ==
    ASSUME HubTyped, NEW item \in Item, Publish(item), NEW c \in Clients, NEW t \in Tasks,
           Named(c, t), ~Overflown(c, item)
    PROVE  /\ \A i \in DOMAIN buffer[c] :
                  i \in DOMAIN buffer'[c] /\ buffer'[c][i] = buffer[c][i]
           /\ ~IsActivity(item, t) => index'[c][t] = index[c][t]
           /\ c \in subscribed /\ IsActivity(item, t) => index'[c][t] # 0
           /\ c \in subscribed /\ item.kind # "agent_activity" =>
                  \E i \in DOMAIN buffer'[c] : buffer'[c][i] = item
<1>1. CASE Kept(c, item)
  BY <1>1 DEF Kept, Coalesces, IsActivity
<1>2. CASE Added(c, item)
  <2>1. IsActivity(item, t) => item.dict # 0
    BY ItemKinds, HubAssumption DEF IsActivity, Report
  <2>2. UNCHANGED subscribed
    BY DEF Publish
  <2>3. QED
    BY <1>2, <2>1, <2>2, NamedAdded
<1>3. QED
  BY <1>1, <1>2, PublishCases

LEMMA NotIndexed ==
    ASSUME HubTyped, NEW c \in Clients, NEW t \in Tasks, Named(c, t), c \notin subscribed
    PROVE  index[c][t] = 0 /\ buffer[c] = <<>>
BY DEF Named, HubTyped

LEMMA DoneLastPublished ==
    ASSUME HubTyped, NEW item \in Item, Publish(item), NEW c \in Clients, NEW t \in Tasks,
           Named(c, t), DoneLast(c, t),
           IsActivity(item, t) => status[t] # "ENDED",
           IsDone(item, t) => status'[t] = "ENDED",
           status[t] = "ENDED" => status'[t] = "ENDED"
    PROVE  DoneLast(c, t)'
<1> DEFINE b == buffer[c]
           n == Len(b)
<1>1. b \in Seq(Item) /\ n \in Nat /\ DOMAIN b = 1..n
  BY DEF HubTyped
<1>2. CASE Kept(c, item)
  BY <1>2 DEF Kept, DoneLast
<1>3. CASE Overflown(c, item)
  <2>1. /\ DOMAIN buffer'[c] = 1..n
        /\ \A i \in 1..(n - 1) : buffer'[c][i] = b[i + 1]
        /\ buffer'[c][n] = Gap /\ n >= 1
    BY <1>1, <1>3, Kinds DEF Overflown
  <2>2. ~IsActivity(Gap, t) /\ ~IsDone(Gap, t)
    BY Kinds DEF IsActivity, IsDone
  <2>3. ASSUME NEW i \in DOMAIN buffer'[c], IsDone(buffer'[c][i], t)
        PROVE  status'[t] = "ENDED"
    <3>1. i \in 1..(n - 1) /\ i + 1 \in DOMAIN b /\ buffer'[c][i] = b[i + 1]
      BY <1>1, <2>1, <2>2, <2>3
    <3>2. QED
      BY <2>3, <3>1 DEF DoneLast
  <2>4. ASSUME NEW i \in DOMAIN buffer'[c], NEW j \in DOMAIN buffer'[c], i < j,
               IsActivity(buffer'[c][j], t)
        PROVE  ~IsDone(buffer'[c][i], t)
    <3>1. j \in 1..(n - 1) /\ j + 1 \in DOMAIN b /\ buffer'[c][j] = b[j + 1]
      BY <1>1, <2>1, <2>2, <2>4
    <3>2. i + 1 \in DOMAIN b /\ buffer'[c][i] = b[i + 1] /\ i + 1 < j + 1
      BY <1>1, <2>1, <2>4, <3>1
    <3>3. QED
      BY <2>4, <3>1, <3>2 DEF DoneLast
  <2>5. QED
    BY <2>3, <2>4 DEF DoneLast
<1>4. CASE Added(c, item)
  <2>1. /\ DOMAIN buffer'[c] = 1..(n + 1)
        /\ \A i \in 1..n : buffer'[c][i] = b[i]
        /\ buffer'[c][n + 1] = item
    BY <1>1, <1>4 DEF Added
  <2>2. ~(IsActivity(item, t) /\ IsDone(item, t))
    BY DEF IsActivity, IsDone
  <2>3. ASSUME NEW i \in DOMAIN buffer'[c], IsDone(buffer'[c][i], t)
        PROVE  status'[t] = "ENDED"
    BY <1>1, <2>1, <2>3 DEF DoneLast
  <2>4. ASSUME NEW i \in DOMAIN buffer'[c], NEW j \in DOMAIN buffer'[c], i < j,
               IsActivity(buffer'[c][j], t)
        PROVE  ~IsDone(buffer'[c][i], t)
    <3>1. i \in 1..n /\ buffer'[c][i] = b[i]
      BY <1>1, <2>1, <2>4
    <3>2. CASE j = n + 1
      BY <1>1, <2>1, <2>4, <3>1, <3>2 DEF DoneLast
    <3>3. CASE j # n + 1
      BY <1>1, <2>1, <2>4, <3>1, <3>3 DEF DoneLast
    <3>4. QED
      BY <3>2, <3>3
  <2>5. QED
    BY <2>3, <2>4 DEF DoneLast
<1>5. QED
  BY <1>2, <1>3, <1>4, PublishCases

-----------------------------------------------------------------------------
(* The dispatcher's steps: what they do to the history.                    *)

LEMMA Reporting ==
    ASSUME HistoryTyped, NEW u \in Tasks, ReportActivity(u)
    PROVE  /\ HistoryTyped'
           /\ reports[u] + 1 \in Report /\ reports[u] \in Nat
           /\ Activity(u, reports[u] + 1) \in Item
           /\ Publish(Activity(u, reports[u] + 1))
           /\ status[u] = "RUNNING" /\ status' = status
           /\ reports'[u] = reports[u] + 1 /\ activity'[u] = reports[u] + 1
           /\ \A t \in Tasks \ {u} : reports'[t] = reports[t] /\ activity'[t] = activity[t]
           /\ Published
<1>1. /\ status[u] = "RUNNING" /\ reports[u] < MaxActivities
      /\ reports' = [reports EXCEPT ![u] = @ + 1]
      /\ activity' = [activity EXCEPT ![u] = reports[u] + 1]
      /\ Publish(Activity(u, reports[u] + 1))
      /\ status' = status
  BY DEF ReportActivity
<1>2. reports[u] + 1 \in Report /\ reports[u] + 1 \in 0..MaxActivities /\ reports[u] \in Nat
  BY <1>1, HubAssumption DEF HistoryTyped, Report
<1>3. /\ reports'[u] = reports[u] + 1 /\ activity'[u] = reports[u] + 1
      /\ \A t \in Tasks \ {u} : reports'[t] = reports[t] /\ activity'[t] = activity[t]
      /\ reports' \in [Tasks -> 0..MaxActivities] /\ activity' \in [Tasks -> 0..MaxActivities]
  BY <1>1, <1>2 DEF HistoryTyped
<1>4. ASSUME NEW t \in Tasks
      PROVE  /\ status'[t] = "none" => reports'[t] = 0
             /\ activity'[t] = IF status'[t] = "RUNNING" THEN reports'[t] ELSE 0
  <2>1. CASE t = u
    BY <1>1, <1>3, <2>1
  <2>2. CASE t # u
    BY <1>1, <1>3, <2>2 DEF HistoryTyped
  <2>3. QED
    BY <2>1, <2>2
<1>5. HistoryTyped'
  BY <1>1, <1>3, <1>4 DEF HistoryTyped
<1>6. Published
  BY <1>2, <1>3 DEF Published
<1>7. QED
  BY <1>1, <1>2, <1>3, <1>5, <1>6, Kinds

LEMMA Ending ==
    ASSUME HistoryTyped, NEW u \in Tasks, Finalize(u)
    PROVE  /\ HistoryTyped'
           /\ Done(u) \in Item /\ Publish(Done(u))
           /\ status[u] = "RUNNING" /\ status'[u] = "ENDED" /\ reports' = reports
           /\ \A t \in Tasks \ {u} : status'[t] = status[t] /\ activity'[t] = activity[t]
           /\ Published
<1>1. /\ status[u] = "RUNNING" /\ reports' = reports
      /\ status' = [status EXCEPT ![u] = "ENDED"]
      /\ activity' = [activity EXCEPT ![u] = 0]
      /\ Publish(Done(u))
  BY DEF Finalize
<1>2. /\ status'[u] = "ENDED" /\ activity'[u] = 0
      /\ \A t \in Tasks \ {u} : status'[t] = status[t] /\ activity'[t] = activity[t]
      /\ status' \in [Tasks -> TaskStatus] /\ activity' \in [Tasks -> 0..MaxActivities]
  BY <1>1, HubAssumption DEF HistoryTyped, TaskStatus
<1>3. ASSUME NEW t \in Tasks
      PROVE  /\ status'[t] = "none" => reports'[t] = 0
             /\ activity'[t] = IF status'[t] = "RUNNING" THEN reports'[t] ELSE 0
  <2>1. CASE t = u
    BY <1>1, <1>2, <2>1
  <2>2. CASE t # u
    BY <1>1, <1>2, <2>2 DEF HistoryTyped
  <2>3. QED
    BY <2>1, <2>2
<1>4. HistoryTyped'
  BY <1>1, <1>2, <1>3 DEF HistoryTyped
<1>5. Published
  BY <1>1, <1>2 DEF Published
<1>6. QED
  BY <1>1, <1>2, <1>4, <1>5, Kinds

LEMMA Starting ==
    ASSUME HistoryTyped, NEW u \in Tasks, StartTask(u)
    PROVE  /\ HistoryTyped'
           /\ status[u] = "none" /\ status'[u] = "RUNNING" /\ activity[u] = 0
           /\ UNCHANGED <<activity, reports, hubVars>>
           /\ \A t \in Tasks \ {u} : status'[t] = status[t]
<1>1. /\ status[u] = "none" /\ status' = [status EXCEPT ![u] = "RUNNING"]
      /\ UNCHANGED <<activity, reports, hubVars>>
  BY DEF StartTask
<1>2. /\ status'[u] = "RUNNING" /\ \A t \in Tasks \ {u} : status'[t] = status[t]
      /\ status' \in [Tasks -> TaskStatus] /\ activity[u] = 0 /\ reports[u] = 0
  BY <1>1 DEF HistoryTyped, TaskStatus
<1>3. ASSUME NEW t \in Tasks
      PROVE  /\ status'[t] = "none" => reports'[t] = 0
             /\ activity'[t] = IF status'[t] = "RUNNING" THEN reports'[t] ELSE 0
  <2>1. CASE t = u
    BY <1>1, <1>2, <2>1
  <2>2. CASE t # u
    BY <1>1, <1>2, <2>2 DEF HistoryTyped
  <2>3. QED
    BY <2>1, <2>2
<1>4. HistoryTyped'
  BY <1>1, <1>2, <1>3 DEF HistoryTyped
<1>5. QED
  BY <1>1, <1>2, <1>4

-----------------------------------------------------------------------------
(* The dispatcher's steps: what they leave in the buffers.                 *)

LEMMA ReportBuffers ==
    ASSUME FeedTyped, NEW u \in Tasks, ReportActivity(u),
           \A t \in Tasks : Unwritten(t),
           \A c \in Clients, t \in Tasks : Buffering(c, t)
    PROVE  /\ \A t \in Tasks : Unwritten(t)'
           /\ \A c \in Clients, t \in Tasks : Buffering(c, t)'
<1> DEFINE item == Activity(u, reports[u] + 1)
<1>1. HubTyped /\ HistoryTyped /\ item \in Item /\ Publish(item)
  BY Reporting DEF FeedTyped
<1>2. /\ reports[u] + 1 \in Report /\ item.dict = reports[u] + 1
      /\ \A t \in Tasks : (IsActivity(item, t) <=> t = u) /\ ~IsDone(item, t)
  BY Kinds, Reporting DEF FeedTyped, IsActivity, IsDone
<1> HIDE DEF item
<1>3. \A t \in Tasks : reports[t] \in Nat
  BY <1>1, HubAssumption DEF HistoryTyped
<1>4. \A c \in subscribed : index[c][u] <= reports[u] \/ index[c][u] = 0
  BY <1>1 DEF Buffering, Newest, HubTyped
<1>5. ASSUME NEW t \in Tasks PROVE Unwritten(t)'
  <2>1. CASE t = u
    <3>1. ASSUME NEW n \in Report, n > reports[u] + 1 PROVE content'[u][n] = n
      <4>1. \A c \in subscribed : index[c][u] # n
        BY <1>3, <1>4, <3>1 DEF Report
      <4>2. content'[u][n] = content[u][n]
        BY <1>1, <4>1, ContentAfter
      <4>3. n > reports[u]
        BY <1>3, <3>1 DEF Report
      <4>4. QED
        BY <4>2, <4>3 DEF Unwritten
    <3>2. QED
      BY <1>1, <2>1, <3>1, Reporting DEF Unwritten
  <2>2. CASE t # u
    <3>1. \A n \in Report : content'[t][n] = content[t][n]
      BY <1>1, <1>2, <2>2, ContentAfter
    <3>2. QED
      BY <1>1, <2>2, <3>1, Reporting DEF Unwritten
  <2>3. QED
    BY <2>1, <2>2
<1>6. ASSUME NEW c \in Clients, NEW t \in Tasks PROVE Buffering(c, t)'
  <2>1. Named(c, t) /\ Newest(c, t) /\ DoneLast(c, t)
    BY DEF Buffering
  <2>2. Named(c, t)'
    BY <1>1, <2>1, NamedPublished
  <2>3. DoneLast(c, t)'
    BY <1>1, <1>2, <2>1, DoneLastPublished, Reporting
  <2>4. Newest(c, t)'
    <3>1. CASE t # u
      <4>1. index'[c][t] \in {0, index[c][t]} /\ reports'[t] = reports[t]
        BY <1>1, <1>2, <2>1, <3>1, NamedPublished, Reporting
      <4>2. \A n \in Report : content'[t][n] = content[t][n]
        BY <1>1, <1>2, <3>1, ContentAfter
      <4>3. index[c][t] # 0 => index[c][t] \in Report
        BY <1>1, HubAssumption DEF HubTyped, Report
      <4>4. QED
        BY <2>1, <4>1, <4>2, <4>3 DEF Newest
    <3>2. CASE t = u /\ index'[c][u] = item.dict
      <4>1. content'[u][reports[u] + 1] = reports[u] + 1
        <5>1. content[u][reports[u] + 1] = reports[u] + 1
          BY <1>2, <1>3 DEF Unwritten
        <5>2. QED
          BY <1>1, <1>2, <5>1, ContentAfter
      <4>2. reports'[u] = reports[u] + 1
        BY <1>1, Reporting
      <4>3. QED
        BY <1>2, <1>3, <3>2, <4>1, <4>2 DEF Newest
    <3>3. CASE t = u /\ index'[c][u] = index[c][u] /\ index[c][u] # 0
      <4>1. c \in subscribed /\ index[c][u] \in Report
        <5>1. c \in subscribed
          BY <1>1, <2>1, <3>3, NotIndexed
        <5>2. index[c][u] \in Report
          BY <1>1, <3>3, HubAssumption DEF HubTyped, Report
        <5>3. QED
          BY <5>1, <5>2
      <4>2. content'[u][index[c][u]] = reports[u] + 1
        BY <1>1, <1>2, <4>1, ContentAfter
      <4>3. index[c][u] <= reports[u] /\ reports'[u] = reports[u] + 1 /\ index[c][u] \in Nat
        BY <1>1, <2>1, <3>3, <4>1, Reporting DEF Newest, Report
      <4>4. QED
        BY <1>3, <3>3, <4>2, <4>3 DEF Newest
    <3>4. CASE t = u /\ index'[c][u] = 0
      BY <3>4 DEF Newest
    <3>5. QED
      BY <1>1, <2>1, <3>1, <3>2, <3>3, <3>4, NamedPublished
  <2>5. QED
    BY <2>2, <2>3, <2>4 DEF Buffering
<1>7. QED
  BY <1>5, <1>6

LEMMA EndBuffers ==
    ASSUME FeedTyped, NEW u \in Tasks, Finalize(u),
           \A t \in Tasks : Unwritten(t),
           \A c \in Clients, t \in Tasks : Buffering(c, t)
    PROVE  /\ \A t \in Tasks : Unwritten(t)'
           /\ \A c \in Clients, t \in Tasks : Buffering(c, t)'
<1> DEFINE item == Done(u)
<1>1. HubTyped /\ HistoryTyped /\ item \in Item /\ Publish(item)
  BY Ending DEF FeedTyped
<1>2. \A t \in Tasks : ~IsActivity(item, t) /\ (IsDone(item, t) <=> t = u)
  BY Kinds DEF IsActivity, IsDone
<1> HIDE DEF item
<1>3. \A t \in Tasks : \A n \in Report : content'[t][n] = content[t][n]
  BY <1>1, <1>2, ContentAfter
<1>4. ASSUME NEW t \in Tasks PROVE Unwritten(t)'
  BY <1>1, <1>3, Ending DEF Unwritten
<1>5. ASSUME NEW c \in Clients, NEW t \in Tasks PROVE Buffering(c, t)'
  <2>1. Named(c, t) /\ Newest(c, t) /\ DoneLast(c, t)
    BY DEF Buffering
  <2>2. Named(c, t)' /\ index'[c][t] \in {0, index[c][t]}
    BY <1>1, <1>2, <2>1, NamedPublished
  <2>3. status'[t] = IF t = u THEN "ENDED" ELSE status[t]
    BY <1>1, Ending
  <2>4. DoneLast(c, t)'
    BY <1>1, <1>2, <2>1, <2>3, DoneLastPublished
  <2>5. index[c][t] # 0 => index[c][t] \in Report
    BY <1>1, HubAssumption DEF HubTyped, Report
  <2>6. Newest(c, t)'
    BY <1>1, <1>3, <2>1, <2>2, <2>5, Ending DEF Newest
  <2>7. QED
    BY <2>2, <2>4, <2>6 DEF Buffering
<1>6. QED
  BY <1>4, <1>5

-----------------------------------------------------------------------------
(* The dispatcher's steps: what they mean for what is under way.           *)

\* The connections do not notice a step of the dispatcher, but for the ghost.
LEMMA Linked ==
    ASSUME FeedTyped, Dispatcher
    PROVE  /\ UNCHANGED <<conn, connects, wire, live, polled, reply, warned>>
           /\ \A c \in Clients : missed[c] => missed'[c]
           /\ Published => \A c \in Clients : conn[c] = "opening" => missed'[c]
           /\ missed' \in [Clients -> BOOLEAN]
BY DEF Dispatcher, linkVars, viewVars, FeedTyped, LinkTyped

LEMMA WireTexts ==
    ASSUME FeedTyped, NEW c \in Clients, NEW t \in Tasks, NEW i \in DOMAIN wire[c]
    PROVE  /\ wire[c][i] \in Event
           /\ TextOf(wire[c][i], t) \in NoEntry..MaxActivities
           /\ TextOf(wire[c][i], t) \in Int
<1>1. wire[c] \in Seq(Event)
  BY DEF FeedTyped, LinkTyped
<1>2. wire[c][i] \in Event
  BY <1>1
<1>3. QED
  BY <1>2, Texts, HubAssumption DEF NoEntry

LEMMA InOrderHub ==
    ASSUME FeedTyped, NEW c \in Clients, NEW t \in Tasks, InOrder(c, t),
           UNCHANGED <<wire, live, reply>>,
           reports'[t] \in Nat, reports'[t] >= reports[t],
           status[t] = "ENDED" => status'[t] = "ENDED",
           \/ index'[c][t] \in {0, index[c][t]}
           \/ reports'[t] > reports[t] /\ status[t] # "ENDED"
    PROVE  InOrder(c, t)'
<1>1. reports[t] \in Nat /\ live[c][t] \in Int
  BY HubAssumption DEF FeedTyped, HistoryTyped, LinkTyped, NoEntry
<1>2. ASSUME NEW i \in DOMAIN wire'[c]
      PROVE  /\ TextOf(wire'[c][i], t) <= reports'[t]
             /\ TextOf(wire'[c][i], t) # NoEntry => live'[c][t] <= TextOf(wire'[c][i], t)
             /\ IsDone(wire'[c][i], t) => status'[t] = "ENDED"
             /\ index'[c][t] # 0 =>
                    TextOf(wire'[c][i], t) < reports'[t] /\ ~IsDone(wire'[c][i], t)
  <2>1. i \in DOMAIN wire[c] /\ wire'[c][i] = wire[c][i] /\ TextOf(wire[c][i], t) \in Int
    BY WireTexts
  <2>2. /\ TextOf(wire[c][i], t) <= reports[t]
        /\ TextOf(wire[c][i], t) # NoEntry => live[c][t] <= TextOf(wire[c][i], t)
        /\ IsDone(wire[c][i], t) => status[t] = "ENDED"
        /\ index[c][t] # 0 => TextOf(wire[c][i], t) < reports[t] /\ ~IsDone(wire[c][i], t)
    BY <2>1 DEF InOrder
  <2>3. QED
    BY <1>1, <2>1, <2>2
<1>3. \A i, j \in DOMAIN wire'[c] : i < j /\ TextOf(wire'[c][j], t) # NoEntry =>
          TextOf(wire'[c][i], t) < TextOf(wire'[c][j], t) /\ ~IsDone(wire'[c][i], t)
  BY DEF InOrder
<1>4. live'[c][t] <= reports'[t]
  BY <1>1 DEF InOrder
<1>5. reply'[c] # <<>> /\ reply'[c][t] = "ENDED" => status'[t] = "ENDED"
  BY DEF InOrder
<1>6. QED
  BY <1>2, <1>3, <1>4, <1>5 DEF InOrder

\* An excuse stays one while the connection lasts.
LEMMA ExcusedPublished ==
    ASSUME FeedTyped, Dispatcher, Published, NEW item \in Item, Publish(item),
           NEW c \in Clients, NEW t \in Tasks, Named(c, t)
    PROVE  Excused(c)' \/ (~Excused(c) /\ c \in subscribed /\ ~Overflown(c, item))
<1>1. HubTyped
  BY DEF FeedTyped
<1>2. CASE \E i \in DOMAIN buffer[c] : buffer[c][i].kind = "gap"
  <2>1. CASE Overflown(c, item)
    <3>1. UNCHANGED subscribed
      BY DEF Publish
    <3>2. QED
      BY <1>1, <2>1, <3>1, NamedOverflown DEF Excused
  <2>2. CASE ~Overflown(c, item)
    BY <1>1, <1>2, <2>2, Undisturbed DEF Excused
  <2>3. QED
    BY <2>1, <2>2
<1>3. CASE Overflown(c, item)
  <2>1. UNCHANGED subscribed
    BY DEF Publish
  <2>2. QED
    BY <1>1, <1>3, <2>1, NamedOverflown DEF Excused
<1>4. CASE conn[c] # "open"
  BY <1>4, Linked DEF Excused
<1>5. CASE conn[c] = "open" /\ Excused(c) /\ ~\E i \in DOMAIN buffer[c] : buffer[c][i].kind = "gap"
  BY <1>5, Linked DEF Excused
<1>6. conn[c] = "open" => c \in subscribed
  BY DEF FeedTyped, LinkTyped
<1>7. QED
  BY <1>2, <1>3, <1>4, <1>5, <1>6

LEMMA ReportDelivers ==
    ASSUME FeedTyped, Dispatcher, NEW u \in Tasks, ReportActivity(u),
           NEW c \in Clients, NEW t \in Tasks, Buffering(c, t), Delivering(c, t)
    PROVE  Delivering(c, t)'
<1> DEFINE item == Activity(u, reports[u] + 1)
<1>1. /\ HubTyped /\ HistoryTyped /\ item \in Item /\ Publish(item) /\ Published
      /\ UNCHANGED <<wire, live, reply>> /\ status' = status
      /\ Named(c, t)
  BY Reporting, Linked DEF FeedTyped, Buffering
<1>2. /\ reports[u] + 1 \in Report /\ item.dict = reports[u] + 1 /\ item.dict # 0
      /\ IsActivity(item, t) <=> t = u
      /\ item.kind = "agent_activity" /\ item.task = u
  BY Kinds, Reporting, HubAssumption DEF FeedTyped, IsActivity, Report
<1> HIDE DEF item
<1>3. /\ reports[t] \in Nat /\ reports'[t] \in Nat
      /\ reports'[t] = (IF t = u THEN reports[t] + 1 ELSE reports[t])
  BY <1>1, Reporting, HubAssumption DEF HistoryTyped
<1>4. InOrder(c, t)'
  <2>1. \/ index'[c][t] \in {0, index[c][t]}
        \/ reports'[t] > reports[t] /\ status[t] # "ENDED"
    BY <1>1, <1>2, <1>3, NamedPublished, Reporting
  <2>2. reports'[t] >= reports[t]
    BY <1>3
  <2>3. QED
    BY <1>1, <1>3, <2>1, <2>2, InOrderHub DEF Delivering
<1>5. ASSUME ~Excused(c)' PROVE Told(c, t)'
  <2>1. c \in subscribed /\ ~Overflown(c, item) /\ ~Excused(c)
    BY <1>1, <1>5, ExcusedPublished
  <2>2. CASE t = u
    <3>1. index'[c][t] # 0
      BY <1>1, <1>2, <2>1, <2>2, Undisturbed
    <3>2. status'[t] = "RUNNING"
      BY <1>1, <2>2, Reporting
    <3>3. QED
      BY <3>1, <3>2 DEF Told
  <2>3. CASE t # u
    <3>1. index'[c][t] = index[c][t] /\ activity'[t] = activity[t]
      BY <1>1, <1>2, <2>1, <2>3, Undisturbed, Reporting
    <3>2. \A i \in DOMAIN buffer[c] : i \in DOMAIN buffer'[c] /\ buffer'[c][i] = buffer[c][i]
      BY <1>1, <2>1, Undisturbed
    <3>3. \A text : Says(c, t, text) => Says(c, t, text)'
      BY <1>1 DEF Says
    <3>4. QED
      BY <1>1, <2>1, <3>1, <3>2, <3>3 DEF Delivering, Told
  <2>4. QED
    BY <2>2, <2>3
<1>6. QED
  BY <1>4, <1>5 DEF Delivering, Told

LEMMA EndDelivers ==
    ASSUME FeedTyped, Dispatcher, NEW u \in Tasks, Finalize(u),
           NEW c \in Clients, NEW t \in Tasks, Buffering(c, t), Delivering(c, t)
    PROVE  Delivering(c, t)'
<1> DEFINE item == Done(u)
<1>1. /\ HubTyped /\ HistoryTyped /\ item \in Item /\ Publish(item) /\ Published
      /\ UNCHANGED <<wire, live, reply>> /\ reports' = reports
      /\ Named(c, t)
  BY Ending, Linked DEF FeedTyped, Buffering
<1>2. ~IsActivity(item, t) /\ (IsDone(item, t) <=> t = u) /\ item.kind # "agent_activity"
  BY Kinds DEF IsActivity, IsDone
<1> HIDE DEF item
<1>3. reports'[t] \in Nat /\ reports'[t] >= reports[t]
  BY <1>1, HubAssumption DEF HistoryTyped
<1>4. status'[t] = IF t = u THEN "ENDED" ELSE status[t]
  BY <1>1, Ending
<1>5. InOrder(c, t)'
  <2>1. index'[c][t] \in {0, index[c][t]}
    BY <1>1, <1>2, NamedPublished
  <2>2. QED
    BY <1>1, <1>3, <1>4, <2>1, InOrderHub DEF Delivering
<1>6. ASSUME ~Excused(c)' PROVE Told(c, t)'
  <2>1. c \in subscribed /\ ~Overflown(c, item) /\ ~Excused(c)
    BY <1>1, <1>6, ExcusedPublished
  <2>2. CASE t = u
    <3>1. \E i \in DOMAIN buffer'[c] : IsDone(buffer'[c][i], t)
      BY <1>1, <1>2, <2>1, <2>2, Undisturbed
    <3>2. status'[t] = "ENDED"
      BY <1>4, <2>2
    <3>3. QED
      BY <3>1, <3>2 DEF Told
  <2>3. CASE t # u
    <3>1. index'[c][t] = index[c][t] /\ activity'[t] = activity[t]
      BY <1>1, <1>2, <2>1, <2>3, Undisturbed, Ending
    <3>2. \A i \in DOMAIN buffer[c] : i \in DOMAIN buffer'[c] /\ buffer'[c][i] = buffer[c][i]
      BY <1>1, <2>1, Undisturbed
    <3>3. \A text : Says(c, t, text) => Says(c, t, text)'
      BY <1>1 DEF Says
    <3>4. QED
      BY <1>4, <2>1, <2>3, <3>1, <3>2, <3>3 DEF Delivering, Told
  <2>4. QED
    BY <2>2, <2>3
<1>7. QED
  BY <1>5, <1>6 DEF Delivering, Told

LEMMA StartKeeps ==
    ASSUME FeedTyped, Dispatcher, NEW u \in Tasks, StartTask(u), Unwritten(u),
           NEW c \in Clients, NEW t \in Tasks, Buffering(c, t), Delivering(c, t)
    PROVE  Buffering(c, t)' /\ Delivering(c, t)'
<1>1. /\ UNCHANGED <<conn, wire, live, reply, warned, activity, reports, hubVars>>
      /\ missed[c] => missed'[c]
      /\ status'[t] = IF t = u THEN "RUNNING" ELSE status[t]
      /\ status[u] = "none" /\ activity[u] = 0
  BY Starting, Linked DEF FeedTyped
<1>2. Buffering(c, t)'
  BY <1>1 DEF Buffering, Named, Newest, DoneLast, hubVars
<1>3. InOrder(c, t)'
  BY <1>1 DEF Delivering, InOrder, hubVars
<1>4. \A text : Says(c, t, text) => Says(c, t, text)'
  BY <1>1 DEF Says
<1>5. Excused(c) => Excused(c)'
  BY <1>1 DEF Excused, hubVars
<1>6. Told(c, t)'
  BY <1>1, <1>4, <1>5 DEF Delivering, Told, hubVars
<1>7. QED
  BY <1>2, <1>3, <1>6 DEF Delivering

-----------------------------------------------------------------------------
(* A step of one connection.                                               *)

Same(d) ==
    /\ buffer'[d] = buffer[d] /\ index'[d] = index[d] /\ (d \in subscribed' <=> d \in subscribed)
    /\ conn'[d] = conn[d] /\ wire'[d] = wire[d] /\ live'[d] = live[d] /\ reply'[d] = reply[d]
    /\ missed'[d] = missed[d] /\ warned'[d] = warned[d]

Elsewhere(c) ==
    /\ UNCHANGED <<status, activity, reports, content>>
    /\ \A d \in Clients \ {c} : Same(d)

LEMMA SameKeeps ==
    ASSUME NEW d \in Clients, NEW t \in Tasks, Same(d),
           UNCHANGED <<status, activity, reports, content>>
    PROVE  /\ Buffering(d, t) => Buffering(d, t)'
           /\ InOrder(d, t) => InOrder(d, t)'
           /\ Told(d, t) => Told(d, t)'
<1>1. Buffering(d, t) => Buffering(d, t)'
  BY DEF Same, Buffering, Named, Newest, DoneLast
<1>2. InOrder(d, t) => InOrder(d, t)'
  BY DEF Same, InOrder
<1>3. Excused(d) => Excused(d)'
  BY DEF Same, Excused
<1>4. \A text : Says(d, t, text) => Says(d, t, text)'
  BY DEF Same, Says
<1>5. Told(d, t) => Told(d, t)'
  BY <1>3, <1>4 DEF Same, Told
<1>6. QED
  BY <1>1, <1>2, <1>5

\* What a client's step must establish.
LEMMA ElsewhereKeeps ==
    ASSUME FeedInv, NEW c \in Clients, Elsewhere(c), FeedTyped', Expiring(c)',
           \A t \in Tasks : (Buffering(c, t) /\ Delivering(c, t))'
    PROVE  FeedInv'
<1>1. \A t \in Tasks : Unwritten(t)'
  BY DEF FeedInv, Elsewhere, Unwritten
<1>2. ASSUME NEW d \in Clients PROVE Expiring(d)'
  <2>1. CASE d = c
    BY <2>1
  <2>2. CASE d # c
    BY <2>2 DEF FeedInv, Elsewhere, Same, Expiring
  <2>3. QED
    BY <2>1, <2>2
<1>3. ASSUME NEW d \in Clients, NEW t \in Tasks PROVE (Buffering(d, t) /\ Delivering(d, t))'
  <2>1. CASE d = c
    BY <2>1
  <2>2. CASE d # c
    BY <2>2, SameKeeps DEF FeedInv, Elsewhere, Delivering
  <2>3. QED
    BY <2>1, <2>2
<1>4. QED
  BY <1>1, <1>2, <1>3 DEF FeedInv

LEMMA OpenKeeps ==
    ASSUME FeedInv, NEW c \in Clients, Open(c)
    PROVE  FeedInv'
<1>1. /\ FeedTyped /\ HubTyped /\ HistoryTyped /\ LinkTyped
      /\ \A t \in Tasks : Buffering(c, t) /\ Delivering(c, t)
  BY DEF FeedInv, FeedTyped
<1>2. UNCHANGED <<status, activity, reports, content, subscribed, buffer, index, live, polled, reply>>
  BY DEF Open, historyVars, hubVars, viewVars
<1>3. Snapshot \in Event
  BY <1>1, SnapshotSays
<1>4. /\ wire'[c] = <<Snapshot>> /\ conn[c] = "down" /\ conn'[c] = "opening" /\ ~missed'[c] /\ ~warned'[c]
      /\ \A d \in Clients \ {c} : Same(d)
  BY <1>1, <1>2 DEF Open, LinkTyped, Same
<1>5. FeedTyped'
  <2>1. connects' \in [Clients -> 0..MaxConnects]
    BY <1>1, FeedAssumption DEF Open, LinkTyped
  <2>2. wire' \in [Clients -> Seq(Event)]
    BY <1>1, <1>3 DEF Open, LinkTyped
  <2>3. /\ conn' \in [Clients -> {"down", "opening", "open", "expired"}]
        /\ missed' \in [Clients -> BOOLEAN] /\ warned' \in [Clients -> BOOLEAN]
    BY <1>1 DEF Open, LinkTyped
  <2>4. \A d \in Clients : d \in subscribed' <=> conn'[d] = "open"
    BY <1>1, <1>2, <1>4 DEF LinkTyped, Same
  <2>5. LinkTyped'
    BY <1>1, <1>2, <2>1, <2>2, <2>3, <2>4 DEF LinkTyped
  <2>6. HubTyped' /\ HistoryTyped'
    BY <1>1, <1>2 DEF HubTyped, HistoryTyped
  <2>7. QED
    BY <2>5, <2>6 DEF FeedTyped
<1>6. ASSUME NEW t \in Tasks PROVE (Buffering(c, t) /\ Delivering(c, t))'
  <2>1. index[c][t] = 0 /\ buffer[c] = <<>>
    BY <1>1, <1>4, NotIndexed DEF Buffering, LinkTyped
  <2>2. Buffering(c, t)'
    BY <1>1, <1>2 DEF Buffering, Named, Newest, DoneLast
  <2>3. /\ DOMAIN wire'[c] = {1} /\ wire'[c][1] = Snapshot
        /\ Snapshot.kind = "snapshot" /\ ~IsDone(Snapshot, t)
        /\ TextOf(Snapshot, t) = IF status[t] = "RUNNING" THEN activity[t] ELSE NoEntry
    BY <1>1, <1>4, SnapshotSays DEF IsDone
  <2>4. /\ status[t] = "RUNNING" => activity[t] = reports[t]
        /\ reports[t] \in Nat /\ live[c][t] <= reports[t]
    BY <1>1, HubAssumption DEF HistoryTyped, Delivering, InOrder
  <2>5. InOrder(c, t)'
    BY <1>1, <1>2, <2>1, <2>3, <2>4 DEF Delivering, InOrder, NoEntry
  <2>6. PICK first : first = Snapshot
    OBVIOUS
  <2>7. PICK text : text = IF status[t] = "RUNNING" THEN activity[t] ELSE NoEntry
    OBVIOUS
  <2>8. About(first, t) /\ TextOf(first, t) = text
    BY <2>3, <2>6, <2>7 DEF About
  <2>9. Says(c, t, text)'
    BY <2>3, <2>6, <2>8 DEF Says
  <2>10. Told(c, t)'
    BY <1>2, <2>1, <2>7, <2>9 DEF Told
  <2>11. QED
    BY <2>2, <2>5, <2>10 DEF Delivering
<1>7. Expiring(c)'
  <2>1. DOMAIN wire'[c] = {1} /\ wire'[c][1] = Snapshot /\ Snapshot.kind = "snapshot"
    BY <1>1, <1>4, SnapshotSays
  <2>2. QED
    BY <2>1 DEF Expiring
<1>8. QED
  BY <1>2, <1>4, <1>5, <1>6, <1>7, ElsewhereKeeps DEF Elsewhere

LEMMA BeginKeeps ==
    ASSUME FeedInv, NEW c \in Clients, BeginStream(c)
    PROVE  FeedInv'
<1>1. /\ FeedTyped /\ HubTyped /\ HistoryTyped /\ LinkTyped
      /\ \A t \in Tasks : Buffering(c, t) /\ Delivering(c, t)
  BY DEF FeedInv, FeedTyped
<1>2. /\ UNCHANGED <<status, activity, reports, content, buffer, index, live, polled, reply,
                     connects, wire, missed, warned>>
      /\ subscribed' = subscribed \cup {c} /\ conn' = [conn EXCEPT ![c] = "open"]
      /\ conn[c] = "opening"
  BY DEF BeginStream, Subscribe, historyVars, viewVars, ghostVars
<1>3. conn'[c] = "open" /\ \A d \in Clients \ {c} : Same(d)
  BY <1>1, <1>2 DEF LinkTyped, Same
<1>4. FeedTyped'
  <2>1. \A d \in Clients : d \in subscribed' <=> conn'[d] = "open"
    BY <1>1, <1>2, <1>3 DEF LinkTyped, Same
  <2>2. LinkTyped' /\ HubTyped' /\ HistoryTyped'
    BY <1>1, <1>2, <2>1 DEF LinkTyped, HubTyped, HistoryTyped
  <2>3. QED
    BY <2>2 DEF FeedTyped
<1>5. ASSUME NEW t \in Tasks PROVE (Buffering(c, t) /\ Delivering(c, t))'
  <2>1. Buffering(c, t)'
    BY <1>1, <1>2 DEF Buffering, Named, Newest, DoneLast
  <2>2. InOrder(c, t)'
    BY <1>1, <1>2 DEF Delivering, InOrder
  <2>3. \A text : Says(c, t, text) => Says(c, t, text)'
    BY <1>2 DEF Says
  <2>4. Excused(c) => Excused(c)'
    BY <1>2 DEF Excused
  <2>5. Told(c, t)'
    BY <1>1, <1>2, <2>3, <2>4 DEF Delivering, Told
  <2>6. QED
    BY <2>1, <2>2, <2>5 DEF Delivering
<1>6. Expiring(c)'
  BY <1>2 DEF FeedInv, Expiring
<1>7. QED
  BY <1>2, <1>3, <1>4, <1>5, <1>6, ElsewhereKeeps DEF Elsewhere

-----------------------------------------------------------------------------
(* The end of a connection.                                                *)

\* An event sent after the others.
LEMMA WireAppend ==
    ASSUME FeedTyped, NEW c \in Clients, NEW t \in Tasks, NEW e \in Event,
           wire'[c] = Append(wire[c], e), live'[c] = live[c]
    PROVE  /\ \A text : ~About(e, t) /\ Says(c, t, text) => Says(c, t, text)'
           /\ \A text : About(e, t) /\ text = TextOf(e, t) => Says(c, t, text)'
           /\ DOMAIN wire'[c] = DOMAIN wire[c] \cup {Len(wire[c]) + 1}
           /\ \A i \in DOMAIN wire[c] :
                  i \in Nat /\ i < Len(wire[c]) + 1 /\ wire'[c][i] = wire[c][i]
           /\ wire'[c][Len(wire[c]) + 1] = e
<1> DEFINE n == Len(wire[c]) + 1
<1>1. wire[c] \in Seq(Event)
  BY DEF FeedTyped, LinkTyped
<1>2. /\ DOMAIN wire'[c] = DOMAIN wire[c] \cup {n} /\ n \in Nat
      /\ \A i \in DOMAIN wire[c] : i \in Nat /\ i < n /\ wire'[c][i] = wire[c][i]
      /\ wire'[c][n] = e
  BY <1>1, AppendAt
<1> HIDE DEF n
<1>3. ASSUME NEW text, ~About(e, t), Says(c, t, text) PROVE Says(c, t, text)'
  <2>1. CASE live[c][t] = text /\ \A i \in DOMAIN wire[c] : ~About(wire[c][i], t)
    BY <1>2, <1>3, <2>1 DEF Says
  <2>2. ASSUME NEW i \in DOMAIN wire[c], About(wire[c][i], t), TextOf(wire[c][i], t) = text,
               \A j \in DOMAIN wire[c] : i < j => ~About(wire[c][j], t)
        PROVE  Says(c, t, text)'
    <3>1. i \in DOMAIN wire'[c] /\ wire'[c][i] = wire[c][i]
      BY <1>2
    <3>2. \A j \in DOMAIN wire'[c] : i < j => ~About(wire'[c][j], t)
      BY <1>2, <1>3, <2>2
    <3>3. QED
      BY <2>2, <3>1, <3>2 DEF Says
  <2>3. QED
    BY <1>3, <2>1, <2>2 DEF Says
<1>4. ASSUME NEW text, About(e, t), text = TextOf(e, t) PROVE Says(c, t, text)'
  <2>1. \A j \in DOMAIN wire'[c] : ~(n < j)
    BY <1>2
  <2>2. QED
    BY <1>2, <1>4, <2>1 DEF Says
<1>5. QED
  BY <1>2, <1>3, <1>4 DEF n

LEMMA OrderAppended ==
    ASSUME FeedTyped, NEW c \in Clients, NEW t \in Tasks, NEW e \in Event, InOrder(c, t),
           wire'[c] = Append(wire[c], e), UNCHANGED <<status, reports, live, reply>>,
           index'[c][t] \in {0, index[c][t]},
           TextOf(e, t) <= reports[t],
           TextOf(e, t) # NoEntry =>
               /\ live[c][t] <= TextOf(e, t)
               /\ \A i \in DOMAIN wire[c] :
                      TextOf(wire[c][i], t) < TextOf(e, t) /\ ~IsDone(wire[c][i], t),
           IsDone(e, t) => status[t] = "ENDED",
           index'[c][t] # 0 => TextOf(e, t) < reports[t] /\ ~IsDone(e, t)
    PROVE  InOrder(c, t)'
<1>1. PICK n : n = Len(wire[c]) + 1
  OBVIOUS
<1>2. /\ DOMAIN wire'[c] = DOMAIN wire[c] \cup {n}
      /\ \A i \in DOMAIN wire[c] : i \in Nat /\ i < n /\ wire'[c][i] = wire[c][i]
      /\ wire'[c][n] = e
  BY <1>1, WireAppend
<1>3. n \in Nat
  BY <1>1 DEF FeedTyped, LinkTyped
<1>4. ASSUME NEW i \in DOMAIN wire'[c]
      PROVE  /\ TextOf(wire'[c][i], t) <= reports'[t]
             /\ TextOf(wire'[c][i], t) # NoEntry => live'[c][t] <= TextOf(wire'[c][i], t)
             /\ IsDone(wire'[c][i], t) => status'[t] = "ENDED"
             /\ index'[c][t] # 0 =>
                    TextOf(wire'[c][i], t) < reports'[t] /\ ~IsDone(wire'[c][i], t)
  <2>1. CASE i = n
    BY <1>2, <2>1
  <2>2. CASE i # n
    <3>1. i \in DOMAIN wire[c] /\ wire'[c][i] = wire[c][i]
      BY <1>2, <2>2
    <3>2. QED
      BY <3>1 DEF InOrder
  <2>3. QED
    BY <2>1, <2>2
<1>5. ASSUME NEW i \in DOMAIN wire'[c], NEW j \in DOMAIN wire'[c], i < j,
             TextOf(wire'[c][j], t) # NoEntry
      PROVE  TextOf(wire'[c][i], t) < TextOf(wire'[c][j], t) /\ ~IsDone(wire'[c][i], t)
  <2>1. i # n /\ i \in DOMAIN wire[c] /\ wire'[c][i] = wire[c][i]
    BY <1>2, <1>3, <1>5
  <2>2. CASE j = n
    BY <1>2, <1>5, <2>1, <2>2
  <2>3. CASE j # n
    <3>1. j \in DOMAIN wire[c] /\ wire'[c][j] = wire[c][j]
      BY <1>2, <2>3
    <3>2. QED
      BY <1>5, <2>1, <3>1 DEF InOrder
  <2>4. QED
    BY <2>2, <2>3
<1>6. /\ live'[c][t] <= reports'[t]
      /\ reply'[c] # <<>> /\ reply'[c][t] = "ENDED" => status'[t] = "ENDED"
  BY DEF InOrder
<1>7. QED
  BY <1>4, <1>5, <1>6 DEF InOrder

LEMMA UnsubscribeKeeps ==
    ASSUME FeedInv, NEW c \in Clients, Unsubscribe(c),
           UNCHANGED <<status, activity, reports, connects, live, polled, reply, missed, warned>>,
           NEW how \in {"down", "expired"}, conn' = [conn EXCEPT ![c] = how],
           \/ how = "down" /\ wire' = [wire EXCEPT ![c] = <<>>]
           \/ how = "expired" /\ conn[c] = "open" /\ wire' = [wire EXCEPT ![c] = Append(@, AuthError)]
    PROVE  FeedInv'
<1>1. /\ FeedTyped /\ HubTyped /\ HistoryTyped /\ LinkTyped
      /\ \A t \in Tasks : Buffering(c, t) /\ Delivering(c, t)
  BY DEF FeedInv, FeedTyped
<1>2. /\ content' = content /\ subscribed' = subscribed \ {c}
      /\ buffer' = [buffer EXCEPT ![c] = <<>>]
      /\ index' = [index EXCEPT ![c] = [t \in Tasks |-> 0]]
  BY DEF Unsubscribe
<1>3. AuthError \in Event /\ AuthError.kind = "auth_error"
  BY DEF AuthError, Event
<1>4. /\ conn'[c] = how /\ buffer'[c] = <<>> /\ \A t \in Tasks : index'[c][t] = 0
      /\ \A d \in Clients \ {c} : Same(d)
  BY <1>1, <1>2 DEF LinkTyped, HubTyped, Same
<1>5. FeedTyped'
  <2>1. HubTyped'
    <3>1. /\ buffer' \in [Clients -> Seq(Item)] /\ \A d \in Clients : Len(buffer'[d]) <= Capacity
      BY <1>1, <1>2, HubAssumption DEF HubTyped
    <3>2. index' \in [Clients -> [Tasks -> 0..MaxActivities]]
      <4>1. [t \in Tasks |-> 0] \in [Tasks -> 0..MaxActivities]
        BY HubAssumption
      <4>2. QED
        BY <1>1, <1>2, <4>1 DEF HubTyped
    <3>3. QED
      BY <1>1, <1>2, <3>1, <3>2 DEF HubTyped
  <2>2. wire' \in [Clients -> Seq(Event)]
    <3>1. wire \in [Clients -> Seq(Event)] /\ wire[c] \in Seq(Event)
      BY <1>1 DEF LinkTyped
    <3>2. Append(wire[c], AuthError) \in Seq(Event) /\ <<>> \in Seq(Event)
      BY <1>3, <3>1, AppendAt
    <3>3. PICK w \in Seq(Event) : wire' = [wire EXCEPT ![c] = w]
      BY <3>1, <3>2
    <3>4. QED
      BY <3>1, <3>3
  <2>3. \A d \in Clients : d \in subscribed' <=> conn'[d] = "open"
    BY <1>1, <1>2, <1>4 DEF LinkTyped, Same
  <2>4. LinkTyped' /\ HistoryTyped'
    BY <1>1, <2>2, <2>3 DEF LinkTyped, HistoryTyped
  <2>5. QED
    BY <2>1, <2>4 DEF FeedTyped
<1>6. ASSUME NEW t \in Tasks PROVE (Buffering(c, t) /\ Delivering(c, t))'
  <2>1. Buffering(c, t)'
    BY <1>4 DEF Buffering, Named, Newest, DoneLast
  <2>2. Told(c, t)'
    BY <1>4 DEF Told, Excused
  <2>3. /\ InOrder(c, t) /\ reports[t] \in Nat
        /\ live'[c][t] <= reports'[t] /\ reports' = reports /\ live' = live /\ status' = status
        /\ reply'[c] # <<>> /\ reply'[c][t] = "ENDED" => status'[t] = "ENDED"
    BY <1>1, HubAssumption DEF Delivering, InOrder, HistoryTyped
  <2>4. CASE wire'[c] = <<>>
    <3>1. DOMAIN wire'[c] = {}
      BY <2>4
    <3>2. QED
      BY <2>1, <2>2, <2>3, <3>1 DEF InOrder, Delivering
  <2>5. CASE wire'[c] = Append(wire[c], AuthError)
    <3>1. TextOf(AuthError, t) = NoEntry /\ ~IsDone(AuthError, t)
      BY <1>3 DEF TextOf, IsDone, AuthError
    <3>2. NoEntry <= reports[t] /\ index'[c][t] = 0
      BY <1>4, <2>3 DEF NoEntry
    <3>3. InOrder(c, t)'
      BY <1>1, <1>3, <2>3, <2>5, <3>1, <3>2, OrderAppended
    <3>4. QED
      BY <2>1, <2>2, <3>3 DEF Delivering
  <2>6. QED
    BY <1>1, <2>4, <2>5 DEF LinkTyped
<1>7. Expiring(c)'
  <2>1. CASE wire'[c] = <<>>
    BY <2>1 DEF Expiring
  <2>2. CASE how = "expired" /\ conn[c] = "open" /\ wire'[c] = Append(wire[c], AuthError)
    <3>1. wire[c] \in Seq(Event)
      BY <1>1 DEF LinkTyped
    <3>2. PICK n \in Nat : n = Len(wire[c]) + 1
      BY <3>1
    <3>3. /\ DOMAIN wire'[c] = DOMAIN wire[c] \cup {n}
          /\ \A i \in DOMAIN wire[c] : i \in Nat /\ i < n /\ wire'[c][i] = wire[c][i]
      BY <1>3, <2>2, <3>1, <3>2, AppendAt
    <3>4. \A i \in DOMAIN wire[c] : wire[c][i].kind # "auth_error"
      BY <2>2 DEF FeedInv, Expiring
    <3>5. QED
      BY <1>4, <2>2, <3>2, <3>3, <3>4 DEF Expiring
  <2>3. QED
    BY <1>1, <2>1, <2>2 DEF LinkTyped
<1>8. QED
  BY <1>2, <1>4, <1>5, <1>6, <1>7, ElsewhereKeeps DEF Elsewhere

LEMMA CloseKeeps ==
    ASSUME FeedInv, NEW c \in Clients, Expire(c) \/ Lose(c)
    PROVE  FeedInv'
<1>1. UNCHANGED <<status, activity, reports, connects, live, polled, reply, missed, warned>>
  BY DEF Expire, Lose, historyVars, viewVars, ghostVars
<1>2. CASE Expire(c)
  BY <1>1, <1>2, UnsubscribeKeeps DEF Expire
<1>3. CASE Lose(c)
  BY <1>1, <1>3, UnsubscribeKeeps DEF Lose
<1>4. QED
  BY <1>2, <1>3

-----------------------------------------------------------------------------
(* An event on its way.                                                    *)

LEMMA ForwardKeeps ==
    ASSUME FeedInv, NEW c \in Clients, Forward(c)
    PROVE  FeedInv'
<1> DEFINE h == Head(buffer[c])
<1>1. /\ FeedTyped /\ HubTyped /\ HistoryTyped /\ LinkTyped
      /\ \A t \in Tasks : Buffering(c, t) /\ Delivering(c, t)
  BY DEF FeedInv, FeedTyped
<1>2. /\ UNCHANGED <<status, activity, reports, content, subscribed, connects, live, polled,
                     reply, conn, missed, warned>>
      /\ conn[c] = "open" /\ buffer[c] # <<>> /\ Take(c)
      /\ buffer' = [buffer EXCEPT ![c] = Tail(@)]
      /\ index' = [index EXCEPT ![c] = Discarded(@, Head(buffer[c]))]
  BY DEF Forward, Take, historyVars, viewVars, ghostVars
<1>3. /\ buffer[c] \in Seq(Item) /\ h \in Item /\ h = buffer[c][1] /\ c \in subscribed
      /\ 1 \in DOMAIN buffer[c]
  BY <1>1, <1>2, TailAt DEF HubTyped, LinkTyped
<1>4. /\ buffer'[c] = Tail(buffer[c])
      /\ Tail(buffer[c]) \in Seq(Item) /\ Len(Tail(buffer[c])) = Len(buffer[c]) - 1
      /\ \A i \in DOMAIN buffer'[c] :
             i \in Nat /\ i >= 1 /\ i + 1 \in DOMAIN buffer[c] /\ buffer'[c][i] = buffer[c][i + 1]
      /\ \A i \in DOMAIN buffer[c] :
             i # 1 => i - 1 \in DOMAIN buffer'[c] /\ buffer'[c][i - 1] = buffer[c][i]
  <2>1. buffer'[c] = Tail(buffer[c])
    BY <1>1, <1>2 DEF HubTyped
  <2>2. \A i \in DOMAIN buffer'[c] :
            i \in Nat /\ i >= 1 /\ i + 1 \in DOMAIN buffer[c] /\ buffer'[c][i] = buffer[c][i + 1]
    BY <1>3, <2>1
  <2>3. \A i \in DOMAIN buffer[c] :
            i # 1 => i - 1 \in DOMAIN buffer'[c] /\ buffer'[c][i - 1] = buffer[c][i]
    BY <1>3, <2>1
  <2>4. QED
    BY <1>2, <1>3, <2>1, <2>2, <2>3, TailAt
<1>5. PICK e \in Event : e = Sent(h)
  <2>1. CASE h.kind = "gap"
    BY <1>3, <2>1, ItemKinds DEF Sent, Gap, Event
  <2>2. CASE h.kind # "gap"
    <3>1. h.task \in Tasks
      BY <1>3, <2>2, ItemKinds
    <3>2. QED
      BY <1>1, <1>3, <3>1, SentKinds
  <2>3. QED
    BY <2>1, <2>2
<1> HIDE DEF h
<1>6. /\ wire'[c] = Append(wire[c], e) /\ wire' = [wire EXCEPT ![c] = Append(wire[c], e)]
      /\ wire[c] \in Seq(Event) /\ e.kind = h.kind
      /\ \A d \in Clients \ {c} : Same(d)
  <2>1. wire' = [wire EXCEPT ![c] = Append(wire[c], e)] /\ wire'[c] = Append(wire[c], e)
    BY <1>1, <1>5 DEF Forward, LinkTyped, h
  <2>2. e.kind = h.kind
    BY <1>1, <1>3, <1>5 DEF Sent
  <2>3. \A d \in Clients \ {c} : Same(d)
    BY <1>1, <1>2, <2>1 DEF LinkTyped, HubTyped, Same
  <2>4. QED
    BY <1>1, <2>1, <2>2, <2>3 DEF LinkTyped
<1>7. FeedTyped'
  <2>1. HubTyped'
    <3>1. /\ buffer' \in [Clients -> Seq(Item)] /\ \A d \in Clients : Len(buffer'[d]) <= Capacity
      BY <1>1, <1>2, <1>4, HubAssumption DEF HubTyped
    <3>2. index' \in [Clients -> [Tasks -> 0..MaxActivities]]
      <4>1. Discarded(index[c], h) \in [Tasks -> 0..MaxActivities]
        <5>1. PICK ix \in [Tasks -> 0..MaxActivities] : ix = index[c]
          BY <1>1 DEF HubTyped
        <5>2. 0 \in 0..MaxActivities
          BY HubAssumption
        <5>3. Discarded(ix, h) \in [Tasks -> 0..MaxActivities]
          BY <5>2 DEF Discarded
        <5>4. QED
          BY <5>1, <5>3
      <4>2. QED
        BY <1>1, <1>2, <4>1 DEF HubTyped, h
    <3>3. QED
      BY <1>1, <1>2, <3>1, <3>2 DEF HubTyped
  <2>2. wire' \in [Clients -> Seq(Event)]
    <3>1. PICK w \in Seq(Event) : w = Append(wire[c], e)
      BY <1>6, AppendAt
    <3>2. QED
      BY <1>1, <1>6, <3>1 DEF LinkTyped
  <2>3. LinkTyped' /\ HistoryTyped'
    BY <1>1, <1>2, <2>2 DEF LinkTyped, HistoryTyped
  <2>4. QED
    BY <2>1, <2>3 DEF FeedTyped
<1>8. Expiring(c)'
  <2>1. PICK n : n = Len(wire[c]) + 1
    OBVIOUS
  <2>2. /\ DOMAIN wire'[c] = DOMAIN wire[c] \cup {n} /\ wire'[c][n] = e
        /\ \A i \in DOMAIN wire[c] : wire'[c][i] = wire[c][i]
    BY <1>6, <2>1, AppendAt
  <2>3. \A i \in DOMAIN wire[c] : wire[c][i].kind # "auth_error"
    BY <1>2 DEF FeedInv, Expiring
  <2>4. e.kind # "auth_error"
    BY <1>3, <1>6, ItemKinds
  <2>5. QED
    BY <2>2, <2>3, <2>4 DEF Expiring
<1>9. ASSUME NEW t \in Tasks PROVE (Buffering(c, t) /\ Delivering(c, t))'
  <2>1. /\ Named(c, t) /\ Newest(c, t) /\ DoneLast(c, t) /\ InOrder(c, t) /\ Told(c, t)
        /\ reports[t] \in Nat
        /\ status[t] = "RUNNING" => activity[t] = reports[t]
    BY <1>1, HubAssumption DEF Buffering, Delivering, HistoryTyped
  <2>2. /\ Named(c, t)'
        /\ index'[c][t] = (IF IsActivity(h, t) THEN 0 ELSE index[c][t])
        /\ IsActivity(h, t) => index[c][t] # 0 /\ h.dict = index[c][t]
    BY <1>1, <1>2, <1>3, <2>1, NamedTaken DEF h
  <2>3. Newest(c, t)'
    BY <1>2, <2>1, <2>2 DEF Newest
  <2>4. DoneLast(c, t)'
    <3>1. ASSUME NEW i \in DOMAIN buffer'[c], IsDone(buffer'[c][i], t) PROVE status'[t] = "ENDED"
      BY <1>2, <1>4, <2>1, <3>1 DEF DoneLast
    <3>2. ASSUME NEW i \in DOMAIN buffer'[c], NEW j \in DOMAIN buffer'[c], i < j,
                 IsActivity(buffer'[c][j], t)
          PROVE  ~IsDone(buffer'[c][i], t)
      <4>1. i + 1 < j + 1
        BY <1>4, <3>2
      <4>2. QED
        BY <1>4, <2>1, <3>2, <4>1 DEF DoneLast
    <3>3. QED
      BY <3>1, <3>2 DEF DoneLast
  <2>5. /\ IsActivity(e, t) <=> IsActivity(h, t)
        /\ IsDone(e, t) <=> IsDone(h, t)
        /\ TextOf(e, t) = IF IsActivity(h, t) THEN reports[t] ELSE NoEntry
        /\ About(e, t) <=> IsActivity(h, t) \/ IsDone(h, t)
    <3>1. /\ IsActivity(e, t) <=> IsActivity(h, t)
          /\ IsDone(e, t) <=> IsDone(h, t)
          /\ TextOf(e, t) = IF IsActivity(h, t) THEN content[t][h.dict] ELSE NoEntry
      BY <1>1, <1>3, <1>5, SentKinds
    <3>2. h.kind # "snapshot"
      BY <1>3, ItemKinds
    <3>3. IsActivity(h, t) => content[t][h.dict] = reports[t]
      BY <2>1, <2>2 DEF Newest
    <3>4. QED
      BY <1>6, <3>1, <3>2, <3>3 DEF About
  <2>6. ~(IsActivity(h, t) /\ IsDone(h, t))
    BY DEF IsActivity, IsDone
  <2>7. IsDone(h, t) => status[t] = "ENDED" /\ index'[c][t] = 0
    <3>1. IsDone(h, t) => status[t] = "ENDED"
      BY <1>3, <2>1 DEF DoneLast
    <3>2. ASSUME index'[c][t] # 0 PROVE ~IsDone(h, t)
      <4>1. PICK i \in DOMAIN buffer'[c] : IsActivity(buffer'[c][i], t)
        BY <2>2, <3>2 DEF Named
      <4>2. 1 < i + 1 /\ i + 1 \in DOMAIN buffer[c] /\ IsActivity(buffer[c][i + 1], t)
        BY <1>4, <4>1
      <4>3. QED
        BY <1>3, <2>1, <4>2 DEF DoneLast
    <3>3. QED
      BY <3>1, <3>2
  <2>8. InOrder(c, t)'
    <3>1. UNCHANGED <<status, reports, live, reply>> /\ index'[c][t] \in {0, index[c][t]}
      BY <1>2, <2>2
    <3>2. TextOf(e, t) <= reports[t]
      BY <2>1, <2>5 DEF NoEntry
    <3>3. ASSUME TextOf(e, t) # NoEntry
          PROVE  /\ live[c][t] <= TextOf(e, t)
                 /\ \A i \in DOMAIN wire[c] :
                        TextOf(wire[c][i], t) < TextOf(e, t) /\ ~IsDone(wire[c][i], t)
      <4>1. TextOf(e, t) = reports[t] /\ index[c][t] # 0
        BY <2>2, <2>5, <3>3
      <4>2. QED
        BY <2>1, <4>1 DEF InOrder
    <3>4. IsDone(e, t) => status[t] = "ENDED"
      BY <2>5, <2>7
    <3>5. index'[c][t] # 0 => TextOf(e, t) < reports[t] /\ ~IsDone(e, t)
      <4>1. NoEntry < reports[t]
        BY <2>1 DEF NoEntry
      <4>2. QED
        BY <2>2, <2>5, <2>7, <4>1
    <3>6. QED
      BY <1>1, <1>6, <2>1, <3>1, <3>2, <3>3, <3>4, <3>5, OrderAppended
  <2>9. ASSUME ~Excused(c)' PROVE Told(c, t)'
    <3>1. /\ \A text : ~About(e, t) /\ Says(c, t, text) => Says(c, t, text)'
          /\ \A text : About(e, t) /\ text = TextOf(e, t) => Says(c, t, text)'
          /\ DOMAIN wire'[c] = DOMAIN wire[c] \cup {Len(wire[c]) + 1}
          /\ \A i \in DOMAIN wire[c] : wire'[c][i] = wire[c][i]
          /\ wire'[c][Len(wire[c]) + 1] = e
      BY <1>1, <1>2, <1>6, WireAppend
    <3>2. ~Excused(c)
      <4>1. h.kind # "gap" /\ \A i \in DOMAIN wire[c] : wire[c][i].kind # "gap"
        BY <1>6, <2>9, <3>1 DEF Excused
      <4>2. \A i \in DOMAIN buffer[c] : buffer[c][i].kind # "gap"
        BY <1>3, <1>4, <2>9, <4>1 DEF Excused
      <4>3. QED
        BY <1>2, <2>9, <4>1, <4>2 DEF Excused
    <3>3. ASSUME status[t] = "ENDED"
          PROVE  \/ \E i \in DOMAIN buffer'[c] : IsDone(buffer'[c][i], t)
                 \/ index'[c][t] = 0 /\ Says(c, t, NoEntry)'
      <4>1. CASE IsDone(h, t)
        BY <2>5, <2>6, <2>7, <3>1, <4>1
      <4>2. ASSUME NEW i \in DOMAIN buffer[c], IsDone(buffer[c][i], t), i # 1
            PROVE  \E j \in DOMAIN buffer'[c] : IsDone(buffer'[c][j], t)
        BY <1>4, <4>2
      <4>3. CASE ~IsDone(h, t) /\ index[c][t] = 0 /\ Says(c, t, NoEntry)
        BY <2>2, <2>5, <3>1, <4>3
      <4>4. QED
        BY <1>3, <2>1, <3>2, <3>3, <4>1, <4>2, <4>3 DEF Told
    <3>4. ASSUME status[t] = "RUNNING", activity[t] > 0
          PROVE  index'[c][t] # 0 \/ Says(c, t, activity[t])'
      <4>1. ~IsDone(h, t)
        BY <2>7, <3>4
      <4>2. CASE IsActivity(h, t)
        <5>1. PICK text : text = activity[t]
          OBVIOUS
        <5>2. text = TextOf(e, t) /\ About(e, t)
          BY <2>1, <2>5, <3>4, <4>2, <5>1
        <5>3. activity[t]' = text
          BY <1>2, <5>1
        <5>4. Says(c, t, text)'
          BY <3>1, <5>2
        <5>5. QED
          BY <5>3, <5>4
      <4>3. CASE ~IsActivity(h, t)
        <5>1. PICK text : text = activity[t]
          OBVIOUS
        <5>2. index[c][t] # 0 \/ Says(c, t, text)
          BY <2>1, <3>2, <3>4, <5>1 DEF Told
        <5>3. Says(c, t, text) => Says(c, t, text)'
          BY <2>5, <3>1, <4>1, <4>3
        <5>4. activity[t]' = text
          BY <1>2, <5>1
        <5>5. QED
          BY <2>2, <4>3, <5>2, <5>3, <5>4
      <4>4. QED
        BY <4>2, <4>3
    <3>5. status' = status /\ activity' = activity
      BY <1>2
    <3>6. QED
      BY <3>3, <3>4, <3>5 DEF Told
  <2>10. QED
    BY <2>2, <2>3, <2>4, <2>8, <2>9 DEF Buffering, Delivering, Told
<1>10. QED
  BY <1>2, <1>6, <1>7, <1>8, <1>9, ElsewhereKeeps DEF Elsewhere

-----------------------------------------------------------------------------
(* The browser.                                                            *)

\* An event sets the entries it is about.
LEMMA HandledAt ==
    ASSUME NEW entries \in [Tasks -> NoEntry..MaxActivities], NEW e \in Event
    PROVE  /\ Handled(entries, e) \in [Tasks -> NoEntry..MaxActivities]
           /\ \A t \in Tasks :
                  Handled(entries, e)[t] = IF About(e, t) THEN TextOf(e, t) ELSE entries[t]
<1>1. NoEntry \in NoEntry..MaxActivities /\ Report \subseteq NoEntry..MaxActivities
  BY HubAssumption DEF NoEntry, Report
<1>2. CASE \E u \in Tasks, n \in Report : e = [kind |-> "agent_activity", task |-> u, text |-> n]
  <2>1. PICK u \in Tasks, n \in Report : e = [kind |-> "agent_activity", task |-> u, text |-> n]
    BY <1>2
  <2>2. Handled(entries, e) = [entries EXCEPT ![u] = n]
    BY <2>1 DEF Handled
  <2>3. \A t \in Tasks : (About(e, t) <=> t = u) /\ (t = u => TextOf(e, t) = n)
    BY <2>1 DEF About, IsActivity, IsDone, TextOf
  <2>4. QED
    BY <1>1, <2>2, <2>3
<1>3. CASE \E u \in Tasks : e = [kind |-> "task_done", task |-> u]
  <2>1. PICK u \in Tasks : e = [kind |-> "task_done", task |-> u]
    BY <1>3
  <2>2. Handled(entries, e) = [entries EXCEPT ![u] = NoEntry]
    BY <2>1 DEF Handled
  <2>3. \A t \in Tasks : (About(e, t) <=> t = u) /\ TextOf(e, t) = NoEntry
    BY <2>1 DEF About, IsActivity, IsDone, TextOf
  <2>4. QED
    BY <1>1, <2>2, <2>3
<1>4. CASE e \in {Gap, AuthError}
  BY <1>4 DEF Handled, About, IsActivity, IsDone, Gap, AuthError
<1>5. CASE \E f \in [Tasks -> NoEntry..MaxActivities] : e = [kind |-> "snapshot", tasks |-> f]
  BY <1>5 DEF Handled, About, TextOf
<1>6. QED
  BY <1>2, <1>3, <1>4, <1>5 DEF Event

LEMMA ReceiveKeeps ==
    ASSUME FeedInv, NEW c \in Clients, Receive(c)
    PROVE  FeedInv'
<1> DEFINE e == Head(wire[c])
<1>1. /\ FeedTyped /\ HubTyped /\ HistoryTyped /\ LinkTyped /\ Expiring(c)
      /\ \A t \in Tasks : Buffering(c, t) /\ Delivering(c, t)
  BY DEF FeedInv, FeedTyped
<1>2. /\ UNCHANGED <<status, activity, reports, content, subscribed, buffer, index, connects,
                     polled, reply, missed>>
      /\ wire[c] # <<>> /\ wire' = [wire EXCEPT ![c] = Tail(@)]
      /\ live' = [live EXCEPT ![c] = Handled(@, e)]
      /\ conn' = [conn EXCEPT ![c] = IF e.kind = "auth_error" THEN "down" ELSE @]
      /\ warned' = [warned EXCEPT ![c] = @ \/ e.kind = "gap"]
  BY DEF Receive, historyVars, hubVars
<1>3. /\ wire[c] \in Seq(Event) /\ e \in Event /\ e = wire[c][1] /\ 1 \in DOMAIN wire[c]
      /\ wire'[c] = Tail(wire[c]) /\ Tail(wire[c]) \in Seq(Event)
  BY <1>1, <1>2, TailAt DEF LinkTyped
<1>4. /\ \A i \in DOMAIN wire'[c] :
             i \in Nat /\ i >= 1 /\ i + 1 \in DOMAIN wire[c] /\ wire'[c][i] = wire[c][i + 1]
      /\ \A i \in DOMAIN wire[c] : i \in Nat
      /\ \A i \in DOMAIN wire[c] :
             i # 1 => i - 1 \in DOMAIN wire'[c] /\ wire'[c][i - 1] = wire[c][i]
  <2>1. PICK w \in Seq(Event) : w = wire[c]
    BY <1>3
  <2>2. w # <<>> /\ wire'[c] = Tail(w)
    BY <1>2, <1>3, <2>1
  <2>3. \A i \in DOMAIN Tail(w) : i \in Nat /\ i >= 1 /\ i + 1 \in DOMAIN w /\ Tail(w)[i] = w[i + 1]
    BY <2>2
  <2>4. \A i \in DOMAIN w : i # 1 => i - 1 \in DOMAIN Tail(w) /\ Tail(w)[i - 1] = w[i]
    BY <2>2
  <2>5. QED
    BY <2>1, <2>2, <2>3, <2>4
<1> HIDE DEF e
<1>5. /\ live[c] \in [Tasks -> NoEntry..MaxActivities]
      /\ live'[c] = Handled(live[c], e)
      /\ conn'[c] = (IF e.kind = "auth_error" THEN "down" ELSE conn[c])
      /\ warned'[c] <=> warned[c] \/ e.kind = "gap"
      /\ \A d \in Clients \ {c} : Same(d)
  BY <1>1, <1>2 DEF LinkTyped, Same
<1>6. e.kind = "auth_error" => conn[c] = "expired"
  BY <1>1, <1>3 DEF Expiring
<1>7. FeedTyped'
  <2>1. wire' \in [Clients -> Seq(Event)]
    BY <1>1, <1>2, <1>3 DEF LinkTyped
  <2>2. live' \in [Clients -> [Tasks -> NoEntry..MaxActivities]]
    BY <1>1, <1>2, <1>3, <1>5, HandledAt DEF LinkTyped
  <2>3. /\ conn' \in [Clients -> {"down", "opening", "open", "expired"}]
        /\ warned' \in [Clients -> BOOLEAN]
    BY <1>1, <1>2 DEF LinkTyped
  <2>4. \A d \in Clients : d \in subscribed' <=> conn'[d] = "open"
    BY <1>1, <1>2, <1>5, <1>6 DEF LinkTyped, Same
  <2>5. LinkTyped'
    BY <1>1, <1>2, <2>1, <2>2, <2>3, <2>4 DEF LinkTyped
  <2>6. HubTyped' /\ HistoryTyped'
    BY <1>1, <1>2 DEF HubTyped, HistoryTyped
  <2>7. QED
    BY <2>5, <2>6 DEF FeedTyped
<1>8. Expiring(c)'
  <2>1. ASSUME NEW i \in DOMAIN wire'[c], wire'[c][i].kind = "auth_error"
        PROVE  conn'[c] = "expired" /\ \A j \in DOMAIN wire'[c] : j <= i
    <3>1. conn[c] = "expired" /\ \A j \in DOMAIN wire[c] : j <= i + 1
      BY <1>1, <1>4, <2>1 DEF Expiring
    <3>2. \A j \in DOMAIN wire'[c] : j <= i
      BY <1>4, <3>1
    <3>3. e.kind # "auth_error"
      <4>1. ~(i + 1 <= 1) /\ i + 1 \in DOMAIN wire[c]
        BY <1>4
      <4>2. QED
        BY <1>1, <1>3, <4>1 DEF Expiring
    <3>4. QED
      BY <1>5, <3>1, <3>2, <3>3
  <2>2. QED
    BY <2>1 DEF Expiring
<1>9. ASSUME NEW t \in Tasks PROVE (Buffering(c, t) /\ Delivering(c, t))'
  <2>1. /\ InOrder(c, t) /\ Told(c, t) /\ Buffering(c, t)
        /\ reports[t] \in Nat /\ live[c][t] \in Int
        /\ live'[c][t] = IF About(e, t) THEN TextOf(e, t) ELSE live[c][t]
        /\ TextOf(e, t) \in Int
    <3>1. InOrder(c, t) /\ Told(c, t) /\ Buffering(c, t)
      BY <1>1 DEF Delivering
    <3>2. reports[t] \in Nat /\ live[c][t] \in Int
      BY <1>1, <1>5, HubAssumption DEF HistoryTyped, NoEntry
    <3>3. live'[c][t] = IF About(e, t) THEN TextOf(e, t) ELSE live[c][t]
      BY <1>3, <1>5, HandledAt
    <3>4. TextOf(e, t) \in Int
      BY <1>1, <1>3, WireTexts
    <3>5. QED
      BY <3>1, <3>2, <3>3, <3>4
  <2>2. Buffering(c, t)'
    BY <1>2, <2>1 DEF Buffering, Named, Newest, DoneLast
  <2>3. InOrder(c, t)'
    <3>1. ASSUME NEW i \in DOMAIN wire'[c]
          PROVE  /\ TextOf(wire'[c][i], t) <= reports'[t]
                 /\ TextOf(wire'[c][i], t) # NoEntry => live'[c][t] <= TextOf(wire'[c][i], t)
                 /\ IsDone(wire'[c][i], t) => status'[t] = "ENDED"
                 /\ index'[c][t] # 0 =>
                        TextOf(wire'[c][i], t) < reports'[t] /\ ~IsDone(wire'[c][i], t)
      <4>1. /\ i + 1 \in DOMAIN wire[c] /\ wire'[c][i] = wire[c][i + 1] /\ 1 < i + 1
            /\ TextOf(wire[c][i + 1], t) \in Int
        BY <1>1, <1>4, WireTexts
      <4>2. TextOf(wire[c][i + 1], t) # NoEntry => live'[c][t] <= TextOf(wire[c][i + 1], t)
        <5>1. ASSUME TextOf(wire[c][i + 1], t) # NoEntry
              PROVE  /\ live[c][t] <= TextOf(wire[c][i + 1], t)
                     /\ TextOf(wire[c][1], t) < TextOf(wire[c][i + 1], t)
          BY <1>3, <2>1, <4>1, <5>1 DEF InOrder
        <5>2. QED
          BY <1>3, <2>1, <4>1, <5>1
      <4>3. QED
        BY <1>2, <2>1, <4>1, <4>2 DEF InOrder
    <3>2. ASSUME NEW i \in DOMAIN wire'[c], NEW j \in DOMAIN wire'[c], i < j,
                 TextOf(wire'[c][j], t) # NoEntry
          PROVE  TextOf(wire'[c][i], t) < TextOf(wire'[c][j], t) /\ ~IsDone(wire'[c][i], t)
      <4>1. i + 1 < j + 1
        BY <1>4, <3>2
      <4>2. QED
        BY <1>4, <2>1, <3>2, <4>1 DEF InOrder
    <3>3. live'[c][t] <= reports'[t]
      BY <1>2, <1>3, <2>1 DEF InOrder
    <3>4. reply'[c] # <<>> /\ reply'[c][t] = "ENDED" => status'[t] = "ENDED"
      BY <1>2, <2>1 DEF InOrder
    <3>5. QED
      BY <3>1, <3>2, <3>3, <3>4 DEF InOrder
  <2>4. ASSUME NEW text, Says(c, t, text) PROVE Says(c, t, text)'
    <3>1. ASSUME NEW i \in DOMAIN wire[c], i # 1,
                 About(wire[c][i], t), TextOf(wire[c][i], t) = text,
                 \A j \in DOMAIN wire[c] : i < j => ~About(wire[c][j], t)
          PROVE  Says(c, t, text)'
      <4>1. i - 1 \in DOMAIN wire'[c] /\ wire'[c][i - 1] = wire[c][i]
        BY <1>4, <3>1
      <4>2. \A j \in DOMAIN wire'[c] : i - 1 < j => ~About(wire'[c][j], t)
        <5>1. \A j \in DOMAIN wire'[c] : i - 1 < j => i < j + 1
          BY <1>4
        <5>2. QED
          BY <1>4, <3>1, <5>1
      <4>3. QED
        BY <3>1, <4>1, <4>2 DEF Says
    <3>2. CASE /\ About(wire[c][1], t) /\ TextOf(wire[c][1], t) = text
               /\ \A j \in DOMAIN wire[c] : 1 < j => ~About(wire[c][j], t)
      <4>1. live'[c][t] = text
        BY <1>3, <2>1, <3>2
      <4>2. \A j \in DOMAIN wire'[c] : ~About(wire'[c][j], t)
        <5>1. \A j \in DOMAIN wire'[c] : 1 < j + 1
          BY <1>4
        <5>2. QED
          BY <1>4, <3>2, <5>1
      <4>3. QED
        BY <4>1, <4>2 DEF Says
    <3>3. CASE live[c][t] = text /\ \A i \in DOMAIN wire[c] : ~About(wire[c][i], t)
      BY <1>3, <1>4, <2>1, <3>3 DEF Says
    <3>4. QED
      BY <1>3, <2>4, <3>1, <3>2, <3>3 DEF Says
  <2>5. Excused(c) => Excused(c)'
    <3>1. CASE \E i \in DOMAIN wire[c] : wire[c][i].kind = "gap"
      <4>1. PICK i \in DOMAIN wire[c] : wire[c][i].kind = "gap"
        BY <3>1
      <4>2. CASE i = 1
        BY <1>3, <1>5, <4>1, <4>2 DEF Excused
      <4>3. CASE i # 1
        BY <1>4, <4>1, <4>3 DEF Excused
      <4>4. QED
        BY <4>2, <4>3
    <3>2. CASE conn[c] \notin {"opening", "open"} \/ missed[c] \/ warned[c]
      BY <1>2, <1>5, <3>2 DEF Excused
    <3>3. CASE \E i \in DOMAIN buffer[c] : buffer[c][i].kind = "gap"
      BY <1>2, <3>3 DEF Excused
    <3>4. QED
      BY <3>1, <3>2, <3>3 DEF Excused
  <2>6. Told(c, t)'
    BY <1>2, <2>1, <2>4, <2>5 DEF Told
  <2>7. QED
    BY <2>2, <2>3, <2>6 DEF Delivering
<1>10. QED
  BY <1>2, <1>5, <1>7, <1>8, <1>9, ElsewhereKeeps DEF Elsewhere

LEMMA AnswerKeeps ==
    ASSUME FeedInv, NEW c \in Clients, AnswerPoll(c)
    PROVE  FeedInv'
<1>1. /\ FeedTyped /\ HubTyped /\ HistoryTyped /\ LinkTyped /\ Expiring(c)
      /\ \A t \in Tasks : Buffering(c, t) /\ Delivering(c, t)
  BY DEF FeedInv, FeedTyped
<1>2. /\ UNCHANGED <<status, activity, reports, content, subscribed, buffer, index, conn, wire,
                     connects, live, polled, missed, warned>>
      /\ reply' = [reply EXCEPT ![c] = status]
  BY DEF AnswerPoll, historyVars, hubVars, linkVars, viewVars, ghostVars
<1>3. reply'[c] = status /\ \A d \in Clients \ {c} : Same(d)
  BY <1>1, <1>2 DEF LinkTyped, Same
<1>4. FeedTyped'
  <2>1. reply' \in [Clients -> {<<>>} \cup [Tasks -> TaskStatus]]
    BY <1>1, <1>2 DEF LinkTyped, HistoryTyped
  <2>2. LinkTyped' /\ HubTyped' /\ HistoryTyped'
    BY <1>1, <1>2, <2>1 DEF LinkTyped, HubTyped, HistoryTyped
  <2>3. QED
    BY <2>2 DEF FeedTyped
<1>5. Expiring(c)'
  BY <1>1, <1>2 DEF Expiring
<1>6. ASSUME NEW t \in Tasks PROVE (Buffering(c, t) /\ Delivering(c, t))'
  <2>1. Buffering(c, t)'
    BY <1>1, <1>2 DEF Buffering, Named, Newest, DoneLast
  <2>2. InOrder(c, t)'
    BY <1>1, <1>2, <1>3 DEF Delivering, InOrder
  <2>3. \A text : Says(c, t, text) => Says(c, t, text)'
    BY <1>2 DEF Says
  <2>4. Excused(c) => Excused(c)'
    BY <1>2 DEF Excused
  <2>5. Told(c, t)'
    BY <1>1, <1>2, <2>3, <2>4 DEF Delivering, Told
  <2>6. QED
    BY <2>1, <2>2, <2>5 DEF Delivering
<1>7. QED
  BY <1>2, <1>3, <1>4, <1>5, <1>6, ElsewhereKeeps DEF Elsewhere

\* A poll only ever takes away the entry of a task that is over.
LEMMA PollKeeps ==
    ASSUME FeedInv, NEW c \in Clients, ReceivePoll(c)
    PROVE  FeedInv'
<1>1. /\ FeedTyped /\ HubTyped /\ HistoryTyped /\ LinkTyped /\ Expiring(c)
      /\ \A t \in Tasks : Buffering(c, t) /\ Delivering(c, t)
  BY DEF FeedInv, FeedTyped
<1>2. /\ UNCHANGED <<status, activity, reports, content, subscribed, buffer, index, conn, wire,
                     connects, missed, warned>>
      /\ reply[c] # <<>>
      /\ polled' = [polled EXCEPT ![c] = reply[c]]
      /\ live' = [live EXCEPT ![c] = Reconciled(@, reply[c])] \/ live' = live
      /\ reply' = [reply EXCEPT ![c] = <<>>]
  BY DEF ReceivePoll, historyVars, hubVars, linkVars, ghostVars
<1>3. /\ reply'[c] = <<>> /\ \A d \in Clients \ {c} : Same(d)
      /\ live[c] \in [Tasks -> NoEntry..MaxActivities]
      /\ reply[c] \in [Tasks -> TaskStatus]
      /\ live'[c] \in {live[c], Reconciled(live[c], reply[c])}
  BY <1>1, <1>2 DEF LinkTyped, Same
<1>4. \A t \in Tasks : /\ live'[c][t] = live[c][t] \/ (live'[c][t] = NoEntry /\ status[t] = "ENDED")
                       /\ live'[c][t] \in NoEntry..MaxActivities
  <2>1. ASSUME NEW t \in Tasks, reply[c][t] = "ENDED" PROVE status[t] = "ENDED"
    BY <1>1, <1>2, <2>1 DEF Delivering, InOrder
  <2>2. NoEntry \in NoEntry..MaxActivities
    BY HubAssumption DEF NoEntry
  <2>3. QED
    BY <1>3, <2>1, <2>2 DEF Reconciled
<1>5. FeedTyped'
  <2>1. live' \in [Clients -> [Tasks -> NoEntry..MaxActivities]]
    <3>1. Reconciled(live[c], reply[c]) \in [Tasks -> NoEntry..MaxActivities]
      <4>1. NoEntry \in NoEntry..MaxActivities
        BY HubAssumption DEF NoEntry
      <4>2. QED
        BY <1>3, <4>1 DEF Reconciled
    <3>2. QED
      BY <1>1, <1>2, <3>1 DEF LinkTyped
  <2>2. /\ polled' \in [Clients -> [Tasks -> TaskStatus]]
        /\ reply' \in [Clients -> {<<>>} \cup [Tasks -> TaskStatus]]
    BY <1>1, <1>2, <1>3 DEF LinkTyped
  <2>3. LinkTyped' /\ HubTyped' /\ HistoryTyped'
    BY <1>1, <1>2, <2>1, <2>2 DEF LinkTyped, HubTyped, HistoryTyped
  <2>4. QED
    BY <2>3 DEF FeedTyped
<1>6. Expiring(c)'
  BY <1>1, <1>2 DEF Expiring
<1>7. ASSUME NEW t \in Tasks PROVE (Buffering(c, t) /\ Delivering(c, t))'
  <2>1. Buffering(c, t)'
    BY <1>1, <1>2 DEF Buffering, Named, Newest, DoneLast
  <2>2. InOrder(c, t)'
    <3>1. /\ InOrder(c, t) /\ reports[t] \in Nat /\ live[c][t] \in Int
          /\ live'[c][t] = live[c][t] \/ live'[c][t] = NoEntry
      BY <1>1, <1>4, HubAssumption DEF Delivering, HistoryTyped, LinkTyped, NoEntry
    <3>2. ASSUME NEW i \in DOMAIN wire[c], TextOf(wire[c][i], t) # NoEntry
          PROVE  live'[c][t] <= TextOf(wire[c][i], t)
      <4>1. TextOf(wire[c][i], t) \in NoEntry..MaxActivities
        BY <1>1, WireTexts
      <4>2. QED
        BY <3>1, <3>2, <4>1, HubAssumption DEF InOrder, NoEntry
    <3>3. live'[c][t] <= reports[t]
      BY <3>1 DEF InOrder, NoEntry
    <3>4. QED
      BY <1>2, <1>3, <3>1, <3>2, <3>3 DEF InOrder
  <2>3. /\ status[t] = "ENDED" /\ Says(c, t, NoEntry) => Says(c, t, NoEntry)'
        /\ status[t] # "ENDED" => \A text : Says(c, t, text) => Says(c, t, text)'
    BY <1>2, <1>4 DEF Says
  <2>4. Excused(c) => Excused(c)'
    BY <1>2 DEF Excused
  <2>5. Told(c, t)'
    BY <1>1, <1>2, <2>3, <2>4 DEF Delivering, Told
  <2>6. QED
    BY <2>1, <2>2, <2>5 DEF Delivering
<1>8. QED
  BY <1>2, <1>3, <1>5, <1>6, <1>7, ElsewhereKeeps DEF Elsewhere

-----------------------------------------------------------------------------
(* The invariant.                                                          *)

LEMMA DispatcherKeeps ==
    ASSUME FeedInv, Dispatcher
    PROVE  FeedInv'
<1>1. /\ FeedTyped /\ HubTyped /\ HistoryTyped /\ LinkTyped
      /\ \A t \in Tasks : Unwritten(t)
      /\ \A c \in Clients, t \in Tasks : Buffering(c, t) /\ Delivering(c, t)
  BY DEF FeedInv, FeedTyped
<1>2. /\ UNCHANGED <<conn, connects, wire, live, polled, reply, warned>>
      /\ missed' \in [Clients -> BOOLEAN]
  BY <1>1, Linked
<1>3. \A c \in Clients : Expiring(c)'
  BY <1>2 DEF FeedInv, Expiring
<1>4. PICK u \in Tasks : StartTask(u) \/ ReportActivity(u) \/ Finalize(u)
  BY DEF Dispatcher, HubNext
<1>5. ASSUME HubTyped', HistoryTyped', subscribed' = subscribed PROVE FeedTyped'
  <2>1. LinkTyped'
    BY <1>1, <1>2, <1>5 DEF LinkTyped
  <2>2. QED
    BY <1>5, <2>1 DEF FeedTyped
<1>6. CASE StartTask(u)
  <2>1. HistoryTyped' /\ UNCHANGED <<activity, reports, hubVars>>
    BY <1>1, <1>6, Starting
  <2>2. HubTyped' /\ subscribed' = subscribed /\ \A t \in Tasks : Unwritten(t)'
    BY <1>1, <2>1 DEF HubTyped, Unwritten, hubVars
  <2>3. \A c \in Clients, t \in Tasks : Buffering(c, t)' /\ Delivering(c, t)'
    BY <1>1, <1>6, StartKeeps
  <2>4. QED
    BY <1>3, <1>5, <2>1, <2>2, <2>3 DEF FeedInv
<1>7. CASE ReportActivity(u)
  <2>1. /\ HistoryTyped' /\ Activity(u, reports[u] + 1) \in Item
        /\ Publish(Activity(u, reports[u] + 1))
    BY <1>1, <1>7, Reporting
  <2>2. HubTyped' /\ subscribed' = subscribed
    BY <1>1, <2>1, HubPublishTyped DEF Publish
  <2>3. /\ \A t \in Tasks : Unwritten(t)'
        /\ \A c \in Clients, t \in Tasks : Buffering(c, t)'
    BY <1>1, <1>7, ReportBuffers
  <2>4. \A c \in Clients, t \in Tasks : Delivering(c, t)'
    BY <1>1, <1>7, ReportDelivers
  <2>5. QED
    BY <1>3, <1>5, <2>1, <2>2, <2>3, <2>4 DEF FeedInv
<1>8. CASE Finalize(u)
  <2>1. HistoryTyped' /\ Done(u) \in Item /\ Publish(Done(u))
    BY <1>1, <1>8, Ending
  <2>2. HubTyped' /\ subscribed' = subscribed
    BY <1>1, <2>1, HubPublishTyped DEF Publish
  <2>3. /\ \A t \in Tasks : Unwritten(t)'
        /\ \A c \in Clients, t \in Tasks : Buffering(c, t)'
    BY <1>1, <1>8, EndBuffers
  <2>4. \A c \in Clients, t \in Tasks : Delivering(c, t)'
    BY <1>1, <1>8, EndDelivers
  <2>5. QED
    BY <1>3, <1>5, <2>1, <2>2, <2>3, <2>4 DEF FeedInv
<1>9. QED
  BY <1>4, <1>6, <1>7, <1>8

LEMMA FeedStart ==
    ASSUME Init
    PROVE  FeedInv
<1>1. 0 \in 0..MaxActivities /\ 0 \in 0..MaxConnects /\ NoEntry \in NoEntry..MaxActivities
      /\ MaxActivities \in Nat
  BY HubAssumption, FeedAssumption DEF NoEntry
<1>2. HistoryTyped
  BY <1>1 DEF Init, HubInit, HistoryTyped, TaskStatus
<1>3. HubTyped
  <2>1. [n \in Report |-> n] \in [Report -> Report]
    OBVIOUS
  <2>2. [t \in Tasks |-> 0] \in [Tasks -> 0..MaxActivities]
    BY <1>1
  <2>3. <<>> \in Seq(Item) /\ Len(<<>>) <= Capacity
    BY HubAssumption
  <2>4. \A c \in Clients : Len(buffer[c]) <= Capacity
    BY <2>3 DEF Init, HubInit
  <2>5. QED
    BY <2>1, <2>2, <2>3, <2>4 DEF Init, HubInit, HubTyped
<1>4. LinkTyped
  <2>1. /\ [t \in Tasks |-> NoEntry] \in [Tasks -> NoEntry..MaxActivities]
        /\ [t \in Tasks |-> "none"] \in [Tasks -> TaskStatus]
        /\ <<>> \in Seq(Event)
    BY <1>1 DEF TaskStatus
  <2>2. QED
    BY <1>1, <2>1 DEF Init, HubInit, LinkTyped
<1>5. ASSUME NEW c \in Clients, NEW t \in Tasks PROVE Buffering(c, t) /\ Delivering(c, t)
  <2>1. /\ buffer[c] = <<>> /\ wire[c] = <<>> /\ index[c][t] = 0 /\ conn[c] = "down"
        /\ reply[c] = <<>> /\ live[c][t] = NoEntry /\ reports[t] = 0
    BY DEF Init, HubInit
  <2>2. Buffering(c, t)
    BY <2>1 DEF Buffering, Named, Newest, DoneLast
  <2>3. InOrder(c, t)
    BY <2>1 DEF InOrder, NoEntry
  <2>4. Told(c, t)
    BY <2>1 DEF Told, Excused
  <2>5. QED
    BY <2>2, <2>3, <2>4 DEF Delivering
<1>6. \A c \in Clients : Expiring(c)
  BY DEF Init, Expiring
<1>7. \A t \in Tasks : Unwritten(t)
  BY DEF Init, HubInit, Unwritten
<1>8. QED
  BY <1>2, <1>3, <1>4, <1>5, <1>6, <1>7 DEF FeedInv, FeedTyped

LEMMA FeedStep ==
    ASSUME FeedInv, [Next]_vars
    PROVE  FeedInv'
<1>1. CASE Dispatcher
  BY <1>1, DispatcherKeeps
<1>2. ASSUME NEW c \in Clients, Server(c) \/ Browser(c) \/ Lose(c) PROVE FeedInv'
  BY <1>2, OpenKeeps, BeginKeeps, ForwardKeeps, CloseKeeps, ReceiveKeeps, AnswerKeeps, PollKeeps
  DEF Server, Browser
<1>3. CASE UNCHANGED vars
  <2>1. UNCHANGED <<status, activity, reports, content, subscribed, buffer, index, conn, connects,
                    wire, live, reply, polled, missed, warned>>
    BY <1>3 DEF vars, historyVars, hubVars, linkVars, viewVars, ghostVars
  <2>2. FeedTyped'
    BY <2>1 DEF FeedInv, FeedTyped, HistoryTyped, HubTyped, LinkTyped
  <2>3. /\ \A t \in Tasks : Unwritten(t)'
        /\ \A c \in Clients : Expiring(c)'
    BY <2>1 DEF FeedInv, Unwritten, Expiring
  <2>4. \A c \in Clients, t \in Tasks : Buffering(c, t)' /\ Delivering(c, t)'
    BY <2>1, SameKeeps DEF FeedInv, Same, Delivering
  <2>5. QED
    BY <2>2, <2>3, <2>4 DEF FeedInv
<1>4. QED
  BY <1>1, <1>2, <1>3 DEF Next

LEMMA FeedInvariant == Spec => []FeedInv
<1>1. Init => FeedInv
  BY FeedStart
<1>2. FeedInv /\ [Next]_vars => FeedInv'
  BY FeedStep
<1>3. QED
  BY <1>1, <1>2, PTL DEF Spec

-----------------------------------------------------------------------------
(* What follows for the feed.                                              *)

\* Every variable of the feed keeps its type and no buffer grows beyond its capacity.
THEOREM FeedTypeCorrect == Spec => []FeedTypeOK
<1>1. FeedInv => FeedTypeOK
  <2>1. ASSUME FeedTyped PROVE HubTypeOK
    <3>1. \A t \in Tasks : activity[t] \in {0, reports[t]}
      BY <2>1 DEF FeedTyped, HistoryTyped
    <3>2. QED
      BY <2>1, <3>1 DEF FeedTyped, HistoryTyped, HubTyped, HubTypeOK, TaskStatus
  <2>2. QED
    BY <2>1 DEF FeedInv, FeedTyped, FeedTypeOK, LinkTyped, TaskStatus
<1>2. QED
  BY FeedInvariant, <1>1, PTL

\* The activity index of a subscriber (streaming_hub.py) names the one buffered activity
\* of each task, and nothing that has left the buffer, whatever was coalesced, dropped by
\* an overflow, taken or discarded with the connection.
THEOREM IndexNamesBuffered == Spec => []IndexMatchesBuffer
<1>1. ASSUME FeedInv PROVE IndexMatchesBuffer
  <2>1. SUFFICES ASSUME NEW c \in Clients, NEW t \in Tasks
                 PROVE  LET held == {i \in DOMAIN buffer[c] :
                               buffer[c][i].kind = "agent_activity" /\ buffer[c][i].task = t}
                        IN  IF index[c][t] = 0 THEN held = {}
                            ELSE \E i \in held : held = {i} /\ buffer[c][i].dict = index[c][t]
    BY DEF IndexMatchesBuffer
  <2> DEFINE held == {i \in DOMAIN buffer[c] :
                          buffer[c][i].kind = "agent_activity" /\ buffer[c][i].task = t}
  <2>2. Named(c, t)
    BY <1>1 DEF FeedInv, Buffering
  <2>3. \A i : i \in held <=> i \in DOMAIN buffer[c] /\ IsActivity(buffer[c][i], t)
    BY DEF IsActivity
  <2> HIDE DEF held
  <2>4. CASE index[c][t] = 0
    <3>1. held = {}
      BY <2>2, <2>3, <2>4 DEF Named
    <3>2. QED
      BY <2>4, <3>1 DEF held
  <2>5. CASE index[c][t] # 0
    <3>1. PICK i \in held : TRUE
      BY <2>2, <2>3, <2>5 DEF Named
    <3>2. held = {i} /\ buffer[c][i].dict = index[c][t]
      BY <2>2, <2>3, <3>1 DEF Named
    <3>3. QED
      BY <2>5, <3>1, <3>2 DEF held
  <2>6. QED
    BY <2>4, <2>5
<1>2. QED
  BY FeedInvariant, <1>1, PTL

\* A buffered activity reads as the newest report of its task, although all subscribers
\* share the dict that coalescing rewrites in place.
THEOREM BuffersSayNewest == Spec => []BufferedIsNewest
<1>1. ASSUME FeedInv, NEW c \in Clients, NEW t \in Tasks, NEW n \in Report, Buffers(c, t, n) # {}
      PROVE  content[t][n] = reports[t]
  <2>1. PICK i \in DOMAIN buffer[c] : buffer[c][i] = Activity(t, n)
    BY <1>1 DEF Buffers
  <2>2. IsActivity(buffer[c][i], t) /\ buffer[c][i].dict = n
    BY <2>1, Kinds DEF IsActivity
  <2>3. QED
    BY <1>1, <2>2 DEF FeedInv, Buffering, Named, Newest
<1>2. FeedInv => BufferedIsNewest
  BY <1>1 DEF BufferedIsNewest
<1>3. QED
  BY FeedInvariant, <1>2, PTL

\* What a connection has still to tell a browser is in order: no older activity after a
\* newer one and nothing of a task after its end, on the wire, in the buffer and between.
THEOREM StreamInOrder == Spec => []StreamOrdered
<1>1. ASSUME FeedInv, NEW c \in Clients, NEW t \in Tasks,
             NEW i \in DOMAIN Stream(c), NEW j \in DOMAIN Stream(c), i < j,
             TextOf(Stream(c)[j], t) # NoEntry
      PROVE  /\ TextOf(Stream(c)[i], t) < TextOf(Stream(c)[j], t)
             /\ ~IsDone(Stream(c)[i], t)
  <2>1. /\ wire[c] \in Seq(Event) /\ buffer[c] \in Seq(Item) /\ HubTyped /\ FeedTyped
        /\ InOrder(c, t) /\ Named(c, t) /\ Newest(c, t) /\ DoneLast(c, t)
        /\ reports[t] \in Nat
    BY <1>1, HubAssumption
    DEF FeedInv, FeedTyped, HubTyped, LinkTyped, HistoryTyped, Buffering, Delivering
  <2>2. PICK s : s = Stream(c)
    OBVIOUS
  <2>3. PICK m \in Nat, n \in Nat : m = Len(wire[c]) /\ n = Len(buffer[c])
    BY <2>1
  <2>4. /\ DOMAIN wire[c] = 1..m /\ DOMAIN buffer[c] = 1..n /\ DOMAIN s = 1..(m + n)
        /\ \A k \in 1..m : s[k] = wire[c][k]
        /\ \A k \in 1..n : s[m + k] = Sent(buffer[c][k])
    <3>1. PICK sent : sent = [k \in DOMAIN buffer[c] |-> Sent(buffer[c][k])]
      OBVIOUS
    <3>2. ASSUME NEW k \in DOMAIN buffer[c] PROVE Sent(buffer[c][k]) \in Event
      BY <2>1, <3>2, SentKinds
    <3>3. sent \in Seq(Event) /\ Len(sent) = n /\ \A k \in 1..n : sent[k] = Sent(buffer[c][k])
      BY <2>1, <2>3, <3>1, <3>2
    <3>4. s = wire[c] \o sent
      BY <2>2, <3>1 DEF Stream
    <3>5. QED
      <4>1. /\ DOMAIN s = 1..(m + n)
            /\ \A k \in 1..m : s[k] = wire[c][k]
            /\ \A k \in 1..n : s[m + k] = sent[k]
        <5>1. PICK w \in Seq(Event) : w = wire[c]
          BY <2>1
        <5>2. /\ DOMAIN (w \o sent) = 1..(Len(w) + Len(sent))
              /\ \A k \in 1..Len(w) : (w \o sent)[k] = w[k]
              /\ \A k \in 1..Len(sent) : (w \o sent)[Len(w) + k] = sent[k]
          BY <3>3
        <5>3. s = w \o sent /\ Len(w) = m /\ Len(sent) = n
          BY <2>3, <3>3, <3>4, <5>1
        <5>4. QED
          BY <5>1, <5>2, <5>3
      <4>2. DOMAIN wire[c] = 1..m /\ DOMAIN buffer[c] = 1..n
        BY <2>1, <2>3
      <4>3. QED
        BY <3>3, <4>1, <4>2
  <2>5. i \in 1..(m + n) /\ j \in 1..(m + n) /\ i < j /\ TextOf(s[j], t) # NoEntry
    BY <1>1, <2>2, <2>4
  <2>6. ASSUME NEW k \in 1..n
        PROVE  /\ IsDone(s[m + k], t) <=> IsDone(buffer[c][k], t)
               /\ TextOf(s[m + k], t) = IF IsActivity(buffer[c][k], t) THEN reports[t] ELSE NoEntry
               /\ IsActivity(buffer[c][k], t) => index[c][t] # 0
    <3>1. buffer[c][k] \in Item /\ s[m + k] = Sent(buffer[c][k])
      <4>1. k \in DOMAIN buffer[c]
        BY <2>4
      <4>2. QED
        BY <2>1, <2>4, <4>1
    <3>2. /\ IsDone(s[m + k], t) <=> IsDone(buffer[c][k], t)
          /\ TextOf(s[m + k], t) = IF IsActivity(buffer[c][k], t)
                                   THEN content[t][buffer[c][k].dict] ELSE NoEntry
      BY <2>1, <3>1, SentKinds
    <3>3. IsActivity(buffer[c][k], t) =>
              index[c][t] # 0 /\ content[t][buffer[c][k].dict] = reports[t]
      BY <2>1, <2>4 DEF Named, Newest
    <3>4. QED
      BY <3>2, <3>3
  <2>7. CASE j \in 1..m
    <3>1. i \in 1..m
      BY <2>5, <2>7
    <3>2. QED
      BY <2>1, <2>2, <2>4, <2>5, <2>7, <3>1 DEF InOrder
  <2>8. CASE j \notin 1..m
    <3>1. PICK k \in 1..n : j = m + k
      <4>1. j - m \in 1..n /\ j = m + (j - m)
        BY <2>5, <2>8
      <4>2. QED
        BY <4>1
    <3>2. IsActivity(buffer[c][k], t) /\ TextOf(s[j], t) = reports[t] /\ index[c][t] # 0
      BY <2>5, <2>6, <3>1
    <3>3. CASE i \in 1..m
      BY <2>1, <2>2, <2>4, <3>2, <3>3 DEF InOrder
    <3>4. CASE i \notin 1..m
      <4>1. PICK l \in 1..n : i = m + l /\ l < k
        <5>1. i - m \in 1..n /\ i = m + (i - m) /\ i - m < k
          BY <2>5, <3>1, <3>4
        <5>2. QED
          BY <5>1
      <4>2. ~IsActivity(buffer[c][l], t) /\ ~IsDone(buffer[c][l], t)
        <5>1. k \in DOMAIN buffer[c] /\ l \in DOMAIN buffer[c] /\ l # k
          BY <2>4, <4>1
        <5>2. QED
          BY <2>1, <3>2, <4>1, <5>1 DEF Named, DoneLast
      <4>3. TextOf(s[i], t) = NoEntry /\ ~IsDone(s[i], t)
        BY <2>6, <4>1, <4>2
      <4>4. QED
        BY <2>1, <2>2, <3>2, <4>3 DEF NoEntry
    <3>5. QED
      BY <3>3, <3>4
  <2>9. QED
    BY <2>7, <2>8
<1>2. FeedInv => StreamOrdered
  BY <1>1 DEF StreamOrdered, IsDone
<1>3. QED
  BY FeedInvariant, <1>2, PTL

\* An open connection that has nothing more to deliver has brought the browser to the
\* orchestrator's state, unless it told of a gap or an event fell between its snapshot
\* and its subscription.
THEOREM SilentFeedIsInStep == Spec => []InStep
<1>1. ASSUME FeedInv, NEW c \in Clients, conn[c] = "open", Stream(c) = <<>>,
             ~missed[c], ~warned[c], NEW t \in Tasks
      PROVE  /\ status[t] = "ENDED" => live[c][t] = NoEntry
             /\ status[t] = "RUNNING" /\ activity[t] > 0 => live[c][t] = activity[t]
  <2>1. wire[c] \in Seq(Event) /\ buffer[c] \in Seq(Item)
    BY <1>1 DEF FeedInv, FeedTyped, HubTyped, LinkTyped
  <2>2. DOMAIN wire[c] = {} /\ DOMAIN buffer[c] = {}
    <3>1. PICK sent : sent = [i \in DOMAIN buffer[c] |-> Sent(buffer[c][i])]
      OBVIOUS
    <3>2. ASSUME NEW i \in DOMAIN buffer[c] PROVE Sent(buffer[c][i]) \in Event
      BY <1>1, <2>1, <3>2, SentKinds DEF FeedInv, FeedTyped
    <3>3. sent \in Seq(Event) /\ DOMAIN sent = DOMAIN buffer[c] /\ Len(sent) = Len(buffer[c])
      BY <2>1, <3>1, <3>2
    <3>4. wire[c] \o sent = <<>>
      BY <1>1, <3>1 DEF Stream
    <3>5. Len(wire[c]) = 0 /\ Len(sent) = 0
      BY <2>1, <3>3, <3>4
    <3>6. QED
      BY <2>1, <3>3, <3>5
  <2>3. ~Excused(c) /\ index[c][t] = 0
    BY <1>1, <2>2 DEF Excused, FeedInv, Buffering, Named
  <2>4. \A text : Says(c, t, text) => live[c][t] = text
    BY <2>2 DEF Says
  <2>5. Told(c, t)
    BY <1>1 DEF FeedInv, Delivering
  <2>6. QED
    BY <2>2, <2>3, <2>4, <2>5 DEF Told
<1>2. FeedInv => InStep
  BY <1>1 DEF InStep
<1>3. QED
  BY FeedInvariant, <1>2, PTL

\* An entry of the live view never goes back to an older activity: not by a buffered or a
\* late event, not by the snapshot of a new connection, not by a late answer to a poll.
THEOREM LiveMovesForward == Spec => LiveNeverOlder
<1>1. ASSUME FeedInv, [Next]_vars, NEW c \in Clients, NEW t \in Tasks, live'[c][t] # NoEntry
      PROVE  live'[c][t] >= live[c][t]
  <2>1. live[c][t] \in Int /\ live \in [Clients -> [Tasks -> NoEntry..MaxActivities]]
    BY <1>1, HubAssumption DEF FeedInv, FeedTyped, LinkTyped, NoEntry
  <2>2. ASSUME NEW d \in Clients, Receive(d) PROVE live'[c][t] >= live[c][t]
    <3>1. /\ live' = [live EXCEPT ![d] = Handled(@, Head(wire[d]))]
          /\ wire[d] \in Seq(Event) /\ wire[d] # <<>>
      BY <1>1, <2>2 DEF Receive, FeedInv, FeedTyped, LinkTyped
    <3>2. PICK e \in Event : e = Head(wire[d]) /\ e = wire[d][1] /\ 1 \in DOMAIN wire[d]
      BY <3>1, TailAt
    <3>3. CASE d = c
      <4>1. live'[c][t] = IF About(e, t) THEN TextOf(e, t) ELSE live[c][t]
        <5>1. live[c] \in [Tasks -> NoEntry..MaxActivities] /\ live'[c] = Handled(live[c], e)
          BY <2>1, <3>1, <3>2, <3>3
        <5>2. QED
          BY <5>1, HandledAt
      <4>2. TextOf(e, t) # NoEntry => live[c][t] <= TextOf(e, t)
        BY <1>1, <3>2, <3>3 DEF FeedInv, Delivering, InOrder
      <4>3. TextOf(e, t) \in Int
        BY <1>1, <3>2, <3>3, WireTexts DEF FeedInv
      <4>4. QED
        BY <1>1, <2>1, <4>1, <4>2, <4>3
    <3>4. CASE d # c
      BY <2>1, <3>1, <3>4
    <3>5. QED
      BY <3>3, <3>4
  <2>3. ASSUME NEW d \in Clients, ReceivePoll(d) PROVE live'[c][t] >= live[c][t]
    <3>1. live' = [live EXCEPT ![d] = Reconciled(@, reply[d])] \/ live' = live
      BY <2>3 DEF ReceivePoll
    <3>2. live'[c] = live[c] \/ live'[c] = Reconciled(live[c], reply[c])
      BY <2>1, <3>1
    <3>3. live'[c][t] = live[c][t]
      BY <1>1, <2>1, <3>2 DEF Reconciled
    <3>4. QED
      BY <2>1, <3>3
  <2>4. CASE UNCHANGED live
    BY <2>1, <2>4
  <2>5. ASSUME NEW d \in Clients,
               BeginStream(d) \/ Forward(d) \/ Expire(d) \/ Open(d) \/ AnswerPoll(d) \/ Lose(d)
        PROVE  UNCHANGED live
    BY <2>5 DEF BeginStream, Forward, Expire, Open, AnswerPoll, Lose, viewVars
  <2>6. Dispatcher \/ UNCHANGED vars => UNCHANGED live
    BY DEF Dispatcher, vars, viewVars
  <2>7. QED
    BY <1>1, <2>2, <2>3, <2>4, <2>5, <2>6 DEF Next, Server, Browser
<1>2. FeedInv /\ [Next]_vars =>
          \A c \in Clients, t \in Tasks : live'[c][t] # NoEntry => live'[c][t] >= live[c][t]
  BY <1>1
<1>3. QED
  BY FeedInvariant, <1>2, PTL DEF Spec, LiveNeverOlder
=============================================================================
