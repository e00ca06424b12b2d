--------------------------- MODULE MCDashboardFeed ---------------------------
(* Model values for DashboardFeed: browsers and tasks are interchangeable. *)
EXTENDS DashboardFeed, TLC

Symmetric == Permutations(Clients) \cup Permutations(Tasks)

NeverPolls(c) == reply[c] = <<>> /\ polled[c] = [t \in Tasks |-> "none"]

\* One browser that may reconnect and polls, with two activities of each task ...
OneBrowser ==
    /\ \E c \in Clients : \A d \in Clients \ {c} : connects[d] = 0 /\ NeverPolls(d)
    /\ \A t \in Tasks : reports[t] <= 2

\* ... or all the browsers, each with one connection that is all they know, with one task.
OneTask ==
    /\ \A c \in Clients : connects[c] <= 1 /\ NeverPolls(c)
    /\ \E t \in Tasks : \A u \in Tasks \ {t} : status[u] = "none"

Scope == OneBrowser \/ OneTask
=============================================================================
