--------------------------- MODULE ExecutorProofs ---------------------------
(***************************************************************************)
(* Theorems about AgentExecutor, for any requests, log lines, activities   *)
(* and buffer size: log lines are framed, in order and accounted for, the  *)
(* terminal status is last, and the record is complete.                    *)
(***************************************************************************)
EXTENDS AgentExecutor, SequenceLemmas

\* The cursors are numbers, and a run that may save files has received a message.
ExecTyped ==
    /\ ExecTypeOK
    /\ drained \in [Requests -> Nat]
    /\ forwarded \in [Requests -> Nat]
    /\ consumed \in [Requests -> Nat]
    /\ \A r \in Requests : pc[r] = "running" => received \in Requests

\* Before the run nothing is emitted or logged, after it no batch is on its way, and the
\* last drain takes all that is left.
Staged(r) ==
    /\ pc[r] \in {"new", "starting"} => events[r] = <<>> /\ logged[r] = 0
    /\ ~Looping(r) => sending[r] = <<>>
    /\ pc[r] \in {"sending", "done"} => drained[r] = logged[r]

\* A terminal status ends the request, and only log chunks carry lines.
Closed(r) ==
    /\ \A i \in DOMAIN events[r] :
           /\ events[r][i].kind \in Terminal => pc[r] = "done" /\ i = Len(events[r])
           /\ events[r][i].kind # "logs" => events[r][i].lines = <<>>
    /\ pc[r] = "done" => events[r] # <<>> /\ events[r][Len(events[r])].kind \in Terminal

\* sent_any_logs says whether the artifact is open, and the chunk of the shutdown closes it.
Framed(r) ==
    /\ \A i \in LogChunks(r) : events[r][i].append <=> \E j \in LogChunks(r) : j < i
    /\ \A i \in LogChunks(r) : events[r][i].last =>
           pc[r] \in {"sending", "done"} /\ \A j \in LogChunks(r) : j <= i
    /\ pc[r] \notin {"sending", "done"} => (sentAny[r] <=> LogChunks(r) # {})
    /\ pc[r] \in {"sending", "done"} /\ LogChunks(r) # {} =>
           \E i \in LogChunks(r) : events[r][i].last

Increasing(ls) == \A m, n \in DOMAIN ls : m < n => ls[m] < ls[n]
Below(ls, k)   == \A m \in DOMAIN ls : ls[m] <= k

\* What is sent comes before the batch on its way, and this before what is still to drain.
Ordered(r) ==
    /\ Increasing(LogLines(events[r])) /\ Below(LogLines(events[r]), drained[r])
    /\ Increasing(sending[r]) /\ Below(sending[r], drained[r])
    /\ \A m \in DOMAIN LogLines(events[r]), n \in DOMAIN sending[r] :
           LogLines(events[r])[m] < sending[r][n]

\* A line that was drained is sent, on its way or lost, and no lost line is one of the others.
Accounted(r) ==
    /\ lost[r] \subseteq 1..drained[r]
    /\ ToSet(LogLines(events[r])) \cap lost[r] = {}
    /\ ToSet(sending[r]) \cap lost[r] = {}
    /\ 1..drained[r] \subseteq ToSet(LogLines(events[r])) \cup ToSet(sending[r]) \cup lost[r]

\* The record holds the lines of what was read.
Kept(r) == record[r] = LogLines(SubSeq(events[r], 1, consumed[r]))

Local(r) ==
    Staged(r) /\ Closed(r) /\ Framed(r) /\ Ordered(r) /\ Accounted(r) /\ Kept(r)

ExecInv == ExecTyped /\ \A r \in Requests : Local(r)

-----------------------------------------------------------------------------
(* The lines of a stream.                                                  *)

LEMMA LinesOf ==
    ASSUME NEW es \in Seq(Event)
    PROVE  [i \in DOMAIN es |-> es[i].lines] \in Seq(Seq(Line))
<1>1. PICK n \in Nat : n = Len(es) /\ DOMAIN es = 1..n
  OBVIOUS
<1>2. \A i \in 1..n : es[i].lines \in Seq(Line)
  <2>1. TAKE i \in 1..n
  <2>2. es[i] \in Event
    BY <1>1
  <2>3. QED
    BY <2>2 DEF Event
<1>3. [i \in 1..n |-> es[i].lines] \in [1..n -> Seq(Line)]
  BY <1>2
<1>4. [i \in 1..n |-> es[i].lines] \in Seq(Seq(Line))
  BY <1>3
<1>5. QED
  BY <1>1, <1>4

LEMMA LinesTyped ==
    ASSUME NEW es \in Seq(Event)
    PROVE  LogLines(es) \in Seq(Line)
BY LinesOf, FlattenType, Zenon DEF LogLines

\* Each event adds its lines.
LEMMA LinesAppend ==
    ASSUME NEW es \in Seq(Event), NEW e \in Event
    PROVE  LogLines(Append(es, e)) = LogLines(es) \o e.lines
<1>1. PICK ss \in Seq(Seq(Line)) : ss = [i \in DOMAIN es |-> es[i].lines]
  BY LinesOf, Zenon
<1>2. e.lines \in Seq(Line)
  BY DEF Event
<1>3. [i \in DOMAIN Append(es, e) |-> Append(es, e)[i].lines] = Append(ss, e.lines)
  BY <1>1
<1>4. QED
  BY <1>1, <1>2, <1>3, FlattenAppend DEF LogLines

LEMMA LinesNone == LogLines(<<>>) = <<>>
<1>1. [i \in DOMAIN <<>> |-> <<>>[i].lines] = <<>>
  OBVIOUS
<1>2. QED
  BY <1>1, FlattenEmpty DEF LogLines

\* Events without lines add none.
LEMMA LinesQuiet ==
    ASSUME NEW es \in Seq(Event), NEW qs \in Seq(Event),
           \A j \in DOMAIN qs : qs[j].lines = <<>>
    PROVE  LogLines(es \o qs) = LogLines(es)
<1>1. PICK T \in SUBSET Nat :
          \A n \in Nat : n \in T <=>
              (n <= Len(qs) => LogLines(es \o SubSeq(qs, 1, n)) = LogLines(es))
  <2>1. WITNESS {n \in Nat :
                 n <= Len(qs) => LogLines(es \o SubSeq(qs, 1, n)) = LogLines(es)} \in SUBSET Nat
  <2>2. QED
    BY <2>1
<1>2. 0 \in T
  <2>1. es \o SubSeq(qs, 1, 0) = es
    BY SubSeqEmpty, ConcatEmptySeq
  <2>2. QED
    BY <1>1, <2>1
<1>3. ASSUME NEW n \in T
      PROVE  n + 1 \in T
  <2>1. CASE n + 1 <= Len(qs)
    <3>1. /\ SubSeq(qs, 1, n) \in Seq(Event) /\ qs[n + 1] \in Event
          /\ <<qs[n + 1]>> \in Seq(Event) /\ n + 1 \in 1..Len(qs) /\ (n + 1) - 1 = n
      BY <2>1, LenProperties, ElementOfSeq
    <3>2. SubSeq(qs, 1, n + 1) = SubSeq(qs, 1, n) \o <<qs[n + 1]>>
      <4>1. 1 \in 1..Len(qs) /\ n + 1 \in 1..Len(qs)
        BY <3>1
      <4>2. SubSeq(qs, 1, n + 1) = SubSeq(qs, 1, (n + 1) - 1) \o <<qs[n + 1]>>
        BY <4>1, SubSeqRecursiveSecond
      <4>3. QED
        BY <3>1, <4>2
    <3>3. PICK fs \in Seq(Event) : fs = es \o SubSeq(qs, 1, n)
      BY <3>1, ConcatProperties
    <3>4. es \o SubSeq(qs, 1, n + 1) = Append(fs, qs[n + 1])
      BY <3>1, <3>2, <3>3, ConcatAssociative, AppendIsConcat
    <3>5. qs[n + 1].lines = <<>>
      BY <3>1, LenProperties
    <3>6. LogLines(Append(fs, qs[n + 1])) = LogLines(fs)
      <4>1. LogLines(Append(fs, qs[n + 1])) = LogLines(fs) \o qs[n + 1].lines
        BY <3>1, LinesAppend
      <4>2. LogLines(fs) \o <<>> = LogLines(fs)
        BY LinesTyped, ConcatEmptySeq
      <4>3. QED
        BY <3>5, <4>1, <4>2
    <3>7. LogLines(fs) = LogLines(es)
      BY <1>1, <2>1, <3>3
    <3>8. QED
      <4>1. LogLines(es \o SubSeq(qs, 1, n + 1)) = LogLines(es)
        BY <3>4, <3>6, <3>7
      <4>2. n + 1 \in Nat
        BY <3>1
      <4>3. QED
        BY <1>1, <4>1, <4>2
  <2>2. CASE ~ n + 1 <= Len(qs)
    BY <1>1, <2>2
  <2>3. QED
    BY <2>1, <2>2
<1>4. T = Nat
  BY <1>2, <1>3, Induct
<1>5. Len(qs) \in Nat /\ SubSeq(qs, 1, Len(qs)) = qs
  BY SubSeqFull, LenProperties
<1>6. LogLines(es \o SubSeq(qs, 1, Len(qs))) = LogLines(es)
  <2>1. Len(qs) \in T /\ Len(qs) <= Len(qs)
    BY <1>4, <1>5
  <2>2. QED
    BY <1>1, <1>5, <2>1
<1>7. QED
  BY <1>5, <1>6

-----------------------------------------------------------------------------
(* What a step emits, and what it leaves alone.                            *)

LEMMA Emission ==
    ASSUME ExecTyped, NEW r \in Requests, NEW es \in Seq(Event), Emit(r, es)
    PROVE  /\ events' \in [Requests -> Seq(Event)]
           /\ events'[r] = events[r] \o es
           /\ \A q \in Requests : q # r => events'[q] = events[q]
           /\ Len(events'[r]) = Len(events[r]) + Len(es)
           /\ \A i \in DOMAIN events[r] :
                  i \in DOMAIN events'[r] /\ events'[r][i] = events[r][i]
           /\ \A j \in DOMAIN es :
                  /\ Len(events[r]) + j \in DOMAIN events'[r]
                  /\ events'[r][Len(events[r]) + j] = es[j]
           /\ \A i \in DOMAIN events'[r] :
                  i \in DOMAIN events[r] \/ i - Len(events[r]) \in DOMAIN es
           /\ SubSeq(events'[r], 1, consumed[r]) = SubSeq(events[r], 1, consumed[r])
<1>1. events \in [Requests -> Seq(Event)] /\ consumed[r] \in 0..Len(events[r])
  BY DEF ExecTyped, ExecTypeOK
<1>2. PICK old \in Seq(Event) : old = events[r]
  BY <1>1
<1>3. PICK new \in Seq(Event) : new = old \o es
  BY ConcatProperties
<1>4. events' = [events EXCEPT ![r] = new]
  BY <1>2, <1>3 DEF Emit
<1>5. /\ Len(new) = Len(old) + Len(es)
      /\ \A i \in DOMAIN old : i \in DOMAIN new /\ new[i] = old[i]
      /\ \A j \in DOMAIN es : Len(old) + j \in DOMAIN new /\ new[Len(old) + j] = es[j]
      /\ \A i \in DOMAIN new : i \in DOMAIN old \/ i - Len(old) \in DOMAIN es
  BY <1>3
<1>6. PICK n \in 0..Len(old) : n = consumed[r]
  BY <1>1, <1>2
<1>7. SubSeq(new, 1, n) = SubSeq(old, 1, n)
  BY <1>5
<1>8. events'[r] = new /\ events' \in [Requests -> Seq(Event)]
      /\ \A q \in Requests : q # r => events'[q] = events[q]
  BY <1>1, <1>4
<1>9. QED
  BY <1>2, <1>3, <1>5, <1>6, <1>7, <1>8

\* The part of the state that a request has to itself.
Same(q) ==
    /\ pc'[q] = pc[q] /\ logged'[q] = logged[q] /\ drained'[q] = drained[q]
    /\ sending'[q] = sending[q] /\ sentAny'[q] = sentAny[q] /\ lost'[q] = lost[q]
    /\ events'[q] = events[q] /\ consumed'[q] = consumed[q] /\ record'[q] = record[q]

LEMMA SameLocal ==
    ASSUME NEW q \in Requests, Local(q), Same(q)
    PROVE  Local(q)'
<1>1. Staged(q)' /\ Closed(q)'
  BY DEF Local, Same, Staged, Closed, Looping
<1>2. Framed(q)'
  <2>1. LogChunks(q)' = LogChunks(q)
    BY DEF Same, LogChunks
  <2>2. QED
    BY <2>1 DEF Local, Same, Framed
<1>3. Ordered(q)' /\ Accounted(q)' /\ Kept(q)'
  BY DEF Local, Same, Ordered, Accounted, Kept
<1>4. QED
  BY <1>1, <1>2, <1>3 DEF Local

-----------------------------------------------------------------------------
(* Draining the buffer.                                                    *)

\* drain() returns the lines after the cursor that the buffer still holds, in order.
LEMMA DrainedLines ==
    ASSUME ExecTyped, NEW r \in Requests
    PROVE  /\ Oldest(r) \in drained[r]..logged[r]
           /\ drained[r] < logged[r] => Oldest(r) < logged[r]
           /\ Drained(r) \in Seq(Line)
           /\ DOMAIN Drained(r) = 1..(logged[r] - Oldest(r))
           /\ \A i \in DOMAIN Drained(r) : Drained(r)[i] = Oldest(r) + i
           /\ ToSet(Drained(r)) = (Oldest(r) + 1)..logged[r]
           /\ Drained(r) = <<>> <=> Oldest(r) = logged[r]
<1>1. drained[r] \in Nat /\ logged[r] \in 0..MaxLines /\ drained[r] \in 0..logged[r]
  BY DEF ExecTyped, ExecTypeOK
<1>2. BufferSize \in Nat \ {0} /\ MaxLines \in Nat
  BY ExecutorAssumption
<1>3. /\ Oldest(r) \in drained[r]..logged[r]
      /\ drained[r] < logged[r] => Oldest(r) < logged[r]
  BY <1>1, <1>2 DEF Oldest
<1>4. PICK o \in Nat : o = Oldest(r) /\ o <= logged[r]
  BY <1>1, <1>3
<1>5. PICK n \in Nat : n = logged[r] - o
  BY <1>1, <1>4
<1>6. Drained(r) = [i \in 1..n |-> o + i]
  BY <1>4, <1>5 DEF Drained
<1>7. \A i \in 1..n : o + i \in Line
  BY <1>1, <1>2, <1>4, <1>5 DEF Line
<1>8. [i \in 1..n |-> o + i] \in Seq(Line)
  <2>1. [i \in 1..n |-> o + i] \in [1..n -> Line]
    BY <1>7
  <2>2. QED
    BY <2>1
<1>9. DOMAIN Drained(r) = 1..n /\ \A i \in 1..n : Drained(r)[i] = o + i
  BY <1>6
<1>10. ToSet(Drained(r)) = (o + 1)..logged[r]
  <2>1. ASSUME NEW k \in (o + 1)..logged[r]
        PROVE  k \in ToSet(Drained(r))
    <3>1. k - o \in 1..n /\ o + (k - o) = k
      BY <1>1, <1>4, <1>5
    <3>2. Drained(r)[k - o] = k
      BY <1>9, <3>1
    <3>3. QED
      BY <1>9, <3>1, <3>2 DEF ToSet
  <2>2. ASSUME NEW i \in 1..n
        PROVE  Drained(r)[i] \in (o + 1)..logged[r]
    BY <1>1, <1>4, <1>5, <1>9
  <2>3. QED
    BY <1>9, <2>1, <2>2 DEF ToSet
<1>11. Drained(r) = <<>> <=> n = 0
  <2>1. Drained(r) = <<>> => n = 0
    BY <1>9
  <2>2. n = 0 => Drained(r) = <<>>
    <3>1. Drained(r) \in Seq(Line)
      BY <1>6, <1>8
    <3>2. QED
      BY <1>9, <3>1
  <2>3. QED
    BY <2>1, <2>2
<1>12. QED
  BY <1>1, <1>3, <1>4, <1>5, <1>6, <1>8, <1>9, <1>10, <1>11

\* What a drain takes, and what it finds overwritten, continues what was drained before.
LEMMA DrainContinues ==
    ASSUME ExecTyped, NEW r \in Requests, Ordered(r), Accounted(r), sending[r] = <<>>
    PROVE  /\ Increasing(Drained(r)) /\ Below(Drained(r), logged[r])
           /\ Below(LogLines(events[r]), logged[r])
           /\ \A m \in DOMAIN LogLines(events[r]), n \in DOMAIN Drained(r) :
                  LogLines(events[r])[m] < Drained(r)[n]
           /\ lost[r] \cup Overflow(r) \subseteq 1..logged[r]
           /\ ToSet(LogLines(events[r])) \cap (lost[r] \cup Overflow(r)) = {}
           /\ ToSet(Drained(r)) \cap (lost[r] \cup Overflow(r)) = {}
           /\ 1..logged[r] \subseteq
                  ToSet(LogLines(events[r])) \cup ToSet(Drained(r)) \cup lost[r] \cup Overflow(r)
<1>1. PICK ls \in Seq(Line) : ls = LogLines(events[r])
  BY LinesTyped DEF ExecTyped, ExecTypeOK
<1>2. drained[r] \in Nat /\ logged[r] \in 0..MaxLines /\ drained[r] <= logged[r]
  BY DEF ExecTyped, ExecTypeOK
<1>3. \A m \in DOMAIN ls : ls[m] \in Int /\ ls[m] <= drained[r]
  <2>1. \A m \in DOMAIN ls : ls[m] <= drained[r]
    BY <1>1 DEF Ordered, Below
  <2>2. \A m \in DOMAIN ls : ls[m] \in Line
    BY <1>1
  <2>3. QED
    BY <2>1, <2>2, ExecutorAssumption DEF Line
<1>4. PICK o \in Nat : o = Oldest(r) /\ drained[r] <= o /\ o <= logged[r]
  BY <1>2, DrainedLines
<1>5. /\ \A i \in DOMAIN Drained(r) : i \in 1..(logged[r] - o) /\ Drained(r)[i] = o + i
      /\ ToSet(Drained(r)) = (o + 1)..logged[r]
  BY <1>4, DrainedLines
<1>6. Overflow(r) = (drained[r] + 1)..o
  BY <1>4 DEF Overflow
<1>7. \A k \in ToSet(ls) : k <= drained[r] /\ k \in Int
  BY <1>3 DEF ToSet
<1>8. /\ lost[r] \subseteq 1..drained[r] /\ ToSet(ls) \cap lost[r] = {}
      /\ 1..drained[r] \subseteq ToSet(ls) \cup lost[r]
  BY <1>1 DEF Accounted, ToSet
<1>9. Increasing(Drained(r)) /\ Below(Drained(r), logged[r])
  BY <1>2, <1>4, <1>5 DEF Increasing, Below
<1>10. Below(ls, logged[r])
  BY <1>2, <1>3 DEF Below
<1>11. \A m \in DOMAIN ls, n \in DOMAIN Drained(r) : ls[m] < Drained(r)[n]
  BY <1>2, <1>3, <1>4, <1>5
<1>12. lost[r] \cup Overflow(r) \subseteq 1..logged[r]
  BY <1>2, <1>4, <1>6, <1>8
<1>13. ToSet(ls) \cap (lost[r] \cup Overflow(r)) = {}
  BY <1>2, <1>6, <1>7, <1>8
<1>14. ToSet(Drained(r)) \cap (lost[r] \cup Overflow(r)) = {}
  BY <1>2, <1>4, <1>5, <1>6, <1>8
<1>15. 1..logged[r] \subseteq ToSet(ls) \cup ToSet(Drained(r)) \cup lost[r] \cup Overflow(r)
  <2>1. ASSUME NEW k \in 1..logged[r]
        PROVE  k \in ToSet(ls) \cup ToSet(Drained(r)) \cup lost[r] \cup Overflow(r)
    <3>1. k \in 1..drained[r] \/ k \in (drained[r] + 1)..o \/ k \in (o + 1)..logged[r]
      BY <1>2, <1>4
    <3>2. QED
      BY <1>5, <1>6, <1>8, <3>1
  <2>2. QED
    BY <2>1
<1>16. QED
  BY <1>1, <1>9, <1>10, <1>11, <1>12, <1>13, <1>14, <1>15

-----------------------------------------------------------------------------
(* The streams after a step.                                               *)

Final == {"sending", "done"}

\* Events other than log chunks leave what concerns lines as it is.
LEMMA QuietEmission ==
    ASSUME ExecTyped, NEW r \in Requests, Local(r), NEW es \in Seq(Event), Emit(r, es),
           \A j \in DOMAIN es : es[j].kind # "logs" /\ es[j].lines = <<>>,
           UNCHANGED <<logVars, streamVars>>,
           \/ pc'[r] \in Final <=> pc[r] \in Final
           \/ LogChunks(r) = {} /\ pc'[r] \in Final
    PROVE  /\ Framed(r)' /\ Ordered(r)' /\ Accounted(r)' /\ Kept(r)'
           /\ \A i \in DOMAIN events'[r] :
                  events'[r][i].kind # "logs" => events'[r][i].lines = <<>>
<1>1. events[r] \in Seq(Event)
  BY DEF ExecTyped, ExecTypeOK
<1>2. LogLines(events'[r]) = LogLines(events[r])
  <2>1. events'[r] = events[r] \o es
    BY Emission
  <2>2. LogLines(events[r] \o es) = LogLines(events[r])
    BY <1>1, LinesQuiet
  <2>3. QED
    BY <2>1, <2>2
<1>3. LogChunks(r)' = LogChunks(r)
  <2>1. ASSUME NEW i \in LogChunks(r)
        PROVE  i \in LogChunks(r)'
    BY <2>1, Emission DEF LogChunks
  <2>2. ASSUME NEW i \in LogChunks(r)'
        PROVE  i \in LogChunks(r)
    <3>1. i \in DOMAIN events'[r] /\ events'[r][i].kind = "logs"
      BY DEF LogChunks
    <3>2. CASE i - Len(events[r]) \in DOMAIN es
      <4>1. i = Len(events[r]) + (i - Len(events[r]))
        BY <1>1, <3>1, Emission
      <4>2. events'[r][i] = es[i - Len(events[r])]
        BY <3>2, <4>1, Emission
      <4>3. QED
        BY <3>1, <3>2, <4>2
    <3>3. CASE i \in DOMAIN events[r]
      BY <3>1, <3>3, Emission DEF LogChunks
    <3>4. QED
      BY <3>1, <3>2, <3>3, Emission
  <2>3. QED
    BY <2>1, <2>2
<1>4. \A i \in LogChunks(r) : events'[r][i] = events[r][i]
  BY Emission DEF LogChunks
<1>5. sentAny' = sentAny /\ drained' = drained /\ sending' = sending /\ lost' = lost
      /\ logged' = logged /\ record' = record /\ consumed' = consumed
  BY DEF logVars, streamVars
<1>6. Framed(r)'
  BY <1>3, <1>4, <1>5 DEF Local, Framed, Final
<1>7. Ordered(r)' /\ Accounted(r)'
  BY <1>2, <1>5 DEF Local, Ordered, Accounted
<1>8. Kept(r)'
  BY <1>5, Emission DEF Local, Kept
<1>9. ASSUME NEW i \in DOMAIN events'[r], events'[r][i].kind # "logs"
      PROVE  events'[r][i].lines = <<>>
  <2>1. CASE i - Len(events[r]) \in DOMAIN es
    <3>1. i = Len(events[r]) + (i - Len(events[r]))
      BY <1>1, Emission
    <3>2. events'[r][i] = es[i - Len(events[r])]
      BY <2>1, <3>1, Emission
    <3>3. QED
      BY <2>1, <3>2
  <2>2. CASE i \in DOMAIN events[r]
    BY <1>9, <2>2, Emission DEF Local, Closed
  <2>3. QED
    BY <2>1, <2>2, Emission
<1>10. QED
  BY <1>6, <1>7, <1>8, <1>9

\* A log chunk comes after the others and appends if there are any.
LEMMA ChunkEmission ==
    ASSUME ExecTyped, NEW r \in Requests, Local(r), pc[r] \notin Final,
           NEW ls \in Seq(Line), NEW last \in BOOLEAN,
           Emit(r, <<Chunk(ls, sentAny[r], last)>>)
    PROVE  /\ Chunk(ls, sentAny[r], last) \in Event
           /\ LogLines(events'[r]) = LogLines(events[r]) \o ls
           /\ LogChunks(r)' = LogChunks(r) \cup {Len(events[r]) + 1}
           /\ \A i \in LogChunks(r)' : events'[r][i].append <=> \E j \in LogChunks(r)' : j < i
           /\ \A i \in LogChunks(r)' :
                  /\ events'[r][i].last <=> last /\ i = Len(events[r]) + 1
                  /\ i <= Len(events[r]) + 1
           /\ \A i \in DOMAIN events'[r] :
                  /\ events'[r][i].kind \notin Terminal
                  /\ events'[r][i].kind # "logs" => events'[r][i].lines = <<>>
           /\ SubSeq(events'[r], 1, consumed[r]) = SubSeq(events[r], 1, consumed[r])
           /\ events' \in [Requests -> Seq(Event)]
<1>1. events[r] \in Seq(Event) /\ sentAny[r] \in BOOLEAN /\ Len(events[r]) \in Nat
  BY DEF ExecTyped, ExecTypeOK
<1>2. PICK e \in Event : /\ e = Chunk(ls, sentAny[r], last)
                         /\ e.kind = "logs" /\ e.lines = ls
                         /\ e.append = sentAny[r] /\ e.last = last
  BY <1>1 DEF Chunk, Event, Kind
<1>3. <<e>> \in Seq(Event) /\ Len(<<e>>) = 1 /\ <<e>>[1] = e /\ DOMAIN <<e>> = {1}
  OBVIOUS
<1>4. /\ events' \in [Requests -> Seq(Event)]
      /\ events'[r] = Append(events[r], e)
      /\ \A i \in DOMAIN events[r] : i \in DOMAIN events'[r] /\ events'[r][i] = events[r][i]
      /\ Len(events[r]) + 1 \in DOMAIN events'[r] /\ events'[r][Len(events[r]) + 1] = e
      /\ \A i \in DOMAIN events'[r] : i \in DOMAIN events[r] \/ i = Len(events[r]) + 1
      /\ SubSeq(events'[r], 1, consumed[r]) = SubSeq(events[r], 1, consumed[r])
  <2>1. Emit(r, <<e>>)
    BY <1>2
  <2>2. events'[r] = Append(events[r], e)
    <3>1. events'[r] = events[r] \o <<e>>
      BY <1>3, <2>1, Emission
    <3>2. events[r] \o <<e>> = Append(events[r], e)
      BY <1>1, AppendIsConcat
    <3>3. QED
      BY <3>1, <3>2
  <2>3. \A i \in DOMAIN events'[r] : i \in DOMAIN events[r] \/ i = Len(events[r]) + 1
    BY <1>1, <2>2
  <2>4. /\ events' \in [Requests -> Seq(Event)]
        /\ \A i \in DOMAIN events[r] : i \in DOMAIN events'[r] /\ events'[r][i] = events[r][i]
        /\ SubSeq(events'[r], 1, consumed[r]) = SubSeq(events[r], 1, consumed[r])
    BY <1>3, <2>1, Emission
  <2>5. Len(events[r]) + 1 \in DOMAIN events'[r] /\ events'[r][Len(events[r]) + 1] = e
    BY <1>1, <2>2
  <2>6. QED
    BY <2>2, <2>3, <2>4, <2>5
<1>5. LogLines(events'[r]) = LogLines(events[r]) \o ls
  BY <1>1, <1>2, <1>4, LinesAppend
<1>6. LogChunks(r)' = LogChunks(r) \cup {Len(events[r]) + 1}
  BY <1>2, <1>4 DEF LogChunks
<1>7. /\ \A i \in LogChunks(r) : i \in 1..Len(events[r]) /\ events'[r][i] = events[r][i]
      /\ sentAny[r] <=> LogChunks(r) # {}
      /\ \A i \in LogChunks(r) : ~events[r][i].last
      /\ \A i \in LogChunks(r) : events[r][i].append <=> \E j \in LogChunks(r) : j < i
  <2>1. \A i \in LogChunks(r) : i \in 1..Len(events[r]) /\ events'[r][i] = events[r][i]
    BY <1>1, <1>4 DEF LogChunks
  <2>2. QED
    BY <2>1 DEF Local, Framed, Final
<1>8. ASSUME NEW i \in LogChunks(r)'
      PROVE  events'[r][i].append <=> \E j \in LogChunks(r)' : j < i
  <2>1. CASE i = Len(events[r]) + 1
    <3>1. events'[r][i].append <=> LogChunks(r) # {}
      BY <1>2, <1>4, <1>7, <2>1
    <3>2. \A j \in LogChunks(r) : j < i
      BY <1>1, <1>7, <2>1
    <3>3. (\E j \in LogChunks(r)' : j < i) <=> LogChunks(r) # {}
      <4>1. ASSUME NEW j \in LogChunks(r)', j < i
            PROVE  j \in LogChunks(r)
        BY <1>1, <1>6, <2>1, <4>1
      <4>2. \A j \in LogChunks(r) : j \in LogChunks(r)'
        BY <1>6
      <4>3. QED
        BY <3>2, <4>1, <4>2
    <3>4. QED
      BY <3>1, <3>3
  <2>2. CASE i \in LogChunks(r)
    <3>1. ~ Len(events[r]) + 1 < i
      BY <1>1, <1>7, <2>2
    <3>2. QED
      BY <1>6, <1>7, <2>2, <3>1
  <2>3. QED
    BY <1>6, <2>1, <2>2
<1>9. ASSUME NEW i \in LogChunks(r)'
      PROVE  /\ events'[r][i].last <=> last /\ i = Len(events[r]) + 1
             /\ i <= Len(events[r]) + 1
  <2>1. CASE i = Len(events[r]) + 1
    BY <1>1, <1>2, <1>4, <2>1
  <2>2. CASE i \in LogChunks(r)
    <3>1. i <= Len(events[r]) /\ i # Len(events[r]) + 1
      BY <1>1, <1>7, <2>2
    <3>2. QED
      BY <1>1, <1>7, <2>2, <3>1
  <2>3. QED
    BY <1>6, <2>1, <2>2
<1>10. ASSUME NEW i \in DOMAIN events'[r]
       PROVE  /\ events'[r][i].kind \notin Terminal
              /\ events'[r][i].kind # "logs" => events'[r][i].lines = <<>>
  <2>1. CASE i = Len(events[r]) + 1
    BY <1>2, <1>4, <2>1 DEF Terminal
  <2>2. CASE i \in DOMAIN events[r]
    BY <1>4, <2>2 DEF Local, Closed, Final
  <2>3. QED
    BY <1>4, <2>1, <2>2
<1>11. QED
  BY <1>2, <1>4, <1>5, <1>6, <1>8, <1>9, <1>10

-----------------------------------------------------------------------------
(* What each step does to its request.                                     *)

\* Steps that only move the request on, before its last drain.
LEMMA LocalMoves ==
    ASSUME NEW r \in Requests, Local(r), UNCHANGED <<logVars, events, streamVars>>,
           pc[r] \notin Final, pc'[r] \notin Final,
           pc'[r] \in {"new", "starting"} => pc[r] \in {"new", "starting"},
           Looping(r) => Looping(r)'
    PROVE  Local(r)'
<1>1. sentAny' = sentAny /\ drained' = drained /\ sending' = sending /\ lost' = lost
      /\ logged' = logged /\ record' = record /\ consumed' = consumed /\ events' = events
  BY DEF logVars, streamVars
<1>2. Staged(r)' /\ Closed(r)'
  BY <1>1 DEF Local, Staged, Closed, Final
<1>3. Framed(r)'
  <2>1. LogChunks(r)' = LogChunks(r)
    BY <1>1 DEF LogChunks
  <2>2. QED
    BY <1>1, <2>1 DEF Local, Framed, Final
<1>4. Ordered(r)' /\ Accounted(r)' /\ Kept(r)'
  BY <1>1 DEF Local, Ordered, Accounted, Kept
<1>5. QED
  BY <1>2, <1>3, <1>4 DEF Local

LEMMA LocalRun ==
    ASSUME ExecTyped, NEW r \in Requests, Local(r), Begin(r) \/ Run(r) \/ Cancel(r)
    PROVE  Local(r)'
<1>1. pc \in [Requests -> Phase]
  BY DEF ExecTyped, ExecTypeOK
<1>2. CASE Begin(r)
  <2>1. pc[r] = "new" /\ pc'[r] = "starting" /\ UNCHANGED <<logVars, events, streamVars>>
    BY <1>1, <1>2 DEF Begin, Goto
  <2>2. QED
    BY <2>1, LocalMoves DEF Looping, Final
<1>3. CASE RunStarts(r)
  <2>1. pc[r] = "scheduled" /\ pc'[r] = "running" /\ UNCHANGED <<logVars, events, streamVars>>
    BY <1>1, <1>3 DEF RunStarts, Goto
  <2>2. QED
    BY <2>1, LocalMoves DEF Looping, Final
<1>4. CASE EndRun(r)
  <2>1. /\ pc[r] \in {"scheduled", "running"} /\ pc'[r] = "ended"
        /\ UNCHANGED <<logVars, events, streamVars>>
    BY <1>1, <1>4 DEF EndRun, RunSucceeds, RunFails, RunCrashes, RunCancelled, RunEnds, Goto
  <2>2. QED
    BY <2>1, LocalMoves DEF Looping, Final
<1>5. CASE LogLine(r)
  <2>1. /\ UNCHANGED <<pc, drained, sending, sentAny, lost, events, consumed, record>>
        /\ pc[r] = "running"
    BY <1>5 DEF LogLine, runVars, streamVars
  <2>2. Staged(r)' /\ Closed(r)'
    BY <2>1 DEF Local, Staged, Closed, Looping
  <2>3. Framed(r)'
    <3>1. LogChunks(r)' = LogChunks(r)
      BY <2>1 DEF LogChunks
    <3>2. QED
      BY <2>1, <3>1 DEF Local, Framed
  <2>4. Ordered(r)' /\ Accounted(r)' /\ Kept(r)'
    BY <2>1 DEF Local, Ordered, Accounted, Kept
  <2>5. QED
    BY <2>2, <2>3, <2>4 DEF Local
<1>6. CASE Report(r) \/ SaveArtifacts(r) \/ Cancel(r)
  <2>1. Same(r)
    BY <1>6 DEF Report, SaveArtifacts, Cancel, Same, runVars, logVars, streamVars
  <2>2. QED
    BY <2>1, SameLocal
<1>7. QED
  BY <1>2, <1>3, <1>4, <1>5, <1>6 DEF Run

\* The flush loop drains a batch.
LEMMA LocalFlushStart ==
    ASSUME ExecTyped, NEW r \in Requests, Local(r), FlushStart(r)
    PROVE  Local(r)'
<1>1. /\ drained \in [Requests -> Nat] /\ lost \in [Requests -> SUBSET Line]
      /\ sending \in [Requests -> Seq(Line)]
  BY DEF ExecTyped, ExecTypeOK
<1>2. /\ UNCHANGED <<pc, logged, sentAny, events, consumed, record>>
      /\ drained'[r] = logged[r] /\ sending'[r] = Drained(r)
      /\ lost'[r] = lost[r] \cup Overflow(r)
      /\ sending[r] = <<>> /\ Looping(r)
  BY <1>1 DEF FlushStart, Drain, runVars, streamVars
<1>3. Staged(r)' /\ Closed(r)'
  BY <1>2 DEF Local, Staged, Closed, Looping
<1>4. Framed(r)'
  <2>1. LogChunks(r)' = LogChunks(r)
    BY <1>2 DEF LogChunks
  <2>2. QED
    BY <1>2, <2>1 DEF Local, Framed
<1>5. Kept(r)'
  BY <1>2 DEF Local, Kept
<1>6. Ordered(r)' /\ Accounted(r)'
  BY <1>2, DrainContinues DEF Local, Ordered, Accounted
<1>7. QED
  BY <1>3, <1>4, <1>5, <1>6 DEF Local

\* Lines that come after those of a stream keep the order when they are sent.
LEMMA LinesJoin ==
    ASSUME NEW ls \in Seq(Line), NEW ms \in Seq(Line), NEW k \in Nat,
           Increasing(ls), Increasing(ms), Below(ls, k), Below(ms, k),
           \A m \in DOMAIN ls, n \in DOMAIN ms : ls[m] < ms[n]
    PROVE  /\ Increasing(ls \o ms) /\ Below(ls \o ms, k)
           /\ ToSet(ls \o ms) = ToSet(ls) \cup ToSet(ms)
<1> PICK js \in Seq(Line) : js = ls \o ms
  BY ConcatProperties
<1>1. /\ js = ls \o ms /\ Len(js) = Len(ls) + Len(ms)
      /\ \A i \in DOMAIN js : js[i] = IF i <= Len(ls) THEN ls[i] ELSE ms[i - Len(ls)]
  OBVIOUS
<1>2. \A i \in DOMAIN js :
          IF i <= Len(ls) THEN i \in DOMAIN ls ELSE i - Len(ls) \in DOMAIN ms
  BY <1>1
<1>3. Increasing(js)
  <2>1. SUFFICES ASSUME NEW m \in DOMAIN js, NEW n \in DOMAIN js, m < n
                 PROVE  js[m] < js[n]
    BY DEF Increasing
  <2>2. CASE n <= Len(ls)
    <3>1. m <= Len(ls)
      BY <2>1, <2>2
    <3>2. QED
      BY <1>1, <1>2, <2>1, <2>2, <3>1 DEF Increasing
  <2>3. CASE m <= Len(ls) /\ ~ n <= Len(ls)
    BY <1>1, <1>2, <2>3
  <2>4. CASE ~ m <= Len(ls) /\ ~ n <= Len(ls)
    <3>1. m - Len(ls) < n - Len(ls)
      BY <2>1
    <3>2. QED
      BY <1>1, <1>2, <2>4, <3>1 DEF Increasing
  <2>5. QED
    BY <2>1, <2>2, <2>3, <2>4
<1>4. Below(js, k)
  BY <1>1, <1>2 DEF Below
<1>5. ToSet(js) = ToSet(ls) \cup ToSet(ms)
  <2>1. ToSet(js) \subseteq ToSet(ls) \cup ToSet(ms)
    BY <1>1, <1>2 DEF ToSet
  <2>2. ASSUME NEW i \in DOMAIN ls
        PROVE  ls[i] \in ToSet(js)
    <3>1. i \in DOMAIN js /\ i <= Len(ls)
      BY <1>1
    <3>2. QED
      BY <1>1, <3>1 DEF ToSet
  <2>3. ASSUME NEW i \in DOMAIN ms
        PROVE  ms[i] \in ToSet(js)
    <3>1. Len(ls) + i \in DOMAIN js /\ ~ Len(ls) + i <= Len(ls) /\ (Len(ls) + i) - Len(ls) = i
      BY <1>1
    <3>2. js[Len(ls) + i] = ms[i]
      BY <1>1, <3>1
    <3>3. QED
      BY <3>1, <3>2 DEF ToSet
  <2>4. QED
    BY <2>1, <2>2, <2>3 DEF ToSet
<1>6. QED
  BY <1>1, <1>3, <1>4, <1>5

\* The batch of the flush loop is sent.
LEMMA LocalFlushEnd ==
    ASSUME ExecTyped, NEW r \in Requests, Local(r), FlushEnd(r)
    PROVE  Local(r)'
<1>1. /\ sentAny \in [Requests -> BOOLEAN] /\ sending \in [Requests -> Seq(Line)]
      /\ sending[r] \in Seq(Line) /\ drained[r] \in Nat /\ events[r] \in Seq(Event)
  BY DEF ExecTyped, ExecTypeOK
<1>2. /\ UNCHANGED <<pc, logged, drained, lost, consumed, record>>
      /\ sentAny'[r] = TRUE /\ sending'[r] = <<>> /\ Looping(r)
      /\ Emit(r, <<Chunk(sending[r], sentAny[r], FALSE)>>)
  BY <1>1 DEF FlushEnd, runVars, streamVars
<1>3. pc[r] \notin Final /\ pc[r] \notin {"new", "starting", "done"}
  BY <1>2 DEF Looping, Final
<1>4. /\ LogLines(events'[r]) = LogLines(events[r]) \o sending[r]
      /\ LogChunks(r)' = LogChunks(r) \cup {Len(events[r]) + 1}
      /\ \A i \in LogChunks(r)' : events'[r][i].append <=> \E j \in LogChunks(r)' : j < i
      /\ \A i \in LogChunks(r)' : ~events'[r][i].last
      /\ \A i \in DOMAIN events'[r] :
             /\ events'[r][i].kind \notin Terminal
             /\ events'[r][i].kind # "logs" => events'[r][i].lines = <<>>
      /\ SubSeq(events'[r], 1, consumed[r]) = SubSeq(events[r], 1, consumed[r])
  BY <1>1, <1>2, <1>3, ChunkEmission
<1>5. Staged(r)' /\ Closed(r)'
  <2>1. pc'[r] = pc[r] /\ pc'[r] \notin {"new", "starting", "sending", "done"}
    BY <1>2, <1>3 DEF Final
  <2>2. Staged(r)'
    BY <1>2, <2>1 DEF Staged
  <2>3. Closed(r)'
    BY <1>4, <2>1 DEF Closed
  <2>4. QED
    BY <2>2, <2>3
<1>6. Framed(r)'
  BY <1>2, <1>3, <1>4 DEF Framed, Final
<1>7. PICK ls \in Seq(Line) : ls = LogLines(events[r])
  BY <1>1, LinesTyped
<1>8. /\ Increasing(ls \o sending[r]) /\ Below(ls \o sending[r], drained[r])
      /\ ToSet(ls \o sending[r]) = ToSet(ls) \cup ToSet(sending[r])
  BY <1>1, <1>7, LinesJoin DEF Local, Ordered
<1>9. Ordered(r)'
  <2>1. /\ LogLines(events'[r]) = ls \o sending[r] /\ sending'[r] = <<>>
        /\ drained'[r] = drained[r] /\ DOMAIN <<>> = {}
    BY <1>2, <1>4, <1>7
  <2>2. Increasing(<<>>) /\ Below(<<>>, drained[r])
    BY <2>1 DEF Increasing, Below
  <2>3. QED
    BY <1>8, <2>1, <2>2 DEF Ordered
<1>10. Accounted(r)'
  <2>1. ToSet(<<>>) = {}
    BY DEF ToSet
  <2>2. /\ lost[r] \subseteq 1..drained[r]
        /\ ToSet(ls) \cap lost[r] = {} /\ ToSet(sending[r]) \cap lost[r] = {}
        /\ 1..drained[r] \subseteq ToSet(ls) \cup ToSet(sending[r]) \cup lost[r]
    BY <1>7 DEF Local, Accounted
  <2>3. /\ LogLines(events'[r]) = ls \o sending[r] /\ sending'[r] = <<>>
        /\ lost'[r] = lost[r] /\ drained'[r] = drained[r]
    BY <1>2, <1>4, <1>7
  <2>4. QED
    BY <1>8, <2>1, <2>2, <2>3 DEF Accounted
<1>11. Kept(r)'
  BY <1>2, <1>4 DEF Local, Kept
<1>12. QED
  BY <1>5, <1>6, <1>9, <1>10, <1>11 DEF Local

\* The shutdown sends what is left, or nothing if nothing was ever sent.
LEMMA LocalFinalChunk ==
    ASSUME ExecTyped, NEW r \in Requests, Local(r), FinalChunk(r)
    PROVE  Local(r)'
<1>1. /\ pc \in [Requests -> Phase] /\ drained \in [Requests -> Nat]
      /\ lost \in [Requests -> SUBSET Line] /\ sentAny[r] \in BOOLEAN
      /\ logged[r] \in Nat /\ events[r] \in Seq(Event)
  <2>1. /\ pc \in [Requests -> Phase] /\ drained \in [Requests -> Nat]
        /\ lost \in [Requests -> SUBSET Line] /\ sentAny \in [Requests -> BOOLEAN]
        /\ logged \in [Requests -> 0..MaxLines] /\ events \in [Requests -> Seq(Event)]
    BY DEF ExecTyped, ExecTypeOK
  <2>2. logged[r] \in Nat
    BY <2>1, ExecutorAssumption
  <2>3. QED
    BY <2>1, <2>2
<1>2. /\ pc[r] = "stopping" /\ pc'[r] = "sending"
      /\ UNCHANGED <<logged, sending, sentAny, consumed, record>>
      /\ drained'[r] = logged[r] /\ lost'[r] = lost[r] \cup Overflow(r)
      /\ IF Drained(r) # <<>> \/ sentAny[r]
         THEN Emit(r, <<Chunk(Drained(r), sentAny[r], TRUE)>>)
         ELSE UNCHANGED events
  BY <1>1 DEF FinalChunk, Goto, Drain, streamVars
<1>3. sending[r] = <<>> /\ sending'[r] = <<>> /\ ToSet(<<>>) = {}
  BY <1>2 DEF Local, Staged, Looping, ToSet
<1>4. PICK ls \in Seq(Line) : ls = LogLines(events[r])
  BY <1>1, LinesTyped
<1>5. PICK ms \in Seq(Line) : ms = Drained(r)
  BY DrainedLines
<1>6. /\ Increasing(ls) /\ Increasing(ms) /\ Below(ls, logged[r]) /\ Below(ms, logged[r])
      /\ \A m \in DOMAIN ls, n \in DOMAIN ms : ls[m] < ms[n]
      /\ lost'[r] \subseteq 1..logged[r]
      /\ ToSet(ls) \cap lost'[r] = {} /\ ToSet(ms) \cap lost'[r] = {}
      /\ 1..logged[r] \subseteq ToSet(ls) \cup ToSet(ms) \cup lost'[r]
  BY <1>2, <1>3, <1>4, <1>5, DrainContinues DEF Local, Ordered
<1>7. CASE Drained(r) # <<>> \/ sentAny[r]
  <2>1. Emit(r, <<Chunk(ms, sentAny[r], TRUE)>>) /\ pc[r] \notin Final
    BY <1>2, <1>5, <1>7 DEF Final
  <2>2. /\ LogLines(events'[r]) = ls \o ms
        /\ LogChunks(r)' = LogChunks(r) \cup {Len(events[r]) + 1}
        /\ \A i \in LogChunks(r)' : events'[r][i].append <=> \E j \in LogChunks(r)' : j < i
        /\ \A i \in LogChunks(r)' :
               /\ events'[r][i].last <=> i = Len(events[r]) + 1
               /\ i <= Len(events[r]) + 1
        /\ \A i \in DOMAIN events'[r] :
               /\ events'[r][i].kind \notin Terminal
               /\ events'[r][i].kind # "logs" => events'[r][i].lines = <<>>
        /\ SubSeq(events'[r], 1, consumed[r]) = SubSeq(events[r], 1, consumed[r])
    BY <1>4, <2>1, ChunkEmission
  <2>3. Staged(r)' /\ Closed(r)'
    BY <1>2, <1>3, <2>2 DEF Staged, Closed, Looping
  <2>4. Framed(r)'
    <3>1. Len(events[r]) + 1 \in LogChunks(r)' /\ events'[r][Len(events[r]) + 1].last
      BY <2>2
    <3>2. \A i, j \in LogChunks(r)' : events'[r][i].last => j <= i
      BY <2>2
    <3>3. \A i \in LogChunks(r)' : events'[r][i].append <=> \E j \in LogChunks(r)' : j < i
      BY <2>2
    <3>4. pc'[r] \in {"sending", "done"}
      BY <1>2
    <3>5. QED
      BY <3>1, <3>2, <3>3, <3>4, Zenon DEF Framed
  <2>5. /\ Increasing(ls \o ms) /\ Below(ls \o ms, logged[r])
        /\ ToSet(ls \o ms) = ToSet(ls) \cup ToSet(ms)
    BY <1>1, <1>6, LinesJoin
  <2>6. Ordered(r)'
    BY <1>2, <1>3, <2>2, <2>5 DEF Ordered, Increasing, Below
  <2>7. Accounted(r)'
    BY <1>2, <1>3, <1>6, <2>2, <2>5 DEF Accounted
  <2>8. Kept(r)'
    BY <1>2, <2>2 DEF Local, Kept
  <2>9. QED
    BY <2>3, <2>4, <2>6, <2>7, <2>8 DEF Local
<1>8. CASE Drained(r) = <<>> /\ ~sentAny[r]
  <2>1. events' = events /\ LogChunks(r) = {} /\ LogChunks(r)' = {}
    BY <1>2, <1>8 DEF Local, Framed, LogChunks
  <2>2. Staged(r)' /\ Closed(r)'
    BY <1>2, <1>3, <2>1 DEF Local, Staged, Closed, Looping
  <2>3. Framed(r)'
    BY <1>2, <2>1 DEF Framed
  <2>4. Ordered(r)'
    BY <1>2, <1>3, <1>4, <1>6, <2>1 DEF Ordered, Increasing, Below
  <2>5. Accounted(r)'
    BY <1>2, <1>3, <1>4, <1>5, <1>6, <1>8, <2>1 DEF Accounted
  <2>6. Kept(r)'
    BY <1>2, <2>1 DEF Local, Kept
  <2>7. QED
    BY <2>2, <2>3, <2>4, <2>5, <2>6 DEF Local
<1>9. QED
  BY <1>7, <1>8

\* The loops are stopped: a batch on its way is lost.
LEMMA LocalResume ==
    ASSUME ExecTyped, NEW r \in Requests, Local(r), Resume(r)
    PROVE  Local(r)'
<1>1. /\ pc \in [Requests -> Phase] /\ lost \in [Requests -> SUBSET Line]
      /\ sending \in [Requests -> Seq(Line)] /\ sending[r] \in Seq(Line)
      /\ drained[r] \in Nat
  BY DEF ExecTyped, ExecTypeOK
<1>2. /\ pc[r] = "ended" /\ pc'[r] = "stopping"
      /\ UNCHANGED <<logged, drained, sentAny, events, consumed, record>>
      /\ lost'[r] = lost[r] \cup ToSet(sending[r]) /\ sending'[r] = <<>>
  BY <1>1 DEF Resume, Goto, streamVars
<1>3. Staged(r)' /\ Closed(r)'
  BY <1>2 DEF Local, Staged, Closed
<1>4. Framed(r)'
  <2>1. LogChunks(r)' = LogChunks(r)
    BY <1>2 DEF LogChunks
  <2>2. QED
    BY <1>2, <2>1 DEF Local, Framed
<1>5. Ordered(r)'
  <2>1. DOMAIN <<>> = {}
    OBVIOUS
  <2>2. Increasing(<<>>) /\ Below(<<>>, drained[r])
    BY <2>1 DEF Increasing, Below
  <2>3. QED
    BY <1>2, <2>1, <2>2 DEF Local, Ordered
<1>6. Accounted(r)'
  <2>1. PICK S : S = ToSet(LogLines(events[r]))
    OBVIOUS
  <2>2. PICK B : B = ToSet(sending[r])
    OBVIOUS
  <2>3. /\ lost[r] \subseteq 1..drained[r] /\ S \cap lost[r] = {} /\ B \cap lost[r] = {}
        /\ 1..drained[r] \subseteq S \cup B \cup lost[r]
    BY <2>1, <2>2 DEF Local, Accounted
  <2>4. B \subseteq 1..drained[r]
    <3>1. ASSUME NEW m \in DOMAIN sending[r]
          PROVE  sending[r][m] \in 1..drained[r]
      <4>1. sending[r][m] \in Line /\ sending[r][m] <= drained[r]
        BY <1>1 DEF Local, Ordered, Below
      <4>2. sending[r][m] \in Nat \ {0}
        BY <4>1, ExecutorAssumption DEF Line
      <4>3. QED
        BY <1>1, <4>1, <4>2
    <3>2. QED
      BY <2>2, <3>1 DEF ToSet
  <2>5. S \cap B = {}
    <3>1. PICK ls \in Seq(Line) : ls = LogLines(events[r])
      BY LinesTyped DEF ExecTyped, ExecTypeOK
    <3>2. ASSUME NEW m \in DOMAIN ls, NEW n \in DOMAIN sending[r]
          PROVE  ls[m] # sending[r][n]
      <4>1. ls[m] < sending[r][n]
        BY <3>1 DEF Local, Ordered
      <4>2. ls[m] \in Line /\ sending[r][n] \in Line
        BY <1>1
      <4>3. ls[m] \in Int /\ sending[r][n] \in Int
        BY <4>2, ExecutorAssumption DEF Line
      <4>4. QED
        BY <4>1, <4>3
    <3>3. QED
      BY <2>1, <2>2, <3>1, <3>2 DEF ToSet
  <2>6. ToSet(<<>>) = {}
    BY DEF ToSet
  <2>7. QED
    BY <1>2, <2>1, <2>2, <2>3, <2>4, <2>5, <2>6 DEF Accounted
<1>7. Kept(r)'
  BY <1>2 DEF Local, Kept
<1>8. QED
  BY <1>3, <1>4, <1>5, <1>6, <1>7 DEF Local

LEMMA PlainEvent ==
    ASSUME NEW k \in Kind
    PROVE  Plain(k) \in Event /\ Plain(k).kind = k /\ Plain(k).lines = <<>>
BY DEF Plain, Event

LEMMA ShortConcats ==
    ASSUME NEW a \in Event, NEW b \in Event, NEW c \in Event
    PROVE  /\ <<a>> \o <<>> \o <<c>> = <<a, c>>
           /\ <<a>> \o <<b>> \o <<c>> = <<a, b, c>>
<1>1. /\ <<a>> \in Seq(Event) /\ <<b>> \in Seq(Event) /\ <<c>> \in Seq(Event)
      /\ <<a, b>> \in Seq(Event) /\ <<a, c>> \in Seq(Event) /\ <<a, b, c>> \in Seq(Event)
  OBVIOUS
<1>2. ASSUME NEW x \in Event
      PROVE  <<a>> \o <<x>> = <<a, x>>
  <2>1. <<x>> \in Seq(Event) /\ <<a, x>> \in Seq(Event) /\ <<a>> \o <<x>> \in Seq(Event)
    <3>1. <<x>> \in Seq(Event) /\ <<a, x>> \in Seq(Event)
      OBVIOUS
    <3>2. QED
      BY <1>1, <3>1, ConcatProperties
  <2>2. PICK xs \in Seq(Event) : xs = <<a>> \o <<x>>
    BY <2>1, Zenon
  <2>3. PICK ys \in Seq(Event) : ys = <<a, x>>
    BY <2>1, Zenon
  <2>4. Len(xs) = Len(ys) /\ \A i \in 1..Len(xs) : xs[i] = ys[i]
    BY <2>2, <2>3
  <2>5. QED
    BY <2>2, <2>3, <2>4, SeqEqual
<1>3. <<a, b>> \o <<c>> = <<a, b, c>>
  <2>1. PICK xs \in Seq(Event) : xs = <<a, b>> \o <<c>>
    BY <1>1, ConcatProperties
  <2>2. PICK ys \in Seq(Event) : ys = <<a, b, c>>
    BY <1>1, Zenon
  <2>3. Len(xs) = Len(ys) /\ \A i \in 1..Len(xs) : xs[i] = ys[i]
    BY <2>1, <2>2
  <2>4. QED
    BY <2>1, <2>2, <2>3, SeqEqual
<1>4. <<a>> \o <<>> = <<a>>
  BY <1>1, ConcatEmptySeq
<1>5. QED
  BY <1>2, <1>3, <1>4, Zenon

\* What a request ends with: one terminal status, and that last.
LEMMA ClosingEvents ==
    ASSUME ExecTyped, NEW r \in Requests
    PROVE  /\ Closing(r) \in Seq(Event) /\ Closing(r) # <<>>
           /\ \A j \in DOMAIN Closing(r) :
                  /\ Closing(r)[j].kind # "logs" /\ Closing(r)[j].lines = <<>>
                  /\ Closing(r)[j].kind \in Terminal <=> j = Len(Closing(r))
<1>1. captured[r] \in Requests \cup {None}
  BY DEF ExecTyped, ExecTypeOK
<1>2. /\ "result" \in Kind \ Terminal /\ "usage" \in Kind \ Terminal
      /\ {"completed", "failed", "canceled"} \subseteq Kind \cap Terminal
      /\ "result" # "logs" /\ "usage" # "logs" /\ "completed" # "logs"
      /\ "failed" # "logs" /\ "canceled" # "logs"
  BY DEF Kind, Terminal
<1>3. PICK result \in Event :
          result = Plain("result") /\ result.kind = "result" /\ result.lines = <<>>
  BY <1>2, PlainEvent
<1>4. ASSUME NEW k \in {"completed", "failed", "canceled"}
      PROVE  Plain(k) \in Event /\ Plain(k).kind = k /\ Plain(k).lines = <<>>
  BY <1>2, PlainEvent
<1>5. ASSUME NEW k \in {"completed", "failed", "canceled"}, Closing(r) = <<Plain(k)>>
      PROVE  /\ Closing(r) \in Seq(Event) /\ Closing(r) # <<>>
             /\ \A j \in DOMAIN Closing(r) :
                    /\ Closing(r)[j].kind # "logs" /\ Closing(r)[j].lines = <<>>
                    /\ Closing(r)[j].kind \in Terminal <=> j = Len(Closing(r))
  BY <1>2, <1>4, <1>5
<1>6. ASSUME NEW k \in {"completed", "failed", "canceled"}, Closing(r) = <<result, Plain(k)>>
      PROVE  /\ Closing(r) \in Seq(Event) /\ Closing(r) # <<>>
             /\ \A j \in DOMAIN Closing(r) :
                    /\ Closing(r)[j].kind # "logs" /\ Closing(r)[j].lines = <<>>
                    /\ Closing(r)[j].kind \in Terminal <=> j = Len(Closing(r))
  BY <1>2, <1>3, <1>4, <1>6
<1>7. CASE outcome[r] = "ok" /\ captured[r] = None
  <2>1. Closing(r) = <<result>> \o <<>> \o <<Plain("completed")>>
    BY <1>3, <1>7 DEF Closing, UsageOf
  <2>2. Closing(r) = <<result, Plain("completed")>>
    BY <1>3, <1>4, <2>1, ShortConcats
  <2>3. QED
    BY <1>6, <2>2
<1>8. CASE outcome[r] = "ok" /\ captured[r] # None
  <2>1. PICK usage \in Event :
            usage = Usage(captured[r]) /\ usage.kind = "usage" /\ usage.lines = <<>>
    <3>1. PICK e \in Event : e = Plain("usage") /\ e.kind = "usage" /\ e.lines = <<>>
      BY <1>2, PlainEvent
    <3>2. [e EXCEPT !.of = captured[r]] \in Event
      BY <1>1, <3>1 DEF Event
    <3>3. /\ [e EXCEPT !.of = captured[r]].kind = "usage"
          /\ [e EXCEPT !.of = captured[r]].lines = <<>>
      BY <3>1 DEF Event
    <3>4. Usage(captured[r]) = [e EXCEPT !.of = captured[r]]
      BY <3>1 DEF Usage
    <3>5. QED
      BY <3>2, <3>3, <3>4
  <2>2. Closing(r) = <<result>> \o <<usage>> \o <<Plain("completed")>>
    BY <1>3, <1>8, <2>1 DEF Closing, UsageOf
  <2>3. Closing(r) = <<result, usage, Plain("completed")>>
    BY <1>3, <1>4, <2>1, <2>2, ShortConcats
  <2>4. QED
    BY <1>2, <1>3, <1>4, <2>1, <2>3
<1>9. CASE outcome[r] = "error"
  BY <1>3, <1>6, <1>9 DEF Closing
<1>10. CASE outcome[r] = "crash"
  BY <1>5, <1>10 DEF Closing
<1>11. CASE outcome[r] \notin {"ok", "error", "crash"}
  BY <1>5, <1>11 DEF Closing
<1>12. QED
  BY <1>7, <1>8, <1>9, <1>10, <1>11

\* The task and WORKING, an activity, the artifacts and the terminal status.
LEMMA LocalEmits ==
    ASSUME ExecTyped, NEW r \in Requests, Local(r),
           StartRun(r) \/ Reject(r) \/ ForwardActivity(r) \/ Close(r)
    PROVE  Local(r)'
<1>1. pc \in [Requests -> Phase] /\ events[r] \in Seq(Event) /\ Len(events[r]) \in Nat
  <2>1. pc \in [Requests -> Phase] /\ events[r] \in Seq(Event)
    BY DEF ExecTyped, ExecTypeOK
  <2>2. QED
    BY <2>1, LenProperties
<1>2. UNCHANGED <<logVars, streamVars>>
  BY DEF StartRun, Reject, ForwardActivity, Close
<1>3. /\ drained' = drained /\ sending' = sending /\ logged' = logged
  BY <1>2 DEF logVars
<1>4. /\ {"task", "working", "failed"} \subseteq Kind
      /\ "failed" \in Terminal /\ {"task", "working"} \cap Terminal = {}
  BY DEF Kind, Terminal
<1>5. /\ Plain("task") \in Event /\ Plain("task").kind = "task" /\ Plain("task").lines = <<>>
      /\ Plain("working") \in Event /\ Plain("working").kind = "working"
      /\ Plain("working").lines = <<>>
      /\ Plain("failed") \in Event /\ Plain("failed").kind = "failed"
      /\ Plain("failed").lines = <<>>
  BY <1>4, PlainEvent
<1>6. \A i \in DOMAIN events[r] : events[r][i].kind \in Terminal => pc[r] = "done"
  BY DEF Local, Closed
<1>7. CASE StartRun(r) \/ ForwardActivity(r)
  <2>1. PICK es \in Seq(Event) :
            /\ Emit(r, es)
            /\ \A j \in DOMAIN es : /\ es[j].kind # "logs" /\ es[j].lines = <<>>
                                    /\ es[j].kind \notin Terminal
    <3>1. CASE StartRun(r)
      <4>1. Emit(r, <<Plain("task"), Plain("working")>>)
        BY <3>1 DEF StartRun
      <4>2. PICK es \in Seq(Event) : es = <<Plain("task"), Plain("working")>>
        <5>1. <<Plain("task"), Plain("working")>> \in Seq(Event)
          BY <1>5
        <5>2. QED
          BY <5>1, Zenon
      <4>3. \A j \in DOMAIN es : /\ es[j].kind # "logs" /\ es[j].lines = <<>>
                                    /\ es[j].kind \notin Terminal
        BY <1>4, <1>5, <4>2
      <4>4. QED
        BY <4>1, <4>2, <4>3
    <3>2. CASE ForwardActivity(r)
      <4>1. Emit(r, <<Plain("working")>>)
        BY <3>2 DEF ForwardActivity
      <4>2. PICK es \in Seq(Event) : es = <<Plain("working")>>
        <5>1. <<Plain("working")>> \in Seq(Event)
          BY <1>5
        <5>2. QED
          BY <5>1, Zenon
      <4>3. \A j \in DOMAIN es : /\ es[j].kind # "logs" /\ es[j].lines = <<>>
                                    /\ es[j].kind \notin Terminal
        BY <1>4, <1>5, <4>2
      <4>4. QED
        BY <4>1, <4>2, <4>3
    <3>3. QED
      BY <1>7, <3>1, <3>2
  <2>2. /\ pc'[r] \in {"scheduled", "running", "ended"}
        /\ pc[r] \in {"starting", "scheduled", "running", "ended"}
    BY <1>1, <1>7 DEF StartRun, ForwardActivity, Goto, Looping, runVars
  <2>3. pc[r] \notin Final /\ pc'[r] \notin Final /\ pc'[r] \notin {"new", "starting", "done"}
    BY <2>2 DEF Final
  <2>4. /\ Framed(r)' /\ Ordered(r)' /\ Accounted(r)' /\ Kept(r)'
        /\ \A i \in DOMAIN events'[r] :
               events'[r][i].kind # "logs" => events'[r][i].lines = <<>>
    BY <1>2, <2>1, <2>3, QuietEmission
  <2>5. Staged(r)'
    BY <2>2, <2>3 DEF Staged, Looping, Final
  <2>6. ASSUME NEW i \in DOMAIN events'[r]
        PROVE  events'[r][i].kind \notin Terminal
    <3>1. CASE i \in DOMAIN events[r]
      BY <1>6, <2>1, <2>3, <3>1, Emission DEF Final
    <3>2. CASE i - Len(events[r]) \in DOMAIN es
      <4>1. i = Len(events[r]) + (i - Len(events[r]))
        BY <1>1, <2>1, Emission
      <4>2. events'[r][i] = es[i - Len(events[r])]
        BY <2>1, <3>2, <4>1, Emission
      <4>3. QED
        BY <2>1, <3>2, <4>2
    <3>3. QED
      BY <2>1, <3>1, <3>2, Emission
  <2>7. Closed(r)'
    BY <2>3, <2>4, <2>6 DEF Closed
  <2>8. QED
    BY <2>4, <2>5, <2>7 DEF Local
<1>8. CASE Reject(r) \/ Close(r)
  <2>1. PICK es \in Seq(Event) :
            /\ Emit(r, es) /\ es # <<>>
            /\ \A j \in DOMAIN es : /\ es[j].kind # "logs" /\ es[j].lines = <<>>
                                    /\ es[j].kind \in Terminal <=> j = Len(es)
    <3>1. CASE Reject(r)
      <4>1. Emit(r, <<Plain("failed")>>)
        BY <3>1 DEF Reject
      <4>2. PICK es \in Seq(Event) : es = <<Plain("failed")>>
        <5>1. <<Plain("failed")>> \in Seq(Event)
          BY <1>5
        <5>2. QED
          BY <5>1, Zenon
      <4>3. \A j \in DOMAIN es : /\ es[j].kind # "logs" /\ es[j].lines = <<>>
                                 /\ es[j].kind \in Terminal <=> j = Len(es)
        BY <1>4, <1>5, <4>2
      <4>4. Emit(r, es) /\ es # <<>>
        BY <4>1, <4>2
      <4>5. QED
        BY <4>3, <4>4
    <3>2. CASE Close(r)
      <4>1. Emit(r, Closing(r))
        BY <3>2 DEF Close
      <4>2. QED
        BY <4>1, ClosingEvents
    <3>3. QED
      BY <1>8, <3>1, <3>2
  <2>2. pc'[r] = "done" /\ pc[r] \in {"starting", "sending"}
    BY <1>1, <1>8 DEF Reject, Close, Goto
  <2>3. pc[r] = "starting" => LogChunks(r) = {} /\ logged[r] = 0 /\ drained[r] = 0
    <3>1. pc[r] = "starting" => events[r] = <<>> /\ logged[r] = 0
      BY DEF Local, Staged
    <3>2. drained[r] \in 0..logged[r]
      BY DEF ExecTyped, ExecTypeOK
    <3>3. QED
      BY <3>1, <3>2 DEF LogChunks
  <2>4. /\ Framed(r)' /\ Ordered(r)' /\ Accounted(r)' /\ Kept(r)'
        /\ \A i \in DOMAIN events'[r] :
               events'[r][i].kind # "logs" => events'[r][i].lines = <<>>
    BY <1>2, <2>1, <2>2, <2>3, QuietEmission DEF Final
  <2>5. Staged(r)'
    <3>1. sending[r] = <<>>
      BY <2>2 DEF Local, Staged, Looping
    <3>2. drained[r] = logged[r]
      BY <2>2, <2>3 DEF Local, Staged
    <3>3. QED
      BY <1>3, <2>2, <3>1, <3>2 DEF Staged
  <2>6. /\ Len(es) \in Nat \ {0} /\ Len(events'[r]) = Len(events[r]) + Len(es)
        /\ Len(es) \in DOMAIN es
    BY <2>1, Emission
  <2>7. ASSUME NEW i \in DOMAIN events'[r], events'[r][i].kind \in Terminal
        PROVE  i = Len(events'[r])
    <3>1. CASE i \in DOMAIN events[r]
      BY <1>6, <2>1, <2>2, <2>7, <3>1, Emission
    <3>2. CASE i - Len(events[r]) \in DOMAIN es
      <4>1. i = Len(events[r]) + (i - Len(events[r])) /\ i \in Int
        BY <1>1, <2>1, Emission
      <4>2. events'[r][i] = es[i - Len(events[r])]
        BY <2>1, <3>2, <4>1, Emission
      <4>3. i - Len(events[r]) = Len(es)
        BY <2>1, <2>7, <3>2, <4>2
      <4>4. QED
        BY <1>1, <2>6, <4>1, <4>3
    <3>3. QED
      BY <2>1, <3>1, <3>2, Emission
  <2>8. events'[r] # <<>> /\ events'[r][Len(events'[r])].kind \in Terminal
    <3>1. /\ Len(events[r]) + Len(es) \in DOMAIN events'[r]
          /\ events'[r][Len(events[r]) + Len(es)] = es[Len(es)]
      BY <2>1, <2>6, Emission
    <3>2. QED
      BY <2>1, <2>6, <3>1
  <2>9. Closed(r)'
    BY <2>2, <2>4, <2>7, <2>8 DEF Closed
  <2>10. QED
    BY <2>4, <2>5, <2>9 DEF Local
<1>9. QED
  BY <1>7, <1>8

\* The orchestrator reads an event: collected or appended, the record gets its lines.
LEMMA LocalRead ==
    ASSUME ExecTyped, NEW r \in Requests, Local(r), Read(r)
    PROVE  /\ Local(r)'
           /\ record'[r] \in Seq(Line)
<1>1. /\ consumed \in [Requests -> Nat] /\ record \in [Requests -> Seq(Line)]
      /\ consumed[r] \in Nat /\ events[r] \in Seq(Event) /\ consumed[r] < Len(events[r])
  BY DEF ExecTyped, ExecTypeOK, Read
<1>2. PICK es \in Seq(Event) : es = SubSeq(events[r], 1, consumed[r])
  <2>1. SubSeq(events[r], 1, consumed[r]) \in Seq(Event)
    BY <1>1
  <2>2. QED
    BY <2>1, Zenon
<1>3. PICK e \in Event : e = events[r][consumed[r] + 1]
  BY <1>1
<1>4. SubSeq(events[r], 1, consumed[r] + 1) = Append(es, e)
  <2>1. /\ 1 \in 1..Len(events[r]) /\ consumed[r] + 1 \in 1..Len(events[r])
        /\ (consumed[r] + 1) - 1 = consumed[r]
    BY <1>1
  <2>2. SubSeq(events[r], 1, consumed[r] + 1)
          = SubSeq(events[r], 1, (consumed[r] + 1) - 1) \o <<events[r][consumed[r] + 1]>>
    BY <1>1, <2>1, SubSeqRecursiveSecond
  <2>3. QED
    BY <1>2, <1>3, <2>1, <2>2, AppendIsConcat
<1>5. LogLines(Append(es, e)) = LogLines(es) \o e.lines /\ LogLines(es) \in Seq(Line)
  BY LinesAppend, LinesTyped
<1>6. /\ record[r] = LogLines(es)
      /\ e.kind \in {"completed", "failed"} => e.lines = <<>>
  <2>1. e.kind # "logs" => e.lines = <<>>
    BY <1>1, <1>3 DEF Local, Closed
  <2>2. QED
    BY <1>2, <2>1 DEF Local, Kept
<1>7. /\ consumed' = [consumed EXCEPT ![r] = consumed[r] + 1]
      /\ record' = [record EXCEPT ![r] =
             IF e.kind \in {"completed", "failed"} /\ Collected(es) # <<>>
             THEN Collected(es) ELSE record[r] \o e.lines]
      /\ UNCHANGED <<pc, logged, drained, sending, sentAny, lost, events>>
  BY <1>2, <1>3 DEF Read, runVars, logVars
<1>8. record'[r] = LogLines(es) \o e.lines /\ consumed'[r] = consumed[r] + 1
  <2>1. CASE e.kind \in {"completed", "failed"} /\ Collected(es) # <<>>
    <3>1. Collected(es) = LogLines(es)
      BY <2>1 DEF Collected
    <3>2. LogLines(es) \o e.lines = LogLines(es)
      BY <1>5, <1>6, <2>1, ConcatEmptySeq
    <3>3. QED
      BY <1>1, <1>7, <2>1, <3>1, <3>2
  <2>2. CASE ~(e.kind \in {"completed", "failed"} /\ Collected(es) # <<>>)
    BY <1>1, <1>6, <1>7, <2>2
  <2>3. QED
    BY <2>1, <2>2
<1>9. Kept(r)'
  BY <1>4, <1>5, <1>7, <1>8 DEF Kept
<1>10. Staged(r)' /\ Closed(r)'
  BY <1>7 DEF Local, Staged, Closed, Looping
<1>11. Framed(r)'
  <2>1. LogChunks(r)' = LogChunks(r)
    BY <1>7 DEF LogChunks
  <2>2. QED
    BY <1>7, <2>1 DEF Local, Framed
<1>12. Ordered(r)' /\ Accounted(r)'
  BY <1>7 DEF Local, Ordered, Accounted
<1>13. record'[r] \in Seq(Line)
  <2>1. e.lines \in Seq(Line)
    BY DEF Event
  <2>2. QED
    BY <1>5, <1>8, <2>1, ConcatProperties
<1>14. QED
  BY <1>9, <1>10, <1>11, <1>12, <1>13 DEF Local

-----------------------------------------------------------------------------
(* Every step keeps the types, and the other requests as they are.         *)

LEMMA TypedEmission ==
    ASSUME ExecTyped, NEW r \in Requests, NEW es \in Seq(Event), Emit(r, es)
    PROVE  /\ events' \in [Requests -> Seq(Event)]
           /\ \A q \in Requests : consumed[q] \in 0..Len(events'[q])
<1>1. /\ events \in [Requests -> Seq(Event)] /\ Len(es) \in Nat
      /\ \A q \in Requests : consumed[q] \in 0..Len(events[q])
  BY LenProperties DEF ExecTyped, ExecTypeOK
<1>2. /\ events' \in [Requests -> Seq(Event)]
      /\ Len(events'[r]) = Len(events[r]) + Len(es)
      /\ \A q \in Requests : q # r => events'[q] = events[q]
  BY Emission
<1>3. ASSUME NEW q \in Requests
      PROVE  consumed[q] \in 0..Len(events'[q])
  <2>1. events[q] \in Seq(Event) /\ Len(events[q]) \in Nat
    BY <1>1, LenProperties
  <2>2. CASE q = r
    BY <1>1, <1>2, <2>1, <2>2
  <2>3. CASE q # r
    BY <1>1, <1>2, <2>3
  <2>4. QED
    BY <2>2, <2>3
<1>4. QED
  BY <1>2, <1>3

LEMMA TypedRun ==
    ASSUME ExecTyped, NEW r \in Requests, Begin(r) \/ Run(r) \/ Cancel(r)
    PROVE  ExecTyped'
<1> USE DEF ExecTyped, ExecTypeOK, Goto, Phase, runVars, sharedVars, logVars, streamVars,
            activities
<1>1. CASE Begin(r)
  BY <1>1 DEF Begin
<1>2. CASE RunStarts(r)
  BY <1>2 DEF RunStarts
<1>3. CASE LogLine(r)
  <2>1. PICK n \in 0..MaxLines : n = logged[r] + 1
    BY <1>3, ExecutorAssumption DEF LogLine
  <2>2. logged' = [logged EXCEPT ![r] = n]
    BY <1>3, <2>1 DEF LogLine
  <2>3. \A q \in Requests : drained[q] \in 0..logged'[q]
    BY <2>1, <2>2
  <2>4. logged' \in [Requests -> 0..MaxLines]
    BY <2>2
  <2>5. QED
    BY <1>3, <2>3, <2>4 DEF LogLine
<1>4. CASE Report(r)
  <2>1. PICK n \in 0..MaxReports : n = reported[r] + 1
    BY <1>4, ExecutorAssumption DEF Report
  <2>2. reported' = [reported EXCEPT ![r] = n]
    BY <1>4, <2>1 DEF Report
  <2>3. \A q \in Requests : forwarded[q] \in 0..reported'[q]
    BY <2>1, <2>2
  <2>4. reported' \in [Requests -> 0..MaxReports]
    BY <2>2
  <2>5. QED
    BY <1>4, <2>3, <2>4 DEF Report
<1>5. CASE SaveArtifacts(r)
  <2>1. received \in Requests
    BY <1>5 DEF SaveArtifacts
  <2>2. saved' \in [Requests -> SUBSET Requests]
    BY <1>5, <2>1 DEF SaveArtifacts
  <2>3. QED
    BY <1>5, <2>2 DEF SaveArtifacts
<1>6. CASE EndRun(r)
  <2>1. PICK how \in {"ok", "error", "crash", "cancelled"} :
            RunEnds(r, how) /\ latest' \in {latest, r}
    BY <1>6 DEF EndRun, RunSucceeds, RunFails, RunCrashes, RunCancelled
  <2>2. QED
    BY <2>1 DEF RunEnds
<1>7. CASE Cancel(r)
  BY <1>7 DEF Cancel
<1>8. QED
  BY <1>1, <1>2, <1>3, <1>4, <1>5, <1>6, <1>7 DEF Run

\* A cursor that is moved stays within what it counts.
LEMMA CursorMoved ==
    ASSUME NEW f \in [Requests -> Nat], NEW g, \A q \in Requests : f[q] \in 0..g[q],
           NEW r \in Requests, NEW n \in Nat, n \in 0..g[r]
    PROVE  /\ [f EXCEPT ![r] = n] \in [Requests -> Nat]
           /\ \A q \in Requests : [f EXCEPT ![r] = n][q] \in 0..g[q]
OBVIOUS

LEMMA OneEvent ==
    ASSUME NEW e \in Event
    PROVE  <<e>> \in Seq(Event)
OBVIOUS

LEMMA TypedDrain ==
    ASSUME ExecTyped, NEW r \in Requests, Drain(r)
    PROVE  /\ drained' \in [Requests -> Nat]
           /\ \A q \in Requests : drained'[q] \in 0..logged[q]
           /\ lost' \in [Requests -> SUBSET Line]
<1>1. /\ drained \in [Requests -> Nat] /\ \A q \in Requests : drained[q] \in 0..logged[q]
      /\ logged[r] \in 0..MaxLines /\ lost \in [Requests -> SUBSET Line]
  BY DEF ExecTyped, ExecTypeOK
<1>2. MaxLines \in Nat
  BY ExecutorAssumption
<1>3. Oldest(r) \in drained[r]..logged[r] /\ drained[r] \in Nat
  BY <1>1, DrainedLines
<1>4. Overflow(r) \in SUBSET Line
  BY <1>1, <1>2, <1>3 DEF Overflow, Line
<1>5. logged[r] \in Nat /\ logged[r] \in 0..logged[r]
  BY <1>1, <1>2
<1>6. drained' = [drained EXCEPT ![r] = logged[r]]
  BY DEF Drain
<1>7. /\ drained' \in [Requests -> Nat]
      /\ \A q \in Requests : drained'[q] \in 0..logged[q]
  BY <1>1, <1>5, <1>6, CursorMoved
<1>8. lost' \in [Requests -> SUBSET Line]
  BY <1>1, <1>4 DEF Drain
<1>9. QED
  BY <1>7, <1>8

LEMMA TypedStream ==
    ASSUME ExecTyped, NEW r \in Requests, Local(r), Execute(r) \/ Loops(r), ~Begin(r)
    PROVE  ExecTyped'
<1> USE DEF ExecTyped, ExecTypeOK, Goto, Phase, runVars, sharedVars, logVars, streamVars,
            activities
<1>1. CASE StartRun(r) \/ Reject(r) \/ Close(r)
  <2>1. PICK es \in Seq(Event) : Emit(r, es)
    <3>1. /\ <<Plain("task"), Plain("working")>> \in Seq(Event)
          /\ <<Plain("failed")>> \in Seq(Event)
      <4>1. {"task", "working", "failed"} \subseteq Kind
        BY DEF Kind
      <4>2. Plain("task") \in Event /\ Plain("working") \in Event /\ Plain("failed") \in Event
        BY <4>1, PlainEvent
      <4>3. QED
        BY <4>2
    <3>2. Closing(r) \in Seq(Event)
      BY ClosingEvents
    <3>3. QED
      BY <1>1, <3>1, <3>2, Zenon DEF StartRun, Reject, Close
  <2>2. /\ events' \in [Requests -> Seq(Event)]
        /\ \A q \in Requests : consumed[q] \in 0..Len(events'[q])
    BY <2>1, TypedEmission
  <2>3. PICK phase \in {"scheduled", "done"} : pc' = [pc EXCEPT ![r] = phase]
    BY <1>1 DEF StartRun, Reject, Close
  <2>4. /\ UNCHANGED <<outcome, cancelling, sharedVars, logVars, activities, streamVars>>
        /\ active' \in SUBSET Requests
    BY <1>1 DEF StartRun, Reject, Close
  <2>5. QED
    BY <2>2, <2>3, <2>4
<1>2. CASE ForwardActivity(r)
  <2>1. Plain("working") \in Event
    BY PlainEvent DEF Kind
  <2>2. <<Plain("working")>> \in Seq(Event)
    BY <2>1
  <2>3. /\ events' \in [Requests -> Seq(Event)]
        /\ \A q \in Requests : consumed[q] \in 0..Len(events'[q])
    BY <1>2, <2>2, TypedEmission DEF ForwardActivity
  <2>4. PICK n \in Nat : n = forwarded[r] + 1 /\ n \in 0..reported[r]
    BY <1>2, ExecutorAssumption DEF ForwardActivity
  <2>5. forwarded' = [forwarded EXCEPT ![r] = n]
    BY <1>2, <2>4 DEF ForwardActivity
  <2>6. forwarded' \in [Requests -> Nat] /\ \A q \in Requests : forwarded'[q] \in 0..reported[q]
    <3>1. forwarded \in [Requests -> Nat] /\ \A q \in Requests : forwarded[q] \in 0..reported[q]
      OBVIOUS
    <3>2. /\ [forwarded EXCEPT ![r] = n] \in [Requests -> Nat]
          /\ \A q \in Requests : [forwarded EXCEPT ![r] = n][q] \in 0..reported[q]
      BY ONLY <2>4, <3>1, r \in Requests, CursorMoved
    <3>3. QED
      BY ONLY <2>5, <3>2
  <2>7. UNCHANGED <<runVars, sharedVars, logVars, reported, streamVars>>
    BY <1>2 DEF ForwardActivity
  <2>8. QED
    BY <2>3, <2>6, <2>7
<1>3. CASE FlushStart(r)
  <2>1. Drain(r) /\ Drained(r) \in Seq(Line)
    BY <1>3, DrainedLines DEF FlushStart
  <2>3. /\ drained' \in [Requests -> Nat]
        /\ \A q \in Requests : drained'[q] \in 0..logged[q]
        /\ lost' \in [Requests -> SUBSET Line]
    BY <2>1, TypedDrain
  <2>4. sending' \in [Requests -> Seq(Line)]
    BY <1>3, <2>1 DEF FlushStart
  <2>5. UNCHANGED <<runVars, sharedVars, logged, sentAny, activities, events, streamVars>>
    BY <1>3 DEF FlushStart
  <2>6. QED
    BY <2>3, <2>4, <2>5
<1>4. CASE FlushEnd(r)
  <2>1. sending[r] \in Seq(Line) /\ pc[r] \notin Final
    BY <1>4 DEF FlushEnd, Looping, Final
  <2>2. Chunk(sending[r], sentAny[r], FALSE) \in Event
    BY <1>4, <2>1, ChunkEmission DEF FlushEnd
  <2>3. /\ events' \in [Requests -> Seq(Event)]
        /\ \A q \in Requests : consumed[q] \in 0..Len(events'[q])
    <3>1. <<Chunk(sending[r], sentAny[r], FALSE)>> \in Seq(Event)
      BY <2>2, OneEvent
    <3>2. QED
      BY <1>4, <3>1, TypedEmission DEF FlushEnd
  <2>4. /\ sentAny' \in [Requests -> BOOLEAN] /\ sending' \in [Requests -> Seq(Line)]
    <3>1. sentAny' = [sentAny EXCEPT ![r] = TRUE] /\ sending' = [sending EXCEPT ![r] = <<>>]
      BY <1>4 DEF FlushEnd
    <3>2. <<>> \in Seq(Line)
      BY EmptySeq
    <3>3. QED
      BY <3>1, <3>2
  <2>5. UNCHANGED <<runVars, sharedVars, logged, drained, lost, activities, streamVars>>
    BY <1>4 DEF FlushEnd
  <2>6. QED
    BY <2>3, <2>4, <2>5
<1>5. CASE Resume(r)
  <2>1. ToSet(sending[r]) \in SUBSET Line
    BY DEF ToSet
  <2>2. captured' \in [Requests -> Requests \cup {None}]
    BY <1>5 DEF Resume
  <2>3. /\ pc' = [pc EXCEPT ![r] = "stopping"] /\ active' \in SUBSET Requests
        /\ lost' \in [Requests -> SUBSET Line] /\ sending' \in [Requests -> Seq(Line)]
    <3>1. pc' = [pc EXCEPT ![r] = "stopping"] /\ active' \in SUBSET Requests
      BY <1>5 DEF Resume
    <3>2. lost' \in [Requests -> SUBSET Line]
      BY <1>5, <2>1 DEF Resume
    <3>3. <<>> \in Seq(Line)
      BY EmptySeq
    <3>4. sending' \in [Requests -> Seq(Line)]
      BY <1>5, <3>3 DEF Resume
    <3>5. QED
      BY <3>1, <3>2, <3>4
  <2>4. UNCHANGED <<outcome, cancelling, latest, received, saved, logged, drained,
                    sentAny, activities, events, streamVars>>
    BY <1>5 DEF Resume
  <2>5. QED
    BY <2>2, <2>3, <2>4
<1>6. CASE FinalChunk(r)
  <2>1. Drain(r) /\ Drained(r) \in Seq(Line)
    BY <1>6, DrainedLines DEF FinalChunk
  <2>2. /\ pc' = [pc EXCEPT ![r] = "sending"]
        /\ UNCHANGED <<outcome, active, cancelling, sharedVars, logged, sending,
                       sentAny, activities, streamVars>>
    BY <1>6 DEF FinalChunk
  <2>3. /\ drained' \in [Requests -> Nat]
        /\ \A q \in Requests : drained'[q] \in 0..logged[q]
        /\ lost' \in [Requests -> SUBSET Line]
    BY <2>1, TypedDrain
  <2>4. /\ events' \in [Requests -> Seq(Event)]
        /\ \A q \in Requests : consumed[q] \in 0..Len(events'[q])
    <3>1. CASE UNCHANGED events
      BY <3>1
    <3>2. CASE Emit(r, <<Chunk(Drained(r), sentAny[r], TRUE)>>)
      <4>1. pc[r] \notin Final
        BY <1>6 DEF FinalChunk, Final
      <4>2. Chunk(Drained(r), sentAny[r], TRUE) \in Event
        BY <2>1, <3>2, <4>1, ChunkEmission
      <4>3. <<Chunk(Drained(r), sentAny[r], TRUE)>> \in Seq(Event)
        BY <4>2, OneEvent
      <4>4. QED
        BY <3>2, <4>3, TypedEmission
    <3>3. QED
      BY <1>6, <3>1, <3>2 DEF FinalChunk
  <2>5. QED
    BY <2>2, <2>3, <2>4
<1>7. QED
  BY <1>1, <1>2, <1>3, <1>4, <1>5, <1>6 DEF Execute, Loops

LEMMA TypedRead ==
    ASSUME ExecTyped, NEW r \in Requests, Local(r), Read(r)
    PROVE  ExecTyped'
<1> USE DEF ExecTyped, ExecTypeOK
<1>1. PICK n \in Nat : n = consumed[r] + 1 /\ n \in 0..Len(events[r])
  BY LenProperties DEF Read
<1>2. consumed' = [consumed EXCEPT ![r] = n]
  BY <1>1 DEF Read
<1>3. /\ consumed' \in [Requests -> Nat]
      /\ \A q \in Requests : consumed'[q] \in 0..Len(events[q])
  <2>1. PICK count \in [Requests -> Nat] : count = [q \in Requests |-> Len(events[q])]
    BY LenProperties
  <2>2. (\A q \in Requests : consumed[q] \in 0..count[q]) /\ n \in 0..count[r]
    BY <1>1, <2>1
  <2>3. \A q \in Requests : consumed'[q] \in 0..count[q]
    BY <1>2, <2>2, CursorMoved
  <2>4. consumed' \in [Requests -> Nat]
    BY <1>2, <2>2, CursorMoved
  <2>5. QED
    BY <2>1, <2>3, <2>4
<1>4. record' \in [Requests -> Seq(Line)]
  <2>1. PICK x : record' = [record EXCEPT ![r] = x]
    BY DEF Read
  <2>2. x \in Seq(Line)
    BY <2>1, LocalRead
  <2>3. QED
    BY <2>1, <2>2
<1>5. UNCHANGED <<runVars, sharedVars, logVars, activities, events>>
  BY DEF Read
<1>6. QED
  BY <1>3, <1>4, <1>5 DEF runVars, sharedVars, logVars, activities

\* A step of one request does not touch what another has to itself.
LEMMA Others ==
    ASSUME ExecTyped, NEW r \in Requests,
           Execute(r) \/ Run(r) \/ Loops(r) \/ Cancel(r) \/ Read(r),
           NEW q \in Requests, q # r
    PROVE  Same(q)
<1>1. /\ pc \in [Requests -> Phase] /\ logged \in [Requests -> 0..MaxLines]
      /\ drained \in [Requests -> Nat] /\ sending \in [Requests -> Seq(Line)]
      /\ sentAny \in [Requests -> BOOLEAN] /\ lost \in [Requests -> SUBSET Line]
      /\ events \in [Requests -> Seq(Event)] /\ consumed \in [Requests -> Nat]
      /\ record \in [Requests -> Seq(Line)]
  BY DEF ExecTyped, ExecTypeOK
<1> USE <1>1 DEF Same, Goto, Emit, runVars, sharedVars, logVars, streamVars, activities
<1>2. CASE Begin(r)
  BY <1>2 DEF Begin
<1>3. CASE Reject(r)
  BY <1>3 DEF Reject
<1>4. CASE StartRun(r)
  BY <1>4 DEF StartRun
<1>5. CASE Run(r)
  <2>1. CASE RunStarts(r)
    BY <2>1 DEF RunStarts
  <2>2. CASE LogLine(r)
    BY <2>2 DEF LogLine
  <2>3. CASE Report(r)
    BY <2>3 DEF Report
  <2>4. CASE SaveArtifacts(r)
    BY <2>4 DEF SaveArtifacts
  <2>5. CASE EndRun(r)
    BY <2>5 DEF EndRun, RunSucceeds, RunFails, RunCrashes, RunCancelled, RunEnds
  <2>6. QED
    BY <1>5, <2>1, <2>2, <2>3, <2>4, <2>5 DEF Run
<1>6. CASE FlushStart(r)
  BY <1>6 DEF FlushStart, Drain
<1>7. CASE FlushEnd(r)
  BY <1>7 DEF FlushEnd
<1>8. CASE ForwardActivity(r)
  BY <1>8 DEF ForwardActivity
<1>9. CASE Resume(r)
  BY <1>9 DEF Resume
<1>10. CASE FinalChunk(r)
  BY <1>10 DEF FinalChunk, Drain
<1>11. CASE Close(r)
  BY <1>11 DEF Close
<1>12. CASE Cancel(r)
  BY <1>12 DEF Cancel
<1>13. CASE Read(r)
  BY <1>13 DEF Read
<1>14. QED
  BY <1>2, <1>3, <1>4, <1>5, <1>6, <1>7, <1>8, <1>9, <1>10, <1>11, <1>12, <1>13
     DEF Execute, Loops

-----------------------------------------------------------------------------
(* The invariant.                                                          *)

LEMMA ExecInit == Init => ExecInv
<1> SUFFICES ASSUME Init PROVE ExecInv
  OBVIOUS
<1>1. MaxLines \in Nat /\ MaxReports \in Nat
  BY ExecutorAssumption
<1>2. <<>> \in Seq(Line) /\ <<>> \in Seq(Event) /\ Len(<<>>) = 0
  BY EmptySeq
<1>3. ExecTyped
  <2>1. ExecTypeOK
    BY <1>1, <1>2 DEF Init, ExecTypeOK, Phase
  <2>2. /\ drained \in [Requests -> Nat] /\ forwarded \in [Requests -> Nat]
        /\ consumed \in [Requests -> Nat]
    BY DEF Init
  <2>3. \A r \in Requests : pc[r] # "running"
    BY DEF Init
  <2>4. QED
    BY <2>1, <2>2, <2>3 DEF ExecTyped
<1>4. ASSUME NEW r \in Requests
      PROVE  Local(r)
  <2>1. /\ pc[r] = "new" /\ logged[r] = 0 /\ drained[r] = 0 /\ sending[r] = <<>>
        /\ sentAny[r] = FALSE /\ lost[r] = {} /\ events[r] = <<>> /\ consumed[r] = 0
        /\ record[r] = <<>>
    BY DEF Init
  <2>2. LogLines(events[r]) = <<>> /\ DOMAIN <<>> = {} /\ ToSet(<<>>) = {}
    BY <2>1, LinesNone DEF ToSet
  <2>3. LogChunks(r) = {}
    BY <2>1, <2>2 DEF LogChunks
  <2>4. Staged(r) /\ Closed(r)
    BY <2>1, <2>2 DEF Staged, Closed
  <2>5. Framed(r)
    BY <2>1, <2>3 DEF Framed
  <2>6. Ordered(r)
    BY <2>1, <2>2 DEF Ordered, Increasing, Below
  <2>7. Accounted(r)
    BY <2>1, <2>2 DEF Accounted
  <2>8. Kept(r)
    <3>1. SubSeq(events[r], 1, consumed[r]) = <<>>
      BY <2>1, SubSeqEmpty
    <3>2. QED
      BY <2>1, <2>2, <3>1 DEF Kept
  <2>9. QED
    BY <2>4, <2>5, <2>6, <2>7, <2>8 DEF Local
<1>5. QED
  BY <1>3, <1>4 DEF ExecInv

LEMMA ExecStep == ExecInv /\ [Next]_vars => ExecInv'
<1> SUFFICES ASSUME ExecInv, [Next]_vars PROVE ExecInv'
  OBVIOUS
<1>1. ExecTyped /\ \A q \in Requests : Local(q)
  BY DEF ExecInv
<1>2. CASE Next
  <2>1. PICK r \in Requests : Execute(r) \/ Run(r) \/ Loops(r) \/ Cancel(r) \/ Read(r)
    BY <1>2 DEF Next
  <2>2. Local(r)
    BY <1>1
  <2>3. ExecTyped'
    <3>1. CASE Begin(r) \/ Run(r) \/ Cancel(r)
      BY <1>1, <3>1, TypedRun
    <3>2. CASE ~Begin(r) /\ (Execute(r) \/ Loops(r))
      BY <1>1, <2>2, <3>2, TypedStream
    <3>3. CASE Read(r)
      BY <1>1, <2>2, <3>3, TypedRead
    <3>4. QED
      BY <2>1, <3>1, <3>2, <3>3
  <2>4. Local(r)'
    <3>1. CASE Begin(r) \/ Run(r) \/ Cancel(r)
      BY <1>1, <2>2, <3>1, LocalRun
    <3>2. CASE StartRun(r) \/ Reject(r) \/ ForwardActivity(r) \/ Close(r)
      BY <1>1, <2>2, <3>2, LocalEmits
    <3>3. CASE FlushStart(r)
      BY <1>1, <2>2, <3>3, LocalFlushStart
    <3>4. CASE FlushEnd(r)
      BY <1>1, <2>2, <3>4, LocalFlushEnd
    <3>5. CASE FinalChunk(r)
      BY <1>1, <2>2, <3>5, LocalFinalChunk
    <3>6. CASE Resume(r)
      BY <1>1, <2>2, <3>6, LocalResume
    <3>7. CASE Read(r)
      BY <1>1, <2>2, <3>7, LocalRead
    <3>8. QED
      BY <2>1, <3>1, <3>2, <3>3, <3>4, <3>5, <3>6, <3>7 DEF Execute, Loops
  <2>5. ASSUME NEW q \in Requests, q # r
        PROVE  Local(q)'
    <3>1. Same(q)
      BY <1>1, <2>1, <2>5, Others
    <3>2. QED
      BY <1>1, <3>1, SameLocal
  <2>6. \A q \in Requests : Local(q)'
    BY <2>4, <2>5
  <2>7. QED
    BY <2>3, <2>6 DEF ExecInv
<1>3. CASE UNCHANGED vars
  <2>1. ExecTyped'
    BY <1>1, <1>3 DEF ExecTyped, ExecTypeOK, vars, runVars, sharedVars, logVars,
                      streamVars, activities
  <2>2. ASSUME NEW q \in Requests
        PROVE  Local(q)'
    <3>1. Same(q)
      BY <1>3 DEF Same, vars, runVars, logVars, streamVars
    <3>2. QED
      BY <1>1, <3>1, SameLocal
  <2>3. QED
    BY <2>1, <2>2 DEF ExecInv
<1>4. QED
  BY <1>2, <1>3

LEMMA ExecInvariant == Spec => []ExecInv
<1>1. Init => ExecInv
  BY ExecInit
<1>2. ExecInv /\ [Next]_vars => ExecInv'
  BY ExecStep
<1>3. QED
  BY <1>1, <1>2, PTL DEF Spec

-----------------------------------------------------------------------------
(* The theorems.                                                           *)

\* Type correctness: the drain cursor stays below what was logged, activities are
\* forwarded once, the orchestrator reads what was emitted, and a run that saves files
\* does so for a request.
THEOREM ExecutorTyped == Spec => []ExecTypeOK
<1>1. ExecInv => ExecTypeOK
  BY DEF ExecInv, ExecTyped
<1>2. QED
  BY ExecInvariant, <1>1, PTL

\* The flush loop and the shutdown of execute() frame the log artifact together: the
\* first chunk opens it, each other one appends, and exactly the last one closes it.
THEOREM ExecutorFramesLogs == Spec => []LogsFramed
<1>1. ASSUME ExecInv
      PROVE  LogsFramed
  <2>1. ASSUME NEW r \in Requests
        PROVE  /\ \A i \in LogChunks(r) :
                      events[r][i].append <=> \E j \in LogChunks(r) : j < i
               /\ \A i, j \in LogChunks(r) : events[r][i].last => j <= i
               /\ pc[r] = "done" /\ LogChunks(r) # {} =>
                      \E i \in LogChunks(r) : events[r][i].last
    <3>1. Framed(r)
      BY <1>1 DEF ExecInv, Local
    <3>2. QED
      BY <3>1 DEF Framed
  <2>2. QED
    BY <2>1 DEF LogsFramed
<1>2. QED
  BY ExecInvariant, <1>1, PTL

\* No line is sent twice or out of order, whoever drains the buffer and whatever it lost.
THEOREM ExecutorKeepsOrder == Spec => []LinesInOrder
<1>1. ASSUME ExecInv
      PROVE  LinesInOrder
  <2>1. ASSUME NEW r \in Requests,
               NEW i \in 1..(Len(LogLines(events[r])) - 1)
        PROVE  LogLines(events[r])[i] < LogLines(events[r])[i + 1]
    <3>1. events[r] \in Seq(Event)
      BY <1>1 DEF ExecInv, ExecTyped, ExecTypeOK
    <3>2. LogLines(events[r]) \in Seq(Line)
      BY <3>1, LinesTyped
    <3>3. /\ i \in DOMAIN LogLines(events[r]) /\ i + 1 \in DOMAIN LogLines(events[r])
          /\ i < i + 1
      BY <3>2, LenProperties
    <3>4. Increasing(LogLines(events[r]))
      BY <1>1 DEF ExecInv, Local, Ordered
    <3>5. QED
      BY <3>3, <3>4 DEF Increasing
  <2>2. QED
    BY <2>1 DEF LinesInOrder
<1>2. QED
  BY ExecInvariant, <1>1, PTL

\* Every line of a request that has ended was sent or lost, and none both.
THEOREM ExecutorAccounts == Spec => []LinesAccounted
<1>1. ASSUME ExecInv
      PROVE  LinesAccounted
  <2>1. ASSUME NEW r \in Requests
        PROVE  /\ ToSet(LogLines(events[r])) \cap lost[r] = {}
               /\ pc[r] = "done" =>
                      ToSet(LogLines(events[r])) \cup lost[r] = 1..logged[r]
    <3>1. Staged(r) /\ Ordered(r) /\ Accounted(r) /\ events[r] \in Seq(Event)
      BY <1>1 DEF ExecInv, Local, ExecTyped, ExecTypeOK
    <3>2. ToSet(LogLines(events[r])) \cap lost[r] = {}
      BY <3>1 DEF Accounted
    <3>3. ASSUME pc[r] = "done"
          PROVE  ToSet(LogLines(events[r])) \cup lost[r] = 1..logged[r]
      <4>1. drained[r] = logged[r] /\ sending[r] = <<>>
        BY <3>1, <3>3 DEF Staged, Looping
      <4>2. ToSet(sending[r]) = {}
        BY <4>1 DEF ToSet
      <4>3. 1..logged[r] \subseteq ToSet(LogLines(events[r])) \cup lost[r]
        BY <3>1, <4>1, <4>2 DEF Accounted
      <4>4. lost[r] \subseteq 1..logged[r]
        BY <3>1, <4>1 DEF Accounted
      <4>5. ToSet(LogLines(events[r])) \subseteq 1..logged[r]
        <5>1. PICK ls \in Seq(Line) : ls = LogLines(events[r])
          BY <3>1, LinesTyped
        <5>2. \A m \in DOMAIN ls : ls[m] \in Line /\ ls[m] <= logged[r]
          BY <3>1, <4>1, <5>1 DEF Ordered, Below
        <5>3. logged[r] \in Nat /\ MaxLines \in Nat
          BY <1>1, ExecutorAssumption DEF ExecInv, ExecTyped, ExecTypeOK
        <5>4. \A m \in DOMAIN ls : ls[m] \in 1..logged[r]
          BY <5>2, <5>3 DEF Line
        <5>5. QED
          BY <5>1, <5>4 DEF ToSet
      <4>6. QED
        BY <4>3, <4>4, <4>5
    <3>4. QED
      BY <3>2, <3>3
  <2>2. QED
    BY <2>1 DEF LinesAccounted
<1>2. QED
  BY ExecInvariant, <1>1, PTL

\* execute() ends with one terminal status and emits nothing after it, in all of its
\* endings: a result, a failure, a crash, a cancellation or a request without a message.
THEOREM ExecutorEndsOnce == Spec => []TerminalStatusLast
<1>1. ASSUME ExecInv
      PROVE  TerminalStatusLast
  <2>1. ASSUME NEW r \in Requests
        PROVE  /\ \A i \in DOMAIN events[r] :
                      events[r][i].kind \in Terminal => i = Len(events[r])
               /\ pc[r] = "done" => events[r] # <<>> /\ Last(events[r]).kind \in Terminal
    <3>1. Closed(r)
      BY <1>1 DEF ExecInv, Local
    <3>2. QED
      BY <3>1 DEF Closed, Last
  <2>2. QED
    BY <2>1 DEF TerminalStatusLast
<1>2. QED
  BY ExecInvariant, <1>1, PTL

\* What the orchestrator keeps is what was sent, though each line reaches it twice.
THEOREM ExecutorRecordComplete == Spec => []RecordComplete
<1>1. ASSUME ExecInv
      PROVE  RecordComplete
  <2>1. ASSUME NEW r \in Requests, consumed[r] = Len(events[r])
        PROVE  record[r] = LogLines(events[r])
    <3>1. Kept(r) /\ events[r] \in Seq(Event)
      BY <1>1 DEF ExecInv, Local, ExecTyped, ExecTypeOK
    <3>2. SubSeq(events[r], 1, Len(events[r])) = events[r]
      BY <3>1, SubSeqFull
    <3>3. QED
      BY <2>1, <3>1, <3>2 DEF Kept
  <2>2. QED
    BY <2>1 DEF RecordComplete
<1>2. QED
  BY ExecInvariant, <1>1, PTL
=============================================================================
