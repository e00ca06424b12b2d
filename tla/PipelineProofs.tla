---------------------------- MODULE PipelineProofs ----------------------------
(***************************************************************************)
(* Theorems about Intake and Pipeline, for any work items, jobs, windows,  *)
(* documents and cases: the guard drops exactly the excess, chunking keeps *)
(* the text, and pipelines keep out of each other's work items, which are  *)
(* paired with their cases up to the first one that was skipped.           *)
(***************************************************************************)
EXTENDS Pipeline, SequenceLemmas

-----------------------------------------------------------------------------
(* The i-th id that was made.                                              *)

LEMMA NthExists ==
    ASSUME NEW n \in Nat, NEW S \in SUBSET (1..n), NEW c \in 1..Cardinality(S)
    PROVE  \E x \in S : Cardinality({m \in S : m <= x}) = c
<1>1. PICK T \in SUBSET Nat :
          \A k \in Nat : k \in T <=>
              \A R \in SUBSET (1..k) : \A d \in 1..Cardinality(R) :
                  \E x \in R : Cardinality({m \in R : m <= x}) = d
  <2>1. WITNESS {k \in Nat : \A R \in SUBSET (1..k) : \A d \in 1..Cardinality(R) :
                     \E x \in R : Cardinality({m \in R : m <= x}) = d} \in SUBSET Nat
  <2>2. QED
    BY <2>1
<1>2. 0 \in T
  <2>1. ASSUME NEW R \in SUBSET (1..0)
        PROVE  Cardinality(R) = 0
    <3>1. R = {}
      OBVIOUS
    <3>2. QED
      BY <3>1, FS_EmptySet
  <2>2. QED
    BY <1>1, <2>1
<1>3. ASSUME NEW k \in T
      PROVE  k + 1 \in T
  <2>1. k + 1 \in Nat
    OBVIOUS
  <2>2. ASSUME NEW R \in SUBSET (1..(k + 1))
        PROVE  \A m \in R : m \in 1..(k + 1)
    OBVIOUS
  <2>3. ASSUME NEW R \in SUBSET (1..(k + 1)), NEW d \in 1..Cardinality(R)
        PROVE  \E x \in R : Cardinality({m \in R : m <= x}) = d
    <3>1. CASE k + 1 \notin R
      <4>1. R \in SUBSET (1..k)
        BY <2>2, <3>1
      <4>2. QED
        BY <1>1, <4>1
    <3>2. CASE k + 1 \in R
      <4>1. PICK Q \in SUBSET (1..k) : Q = R \ {k + 1}
        <5>1. R \ {k + 1} \in SUBSET (1..k)
          BY <2>2
        <5>2. QED
          BY <5>1, Zenon
      <4>2. IsFiniteSet(R) /\ IsFiniteSet(Q) /\ Cardinality(Q) \in Nat
        <5>1. IsFiniteSet(1..(k + 1)) /\ IsFiniteSet(1..k)
          BY FS_Interval
        <5>2. QED
          BY <5>1, FS_Subset, FS_CardinalityType
      <4>3. Cardinality(Q) = Cardinality(R) - 1 /\ Cardinality(R) \in Nat
        BY <3>2, <4>1, <4>2, FS_RemoveElement, FS_CardinalityType
      <4>4. CASE d = Cardinality(R)
        <5>1. \A m \in R : m <= k + 1
          BY <2>2
        <5>2. {m \in R : m <= k + 1} = R
          BY <5>1, Zenon
        <5>3. QED
          BY <3>2, <4>4, <5>2
      <4>5. CASE d \in 1..Cardinality(Q)
        <5>1. PICK x \in Q : Cardinality({m \in Q : m <= x}) = d
          BY <1>1, <4>5
        <5>2. {m \in R : m <= x} = {m \in Q : m <= x} /\ x \in R
          BY <4>1
        <5>3. QED
          BY <5>1, <5>2
      <4>6. QED
        BY <4>2, <4>3, <4>4, <4>5
    <3>3. QED
      BY <3>1, <3>2
  <2>4. QED
    BY <1>1, <2>1, <2>3
<1>4. n \in T
  BY <1>2, <1>3, Induct
<1>5. QED
  BY <1>1, <1>4

\* The c-th member of a set is c exactly if nothing up to c is missing.
LEMMA NthPairs ==
    ASSUME NEW n \in Nat, NEW S \in SUBSET (1..n), NEW c \in 1..Cardinality(S)
    PROVE  /\ Nth(S, c) \in S
           /\ Nth(S, c) = c <=> 1..c \subseteq S
<1>1. PICK x \in S : x = Nth(S, c) /\ Cardinality({m \in S : m <= x}) = c
  <2>1. \E x \in S : Cardinality({m \in S : m <= x}) = c
    BY NthExists
  <2>2. /\ Nth(S, c) \in S
        /\ Cardinality({m \in S : m <= Nth(S, c)}) = c
    BY <2>1, Zenon DEF Nth
  <2>3. QED
    BY <2>2, Zenon
<1>2. IsFiniteSet(S) /\ c \in Nat /\ \A m \in S : m \in 1..n
  <2>1. IsFiniteSet(1..n)
    BY FS_Interval
  <2>2. IsFiniteSet(S)
    BY <2>1, FS_Subset
  <2>3. QED
    BY <2>2
<1>3. PICK Low \in SUBSET S : /\ Low = {m \in S : m <= x}
                            /\ \A m : m \in Low <=> m \in S /\ m <= x
  <2>1. {m \in S : m <= x} \in SUBSET S
    OBVIOUS
  <2>2. QED
    BY <2>1, Zenon
<1>4. IsFiniteSet(Low) /\ Cardinality(Low) = c
  BY <1>1, <1>2, <1>3, FS_Subset
<1>5. IsFiniteSet(1..c) /\ Cardinality(1..c) = c
  BY <1>2, FS_Interval
<1>6. ASSUME x = c
      PROVE  1..c \subseteq S
  <2>1. Low \subseteq 1..c
    <3>1. \A m \in Low : m \in 1..n /\ m <= c
      BY <1>2, <1>3, <1>6
    <3>2. QED
      BY <1>2, <3>1
  <2>2. Low = 1..c
    BY <1>4, <1>5, <2>1, FS_Subset
  <2>3. QED
    BY <2>2
<1>7. ASSUME 1..c \subseteq S
      PROVE  x = c
  <2>1. CASE x < c
    <3>1. Low \subseteq 1..c /\ c \notin Low
      <4>1. \A m \in Low : m \in 1..n /\ m <= x /\ x \in 1..n
        BY <1>2, <1>3
      <4>2. QED
        BY <1>2, <2>1, <4>1
    <3>2. c \in 1..c
      BY <1>2
    <3>3. QED
      BY <1>4, <1>5, <3>1, <3>2, FS_Subset
  <2>2. CASE c < x
    <3>1. 1..c \subseteq Low /\ x \in Low /\ x \notin 1..c
      BY <1>2, <1>3, <1>7, <2>2
    <3>2. QED
      BY <1>4, <1>5, <3>1, FS_Subset
  <2>3. QED
    BY <1>2, <2>1, <2>2
<1>8. QED
  BY <1>1, <1>6, <1>7

-----------------------------------------------------------------------------
(* The inductive invariant of the intake.                                  *)

Active  == {"requesting", "generating", "batching", "classifying", "reviewing"}
Running == {j \in DOMAIN phase : phase[j] \in Active}
Open    == {j \in DOMAIN phase : phase[j] # "ended"}
Recent  == {k \in Reviews : now - jobs[k].at <= Minute}

\* A job in the queue is queued, one that waits for the semaphore waits, and no job is
\* there twice.
Placed ==
    /\ phase \in Seq(Phases) /\ Len(phase) = Len(jobs)
    /\ \A i \in DOMAIN queue : phase[queue[i]] = "queued"
    /\ \A i, k \in DOMAIN queue : queue[i] = queue[k] => i = k
    /\ \A i \in DOMAIN waiting : phase[waiting[i]] = "waiting"
    /\ \A i, k \in DOMAIN waiting : waiting[i] = waiting[k] => i = k

\* The semaphore and the queue's counter say how many jobs run and how many are not done.
Counted ==
    /\ unfinished = Cardinality(Open)
    /\ permits + Cardinality(Running) = MaxConcurrent

\* The guard remembers every accepted event as long as it matters, and nothing else.
Windows ==
    /\ \A k \in Reviews : jobs[k].at <= now
    /\ globalWindow \subseteq Reviews /\ Recent \subseteq globalWindow
    /\ Cardinality(Recent) <= MaxPerMinute
    /\ \A i \in DOMAIN lastSeen :
           \E k \in Reviews : jobs[k].item = i /\ jobs[k].at = lastSeen[i]
    /\ \A k \in Reviews : now - jobs[k].at <= DedupWindow =>
           jobs[k].item \in DOMAIN lastSeen /\ jobs[k].at <= lastSeen[jobs[k].item]

IntakeInv == IntakeTypeOK /\ Placed /\ Counted /\ Windows /\ WithinLimits

\* What an accepted requirement event looks like.
LEMMA ReviewTyped ==
    ASSUME IntakeTypeOK, NEW k \in Reviews
    PROVE  /\ k \in DOMAIN jobs /\ k \in 1..Len(jobs)
           /\ jobs[k].item \in Items /\ jobs[k].at \in 0..MaxTime /\ jobs[k].at \in Nat
<1>1. jobs \in Seq(Job) /\ k \in DOMAIN jobs /\ jobs[k].kind = "review"
  BY DEF IntakeTypeOK, Reviews
<1>2. jobs[k] \in Job
  BY <1>1
<1>3. jobs[k].item \in Items /\ jobs[k].at \in 0..MaxTime
  <2>1. jobs[k] \notin [kind : {"pipeline"}]
    BY <1>1
  <2>2. jobs[k] \in [kind : {"review"}, item : Items, at : 0..MaxTime]
    BY <1>2, <2>1 DEF Job
  <2>3. QED
    BY <2>2
<1>4. QED
  BY <1>1, <1>3, IntakeAssumption

LEMMA FinitelyMany ==
    ASSUME IntakeTypeOK, Placed
    PROVE  /\ IsFiniteSet(DOMAIN phase) /\ IsFiniteSet(Running) /\ IsFiniteSet(Open)
           /\ IsFiniteSet(Reviews) /\ IsFiniteSet(Recent)
           /\ Cardinality(Running) \in Nat /\ Cardinality(Open) \in Nat
           /\ Cardinality(Recent) \in Nat
<1>1. DOMAIN phase = 1..Len(phase) /\ Len(phase) \in Nat
  BY LenProperties DEF Placed
<1>2. DOMAIN jobs = 1..Len(jobs) /\ Len(jobs) \in Nat
  BY LenProperties DEF IntakeTypeOK
<1>3. IsFiniteSet(DOMAIN phase) /\ IsFiniteSet(DOMAIN jobs)
  BY <1>1, <1>2, FS_Interval
<1>4. Running \in SUBSET DOMAIN phase /\ Open \in SUBSET DOMAIN phase
      /\ Reviews \in SUBSET DOMAIN jobs
  BY DEF Running, Open, Reviews
<1>5. IsFiniteSet(Running) /\ IsFiniteSet(Open) /\ IsFiniteSet(Reviews)
  BY <1>3, <1>4, FS_Subset
<1>6. IsFiniteSet(Recent)
  <2>1. Recent \in SUBSET Reviews
    BY DEF Recent
  <2>2. QED
    BY <1>5, <2>1, FS_Subset
<1>7. QED
  BY <1>3, <1>5, <1>6, FS_CardinalityType

\* A job that goes on to a phase is, or is no longer, running and unfinished.
LEMMA PhaseMoves ==
    ASSUME Placed, NEW j \in DOMAIN phase, NEW p \in Phases,
           phase' = [phase EXCEPT ![j] = p]
    PROVE  /\ phase' \in Seq(Phases) /\ Len(phase') = Len(phase)
           /\ DOMAIN phase' = DOMAIN phase /\ phase'[j] = p
           /\ \A k \in DOMAIN phase : k # j => phase'[k] = phase[k]
           /\ Running' = IF p \in Active THEN Running \cup {j} ELSE Running \ {j}
           /\ Open' = IF p = "ended" THEN Open \ {j} ELSE Open \cup {j}
<1>1. phase \in Seq(Phases)
  BY DEF Placed
<1>2. /\ DOMAIN phase' = DOMAIN phase /\ phase'[j] = p
      /\ \A k \in DOMAIN phase : k # j => phase'[k] = phase[k]
  OBVIOUS
<1>3. phase' \in Seq(Phases) /\ Len(phase') = Len(phase)
  BY <1>1
<1>4. Running' = IF p \in Active THEN Running \cup {j} ELSE Running \ {j}
  <2>1. \A k : k \in Running' <=> k \in DOMAIN phase /\ (IF k = j THEN p \in Active
                                                         ELSE k \in Running)
    BY <1>2 DEF Running
  <2>2. \A k : k \in Running => k \in DOMAIN phase
    BY DEF Running
  <2>3. QED
    BY <2>1, <2>2
<1>5. Open' = IF p = "ended" THEN Open \ {j} ELSE Open \cup {j}
  <2>1. \A k : k \in Open' <=> k \in DOMAIN phase /\ (IF k = j THEN p # "ended"
                                                      ELSE k \in Open)
    BY <1>2 DEF Open
  <2>2. \A k : k \in Open => k \in DOMAIN phase
    BY DEF Open
  <2>3. QED
    BY <2>1, <2>2
<1>6. QED
  BY <1>2, <1>3, <1>4, <1>5

\* Steps that leave the guard alone keep what it remembers.
LEMMA GuardKept ==
    ASSUME Windows, WithinLimits, UNCHANGED <<guardVars, jobs>>
    PROVE  Windows' /\ WithinLimits'
<1>1. now' = now /\ lastSeen' = lastSeen /\ globalWindow' = globalWindow /\ jobs' = jobs
  BY DEF guardVars
<1>2. Reviews' = Reviews /\ Recent' = Recent
  BY <1>1 DEF Reviews, Recent
<1>3. Windows'
  BY <1>1, <1>2 DEF Windows
<1>4. WithinLimits'
  BY <1>1, <1>2 DEF WithinLimits
<1>5. QED
  BY <1>3, <1>4

\* A running job goes on or ends.
LEMMA JobMoves ==
    ASSUME IntakeInv, NEW j \in DOMAIN phase, phase[j] \in Active,
           EndsJob(j) \/ \E next \in Active : MovesTo(j, next)
    PROVE  IntakeInv'
<1>1. IntakeTypeOK /\ Placed /\ Counted /\ Windows /\ WithinLimits
  BY DEF IntakeInv
<1>2. PICK p \in Active \cup {"ended"} :
          /\ phase' = [phase EXCEPT ![j] = p]
          /\ UNCHANGED <<guardVars, jobs, queue, waiting>>
          /\ p = "ended" => permits' = permits + 1 /\ unfinished' = unfinished - 1
          /\ p # "ended" => permits' = permits /\ unfinished' = unfinished
  BY DEF EndsJob, MovesTo, queueVars, Active
<1>3. p \in Phases
  BY DEF Active, Phases
<1>4. /\ phase' \in Seq(Phases) /\ Len(phase') = Len(phase)
      /\ DOMAIN phase' = DOMAIN phase /\ phase'[j] = p
      /\ \A k \in DOMAIN phase : k # j => phase'[k] = phase[k]
      /\ Running' = IF p \in Active THEN Running \cup {j} ELSE Running \ {j}
      /\ Open' = IF p = "ended" THEN Open \ {j} ELSE Open \cup {j}
  BY <1>1, <1>2, <1>3, PhaseMoves
<1>5. Windows' /\ WithinLimits'
  BY <1>1, <1>2, GuardKept
<1>6. queue' = queue /\ waiting' = waiting /\ jobs' = jobs /\ now' = now
      /\ lastSeen' = lastSeen /\ globalWindow' = globalWindow
  BY <1>2 DEF guardVars
<1>7. Placed'
  <2>1. /\ \A i \in DOMAIN queue : queue[i] \in DOMAIN phase /\ queue[i] # j
        /\ \A i \in DOMAIN waiting : waiting[i] \in DOMAIN phase /\ waiting[i] # j
    <3>1. DOMAIN jobs = DOMAIN phase
      BY <1>1, LenProperties DEF IntakeTypeOK, Placed
    <3>2. queue \in Seq(DOMAIN phase) /\ waiting \in Seq(DOMAIN phase)
      BY <1>1, <3>1 DEF IntakeTypeOK
    <3>3. /\ \A i \in DOMAIN queue : queue[i] \in DOMAIN phase
          /\ \A i \in DOMAIN waiting : waiting[i] \in DOMAIN phase
      BY <3>2
    <3>4. QED
      BY <1>1, <3>3 DEF Placed, Active
  <2>2. QED
    BY <1>1, <1>4, <1>6, <2>1 DEF Placed
<1>8. /\ IsFiniteSet(Running) /\ IsFiniteSet(Open) /\ j \in Running /\ j \in Open
      /\ Cardinality(Running) \in Nat /\ Cardinality(Open) \in Nat
  <2>1. j \in Running /\ j \in Open
    BY DEF Running, Open, Active
  <2>2. QED
    BY <1>1, <2>1, FinitelyMany
<1>9. Counted' /\ permits' \in 0..MaxConcurrent /\ unfinished' \in Nat
  <2>1. CASE p = "ended"
    <3>1. Running' = Running \ {j} /\ Open' = Open \ {j}
      BY <1>4, <2>1 DEF Active
    <3>2. /\ Cardinality(Running') = Cardinality(Running) - 1
          /\ Cardinality(Open') = Cardinality(Open) - 1
          /\ Cardinality(Running') \in Nat /\ Cardinality(Open') \in Nat
      BY <1>8, <3>1, FS_RemoveElement, FS_CardinalityType
    <3>3. permits \in 0..MaxConcurrent /\ MaxConcurrent \in Nat
      BY <1>1, IntakeAssumption DEF IntakeTypeOK
    <3>4. /\ unfinished = Cardinality(Open)
          /\ permits + Cardinality(Running) = MaxConcurrent
      BY <1>1 DEF Counted
    <3>5. permits' = permits + 1 /\ unfinished' = unfinished - 1
      BY <1>2, <2>1
    <3>6. QED
      BY <1>8, <3>2, <3>3, <3>4, <3>5 DEF Counted
  <2>2. CASE p # "ended"
    <3>1. Running' = Running /\ Open' = Open
      BY <1>2, <1>4, <1>8, <2>2
    <3>2. QED
      BY <1>1, <1>2, <2>2, <3>1 DEF Counted, IntakeTypeOK
  <2>3. QED
    BY <2>1, <2>2
<1>10. IntakeTypeOK'
  <2>1. phase' \in [DOMAIN jobs -> Phases]
    BY <1>1, <1>2, <1>3 DEF IntakeTypeOK
  <2>2. QED
    BY <1>1, <1>6, <1>9, <2>1 DEF IntakeTypeOK
<1>11. QED
  BY <1>5, <1>7, <1>9, <1>10 DEF IntakeInv

\* A new job is queued, once, behind the others.
LEMMA PutMoves ==
    ASSUME IntakeInv, NEW job \in Job, Put(job)
    PROVE  /\ jobs' \in Seq(Job) /\ Len(jobs') = Len(jobs) + 1
           /\ jobs'[Len(jobs) + 1] = job
           /\ \A k \in DOMAIN jobs : k \in DOMAIN jobs' /\ jobs'[k] = jobs[k]
           /\ phase' \in [DOMAIN jobs' -> Phases]
           /\ queue' \in Seq(DOMAIN jobs') /\ waiting' \in Seq(DOMAIN jobs')
           /\ unfinished' \in Nat /\ permits' \in 0..MaxConcurrent
           /\ Placed' /\ Counted'
           /\ Reviews' = IF job.kind = "review" THEN Reviews \cup {Len(jobs) + 1} ELSE Reviews
<1>1. IntakeTypeOK /\ Placed /\ Counted
  BY DEF IntakeInv
<1>2. PICK n \in Nat : /\ n = Len(jobs) /\ n = Len(phase)
                       /\ DOMAIN jobs = 1..n /\ DOMAIN phase = 1..n
  BY <1>1, LenProperties DEF IntakeTypeOK, Placed
<1>3. jobs \in Seq(Job) /\ phase \in Seq(Phases) /\ "queued" \in Phases
  BY <1>1 DEF IntakeTypeOK, Placed, Phases
<1>4. /\ jobs' = Append(jobs, job) /\ phase' = Append(phase, "queued")
      /\ waiting' = waiting /\ permits' = permits /\ unfinished' = unfinished + 1
  BY DEF Put
<1>5. /\ jobs' \in Seq(Job) /\ Len(jobs') = n + 1 /\ jobs'[n + 1] = job
      /\ DOMAIN jobs' = 1..(n + 1)
      /\ \A k \in 1..n : jobs'[k] = jobs[k]
  BY <1>2, <1>3, <1>4
<1>6. /\ phase' \in Seq(Phases) /\ Len(phase') = n + 1 /\ phase'[n + 1] = "queued"
      /\ DOMAIN phase' = 1..(n + 1)
      /\ \A k \in 1..n : phase'[k] = phase[k]
  BY <1>2, <1>3, <1>4
<1>7. queue' = Append(queue, n + 1)
  BY <1>5 DEF Put
<1>8. queue \in Seq(1..n) /\ waiting \in Seq(1..n)
  BY <1>1, <1>2 DEF IntakeTypeOK
<1>9. PICK m \in Nat : /\ m = Len(queue) /\ DOMAIN queue = 1..m
                       /\ \A i \in 1..m : queue[i] \in 1..n
  BY <1>8, LenProperties
<1>10. /\ DOMAIN queue' = 1..(m + 1) /\ queue'[m + 1] = n + 1
       /\ \A i \in 1..m : queue'[i] = queue[i]
  BY <1>7, <1>8, <1>9
<1>11. queue' \in Seq(1..(n + 1))
  <2>1. queue' = [i \in 1..(m + 1) |-> queue'[i]]
    BY <1>7, <1>8, <1>9
  <2>2. \A i \in 1..(m + 1) : queue'[i] \in 1..(n + 1)
    BY <1>9, <1>10
  <2>3. QED
    BY <2>1, <2>2
<1>12. PICK w \in Nat : /\ DOMAIN waiting = 1..w
                        /\ \A i \in 1..w : waiting[i] \in 1..n
  BY <1>8, LenProperties
<1>13. waiting' \in Seq(1..(n + 1))
  <2>1. 1..n \subseteq 1..(n + 1)
    OBVIOUS
  <2>2. QED
    BY <1>4, <1>8, <2>1
<1>14. Placed'
  <2>1. \A i \in DOMAIN queue' : phase'[queue'[i]] = "queued"
    <3>1. \A i \in 1..m : phase[queue[i]] = "queued"
      BY <1>1, <1>9 DEF Placed
    <3>2. QED
      BY <1>6, <1>9, <1>10, <3>1
  <2>2. \A i, k \in DOMAIN queue' : queue'[i] = queue'[k] => i = k
    <3>1. \A i, k \in 1..m : queue[i] = queue[k] => i = k
      BY <1>1, <1>9 DEF Placed
    <3>2. QED
      BY <1>9, <1>10, <3>1
  <2>3. \A i \in DOMAIN waiting : phase'[waiting[i]] = "waiting"
    <3>1. \A i \in 1..w : phase[waiting[i]] = "waiting"
      BY <1>1, <1>12 DEF Placed
    <3>2. QED
      BY <1>6, <1>12, <3>1
  <2>4. QED
    BY <1>1, <1>4, <1>5, <1>6, <2>1, <2>2, <2>3 DEF Placed
<1>15. Counted' /\ unfinished' \in Nat
  <2>1. Running' = Running
    <3>1. \A k : k \in Running' <=> k \in Running
      BY <1>2, <1>6 DEF Running, Active
    <3>2. QED
      BY <3>1
  <2>2. Open' = Open \cup {n + 1} /\ n + 1 \notin Open
    <3>1. \A k : k \in Open' <=> k \in Open \/ k = n + 1
      BY <1>2, <1>6 DEF Open
    <3>2. n + 1 \notin Open
      BY <1>2 DEF Open
    <3>3. QED
      BY <3>1, <3>2
  <2>3. IsFiniteSet(Open) /\ Cardinality(Open) \in Nat
    BY <1>1, FinitelyMany
  <2>4. Cardinality(Open') = Cardinality(Open) + 1
    BY <2>2, <2>3, FS_AddElement
  <2>5. QED
    BY <1>1, <1>4, <2>1, <2>3, <2>4 DEF Counted
<1>16. Reviews' = IF job.kind = "review" THEN Reviews \cup {n + 1} ELSE Reviews
  <2>1. \A k : k \in Reviews' <=>
            k \in Reviews \/ (k = n + 1 /\ job.kind = "review")
    BY <1>2, <1>5 DEF Reviews
  <2>2. QED
    BY <2>1
<1>17. phase' \in [DOMAIN jobs' -> Phases]
  BY <1>5, <1>6
<1>18. permits' \in 0..MaxConcurrent
  BY <1>1, <1>4 DEF IntakeTypeOK
<1>19. QED
  BY <1>2, <1>5, <1>11, <1>13, <1>14, <1>15, <1>16, <1>17, <1>18

\* The entries of the rate window that are kept stand for the recent events.
LEMMA WindowIsRecent ==
    ASSUME IntakeInv
    PROVE  InWindow = Recent
BY DEF IntakeInv, Windows, InWindow, Recent

\* What the guard decides.
LEMMA Decision ==
    ASSUME IntakeInv, NEW i \in Items
    PROVE  /\ DropReason(i) = "None" =>
                  Cardinality(Recent) < MaxPerMinute /\ i \notin DOMAIN Remembered
           /\ DropReason(i) # "None" =>
                  Cardinality(Recent) = MaxPerMinute \/ i \in DOMAIN Remembered
<1>1. InWindow = Recent
  BY WindowIsRecent
<1>2. Cardinality(Recent) \in Nat /\ MaxPerMinute \in Nat
  BY FinitelyMany, IntakeAssumption DEF IntakeInv
<1>3. Cardinality(Recent) <= MaxPerMinute
  BY DEF IntakeInv, Windows
<1>4. CASE Cardinality(InWindow) >= MaxPerMinute
  <2>1. DropReason(i) = "rate_limited"
    BY <1>1, <1>2, <1>4 DEF DropReason
  <2>2. QED
    BY <1>1, <1>2, <1>3, <1>4, <2>1
<1>5. CASE Cardinality(InWindow) < MaxPerMinute /\ i \in DOMAIN Remembered
  <2>1. DropReason(i) = "duplicate"
    BY <1>1, <1>2, <1>5 DEF DropReason
  <2>2. QED
    BY <1>5, <2>1
<1>6. CASE Cardinality(InWindow) < MaxPerMinute /\ i \notin DOMAIN Remembered
  <2>1. DropReason(i) = "None"
    BY <1>1, <1>2, <1>6 DEF DropReason
  <2>2. QED
    BY <1>1, <1>6, <2>1
<1>7. QED
  BY <1>1, <1>2, <1>4, <1>5, <1>6

\* The items kept are those of the events within the dedup window.
LEMMA RememberedAre ==
    ASSUME IntakeInv
    PROVE  /\ \A i : i \in DOMAIN Remembered <=>
                  i \in DOMAIN lastSeen /\ now - lastSeen[i] <= DedupWindow
           /\ \A i \in DOMAIN Remembered : Remembered[i] = lastSeen[i]
BY DEF Remembered, Restrict

-----------------------------------------------------------------------------
(* Each step of the intake keeps the invariant.                            *)

\* An accepted event is recent, and the first of its work item within the window.
LEMMA Accepts ==
    ASSUME IntakeInv, NEW i \in Items, RequirementReady(i), DropReason(i) = "None"
    PROVE  IntakeInv'
<1>1. IntakeTypeOK /\ Placed /\ Counted /\ Windows /\ WithinLimits
  BY DEF IntakeInv
<1>2. PICK job \in Job : job = [kind |-> "review", item |-> i, at |-> now]
  <2>1. [kind |-> "review", item |-> i, at |-> now] \in Job
    BY <1>1 DEF IntakeTypeOK, Job
  <2>2. QED
    BY <2>1, Zenon
<1>3. /\ Put(job) /\ now' = now
      /\ lastSeen' = [k \in DOMAIN Remembered \cup {i} |-> IF k = i THEN now ELSE Remembered[k]]
      /\ globalWindow' = InWindow \cup {Len(jobs')}
  BY <1>2 DEF RequirementReady
<1>4. PICK n \in Nat : n = Len(jobs) /\ DOMAIN jobs = 1..n
  BY <1>1, LenProperties DEF IntakeTypeOK
<1>5. /\ jobs' \in Seq(Job) /\ Len(jobs') = n + 1 /\ jobs'[n + 1] = job
      /\ \A k \in DOMAIN jobs : k \in DOMAIN jobs' /\ jobs'[k] = jobs[k]
      /\ phase' \in [DOMAIN jobs' -> Phases]
      /\ queue' \in Seq(DOMAIN jobs') /\ waiting' \in Seq(DOMAIN jobs')
      /\ unfinished' \in Nat /\ permits' \in 0..MaxConcurrent
      /\ Placed' /\ Counted'
      /\ Reviews' = Reviews \cup {n + 1}
  BY <1>2, <1>3, <1>4, PutMoves
<1>6. /\ now \in Nat /\ MaxTime \in Nat /\ now <= MaxTime
      /\ {DedupWindow, Minute, MaxPerMinute} \subseteq Nat
  BY <1>1, IntakeAssumption DEF IntakeTypeOK
<1>7. \A k \in Reviews : /\ k \in 1..n /\ jobs'[k] = jobs[k]
                         /\ jobs[k].at \in Nat /\ jobs[k].at <= now
  BY <1>1, <1>4, <1>5, ReviewTyped DEF Windows
<1>8. jobs'[n + 1].at = now /\ jobs'[n + 1].item = i /\ n + 1 \notin Reviews
  BY <1>2, <1>5, <1>7
<1>9. /\ IsFiniteSet(Recent) /\ Cardinality(Recent) \in Nat
      /\ Cardinality(Recent) < MaxPerMinute /\ i \notin DOMAIN Remembered
      /\ InWindow = Recent /\ Recent \subseteq Reviews
  BY <1>1, FinitelyMany, Decision, WindowIsRecent DEF Recent
<1>10. Recent' = Recent \cup {n + 1}
  <2>1. \A k : k \in Recent' <=> k \in Reviews' /\ now - jobs'[k].at <= Minute
    BY <1>3 DEF Recent
  <2>2. \A k : k \in Recent <=> k \in Reviews /\ now - jobs[k].at <= Minute
    BY DEF Recent
  <2>3. n + 1 \in Reviews' /\ now - jobs'[n + 1].at <= Minute
    BY <1>5, <1>6, <1>8
  <2>4. \A k : k \in Recent' <=> k \in Recent \/ k = n + 1
    BY <1>5, <1>7, <2>1, <2>2, <2>3
  <2>5. QED
    BY <2>4
<1>11. PICK c \in Nat : /\ c <= MaxPerMinute /\ c = Cardinality(Recent \cup {n + 1})
                        /\ IsFiniteSet(Recent \cup {n + 1})
  BY <1>6, <1>8, <1>9, FS_AddElement
<1>12. /\ \A k : k \in DOMAIN Remembered <=>
                     k \in DOMAIN lastSeen /\ now - lastSeen[k] <= DedupWindow
       /\ \A k \in DOMAIN Remembered : Remembered[k] = lastSeen[k]
  BY RememberedAre
<1>13. \A k \in Reviews : jobs[k].item = i => now - jobs[k].at > DedupWindow
  <2>1. ASSUME NEW k \in Reviews, jobs[k].item = i, now - jobs[k].at <= DedupWindow
        PROVE  FALSE
    <3>1. i \in DOMAIN lastSeen /\ jobs[k].at <= lastSeen[i]
      BY <1>1, <2>1 DEF Windows
    <3>2. lastSeen[i] \in Nat
      <4>1. lastSeen[i] \in Range(lastSeen)
        BY <3>1 DEF Range
      <4>2. QED
        BY <1>1, <1>6, <4>1 DEF IntakeTypeOK
    <3>3. now - lastSeen[i] <= DedupWindow
      BY <1>6, <1>7, <2>1, <3>1, <3>2
    <3>4. QED
      BY <1>9, <1>12, <3>1, <3>3
  <2>2. QED
    BY <1>6, <1>7, <2>1
<1>14. /\ DOMAIN lastSeen' = DOMAIN Remembered \cup {i} /\ lastSeen'[i] = now
       /\ \A k \in DOMAIN Remembered : lastSeen'[k] = lastSeen[k]
  BY <1>3, <1>9, <1>12
<1>15. IntakeTypeOK'
  <2>1. DOMAIN lastSeen' \subseteq Items
    BY <1>1, <1>12, <1>14 DEF IntakeTypeOK
  <2>2. Range(lastSeen') \subseteq 0..MaxTime
    <3>1. \A k \in DOMAIN Remembered : lastSeen[k] \in 0..MaxTime
      BY <1>1, <1>12 DEF IntakeTypeOK, Range
    <3>2. QED
      BY <1>6, <1>14, <3>1 DEF Range
  <2>3. globalWindow' \subseteq DOMAIN jobs'
    <3>1. n + 1 \in DOMAIN jobs'
      BY <1>5, LenProperties
    <3>2. QED
      BY <1>3, <1>4, <1>5, <1>7, <1>9, <3>1
  <2>4. QED
    BY <1>1, <1>3, <1>5, <2>1, <2>2, <2>3 DEF IntakeTypeOK
<1>16. Windows'
  <2>1. \A k \in Reviews' : jobs'[k].at <= now'
    <3>1. \A k \in Reviews : jobs'[k].at <= now
      BY <1>7
    <3>2. jobs'[n + 1].at <= now
      BY <1>6, <1>8
    <3>3. QED
      BY <1>3, <1>5, <3>1, <3>2
  <2>2. globalWindow' \subseteq Reviews' /\ Recent' \subseteq globalWindow'
    BY <1>3, <1>5, <1>9, <1>10
  <2>3. Cardinality(Recent') <= MaxPerMinute
    BY <1>10, <1>11
  <2>4. \A k \in DOMAIN lastSeen' :
            \E m \in Reviews' : jobs'[m].item = k /\ jobs'[m].at = lastSeen'[k]
    <3>1. ASSUME NEW k \in DOMAIN Remembered
          PROVE  \E m \in Reviews' : jobs'[m].item = k /\ jobs'[m].at = lastSeen'[k]
      <4>1. PICK m \in Reviews : jobs[m].item = k /\ jobs[m].at = lastSeen[k]
        BY <1>1, <1>12, <3>1 DEF Windows
      <4>2. QED
        BY <1>5, <1>7, <1>14, <3>1, <4>1
    <3>2. QED
      BY <1>5, <1>8, <1>14, <3>1
  <2>5. ASSUME NEW k \in Reviews', now' - jobs'[k].at <= DedupWindow
        PROVE  jobs'[k].item \in DOMAIN lastSeen' /\ jobs'[k].at <= lastSeen'[jobs'[k].item]
    <3>1. CASE k = n + 1
      BY <1>6, <1>8, <1>14, <3>1
    <3>2. CASE k \in Reviews
      <4>1. /\ jobs[k].item # i /\ jobs[k].item \in DOMAIN lastSeen
            /\ jobs[k].at <= lastSeen[jobs[k].item]
        BY <1>1, <1>3, <1>6, <1>7, <1>13, <2>5, <3>2 DEF Windows
      <4>2. lastSeen[jobs[k].item] \in Nat
        <5>1. lastSeen[jobs[k].item] \in Range(lastSeen)
          BY <4>1 DEF Range
        <5>2. QED
          BY <1>1, <1>6, <5>1 DEF IntakeTypeOK
      <4>3. now - lastSeen[jobs[k].item] <= DedupWindow
        BY <1>3, <1>6, <1>7, <2>5, <3>2, <4>1, <4>2
      <4>4. QED
        BY <1>7, <1>12, <1>14, <3>2, <4>1, <4>3
    <3>3. QED
      BY <1>5, <3>1, <3>2
  <2>6. QED
    BY <2>1, <2>2, <2>3, <2>4, <2>5 DEF Windows
<1>17. WithinLimits'
  <2>1. ASSUME NEW j \in Reviews'
        PROVE  Cardinality({k \in Reviews' : jobs'[k].at - jobs'[j].at \in 0..Minute})
                   <= MaxPerMinute
    <3>1. CASE j = n + 1 \/ (j \in Reviews /\ now - jobs[j].at <= Minute)
      <4>1. PICK Near : /\ Near = {k \in Reviews' : jobs'[k].at - jobs'[j].at \in 0..Minute}
                        /\ \A k : k \in Near <=>
                               k \in Reviews' /\ jobs'[k].at - jobs'[j].at \in 0..Minute
        <5>1. PICK all : all = {k \in Reviews' : jobs'[k].at - jobs'[j].at \in 0..Minute}
          OBVIOUS
        <5>2. \A k : k \in all <=> k \in Reviews' /\ jobs'[k].at - jobs'[j].at \in 0..Minute
          BY <5>1
        <5>3. QED
          BY <5>1, <5>2, Zenon
      <4>2. Near \in SUBSET (Recent \cup {n + 1})
        <5>1. ASSUME NEW k \in Near, k # n + 1
              PROVE  k \in Recent
          <6>1. k \in Reviews /\ jobs[k].at - jobs'[j].at \in 0..Minute
            BY <1>5, <1>7, <4>1, <5>1
          <6>2. jobs'[j].at \in Nat /\ now - jobs'[j].at <= Minute
            BY <1>6, <1>7, <1>8, <3>1
          <6>3. now - jobs[k].at <= Minute
            BY <1>6, <1>7, <6>1, <6>2
          <6>4. QED
            BY <6>1, <6>3 DEF Recent
        <5>2. QED
          BY <5>1
      <4>3. IsFiniteSet(Near) /\ Cardinality(Near) <= c
        BY <1>11, <4>2, FS_Subset
      <4>4. QED
        BY <1>6, <1>11, <4>1, <4>3, FS_CardinalityType
    <3>2. CASE j \in Reviews /\ ~ (now - jobs[j].at <= Minute)
      <4>1. \A k : (k \in Reviews' /\ jobs'[k].at - jobs'[j].at \in 0..Minute)
                       <=> (k \in Reviews /\ jobs[k].at - jobs[j].at \in 0..Minute)
        <5>1. jobs'[j] = jobs[j] /\ jobs[j].at \in Nat
          BY <1>7, <3>2
        <5>2. ~ (jobs'[n + 1].at - jobs[j].at \in 0..Minute)
          BY <1>6, <1>8, <3>2, <5>1
        <5>3. \A k : k \in Reviews' <=> k \in Reviews \/ k = n + 1
          BY <1>5
        <5>4. \A k \in Reviews : jobs'[k] = jobs[k]
          BY <1>7
        <5>5. QED
          BY <5>1, <5>2, <5>3, <5>4, Zenon
      <4>2. {k \in Reviews' : jobs'[k].at - jobs'[j].at \in 0..Minute}
                = {k \in Reviews : jobs[k].at - jobs[j].at \in 0..Minute}
        BY <4>1
      <4>3. QED
        BY <1>1, <3>2, <4>2 DEF WithinLimits
    <3>3. QED
      BY <1>5, <3>1, <3>2
  <2>2. ASSUME NEW j \in Reviews', NEW k \in Reviews', j < k, jobs'[j].item = jobs'[k].item
        PROVE  jobs'[k].at - jobs'[j].at > DedupWindow
    <3>1. CASE k = n + 1
      <4>1. j \in Reviews
        BY <1>5, <2>2, <3>1
      <4>2. QED
        BY <1>7, <1>8, <1>13, <2>2, <3>1, <4>1
    <3>2. CASE k \in Reviews
      <4>1. j \in Reviews
        BY <1>4, <1>5, <1>7, <2>2, <3>2
      <4>2. QED
        BY <1>1, <1>7, <2>2, <3>2, <4>1 DEF WithinLimits
    <3>3. QED
      BY <1>5, <3>1, <3>2
  <2>3. QED
    BY <2>1, <2>2 DEF WithinLimits
<1>18. QED
  BY <1>5, <1>15, <1>16, <1>17 DEF IntakeInv

\* A dropped event and the clock only let what is out of its window be forgotten.
LEMMA Forgets ==
    ASSUME IntakeInv, UNCHANGED <<jobs, phase, queueVars>>,
           \/ /\ now' = now /\ lastSeen' = Remembered /\ globalWindow' = InWindow
           \/ /\ now' \in 0..MaxTime /\ now <= now'
              /\ UNCHANGED <<lastSeen, globalWindow>>
    PROVE  IntakeInv'
<1>1. IntakeTypeOK /\ Placed /\ Counted /\ Windows /\ WithinLimits
  BY DEF IntakeInv
<1>2. /\ now \in Nat /\ now' \in Nat /\ now <= now' /\ now' \in 0..MaxTime
      /\ {DedupWindow, Minute, MaxPerMinute} \subseteq Nat
  BY <1>1, IntakeAssumption DEF IntakeTypeOK
<1>3. /\ jobs' = jobs /\ phase' = phase /\ queue' = queue /\ unfinished' = unfinished
      /\ waiting' = waiting /\ permits' = permits
  BY DEF queueVars
<1>4. Reviews' = Reviews /\ Running' = Running /\ Open' = Open
  BY <1>3 DEF Reviews, Running, Open
<1>5. \A k \in Reviews : jobs[k].at \in Nat /\ jobs[k].at <= now
  BY <1>1, ReviewTyped DEF Windows
<1>6. InWindow = Recent /\ Recent \subseteq globalWindow /\ globalWindow \subseteq Reviews
  BY <1>1, WindowIsRecent DEF Windows
<1>7. Recent' \in SUBSET Recent
  <2>1. \A k \in Recent' : k \in Reviews /\ now' - jobs[k].at <= Minute
    BY <1>3, <1>4 DEF Recent
  <2>2. \A k \in Recent' : k \in Recent
    <3>1. TAKE k \in Recent'
    <3>2. k \in Reviews /\ now' - jobs[k].at <= Minute /\ jobs[k].at \in Nat
      BY <1>5, <2>1
    <3>3. now - jobs[k].at <= Minute
      BY <1>2, <3>2
    <3>4. QED
      BY <3>2, <3>3 DEF Recent
  <2>3. QED
    BY <2>2
<1>8. Cardinality(Recent') <= MaxPerMinute
  <2>1. IsFiniteSet(Recent) /\ Cardinality(Recent) \in Nat /\ Cardinality(Recent) <= MaxPerMinute
    BY <1>1, FinitelyMany DEF Windows
  <2>2. IsFiniteSet(Recent') /\ Cardinality(Recent') <= Cardinality(Recent)
    BY <1>7, <2>1, FS_Subset
  <2>3. Cardinality(Recent') \in Nat
    BY <2>2, FS_CardinalityType
  <2>4. QED
    BY <1>2, <2>1, <2>2, <2>3
<1>9. /\ globalWindow' \subseteq globalWindow /\ Recent' \subseteq globalWindow'
      /\ \A i \in DOMAIN lastSeen' : i \in DOMAIN lastSeen /\ lastSeen'[i] = lastSeen[i]
      /\ \A i \in DOMAIN lastSeen : now' - lastSeen[i] <= DedupWindow => i \in DOMAIN lastSeen'
  <2>1. CASE UNCHANGED <<lastSeen, globalWindow>>
    BY <1>6, <1>7, <2>1
  <2>2. CASE now' = now /\ lastSeen' = Remembered /\ globalWindow' = InWindow
    BY <1>6, <1>7, <2>2, RememberedAre
  <2>3. QED
    BY <2>1, <2>2
<1>10. \A i \in DOMAIN lastSeen : lastSeen[i] \in 0..MaxTime /\ lastSeen[i] \in Nat
  BY <1>1, IntakeAssumption DEF IntakeTypeOK, Range
<1>11. IntakeTypeOK'
  <2>1. DOMAIN lastSeen' \subseteq Items
    BY <1>1, <1>9 DEF IntakeTypeOK
  <2>2. Range(lastSeen') \subseteq 0..MaxTime
    BY <1>9, <1>10 DEF Range
  <2>3. globalWindow' \subseteq DOMAIN jobs
    BY <1>1, <1>9 DEF IntakeTypeOK
  <2>4. QED
    BY <1>1, <1>2, <1>3, <2>1, <2>2, <2>3 DEF IntakeTypeOK
<1>12. Windows'
  <2>1. \A k \in Reviews : jobs[k].at <= now'
    BY <1>2, <1>5
  <2>2. globalWindow' \subseteq Reviews
    BY <1>6, <1>9
  <2>3. \A i \in DOMAIN lastSeen' :
            \E k \in Reviews : jobs[k].item = i /\ jobs[k].at = lastSeen'[i]
    BY <1>1, <1>9 DEF Windows
  <2>4. ASSUME NEW k \in Reviews, now' - jobs[k].at <= DedupWindow
        PROVE  jobs[k].item \in DOMAIN lastSeen' /\ jobs[k].at <= lastSeen'[jobs[k].item]
    <3>1. now - jobs[k].at <= DedupWindow
      BY <1>2, <1>5, <2>4
    <3>2. jobs[k].item \in DOMAIN lastSeen /\ jobs[k].at <= lastSeen[jobs[k].item]
      BY <1>1, <3>1 DEF Windows
    <3>3. now' - lastSeen[jobs[k].item] <= DedupWindow
      BY <1>2, <1>5, <1>10, <2>4, <3>2
    <3>4. QED
      BY <1>9, <3>2, <3>3
  <2>5. QED
    BY <1>3, <1>4, <1>8, <1>9, <2>1, <2>2, <2>3, <2>4 DEF Windows
<1>13. WithinLimits'
  BY <1>1, <1>3, <1>4 DEF WithinLimits
<1>14. Placed' /\ Counted'
  BY <1>1, <1>3, <1>4 DEF Placed, Counted
<1>15. QED
  BY <1>11, <1>12, <1>13, <1>14 DEF IntakeInv

\* A story is no requirement event: the guard's windows stay.
LEMMA QueuesStory ==
    ASSUME IntakeInv, StoryReady
    PROVE  IntakeInv'
<1>1. IntakeTypeOK /\ Placed /\ Counted /\ Windows /\ WithinLimits
  BY DEF IntakeInv
<1>2. PICK job \in Job : job = [kind |-> "pipeline"]
  <2>1. [kind |-> "pipeline"] \in Job
    BY DEF Job
  <2>2. QED
    BY <2>1, Zenon
<1>3. Put(job) /\ now' = now /\ lastSeen' = lastSeen /\ globalWindow' = globalWindow
  BY <1>2 DEF StoryReady, guardVars
<1>4. /\ jobs' \in Seq(Job)
      /\ \A k \in DOMAIN jobs : k \in DOMAIN jobs' /\ jobs'[k] = jobs[k]
      /\ phase' \in [DOMAIN jobs' -> Phases]
      /\ queue' \in Seq(DOMAIN jobs') /\ waiting' \in Seq(DOMAIN jobs')
      /\ unfinished' \in Nat /\ permits' \in 0..MaxConcurrent
      /\ Placed' /\ Counted' /\ Reviews' = Reviews
  BY <1>2, <1>3, PutMoves
<1>5. \A k \in Reviews : k \in DOMAIN jobs /\ jobs'[k] = jobs[k]
  BY <1>4 DEF Reviews
<1>6. Recent' = Recent
  <2>1. \A k : k \in Recent' <=> k \in Recent
    BY <1>3, <1>4, <1>5 DEF Recent
  <2>2. QED
    BY <2>1
<1>7. IntakeTypeOK'
  BY <1>1, <1>3, <1>4 DEF IntakeTypeOK
<1>8. Windows'
  <2>1. \A k \in Reviews' : jobs'[k].at <= now'
    BY <1>1, <1>3, <1>4, <1>5 DEF Windows
  <2>2. /\ globalWindow' \subseteq Reviews' /\ Recent' \subseteq globalWindow'
        /\ Cardinality(Recent') <= MaxPerMinute
    BY <1>1, <1>3, <1>4, <1>6 DEF Windows
  <2>3. ASSUME NEW i \in DOMAIN lastSeen'
        PROVE  \E k \in Reviews' : jobs'[k].item = i /\ jobs'[k].at = lastSeen'[i]
    <3>1. PICK k \in Reviews : jobs[k].item = i /\ jobs[k].at = lastSeen[i]
      BY <1>1, <1>3 DEF Windows
    <3>2. QED
      BY <1>3, <1>4, <1>5, <3>1
  <2>4. ASSUME NEW k \in Reviews', now' - jobs'[k].at <= DedupWindow
        PROVE  jobs'[k].item \in DOMAIN lastSeen' /\ jobs'[k].at <= lastSeen'[jobs'[k].item]
    BY <1>1, <1>3, <1>4, <1>5, <2>4 DEF Windows
  <2>5. QED
    BY <2>1, <2>2, <2>3, <2>4 DEF Windows
<1>9. WithinLimits'
  <2>1. ASSUME NEW j \in Reviews
        PROVE  Cardinality({k \in Reviews' : jobs'[k].at - jobs'[j].at \in 0..Minute})
                   <= MaxPerMinute
    <3>1. \A k : (k \in Reviews' /\ jobs'[k].at - jobs'[j].at \in 0..Minute)
                     <=> (k \in Reviews /\ jobs[k].at - jobs[j].at \in 0..Minute)
      BY <1>4, <1>5, Zenon
    <3>2. {k \in Reviews' : jobs'[k].at - jobs'[j].at \in 0..Minute}
              = {k \in Reviews : jobs[k].at - jobs[j].at \in 0..Minute}
      BY <3>1
    <3>3. QED
      BY <1>1, <3>2 DEF WithinLimits
  <2>2. ASSUME NEW j \in Reviews, NEW k \in Reviews, j < k, jobs'[j].item = jobs'[k].item
        PROVE  jobs'[k].at - jobs'[j].at > DedupWindow
    BY <1>1, <1>5, <2>2 DEF WithinLimits
  <2>3. QED
    BY <1>4, <2>1, <2>2 DEF WithinLimits
<1>10. QED
  BY <1>4, <1>7, <1>8, <1>9 DEF IntakeInv

\* What the head and the tail of the queue and of the waiters are.
LEMMA HeadAndTail ==
    ASSUME NEW S, NEW s \in Seq(S), s # <<>>
    PROVE  /\ Head(s) \in S /\ Tail(s) \in Seq(S) /\ 1 \in DOMAIN s /\ Head(s) = s[1]
           /\ \A i \in DOMAIN Tail(s) : i + 1 \in DOMAIN s /\ i + 1 # 1 /\ Tail(s)[i] = s[i + 1]
           /\ \A i, k \in DOMAIN Tail(s) : i + 1 = k + 1 => i = k
OBVIOUS

LEMMA Consumes ==
    ASSUME IntakeInv, Consume
    PROVE  IntakeInv'
<1>1. IntakeTypeOK /\ Placed /\ Counted /\ Windows /\ WithinLimits
  BY DEF IntakeInv
<1>2. /\ DOMAIN phase = DOMAIN jobs /\ queue \in Seq(DOMAIN jobs)
      /\ waiting \in Seq(DOMAIN jobs)
  BY <1>1, LenProperties DEF IntakeTypeOK, Placed
<1>3. PICK j \in DOMAIN phase : j = Head(queue) /\ phase[j] = "queued"
  BY <1>1, <1>2, HeadAndTail DEF Consume, Placed
<1>4. /\ phase' = [phase EXCEPT ![j] = "waiting"] /\ queue' = Tail(queue)
      /\ waiting' = Append(waiting, j) /\ queue # <<>>
      /\ UNCHANGED <<guardVars, jobs, unfinished, permits>>
  BY <1>3 DEF Consume
<1>5. /\ phase' \in Seq(Phases) /\ Len(phase') = Len(phase)
      /\ DOMAIN phase' = DOMAIN phase /\ phase'[j] = "waiting"
      /\ \A k \in DOMAIN phase : k # j => phase'[k] = phase[k]
      /\ Running' = Running \ {j} /\ Open' = Open \cup {j}
  <2>1. "waiting" \in Phases /\ "waiting" \notin Active
    BY DEF Phases, Active
  <2>2. QED
    BY <1>1, <1>4, <2>1, PhaseMoves
<1>6. Running' = Running /\ Open' = Open
  <2>1. j \notin Running /\ j \in Open
    BY <1>3 DEF Running, Open, Active
  <2>2. QED
    BY <1>5, <2>1
<1>7. Windows' /\ WithinLimits'
  BY <1>1, <1>4, GuardKept
<1>8. /\ queue' \in Seq(DOMAIN jobs) /\ waiting' \in Seq(DOMAIN jobs)
      /\ \A i \in DOMAIN queue' : /\ i + 1 \in DOMAIN queue /\ i + 1 # 1
                                  /\ queue'[i] = queue[i + 1]
      /\ \A i, k \in DOMAIN queue' : i + 1 = k + 1 => i = k
      /\ 1 \in DOMAIN queue /\ j = queue[1]
  <2>1. Append(waiting, j) \in Seq(DOMAIN jobs)
    BY <1>2
  <2>2. QED
    BY <1>2, <1>3, <1>4, <2>1, HeadAndTail
<1>9. PICK w \in Nat : /\ DOMAIN waiting = 1..w /\ DOMAIN waiting' = 1..(w + 1)
                       /\ waiting'[w + 1] = j
                       /\ \A i \in 1..w : waiting'[i] = waiting[i]
  BY <1>2, <1>4, LenProperties, AppendProperties
<1>10. Placed'
  <2>1. \A i \in DOMAIN queue' : phase'[queue'[i]] = "queued"
    <3>1. TAKE i \in DOMAIN queue'
    <3>2. /\ queue[i + 1] \in DOMAIN phase /\ phase[queue[i + 1]] = "queued"
          /\ queue[i + 1] # j
      BY <1>1, <1>2, <1>8 DEF Placed
    <3>3. QED
      BY <1>5, <1>8, <3>2
  <2>2. \A i, k \in DOMAIN queue' : queue'[i] = queue'[k] => i = k
    BY <1>1, <1>8 DEF Placed
  <2>3. /\ \A i \in 1..w : waiting[i] \in DOMAIN phase /\ waiting[i] # j
        /\ \A i \in 1..w : phase[waiting[i]] = "waiting"
        /\ \A i, k \in 1..w : waiting[i] = waiting[k] => i = k
    <3>1. /\ \A i \in 1..w : phase[waiting[i]] = "waiting"
          /\ \A i, k \in 1..w : waiting[i] = waiting[k] => i = k
      BY <1>1, <1>9 DEF Placed
    <3>2. \A i \in 1..w : waiting[i] \in DOMAIN phase
      BY <1>2, <1>9
    <3>3. QED
      BY <1>3, <3>1, <3>2
  <2>4. \A i \in 1..(w + 1) : i = w + 1 \/ i \in 1..w
    OBVIOUS
  <2>5. \A i \in DOMAIN waiting' : phase'[waiting'[i]] = "waiting"
    BY <1>5, <1>9, <2>3, <2>4
  <2>6. \A i, k \in DOMAIN waiting' : waiting'[i] = waiting'[k] => i = k
    BY <1>9, <2>3, <2>4
  <2>7. QED
    BY <1>1, <1>4, <1>5, <2>1, <2>2, <2>5, <2>6 DEF Placed
<1>11. Counted'
  BY <1>1, <1>4, <1>6 DEF Counted
<1>12. IntakeTypeOK'
  <2>1. phase' \in [DOMAIN jobs -> Phases]
    BY <1>1, <1>4 DEF IntakeTypeOK, Phases
  <2>2. QED
    BY <1>1, <1>4, <1>8, <2>1 DEF IntakeTypeOK, guardVars
<1>13. QED
  BY <1>7, <1>10, <1>11, <1>12 DEF IntakeInv

LEMMA Starts ==
    ASSUME IntakeInv, StartJob
    PROVE  IntakeInv'
<1>1. IntakeTypeOK /\ Placed /\ Counted /\ Windows /\ WithinLimits
  BY DEF IntakeInv
<1>2. /\ DOMAIN phase = DOMAIN jobs /\ queue \in Seq(DOMAIN jobs)
      /\ waiting \in Seq(DOMAIN jobs)
  BY <1>1, LenProperties DEF IntakeTypeOK, Placed
<1>3. PICK j \in DOMAIN phase : j = Head(waiting) /\ phase[j] = "waiting"
  BY <1>1, <1>2, HeadAndTail DEF StartJob, Placed
<1>4. PICK p \in {"requesting", "generating"} : phase' = [phase EXCEPT ![j] = p]
  BY <1>3 DEF StartJob
<1>5. /\ waiting' = Tail(waiting) /\ waiting # <<>> /\ permits > 0 /\ permits' = permits - 1
      /\ UNCHANGED <<guardVars, jobs, queue, unfinished>>
  BY DEF StartJob
<1>6. /\ phase' \in Seq(Phases) /\ Len(phase') = Len(phase)
      /\ DOMAIN phase' = DOMAIN phase /\ phase'[j] = p
      /\ \A k \in DOMAIN phase : k # j => phase'[k] = phase[k]
      /\ Running' = Running \cup {j} /\ Open' = Open \cup {j}
  <2>1. p \in Phases /\ p \in Active /\ p # "ended"
    BY DEF Phases, Active
  <2>2. QED
    BY <1>1, <1>4, <2>1, PhaseMoves
<1>7. j \notin Running /\ Open' = Open
  <2>1. j \notin Running /\ j \in Open
    BY <1>3 DEF Running, Open, Active
  <2>2. QED
    BY <1>6, <2>1
<1>8. Windows' /\ WithinLimits'
  BY <1>1, <1>5, GuardKept
<1>9. /\ waiting' \in Seq(DOMAIN jobs)
      /\ \A i \in DOMAIN waiting' : /\ i + 1 \in DOMAIN waiting /\ i + 1 # 1
                                    /\ waiting'[i] = waiting[i + 1]
      /\ \A i, k \in DOMAIN waiting' : i + 1 = k + 1 => i = k
      /\ 1 \in DOMAIN waiting /\ j = waiting[1]
  BY <1>2, <1>3, <1>5, HeadAndTail
<1>10. Placed'
  <2>1. \A i \in DOMAIN waiting' : phase'[waiting'[i]] = "waiting"
    <3>1. TAKE i \in DOMAIN waiting'
    <3>2. /\ waiting[i + 1] \in DOMAIN phase /\ phase[waiting[i + 1]] = "waiting"
          /\ waiting[i + 1] # j
      BY <1>1, <1>2, <1>9 DEF Placed
    <3>3. QED
      BY <1>6, <1>9, <3>2
  <2>2. \A i, k \in DOMAIN waiting' : waiting'[i] = waiting'[k] => i = k
    BY <1>1, <1>9 DEF Placed
  <2>3. \A i \in DOMAIN queue : queue[i] \in DOMAIN phase /\ queue[i] # j
    BY <1>1, <1>2, <1>3 DEF Placed
  <2>4. \A i \in DOMAIN queue' : phase'[queue'[i]] = "queued"
    BY <1>1, <1>5, <1>6, <2>3 DEF Placed
  <2>5. QED
    BY <1>1, <1>5, <1>6, <2>1, <2>2, <2>4 DEF Placed
<1>11. Counted' /\ permits' \in 0..MaxConcurrent
  <2>1. IsFiniteSet(Running) /\ Cardinality(Running) \in Nat
    BY <1>1, FinitelyMany
  <2>2. Cardinality(Running') = Cardinality(Running) + 1
    BY <1>6, <1>7, <2>1, FS_AddElement
  <2>3. permits \in 0..MaxConcurrent /\ MaxConcurrent \in Nat
    BY <1>1, IntakeAssumption DEF IntakeTypeOK
  <2>4. QED
    BY <1>1, <1>5, <1>7, <2>1, <2>2, <2>3 DEF Counted
<1>12. IntakeTypeOK'
  <2>1. phase' \in [DOMAIN jobs -> Phases]
    BY <1>1, <1>4 DEF IntakeTypeOK, Phases
  <2>2. QED
    BY <1>1, <1>5, <1>9, <1>11, <2>1 DEF IntakeTypeOK, guardVars
<1>13. QED
  BY <1>8, <1>10, <1>11, <1>12 DEF IntakeInv

LEMMA IntakeStep ==
    ASSUME IntakeInv, IntakeNext
    PROVE  IntakeInv'
<1>1. CASE Tick
  <2>1. /\ now \in 0..MaxTime /\ MaxTime \in Nat /\ now < MaxTime /\ now' = now + 1
        /\ UNCHANGED <<lastSeen, globalWindow, jobs, phase, queueVars>>
    BY <1>1, IntakeAssumption DEF Tick, IntakeInv, IntakeTypeOK
  <2>2. now' \in 0..MaxTime /\ now <= now'
    BY <2>1
  <2>3. QED
    BY <2>1, <2>2, Forgets
<1>2. ASSUME NEW i \in Items, RequirementReady(i)
      PROVE  IntakeInv'
  <2>1. CASE DropReason(i) = "None"
    BY <1>2, <2>1, Accepts
  <2>2. CASE DropReason(i) # "None"
    <3>1. /\ now' = now /\ lastSeen' = Remembered /\ globalWindow' = InWindow
          /\ UNCHANGED <<jobs, phase, queueVars>>
      BY <1>2, <2>2 DEF RequirementReady
    <3>2. QED
      BY <3>1, Forgets
  <2>3. QED
    BY <2>1, <2>2
<1>3. QED
  BY <1>1, <1>2, QueuesStory, Consumes, Starts DEF IntakeNext

-----------------------------------------------------------------------------
(* The inductive invariant of the pipelines.                               *)

\* The document is there while its batches are answered.
Reading ==
    /\ doc \in [1..MaxJobs -> Docs \cup {NoDoc}]
    /\ \A j \in 1..MaxJobs : In(j, "batching") => doc[j] \in Docs

\* A job that has a work item has created all it will ever create.
Made ==
    \A k \in DOMAIN workItems :
        /\ k \in Name /\ workItems[k] \in WorkItem
        /\ In(k.job, "classifying") \/ In(k.job, "reviewing") \/ In(k.job, "ended")

\* A running pipeline's key is one of its own work items, that of the case it stands with
\* if no case up to it was skipped.
Keyed(j) ==
    /\ keys[j] \in Seq(Name \cup {NoKey}) /\ Len(keys[j]) <= MaxCases
    /\ keys[j] # <<>> => In(j, "classifying") \/ In(j, "reviewing")
    /\ \A c \in DOMAIN keys[j] : keys[j][c] # NoKey =>
           /\ keys[j][c] \in DOMAIN workItems /\ keys[j][c].job = j
           /\ keys[j][c].case = c <=>
                  \A d \in 1..c : [job |-> j, case |-> d] \in DOMAIN workItems

\* A label or comment is on a work item of its job, that of its case if no case up to it
\* was skipped.
Noted(k) ==
    \A note \in Notes(k) :
        /\ note \in Name /\ note.job = k.job
        /\ note.case = k.case <=>
               \A d \in 1..note.case : [job |-> note.job, case |-> d] \in DOMAIN workItems

PairInv ==
    /\ configured \in BOOLEAN
    /\ Reading /\ Made
    /\ keys = [j \in 1..MaxJobs |-> keys[j]]
    /\ \A j \in 1..MaxJobs : Keyed(j)
    /\ \A k \in DOMAIN workItems : Noted(k)

\* Where the jobs stand after a job has moved on.
LEMMA InAfter ==
    ASSUME IntakeInv, NEW j \in DOMAIN phase, NEW p \in Phases,
           phase' = [phase EXCEPT ![j] = p]
    PROVE  \A k, where : In(k, where)' <=> IF k = j THEN where = p ELSE In(k, where)
BY DEF In, IntakeInv, Placed

\* Steps after which a running job has not moved back keep what does not concern its keys.
LEMMA PairKept ==
    ASSUME PairInv, UNCHANGED <<configured, keys, workItems>>,
           Reading',
           \A k : /\ In(k, "classifying") => In(k, "classifying")'
                  /\ In(k, "reviewing") => In(k, "reviewing")'
                  /\ In(k, "ended") => In(k, "ended")'
    PROVE  PairInv'
<1>1. Made'
  BY DEF PairInv, Made
<1>2. \A j \in 1..MaxJobs : Keyed(j)'
  BY DEF PairInv, Keyed
<1>3. \A k \in DOMAIN workItems : Noted(k)'
  BY DEF PairInv, Noted, Notes
<1>4. QED
  BY <1>1, <1>2, <1>3 DEF PairInv

\* The intake moves no job that has begun.
LEMMA IntakePairs ==
    ASSUME IntakeInv, PairInv, IntakeNext, UNCHANGED pipelineVars
    PROVE  PairInv'
<1>1. IntakeTypeOK /\ Placed
  BY DEF IntakeInv
<1>2. PICK n \in Nat : n = Len(phase) /\ DOMAIN phase = 1..n /\ DOMAIN jobs = 1..n
  BY <1>1, LenProperties DEF IntakeTypeOK, Placed
<1>3. \A k, where : where \notin {"queued", "waiting", "requesting", "generating"} =>
          (In(k, where)' <=> In(k, where))
  <2>1. CASE UNCHANGED phase
    BY <2>1 DEF In
  <2>2. CASE phase' = Append(phase, "queued")
    <3>1. phase \in Seq(Phases)
      BY <1>1 DEF Placed
    <3>2. /\ DOMAIN phase' = 1..(n + 1) /\ phase'[n + 1] = "queued"
          /\ \A k \in 1..n : phase'[k] = phase[k]
      BY <1>2, <2>2, <3>1, AppendProperties
    <3>3. \A k : k \in 1..(n + 1) <=> k \in 1..n \/ k = n + 1
      OBVIOUS
    <3>4. n + 1 \notin 1..n
      OBVIOUS
    <3>5. QED
      BY <1>2, <3>2, <3>3, <3>4 DEF In
  <2>3. CASE \E j \in DOMAIN phase, p \in {"waiting", "requesting", "generating"} :
                 /\ phase[j] \in {"queued", "waiting"}
                 /\ phase' = [phase EXCEPT ![j] = p]
    BY <2>3 DEF In
  <2>4. UNCHANGED phase \/ phase' = Append(phase, "queued")
        \/ \E j \in DOMAIN phase, p \in {"waiting", "requesting", "generating"} :
               /\ phase[j] \in {"queued", "waiting"}
               /\ phase' = [phase EXCEPT ![j] = p]
    <3>1. CASE Tick
      BY <3>1 DEF Tick
    <3>2. CASE \E i \in Items : RequirementReady(i)
      BY <3>2 DEF RequirementReady, Put
    <3>3. CASE StoryReady
      BY <3>3 DEF StoryReady, Put
    <3>4. CASE Consume
      <4>1. Head(queue) \in DOMAIN phase /\ phase[Head(queue)] = "queued"
        BY <1>1, <1>2, <3>4, HeadAndTail DEF Consume, Placed, IntakeTypeOK
      <4>2. QED
        BY <3>4, <4>1 DEF Consume
    <3>5. CASE StartJob
      <4>1. Head(waiting) \in DOMAIN phase /\ phase[Head(waiting)] = "waiting"
        BY <1>1, <1>2, <3>5, HeadAndTail DEF StartJob, Placed, IntakeTypeOK
      <4>2. QED
        BY <3>5, <4>1 DEF StartJob
    <3>6. QED
      BY <3>1, <3>2, <3>3, <3>4, <3>5 DEF IntakeNext
  <2>5. QED
    BY <2>1, <2>2, <2>3, <2>4
<1>4. UNCHANGED <<configured, doc, keys, workItems>>
  BY DEF pipelineVars
<1>5. Reading'
  BY <1>3, <1>4 DEF PairInv, Reading
<1>6. QED
  BY <1>3, <1>4, <1>5, PairKept

\* A step of a job is a step of a job that runs: it goes on, or ends and is done.
LEMMA StepMoves ==
    ASSUME IntakeInv, NEW j \in 1..MaxJobs, Step(j)
    PROVE  /\ j \in DOMAIN phase /\ phase[j] \in Active
           /\ EndsJob(j) \/ \E next \in Active : MovesTo(j, next)
<1>1. CASE GivesUp(j)
  BY <1>1 DEF GivesUp, Awaiting, In, Active, EndsPipeline
<1>2. CASE ReviewAnswered(j)
  BY <1>2 DEF ReviewAnswered, In, Active
<1>3. CASE ReadsDocument(j)
  BY <1>3 DEF ReadsDocument, In, Active
<1>4. CASE WritesTestCases(j)
  BY <1>4 DEF WritesTestCases, In, Active, EndsPipeline
<1>5. CASE WritesLabels(j)
  BY <1>5 DEF WritesLabels, Writes, In, Active, EndsPipeline
<1>6. CASE WritesComments(j)
  BY <1>6 DEF WritesComments, Writes, In, Active, EndsPipeline
<1>7. QED
  BY <1>1, <1>2, <1>3, <1>4, <1>5, <1>6 DEF Step

\* What an answer says of a key it was given is about the case that carries the key.
LEMMA AboutPairs ==
    ASSUME PairInv, NEW j \in 1..MaxJobs, NEW k \in Known(j)
    PROVE  /\ k \in DOMAIN workItems /\ About(j, k) \in Name
           /\ About(j, k).job = j /\ k.job = j
           /\ About(j, k).case = k.case <=>
                  \A d \in 1..About(j, k).case : [job |-> j, case |-> d] \in DOMAIN workItems
<1>1. k \in Range(keys[j]) /\ k # NoKey
  BY DEF Known
<1>2. Keyed(j)
  BY DEF PairInv
<1>3. DOMAIN keys[j] \subseteq 1..MaxCases
  <2>1. Len(keys[j]) <= MaxCases /\ Len(keys[j]) \in Nat /\ DOMAIN keys[j] = 1..Len(keys[j])
    BY <1>2, LenProperties DEF Keyed
  <2>2. MaxCases \in Nat
    BY PipelineAssumption
  <2>3. QED
    BY <2>1, <2>2
<1>4. PICK c \in 1..MaxCases : /\ c \in DOMAIN keys[j] /\ keys[j][c] = k
                               /\ About(j, k) = [job |-> j, case |-> c]
  <2>1. \E c \in 1..MaxCases : k \in Range(keys[j]) => c \in DOMAIN keys[j] /\ keys[j][c] = k
    BY <1>1, <1>3 DEF Range
  <2>2. PICK c : c = CHOOSE d \in 1..MaxCases :
                         k \in Range(keys[j]) => d \in DOMAIN keys[j] /\ keys[j][d] = k
    OBVIOUS
  <2>3. c \in 1..MaxCases /\ (k \in Range(keys[j]) => c \in DOMAIN keys[j] /\ keys[j][c] = k)
    BY <2>1, <2>2, Zenon
  <2>4. About(j, k) = [job |-> j, case |-> c]
    BY <2>2 DEF About
  <2>5. QED
    BY <1>1, <2>3, <2>4
<1>5. /\ k \in DOMAIN workItems /\ k.job = j
      /\ k.case = c <=> \A d \in 1..c : [job |-> j, case |-> d] \in DOMAIN workItems
  BY <1>1, <1>2, <1>4 DEF Keyed
<1>6. About(j, k) \in Name /\ About(j, k).job = j /\ About(j, k).case = c
  BY <1>4 DEF Name
<1>7. QED
  BY <1>5, <1>6

\* A pipeline goes on to the review, or ends, and adds notes that are paired as they should.
LEMMA Proceeds ==
    ASSUME IntakeInv, PairInv, NEW j \in 1..MaxJobs, j \in DOMAIN phase,
           \/ /\ phase[j] = "classifying" /\ phase' = [phase EXCEPT ![j] = "reviewing"]
              /\ UNCHANGED <<doc, keys>>
           \/ EndsPipeline(j),
           configured' = configured, DOMAIN workItems' = DOMAIN workItems,
           \A k \in DOMAIN workItems :
               /\ workItems'[k] \in WorkItem
               /\ \A note \in Notes(k)' :
                      \/ note \in Notes(k)
                      \/ /\ note \in Name /\ note.job = k.job
                         /\ note.case = k.case <=>
                                \A d \in 1..note.case :
                                    [job |-> note.job, case |-> d] \in DOMAIN workItems
    PROVE  PairInv'
<1>1. PICK p \in {"reviewing", "ended"} :
          /\ phase' = [phase EXCEPT ![j] = p]
          /\ p = "reviewing" => phase[j] = "classifying" /\ UNCHANGED <<doc, keys>>
          /\ p = "ended" => /\ doc' = [doc EXCEPT ![j] = NoDoc]
                            /\ keys' = [keys EXCEPT ![j] = <<>>]
  BY DEF EndsPipeline, EndsJob
<1>2. \A k, where : In(k, where)' <=> IF k = j THEN where = p ELSE In(k, where)
  <2>1. p \in Phases
    BY DEF Phases
  <2>2. QED
    BY <1>1, <2>1, InAfter
<1>3. Reading'
  <2>1. doc \in [1..MaxJobs -> Docs \cup {NoDoc}]
        /\ \A k \in 1..MaxJobs : In(k, "batching") => doc[k] \in Docs
    BY DEF PairInv, Reading
  <2>2. doc' \in [1..MaxJobs -> Docs \cup {NoDoc}]
        /\ \A k \in 1..MaxJobs : k # j => doc'[k] = doc[k]
    BY <1>1, <2>1
  <2>3. \A k \in 1..MaxJobs : In(k, "batching")' => k # j /\ In(k, "batching")
    BY <1>2
  <2>4. QED
    BY <2>1, <2>2, <2>3 DEF Reading
<1>4. Made'
  <2>1. ASSUME NEW k \in DOMAIN workItems
        PROVE  /\ k \in Name /\ workItems'[k] \in WorkItem
               /\ In(k.job, "classifying")' \/ In(k.job, "reviewing")' \/ In(k.job, "ended")'
    BY <1>2, <2>1 DEF PairInv, Made
  <2>2. QED
    BY <2>1 DEF Made
<1>5. keys = [k \in 1..MaxJobs |-> keys[k]]
  BY DEF PairInv
<1>6. keys' = [k \in 1..MaxJobs |-> keys'[k]]
  BY <1>1, <1>5
<1>7. ASSUME NEW k \in 1..MaxJobs
      PROVE  Keyed(k)'
  <2>1. CASE keys'[k] = <<>>
    <3>1. <<>> \in Seq(Name \cup {NoKey}) /\ Len(<<>>) = 0 /\ DOMAIN <<>> = {}
      BY EmptySeq
    <3>2. MaxCases \in Nat
      BY PipelineAssumption
    <3>3. QED
      BY <2>1, <3>1, <3>2 DEF Keyed
  <2>2. CASE keys'[k] = keys[k] /\ (k = j => p = "reviewing")
    <3>1. Keyed(k)
      BY DEF PairInv
    <3>2. In(k, "classifying") \/ In(k, "reviewing") =>
              In(k, "classifying")' \/ In(k, "reviewing")'
      BY <1>2, <2>2
    <3>3. QED
      BY <2>2, <3>1, <3>2 DEF Keyed
  <2>3. QED
    BY <1>1, <1>5, <2>1, <2>2
<1>8. ASSUME NEW k \in DOMAIN workItems
      PROVE  Noted(k)'
  BY <1>8 DEF PairInv, Noted
<1>9. configured' \in BOOLEAN
  BY DEF PairInv
<1>10. QED
  BY <1>3, <1>4, <1>6, <1>7, <1>8, <1>9 DEF PairInv

\* Labels and comments are written under keys the pipeline knows.
LEMMA WritesPair ==
    ASSUME IntakeInv, PairInv, NEW j \in 1..MaxJobs, WritesLabels(j) \/ WritesComments(j)
    PROVE  PairInv'
<1>1. PICK changed :
          /\ \E written \in SUBSET Known(j) :
                 workItems' = [k \in DOMAIN workItems |->
                                  IF k \in written THEN changed[k] ELSE workItems[k]]
          /\ \/ changed = [k \in DOMAIN workItems |->
                              [workItems[k] EXCEPT !.label = About(j, k)]]
             \/ changed = [k \in DOMAIN workItems |->
                              [workItems[k] EXCEPT !.comments = @ \cup {About(j, k)}]]
  <2>1. \A named \in Named(j) : named \in SUBSET Known(j)
    BY DEF Named
  <2>2. CASE WritesLabels(j)
    BY <2>1, <2>2, Zenon DEF WritesLabels, Writes
  <2>3. CASE WritesComments(j)
    BY <2>1, <2>3, Zenon DEF WritesComments, Writes
  <2>4. QED
    BY <2>2, <2>3
<1> PICK written \in SUBSET Known(j) :
        workItems' = [k \in DOMAIN workItems |->
                         IF k \in written THEN changed[k] ELSE workItems[k]]
  BY <1>1
<1>2. /\ j \in DOMAIN phase /\ configured' = configured
      /\ \/ /\ phase[j] = "classifying" /\ phase' = [phase EXCEPT ![j] = "reviewing"]
            /\ UNCHANGED <<doc, keys>>
         \/ EndsPipeline(j)
  BY DEF WritesLabels, WritesComments, Writes, In, MovesTo
<1>3. ASSUME NEW k \in DOMAIN workItems
      PROVE  /\ workItems'[k] \in WorkItem
             /\ \A note \in Notes(k)' :
                    \/ note \in Notes(k)
                    \/ /\ note \in Name /\ note.job = k.job
                       /\ note.case = k.case <=>
                              \A d \in 1..note.case :
                                  [job |-> note.job, case |-> d] \in DOMAIN workItems
  <2>1. workItems[k] \in WorkItem
    BY DEF PairInv, Made
  <2>2. CASE k \notin written
    BY <1>1, <2>1, <2>2 DEF Notes
  <2>3. CASE k \in written
    <3>1. PICK about \in Name :
              /\ about = About(j, k) /\ about.job = j /\ k.job = j
              /\ about.case = k.case <=>
                     \A d \in 1..about.case : [job |-> j, case |-> d] \in DOMAIN workItems
      BY <2>3, AboutPairs
    <3>2. \/ workItems'[k] = [workItems[k] EXCEPT !.label = about]
          \/ workItems'[k] = [workItems[k] EXCEPT !.comments = @ \cup {about}]
      BY <1>1, <2>3, <3>1
    <3>3. workItems'[k] \in WorkItem /\ Notes(k)' \subseteq Notes(k) \cup {about}
      BY <2>1, <3>2 DEF WorkItem, Notes
    <3>4. QED
      BY <3>1, <3>3
  <2>4. QED
    BY <2>2, <2>3
<1>4. DOMAIN workItems' = DOMAIN workItems
  BY <1>1
<1>5. QED
  BY <1>2, <1>3, <1>4, Proceeds

\* zip() gives the i-th id made to the i-th case: to its own if none before was skipped.
LEMMA AssignedPairs ==
    ASSUME NEW j \in 1..MaxJobs, NEW n \in 0..MaxCases, NEW made \in SUBSET (1..n)
    PROVE  /\ Assigned(j, n, made) \in Seq(Name \cup {NoKey})
           /\ Len(Assigned(j, n, made)) <= MaxCases
           /\ \A c \in DOMAIN Assigned(j, n, made) : Assigned(j, n, made)[c] # NoKey =>
                  \E m \in made : /\ Assigned(j, n, made)[c] = [job |-> j, case |-> m]
                                  /\ m = c <=> \A d \in 1..c : d \in made
<1>1. n \in Nat /\ MaxCases \in Nat /\ n <= MaxCases /\ Cardinality(made) \in Nat
  <2>1. n \in Nat /\ MaxCases \in Nat /\ n <= MaxCases
    BY PipelineAssumption
  <2>2. IsFiniteSet(made)
    <3>1. IsFiniteSet(1..n)
      BY <2>1, FS_Interval
    <3>2. QED
      BY <3>1, FS_Subset
  <2>3. QED
    BY <2>1, <2>2, FS_CardinalityType
<1>2. PICK ks : ks = Assigned(j, n, made)
  OBVIOUS
<1>3. /\ ks = [c \in 1..n |-> ks[c]]
      /\ \A c \in 1..n : ks[c] = IF c <= Cardinality(made)
                                 THEN [job |-> j, case |-> Nth(made, c)] ELSE NoKey
  BY <1>2 DEF Assigned
<1>4. \A c \in 1..n : c <= Cardinality(made) =>
          Nth(made, c) \in made /\ (Nth(made, c) = c <=> 1..c \subseteq made)
  <2>1. TAKE c \in 1..n
  <2>2. HAVE c <= Cardinality(made)
  <2>3. c \in 1..Cardinality(made)
    BY <1>1, <2>2
  <2>4. QED
    BY <1>1, <2>3, NthPairs
<1>5. \A c \in 1..n : ks[c] \in Name \cup {NoKey}
  <2>1. TAKE c \in 1..n
  <2>2. CASE c <= Cardinality(made)
    <3>1. Nth(made, c) \in made
      BY <1>4, <2>2
    <3>2. Nth(made, c) \in 1..MaxCases
      <4>1. Nth(made, c) \in 1..n
        BY <3>1
      <4>2. QED
        BY <1>1, <4>1
    <3>3. QED
      BY <1>3, <2>2, <3>2 DEF Name
  <2>3. CASE ~ c <= Cardinality(made)
    BY <1>3, <2>3
  <2>4. QED
    BY <2>2, <2>3
<1>6. ks \in Seq(Name \cup {NoKey}) /\ Len(ks) = n /\ DOMAIN ks = 1..n
  <2>1. [c \in 1..n |-> ks[c]] \in [1..n -> Name \cup {NoKey}]
    BY <1>5
  <2>2. [c \in 1..n |-> ks[c]] \in Seq(Name \cup {NoKey})
    BY <1>1, <2>1
  <2>3. ks \in Seq(Name \cup {NoKey}) /\ DOMAIN ks = 1..n
    BY <1>3, <2>2
  <2>4. QED
    BY <1>1, <2>3, LenProperties
<1>7. ASSUME NEW c \in 1..n, ks[c] # NoKey
      PROVE  \E m \in made : /\ ks[c] = [job |-> j, case |-> m]
                             /\ m = c <=> \A d \in 1..c : d \in made
  <2>1. c <= Cardinality(made)
    BY <1>3, <1>7
  <2>2. Nth(made, c) \in made /\ (Nth(made, c) = c <=> 1..c \subseteq made)
    BY <1>4, <2>1
  <2>3. ks[c] = [job |-> j, case |-> Nth(made, c)]
    BY <1>3, <2>1
  <2>4. QED
    BY <2>2, <2>3
<1>8. QED
  BY <1>1, <1>2, <1>6, <1>7

LEMMA CasesBounded ==
    ASSUME NEW d \in Docs, NEW n \in CaseCounts[d]
    PROVE  n \in 0..MaxCases
<1>1. CaseCounts[d] = UNION {IF Batches(k) = 0 THEN {0} ELSE 0..MaxCases : k \in Criteria(d)}
  BY DEF CaseCounts
<1>2. 0 \in 0..MaxCases
  BY PipelineAssumption
<1>3. PICK k \in Criteria(d) : n \in IF Batches(k) = 0 THEN {0} ELSE 0..MaxCases
  BY <1>1
<1>4. QED
  BY <1>2, <1>3

\* A job creates its work items at once; what stood before is another job's.
LEMMA CreatesPair ==
    ASSUME IntakeInv, PairInv, NEW j \in 1..MaxJobs, WritesTestCases(j)
    PROVE  PairInv'
<1>1. j \in DOMAIN phase /\ phase[j] = "batching" /\ doc[j] \in Docs
  BY DEF WritesTestCases, In, PairInv, Reading
<1>2. PICK n \in 0..MaxCases, p \in {"classifying", "ended"} :
          \E made \in SUBSET (1..n) :
              /\ workItems' = With(j, made)
              /\ phase' = [phase EXCEPT ![j] = p] /\ doc' = [doc EXCEPT ![j] = NoDoc]
              /\ p = "classifying" => keys' = [keys EXCEPT ![j] = Assigned(j, n, made)]
              /\ p = "ended" => keys' = [keys EXCEPT ![j] = <<>>]
  <2>1. PICK n \in CaseCounts[doc[j]] : \E made \in SUBSET (1..n) :
            /\ workItems' = With(j, made)
            /\ \/ /\ keys' = [keys EXCEPT ![j] = Assigned(j, n, made)]
                  /\ doc' = [doc EXCEPT ![j] = NoDoc]
                  /\ MovesTo(j, "classifying")
               \/ EndsPipeline(j)
    BY DEF WritesTestCases
  <2>2. n \in 0..MaxCases
    BY <1>1, <2>1, CasesBounded
  <2>3. QED
    BY <2>1, <2>2 DEF MovesTo, EndsPipeline, EndsJob
<1> PICK made \in SUBSET (1..n) :
        /\ workItems' = With(j, made)
        /\ p = "classifying" => keys' = [keys EXCEPT ![j] = Assigned(j, n, made)]
  BY <1>2
<1>3. \A k, where : In(k, where)' <=> IF k = j THEN where = p ELSE In(k, where)
  <2>1. p \in Phases
    BY DEF Phases
  <2>2. QED
    BY <1>1, <1>2, <2>1, InAfter
<1>4. \A k \in DOMAIN workItems : k.job # j
  BY <1>1 DEF PairInv, Made, In
<1>5. /\ DOMAIN workItems' = DOMAIN workItems \cup {[job |-> j, case |-> c] : c \in made}
      /\ \A k \in DOMAIN workItems : workItems'[k] = workItems[k]
      /\ \A k \in DOMAIN workItems' :
             k \notin DOMAIN workItems => workItems'[k] = [label |-> NoLabel, comments |-> {}]
  BY DEF With
<1>6. /\ \A i, d : i # j => ([job |-> i, case |-> d] \in DOMAIN workItems'
                                 <=> [job |-> i, case |-> d] \in DOMAIN workItems)
      /\ \A d : [job |-> j, case |-> d] \in DOMAIN workItems' <=> d \in made
  <2>1. \A i, d : [job |-> i, case |-> d] \in {[job |-> j, case |-> c] : c \in made}
                      <=> i = j /\ d \in made
    OBVIOUS
  <2>2. \A d : [job |-> j, case |-> d] \notin DOMAIN workItems
    BY <1>4
  <2>3. QED
    BY <1>5, <2>1, <2>2
<1>7. Reading'
  <2>1. doc' \in [1..MaxJobs -> Docs \cup {NoDoc}]
        /\ \A k \in 1..MaxJobs : k # j => doc'[k] = doc[k]
    BY <1>2 DEF PairInv, Reading
  <2>2. \A k \in 1..MaxJobs : In(k, "batching")' => k # j /\ In(k, "batching")
    BY <1>3
  <2>3. QED
    BY <2>1, <2>2 DEF PairInv, Reading
<1>8. Made'
  <2>1. ASSUME NEW k \in DOMAIN workItems
        PROVE  /\ k \in Name /\ workItems'[k] \in WorkItem
               /\ In(k.job, "classifying")' \/ In(k.job, "reviewing")' \/ In(k.job, "ended")'
    BY <1>3, <1>4, <1>5 DEF PairInv, Made
  <2>2. ASSUME NEW c \in made
        PROVE  /\ [job |-> j, case |-> c] \in Name
               /\ workItems'[[job |-> j, case |-> c]] \in WorkItem
               /\ In(j, "classifying")' \/ In(j, "ended")'
    <3>1. c \in 1..MaxCases
      BY PipelineAssumption
    <3>2. [job |-> j, case |-> c] \in Name
      BY <3>1 DEF Name
    <3>3. workItems'[[job |-> j, case |-> c]] = [label |-> NoLabel, comments |-> {}]
      BY <1>4, <1>5
    <3>4. workItems'[[job |-> j, case |-> c]] \in WorkItem
      BY <3>3 DEF WorkItem
    <3>5. QED
      BY <1>3, <3>2, <3>4
  <2>3. QED
    BY <1>5, <2>1, <2>2 DEF Made
<1>9. keys = [k \in 1..MaxJobs |-> keys[k]]
  BY DEF PairInv
<1>10. keys' = [k \in 1..MaxJobs |-> keys'[k]] /\ \A k \in 1..MaxJobs : k # j => keys'[k] = keys[k]
  BY <1>2, <1>9
<1>11. ASSUME NEW k \in 1..MaxJobs, k # j
       PROVE  Keyed(k)'
  <2>1. Keyed(k) /\ keys'[k] = keys[k]
    BY <1>10, <1>11 DEF PairInv
  <2>2. \A d : [job |-> k, case |-> d] \in DOMAIN workItems'
                   <=> [job |-> k, case |-> d] \in DOMAIN workItems
    BY <1>6, <1>11
  <2>3. In(k, "classifying") \/ In(k, "reviewing") =>
            In(k, "classifying")' \/ In(k, "reviewing")'
    BY <1>3, <1>11
  <2>4. DOMAIN workItems \subseteq DOMAIN workItems'
    BY <1>5
  <2>5. QED
    BY <2>1, <2>2, <2>3, <2>4 DEF Keyed
<1>12. Keyed(j)'
  <2>1. CASE p = "ended"
    <3>1. keys'[j] = <<>>
      BY <1>2, <1>9, <2>1
    <3>2. <<>> \in Seq(Name \cup {NoKey}) /\ Len(<<>>) = 0 /\ DOMAIN <<>> = {}
      BY EmptySeq
    <3>3. MaxCases \in Nat
      BY PipelineAssumption
    <3>4. QED
      BY <3>1, <3>2, <3>3 DEF Keyed
  <2>2. CASE p = "classifying"
    <3>1. keys'[j] = Assigned(j, n, made)
      BY <1>9, <2>2
    <3>2. /\ keys'[j] \in Seq(Name \cup {NoKey}) /\ Len(keys'[j]) <= MaxCases
          /\ \A c \in DOMAIN keys'[j] : keys'[j][c] # NoKey =>
                 \E m \in made : /\ keys'[j][c] = [job |-> j, case |-> m]
                                 /\ m = c <=> \A d \in 1..c : d \in made
      BY <3>1, AssignedPairs
    <3>3. ASSUME NEW c \in DOMAIN keys'[j], keys'[j][c] # NoKey
          PROVE  /\ keys'[j][c] \in DOMAIN workItems' /\ keys'[j][c].job = j
                 /\ keys'[j][c].case = c <=>
                        \A d \in 1..c : [job |-> j, case |-> d] \in DOMAIN workItems'
      <4>1. PICK m \in made : /\ keys'[j][c] = [job |-> j, case |-> m]
                              /\ m = c <=> \A d \in 1..c : d \in made
        BY <3>2, <3>3
      <4>2. QED
        <5>1. [job |-> j, case |-> m].job = j /\ [job |-> j, case |-> m].case = m
          OBVIOUS
        <5>2. [job |-> j, case |-> m] \in DOMAIN workItems'
          BY <1>6
        <5>3. (\A d \in 1..c : d \in made)
                  <=> (\A d \in 1..c : [job |-> j, case |-> d] \in DOMAIN workItems')
          BY <1>6
        <5>4. QED
          BY <4>1, <5>1, <5>2, <5>3
    <3>4. In(j, "classifying")'
      BY <1>3, <2>2
    <3>5. QED
      BY <3>2, <3>3, <3>4 DEF Keyed
  <2>3. QED
    BY <2>1, <2>2
<1>13. ASSUME NEW k \in DOMAIN workItems'
       PROVE  Noted(k)'
  <2>1. CASE k \in DOMAIN workItems
    <3>1. Noted(k) /\ k.job # j /\ Notes(k)' = Notes(k)
      BY <1>4, <1>5, <2>1 DEF PairInv, Notes
    <3>2. \A note \in Notes(k) : note.job = k.job
      BY <3>1 DEF Noted
    <3>3. \A note \in Notes(k) : \A d :
              [job |-> note.job, case |-> d] \in DOMAIN workItems'
                  <=> [job |-> note.job, case |-> d] \in DOMAIN workItems
      BY <1>6, <3>1, <3>2
    <3>4. QED
      BY <3>1, <3>3 DEF Noted
  <2>2. CASE k \notin DOMAIN workItems
    <3>1. Notes(k)' = {}
      BY <1>5, <2>2 DEF Notes
    <3>2. QED
      BY <3>1 DEF Noted
  <2>3. QED
    BY <2>1, <2>2
<1>14. configured' \in BOOLEAN
  BY DEF WritesTestCases, PairInv
<1>15. QED
  BY <1>7, <1>8, <1>10, <1>11, <1>12, <1>13, <1>14 DEF PairInv

LEMMA PairStep ==
    ASSUME IntakeInv, PairInv, NEW j \in 1..MaxJobs, Step(j)
    PROVE  PairInv'
<1>1. CASE GivesUp(j)
  <2>1. /\ j \in DOMAIN phase /\ EndsPipeline(j) /\ configured' = configured
        /\ workItems' = workItems
    BY <1>1 DEF GivesUp, Awaiting, In
  <2>2. \A k \in DOMAIN workItems :
            /\ workItems'[k] \in WorkItem
            /\ \A note \in Notes(k)' : note \in Notes(k)
    BY <2>1 DEF PairInv, Made, Notes
  <2>3. QED
    BY <2>1, <2>2, Proceeds
<1>2. CASE ReviewAnswered(j)
  <2>1. /\ j \in DOMAIN phase /\ phase[j] = "requesting" /\ "ended" \in Phases
        /\ phase' = [phase EXCEPT ![j] = "ended"]
        /\ UNCHANGED <<configured, doc, keys, workItems>>
    BY <1>2 DEF ReviewAnswered, In, EndsJob, pipelineVars, Phases
  <2>2. \A k, where : In(k, where)' <=> IF k = j THEN where = "ended" ELSE In(k, where)
    BY <2>1, InAfter
  <2>3. \A where : In(j, where) => where = "requesting"
    BY <2>1 DEF In
  <2>4. Reading'
    BY <2>1, <2>2 DEF PairInv, Reading
  <2>5. QED
    BY <2>1, <2>2, <2>3, <2>4, PairKept
<1>3. CASE ReadsDocument(j)
  <2>1. PICK d \in Docs :
            /\ j \in DOMAIN phase /\ phase[j] = "generating" /\ "batching" \in Phases
            /\ phase' = [phase EXCEPT ![j] = "batching"]
            /\ doc' = [doc EXCEPT ![j] = d]
            /\ UNCHANGED <<configured, keys, workItems>>
    BY <1>3 DEF ReadsDocument, In, MovesTo, Phases
  <2>2. \A k, where : In(k, where)' <=> IF k = j THEN where = "batching" ELSE In(k, where)
    BY <2>1, InAfter
  <2>3. \A where : In(j, where) => where = "generating"
    BY <2>1 DEF In
  <2>4. Reading'
    <3>1. doc \in [1..MaxJobs -> Docs \cup {NoDoc}]
          /\ \A k \in 1..MaxJobs : In(k, "batching") => doc[k] \in Docs
      BY DEF PairInv, Reading
    <3>2. doc' \in [1..MaxJobs -> Docs \cup {NoDoc}] /\ doc'[j] = d
          /\ \A k \in 1..MaxJobs : k # j => doc'[k] = doc[k]
      BY <2>1, <3>1
    <3>3. QED
      BY <2>2, <3>1, <3>2 DEF Reading
  <2>5. QED
    BY <2>1, <2>2, <2>3, <2>4, PairKept
<1>4. QED
  BY <1>1, <1>2, <1>3, CreatesPair, WritesPair DEF Step

-----------------------------------------------------------------------------
(* The invariants of the specification.                                    *)

LEMMA PipelineInits == PipelineInit => IntakeInv /\ PairInv
<1> SUFFICES ASSUME PipelineInit PROVE IntakeInv /\ PairInv
  OBVIOUS
<1>1. /\ now = 0 /\ lastSeen = <<>> /\ globalWindow = {} /\ jobs = <<>> /\ phase = <<>>
      /\ queue = <<>> /\ unfinished = 0 /\ waiting = <<>> /\ permits = MaxConcurrent
  BY DEF PipelineInit, IntakeInit
<1>2. /\ \A S : <<>> \in Seq(S)
      /\ Len(<<>>) = 0 /\ DOMAIN <<>> = {}
  BY EmptySeq
<1>3. Reviews = {} /\ Recent = {} /\ Running = {} /\ Open = {}
  BY <1>1, <1>2 DEF Reviews, Recent, Running, Open
<1>4. /\ MaxTime \in Nat /\ MaxConcurrent \in Nat \ {0} /\ MaxPerMinute \in Nat
      /\ MaxCases \in Nat /\ Cardinality({}) = 0
  BY IntakeAssumption, PipelineAssumption, FS_EmptySet
<1>5. IntakeTypeOK
  <2>1. Range(lastSeen) = {}
    BY <1>1, <1>2 DEF Range
  <2>2. phase \in [DOMAIN jobs -> Phases]
    BY <1>1, <1>2
  <2>3. QED
    BY <1>1, <1>2, <1>4, <2>1, <2>2 DEF IntakeTypeOK
<1>6. Placed /\ Counted
  BY <1>1, <1>2, <1>3, <1>4 DEF Placed, Counted
<1>7. Windows /\ WithinLimits
  BY <1>1, <1>2, <1>3, <1>4 DEF Windows, WithinLimits
<1>8. \A k, where : ~ In(k, where)
  BY <1>1, <1>2 DEF In
<1>9. /\ configured \in BOOLEAN /\ doc = [j \in 1..MaxJobs |-> NoDoc]
      /\ keys = [j \in 1..MaxJobs |-> <<>>] /\ workItems = <<>>
  BY DEF PipelineInit
<1>10. Reading /\ Made
  BY <1>2, <1>8, <1>9 DEF Reading, Made
<1>11. \A j \in 1..MaxJobs : Keyed(j)
  BY <1>2, <1>4, <1>9 DEF Keyed
<1>12. PairInv
  BY <1>2, <1>9, <1>10, <1>11 DEF PairInv
<1>13. QED
  BY <1>5, <1>6, <1>7, <1>12 DEF IntakeInv

LEMMA PipelineInvariant == Spec => [](IntakeInv /\ PairInv)
<1>1. IntakeInv /\ PairInv /\ [Next]_vars => (IntakeInv /\ PairInv)'
  <2> SUFFICES ASSUME IntakeInv, PairInv, [Next]_vars
               PROVE  (IntakeInv /\ PairInv)'
    OBVIOUS
  <2>1. CASE IntakeNext /\ UNCHANGED pipelineVars
    BY <2>1, IntakeStep, IntakePairs
  <2>2. ASSUME NEW j \in 1..MaxJobs, Step(j)
        PROVE  (IntakeInv /\ PairInv)'
    <3>1. IntakeInv'
      BY <2>2, StepMoves, JobMoves
    <3>2. PairInv'
      BY <2>2, PairStep
    <3>3. QED
      BY <3>1, <3>2
  <2>3. CASE UNCHANGED vars
    <3>1. UNCHANGED <<guardVars, jobs, phase, queueVars, configured, doc, keys, workItems>>
      BY <2>3 DEF vars, intakeVars, pipelineVars
    <3>2. IntakeInv'
      <4>1. /\ UNCHANGED <<lastSeen, globalWindow, jobs, phase, queueVars>>
            /\ now' \in 0..MaxTime /\ now <= now'
        BY <3>1, IntakeAssumption DEF guardVars, IntakeInv, IntakeTypeOK
      <4>2. QED
        BY <4>1, Forgets
    <3>3. \A k, where : In(k, where)' <=> In(k, where)
      BY <3>1 DEF In
    <3>4. Reading'
      BY <3>1, <3>3 DEF PairInv, Reading
    <3>5. PairInv'
      BY <3>1, <3>3, <3>4, PairKept
    <3>6. QED
      BY <3>2, <3>5
  <2>4. QED
    BY <2>1, <2>2, <2>3 DEF Next
<1>2. QED
  BY PipelineInits, <1>1, PTL DEF Spec

-----------------------------------------------------------------------------
(* Chunking.                                                               *)

Line    == Nat \X Nat
Section == [title : Line, content : Seq(Line)]

LEMMA LinesAssociate == \A s, t, u \in Seq(Line) : s \o (t \o u) = (s \o t) \o u
OBVIOUS

\* What a line and what a section contribute to the text.
OneLine(d) == [line \in Line |-> IF IsText(d, line) THEN <<line>> ELSE <<>>]
Text(d)    == [sec \in Section |-> TextOf(d, sec.content)]

LEMMA TextMaps ==
    ASSUME NEW d
    PROVE  /\ Maps(OneLine(d), Line, Line) /\ Maps(Text(d), Section, Line)
           /\ \A lines \in Seq(Line) :
                  TextOf(d, lines) = MapJoin(OneLine(d), lines) /\ TextOf(d, lines) \in Seq(Line)
           /\ \A sec \in Section : Text(d)[sec] = TextOf(d, sec.content)
<1>1. Maps(OneLine(d), Line, Line)
  BY DEF Maps, OneLine
<1>2. ASSUME NEW lines \in Seq(Line)
      PROVE  TextOf(d, lines) = MapJoin(OneLine(d), lines) /\ TextOf(d, lines) \in Seq(Line)
  <2>1. \A p \in DOMAIN lines : lines[p] \in Line
    OBVIOUS
  <2>2. \A p \in DOMAIN lines :
            OneLine(d)[lines[p]] = IF IsText(d, lines[p]) THEN <<lines[p]>> ELSE <<>>
    BY <2>1, Zenon DEF OneLine
  <2>3. [p \in DOMAIN lines |-> OneLine(d)[lines[p]]]
           = [p \in DOMAIN lines |-> IF IsText(d, lines[p]) THEN <<lines[p]>> ELSE <<>>]
    BY <2>2, Zenon
  <2>4. TextOf(d, lines) = MapJoin(OneLine(d), lines)
    BY <2>3, Zenon DEF TextOf, MapJoin
  <2>5. QED
    BY <1>1, <2>4, MapsType
<1>3. \A sec \in Section : sec.content \in Seq(Line)
  BY DEF Section
<1>4. \A sec \in Section : Text(d)[sec] = TextOf(d, sec.content)
  BY Zenon DEF Text
<1>5. Maps(Text(d), Section, Line)
  BY <1>2, <1>3 DEF Maps, Text
<1>6. QED
  BY <1>1, <1>2, <1>4, <1>5

LEMMA TextConcat ==
    ASSUME NEW d, NEW s \in Seq(Line), NEW t \in Seq(Line)
    PROVE  TextOf(d, s \o t) = TextOf(d, s) \o TextOf(d, t)
<1>1. MapJoin(OneLine(d), s \o t) = MapJoin(OneLine(d), s) \o MapJoin(OneLine(d), t)
  <2>1. Maps(OneLine(d), Line, Line)
    BY TextMaps, Zenon
  <2>2. QED
    BY <2>1, MapJoinConcat
<1>2. s \o t \in Seq(Line)
  OBVIOUS
<1>3. QED
  BY <1>1, <1>2, TextMaps, Zenon

\* A line that is no text contributes nothing.
LEMMA TextSkips ==
    ASSUME NEW d, NEW s \in Seq(Line), NEW t \in Seq(Line), NEW line \in Line, ~ IsText(d, line)
    PROVE  TextOf(d, (s \o <<line>>) \o t) = TextOf(d, s) \o TextOf(d, t)
<1>1. Maps(OneLine(d), Line, Line) /\ <<line>> \in Seq(Line) /\ s \o <<line>> \in Seq(Line)
  BY TextMaps
<1>2. TextOf(d, <<line>>) = <<>>
  <2>1. MapJoin(OneLine(d), <<line>>) = OneLine(d)[line]
    BY <1>1, MapJoinOne
  <2>2. OneLine(d)[line] = <<>>
    BY Zenon DEF OneLine
  <2>3. QED
    BY <1>1, <2>1, <2>2, TextMaps, Zenon
<1>3. TextOf(d, s \o <<line>>) = TextOf(d, s) \o <<>>
  <2>1. TextOf(d, s \o <<line>>) = TextOf(d, s) \o TextOf(d, <<line>>)
    BY <1>1, TextConcat, Zenon
  <2>2. QED
    BY <1>2, <2>1, Zenon
<1>4. TextOf(d, s) \o <<>> = TextOf(d, s)
  BY TextMaps, ConcatEmptySeq
<1>5. TextOf(d, (s \o <<line>>) \o t) = TextOf(d, s \o <<line>>) \o TextOf(d, t)
  BY <1>1, TextConcat, Zenon
<1>6. QED
  BY <1>3, <1>4, <1>5, Zenon

\* A section that is merged into the one before, or follows it, adds its text at the end.
LEMMA MergedIntoText ==
    ASSUME NEW d, NEW merged \in Seq(Section), NEW sec \in Section, sec.title[2] = 0
    PROVE  /\ MergedInto(merged, sec) \in Seq(Section)
           /\ MapJoin(Text(d), MergedInto(merged, sec)) = MapJoin(Text(d), merged) \o Text(d)[sec]
<1>1. Maps(Text(d), Section, Line) /\ \A x \in Section : Text(d)[x] = TextOf(d, x.content)
  BY TextMaps, Zenon
<1>2. \A s \in Seq(Section), x \in Section :
          MapJoin(Text(d), Append(s, x)) = MapJoin(Text(d), s) \o Text(d)[x]
  <2>1. TAKE s \in Seq(Section), x \in Section
  <2>2. QED
    BY ONLY <1>1, s \in Seq(Section), x \in Section, MapJoinAppend
<1>3. CASE merged # <<>> /\ Len(sec.content) < MinLines
  <2>1. PICK front \in Seq(Section), last \in Section : merged = Append(front, last)
    BY <1>3, SequenceEmptyOrAppend
  <2>2. PICK more \in Section :
            /\ more = [last EXCEPT !.content = (@ \o <<sec.title>>) \o sec.content]
            /\ more.content = (last.content \o <<sec.title>>) \o sec.content
    <3>1. /\ last.content \in Seq(Line) /\ sec.content \in Seq(Line) /\ sec.title \in Line
          /\ (last.content \o <<sec.title>>) \o sec.content \in Seq(Line)
      BY DEF Section
    <3>2. [last EXCEPT !.content = (@ \o <<sec.title>>) \o sec.content] \in Section
      BY <3>1 DEF Section
    <3>3. [last EXCEPT !.content = (@ \o <<sec.title>>) \o sec.content].content
             = (last.content \o <<sec.title>>) \o sec.content
      BY DEF Section
    <3>4. QED
      BY <3>2, <3>3, Zenon
  <2>3. MergedInto(merged, sec) = Append(front, more)
    <3>1. /\ Len(merged) = Len(front) + 1 /\ merged[Len(merged)] = last
          /\ \A i \in 1..Len(front) : merged[i] = front[i]
      BY <2>1
    <3>2. MergedInto(merged, sec) = [merged EXCEPT ![Len(merged)] = more]
      BY <1>3, <2>2, <3>1 DEF MergedInto
    <3>3. [merged EXCEPT ![Len(merged)] = more] = Append(front, more)
      <4>1. /\ Len(front) \in Nat /\ Len(merged) \in 1..Len(merged)
            /\ [merged EXCEPT ![Len(merged)] = more] \in Seq(Section)
            /\ Len([merged EXCEPT ![Len(merged)] = more]) = Len(merged)
        BY <3>1
      <4>2. /\ Append(front, more) \in Seq(Section)
            /\ Len(Append(front, more)) = Len(front) + 1
        OBVIOUS
      <4>3. ASSUME NEW i \in 1..Len(merged)
            PROVE  [merged EXCEPT ![Len(merged)] = more][i] = Append(front, more)[i]
        <5>1. CASE i = Len(merged)
          BY <3>1, <4>1, <5>1
        <5>2. CASE i # Len(merged)
          <6>1. i \in 1..Len(front)
            BY <3>1, <4>1, <5>2
          <6>2. QED
            BY <3>1, <4>1, <5>2, <6>1
        <5>3. QED
          BY <5>1, <5>2
      <4>4. QED
        BY <3>1, <4>1, <4>2, <4>3, SeqEqual
    <3>4. QED
      BY <3>2, <3>3, Zenon
  <2>4. Text(d)[more] = Text(d)[last] \o Text(d)[sec]
    <3>1. sec.title \in Line /\ last.content \in Seq(Line) /\ sec.content \in Seq(Line)
      BY DEF Section
    <3>2. ~ IsText(d, sec.title)
      BY DEF IsText
    <3>3. TextOf(d, (last.content \o <<sec.title>>) \o sec.content)
             = TextOf(d, last.content) \o TextOf(d, sec.content)
      BY <3>1, <3>2, TextSkips
    <3>4. QED
      BY <1>1, <2>2, <3>3, Zenon
  <2>5. MapJoin(Text(d), Append(front, more)) = MapJoin(Text(d), merged) \o Text(d)[sec]
    <3>1. PICK p \in Seq(Line), q \in Seq(Line), r \in Seq(Line) :
              p = MapJoin(Text(d), front) /\ q = Text(d)[last] /\ r = Text(d)[sec]
      <4>1. MapJoin(Text(d), front) \in Seq(Line)
        BY <1>1, MapsType
      <4>2. Text(d)[last] \in Seq(Line) /\ Text(d)[sec] \in Seq(Line)
        BY <1>1 DEF Maps
      <4>3. QED
        BY <4>1, <4>2, Zenon
    <3>2. p \o (q \o r) = (p \o q) \o r
      BY LinesAssociate, Zenon
    <3>3. MapJoin(Text(d), merged) = p \o q /\ MapJoin(Text(d), Append(front, more)) = p \o (q \o r)
      BY <1>2, <2>1, <2>4, <3>1, Zenon
    <3>4. QED
      BY <3>1, <3>2, <3>3, Zenon
  <2>6. QED
    BY <2>3, <2>5
<1>4. CASE ~ (merged # <<>> /\ Len(sec.content) < MinLines)
  <2>1. MergedInto(merged, sec) = Append(merged, sec)
    BY <1>4, Zenon DEF MergedInto
  <2>2. QED
    BY <1>2, <2>1
<1>5. QED
  BY <1>3, <1>4

\* f[n] is what merging makes of the first n sections.
Merges(f, secs) ==
    f = [n \in 0..Len(secs) |-> IF n = 0 THEN <<>> ELSE MergedInto(f[n - 1], secs[n])]

\* Its equation value by value.
LEMMA MergesAt ==
    ASSUME NEW secs, NEW f
    PROVE  Merges(f, secs) <=>
               /\ f = [n \in 0..Len(secs) |-> f[n]]
               /\ \A n \in 0..Len(secs) :
                      f[n] = IF n = 0 THEN <<>> ELSE MergedInto(f[n - 1], secs[n])
<1>1. ASSUME Merges(f, secs)
      PROVE  \A n \in 0..Len(secs) :
                 f[n] = IF n = 0 THEN <<>> ELSE MergedInto(f[n - 1], secs[n])
  <2>1. TAKE n \in 0..Len(secs)
  <2>2. QED
    BY <1>1, Zenon DEF Merges
<1>2. ASSUME Merges(f, secs)
      PROVE  f = [n \in 0..Len(secs) |-> f[n]]
  BY <1>1, <1>2, Zenon DEF Merges
<1>3. ASSUME f = [n \in 0..Len(secs) |-> f[n]],
             \A n \in 0..Len(secs) :
                 f[n] = IF n = 0 THEN <<>> ELSE MergedInto(f[n - 1], secs[n])
      PROVE  Merges(f, secs)
  BY <1>3, Zenon DEF Merges
<1>4. QED
  BY <1>1, <1>2, <1>3

MergesUpTo(f, secs, n) ==
    \A k \in 0..n : f[k] = IF k = 0 THEN <<>> ELSE MergedInto(f[k - 1], secs[k])

\* The recursion of Merged defines a function.
LEMMA MergesExist ==
    ASSUME NEW S, NEW secs \in Seq(S)
    PROVE  \E f : Merges(f, secs)
<1>1. PICK T \in SUBSET Nat :
          \A n \in Nat : n \in T <=>
              (n <= Len(secs) => \E f : MergesUpTo(f, secs, n))
  <2>1. WITNESS {n \in Nat : n <= Len(secs) => \E f : MergesUpTo(f, secs, n)} \in SUBSET Nat
  <2>2. QED
    BY <2>1
<1>2. 0 \in T
  <2>1. PICK f : f = [k \in 0..0 |-> <<>>]
    OBVIOUS
  <2>2. MergesUpTo(f, secs, 0)
    BY <2>1 DEF MergesUpTo
  <2>3. QED
    BY <1>1, <2>2
<1>3. ASSUME NEW n \in T
      PROVE  n + 1 \in T
  <2>1. CASE n + 1 <= Len(secs)
    <3>1. PICK f : MergesUpTo(f, secs, n)
      BY <1>1, <2>1
    <3>2. PICK g : g = [k \in 0..(n + 1) |->
                           IF k <= n THEN f[k] ELSE MergedInto(f[k - 1], secs[k])]
      OBVIOUS
    <3>3. \A k \in 0..(n + 1) : g[k] = IF k <= n THEN f[k] ELSE MergedInto(f[k - 1], secs[k])
      BY <3>2
    <3>4. ASSUME NEW k \in 0..(n + 1)
          PROVE  g[k] = IF k = 0 THEN <<>> ELSE MergedInto(g[k - 1], secs[k])
      <4>1. CASE k = 0
        BY <3>1, <3>3, <4>1 DEF MergesUpTo
      <4>2. CASE k # 0
        <5>1. k - 1 \in 0..n /\ k - 1 \in 0..(n + 1) /\ g[k - 1] = f[k - 1]
          BY <3>3, <4>2
        <5>2. g[k] = MergedInto(f[k - 1], secs[k])
          BY <3>1, <3>3, <4>2 DEF MergesUpTo
        <5>3. QED
          BY <4>2, <5>1, <5>2
      <4>3. QED
        BY <4>1, <4>2
    <3>5. MergesUpTo(g, secs, n + 1)
      BY <3>4, Zenon DEF MergesUpTo
    <3>6. QED
      BY <1>1, <3>5
  <2>2. CASE ~ n + 1 <= Len(secs)
    BY <1>1, <2>2
  <2>3. QED
    BY <2>1, <2>2
<1>4. Len(secs) \in T
  <2>1. T = Nat
    BY <1>2, <1>3, Induct
  <2>2. QED
    BY <2>1
<1>5. PICK f : MergesUpTo(f, secs, Len(secs))
  BY <1>1, <1>4
<1>6. PICK g : g = [k \in 0..Len(secs) |-> f[k]]
  OBVIOUS
<1>7. Len(secs) \in Nat /\ \A k \in 0..Len(secs) : g[k] = f[k]
  BY <1>6
<1>8. \A k \in 0..Len(secs) : k = 0 \/ k - 1 \in 0..Len(secs)
  BY <1>7
<1>9. \A k \in 0..Len(secs) : g[k] = IF k = 0 THEN <<>> ELSE MergedInto(g[k - 1], secs[k])
  BY <1>5, <1>7, <1>8 DEF MergesUpTo
<1>10. g = [k \in 0..Len(secs) |-> g[k]]
  BY <1>6
<1>11. QED
  BY <1>9, <1>10, MergesAt

\* Merging keeps the text.
LEMMA MergedText ==
    ASSUME NEW d, NEW secs \in Seq(Section), \A i \in DOMAIN secs : secs[i].title[2] = 0
    PROVE  /\ Merged(secs) \in Seq(Section)
           /\ MapJoin(Text(d), Merged(secs)) = MapJoin(Text(d), secs)
<1>1. PICK f : /\ f = CHOOSE x : x = [n \in 0..Len(secs) |->
                              IF n = 0 THEN <<>> ELSE MergedInto(x[n - 1], secs[n])]
  OBVIOUS
<1>2. Merges(f, secs)
  BY <1>1, MergesExist, Zenon DEF Merges
<1>3. Merged(secs) = f[Len(secs)]
  BY <1>1 DEF Merged
<1>4. PICK T \in SUBSET Nat :
          \A n \in Nat : n \in T <=>
              (n <= Len(secs) =>
                  /\ f[n] \in Seq(Section)
                  /\ MapJoin(Text(d), f[n]) = MapJoin(Text(d), SubSeq(secs, 1, n)))
  <2>1. WITNESS {n \in Nat : n <= Len(secs) =>
                    /\ f[n] \in Seq(Section)
                    /\ MapJoin(Text(d), f[n]) = MapJoin(Text(d), SubSeq(secs, 1, n))}
                \in SUBSET Nat
  <2>2. QED
    BY <2>1
<1>5. \A n \in 0..Len(secs) : f[n] = IF n = 0 THEN <<>> ELSE MergedInto(f[n - 1], secs[n])
  BY <1>2, MergesAt
<1>6. 0 \in T
  <2>1. f[0] = <<>> /\ SubSeq(secs, 1, 0) = <<>> /\ <<>> \in Seq(Section)
    BY <1>5
  <2>2. QED
    BY <1>4, <2>1
<1>7. ASSUME NEW n \in T
      PROVE  n + 1 \in T
  <2>1. CASE n + 1 <= Len(secs)
    <3>1. /\ n \in Nat /\ n <= Len(secs) /\ n + 1 \in 1..Len(secs)
          /\ n + 1 \in 0..Len(secs) /\ (n + 1) - 1 = n /\ n + 1 # 0
      BY <2>1
    <3>2. PICK sec \in Section : sec = secs[n + 1] /\ sec.title[2] = 0
      BY <3>1
    <3>3. f[n + 1] = MergedInto(f[n], sec)
      BY <1>5, <3>1, <3>2
    <3>4. PICK pre \in Seq(Section) : pre = SubSeq(secs, 1, n)
      <4>1. SubSeq(secs, 1, n) \in Seq(Section)
        BY <3>1
      <4>2. QED
        BY <4>1, Zenon
    <3>5. SubSeq(secs, 1, n + 1) = Append(pre, sec)
      BY <3>1, <3>2, <3>4, SubSeqAppend
    <3>6. /\ f[n] \in Seq(Section)
          /\ MapJoin(Text(d), f[n]) = MapJoin(Text(d), pre)
      BY <1>4, <3>1, <3>4
    <3>7. /\ f[n + 1] \in Seq(Section)
          /\ MapJoin(Text(d), f[n + 1]) = MapJoin(Text(d), f[n]) \o Text(d)[sec]
      <4>1. PICK m \in Seq(Section) : m = f[n]
        BY <3>6, Zenon
      <4>2. /\ MergedInto(m, sec) \in Seq(Section)
            /\ MapJoin(Text(d), MergedInto(m, sec)) = MapJoin(Text(d), m) \o Text(d)[sec]
        BY ONLY m \in Seq(Section), sec \in Section, <3>2, MergedIntoText
      <4>3. QED
        BY <3>3, <4>1, <4>2, Zenon
    <3>8. MapJoin(Text(d), Append(pre, sec)) = MapJoin(Text(d), pre) \o Text(d)[sec]
      <4>1. Maps(Text(d), Section, Line)
        BY TextMaps, Zenon
      <4>2. QED
        BY ONLY <4>1, pre \in Seq(Section), sec \in Section, MapJoinAppend
    <3>9. MapJoin(Text(d), f[n + 1]) = MapJoin(Text(d), SubSeq(secs, 1, n + 1))
      BY <3>5, <3>6, <3>7, <3>8, Zenon
    <3>10. QED
      BY <1>4, <3>1, <3>7, <3>9
  <2>2. CASE ~ n + 1 <= Len(secs)
    BY <1>4, <2>2
  <2>3. QED
    BY <2>1, <2>2
<1>8. Len(secs) \in Nat /\ SubSeq(secs, 1, Len(secs)) = secs /\ Len(secs) <= Len(secs)
  OBVIOUS
<1>9. T = Nat
  BY <1>6, <1>7, Induct
<1>10. f[Len(secs)] \in Seq(Section) /\ MapJoin(Text(d), f[Len(secs)]) = MapJoin(Text(d), secs)
  BY <1>4, <1>8, <1>9
<1>11. QED
  BY <1>3, <1>10

\* The next title after a line of a section, or the end.
NextTitle(d, sec, p) == Min({q \in SubTitles(d, sec) : q > p} \cup {Len(sec.content) + 1})

LEMMA NextTitleIs ==
    ASSUME NEW d, NEW sec \in Section, NEW p \in 0..Len(sec.content)
    PROVE  /\ NextTitle(d, sec, p) \in (p + 1)..(Len(sec.content) + 1)
           /\ UpToNextTitle(d, sec, p) = SubSeq(sec.content, p + 1, NextTitle(d, sec, p) - 1)
           /\ p + 1 \in SubTitles(d, sec) => NextTitle(d, sec, p) = p + 1
           /\ p + 1 \notin SubTitles(d, sec) /\ p < Len(sec.content) =>
                  NextTitle(d, sec, p) = NextTitle(d, sec, p + 1)
           /\ SubTitles(d, sec) = {} => NextTitle(d, sec, p) = Len(sec.content) + 1
<1>1. PICK n \in Nat : n = Len(sec.content) /\ \A q \in SubTitles(d, sec) : q \in 1..n
  BY DEF Section, SubTitles
<1>2. PICK R \in SUBSET Nat :
          /\ R = {q \in SubTitles(d, sec) : q > p} \cup {n + 1}
          /\ \A q : q \in R <=> (q \in SubTitles(d, sec) /\ q > p) \/ q = n + 1
  <2>1. {q \in SubTitles(d, sec) : q > p} \cup {n + 1} \in SUBSET Nat
    BY <1>1
  <2>2. QED
    BY <2>1
<1>3. NextTitle(d, sec, p) = Min(R) /\ Min(R) \in R /\ \A q \in R : Min(R) <= q
  BY <1>1, <1>2, MinOfSet DEF NextTitle
<1>4. \A q \in R : q \in (p + 1)..(n + 1)
  BY <1>1, <1>2
<1>5. p + 1 \in SubTitles(d, sec) => Min(R) = p + 1
  BY <1>1, <1>2, <1>3, <1>4
<1>6. ASSUME p + 1 \notin SubTitles(d, sec), p < n
      PROVE  NextTitle(d, sec, p) = NextTitle(d, sec, p + 1)
  <2>1. {q \in SubTitles(d, sec) : q > p} = {q \in SubTitles(d, sec) : q > p + 1}
    BY <1>1, <1>6
  <2>2. QED
    BY <2>1, Zenon DEF NextTitle
<1>7. SubTitles(d, sec) = {} => Min(R) = n + 1
  BY <1>2, <1>3
<1>8. UpToNextTitle(d, sec, p) = SubSeq(sec.content, p + 1, NextTitle(d, sec, p) - 1)
  BY Zenon DEF UpToNextTitle, NextTitle
<1>9. QED
  BY <1>1, <1>3, <1>4, <1>5, <1>6, <1>7, <1>8

\* The pieces of a section, line by line.
PiecesAt(d, sec) ==
    [p \in DOMAIN sec.content |->
        IF p \in SubTitles(d, sec)
        THEN <<[title |-> sec.content[p], content |-> UpToNextTitle(d, sec, p)]>> ELSE <<>>]

LEMMA PiecesTyped ==
    ASSUME NEW d, NEW sec \in Section
    PROVE  /\ PiecesAt(d, sec) \in Seq(Seq(Section)) /\ Len(PiecesAt(d, sec)) = Len(sec.content)
           /\ \A p \in 0..Len(sec.content) : UpToNextTitle(d, sec, p) \in Seq(Line)
           /\ \A p \in 1..Len(sec.content) :
                  PiecesAt(d, sec)[p] =
                      IF p \in SubTitles(d, sec)
                      THEN <<[title |-> sec.content[p], content |-> UpToNextTitle(d, sec, p)]>>
                      ELSE <<>>
<1>1. PICK n \in Nat : /\ n = Len(sec.content) /\ DOMAIN sec.content = 1..n
                       /\ sec.content \in Seq(Line) /\ \A p \in 1..n : sec.content[p] \in Line
  BY DEF Section
<1>2. ASSUME NEW p \in 0..n
      PROVE  UpToNextTitle(d, sec, p) \in Seq(Line)
  <2>1. /\ NextTitle(d, sec, p) \in (p + 1)..(n + 1)
        /\ UpToNextTitle(d, sec, p) = SubSeq(sec.content, p + 1, NextTitle(d, sec, p) - 1)
    BY <1>1, NextTitleIs
  <2>2. PICK k \in p..n : k = NextTitle(d, sec, p) - 1
    BY <2>1
  <2>3. \A i \in (p + 1)..k : sec.content[i] \in Line
    BY <1>1
  <2>4. SubSeq(sec.content, p + 1, k) \in Seq(Line)
    BY <2>3, SubSeqProperties
  <2>5. QED
    BY <2>1, <2>2, <2>4, Zenon
<1>3. PICK w \in [1..n -> Seq(Section)] : w = PiecesAt(d, sec)
  <2>1. ASSUME NEW p \in 1..n
        PROVE  (IF p \in SubTitles(d, sec)
                THEN <<[title |-> sec.content[p], content |-> UpToNextTitle(d, sec, p)]>>
                ELSE <<>>) \in Seq(Section)
    <3>1. p \in 0..n /\ sec.content[p] \in Line
      BY <1>1
    <3>2. [title |-> sec.content[p], content |-> UpToNextTitle(d, sec, p)] \in Section
      BY <1>2, <3>1 DEF Section
    <3>3. QED
      BY <3>2
  <2>2. PiecesAt(d, sec) \in [1..n -> Seq(Section)]
    BY <1>1, <2>1, Zenon DEF PiecesAt
  <2>3. QED
    BY <2>2, Zenon
<1>4. w \in Seq(Seq(Section)) /\ Len(w) = n
  OBVIOUS
<1>5. \A p \in 1..n : w[p] =
          IF p \in SubTitles(d, sec)
          THEN <<[title |-> sec.content[p], content |-> UpToNextTitle(d, sec, p)]>> ELSE <<>>
  BY <1>1, <1>3, Zenon DEF PiecesAt
<1>6. QED
  BY <1>1, <1>2, <1>3, <1>4, <1>5

\* How the text of sections that are joined comes about.
LEMMA JoiningSections ==
    ASSUME NEW d
    PROVE  /\ \A s, t \in Seq(Section) :
                  MapJoin(Text(d), s \o t) = MapJoin(Text(d), s) \o MapJoin(Text(d), t)
           /\ \A s \in Seq(Section) : MapJoin(Text(d), s) \in Seq(Line)
           /\ \A x \in Section : MapJoin(Text(d), <<x>>) = Text(d)[x]
           /\ \A ss \in Seq(Seq(Section)), s \in Seq(Section) :
                  FlattenSeq(Append(ss, s)) = FlattenSeq(ss) \o s
           /\ \A s, t \in Seq(Line), line \in Line : ~ IsText(d, line) =>
                  TextOf(d, (s \o <<line>>) \o t) = TextOf(d, s) \o TextOf(d, t)
<1>1. Maps(Text(d), Section, Line)
  BY TextMaps, Zenon
<1>2. ASSUME NEW s \in Seq(Section), NEW t \in Seq(Section)
      PROVE  MapJoin(Text(d), s \o t) = MapJoin(Text(d), s) \o MapJoin(Text(d), t)
  BY <1>1, MapJoinConcat
<1>3. ASSUME NEW s \in Seq(Section)
      PROVE  MapJoin(Text(d), s) \in Seq(Line)
  BY <1>1, MapsType
<1>4. ASSUME NEW x \in Section
      PROVE  MapJoin(Text(d), <<x>>) = Text(d)[x]
  BY <1>1, MapJoinOne
<1>5. ASSUME NEW ss \in Seq(Seq(Section)), NEW s \in Seq(Section)
      PROVE  FlattenSeq(Append(ss, s)) = FlattenSeq(ss) \o s
  BY FlattenAppend
<1>6. ASSUME NEW s \in Seq(Line), NEW t \in Seq(Line), NEW line \in Line, ~ IsText(d, line)
      PROVE  TextOf(d, (s \o <<line>>) \o t) = TextOf(d, s) \o TextOf(d, t)
  BY <1>6, TextSkips
<1>7. QED
  BY <1>2, <1>3, <1>4, <1>5, <1>6, Zenon

\* The text before a title, with that of the pieces up to a line, is the text up to the
\* title that follows.
LEMMA PiecesText ==
    ASSUME NEW d, NEW sec \in Section
    PROVE  TextOf(d, UpToNextTitle(d, sec, 0)) \o MapJoin(Text(d), FlattenSeq(PiecesAt(d, sec)))
              = TextOf(d, sec.content)
<1>1. PICK c \in Seq(Line) : c = sec.content
  BY DEF Section
<1>2. PICK n \in Nat : n = Len(c) /\ \A p \in 1..n : c[p] \in Line
  OBVIOUS
<1>3. PICK w \in Seq(Seq(Section)) :
          /\ w = PiecesAt(d, sec) /\ Len(w) = n
          /\ \A p \in 1..n : w[p] =
                 IF p \in SubTitles(d, sec)
                 THEN <<[title |-> c[p], content |-> UpToNextTitle(d, sec, p)]>> ELSE <<>>
  BY <1>1, <1>2, PiecesTyped
<1>4. PICK nx \in [0..n -> Nat] :
          \A p \in 0..n :
              /\ nx[p] = NextTitle(d, sec, p) /\ nx[p] \in (p + 1)..(n + 1)
              /\ UpToNextTitle(d, sec, p) = SubSeq(c, p + 1, nx[p] - 1)
              /\ p + 1 \in SubTitles(d, sec) => nx[p] = p + 1
              /\ p + 1 \notin SubTitles(d, sec) /\ p < n => nx[p] = NextTitle(d, sec, p + 1)
  <2>1. ASSUME NEW p \in 0..n
        PROVE  /\ NextTitle(d, sec, p) \in (p + 1)..(n + 1)
               /\ UpToNextTitle(d, sec, p) = SubSeq(c, p + 1, NextTitle(d, sec, p) - 1)
               /\ p + 1 \in SubTitles(d, sec) => NextTitle(d, sec, p) = p + 1
               /\ p + 1 \notin SubTitles(d, sec) /\ p < n =>
                      NextTitle(d, sec, p) = NextTitle(d, sec, p + 1)
    BY <1>1, <1>2, NextTitleIs
  <2>2. PICK g : g = [p \in 0..n |-> NextTitle(d, sec, p)]
    OBVIOUS
  <2>3. g \in [0..n -> Nat] /\ \A p \in 0..n : g[p] = NextTitle(d, sec, p)
    <3>1. \A p \in 0..n : NextTitle(d, sec, p) \in Nat
      BY <2>1
    <3>2. QED
      BY <2>2, <3>1, Zenon
  <2>4. QED
    BY <2>1, <2>3
<1>5. /\ \A p \in 0..n : UpToNextTitle(d, sec, p) \in Seq(Line)
      /\ \A p \in Nat : p + 1 <= n =>
             /\ SubSeq(w, 1, p) \in Seq(Seq(Section)) /\ w[p + 1] \in Seq(Section)
             /\ SubSeq(w, 1, p + 1) = Append(SubSeq(w, 1, p), w[p + 1])
  <2>1. ASSUME NEW p \in Nat, p + 1 <= n
        PROVE  /\ SubSeq(w, 1, p) \in Seq(Seq(Section)) /\ w[p + 1] \in Seq(Section)
               /\ SubSeq(w, 1, p + 1) = Append(SubSeq(w, 1, p), w[p + 1])
    <3>1. p + 1 <= Len(w)
      BY <1>3, <2>1, Zenon
    <3>2. QED
      BY ONLY <3>1, p \in Nat, w \in Seq(Seq(Section)), SubSeqAppend
  <2>2. \A p \in 0..n : UpToNextTitle(d, sec, p) \in Seq(Line)
    BY <1>1, <1>2, PiecesTyped
  <2>3. QED
    BY <2>1, <2>2, Zenon
<1>6. \A p \in 1..n : p \in SubTitles(d, sec) => ~ IsText(d, c[p])
  BY <1>1 DEF SubTitles, IsText
<1>7. PICK pre \in Seq(Line) : pre = TextOf(d, UpToNextTitle(d, sec, 0))
  <2>1. UpToNextTitle(d, sec, 0) \in Seq(Line)
    BY <1>5
  <2>2. TextOf(d, UpToNextTitle(d, sec, 0)) \in Seq(Line)
    BY <2>1, TextMaps, Zenon
  <2>3. QED
    BY <2>2, Zenon
<1>8. /\ \A s, t \in Seq(Section) :
             MapJoin(Text(d), s \o t) = MapJoin(Text(d), s) \o MapJoin(Text(d), t)
      /\ \A s \in Seq(Section) : MapJoin(Text(d), s) \in Seq(Line)
      /\ \A x \in Section : MapJoin(Text(d), <<x>>) = Text(d)[x]
      /\ \A ss \in Seq(Seq(Section)), s \in Seq(Section) :
             FlattenSeq(Append(ss, s)) = FlattenSeq(ss) \o s
      /\ \A s, t \in Seq(Line), line \in Line : ~ IsText(d, line) =>
             TextOf(d, (s \o <<line>>) \o t) = TextOf(d, s) \o TextOf(d, t)
  BY JoiningSections
<1>9. PICK T \in SUBSET Nat :
          \A p \in Nat : p \in T <=>
              (p <= n => pre \o MapJoin(Text(d), FlattenSeq(SubSeq(w, 1, p)))
                            = TextOf(d, SubSeq(c, 1, nx[p] - 1)))
  <2>1. WITNESS {p \in Nat : p <= n => pre \o MapJoin(Text(d), FlattenSeq(SubSeq(w, 1, p)))
                                          = TextOf(d, SubSeq(c, 1, nx[p] - 1))} \in SUBSET Nat
  <2>2. QED
    BY <2>1
<1>10. 0 \in T
  <2>1. SubSeq(w, 1, 0) = <<>> /\ FlattenSeq(<<>>) = <<>> /\ MapJoin(Text(d), <<>>) = <<>>
    BY FlattenEmpty, MapJoinEmpty
  <2>2. pre \o <<>> = pre
    OBVIOUS
  <2>3. pre = TextOf(d, SubSeq(c, 1, nx[0] - 1))
    <3>1. \A p \in 0..n : UpToNextTitle(d, sec, p) = SubSeq(c, p + 1, nx[p] - 1)
      BY <1>4, Zenon
    <3>2. PICK p \in 0..n : p = 0 /\ p + 1 = 1
      OBVIOUS
    <3>3. UpToNextTitle(d, sec, p) = SubSeq(c, p + 1, nx[p] - 1)
      BY <3>1, Zenon
    <3>4. QED
      BY <1>7, <3>2, <3>3, Zenon
  <2>4. QED
    BY <1>9, <2>1, <2>2, <2>3
<1>11. ASSUME NEW p \in T, p + 1 <= n
       PROVE  pre \o MapJoin(Text(d), FlattenSeq(SubSeq(w, 1, p + 1)))
                 = TextOf(d, SubSeq(c, 1, nx[p + 1] - 1))
  <2>1. /\ p \in Nat /\ p <= n /\ p + 1 \in 1..n /\ p + 1 \in 0..n /\ p \in 0..n /\ p < n
        /\ p + 1 <= n
    BY <1>11
  <2>2. PICK ww \in Seq(Seq(Section)), x \in Seq(Section) :
            ww = SubSeq(w, 1, p) /\ x = w[p + 1] /\ SubSeq(w, 1, p + 1) = Append(ww, x)
    <3>1. /\ SubSeq(w, 1, p) \in Seq(Seq(Section)) /\ w[p + 1] \in Seq(Section)
          /\ SubSeq(w, 1, p + 1) = Append(SubSeq(w, 1, p), w[p + 1])
      BY <1>5, <2>1, Zenon
    <3>2. QED
      BY <3>1, Zenon
  <2>3. PICK a \in Seq(Line), b \in Seq(Line) :
            /\ a = MapJoin(Text(d), FlattenSeq(ww)) /\ b = MapJoin(Text(d), x)
            /\ MapJoin(Text(d), FlattenSeq(Append(ww, x))) = a \o b
    <3>1. PICK s \in Seq(Section) : s = FlattenSeq(ww)
      BY FlattenType
    <3>2. FlattenSeq(Append(ww, x)) = s \o x
      BY <1>8, <3>1, Zenon
    <3>3. MapJoin(Text(d), s \o x) = MapJoin(Text(d), s) \o MapJoin(Text(d), x)
      BY <1>8, Zenon
    <3>4. MapJoin(Text(d), s) \in Seq(Line) /\ MapJoin(Text(d), x) \in Seq(Line)
      BY <1>8, Zenon
    <3>5. QED
      BY <3>1, <3>2, <3>3, <3>4, Zenon
  <2>4. pre \o a = TextOf(d, SubSeq(c, 1, nx[p] - 1))
    BY <1>9, <2>1, <2>2, <2>3
  <2>5. pre \o (a \o b) = (pre \o a) \o b
    BY LinesAssociate, Zenon
  <2>6. CASE p + 1 \notin SubTitles(d, sec)
    <3>1. nx[p] = nx[p + 1]
      BY <1>4, <2>1, <2>6
    <3>2. x = <<>> /\ b = <<>>
      BY <1>3, <2>1, <2>2, <2>3, <2>6, MapJoinEmpty
    <3>3. a \o b = a
      BY <3>2
    <3>4. QED
      BY <2>2, <2>3, <2>4, <3>1, <3>3, Zenon
  <2>7. CASE p + 1 \in SubTitles(d, sec)
    <3>1. nx[p] = p + 1 /\ nx[p] - 1 = p /\ nx[p + 1] \in (p + 2)..(n + 1)
      <4>1. nx[p] = p + 1
        BY <1>4, <2>1, <2>7, Zenon
      <4>2. nx[p + 1] \in ((p + 1) + 1)..(n + 1)
        BY <1>4, <2>1, Zenon
      <4>3. (p + 1) + 1 = p + 2 /\ (p + 1) - 1 = p
        BY <2>1
      <4>4. QED
        BY <4>1, <4>2, <4>3, Zenon
    <3>2. PICK k \in (p + 1)..n : k = nx[p + 1] - 1
      <4>1. PICK m \in (p + 2)..(n + 1) : m = nx[p + 1]
        BY <3>1, Zenon
      <4>2. m - 1 \in (p + 1)..n
        BY <2>1
      <4>3. QED
        BY <4>1, <4>2, Zenon
    <3>3. PICK after \in Seq(Line) :
              after = UpToNextTitle(d, sec, p + 1) /\ after = SubSeq(c, p + 2, k)
      <4>1. UpToNextTitle(d, sec, p + 1) = SubSeq(c, (p + 1) + 1, nx[p + 1] - 1)
        BY <1>4, <2>1
      <4>2. UpToNextTitle(d, sec, p + 1) \in Seq(Line) /\ (p + 1) + 1 = p + 2
        BY <1>5, <2>1
      <4>3. QED
        BY <3>2, <4>1, <4>2, Zenon
    <3>4. b = TextOf(d, after)
      <4>1. PICK piece \in Section : x = <<piece>> /\ piece.content = after
        <5>1. x = <<[title |-> c[p + 1], content |-> after]>>
          BY <1>3, <2>1, <2>2, <2>7, <3>3
        <5>2. [title |-> c[p + 1], content |-> after] \in Section
          BY <1>2, <2>1 DEF Section
        <5>3. QED
          BY <5>1, <5>2
      <4>2. MapJoin(Text(d), <<piece>>) = Text(d)[piece]
        BY <1>8, Zenon
      <4>3. QED
        BY <2>3, <4>1, <4>2, TextMaps, Zenon
    <3>5. PICK before \in Seq(Line) : before = SubSeq(c, 1, p)
      <4>1. SubSeq(c, 1, p) \in Seq(Line)
        BY <1>2, <2>1, SubSeqAppend
      <4>2. QED
        BY <4>1, Zenon
    <3>6. SubSeq(c, 1, k) = (before \o <<c[p + 1]>>) \o after
      <4>1. SubSeq(c, 1, p + 1) = Append(before, c[p + 1]) /\ c[p + 1] \in Line
        BY <1>2, <2>1, <3>5, SubSeqAppend
      <4>2. Append(before, c[p + 1]) = before \o <<c[p + 1]>>
        BY <4>1, AppendIsConcat, Zenon
      <4>3. SubSeq(c, 1, p + 1) \o SubSeq(c, (p + 1) + 1, k) = SubSeq(c, 1, k)
        <5>1. /\ 1 \in 1..(Len(c) + 1) /\ p + 1 \in (1 - 1)..Len(c) /\ k \in (p + 1)..Len(c)
          BY <1>2, <2>1
        <5>2. QED
          BY ONLY <5>1, c \in Seq(Line), ConcatAdjacentSubSeq
      <4>4. (p + 1) + 1 = p + 2
        BY <2>1
      <4>5. QED
        BY <3>3, <4>1, <4>2, <4>3, <4>4, Zenon
    <3>7. TextOf(d, (before \o <<c[p + 1]>>) \o after) = TextOf(d, before) \o TextOf(d, after)
      <4>1. PICK line \in Line : line = c[p + 1] /\ ~ IsText(d, line)
        BY <1>2, <1>6, <2>1, <2>7, Zenon
      <4>2. TextOf(d, (before \o <<line>>) \o after) = TextOf(d, before) \o TextOf(d, after)
        BY <1>8, <4>1, Zenon
      <4>3. QED
        BY <4>1, <4>2, Zenon
    <3>8. QED
      BY <2>2, <2>3, <2>4, <2>5, <3>1, <3>2, <3>4, <3>5, <3>6, <3>7, Zenon
  <2>8. QED
    BY <2>6, <2>7
<1>12. n \in T
  <2>1. \A p \in T : p + 1 \in Nat
    OBVIOUS
  <2>2. \A p \in T : p + 1 \in T
    BY <1>9, <1>11, <2>1
  <2>3. T = Nat
    BY <1>10, <2>2, Induct
  <2>4. QED
    BY <2>3
<1>13. nx[n] = n + 1 /\ nx[n] - 1 = n /\ SubSeq(c, 1, n) = c /\ SubSeq(w, 1, n) = w
  <2>1. nx[n] = n + 1
    BY <1>4
  <2>2. QED
    BY <1>2, <1>3, <2>1
<1>14. pre \o MapJoin(Text(d), FlattenSeq(w)) = TextOf(d, c)
  <2>1. n <= n
    OBVIOUS
  <2>2. pre \o MapJoin(Text(d), FlattenSeq(SubSeq(w, 1, n))) = TextOf(d, SubSeq(c, 1, nx[n] - 1))
    BY <1>9, <1>12, <2>1, Zenon
  <2>3. QED
    BY <1>13, <2>2, Zenon
<1>15. QED
  BY <1>1, <1>3, <1>7, <1>14, Zenon

\* Splitting keeps the text.
LEMMA SplitText ==
    ASSUME NEW d, NEW sec \in Section
    PROVE  /\ Split(d, sec) \in Seq(Section)
           /\ MapJoin(Text(d), Split(d, sec)) = Text(d)[sec]
<1>1. Maps(Text(d), Section, Line) /\ \A x \in Section : Text(d)[x] = TextOf(d, x.content)
  BY TextMaps, Zenon
<1>2. PICK pre \in Section :
          pre = [title |-> sec.title, content |-> UpToNextTitle(d, sec, 0)]
          /\ pre.content = UpToNextTitle(d, sec, 0)
  <2>1. Len(sec.content) \in Nat /\ sec.title \in Line
    BY DEF Section
  <2>2. UpToNextTitle(d, sec, 0) \in Seq(Line)
    <3>1. \A p \in 0..Len(sec.content) : UpToNextTitle(d, sec, p) \in Seq(Line)
      BY PiecesTyped, Zenon
    <3>2. 0 \in 0..Len(sec.content)
      BY <2>1
    <3>3. QED
      BY <3>1, <3>2, Zenon
  <2>3. [title |-> sec.title, content |-> UpToNextTitle(d, sec, 0)] \in Section
    BY <2>1, <2>2 DEF Section
  <2>4. QED
    BY <2>3
<1>3. PICK pieces \in Seq(Section) : pieces = FlattenSeq(PiecesAt(d, sec))
  <2>1. FlattenSeq(PiecesAt(d, sec)) \in Seq(Section)
    BY PiecesTyped, FlattenType
  <2>2. QED
    BY <2>1, Zenon
<1>4. Split(d, sec) = IF Len(sec.content) <= MaxLines \/ SubTitles(d, sec) = {} THEN <<sec>>
                      ELSE IF pre.content = <<>> THEN pieces ELSE <<pre>> \o pieces
  BY <1>2, <1>3, Zenon DEF Split, PiecesAt
<1>5. TextOf(d, pre.content) \o MapJoin(Text(d), pieces) = Text(d)[sec]
  BY <1>1, <1>2, <1>3, PiecesText, Zenon
<1>6. CASE Split(d, sec) = <<sec>>
  <2>1. <<sec>> \in Seq(Section)
    OBVIOUS
  <2>2. MapJoin(Text(d), <<sec>>) = Text(d)[sec]
    BY ONLY <1>1, sec \in Section, MapJoinOne
  <2>3. QED
    BY <1>6, <2>1, <2>2, Zenon
<1>7. CASE pre.content = <<>> /\ Split(d, sec) = pieces
  <2>1. TextOf(d, <<>>) = <<>>
    <3>1. <<>> \in Seq(Line)
      OBVIOUS
    <3>2. QED
      BY <3>1, TextMaps, MapJoinEmpty, Zenon
  <2>2. MapJoin(Text(d), pieces) \in Seq(Line)
    BY <1>1, MapsType
  <2>3. <<>> \o MapJoin(Text(d), pieces) = MapJoin(Text(d), pieces)
    BY <2>2, ConcatEmptySeq
  <2>4. QED
    BY <1>5, <1>7, <2>1, <2>3, Zenon
<1>8. CASE Split(d, sec) = <<pre>> \o pieces
  <2>1. <<pre>> \in Seq(Section) /\ <<pre>> \o pieces \in Seq(Section)
    OBVIOUS
  <2>2. MapJoin(Text(d), <<pre>>) = Text(d)[pre]
    BY ONLY <1>1, pre \in Section, MapJoinOne
  <2>3. MapJoin(Text(d), <<pre>> \o pieces) = MapJoin(Text(d), <<pre>>) \o MapJoin(Text(d), pieces)
    <3>1. PICK one \in Seq(Section) : one = <<pre>>
      BY <2>1, Zenon
    <3>2. MapJoin(Text(d), one \o pieces) = MapJoin(Text(d), one) \o MapJoin(Text(d), pieces)
      BY ONLY <1>1, one \in Seq(Section), pieces \in Seq(Section), MapJoinConcat
    <3>3. QED
      BY <3>1, <3>2, Zenon
  <2>4. QED
    BY <1>1, <1>5, <1>8, <2>1, <2>2, <2>3, Zenon
<1>9. QED
  BY <1>4, <1>6, <1>7, <1>8, Zenon

\* Dropping the pieces without content keeps the text.
Kept(piece) == IF piece.content = <<>> THEN <<>> ELSE <<piece>>

LEMMA KeptText ==
    ASSUME NEW d, NEW pieces \in Seq(Section)
    PROVE  /\ FlattenSeq([i \in DOMAIN pieces |-> Kept(pieces[i])]) \in Seq(Section)
           /\ MapJoin(Text(d), FlattenSeq([i \in DOMAIN pieces |-> Kept(pieces[i])]))
                 = MapJoin(Text(d), pieces)
<1>1. Maps(Text(d), Section, Line) /\ \A x \in Section : Text(d)[x] = TextOf(d, x.content)
  BY TextMaps, Zenon
<1>2. ASSUME NEW x \in Section
      PROVE  Kept(x) \in Seq(Section) /\ MapJoin(Text(d), Kept(x)) = Text(d)[x]
  <2>1. CASE x.content = <<>>
    <3>1. Kept(x) = <<>> /\ <<>> \in Seq(Section) /\ <<>> \in Seq(Line)
      BY <2>1 DEF Kept
    <3>2. TextOf(d, <<>>) = <<>>
      BY <3>1, TextMaps, MapJoinEmpty, Zenon
    <3>3. QED
      BY <1>1, <2>1, <3>1, <3>2, MapJoinEmpty, Zenon
  <2>2. CASE x.content # <<>>
    <3>1. Kept(x) = <<x>> /\ <<x>> \in Seq(Section)
      BY <2>2 DEF Kept
    <3>2. MapJoin(Text(d), <<x>>) = Text(d)[x]
      BY ONLY <1>1, x \in Section, MapJoinOne
    <3>3. QED
      BY <3>1, <3>2, Zenon
  <2>3. QED
    BY <2>1, <2>2
<1>3. Len(pieces) \in Nat /\ DOMAIN pieces = 1..Len(pieces) /\ \A i \in DOMAIN pieces : pieces[i] \in Section
  OBVIOUS
<1>4. PICK kk \in Seq(Seq(Section)) : /\ kk = [i \in DOMAIN pieces |-> Kept(pieces[i])]
                                      /\ DOMAIN kk = DOMAIN pieces
                                      /\ \A i \in DOMAIN pieces : kk[i] = Kept(pieces[i])
  <2>1. \A i \in 1..Len(pieces) : Kept(pieces[i]) \in Seq(Section)
    BY <1>2, <1>3
  <2>2. [i \in DOMAIN pieces |-> Kept(pieces[i])] \in Seq(Seq(Section))
    BY <1>3, <2>1
  <2>3. QED
    BY <2>2
<1>5. MapJoin(Text(d), FlattenSeq(kk)) = FlattenSeq([i \in DOMAIN kk |-> MapJoin(Text(d), kk[i])])
  BY ONLY <1>1, kk \in Seq(Seq(Section)), MapJoinFlatten
<1>6. [i \in DOMAIN kk |-> MapJoin(Text(d), kk[i])] = [i \in DOMAIN pieces |-> Text(d)[pieces[i]]]
  <2>1. \A i \in DOMAIN pieces : MapJoin(Text(d), kk[i]) = Text(d)[pieces[i]]
    BY <1>2, <1>3, <1>4
  <2>2. QED
    BY <1>4, <2>1, Zenon
<1>7. FlattenSeq(kk) \in Seq(Section)
  BY FlattenType
<1>8. QED
  BY <1>4, <1>5, <1>6, <1>7, Zenon DEF MapJoin

\* The chunks of any document have its text.
LEMMA ChunksText ==
    ASSUME NEW d \in Document
    PROVE  ChunkText(d) = DocumentText(d)
<1>1. Maps(Text(d), Section, Line) /\ \A x \in Section : Text(d)[x] = TextOf(d, x.content)
  BY TextMaps, Zenon
<1>2. PICK secs \in Seq(Section) : /\ secs = Sections(d) /\ DOMAIN secs = DOMAIN d.sections
                                   /\ \A i \in DOMAIN secs : secs[i].title[2] = 0
  <2>1. PICK n \in Nat :
            /\ DOMAIN d.sections = 1..n
            /\ \A i \in 1..n : /\ Len(d.sections[i]) \in Nat
                               /\ DOMAIN d.sections[i] = 1..Len(d.sections[i])
    BY DEF Document
  <2>2. ASSUME NEW i \in 1..n
        PROVE  [title |-> <<i, 0>>, content |-> [p \in DOMAIN d.sections[i] |-> <<i, p>>]]
                  \in Section
    <3>1. [p \in 1..Len(d.sections[i]) |-> <<i, p>>] \in Seq(Line)
      BY <2>1 DEF Line
    <3>2. <<i, 0>> \in Line
      BY DEF Line
    <3>3. QED
      BY <2>1, <3>1, <3>2 DEF Section
  <2>3. Sections(d) \in Seq(Section)
    BY <2>1, <2>2 DEF Sections
  <2>4. DOMAIN Sections(d) = DOMAIN d.sections
    BY DEF Sections
  <2>5. \A i \in DOMAIN Sections(d) : Sections(d)[i].title[2] = 0
    BY DEF Sections
  <2>6. QED
    BY <2>3, <2>4, <2>5, Zenon
<1>3. PICK merged \in Seq(Section) : /\ merged = Merged(secs)
                                     /\ MapJoin(Text(d), merged) = MapJoin(Text(d), secs)
  <2>1. /\ Merged(secs) \in Seq(Section)
        /\ MapJoin(Text(d), Merged(secs)) = MapJoin(Text(d), secs)
    BY <1>2, MergedText
  <2>2. QED
    BY <2>1, Zenon
<1>4. PICK ss \in Seq(Seq(Section)) :
          /\ ss = [i \in DOMAIN merged |-> Split(d, merged[i])] /\ DOMAIN ss = DOMAIN merged
          /\ \A i \in DOMAIN merged : MapJoin(Text(d), ss[i]) = Text(d)[merged[i]]
  <2>1. /\ Len(merged) \in Nat /\ DOMAIN merged = 1..Len(merged)
        /\ \A i \in 1..Len(merged) : merged[i] \in Section
    OBVIOUS
  <2>2. \A i \in 1..Len(merged) : Split(d, merged[i]) \in Seq(Section)
    BY <2>1, SplitText
  <2>3. [i \in DOMAIN merged |-> Split(d, merged[i])] \in Seq(Seq(Section))
    BY <2>1, <2>2
  <2>4. \A i \in DOMAIN merged : MapJoin(Text(d), Split(d, merged[i])) = Text(d)[merged[i]]
    BY <2>1, SplitText
  <2>5. QED
    BY <2>3, <2>4
<1>5. PICK pieces \in Seq(Section) : /\ pieces = FlattenSeq(ss)
                                     /\ MapJoin(Text(d), pieces) = MapJoin(Text(d), merged)
  <2>1. MapJoin(Text(d), FlattenSeq(ss)) = FlattenSeq([i \in DOMAIN ss |-> MapJoin(Text(d), ss[i])])
    BY ONLY <1>1, ss \in Seq(Seq(Section)), MapJoinFlatten
  <2>2. [i \in DOMAIN ss |-> MapJoin(Text(d), ss[i])] = [i \in DOMAIN merged |-> Text(d)[merged[i]]]
    BY <1>4, Zenon
  <2>3. FlattenSeq(ss) \in Seq(Section)
    BY FlattenType
  <2>4. QED
    BY <2>1, <2>2, <2>3, Zenon DEF MapJoin
<1>6. PICK chunks \in Seq(Section) : /\ chunks = Chunks(d)
                                     /\ MapJoin(Text(d), chunks) = MapJoin(Text(d), pieces)
  <2>1. Chunks(d) = FlattenSeq([i \in DOMAIN pieces |-> Kept(pieces[i])])
    BY <1>2, <1>3, <1>4, <1>5, Zenon DEF Chunks, Kept
  <2>2. QED
    BY <2>1, KeptText, Zenon
<1>7. ChunkText(d) = MapJoin(Text(d), chunks)
  <2>1. \A i \in DOMAIN chunks : chunks[i] \in Section
    OBVIOUS
  <2>2. \A i \in DOMAIN chunks : Text(d)[chunks[i]] = TextOf(d, chunks[i].content)
    BY <1>1, <2>1, Zenon
  <2>3. QED
    BY <1>6, <2>2, Zenon DEF ChunkText, MapJoin
<1>8. DocumentText(d) = MapJoin(Text(d), secs)
  <2>1. \A i \in DOMAIN secs : secs[i] \in Section
    OBVIOUS
  <2>2. \A i \in DOMAIN secs : Text(d)[secs[i]] = TextOf(d, secs[i].content)
    BY <1>1, <2>1, Zenon
  <2>3. QED
    BY <1>2, <2>2, Zenon DEF DocumentText, MapJoin
<1>9. QED
  BY <1>3, <1>5, <1>6, <1>7, <1>8, Zenon

-----------------------------------------------------------------------------
(* The theorems.                                                           *)

\* Type correctness of the queue and the pipelines: a key is empty or names a work item,
\* the semaphore stays within MAX_CONCURRENT_PIPELINES and the queue's counter above 0.
THEOREM PipelineTyped == Spec => []PipelineTypeOK
<1>1. IntakeInv /\ PairInv => PipelineTypeOK
  <2> SUFFICES ASSUME IntakeInv, PairInv PROVE PipelineTypeOK
    OBVIOUS
  <2>1. keys \in [1..MaxJobs -> Seq(DOMAIN workItems \cup {NoKey})]
    <3>1. ASSUME NEW j \in 1..MaxJobs
          PROVE  keys[j] \in Seq(DOMAIN workItems \cup {NoKey})
      <4>1. Keyed(j)
        BY DEF PairInv
      <4>2. PICK n \in Nat : /\ DOMAIN keys[j] = 1..n /\ n = Len(keys[j])
                             /\ keys[j] = [c \in 1..n |-> keys[j][c]]
        <5>1. keys[j] \in Seq(Name \cup {NoKey})
          BY <4>1, Zenon DEF Keyed
        <5>2. PICK key \in Seq(Name \cup {NoKey}) : key = keys[j]
          BY <5>1, Zenon
        <5>3. Len(key) \in Nat /\ DOMAIN key = 1..Len(key) /\ key = [c \in 1..Len(key) |-> key[c]]
          OBVIOUS
        <5>4. QED
          BY <5>2, <5>3, Zenon
      <4>3. \A c \in 1..n : keys[j][c] \in DOMAIN workItems \cup {NoKey}
        BY <4>1, <4>2 DEF Keyed
      <4>4. QED
        <5>1. [c \in 1..n |-> keys[j][c]] \in Seq(DOMAIN workItems \cup {NoKey})
          BY <4>3
        <5>2. QED
          BY <4>2, <5>1, Zenon
    <3>2. QED
      BY <3>1 DEF PairInv
  <2>2. DOMAIN workItems \subseteq Name /\ Range(workItems) \subseteq WorkItem
    BY DEF PairInv, Made, Range
  <2>3. QED
    BY <2>1, <2>2 DEF PipelineTypeOK, IntakeInv, PairInv, Reading
<1>2. QED
  BY PipelineInvariant, <1>1, PTL

\* _RequirementReviewGuard drops exactly the excess: the accepted events keep within the
\* dedup window and the rate at any distance, and nothing else is dropped.
THEOREM GuardDropsExcess == Spec => []GuardPrecise
<1>1. IntakeInv => GuardPrecise
  <2> SUFFICES ASSUME IntakeInv PROVE GuardPrecise
    OBVIOUS
  <2>1. ASSUME NEW i \in Items, DropReason(i) # "None"
        PROVE  \/ Cardinality({k \in Reviews : now - jobs[k].at <= Minute}) = MaxPerMinute
               \/ \E k \in Reviews : jobs[k].item = i /\ now - jobs[k].at <= DedupWindow
    <3>1. CASE Cardinality(Recent) = MaxPerMinute
      BY <3>1 DEF Recent
    <3>2. CASE i \in DOMAIN Remembered
      <4>1. i \in DOMAIN lastSeen /\ now - lastSeen[i] <= DedupWindow
        BY <3>2, RememberedAre
      <4>2. PICK k \in Reviews : jobs[k].item = i /\ jobs[k].at = lastSeen[i]
        BY <4>1 DEF IntakeInv, Windows
      <4>3. QED
        BY <4>1, <4>2
    <3>3. QED
      BY <2>1, <3>1, <3>2, Decision
  <2>2. QED
    BY <2>1 DEF GuardPrecise, OnlyExcessDropped, IntakeInv
<1>2. QED
  BY PipelineInvariant, <1>1, PTL

\* No pipeline writes to another's work items, whatever keys the agents name and however
\* many pipelines run at once.
THEOREM PipelinesKeepApart == Spec => []OwnWorkItems
<1>1. PairInv => OwnWorkItems
  BY DEF PairInv, OwnWorkItems, Noted
<1>2. QED
  BY PipelineInvariant, <1>1, PTL

\* zip(test_cases, keys) pairs a label or comment with its own work item exactly if no
\* case up to the one it is about was skipped.
THEOREM PairedByPosition == Spec => []PairedUpToFirstSkip
<1>1. PairInv => PairedUpToFirstSkip
  BY DEF PairInv, PairedUpToFirstSkip, Noted
<1>2. QED
  BY PipelineInvariant, <1>1, PTL

\* Merging short sections, splitting long ones and dropping empty pieces neither loses nor
\* repeats nor moves a text line that stands under a heading, whatever the document and
\* the three thresholds are.
THEOREM ChunkingKeepsText == Spec => []TextKept
<1>1. PairInv => TextKept
  <2>1. ASSUME PairInv, NEW j \in DOMAIN doc, doc[j] # NoDoc
        PROVE  ChunkText(doc[j]) = DocumentText(doc[j])
    <3>1. doc[j] \in Document
      BY <2>1, PipelineAssumption DEF PairInv, Reading
    <3>2. QED
      BY <3>1, ChunksText
  <2>2. QED
    BY <2>1 DEF TextKept
<1>2. QED
  BY PipelineInvariant, <1>1, PTL
=============================================================================
