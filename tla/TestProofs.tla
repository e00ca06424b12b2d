------------------------------ MODULE TestProofs ------------------------------
(***************************************************************************)
(* Theorems about TestExecution, for any sets of agents, tasks and tests:  *)
(* no test is lost or run twice, the join counter is exact, and the group  *)
(* implements TestGroup, whatever the dispatcher does meanwhile.           *)
(***************************************************************************)
EXTENDS TestExecution, DispatchProofs, FiniteSetTheorems

Busy == {a \in Agents : wpc[a] = "executing"}

GroupTypeOK ==
    /\ group \in {"idle", "joining", "stopping", "done"}
    /\ pool \in SUBSET Agents
    /\ testQueue \in Seq(Tests \cup {Stop})
    /\ wpc \in [Agents -> WorkerPhase]
    /\ wTest \in [Agents -> Tests \cup {Stop}]
    /\ results \in [Tests -> {0, 1}]

\* NoTestLost without counting: where a test is, it is once, and it has its result when it
\* is nowhere else.
OnePlace ==
    /\ \A i, j \in DOMAIN testQueue :
           testQueue[i] = testQueue[j] /\ testQueue[i] # Stop => i = j
    /\ \A a \in Busy :
           /\ wTest[a] # Stop
           /\ \A i \in DOMAIN testQueue : testQueue[i] # wTest[a]
           /\ \A b \in Busy : wTest[a] = wTest[b] => a = b
    /\ group # "idle" => \A x \in Tests :
           results[x] = 0 <=>
               \/ \E i \in DOMAIN testQueue : testQueue[i] = x
               \/ \E a \in Busy : wTest[a] = x

\* Tests are queued and run only until the join, Stops only after it.
InStage ==
    /\ group = "idle" =>
           testQueue = <<>> /\ (\A a \in Agents : wpc[a] = "none")
           /\ (\A x \in Tests : results[x] = 0)
    /\ group = "joining" => \A i \in DOMAIN testQueue : testQueue[i] # Stop
    /\ group \in {"stopping", "done"} =>
           Busy = {} /\ \A i \in DOMAIN testQueue : testQueue[i] = Stop

GroupInv == GroupTypeOK /\ OnePlace /\ InStage /\ JoinCounter

-----------------------------------------------------------------------------
(* The queue's operators.                                                  *)

\* Taking the head of a queue moves every other position by one.
LEMMA TailPositions ==
    ASSUME NEW S, NEW q \in Seq(S), q # <<>>
    PROVE  /\ Tail(q) \in Seq(S) /\ Head(q) \in S
           /\ Len(Tail(q)) = Len(q) - 1
           /\ Head(q) = q[1] /\ 1 \in DOMAIN q
           /\ \A p \in DOMAIN Tail(q) :
                  p + 1 \in DOMAIN q /\ p + 1 # 1 /\ Tail(q)[p] = q[p + 1]
           /\ \A p \in DOMAIN q : p # 1 =>
                  p - 1 \in DOMAIN Tail(q) /\ Tail(q)[p - 1] = q[p]
<1>1. /\ Len(q) \in Nat /\ Len(q) > 0 /\ Head(q) = q[1]
      /\ DOMAIN q = 1..Len(q)
      /\ DOMAIN Tail(q) = 1..Len(q) - 1
      /\ \A p \in 1..Len(q) - 1 : Tail(q)[p] = q[p + 1]
  OBVIOUS
<1>2. Tail(q) \in Seq(S) /\ Head(q) \in S /\ Len(Tail(q)) = Len(q) - 1
  OBVIOUS
<1>3. QED
  BY <1>1, <1>2

\* An item put into a queue is in its last position.
LEMMA AppendPositions ==
    ASSUME NEW S, NEW q \in Seq(S), NEW x \in S
    PROVE  /\ Append(q, x) \in Seq(S)
           /\ Len(Append(q, x)) = Len(q) + 1
           /\ Len(q) + 1 \in DOMAIN Append(q, x) /\ Append(q, x)[Len(q) + 1] = x
           /\ \A p \in DOMAIN Append(q, x) : p \in DOMAIN q \/ p = Len(q) + 1
           /\ \A p \in DOMAIN q : p \in DOMAIN Append(q, x) /\ Append(q, x)[p] = q[p]
OBVIOUS

\* SetToSeq lists every element of a finite set once.
LEMMA SetToSeqLists ==
    ASSUME NEW S, IsFiniteSet(S)
    PROVE  /\ SetToSeq(S) \in Seq(S) /\ Len(SetToSeq(S)) = Cardinality(S)
           /\ \A i, j \in DOMAIN SetToSeq(S) : SetToSeq(S)[i] = SetToSeq(S)[j] => i = j
           /\ \A x \in S : \E i \in DOMAIN SetToSeq(S) : SetToSeq(S)[i] = x
<1> DEFINE n == Cardinality(S)
<1>1. n \in Nat /\ ExistsBijection(1..n, S)
  BY FS_CardinalityType
<1>2. PICK f \in [1..n -> S] : \A i, j \in 1..n : f[i] = f[j] => i = j
  BY <1>1 DEF ExistsBijection, Bijection, Injection, IsInjective
<1>3. \E g \in [1..n -> S] : IsInjective(g)
  BY <1>2 DEF IsInjective
<1>4. SetToSeq(S) \in [1..n -> S] /\ IsInjective(SetToSeq(S))
  BY <1>3 DEF SetToSeq
<1>5. SetToSeq(S) \in Injection(1..n, S)
  BY <1>4 DEF Injection, IsInjective
<1>6. Cardinality(1..n) = n /\ IsFiniteSet(1..n)
  BY <1>1, FS_Interval
<1>7. SetToSeq(S) \in Surjection(1..n, S)
  BY <1>5, <1>6, FS_Injection
<1>8. QED
  BY <1>1, <1>4, <1>7 DEF IsInjective, Surjection

\* The workers that run a test are finitely many.
LEMMA BusyFinite == IsFiniteSet(Busy) /\ Cardinality(Busy) \in Nat
<1>1. IsFiniteSet(Busy)
  BY TestAssumption, FS_Subset DEF Busy
<1>2. QED
  BY <1>1, FS_CardinalityType

\* The join counter counts the queue and the busy workers.
LEMMA JoinCounts ==
    /\ JoinCounter <=> unfinished = Len(testQueue) + Cardinality(Busy)
    /\ JoinCounter' <=> unfinished' = Len(testQueue') + Cardinality(Busy')
BY DEF JoinCounter, Busy

-----------------------------------------------------------------------------
(* No test is lost.                                                        *)

\* Before the group is started there is nothing.
LEMMA GroupInit == TestInit => GroupInv
<1> SUFFICES ASSUME TestInit
             PROVE  GroupInv
  OBVIOUS
<1>1. GroupTypeOK
  BY DEF TestInit, GroupTypeOK, WorkerPhase
<1>2. Busy = {}
  BY DEF TestInit, Busy
<1>3. JoinCounter
  BY <1>2, FS_EmptySet, JoinCounts DEF TestInit
<1>4. QED
  BY <1>1, <1>2, <1>3 DEF TestInit, GroupInv, OnePlace, InStage

\* At the start every test is queued, once.
LEMMA GroupStart ==
    ASSUME GroupInv, NEW agents \in SUBSET Agents, StartGroup(agents)
    PROVE  GroupInv'
<1> USE DEF GroupInv, GroupTypeOK
<1>1. /\ testQueue' \in Seq(Tests) /\ Len(testQueue') = Cardinality(Tests)
      /\ \A i, j \in DOMAIN testQueue' : testQueue'[i] = testQueue'[j] => i = j
      /\ \A x \in Tests : \E i \in DOMAIN testQueue' : testQueue'[i] = x
  BY TestAssumption, SetToSeqLists DEF StartGroup
<1>2. /\ wpc' \in [Agents -> {"checking", "none"}]
      /\ group' = "joining" /\ pool' \in SUBSET Agents
      /\ unfinished' = Cardinality(Tests)
      /\ UNCHANGED <<wTest, results>>
      /\ \A x \in Tests : results[x] = 0
  BY DEF StartGroup, InStage
<1>3. Busy' = {}
  BY <1>2 DEF Busy
<1>4. GroupTypeOK'
  <2>1. testQueue' \in Seq(Tests \cup {Stop})
    BY <1>1
  <2>2. QED
    BY <1>2, <2>1 DEF WorkerPhase
<1>5. OnePlace'
  BY <1>1, <1>2, <1>3 DEF OnePlace
<1>6. InStage'
  BY <1>1, <1>2, TestAssumption DEF InStage
<1>7. JoinCounter'
  <2>1. Cardinality(Busy') = 0 /\ Cardinality(Tests) \in Nat
    BY <1>3, FS_EmptySet, TestAssumption, FS_CardinalityType
  <2>2. QED
    BY <1>1, <1>2, <2>1, JoinCounts
<1>8. QED
  BY <1>4, <1>5, <1>6, <1>7

\* When the join counter is 0 nothing is queued and nobody runs a test.
LEMMA JoinMeansEmpty ==
    ASSUME GroupInv, unfinished = 0
    PROVE  testQueue = <<>> /\ Busy = {}
<1>1. Len(testQueue) \in Nat /\ Cardinality(Busy) \in Nat /\ IsFiniteSet(Busy)
  BY BusyFinite DEF GroupInv, GroupTypeOK
<1>2. Len(testQueue) + Cardinality(Busy) = 0
  BY DEF GroupInv, JoinCounter, Busy
<1>3. Len(testQueue) = 0 /\ Cardinality(Busy) = 0
  BY <1>1, <1>2
<1>4. QED
  BY <1>1, <1>3, FS_EmptySet DEF GroupInv, GroupTypeOK

\* After the join there are only Stops to be taken.
LEMMA GroupJoin ==
    ASSUME GroupInv, JoinReturns
    PROVE  GroupInv'
<1> DEFINE stops == [i \in 1..Cardinality(pool) |-> Stop]
<1> USE DEF GroupInv, GroupTypeOK
<1>1. testQueue = <<>> /\ Busy = {}
  BY JoinMeansEmpty DEF JoinReturns
<1>2. Cardinality(pool) \in Nat
  BY TestAssumption, FS_Subset, FS_CardinalityType
<1>3. /\ stops \in Seq({Stop}) /\ Len(stops) = Cardinality(pool)
      /\ \A i \in DOMAIN stops : stops[i] = Stop
  BY <1>2
<1>4. testQueue' = stops
  <2>1. <<>> \o stops = stops
    BY <1>3
  <2>2. QED
    BY <1>1, <2>1 DEF JoinReturns
<1>5. /\ group = "joining" /\ group' = "stopping" /\ unfinished' = Cardinality(pool)
      /\ UNCHANGED <<pool, wpc, wTest, results>>
  BY DEF JoinReturns
<1>6. Busy' = {}
  BY <1>1, <1>5 DEF Busy
<1>7. GroupTypeOK'
  <2>1. stops \in Seq(Tests \cup {Stop})
    BY <1>3
  <2>2. QED
    BY <1>4, <1>5, <2>1
<1>8. OnePlace'
  <2>1. ASSUME NEW x \in Tests
        PROVE  results'[x] # 0
    BY <1>1, <1>5 DEF OnePlace
  <2>2. \A x \in Tests : ~ \E i \in DOMAIN testQueue' : testQueue'[i] = x
    BY <1>3, <1>4, TestAssumption
  <2>3. QED
    BY <1>3, <1>4, <1>6, <2>1, <2>2 DEF OnePlace
<1>9. InStage'
  BY <1>3, <1>4, <1>5, <1>6 DEF InStage
<1>10. JoinCounter'
  <2>1. Cardinality(Busy') = 0
    BY <1>6, FS_EmptySet
  <2>2. QED
    BY <1>2, <1>3, <1>4, <1>5, <2>1, JoinCounts
<1>11. QED
  BY <1>7, <1>8, <1>9, <1>10

\* A worker takes a Stop and exits, or a test and runs it.
LEMMA GroupTake ==
    ASSUME GroupInv, NEW a \in Agents, wpc[a] \in {"checking", "getting"}, TakeTest(a)
    PROVE  GroupInv'
<1> USE DEF GroupInv, GroupTypeOK
<1>1. /\ testQueue # <<>> /\ testQueue' = Tail(testQueue)
      /\ UNCHANGED <<group, pool, results>>
      /\ group # "idle"
  BY DEF TakeTest, InStage
<1>2. /\ testQueue' \in Seq(Tests \cup {Stop}) /\ Head(testQueue) \in Tests \cup {Stop}
      /\ Len(testQueue') = Len(testQueue) - 1
      /\ Head(testQueue) = testQueue[1] /\ 1 \in DOMAIN testQueue
      /\ \A p \in DOMAIN testQueue' :
             p + 1 \in DOMAIN testQueue /\ p + 1 # 1 /\ testQueue'[p] = testQueue[p + 1]
      /\ \A p \in DOMAIN testQueue : p # 1 =>
             p - 1 \in DOMAIN testQueue' /\ testQueue'[p - 1] = testQueue[p]
      /\ \A p, q \in DOMAIN testQueue' : p + 1 = q + 1 => p = q
  <2>1. \A p, q \in DOMAIN Tail(testQueue) : p + 1 = q + 1 => p = q
    OBVIOUS
  <2>2. QED
    BY <1>1, <2>1, TailPositions
<1>3. a \notin Busy /\ Len(testQueue) \in Nat
  BY DEF Busy
<1>4. CASE Head(testQueue) = Stop
  <2>1. /\ wpc' = [wpc EXCEPT ![a] = "exited"]
        /\ unfinished' = unfinished - 1 /\ wTest' = wTest
    BY <1>4 DEF TakeTest
  <2>2. Busy' = Busy
    BY <1>3, <2>1 DEF Busy
  <2>3. GroupTypeOK'
    BY <1>1, <1>2, <2>1 DEF WorkerPhase
  <2>4. OnePlace'
    <3>1. \A x \in Tests : (\E i \in DOMAIN testQueue : testQueue[i] = x)
                           <=> (\E i \in DOMAIN testQueue' : testQueue'[i] = x)
      BY <1>2, <1>4, TestAssumption
    <3>2. \A i, j \in DOMAIN testQueue' :
              testQueue'[i] = testQueue'[j] /\ testQueue'[i] # Stop => i = j
      BY <1>2 DEF OnePlace
    <3>3. \A b \in Busy' :
              /\ wTest'[b] # Stop
              /\ \A i \in DOMAIN testQueue' : testQueue'[i] # wTest'[b]
              /\ \A c \in Busy' : wTest'[b] = wTest'[c] => b = c
      BY <1>2, <2>1, <2>2 DEF OnePlace
    <3>4. \A x \in Tests :
              results'[x] = 0 <=>
                  \/ \E i \in DOMAIN testQueue' : testQueue'[i] = x
                  \/ \E b \in Busy' : wTest'[b] = x
      <4>1. group # "idle" /\ results' = results /\ wTest' = wTest /\ Busy' = Busy
        BY <1>1, <2>1, <2>2
      <4>2. QED
        BY <3>1, <4>1 DEF OnePlace
    <3>5. QED
      BY <3>2, <3>3, <3>4 DEF OnePlace
  <2>5. InStage'
    BY <1>1, <1>2, <2>2 DEF InStage
  <2>6. JoinCounter'
    BY <1>2, <1>3, <2>1, <2>2, BusyFinite, JoinCounts
  <2>7. QED
    BY <2>3, <2>4, <2>5, <2>6
<1>5. CASE Head(testQueue) # Stop
  <2>1. PICK test \in Tests : test = Head(testQueue)
    BY <1>2, <1>5
  <2>2. /\ wpc' = [wpc EXCEPT ![a] = "executing"]
        /\ wTest' = [wTest EXCEPT ![a] = test]
        /\ unfinished' = unfinished
    BY <1>5, <2>1 DEF TakeTest
  <2>3. Busy' = Busy \cup {a}
    BY <2>2 DEF Busy
  <2>4. GroupTypeOK'
    BY <1>1, <1>2, <2>2 DEF WorkerPhase
  <2>5. group = "joining"
    BY <1>1, <1>2, <1>5 DEF InStage
  <2>6. \A b \in Busy : wTest'[b] = wTest[b] /\ wTest[b] # test
    BY <1>2, <1>3, <2>1, <2>2 DEF OnePlace
  <2>7. \A i \in DOMAIN testQueue' : testQueue'[i] # test
    <3>1. ASSUME NEW i \in DOMAIN testQueue, testQueue[i] = test
          PROVE  i = 1
      BY <1>2, <1>5, <2>1, <3>1 DEF OnePlace
    <3>2. QED
      BY <1>2, <3>1
  <2>8. wTest'[a] = test /\ test # Stop
    BY <2>2, TestAssumption
  <2>9. OnePlace'
    <3>1. ASSUME NEW x \in Tests
          PROVE  \/ \E i \in DOMAIN testQueue : testQueue[i] = x
                 \/ \E b \in Busy : wTest[b] = x
                 <=>
                 \/ \E i \in DOMAIN testQueue' : testQueue'[i] = x
                 \/ \E b \in Busy' : wTest'[b] = x
      <4>1. CASE x = test
        BY <1>2, <2>1, <2>3, <2>8, <4>1
      <4>2. CASE x # test
        <5>1. (\E i \in DOMAIN testQueue : testQueue[i] = x)
              <=> (\E i \in DOMAIN testQueue' : testQueue'[i] = x)
          BY <1>2, <2>1, <4>2
        <5>2. (\E b \in Busy : wTest[b] = x) <=> (\E b \in Busy' : wTest'[b] = x)
          BY <2>3, <2>6, <2>8, <4>2
        <5>3. QED
          BY <5>1, <5>2
      <4>3. QED
        BY <4>1, <4>2
    <3>2. \A b \in Busy' :
              /\ wTest'[b] # Stop
              /\ \A i \in DOMAIN testQueue' : testQueue'[i] # wTest'[b]
              /\ \A c \in Busy' : wTest'[b] = wTest'[c] => b = c
      <4>1. ASSUME NEW b \in Busy
            PROVE  /\ wTest'[b] # Stop /\ wTest'[b] # wTest'[a]
                   /\ \A i \in DOMAIN testQueue' : testQueue'[i] # wTest'[b]
                   /\ \A c \in Busy : wTest'[b] = wTest'[c] => b = c
        BY <1>2, <2>6, <2>8 DEF OnePlace
      <4>2. QED
        BY <2>3, <2>7, <2>8, <4>1
    <3>3. \A i, j \in DOMAIN testQueue' :
              testQueue'[i] = testQueue'[j] /\ testQueue'[i] # Stop => i = j
      BY <1>2 DEF OnePlace
    <3>4. QED
      BY <1>1, <3>1, <3>2, <3>3 DEF OnePlace
  <2>10. InStage'
    BY <1>1, <1>2, <2>5 DEF InStage
  <2>11. JoinCounter'
    <3>1. Cardinality(Busy') = Cardinality(Busy) + 1
      BY <1>3, <2>3, BusyFinite, FS_AddElement
    <3>2. QED
      BY <1>2, <1>3, <2>2, <3>1, BusyFinite, JoinCounts
  <2>12. QED
    BY <2>4, <2>9, <2>10, <2>11
<1>6. QED
  BY <1>4, <1>5

\* A test that is run has no result yet, and the group waits for it.
LEMMA BusyTest ==
    ASSUME GroupInv, NEW a \in Busy
    PROVE  /\ a \in Agents /\ wpc[a] = "executing" /\ group = "joining"
           /\ wTest[a] \in Tests /\ results[wTest[a]] = 0
BY DEF GroupInv, GroupTypeOK, OnePlace, InStage, Busy

\* Its result takes the place of the run.
LEMMA GroupResult ==
    ASSUME GroupInv, NEW a \in Busy, Executed(a), AddResult(wTest[a]),
           unfinished' = unfinished - 1,
           NEW next \in {"checking", "exited"}, wpc' = [wpc EXCEPT ![a] = next],
           UNCHANGED <<group, pool, testQueue>>
    PROVE  /\ GroupInv' /\ Busy' = Busy \ {a}
           /\ results' = [results EXCEPT ![wTest[a]] = 1]
<1> USE DEF GroupInv, GroupTypeOK
<1>0. PICK test \in Tests : test = wTest[a]
  BY BusyTest
<1>1. /\ a \in Agents /\ group = "joining" /\ results[test] = 0
      /\ wTest' = [wTest EXCEPT ![a] = Stop]
      /\ results' = [results EXCEPT ![test] = 1]
  <2>1. a \in Agents /\ group = "joining" /\ results[test] = 0
    BY <1>0, BusyTest
  <2>2. results' = [results EXCEPT ![test] = results[test] + 1]
    BY <1>0 DEF AddResult
  <2>3. results[test] + 1 = 1
    BY <2>1
  <2>4. QED
    BY <2>1, <2>2, <2>3 DEF Executed
<1>2. Busy' = Busy \ {a}
  BY <1>1 DEF Busy
<1>3. GroupTypeOK'
  BY <1>1 DEF WorkerPhase
<1>4. \A b \in Busy' : b \in Busy /\ b # a /\ wTest'[b] = wTest[b] /\ wTest[b] # test
  BY <1>0, <1>1, <1>2 DEF OnePlace, Busy
<1>5. \A i \in DOMAIN testQueue : testQueue[i] # test
  BY <1>0 DEF OnePlace
<1>6. OnePlace'
  <2>1. ASSUME NEW x \in Tests
        PROVE  results'[x] = 0 <=> \/ \E i \in DOMAIN testQueue' : testQueue'[i] = x
                                   \/ \E b \in Busy' : wTest'[b] = x
    <3>1. CASE x = test
      BY <1>1, <1>4, <1>5, <3>1
    <3>2. CASE x # test
      <4>1. results'[x] = results[x]
        BY <1>1, <3>2
      <4>2. (\E b \in Busy : wTest[b] = x) <=> (\E b \in Busy' : wTest'[b] = x)
        BY <1>0, <1>2, <1>4, <3>2
      <4>3. QED
        BY <1>1, <4>1, <4>2 DEF OnePlace
    <3>3. QED
      BY <3>1, <3>2
  <2>2. \A b \in Busy' :
            /\ wTest'[b] # Stop
            /\ \A i \in DOMAIN testQueue' : testQueue'[i] # wTest'[b]
            /\ \A c \in Busy' : wTest'[b] = wTest'[c] => b = c
    BY <1>4 DEF OnePlace
  <2>3. QED
    BY <2>1, <2>2 DEF OnePlace
<1>7. InStage'
  BY <1>1 DEF InStage
<1>8. JoinCounter'
  <2>1. Cardinality(Busy') = Cardinality(Busy) - 1
    BY <1>2, BusyFinite, FS_RemoveElement
  <2>2. Len(testQueue) \in Nat
    OBVIOUS
  <2>3. QED
    BY <2>1, <2>2, BusyFinite, JoinCounts
<1>9. QED
  BY <1>0, <1>1, <1>2, <1>3, <1>6, <1>7, <1>8

\* A test that is queued again is not run any more: the join counter stays.
LEMMA GroupRequeue ==
    ASSUME GroupInv, NEW a \in Busy, Executed(a), testQueue' = Append(testQueue, wTest[a]),
           wpc' = [wpc EXCEPT ![a] = "exited"],
           UNCHANGED <<group, pool, unfinished, results>>
    PROVE  GroupInv' /\ Busy' = Busy \ {a}
<1> USE DEF GroupInv, GroupTypeOK
<1>0. PICK test \in Tests : test = wTest[a]
  BY BusyTest
<1>1. /\ a \in Agents /\ group = "joining" /\ test # Stop
      /\ wTest' = [wTest EXCEPT ![a] = Stop]
  BY <1>0, BusyTest, TestAssumption DEF Executed
<1>2. Busy' = Busy \ {a}
  BY <1>1 DEF Busy
<1>3. /\ testQueue' \in Seq(Tests \cup {Stop})
      /\ Len(testQueue') = Len(testQueue) + 1
      /\ Len(testQueue) + 1 \in DOMAIN testQueue' /\ testQueue'[Len(testQueue) + 1] = test
      /\ \A p \in DOMAIN testQueue' : p \in DOMAIN testQueue \/ p = Len(testQueue) + 1
      /\ \A p \in DOMAIN testQueue : p \in DOMAIN testQueue' /\ testQueue'[p] = testQueue[p]
  BY <1>0, AppendPositions
<1>4. GroupTypeOK'
  BY <1>1, <1>3 DEF WorkerPhase
<1>5. \A b \in Busy' : b \in Busy /\ b # a /\ wTest'[b] = wTest[b] /\ wTest[b] # test
  BY <1>0, <1>1, <1>2 DEF OnePlace, Busy
<1>6. \A i \in DOMAIN testQueue : testQueue[i] # test
  BY <1>0 DEF OnePlace
<1>7. OnePlace'
  <2>1. ASSUME NEW x \in Tests
        PROVE  results'[x] = 0 <=> \/ \E i \in DOMAIN testQueue' : testQueue'[i] = x
                                   \/ \E b \in Busy' : wTest'[b] = x
    <3>1. results[x] = 0 <=> \/ \E i \in DOMAIN testQueue : testQueue[i] = x
                             \/ \E b \in Busy : wTest[b] = x
      BY <1>1 DEF OnePlace
    <3>2. (\E b \in Busy : wTest[b] = x) <=> (\E b \in Busy' : wTest'[b] = x) \/ x = test
      BY <1>0, <1>2, <1>5
    <3>3. (\E i \in DOMAIN testQueue' : testQueue'[i] = x)
          <=> (\E i \in DOMAIN testQueue : testQueue[i] = x) \/ x = test
      BY <1>3
    <3>4. QED
      BY <3>1, <3>2, <3>3
  <2>2. \A b \in Busy' :
            /\ wTest'[b] # Stop
            /\ \A i \in DOMAIN testQueue' : testQueue'[i] # wTest'[b]
            /\ \A c \in Busy' : wTest'[b] = wTest'[c] => b = c
    BY <1>3, <1>5 DEF OnePlace
  <2>3. \A i, j \in DOMAIN testQueue' :
            testQueue'[i] = testQueue'[j] /\ testQueue'[i] # Stop => i = j
    BY <1>3, <1>6 DEF OnePlace
  <2>4. QED
    BY <2>1, <2>2, <2>3 DEF OnePlace
<1>8. InStage'
  BY <1>1, <1>3 DEF InStage
<1>9. JoinCounter'
  <2>1. Cardinality(Busy') = Cardinality(Busy) - 1
    BY <1>2, BusyFinite, FS_RemoveElement
  <2>2. Len(testQueue) \in Nat
    OBVIOUS
  <2>3. QED
    BY <1>3, <2>1, <2>2, BusyFinite, JoinCounts
<1>10. QED
  BY <1>2, <1>4, <1>7, <1>8, <1>9

\* The other steps of the group move no test.
LEMMA GroupQuiet ==
    ASSUME GroupInv, UNCHANGED <<pool, testQueue, unfinished, wTest, results>>,
           group' = group \/ (group = "stopping" /\ group' = "done"),
           \/ wpc' = wpc
           \/ \E a \in Agents : /\ wpc[a] \in {"checking", "getting"}
                                /\ wpc' = [wpc EXCEPT ![a] = "getting"]
           \/ \E a \in Agents : /\ wpc[a] \in {"checking", "getting"}
                                /\ wpc' = [wpc EXCEPT ![a] = "exited"]
    PROVE  GroupInv'
<1> USE DEF GroupInv, GroupTypeOK
<1>1. Busy' = Busy /\ GroupTypeOK'
  BY DEF Busy, WorkerPhase
<1>2. group = "idle" => wpc' = wpc
  BY DEF InStage
<1>3. OnePlace' /\ InStage' /\ JoinCounter'
  BY <1>1, <1>2, JoinCounts DEF OnePlace, InStage
<1>4. QED
  BY <1>1, <1>3

\* What a worker does.
LEMMA GroupWorker ==
    ASSUME GroupInv, NEW a \in Agents, TestWorker(a)
    PROVE  GroupInv'
<1>1. CASE SeeBroken(a)
  BY <1>1, GroupQuiet DEF SeeBroken
<1>2. CASE SeeAvailable(a)
  <2>1. CASE TakeTest(a)
    BY <1>2, <2>1, GroupTake DEF SeeAvailable
  <2>2. CASE ~TakeTest(a)
    BY <1>2, <2>2, GroupQuiet DEF SeeAvailable
  <2>3. QED
    BY <2>1, <2>2
<1>3. CASE WakeUp(a)
  BY <1>3, GroupTake DEF WakeUp
<1>4. CASE TestDone(a)
  <2>1. a \in Busy
    BY <1>4 DEF TestDone, Executed, Busy
  <2>2. QED
    BY <1>4, <2>1, GroupResult DEF TestDone
<1>5. CASE TestFailed(a)
  <2>1. a \in Busy
    BY <1>5 DEF TestFailed, Executed, Busy
  <2>2. CASE OthersAlive(a)
    BY <1>5, <2>1, <2>2, GroupRequeue DEF TestFailed
  <2>3. CASE ~OthersAlive(a)
    BY <1>5, <2>1, <2>3, GroupResult DEF TestFailed
  <2>4. QED
    BY <2>2, <2>3
<1>6. QED
  BY <1>1, <1>2, <1>3, <1>4, <1>5 DEF TestWorker

\* Every step of the group, its workers and the dispatcher keeps every test in one place.
LEMMA GroupStep == GroupInv /\ [TestNext]_allVars => GroupInv'
<1> SUFFICES ASSUME GroupInv, [TestNext]_allVars
             PROVE  GroupInv'
  OBVIOUS
<1>1. CASE UNCHANGED testVars
  BY <1>1, GroupQuiet DEF testVars
<1>2. CASE TestGroup
  <2>1. CASE GroupDone
    BY <2>1, GroupQuiet DEF GroupDone
  <2>2. QED
    BY <1>2, <2>1, GroupStart, GroupJoin DEF TestGroup
<1>3. QED
  BY <1>1, <1>2, GroupWorker DEF TestNext, OtherRequests, allVars

LEMMA GroupInvariant == TestSpec => []GroupInv
BY GroupInit, GroupStep, PTL DEF TestSpec

\* However workers fail and tests are queued again, each test of a group is queued, run or
\* reported, and that once.
THEOREM TestsKept == TestSpec => []NoTestLost
<1>1. GroupInv => NoTestLost
  <2> SUFFICES ASSUME GroupInv, group # "idle", NEW x \in Tests
               PROVE  Cardinality(Queued(x)) + Cardinality(Executing(x)) + results[x] = 1
    BY DEF NoTestLost
  <2> USE DEF GroupInv, GroupTypeOK
  <2>1. x # Stop /\ results[x] \in {0, 1}
    BY TestAssumption
  <2>2. Executing(x) = {a \in Busy : wTest[a] = x}
    BY DEF Executing, Busy
  <2>3. CASE \E i \in DOMAIN testQueue : testQueue[i] = x
    <3>1. PICK i \in DOMAIN testQueue : testQueue[i] = x
      BY <2>3
    <3>2. Queued(x) = {i} /\ Executing(x) = {} /\ results[x] = 0
      BY <2>1, <2>2, <3>1 DEF OnePlace, Queued
    <3>3. Cardinality(Queued(x)) = 1 /\ Cardinality(Executing(x)) = 0
      BY <3>2, FS_EmptySet, FS_Singleton
    <3>4. QED
      BY <3>2, <3>3
  <2>4. CASE \E a \in Busy : wTest[a] = x
    <3>1. PICK a \in Busy : wTest[a] = x
      BY <2>4
    <3>2. Queued(x) = {} /\ Executing(x) = {a} /\ results[x] = 0
      BY <2>1, <2>2, <3>1 DEF OnePlace, Queued
    <3>3. Cardinality(Queued(x)) = 0 /\ Cardinality(Executing(x)) = 1
      BY <3>2, FS_EmptySet, FS_Singleton
    <3>4. QED
      BY <3>2, <3>3
  <2>5. CASE /\ ~ \E i \in DOMAIN testQueue : testQueue[i] = x
             /\ ~ \E a \in Busy : wTest[a] = x
    <3>1. Queued(x) = {} /\ Executing(x) = {} /\ results[x] = 1
      BY <2>1, <2>2, <2>5 DEF OnePlace, Queued
    <3>2. QED
      BY <3>1, FS_EmptySet
  <2>6. QED
    BY <2>3, <2>4, <2>5
<1>2. QED
  BY GroupInvariant, <1>1, PTL

\* The group's wait ends exactly when its items are done: the counter that join() waits
\* for is the number of items queued or run.
THEOREM JoinCounterExact == TestSpec => []JoinCounter
<1>1. GroupInv => JoinCounter
  BY DEF GroupInv
<1>2. QED
  BY GroupInvariant, <1>1, PTL

-----------------------------------------------------------------------------
(* The group implements TestGroup.                                         *)

\* A test that is neither queued nor run has been reported; when the counter says that
\* nothing is left, that is every test.
LEMMA AllReported ==
    ASSUME GroupInv, group = "joining", unfinished = 0, NEW x \in Tests
    PROVE  results[x] = 1
<1>1. testQueue = <<>> /\ Busy = {}
  BY JoinMeansEmpty
<1>2. QED
  BY <1>1 DEF GroupInv, GroupTypeOK, OnePlace

\* A result is a step of the abstract group, so are its start and its end, and nothing
\* else can be seen of it.
LEMMA GroupRefines == GroupInv /\ [TestNext]_allVars => [Group!Next]_Group!vars
<1> SUFFICES ASSUME GroupInv, [TestNext]_allVars
             PROVE  Group!Next \/ UNCHANGED Group!vars
  OBVIOUS
<1>1. ASSUME UNCHANGED <<group, results>>
      PROVE  UNCHANGED Group!vars
  BY <1>1 DEF Group!vars
<1>2. ASSUME NEW a \in Busy, Executed(a), AddResult(wTest[a]), unfinished' = unfinished - 1,
             wpc' = [wpc EXCEPT ![a] = "checking"] \/ wpc' = [wpc EXCEPT ![a] = "exited"],
             UNCHANGED <<group, pool, testQueue>>
      PROVE  Group!Next
  <2>1. /\ results' = [results EXCEPT ![wTest[a]] = 1]
        /\ wTest[a] \in Tests /\ results[wTest[a]] = 0 /\ group = "joining"
    BY <1>2, BusyTest, GroupResult
  <2>2. Group!Report(wTest[a])
    BY <1>2, <2>1 DEF Group!Report
  <2>3. QED
    BY <2>1, <2>2 DEF Group!Next
<1>3. ASSUME NEW a \in Agents, TestWorker(a)
      PROVE  Group!Next \/ UNCHANGED Group!vars
  <2>1. TestDone(a) => Group!Next
    BY <1>2 DEF TestDone, Executed, Busy
  <2>2. TestFailed(a) => Group!Next \/ UNCHANGED Group!vars
    BY <1>1, <1>2 DEF TestFailed, Executed, Busy
  <2>3. QED
    BY <1>1, <1>3, <2>1, <2>2
    DEF TestWorker, SeeBroken, SeeAvailable, WakeUp, TakeTest
<1>4. ASSUME NEW agents \in SUBSET Agents, StartGroup(agents)
      PROVE  Group!Next
  <2>1. Group!Start
    BY <1>4 DEF StartGroup, Group!Start
  <2>2. QED
    BY <2>1 DEF Group!Next
<1>5. ASSUME JoinReturns
      PROVE  Group!Next
  <2>1. Group!End
    BY <1>5, AllReported DEF JoinReturns, Group!End
  <2>2. QED
    BY <2>1 DEF Group!Next
<1>6. ASSUME GroupDone
      PROVE  UNCHANGED Group!vars
  BY <1>6 DEF GroupDone, Group!vars
<1>7. QED
  BY <1>1, <1>3, <1>4, <1>5, <1>6 DEF TestNext, TestGroup, OtherRequests, allVars, testVars

\* Behind its queue, its workers and the dispatcher, the group reports every test once
\* and ends when none is missing, for all agents, tests and tasks.
THEOREM GroupImplementsTestGroup == TestSpec => ImplementsTestGroup
<1>1. TestInit => Group!Init
  BY DEF TestInit, Group!Init
<1>2. QED
  BY GroupInvariant, GroupRefines, <1>1, PTL DEF ImplementsTestGroup, Group!Spec, TestSpec

-----------------------------------------------------------------------------
(* Type correctness, and that uuid4's stand-in never runs out of ids.      *)

IdleIds == {t \in Tasks : pc[t] = "idle"}
Alive   == {a \in Agents : wpc[a] \in {"checking", "getting", "executing"}}

\* An attempt uses an id and ends with a result or with a worker less: the ids that other
\* requests leave are enough for all attempts but the last, which kills the last worker.
IdsSuffice ==
    /\ group = "idle" =>
           Cardinality(IdleIds) + 1 >= Cardinality(Tests) + Cardinality(Agents)
    /\ group = "joining" =>
           Cardinality(IdleIds) + 1 >= Len(testQueue) + Cardinality(Alive)

TestTypeInv ==
    /\ TypeInv /\ GroupInv /\ IdsSuffice
    /\ wTask \in [Agents -> Tasks \cup {NoTask}]

\* What is counted is finite.
LEMMA CountsFinite ==
    /\ IsFiniteSet(IdleIds) /\ Cardinality(IdleIds) \in Nat
    /\ IsFiniteSet(Alive) /\ Cardinality(Alive) \in Nat
    /\ Cardinality(Alive) <= Cardinality(Agents)
    /\ Cardinality(Tests) \in Nat /\ Cardinality(Agents) \in Nat
<1>1. IsFiniteSet(IdleIds)
  BY RegistryAssumption, FS_Subset DEF IdleIds
<1>2. IsFiniteSet(Alive) /\ Cardinality(Alive) <= Cardinality(Agents)
  <2>1. Alive \in SUBSET Agents
    BY DEF Alive
  <2>2. QED
    BY <2>1, TestAssumption, FS_Subset
<1>3. QED
  BY <1>1, <1>2, TestAssumption, FS_CardinalityType

\* No more tests are queued than there are.
LEMMA QueuedBound ==
    ASSUME GroupInv, group = "joining"
    PROVE  Len(testQueue) \in Nat /\ Len(testQueue) <= Cardinality(Tests)
<1> DEFINE n == Len(testQueue)
<1>1. n \in Nat /\ DOMAIN testQueue = 1..n
  BY DEF GroupInv, GroupTypeOK
<1>2. testQueue \in [1..n -> Tests]
  BY <1>1 DEF GroupInv, GroupTypeOK, InStage
<1>3. \A i, j \in 1..n : testQueue[i] = testQueue[j] => i = j
  BY <1>1, <1>2, TestAssumption DEF GroupInv, OnePlace
<1>4. testQueue \in Injection(1..n, Tests)
  BY <1>2, <1>3 DEF Injection, IsInjective
<1>5. Cardinality(1..n) = n
  <2>1. 1 \in Int /\ n \in Int /\ (1 > n => n = 0)
    BY <1>1
  <2>2. Cardinality(1..n) = IF 1 > n THEN 0 ELSE n - 1 + 1
    BY <2>1, FS_Interval
  <2>3. QED
    BY <2>1, <2>2
<1>6. Cardinality(1..n) <= Cardinality(Tests)
  BY <1>4, TestAssumption, FS_Injection
<1>7. QED
  BY <1>1, <1>5, <1>6

\* A worker that takes a test gets an unused id.
LEMMA FreshIdFree ==
    ASSUME GroupInv, IdsSuffice, NEW a \in Agents, wpc[a] \in {"checking", "getting"},
           testQueue # <<>>, Head(testQueue) # Stop
    PROVE  group = "joining" /\ FreshId \in Tasks /\ pc[FreshId] = "idle"
<1> USE DEF GroupInv, GroupTypeOK
<1>1. group = "joining"
  BY TailPositions DEF InStage
<1>2. a \in Alive
  BY DEF Alive
<1>3. Cardinality(Alive) >= 1
  BY <1>2, CountsFinite, FS_EmptySet
<1>4. Len(testQueue) \in Nat /\ Len(testQueue) >= 1
  OBVIOUS
<1>5. Cardinality(IdleIds) # 0
  BY <1>1, <1>3, <1>4, CountsFinite DEF IdsSuffice
<1>6. IdleIds # {}
  BY <1>5, FS_EmptySet
<1>7. \E t \in Tasks : pc[t] = "idle"
  BY <1>6 DEF IdleIds
<1>8. QED
  BY <1>1, <1>7 DEF FreshId

\* The dispatcher uses an id at a time, and only to submit a request.
LEMMA IdleStep ==
    ASSUME TypeOK, Next
    PROVE  \/ IdleIds' = IdleIds
           \/ \E t \in IdleIds : IdleIds' = IdleIds \ {t} /\ pc'[t] # "idle"
<1>1. ASSUME NEW t \in Tasks, Submit(t)
      PROVE  \E u \in IdleIds : IdleIds' = IdleIds \ {u} /\ pc'[u] # "idle"
  BY <1>1 DEF Submit, Goto, TypeOK, IdleIds
<1>2. ASSUME NEW t \in Tasks, pc[t] # "idle", NEW phase, Goto(t, phase), phase # "idle"
      PROVE  IdleIds' = IdleIds
  BY <1>2 DEF Goto, TypeOK, IdleIds
<1>3. ASSUME UNCHANGED pc
      PROVE  IdleIds' = IdleIds
  BY <1>3 DEF IdleIds
<1>4. ASSUME NEW t \in Tasks, EndRun(t)
      PROVE  IdleIds' = IdleIds
  BY <1>2, <1>4 DEF EndRun, Finish, StreamEnds, ChunkTimeout, OverallTimeout, CommError,
                    GiveBack, HandOver
<1>5. ASSUME NEW t \in Tasks, Select(t)
      PROVE  IdleIds' = IdleIds
  BY <1>2, <1>5 DEF Select, SelectNone, SelectError, SelectAgent
<1>6. ASSUME NEW t \in Tasks, Request(t), ~Submit(t)
      PROVE  IdleIds' = IdleIds
  <2>1. AcquireLock(t) => IdleIds' = IdleIds
    BY <1>2 DEF AcquireLock
  <2>2. Retry(t) \/ WaitTimeout(t) => IdleIds' = IdleIds
    BY <1>2 DEF Retry, WaitTimeout
  <2>3. StatusUpdate(t) => IdleIds' = IdleIds
    BY <1>3 DEF StatusUpdate
  <2>4. QED
    BY <1>4, <1>5, <1>6, <2>1, <2>2, <2>3 DEF Request
<1>7. CASE Recovery
  BY <1>3, <1>7 DEF Recovery, GiveUp, SkipUnknown, Attempt, CancelAccepted, CancelFailed,
     FetchSucceeds, FetchFails, Requeue, Recovered, WorkerUnchanged
<1>8. CASE StartHealthCheck \/ \E a \in Agents : Environment(a)
  BY <1>3, <1>8 DEF StartHealthCheck, Environment, Discover, ProbeAnswered, ProbeFailed,
     GoOffline, GoOnline, requestVars
<1>9. QED
  BY <1>1, <1>6, <1>7, <1>8 DEF Next

\* Other requests leave the group its ids.
LEMMA IdsOthers ==
    ASSUME TestTypeInv, OtherRequests
    PROVE  IdsSuffice'
<1> USE DEF TestTypeInv
<1>1. Alive' = Alive /\ UNCHANGED <<group, testQueue>>
  BY DEF OtherRequests, testVars, Alive
<1>2. CASE IdleIds' = IdleIds
  BY <1>1, <1>2 DEF IdsSuffice
<1>3. ASSUME NEW t \in IdleIds, IdleIds' = IdleIds \ {t}, pc'[t] # "idle"
      PROVE  IdsSuffice'
  <2>1. Cardinality(IdleIds') = Cardinality(IdleIds) - 1
    BY <1>3, CountsFinite, FS_RemoveElement
  <2>2. Cardinality(IdleIds) >= Cardinality(Tests) + Cardinality(Agents)
    BY <1>3 DEF OtherRequests, IdsLeft, IdleIds
  <2>3. Cardinality(IdleIds') + 1 >= Cardinality(Tests) + Cardinality(Agents)
    BY <2>1, <2>2, CountsFinite
  <2>4. group = "joining" =>
            Len(testQueue) + Cardinality(Alive) <= Cardinality(Tests) + Cardinality(Agents)
    BY QueuedBound, CountsFinite
  <2>5. QED
    <3>1. CASE group = "idle"
      BY <1>1, <2>3, <3>1 DEF IdsSuffice
    <3>2. CASE group = "joining"
      BY <1>1, <2>3, <2>4, <3>2, QueuedBound, CountsFinite, <2>1 DEF IdsSuffice
    <3>3. QED
      BY <1>1, <3>1, <3>2 DEF IdsSuffice
<1>4. QED
  BY <1>2, <1>3, IdleStep DEF OtherRequests, TypeInv

\* A worker uses its share of the ids.
LEMMA IdsWorker ==
    ASSUME TestTypeInv, NEW a \in Agents, TestWorker(a)
    PROVE  IdsSuffice'
<1> USE DEF TestTypeInv, TypeInv, GroupInv, GroupTypeOK
<1>0. group' = group /\ group # "idle"
  BY DEF TestWorker, SeeBroken, SeeAvailable, WakeUp, TakeTest, TestDone, TestFailed,
         Executed, InStage
<1>1. Len(testQueue) \in Nat
  OBVIOUS
<1>2. a \in Alive
  BY DEF Alive, TestWorker, SeeBroken, SeeAvailable, WakeUp, TestDone, TestFailed, Executed
<1>3. ASSUME UNCHANGED <<pc, testQueue>>, Alive' \subseteq Alive
      PROVE  IdsSuffice'
  <2>1. IdleIds' = IdleIds
    BY <1>3 DEF IdleIds
  <2>2. Cardinality(Alive') <= Cardinality(Alive) /\ Cardinality(Alive') \in Nat
    BY <1>3, CountsFinite, FS_Subset, FS_CardinalityType
  <2>3. QED
    BY <1>0, <1>1, <1>3, <2>1, <2>2, CountsFinite DEF IdsSuffice
<1>4. ASSUME wpc[a] \in {"checking", "getting"}, TakeTest(a)
      PROVE  IdsSuffice'
  <2>1. CASE Head(testQueue) = Stop
    BY <1>0, <1>4, <2>1, TailPositions DEF TakeTest, InStage, IdsSuffice
  <2>2. CASE Head(testQueue) # Stop
    <3>1. group = "joining" /\ FreshId \in Tasks /\ pc[FreshId] = "idle"
      BY <1>4, <2>2, FreshIdFree DEF TakeTest
    <3>2. /\ wpc' = [wpc EXCEPT ![a] = "executing"] /\ Submit(FreshId)
          /\ testQueue # <<>> /\ testQueue' = Tail(testQueue)
      BY <1>4, <2>2 DEF TakeTest
    <3>3. IdleIds' = IdleIds \ {FreshId} /\ FreshId \in IdleIds
      BY <3>1, <3>2 DEF Submit, Goto, TypeOK, IdleIds
    <3>4. Cardinality(IdleIds') = Cardinality(IdleIds) - 1
      BY <3>3, CountsFinite, FS_RemoveElement
    <3>5. Alive' = Alive
      BY <1>4, <3>2 DEF Alive
    <3>6. Len(testQueue') = Len(testQueue) - 1
      BY <3>2
    <3>7. QED
      BY <1>0, <1>1, <3>4, <3>5, <3>6, CountsFinite DEF IdsSuffice
  <2>3. QED
    BY <2>1, <2>2
<1>5. CASE SeeBroken(a)
  <2>1. Alive' \subseteq Alive
    BY <1>5 DEF SeeBroken, Alive
  <2>2. QED
    BY <1>3, <1>5, <2>1 DEF SeeBroken, vars, requestVars
<1>6. CASE SeeAvailable(a)
  <2>1. CASE TakeTest(a)
    BY <1>4, <1>6, <2>1 DEF SeeAvailable
  <2>2. CASE ~TakeTest(a)
    <3>1. wpc[a] = "checking" /\ wpc' = [wpc EXCEPT ![a] = "getting"]
      BY <1>6, <2>2 DEF SeeAvailable
    <3>2. Alive' \subseteq Alive
      BY <3>1 DEF Alive
    <3>3. UNCHANGED <<pc, testQueue>>
      BY <1>6, <2>2 DEF SeeAvailable, vars, requestVars
    <3>4. QED
      BY <1>3, <3>2, <3>3
  <2>3. QED
    BY <2>1, <2>2
<1>7. CASE WakeUp(a)
  BY <1>4, <1>7 DEF WakeUp
<1>8. CASE TestDone(a)
  <2>1. wpc[a] = "executing" /\ wpc' = [wpc EXCEPT ![a] = "checking"]
    BY <1>8 DEF TestDone, Executed
  <2>2. Alive' \subseteq Alive
    BY <2>1 DEF Alive
  <2>3. QED
    BY <1>3, <1>8, <2>2 DEF TestDone, vars, requestVars
<1>9. CASE TestFailed(a)
  <2>1. wpc[a] = "executing" /\ wpc' = [wpc EXCEPT ![a] = "exited"] /\ UNCHANGED pc
    BY <1>9 DEF TestFailed, Executed, requestVars
  <2>2. Alive' = Alive \ {a}
    BY <2>1 DEF Alive
  <2>3. CASE OthersAlive(a)
    <3>1. testQueue' = Append(testQueue, wTest[a])
      BY <1>9, <2>3 DEF TestFailed
    <3>2. Len(testQueue') = Len(testQueue) + 1
      BY <3>1
    <3>3. Cardinality(Alive') = Cardinality(Alive) - 1
      BY <1>2, <2>2, CountsFinite, FS_RemoveElement
    <3>4. IdleIds' = IdleIds
      BY <2>1 DEF IdleIds
    <3>5. QED
      BY <1>0, <1>1, <3>2, <3>3, <3>4, CountsFinite DEF IdsSuffice
  <2>4. CASE ~OthersAlive(a)
    BY <1>3, <1>9, <2>1, <2>2, <2>4 DEF TestFailed
  <2>5. QED
    BY <2>3, <2>4
<1>10. QED
  BY <1>5, <1>6, <1>7, <1>8, <1>9 DEF TestWorker

\* A worker leaves the dispatcher well-formed, also when it blames its agent itself.
LEMMA WorkerTypes ==
    ASSUME TestTypeInv, NEW a \in Agents, TestWorker(a)
    PROVE  TypeInv' /\ wTask' \in [Agents -> Tasks \cup {NoTask}]
<1> USE DEF TestTypeInv
<1>1. ASSUME UNCHANGED <<vars, wTask>>
      PROVE  TypeInv' /\ wTask' \in [Agents -> Tasks \cup {NoTask}]
  BY <1>1, TypeStep
<1>2. ASSUME wpc[a] \in {"checking", "getting"}, TakeTest(a)
      PROVE  TypeInv' /\ wTask' \in [Agents -> Tasks \cup {NoTask}]
  <2>1. CASE Head(testQueue) = Stop
    BY <1>1, <1>2, <2>1 DEF TakeTest
  <2>2. CASE Head(testQueue) # Stop
    <3>1. FreshId \in Tasks
      BY <1>2, <2>2, FreshIdFree DEF TakeTest
    <3>2. Submit(FreshId) /\ wTask' = [wTask EXCEPT ![a] = FreshId]
      BY <1>2, <2>2 DEF TakeTest
    <3>3. Next
      BY <3>1, <3>2 DEF Next, Request
    <3>4. QED
      BY <3>1, <3>2, <3>3, TypeStep
  <2>3. QED
    BY <2>1, <2>2
<1>3. CASE TestFailed(a)
  <2>1. Broken(entry[a], "TASK_STUCK", NoTask) \in Entry
    BY BrokenType DEF TypeInv, TypeOK, RegistryTypeOK, Reason
  <2>2. [agent |-> a, by |-> NoTask] \in Item
    BY DEF Item
  <2>3. /\ entry' \in [Agents -> Entry]
        /\ queue' \in Seq(Item)
        /\ wTask' \in [Agents -> Tasks \cup {NoTask}]
        /\ UNCHANGED <<cards, requestVars, lockVars, recoveryVars, probing, networkVars>>
    BY <1>3, <2>1, <2>2, PutType, QueueOps DEF TestFailed, Executed, TypeInv, TypeOK
  <2>4. QED
    BY <2>3 DEF TypeInv, TypeOK, RegistryTypeOK, TriesBounded, requestVars, slotVars,
                lockVars, recoveryVars, networkVars
<1>4. CASE TestDone(a)
  <2>1. TypeInv'
    BY <1>4, TypeStep DEF TestDone
  <2>2. QED
    BY <1>4, <2>1 DEF TestDone, Executed
<1>5. QED
  BY <1>1, <1>2, <1>3, <1>4 DEF TestWorker, SeeBroken, SeeAvailable, WakeUp

\* Types, tests and ids are preserved together.
LEMMA TestTypeStep == TestTypeInv /\ [TestNext]_allVars => TestTypeInv'
<1> SUFFICES ASSUME TestTypeInv, [TestNext]_allVars
             PROVE  TestTypeInv'
  OBVIOUS
<1>1. GroupInv'
  BY GroupStep DEF TestTypeInv
<1>2. CASE OtherRequests
  BY <1>1, <1>2, TypeStep, IdsOthers DEF TestTypeInv, OtherRequests, testVars
<1>3. ASSUME NEW a \in Agents, TestWorker(a)
      PROVE  TestTypeInv'
  BY <1>1, <1>3, WorkerTypes, IdsWorker DEF TestTypeInv
<1>4. ASSUME NEW agents \in SUBSET Agents, StartGroup(agents)
      PROVE  IdsSuffice'
  <2>1. /\ group = "idle" /\ group' = "joining"
        /\ Len(testQueue') = Cardinality(Tests)
    BY <1>4, TestAssumption, SetToSeqLists DEF StartGroup
  <2>2. IdleIds' = IdleIds
    BY <1>4 DEF StartGroup, vars, requestVars, IdleIds
  <2>3. Alive' \in SUBSET Agents
    BY DEF Alive
  <2>4. Cardinality(Alive') <= Cardinality(Agents) /\ Cardinality(Alive') \in Nat
    BY <2>3, TestAssumption, FS_Subset, FS_CardinalityType
  <2>5. QED
    BY <2>1, <2>2, <2>4, CountsFinite DEF IdsSuffice, TestTypeInv
<1>5. ASSUME UNCHANGED <<vars, wTask>>, IdsSuffice'
      PROVE  TestTypeInv'
  BY <1>1, <1>5, TypeStep DEF TestTypeInv
<1>6. JoinReturns => IdsSuffice'
  BY DEF JoinReturns, IdsSuffice
<1>7. GroupDone => IdsSuffice'
  BY DEF GroupDone, IdsSuffice
<1>8. UNCHANGED allVars => IdsSuffice'
  BY DEF allVars, testVars, vars, requestVars, IdsSuffice, IdleIds, Alive, TestTypeInv
<1>9. CASE TestGroup
  BY <1>4, <1>5, <1>6, <1>7, <1>9 DEF TestGroup, StartGroup, JoinReturns, GroupDone
<1>10. CASE UNCHANGED allVars
  BY <1>5, <1>8, <1>10 DEF allVars, testVars
<1>11. QED
  BY <1>2, <1>3, <1>9, <1>10 DEF TestNext

\* At the start there are ids enough.
LEMMA TestTypeInit == TestInit => TestTypeInv
<1> SUFFICES ASSUME TestInit
             PROVE  TestTypeInv
  OBVIOUS
<1>1. IdleIds = Tasks
  BY DEF TestInit, Init, IdleIds
<1>2. IdsSuffice
  BY <1>1, TestAssumption DEF TestInit, IdsSuffice
<1>3. QED
  BY <1>2, TypeInit, GroupInit DEF TestInit, TestTypeInv

\* A group and the dispatcher it works through keep their types: in particular every
\* attempt to execute a test has an id of its own.
THEOREM TestTypeCorrect == TestSpec => []TestTypeOK
<1>1. TestTypeInv => TestTypeOK
  <2> SUFFICES ASSUME TestTypeInv
               PROVE  TestTypeOK
    OBVIOUS
  <2> USE DEF TestTypeInv, GroupInv, GroupTypeOK
  <2>1. unfinished \in Nat
    <3>1. Len(testQueue) \in Nat
      OBVIOUS
    <3>2. QED
      BY <3>1, BusyFinite, JoinCounts
  <2>2. results \in [Tests -> Nat]
    OBVIOUS
  <2>3. QED
    BY <2>1, <2>2 DEF TestTypeOK, TypeInv
<1>2. QED
  BY TestTypeInit, TestTypeStep, <1>1, PTL DEF TestSpec

=============================================================================
