---------------------------- MODULE SequenceLemmas ----------------------------
(***************************************************************************)
(* Lemmas for the proofs about AgentExecutor and Pipeline: induction, and  *)
(* what FlattenSeq of SequencesExt returns, which is defined by recursion. *)
(***************************************************************************)
EXTENDS Integers, SequencesExt, FiniteSetTheorems, SequenceTheorems, TLAPS

\* Induction on the natural numbers as a fact about sets: finite subsets are well-founded.
LEMMA Induct ==
    ASSUME NEW T \in SUBSET Nat, 0 \in T, \A n \in T : n + 1 \in T
    PROVE  T = Nat
<1>1. SUFFICES ASSUME Nat \ T # {} PROVE FALSE
  OBVIOUS
<1>2. \A m \in Nat : 1..m \in FiniteSubsetsOf(Nat)
  BY FS_Interval DEF FiniteSubsetsOf
<1>3. {1..m : m \in Nat \ T} \subseteq FiniteSubsetsOf(Nat)
  BY <1>2
<1>4. PICK below \in {1..m : m \in Nat \ T} :
          \A x \in {1..m : m \in Nat \ T} : ~ (<<x, below>> \in StrictSubsetOrdering(Nat))
  <2>1. {1..m : m \in Nat \ T} # {}
    BY <1>1
  <2>2. QED
    BY <1>3, <2>1, FS_StrictSubsetOrderingWellFounded, WFMin
<1>5. PICK m \in Nat \ T : below = 1..m
  BY <1>4
<1>6. m - 1 \in Nat /\ (m - 1) + 1 = m
  OBVIOUS
<1>7. m - 1 \in Nat \ T
  BY <1>6
<1>8. <<1..(m - 1), 1..m>> \in StrictSubsetOrdering(Nat)
  <2>1. 1..(m - 1) \subseteq 1..m /\ m \in 1..m /\ m \notin 1..(m - 1)
    BY <1>6
  <2>2. QED
    BY <2>1 DEF StrictSubsetOrdering
<1>9. QED
  BY <1>4, <1>5, <1>7, <1>8

\* f is the sequence of the concatenations of the first 1, 2, ... n members of ss.
Joins(f, ss) ==
    f = [i \in 1..Len(ss) |-> IF i = 1 THEN ss[i] ELSE f[i - 1] \o ss[i]]

\* The equation of a recursive function, value by value.
LEMMA JoinsAt ==
    ASSUME NEW ss, NEW f
    PROVE  Joins(f, ss) <=>
               /\ f = [i \in 1..Len(ss) |-> f[i]]
               /\ \A i \in 1..Len(ss) : f[i] = IF i = 1 THEN ss[i] ELSE f[i - 1] \o ss[i]
<1>1. ASSUME Joins(f, ss)
      PROVE  \A i \in 1..Len(ss) : f[i] = IF i = 1 THEN ss[i] ELSE f[i - 1] \o ss[i]
  <2>1. TAKE i \in 1..Len(ss)
  <2>2. QED
    BY <1>1, Zenon DEF Joins
<1>2. ASSUME Joins(f, ss)
      PROVE  f = [i \in 1..Len(ss) |-> f[i]]
  BY <1>1, <1>2, Zenon DEF Joins
<1>3. ASSUME f = [i \in 1..Len(ss) |-> f[i]],
             \A i \in 1..Len(ss) : f[i] = IF i = 1 THEN ss[i] ELSE f[i - 1] \o ss[i]
      PROVE  Joins(f, ss)
  BY <1>3, Zenon DEF Joins
<1>4. QED
  BY <1>1, <1>2, <1>3

\* Sequences that agree up to n have the same concatenations up to n.
LEMMA JoinsPrefix ==
    ASSUME NEW S, NEW ss \in Seq(Seq(S)), NEW tt \in Seq(Seq(S)), NEW f, NEW g,
           Joins(f, ss), Joins(g, tt), NEW n \in Nat, n <= Len(ss), n <= Len(tt),
           \A i \in 1..n : ss[i] = tt[i]
    PROVE  \A i \in 1..n : f[i] = g[i] /\ f[i] \in Seq(S)
<1>1. PICK T \in SUBSET Nat :
          \A i \in Nat : i \in T <=> (i \in 1..n => f[i] = g[i] /\ f[i] \in Seq(S))
  <2>1. WITNESS {i \in Nat : i \in 1..n => f[i] = g[i] /\ f[i] \in Seq(S)} \in SUBSET Nat
  <2>2. QED
    BY <2>1
<1>2. \A i \in 1..n : /\ f[i] = IF i = 1 THEN ss[i] ELSE f[i - 1] \o ss[i]
                      /\ g[i] = IF i = 1 THEN ss[i] ELSE g[i - 1] \o ss[i]
  <2>1. \A i \in 1..Len(ss) : f[i] = IF i = 1 THEN ss[i] ELSE f[i - 1] \o ss[i]
    BY JoinsAt
  <2>2. \A i \in 1..Len(tt) : g[i] = IF i = 1 THEN tt[i] ELSE g[i - 1] \o tt[i]
    BY JoinsAt
  <2>3. \A i \in 1..n : i \in 1..Len(ss) /\ i \in 1..Len(tt)
    OBVIOUS
  <2>4. TAKE i \in 1..n
  <2>5. f[i] = IF i = 1 THEN ss[i] ELSE f[i - 1] \o ss[i]
    BY <2>1, <2>3
  <2>6. g[i] = IF i = 1 THEN tt[i] ELSE g[i - 1] \o tt[i]
    BY <2>2, <2>3
  <2>7. tt[i] = ss[i]
    OBVIOUS
  <2>8. QED
    BY <2>5, <2>6, <2>7
<1>3. \A i \in 1..n : ss[i] \in Seq(S)
  OBVIOUS
<1>4. 0 \in T
  BY <1>1
<1>5. ASSUME NEW i \in T
      PROVE  i + 1 \in T
  <2>1. CASE i + 1 \in 1..n /\ i # 0
    <3>1. i \in 1..n /\ i + 1 # 1 /\ (i + 1) - 1 = i
      BY <2>1
    <3>2. f[i] = g[i] /\ f[i] \in Seq(S) /\ ss[i + 1] \in Seq(S)
      BY <1>1, <1>3, <2>1, <3>1
    <3>3. f[i + 1] = f[i] \o ss[i + 1] /\ g[i + 1] = g[i] \o ss[i + 1]
      BY <1>2, <2>1, <3>1
    <3>4. f[i] \o ss[i + 1] \in Seq(S)
      BY <3>2
    <3>5. QED
      <4>1. f[i + 1] = g[i + 1] /\ f[i + 1] \in Seq(S)
        BY <3>2, <3>3, <3>4
      <4>2. QED
        BY <1>1, <4>1
  <2>2. CASE i = 0 /\ 1 \in 1..n
    <3>1. f[1] = ss[1] /\ g[1] = ss[1] /\ ss[1] \in Seq(S)
      BY <1>2, <1>3, <2>2
    <3>2. QED
      BY <1>1, <2>2, <3>1
  <2>3. CASE i + 1 \notin 1..n
    BY <1>1, <2>3
  <2>4. QED
    BY <2>1, <2>2, <2>3
<1>6. T = Nat
  BY <1>4, <1>5, Induct
<1>7. QED
  BY <1>1, <1>6

\* The recursion of FlattenSeq defines a function.
LEMMA JoinsExist ==
    ASSUME NEW S, NEW ss \in Seq(Seq(S))
    PROVE  \E f : Joins(f, ss)
<1>1. PICK T \in SUBSET Nat :
          \A n \in Nat : n \in T <=> (n <= Len(ss) => \E f : Joins(f, SubSeq(ss, 1, n)))
  <2>1. WITNESS {n \in Nat : n <= Len(ss) => \E f : Joins(f, SubSeq(ss, 1, n))} \in SUBSET Nat
  <2>2. QED
    BY <2>1
<1>2. 0 \in T
  <2>1. Joins(<<>>, SubSeq(ss, 1, 0))
    BY DEF Joins
  <2>2. QED
    BY <1>1, <2>1
<1>3. ASSUME NEW n \in T
      PROVE  n + 1 \in T
  <2>1. CASE n + 1 <= Len(ss)
    <3>1. PICK f : Joins(f, SubSeq(ss, 1, n))
      BY <1>1, <2>1
    <3>2. PICK g : g = [i \in 1..(n + 1) |->
                           IF i <= n THEN f[i]
                           ELSE IF i = 1 THEN ss[i] ELSE f[i - 1] \o ss[i]]
      OBVIOUS
    <3>3. /\ Len(SubSeq(ss, 1, n)) = n /\ Len(SubSeq(ss, 1, n + 1)) = n + 1
          /\ \A i \in 1..n : SubSeq(ss, 1, n)[i] = ss[i]
          /\ \A i \in 1..(n + 1) : SubSeq(ss, 1, n + 1)[i] = ss[i]
      BY <2>1
    <3>4. \A i \in 1..n : f[i] = IF i = 1 THEN ss[i] ELSE f[i - 1] \o ss[i]
      BY <3>1, <3>3, JoinsAt
    <3>5. \A i \in 1..(n + 1) : g[i] = IF i = 1 THEN ss[i] ELSE g[i - 1] \o ss[i]
      BY <3>2, <3>4
    <3>6. g = [i \in 1..(n + 1) |-> g[i]]
      BY <3>2
    <3>7. Joins(g, SubSeq(ss, 1, n + 1))
      BY <3>3, <3>5, <3>6, JoinsAt
    <3>8. QED
      BY <1>1, <3>7
  <2>2. CASE ~ n + 1 <= Len(ss)
    BY <1>1, <2>2
  <2>3. QED
    BY <2>1, <2>2
<1>4. Len(ss) \in T
  <2>1. T = Nat
    BY <1>2, <1>3, Induct
  <2>2. QED
    BY <2>1
<1>5. PICK f : Joins(f, SubSeq(ss, 1, Len(ss)))
  BY <1>1, <1>4
<1>6. SubSeq(ss, 1, Len(ss)) = ss
  OBVIOUS
<1>7. QED
  BY <1>5, <1>6

LEMMA FlattenIsJoin ==
    ASSUME NEW S, NEW ss \in Seq(Seq(S)), Len(ss) # 0
    PROVE  \E f : Joins(f, ss) /\ FlattenSeq(ss) = f[Len(ss)]
<1>1. PICK f : f = CHOOSE x : x = [i \in 1..Len(ss) |-> IF i = 1 THEN ss[i] ELSE x[i - 1] \o ss[i]]
  OBVIOUS
<1>2. Joins(f, ss)
  BY <1>1, JoinsExist, Zenon DEF Joins
<1>3. FlattenSeq(ss) = f[Len(ss)]
  BY <1>1 DEF FlattenSeq
<1>4. QED
  BY <1>2, <1>3

LEMMA FlattenEmpty == FlattenSeq(<<>>) = <<>>
BY DEF FlattenSeq

LEMMA FlattenAppend ==
    ASSUME NEW S, NEW ss \in Seq(Seq(S)), NEW s \in Seq(S)
    PROVE  FlattenSeq(Append(ss, s)) = FlattenSeq(ss) \o s
<1>0. Append(ss, s) \in Seq(Seq(S))
  OBVIOUS
<1> PICK tt \in Seq(Seq(S)) : tt = Append(ss, s)
  BY <1>0, Zenon
<1>1. /\ Len(tt) = Len(ss) + 1 /\ Len(tt) # 0 /\ tt[Len(tt)] = s
      /\ Len(ss) \in Nat /\ Len(ss) <= Len(ss) /\ Len(ss) <= Len(tt)
      /\ \A i \in 1..Len(ss) : ss[i] = tt[i]
  OBVIOUS
<1>2. PICK g : Joins(g, tt) /\ FlattenSeq(tt) = g[Len(tt)]
  BY ONLY <1>1, tt \in Seq(Seq(S)), FlattenIsJoin
<1>3. g[Len(tt)] = IF Len(tt) = 1 THEN s ELSE g[Len(ss)] \o s
  <2>1. Len(tt) \in 1..Len(tt) /\ Len(tt) - 1 = Len(ss)
    BY <1>1
  <2>2. g[Len(tt)] = IF Len(tt) = 1 THEN tt[Len(tt)] ELSE g[Len(tt) - 1] \o tt[Len(tt)]
    BY <1>2, <2>1, JoinsAt
  <2>3. QED
    BY <1>1, <2>1, <2>2
<1>4. CASE ss = <<>>
  BY <1>1, <1>2, <1>3, <1>4, FlattenEmpty
<1>5. CASE ss # <<>>
  <2>1. Len(ss) \in Nat \ {0} /\ Len(tt) # 1 /\ Len(ss) \in 1..Len(ss)
    BY <1>1, <1>5
  <2>2. PICK f : Joins(f, ss) /\ FlattenSeq(ss) = f[Len(ss)]
    BY <2>1, FlattenIsJoin
  <2>3. \A i \in 1..Len(ss) : f[i] = g[i] /\ f[i] \in Seq(S)
    <3>1. Joins(f, ss) /\ Joins(g, tt)
      BY <1>2, <2>2
    <3>2. QED
      BY ONLY <1>1, <3>1, ss \in Seq(Seq(S)), tt \in Seq(Seq(S)), JoinsPrefix
  <2>4. QED
    BY <1>1, <1>2, <1>3, <2>1, <2>2, <2>3
<1>6. QED
  BY <1>4, <1>5

LEMMA FlattenType ==
    ASSUME NEW S, NEW ss \in Seq(Seq(S))
    PROVE  FlattenSeq(ss) \in Seq(S)
<1>1. CASE ss = <<>>
  BY <1>1 DEF FlattenSeq
<1>2. CASE ss # <<>>
  <2>1. Len(ss) \in Nat \ {0} /\ Len(ss) \in 1..Len(ss)
    BY <1>2
  <2>2. PICK f : Joins(f, ss) /\ FlattenSeq(ss) = f[Len(ss)]
    BY <2>1, FlattenIsJoin
  <2>3. \A i \in 1..Len(ss) : f[i] = f[i] /\ f[i] \in Seq(S)
    BY <2>1, <2>2, JoinsPrefix
  <2>4. QED
    BY <2>1, <2>2, <2>3
<1>3. QED
  BY <1>1, <1>2

\* Induction on sequences, again as a fact about sets.
LEMMA SeqInduct ==
    ASSUME NEW S, NEW T \in SUBSET Seq(S), <<>> \in T,
           \A s \in T : \A x \in S : Append(s, x) \in T
    PROVE  T = Seq(S)
<1>1. PICK N \in SUBSET Nat :
          \A n \in Nat : n \in N <=> \A s \in Seq(S) : Len(s) = n => s \in T
  <2>1. WITNESS {n \in Nat : \A s \in Seq(S) : Len(s) = n => s \in T} \in SUBSET Nat
  <2>2. QED
    BY <2>1
<1>2. 0 \in N
  <2>1. \A s \in Seq(S) : Len(s) = 0 => s = <<>>
    OBVIOUS
  <2>2. QED
    BY <1>1, <2>1
<1>3. ASSUME NEW n \in N
      PROVE  n + 1 \in N
  <2>1. ASSUME NEW s \in Seq(S), Len(s) = n + 1
        PROVE  s \in T
    <3>1. n \in Nat /\ s # <<>>
      BY <2>1
    <3>2. PICK t \in Seq(S), x \in S : s = Append(t, x)
      BY <3>1, SequenceEmptyOrAppend
    <3>3. Len(t) = n
      BY <2>1, <3>1, <3>2, AppendProperties
    <3>4. t \in T
      BY <1>1, <3>3
    <3>5. QED
      BY <3>2, <3>4
  <2>2. QED
    BY <1>1, <2>1
<1>4. N = Nat
  BY <1>2, <1>3, Induct
<1>5. \A s \in Seq(S) : Len(s) \in Nat
  OBVIOUS
<1>6. QED
  BY <1>1, <1>4, <1>5

\* The first n + 1 members of a sequence are the first n and one more.
LEMMA SubSeqAppend ==
    ASSUME NEW S, NEW s \in Seq(S), NEW n \in Nat, n + 1 <= Len(s)
    PROVE  /\ SubSeq(s, 1, n) \in Seq(S) /\ s[n + 1] \in S
           /\ SubSeq(s, 1, n + 1) = Append(SubSeq(s, 1, n), s[n + 1])
<1>1. PICK t \in Seq(S) : t = SubSeq(s, 1, n) /\ Len(t) = n /\ \A i \in 1..n : t[i] = s[i]
  <2>1. /\ SubSeq(s, 1, n) \in Seq(S) /\ Len(SubSeq(s, 1, n)) = n
        /\ \A i \in 1..n : SubSeq(s, 1, n)[i] = s[i]
    OBVIOUS
  <2>2. QED
    BY <2>1, Zenon
<1>2. PICK x \in S : x = s[n + 1]
  OBVIOUS
<1>3. /\ SubSeq(s, 1, n + 1) \in Seq(S) /\ Len(SubSeq(s, 1, n + 1)) = n + 1
      /\ \A i \in 1..(n + 1) : SubSeq(s, 1, n + 1)[i] = s[i]
  OBVIOUS
<1>4. /\ Append(t, x) \in Seq(S) /\ Len(Append(t, x)) = n + 1
      /\ \A i \in 1..n : Append(t, x)[i] = t[i]
      /\ Append(t, x)[n + 1] = x
  <2>1. /\ Append(t, x) \in Seq(S) /\ Len(Append(t, x)) = Len(t) + 1
        /\ \A i \in 1..Len(t) : Append(t, x)[i] = t[i]
        /\ Append(t, x)[Len(t) + 1] = x
    BY AppendProperties
  <2>2. QED
    BY <1>1, <2>1, Zenon
<1>5. \A i \in 1..(n + 1) : i \in 1..n \/ i = n + 1
  OBVIOUS
<1>6. \A i \in 1..(n + 1) : SubSeq(s, 1, n + 1)[i] = Append(t, x)[i]
  BY <1>1, <1>2, <1>3, <1>4, <1>5
<1>7. SubSeq(s, 1, n + 1) = Append(t, x)
  BY <1>3, <1>4, <1>6, SeqEqual
<1>8. QED
  BY <1>1, <1>2, <1>7, Zenon

\* A set of naturals has a least member, which Min of FiniteSetsExt returns.
LEMMA MinOfSet ==
    ASSUME NEW S \in SUBSET Nat, S # {}
    PROVE  Min(S) \in S /\ \A n \in S : Min(S) <= n
<1>1. PICK N \in SUBSET Nat : \A n \in Nat : n \in N <=> \A k \in 0..n : k \notin S
  <2>1. WITNESS {n \in Nat : \A k \in 0..n : k \notin S} \in SUBSET Nat
  <2>2. QED
    BY <2>1
<1>2. \E x \in S : \A n \in S : x <= n
  <2>1. SUFFICES ASSUME \A x \in S : \E n \in S : ~ x <= n
                 PROVE  FALSE
    OBVIOUS
  <2>2. 0 \notin S
    BY <2>1
  <2>3. 0 \in N
    BY <1>1, <2>2
  <2>4. ASSUME NEW n \in N
        PROVE  n + 1 \in N
    <3>1. \A k \in 0..n : k \notin S
      BY <1>1
    <3>2. \A k \in S : n + 1 <= k
      BY <3>1
    <3>3. n + 1 \notin S
      BY <2>1, <3>2
    <3>4. QED
      BY <1>1, <3>1, <3>3
  <2>5. N = Nat
    BY <2>3, <2>4, Induct
  <2>6. \A x \in Nat : x \notin S
    BY <1>1, <2>5
  <2>7. QED
    BY <2>6
<1>3. QED
  BY <1>2, Zenon DEF Min

-----------------------------------------------------------------------------
(* Mapping the members of a sequence to sequences, which are joined.       *)

Maps(w, A, B) == w \in [A -> Seq(B)]
MapJoin(w, s) == FlattenSeq([i \in DOMAIN s |-> w[s[i]]])

LEMMA MapsType ==
    ASSUME NEW A, NEW B, NEW w, Maps(w, A, B), NEW s \in Seq(A)
    PROVE  [i \in DOMAIN s |-> w[s[i]]] \in Seq(Seq(B)) /\ MapJoin(w, s) \in Seq(B)
<1>1. Len(s) \in Nat /\ DOMAIN s = 1..Len(s)
  OBVIOUS
<1>2. \A i \in 1..Len(s) : w[s[i]] \in Seq(B)
  BY DEF Maps
<1>3. [i \in 1..Len(s) |-> w[s[i]]] \in Seq(Seq(B))
  BY <1>1, <1>2
<1>4. QED
  BY <1>1, <1>3, FlattenType DEF MapJoin

LEMMA MapJoinEmpty == \A w : MapJoin(w, <<>>) = <<>>
BY FlattenEmpty DEF MapJoin

LEMMA MapJoinAppend ==
    ASSUME NEW A, NEW B, NEW w, Maps(w, A, B), NEW s \in Seq(A), NEW x \in A
    PROVE  MapJoin(w, Append(s, x)) = MapJoin(w, s) \o w[x]
<1>1. [i \in DOMAIN s |-> w[s[i]]] \in Seq(Seq(B)) /\ w[x] \in Seq(B)
  <2>1. w[x] \in Seq(B)
    BY DEF Maps
  <2>2. QED
    BY <2>1, MapsType
<1>2. [i \in DOMAIN Append(s, x) |-> w[Append(s, x)[i]]]
         = Append([i \in DOMAIN s |-> w[s[i]]], w[x])
  OBVIOUS
<1>3. FlattenSeq(Append([i \in DOMAIN s |-> w[s[i]]], w[x]))
         = FlattenSeq([i \in DOMAIN s |-> w[s[i]]]) \o w[x]
  BY <1>1, FlattenAppend
<1>4. QED
  BY <1>2, <1>3 DEF MapJoin

LEMMA MapJoinOne ==
    ASSUME NEW A, NEW B, NEW w, Maps(w, A, B), NEW x \in A
    PROVE  MapJoin(w, <<x>>) = w[x]
<1>1. \A s \in Seq(A) : MapJoin(w, Append(s, x)) = MapJoin(w, s) \o w[x]
  BY MapJoinAppend, Zenon
<1>2. <<>> \in Seq(A) /\ MapJoin(w, <<>>) = <<>>
  BY MapJoinEmpty
<1>3. MapJoin(w, Append(<<>>, x)) = <<>> \o w[x]
  BY <1>1, <1>2, Zenon
<1>4. w[x] \in Seq(B) /\ Append(<<>>, x) = <<x>>
  BY DEF Maps
<1>5. <<>> \o w[x] = w[x]
  BY <1>4
<1>6. QED
  BY <1>3, <1>4, <1>5, Zenon

LEMMA MapJoinConcat ==
    ASSUME NEW A, NEW B, NEW w, Maps(w, A, B), NEW s \in Seq(A), NEW t \in Seq(A)
    PROVE  MapJoin(w, s \o t) = MapJoin(w, s) \o MapJoin(w, t)
<1>0. \A p, q, r \in Seq(B) : (p \o q) \o r = p \o (q \o r)
  OBVIOUS
<1>1. PICK T \in SUBSET Seq(A) :
          \A u \in Seq(A) : u \in T <=> MapJoin(w, s \o u) = MapJoin(w, s) \o MapJoin(w, u)
  <2>1. WITNESS {u \in Seq(A) : MapJoin(w, s \o u) = MapJoin(w, s) \o MapJoin(w, u)}
                \in SUBSET Seq(A)
  <2>2. QED
    BY <2>1
<1>2. \A u \in Seq(A) : MapJoin(w, u) \in Seq(B)
  BY MapsType
<1>3. \A u \in Seq(A), x \in A : MapJoin(w, Append(u, x)) = MapJoin(w, u) \o w[x]
  <2>1. ASSUME NEW u \in Seq(A), NEW x \in A
        PROVE  MapJoin(w, Append(u, x)) = MapJoin(w, u) \o w[x]
    BY ONLY Maps(w, A, B), u \in Seq(A), x \in A, MapJoinAppend
  <2>2. QED
    BY <2>1, Zenon
<1>4. <<>> \in T
  <2>1. s \o <<>> = s /\ MapJoin(w, s) \o <<>> = MapJoin(w, s) /\ <<>> \in Seq(A)
    BY <1>2
  <2>2. QED
    BY <1>1, <2>1, MapJoinEmpty
<1>5. ASSUME NEW u \in T, NEW x \in A
      PROVE  Append(u, x) \in T
  <2>1. u \in Seq(A) /\ s \o u \in Seq(A) /\ Append(u, x) \in Seq(A)
    OBVIOUS
  <2>2. s \o Append(u, x) = Append(s \o u, x)
    BY <2>1
  <2>3. MapJoin(w, Append(s \o u, x)) = MapJoin(w, s \o u) \o w[x]
    BY <1>3, <2>1, Zenon
  <2>4. MapJoin(w, s \o u) = MapJoin(w, s) \o MapJoin(w, u)
    BY <1>1, <2>1, Zenon
  <2>5. MapJoin(w, Append(u, x)) = MapJoin(w, u) \o w[x]
    BY <1>3, <2>1, Zenon
  <2>6. MapJoin(w, s) \in Seq(B) /\ MapJoin(w, u) \in Seq(B) /\ w[x] \in Seq(B)
    BY <1>2, <2>1 DEF Maps
  <2>7. (MapJoin(w, s) \o MapJoin(w, u)) \o w[x] = MapJoin(w, s) \o (MapJoin(w, u) \o w[x])
    BY <1>0, <2>6, Zenon
  <2>8. MapJoin(w, s \o Append(u, x)) = MapJoin(w, s) \o MapJoin(w, Append(u, x))
    BY <2>2, <2>3, <2>4, <2>5, <2>7
  <2>9. QED
    BY <1>1, <2>1, <2>8, Zenon
<1>6. T = Seq(A)
  BY <1>4, <1>5, SeqInduct
<1>7. QED
  BY <1>1, <1>6, Zenon

\* Joining before mapping is mapping before joining.
LEMMA MapJoinFlatten ==
    ASSUME NEW A, NEW B, NEW w, Maps(w, A, B), NEW ss \in Seq(Seq(A))
    PROVE  MapJoin(w, FlattenSeq(ss)) = FlattenSeq([i \in DOMAIN ss |-> MapJoin(w, ss[i])])
<1>1. PICK T \in SUBSET Seq(Seq(A)) :
          \A uu \in Seq(Seq(A)) : uu \in T <=>
              MapJoin(w, FlattenSeq(uu)) = FlattenSeq([i \in DOMAIN uu |-> MapJoin(w, uu[i])])
  <2>1. WITNESS {uu \in Seq(Seq(A)) : MapJoin(w, FlattenSeq(uu))
                                        = FlattenSeq([i \in DOMAIN uu |-> MapJoin(w, uu[i])])}
                \in SUBSET Seq(Seq(A))
  <2>2. QED
    BY <2>1
<1>2. <<>> \in T
  <2>1. [i \in DOMAIN <<>> |-> MapJoin(w, <<>>[i])] = <<>> /\ <<>> \in Seq(Seq(A))
    OBVIOUS
  <2>2. QED
    BY <1>1, <2>1, FlattenEmpty, MapJoinEmpty
<1>3. ASSUME NEW uu \in T, NEW u \in Seq(A)
      PROVE  Append(uu, u) \in T
  <2>1. uu \in Seq(Seq(A)) /\ Append(uu, u) \in Seq(Seq(A)) /\ FlattenSeq(uu) \in Seq(A)
    BY FlattenType
  <2>2. \A v \in Seq(A) : MapJoin(w, v) \in Seq(B)
    BY MapsType
  <2>3. PICK mm \in Seq(Seq(B)) : mm = [i \in DOMAIN uu |-> MapJoin(w, uu[i])]
    <3>1. DOMAIN uu = 1..Len(uu) /\ Len(uu) \in Nat /\ \A i \in 1..Len(uu) : uu[i] \in Seq(A)
      BY <2>1
    <3>2. \A i \in 1..Len(uu) : MapJoin(w, uu[i]) \in Seq(B)
      BY <2>2, <3>1
    <3>3. [i \in DOMAIN uu |-> MapJoin(w, uu[i])] \in Seq(Seq(B))
      BY <3>1, <3>2
    <3>4. QED
      BY <3>3, Zenon
  <2>4. [i \in DOMAIN Append(uu, u) |-> MapJoin(w, Append(uu, u)[i])]
           = Append(mm, MapJoin(w, u))
    <3>1. PICK v \in Seq(B) : v = MapJoin(w, u)
      BY <2>2
    <3>2. /\ Len(Append(uu, u)) = Len(uu) + 1 /\ DOMAIN Append(uu, u) = 1..(Len(uu) + 1)
          /\ \A i \in 1..Len(uu) : Append(uu, u)[i] = uu[i]
          /\ Append(uu, u)[Len(uu) + 1] = u /\ Len(uu) \in Nat
      BY <2>1
    <3>3. /\ Len(mm) = Len(uu) /\ DOMAIN Append(mm, v) = 1..(Len(mm) + 1)
          /\ \A i \in 1..Len(mm) : Append(mm, v)[i] = mm[i] /\ mm[i] = MapJoin(w, uu[i])
          /\ Append(mm, v)[Len(mm) + 1] = v
          /\ Append(mm, v) = [i \in DOMAIN Append(mm, v) |-> Append(mm, v)[i]]
      BY <2>1, <2>3
    <3>4. \A i \in 1..(Len(uu) + 1) : i \in 1..Len(uu) \/ i = Len(uu) + 1
      BY <3>2
    <3>5. \A i \in DOMAIN Append(uu, u) : MapJoin(w, Append(uu, u)[i]) = Append(mm, v)[i]
      BY <3>1, <3>2, <3>3, <3>4
    <3>6. DOMAIN Append(uu, u) = DOMAIN Append(mm, v)
      BY <3>2, <3>3
    <3>7. QED
      BY <3>1, <3>3, <3>5, <3>6, Zenon
  <2>5. FlattenSeq(Append(mm, MapJoin(w, u))) = FlattenSeq(mm) \o MapJoin(w, u)
    BY <2>2, FlattenAppend
  <2>6. FlattenSeq(Append(uu, u)) = FlattenSeq(uu) \o u
    BY <2>1, FlattenAppend
  <2>7. MapJoin(w, FlattenSeq(uu) \o u) = MapJoin(w, FlattenSeq(uu)) \o MapJoin(w, u)
    BY <2>1, MapJoinConcat
  <2>8. MapJoin(w, FlattenSeq(uu)) = FlattenSeq(mm)
    BY <1>1, <2>1, <2>3
  <2>9. QED
    BY <1>1, <2>1, <2>4, <2>5, <2>6, <2>7, <2>8
<1>4. QED
  BY <1>1, <1>2, <1>3, SeqInduct
=============================================================================
