-------------------------- MODULE MessageQueueProofs --------------------------
(***************************************************************************)
(* Proofs about module MessageQueue, for any jobs, priorities, task counts  *)
(* and workers: no request is forgotten and none is answered twice.         *)
(*                                                                          *)
(* The sort and the filter of the heap are permutations because the ranks   *)
(* of a strict order count through; the property is then inductive once it  *)
(* is said that only jobs that were created travel, and that a goroutine     *)
(* between two jobs holds none.                                             *)
(***************************************************************************)
EXTENDS MessageQueue, Integers, TLAPS, FiniteSetTheorems, SequenceTheorems, WellFoundedInduction

-----------------------------------------------------------------------------
(* Ranks.                                                                    *)

\* A set that lacks an element of another is smaller.
LEMMA SmallerSet ==
    ASSUME NEW S, NEW T, IsFiniteSet(T), S \subseteq T, NEW x \in T, x \notin S
    PROVE  Cardinality(S) \in Nat /\ Cardinality(T) \in Nat /\ Cardinality(S) + 1 <= Cardinality(T)
<1>1. IsFiniteSet(S) /\ Cardinality(S) \in Nat /\ Cardinality(T) \in Nat
  BY FS_Subset, FS_CardinalityType
<1>2. Cardinality(S \cup {x}) = Cardinality(S) + 1
  BY <1>1, FS_AddElement
<1>3. Cardinality(S \cup {x}) <= Cardinality(T)
  <2>1. S \cup {x} \in SUBSET T
    OBVIOUS
  <2> QED BY <2>1, FS_Subset
<1> QED BY <1>1, <1>2, <1>3

\* A strict total order.
Orders(R, S) ==
    /\ \A x \in S : <<x, x>> \notin R
    /\ \A x, y, z \in S : <<x, y>> \in R /\ <<y, z>> \in R => <<x, z>> \in R
    /\ \A x, y \in S : x = y \/ <<x, y>> \in R \/ <<y, x>> \in R

\* How many come before each.
Ranking(R, S) == [x \in S |-> Cardinality({y \in S : <<y, x>> \in R})]

Counts(rank, S) ==
    /\ Cardinality(S) \in Nat
    /\ \A x \in S : rank[x] \in 0 .. Cardinality(S) - 1
    /\ \A x, y \in S : rank[x] = rank[y] => x = y
    /\ \A r \in 1 .. Cardinality(S) : \E x \in S : rank[x] = r - 1

\* The ranks of a finite set under a strict total order count from 0.
LEMMA RanksCount ==
    ASSUME NEW S, IsFiniteSet(S), NEW R, Orders(R, S), NEW rank, rank = Ranking(R, S)
    PROVE  Counts(rank, S)
<1> USE DEF Orders, Ranking, Counts
<1> DEFINE below == [x \in S |-> {y \in S : <<y, x>> \in R}]
           n == Cardinality(S)
<1>0. n \in Nat
  BY FS_CardinalityType
<1>1. /\ \A x \in S : rank[x] = Cardinality(below[x]) /\ below[x] \subseteq S \ {x} /\ IsFiniteSet(below[x])
      /\ \A x, y \in S : y \in below[x] <=> <<y, x>> \in R
  BY FS_Subset
<1> HIDE DEF below
<1>2. \A x \in S : rank[x] \in 0 .. n - 1
  <2> SUFFICES ASSUME NEW x \in S PROVE rank[x] \in 0 .. n - 1
    OBVIOUS
  <2>1. below[x] \subseteq S /\ x \notin below[x]
    BY <1>1
  <2>2. Cardinality(below[x]) \in Nat /\ Cardinality(below[x]) + 1 <= n
    BY <2>1, SmallerSet
  <2> HIDE DEF n
  <2> QED BY <1>0, <1>1, <2>2
<1>3. \A x, y \in S : <<x, y>> \in R => rank[x] + 1 <= rank[y]
  <2> SUFFICES ASSUME NEW x \in S, NEW y \in S, <<x, y>> \in R PROVE rank[x] + 1 <= rank[y]
    OBVIOUS
  <2>1. below[x] \subseteq below[y] /\ x \in below[y] /\ x \notin below[x]
    BY <1>1
  <2> QED BY <1>1, <2>1, SmallerSet
<1> HIDE DEF n
<1>4. \A x, y \in S : rank[x] = rank[y] => x = y
  <2> SUFFICES ASSUME NEW x \in S, NEW y \in S, x # y PROVE rank[x] # rank[y]
    OBVIOUS
  <2>1. rank[x] \in Int /\ rank[y] \in Int
    BY <1>0, <1>2
  <2>2. rank[x] + 1 <= rank[y] \/ rank[y] + 1 <= rank[x]
    BY <1>3
  <2> QED BY <2>1, <2>2
<1>5. \A r \in 0 .. n - 1 : \E x \in S : rank[x] = r
  <2> DEFINE T == 0 .. n - 1
  <2>1. rank \in Injection(S, T)
    BY <1>2, <1>4 DEF Injection, IsInjective
  <2>2. IsFiniteSet(T) /\ Cardinality(T) = n
    <3>1. CASE n = 0
      <4>1. T = {}
        BY <3>1
      <4> QED BY <3>1, <4>1, FS_EmptySet
    <3>2. CASE n # 0
      BY <1>0, <3>2, FS_Interval
    <3> QED BY <3>1, <3>2
  <2>3. rank \in Surjection(S, T)
    <3> HIDE DEF T
    <3>1. Cardinality(S) = Cardinality(T)
      BY <2>2 DEF n
    <3> QED BY <2>1, <2>2, <3>1, FS_Injection
  <2> QED BY <2>3 DEF Surjection
<1>6. \A r \in 1 .. n : \E x \in S : rank[x] = r - 1
  <2> SUFFICES ASSUME NEW r \in 1 .. n PROVE \E x \in S : rank[x] = r - 1
    OBVIOUS
  <2>1. r - 1 \in 0 .. n - 1
    BY <1>0
  <2> QED BY <1>5, <2>1
<1> QED BY <1>0, <1>2, <1>4, <1>6 DEF n

\* A set of numbers has a least one.
LEMMA LeastNumber ==
    ASSUME NEW S, S \subseteq Nat, S # {}
    PROVE  \E m \in S : \A n \in S : m <= n
<1> DEFINE R == {e \in Nat \X Nat : e[1] < e[2]}
<1>1. IsWellFoundedOn(R, Nat)
  BY NatLessThanWellFounded DEF OpToRel
<1>2. PICK m \in S : \A n \in S : ~(<<n, m>> \in R)
  BY <1>1, WFMin
<1>3. \A n \in S : ~(n < m)
  BY <1>2
<1> QED BY <1>3

-----------------------------------------------------------------------------
(* The heap.                                                                 *)

USE MessageJobsAssumption DEF Entries, Placeholder

\* Where a job stands in a list.
Spots(q, j) == {k \in DOMAIN q : q[k] = j}
Absent(q, j) == Spots(q, j) = {}
Single(q, j) == \E k : Spots(q, j) = {k}

\* Every job is as often in one list as at the given positions of the other.
AsOften(t, q, E) ==
    \A j : /\ Absent(t, j) <=> Spots(q, j) \cap E = {}
           /\ (\E k : Spots(q, j) \cap E = {k}) => Single(t, j)

OneToOne(p, D, E) ==
    /\ p \in [D -> E]
    /\ \A r, s \in D : p[r] = p[s] => r = s
    /\ \A k \in E : \E r \in D : p[r] = k

\* The entries of q that p names, one after the other.
Picks(t, q, p, n) == t = [r \in 1 .. n |-> q[p[r]]]

\* A list that holds the entries of some positions, in any order.
LEMMA Picked ==
    ASSUME NEW q \in Seq(Entries), NEW E, E \subseteq DOMAIN q, NEW n \in Nat, NEW p,
           OneToOne(p, 1 .. n, E), NEW t, Picks(t, q, p, n)
    PROVE  t \in Seq(Entries) /\ AsOften(t, q, E)
<1> USE DEF Picks
<1>1. DOMAIN t = 1 .. n /\ \A r \in 1 .. n : p[r] \in E /\ p[r] \in DOMAIN q /\ t[r] = q[p[r]]
  BY DEF OneToOne
<1>2. t \in Seq(Entries)
  <2>1. \A r \in 1 .. n : t[r] \in Entries
    BY <1>1, ElementOfSeq
  <2>2. t \in [1 .. n -> Entries]
    BY <2>1
  <2> QED BY <2>2, SeqDef
<1>3. ASSUME NEW j PROVE Absent(t, j) <=> Spots(q, j) \cap E = {}
  <2>1. Absent(t, j) <=> \A r \in 1 .. n : q[p[r]] # j
    BY <1>1 DEF Absent, Spots
  <2>2. Spots(q, j) \cap E = {} <=> \A k \in E : q[k] # j
    BY DEF Spots
  <2>3. (\A r \in 1 .. n : q[p[r]] # j) <=> \A k \in E : q[k] # j
    BY DEF OneToOne
  <2> QED BY <2>1, <2>2, <2>3
<1>4. ASSUME NEW j, NEW k, Spots(q, j) \cap E = {k} PROVE Single(t, j)
  <2>1. k \in DOMAIN q /\ k \in E /\ q[k] = j /\ \A i \in E : q[i] = j => i = k
    <3>1. \A i : i \in DOMAIN q /\ q[i] = j /\ i \in E <=> i = k
      BY <1>4 DEF Spots
    <3> QED BY <3>1
  <2>2. PICK r \in 1 .. n : p[r] = k
    BY <2>1 DEF OneToOne
  <2>3. \A s \in 1 .. n : t[s] = j => s = r
    BY <1>1, <2>1, <2>2 DEF OneToOne
  <2>4. Spots(t, j) = {r}
    BY <1>1, <2>1, <2>2, <2>3 DEF Spots
  <2> QED BY <2>4 DEF Single
<1> QED BY <1>2, <1>3, <1>4 DEF AsOften

\* The order of the sort is strict and total, for jobs that were created.
LEMMA SortOrder ==
    ASSUME born' \in Seq(MessageJobs), NEW q \in Seq(Entries),
           \A k \in DOMAIN q : q[k] = Placeholder \/ \E i \in DOMAIN born' : born'[i] = q[k]
    PROVE  /\ \A k \in DOMAIN q : ~Ahead(q, k, k)
           /\ \A k, m, n \in DOMAIN q : Ahead(q, k, m) /\ Ahead(q, m, n) => Ahead(q, k, n)
           /\ \A k, m \in DOMAIN q : k = m \/ Ahead(q, k, m) \/ Ahead(q, m, k)
<1>1. DOMAIN q \subseteq Nat /\ \A k \in DOMAIN q : q[k] \in Entries
  BY LenProperties, ElementOfSeq
<1>2. \A k \in DOMAIN q : q[k] # Placeholder => Age(q[k]) \in Nat /\ Urgency[q[k]] \in Nat
  <2> SUFFICES ASSUME NEW k \in DOMAIN q, q[k] # Placeholder
               PROVE  Age(q[k]) \in Nat /\ Urgency[q[k]] \in Nat
    OBVIOUS
  <2>1. Urgency[q[k]] \in Nat
    BY <1>1
  <2>2. Age(q[k]) \in DOMAIN born'
    BY DEF Age
  <2>3. DOMAIN born' \subseteq Nat
    BY LenProperties
  <2> QED BY <2>1, <2>2, <2>3
<1> DEFINE B(k, m) == Before(q[k], q[m])
<1>3. \A k \in DOMAIN q : ~B(k, k)
  BY <1>2 DEF Before
<1>4. \A k, m, n \in DOMAIN q : B(k, m) /\ B(m, n) => B(k, n)
  BY <1>2 DEF Before
<1>5. \A k, m, n \in DOMAIN q : B(k, n) => B(k, m) \/ B(m, n)
  BY <1>2 DEF Before
<1>6. \A k, m \in DOMAIN q : Ahead(q, k, m) <=> B(k, m) \/ (k < m /\ ~B(m, k))
  BY DEF Ahead
<1> HIDE DEF B
<1>7. \A k, m \in DOMAIN q : k = m \/ Ahead(q, k, m) \/ Ahead(q, m, k)
  BY <1>1, <1>6
<1>8. \A k, m, n \in DOMAIN q : Ahead(q, k, m) /\ Ahead(q, m, n) => Ahead(q, k, n)
  <2> SUFFICES ASSUME NEW k \in DOMAIN q, NEW m \in DOMAIN q, NEW n \in DOMAIN q,
                      Ahead(q, k, m), Ahead(q, m, n), ~B(k, n)
               PROVE  k < n /\ ~B(n, k)
    BY <1>6
  <2>1. ~B(m, k) /\ ~B(n, m)
    BY <1>3, <1>4, <1>6
  <2>2. ~B(n, k)
    BY <1>5, <2>1
  <2>3. ~(B(k, m) /\ B(m, n))
    BY <1>4
  <2>4. ~B(k, m) /\ ~B(m, n)
    BY <1>5, <2>1, <2>3
  <2> QED BY <1>1, <1>6, <2>2, <2>4
<1>9. \A k \in DOMAIN q : ~Ahead(q, k, k)
  BY <1>1, <1>3, <1>6
<1> QED BY <1>7, <1>8, <1>9

\* The sort rearranges.
LEMMA SortPlaces ==
    ASSUME born' \in Seq(MessageJobs), NEW q \in Seq(Entries),
           \A k \in DOMAIN q : q[k] = Placeholder \/ \E i \in DOMAIN born' : born'[i] = q[k]
    PROVE  sort(q) \in Seq(Entries) /\ AsOften(sort(q), q, DOMAIN q)
<1>d. PICK D : D = DOMAIN q
  OBVIOUS
<1>o. PICK R : R = {e \in D \X D : Ahead(q, e[1], e[2])}
  OBVIOUS
<1>r. PICK rank : rank = [k \in D |-> Cardinality({n \in D : <<n, k>> \in R})]
  OBVIOUS
<1>1. Len(q) \in Nat /\ D = 1 .. Len(q) /\ \A k \in D : q[k] \in Entries
  BY <1>d, LenProperties, ElementOfSeq
<1>2. IsFiniteSet(D) /\ Cardinality(D) = Len(q)
  <2>1. CASE Len(q) = 0
    <3>1. D = {}
      BY <1>1, <2>1
    <3> QED BY <2>1, <3>1, FS_EmptySet
  <2>2. CASE Len(q) # 0
    BY <1>1, <2>2, FS_Interval
  <2> QED BY <2>1, <2>2
<1>3. \A n, k \in D : <<n, k>> \in R <=> Ahead(q, n, k)
  BY <1>o
<1>4. \A k \in D : rank[k] = Rank(q, k)
  <2> SUFFICES ASSUME NEW k \in D PROVE rank[k] = Rank(q, k)
    OBVIOUS
  <2>1. {n \in D : <<n, k>> \in R} = {n \in DOMAIN q : Ahead(q, n, k)}
    BY <1>d, <1>3
  <2> QED BY <1>r, <2>1 DEF Rank
<1>5. /\ \A x \in D : <<x, x>> \notin R
      /\ \A x, y, z \in D : <<x, y>> \in R /\ <<y, z>> \in R => <<x, z>> \in R
      /\ \A x, y \in D : x = y \/ <<x, y>> \in R \/ <<y, x>> \in R
  BY <1>d, <1>3, SortOrder
<1>6. /\ \A x \in D : rank[x] \in 0 .. Cardinality(D) - 1
      /\ \A x, y \in D : rank[x] = rank[y] => x = y
      /\ \A r \in 1 .. Cardinality(D) : \E x \in D : rank[x] = r - 1
  <2>1. Orders(R, D)
    BY <1>5 DEF Orders
  <2>2. rank = Ranking(R, D)
    BY <1>r DEF Ranking
  <2>3. Counts(rank, D)
    BY <1>2, <2>1, <2>2, RanksCount
  <2> QED BY <2>3 DEF Counts
<1>7. \A r \in D : \E k \in D : Rank(q, k) = r - 1
  BY <1>1, <1>2, <1>4, <1>6
<1>p. PICK p : p = [r \in D |-> CHOOSE k \in D : Rank(q, k) = r - 1]
  OBVIOUS
<1>8. \A r \in D : p[r] \in D /\ rank[p[r]] = r - 1
  BY <1>p, <1>4, <1>7
<1>9. /\ p \in [D -> D] /\ \A r, s \in D : p[r] = p[s] => r = s
  <2>1. ASSUME NEW r \in D, NEW s \in D, p[r] = p[s] PROVE r = s
    <3>1. r \in Int /\ s \in Int
      BY <1>1
    <3>2. r - 1 = s - 1
      BY <1>8, <2>1
    <3> QED BY <3>1, <3>2
  <2> QED BY <1>p, <1>8, <2>1
<1>10. \A k \in D : \E r \in D : p[r] = k
  <2> SUFFICES ASSUME NEW k \in D PROVE \E r \in D : p[r] = k
    OBVIOUS
  <2>1. rank[k] + 1 \in D /\ (rank[k] + 1) - 1 = rank[k]
    <3>1. rank[k] \in 0 .. Len(q) - 1
      BY <1>2, <1>6
    <3>2. rank[k] \in Int /\ 0 <= rank[k] /\ rank[k] <= Len(q) - 1
      BY <1>1, <3>1
    <3>3. rank[k] + 1 \in 1 .. Len(q)
      BY <1>1, <3>2
    <3> QED BY <1>1, <3>2, <3>3
  <2>2. p[rank[k] + 1] \in D /\ rank[p[rank[k] + 1]] = rank[k]
    BY <1>8, <2>1
  <2> QED BY <1>6, <2>1, <2>2
<1>11. sort(q) = [r \in D |-> q[p[r]]]
  BY <1>d, <1>p DEF sort
<1>12. PICK n : n = Len(q)
  OBVIOUS
<1>13. PICK t : Picks(t, q, p, n)
  BY DEF Picks
<1>14. OneToOne(p, 1 .. n, D)
  BY <1>1, <1>9, <1>10, <1>12 DEF OneToOne
<1>15. n \in Nat /\ D \subseteq DOMAIN q
  BY <1>1, <1>12, <1>d
<1>16. t \in Seq(Entries) /\ AsOften(t, q, D)
  BY <1>13, <1>14, <1>15, Picked
<1>17. sort(q) = t
  BY <1>1, <1>11, <1>12, <1>13 DEF Picks
<1> QED BY <1>d, <1>16, <1>17

\* The lists agree on every job outside X.
SameBut(t, q, X) ==
    \A j : j \notin X => (Absent(t, j) <=> Absent(q, j)) /\ (Single(q, j) => Single(t, j))

\* Nothing is in t that is not in q.
Within(t, q) == \A j : Absent(q, j) => Absent(t, j)

\* The jobs of a list were created.
Travels(q, b) == \A k \in DOMAIN q : q[k] = Placeholder \/ \E i \in DOMAIN b : b[i] = q[k]

\* A push adds its entry and loses nothing.
LEMMA PushPlaces ==
    ASSUME born' \in Seq(MessageJobs), NEW q \in Seq(Entries), NEW x \in Entries,
           Travels(Append(q, x), born')
    PROVE  /\ Push(q, x) \in Seq(Entries)
           /\ SameBut(Push(q, x), q, {x})
           /\ Absent(q, x) => Single(Push(q, x), x)
<1>1. PICK a : a = Append(q, x)
  OBVIOUS
<1>2. a \in Seq(Entries) /\ DOMAIN a = 1 .. Len(q) + 1 /\ a[Len(q) + 1] = x
      /\ \A k \in 1 .. Len(q) : a[k] = q[k]
  <2>1. a \in Seq(Entries) /\ Len(a) = Len(q) + 1 /\ a[Len(q) + 1] = x
        /\ \A k \in 1 .. Len(q) : a[k] = q[k]
    BY <1>1, AppendProperties
  <2> QED BY <2>1, LenProperties
<1>3. \A k \in DOMAIN a : a[k] = Placeholder \/ \E i \in DOMAIN born' : born'[i] = a[k]
  BY <1>1 DEF Travels
<1>4. sort(a) \in Seq(Entries) /\ AsOften(sort(a), a, DOMAIN a)
  BY <1>2, <1>3, SortPlaces
<1>5. PICK t : t = Push(q, x)
  OBVIOUS
<1>6. t \in Seq(Entries) /\ AsOften(t, a, DOMAIN a)
  BY <1>1, <1>4, <1>5 DEF Push
<1>7. Len(q) \in Nat /\ DOMAIN q = 1 .. Len(q)
  BY LenProperties
<1>8. ASSUME NEW j, j # x PROVE Spots(a, j) = Spots(q, j)
  BY <1>2, <1>7, <1>8 DEF Spots
<1>9. \A j : Spots(a, j) \cap DOMAIN a = Spots(a, j)
  BY DEF Spots
<1>10. SameBut(t, q, {x})
  <2> SUFFICES ASSUME NEW j, j # x
               PROVE  (Absent(t, j) <=> Absent(q, j)) /\ (Single(q, j) => Single(t, j))
    BY DEF SameBut
  <2>1. Spots(a, j) \cap DOMAIN a = Spots(q, j)
    BY <1>8, <1>9
  <2> QED BY <1>6, <2>1 DEF AsOften, Absent, Single
<1>11. ASSUME Absent(q, x) PROVE Single(t, x)
  <2>1. \A k \in 1 .. Len(q) : q[k] # x
    BY <1>7, <1>11 DEF Absent, Spots
  <2>2. Spots(a, x) = {Len(q) + 1}
    <3>1. \A k \in DOMAIN a : a[k] = x <=> k = Len(q) + 1
      BY <1>2, <1>7, <2>1
    <3> QED BY <1>2, <1>7, <3>1 DEF Spots
  <2> QED BY <1>6, <1>9, <2>2 DEF AsOften
<1> QED BY <1>5, <1>6, <1>10, <1>11

\* The last entry leaves.
LEMMA PopPlaces ==
    ASSUME NEW q \in Seq(Entries), q # <<>>, NEW x, x = q[Len(q)],
           NEW t, t = SubSeq(q, 1, Len(q) - 1)
    PROVE  /\ x \in Entries /\ t \in Seq(Entries) /\ ~Absent(q, x)
           /\ SameBut(t, q, {x}) /\ Within(t, q)
           /\ Single(q, x) => Absent(t, x)
<1>1. Len(q) \in Nat \ {0} /\ DOMAIN q = 1 .. Len(q)
  BY LenProperties, EmptySeq
<1>2. x \in Entries /\ Len(q) \in DOMAIN q
  BY <1>1, ElementOfSeq
<1>3. t \in Seq(Entries) /\ DOMAIN t = 1 .. Len(q) - 1 /\ \A k \in 1 .. Len(q) - 1 : t[k] = q[k]
  <2>1. \A k \in 1 .. Len(q) - 1 : q[k] \in Entries
    BY <1>1, ElementOfSeq
  <2>2. Len(q) - 1 \in Int /\ 1 \in Int /\ Len(q) - 1 \in Nat
    BY <1>1
  <2>3. t \in Seq(Entries) /\ Len(t) = (IF 1 <= Len(q) - 1 THEN Len(q) - 1 - 1 + 1 ELSE 0)
        /\ \A k \in 1 .. Len(q) - 1 - 1 + 1 : t[k] = q[1 + k - 1]
    BY <2>1, <2>2, SubSeqProperties
  <2>4. Len(t) = Len(q) - 1 /\ \A k \in 1 .. Len(q) - 1 : k \in Int /\ 1 + k - 1 = k /\ t[k] = q[1 + k - 1]
    BY <1>1, <2>3
  <2> QED BY <2>3, <2>4, LenProperties
<1>4. \A j : Spots(t, j) = Spots(q, j) \ {Len(q)}
  BY <1>1, <1>3 DEF Spots
<1>5. ASSUME NEW j, j # x PROVE Spots(t, j) = Spots(q, j)
  BY <1>1, <1>4, <1>5 DEF Spots
<1>6. Len(q) \in Spots(q, x)
  BY <1>2 DEF Spots
<1>7. SameBut(t, q, {x}) /\ Within(t, q)
  BY <1>4, <1>5 DEF SameBut, Within, Absent, Single
<1>8. ASSUME Single(q, x) PROVE Absent(t, x)
  BY <1>4, <1>6, <1>8 DEF Single, Absent
<1>9. ~Absent(q, x)
  BY <1>6 DEF Absent
<1> QED BY <1>2, <1>3, <1>7, <1>8, <1>9

\* What a list of picked entries keeps.
LEMMA PickedPlaces ==
    ASSUME NEW q, NEW t, NEW E, AsOften(t, q, E), NEW X, \A k \in DOMAIN q : k \in E \/ q[k] \in X
    PROVE  SameBut(t, q, X) /\ Within(t, q)
<1>1. ASSUME NEW j, j \notin X PROVE Spots(q, j) \cap E = Spots(q, j)
  BY <1>1 DEF Spots
<1>2. ASSUME NEW j, j \notin X
      PROVE  (Absent(t, j) <=> Absent(q, j)) /\ (Single(q, j) => Single(t, j))
  BY <1>1, <1>2 DEF AsOften, Absent, Single
<1>3. SameBut(t, q, X)
  BY <1>2 DEF SameBut
<1>4. Within(t, q)
  BY DEF Within, AsOften, Absent
<1> QED BY <1>3, <1>4

\* One entry leaves.
LEMMA DeletePlaces ==
    ASSUME NEW q \in Seq(Entries), NEW first \in DOMAIN q, NEW x, q[first] = x,
           NEW t, t = [i \in 1 .. Len(q) - 1 |-> IF i < first THEN q[i] ELSE q[i + 1]]
    PROVE  /\ t \in Seq(Entries) /\ SameBut(t, q, {x}) /\ Within(t, q)
           /\ Single(q, x) => Absent(t, x)
<1>1. Len(q) \in Nat /\ DOMAIN q = 1 .. Len(q)
  BY LenProperties
<1>2. PICK n : n = Len(q) - 1
  OBVIOUS
<1>3. n \in Nat /\ first \in Int /\ 1 <= first /\ first <= n + 1 /\ DOMAIN q = 1 .. n + 1
  BY <1>1, <1>2
<1>4. PICK E : E = DOMAIN q \ {first}
  OBVIOUS
<1>5. PICK p : p = [i \in 1 .. n |-> IF i < first THEN i ELSE i + 1]
  OBVIOUS
<1>6. OneToOne(p, 1 .. n, E)
  <2>1. \A i \in 1 .. n : p[i] \in E
    BY <1>3, <1>4, <1>5
  <2>2. \A r, s \in 1 .. n : p[r] = p[s] => r = s
    BY <1>3, <1>5
  <2>3. ASSUME NEW k \in E PROVE \E r \in 1 .. n : p[r] = k
    <3>1. CASE k < first
      <4>1. k \in 1 .. n /\ p[k] = k
        BY <1>3, <1>4, <1>5, <3>1
      <4> QED BY <4>1
    <3>2. CASE ~(k < first)
      <4>1. k - 1 \in 1 .. n /\ p[k - 1] = k
        BY <1>3, <1>4, <1>5, <3>2
      <4> QED BY <4>1
    <3> QED BY <3>1, <3>2
  <2> QED BY <1>5, <2>1, <2>2, <2>3 DEF OneToOne
<1>7. Picks(t, q, p, n)
  <2>1. \A i \in 1 .. n : (IF i < first THEN q[i] ELSE q[i + 1]) = q[p[i]]
    BY <1>5
  <2> QED BY <1>2, <2>1 DEF Picks
<1>8. E \subseteq DOMAIN q
  BY <1>4
<1>9. t \in Seq(Entries) /\ AsOften(t, q, E)
  BY <1>3, <1>6, <1>7, <1>8, Picked
<1>10. SameBut(t, q, {x}) /\ Within(t, q)
  <2>1. \A k \in DOMAIN q : k \in E \/ q[k] \in {x}
    BY <1>4
  <2> QED BY <1>9, <2>1, PickedPlaces
<1>11. ASSUME Single(q, x) PROVE Absent(t, x)
  <2>1. first \in Spots(q, x)
    BY DEF Spots
  <2>2. Spots(q, x) \cap E = {}
    BY <1>4, <1>11, <2>1 DEF Single
  <2> QED BY <1>9, <2>2 DEF AsOften
<1> QED BY <1>9, <1>10, <1>11

\* The entries of a set leave.
LEMMA KeptPlaces ==
    ASSUME NEW q \in Seq(Entries), NEW X, NEW E, E = {n \in DOMAIN q : q[n] \notin X}
    PROVE  /\ Kept(q, E) \in Seq(Entries) /\ SameBut(Kept(q, E), q, X) /\ Within(Kept(q, E), q)
           /\ \A j \in X : Absent(Kept(q, E), j)
<1>1. Len(q) \in Nat /\ DOMAIN q = 1 .. Len(q)
  BY LenProperties
<1>2. E \subseteq DOMAIN q /\ \A k \in E : k \in Int
  BY <1>1
<1>3. IsFiniteSet(E)
  <2>1. IsFiniteSet(1 .. Len(q))
    BY <1>1, FS_Interval
  <2> QED BY <1>1, <1>2, <2>1, FS_Subset
<1>4. PICK R : R = {e \in E \X E : e[1] < e[2]}
  OBVIOUS
<1>5. \A x, y \in E : <<x, y>> \in R <=> x < y
  BY <1>4
<1>6. Orders(R, E)
  BY <1>2, <1>5 DEF Orders
<1>7. PICK rank : rank = Ranking(R, E)
  OBVIOUS
<1>8. Counts(rank, E)
  BY <1>3, <1>6, <1>7, RanksCount
<1>9. \A k \in E : rank[k] = Cardinality({n \in E : n < k})
  <2> SUFFICES ASSUME NEW k \in E PROVE rank[k] = Cardinality({n \in E : n < k})
    OBVIOUS
  <2>1. {n \in E : <<n, k>> \in R} = {n \in E : n < k}
    BY <1>5
  <2> QED BY <1>7, <2>1 DEF Ranking
<1>10. PICK n : n = Cardinality(E)
  OBVIOUS
<1>11. n \in Nat
  BY <1>8, <1>10 DEF Counts
<1>12. PICK p : p = [r \in 1 .. n |-> CHOOSE k \in E : Cardinality({i \in E : i < k}) = r - 1]
  OBVIOUS
<1>13. \A r \in 1 .. n : p[r] \in E /\ rank[p[r]] = r - 1
  <2> SUFFICES ASSUME NEW r \in 1 .. n PROVE p[r] \in E /\ rank[p[r]] = r - 1
    OBVIOUS
  <2>1. \E k \in E : Cardinality({i \in E : i < k}) = r - 1
    <3>1. \E k \in E : rank[k] = r - 1
      BY <1>8, <1>10 DEF Counts
    <3> QED BY <1>9, <3>1
  <2>2. p[r] \in E /\ Cardinality({i \in E : i < p[r]}) = r - 1
    BY <1>12, <2>1
  <2> QED BY <1>9, <2>2
<1>14. OneToOne(p, 1 .. n, E)
  <2>1. ASSUME NEW r \in 1 .. n, NEW s \in 1 .. n, p[r] = p[s] PROVE r = s
    <3>1. r \in Int /\ s \in Int /\ r - 1 = s - 1
      BY <1>11, <1>13, <2>1
    <3> QED BY <3>1
  <2>2. ASSUME NEW k \in E PROVE \E r \in 1 .. n : p[r] = k
    <3>1. rank[k] \in 0 .. n - 1
      BY <1>8, <1>10 DEF Counts
    <3>2. rank[k] + 1 \in 1 .. n /\ (rank[k] + 1) - 1 = rank[k]
      BY <1>11, <3>1
    <3>3. p[rank[k] + 1] \in E /\ rank[p[rank[k] + 1]] = rank[k]
      BY <1>13, <3>2
    <3> QED BY <1>8, <3>2, <3>3 DEF Counts
  <2> QED BY <1>12, <1>13, <2>1, <2>2 DEF OneToOne
<1>15. PICK t : t = Kept(q, E)
  OBVIOUS
<1>16. Picks(t, q, p, n)
  BY <1>10, <1>12, <1>15 DEF Kept, Picks
<1>17. t \in Seq(Entries) /\ AsOften(t, q, E)
  BY <1>2, <1>11, <1>14, <1>16, Picked
<1>18. SameBut(t, q, X) /\ Within(t, q)
  <2>1. \A k \in DOMAIN q : k \in E \/ q[k] \in X
    OBVIOUS
  <2> QED BY <1>17, <2>1, PickedPlaces
<1>19. ASSUME NEW j \in X PROVE Absent(t, j)
  <2>1. Spots(q, j) \cap E = {}
    BY DEF Spots
  <2> QED BY <1>17, <2>1 DEF AsOften
<1> QED BY <1>15, <1>17, <1>18, <1>19

-----------------------------------------------------------------------------
(* The inductive invariant.                                                  *)

QueueTypes ==
    /\ heap \in Seq(Entries) /\ born \in Seq(MessageJobs)
    /\ taker \in [pc : {"top", "wait", "pop", "send"}, job : Entries]
    /\ hand \in [Hands -> [pc : {"idle", "execute", "read", "write", "invoke", "reply", "off"},
                           job : Entries, left : Int, read : Seq(Entries)]]
    /\ outcome \in [MessageJobs -> {"none", "failed", "cancelled", "sent"}]
    /\ stopped \in BOOLEAN /\ raced \in BOOLEAN

Created(j) == \E i \in DOMAIN born : born[i] = j

\* Only jobs that were created are under way, and the others have no result.
UnderWay ==
    /\ Travels(heap, born) /\ \A w \in Hands : Travels(hand[w].read, born)
    /\ taker.job = Placeholder \/ Created(taker.job)
    /\ \A w \in Hands : hand[w].job = Placeholder \/ Created(hand[w].job)
    /\ \A j \in MessageJobs : ~Created(j) => outcome[j] = "none"

\* Whoever is between two jobs holds none.
BetweenJobs ==
    /\ taker.pc # "send" => taker.job = Placeholder
    /\ \A w \in Hands : hand[w].pc \in {"idle", "off"} => hand[w].job = Placeholder

WithTaker(j) == taker.job = j
Holders(j) == {v \in Hands : hand[v].job = j}

Nowhere(j) == Absent(heap, j) /\ ~WithTaker(j) /\ Holders(j) = {}

OncePlaced(j) ==
    \/ Single(heap, j) /\ ~WithTaker(j) /\ Holders(j) = {}
    \/ Absent(heap, j) /\ WithTaker(j) /\ Holders(j) = {}
    \/ Absent(heap, j) /\ ~WithTaker(j) /\ \E w : Holders(j) = {w}

Awaited(j) == Created(j) /\ outcome[j] = "none"

Accounted ==
    /\ \A j \in MessageJobs : IF Awaited(j) THEN OncePlaced(j) ELSE Nowhere(j)
    /\ taker.pc = "wait" => \A i \in DOMAIN heap : heap[i] = Placeholder

QueueInv == QueueTypes /\ UnderWay /\ BetweenJobs /\ (stopped \/ raced \/ Accounted)

LEMMA QueueStart == QueueInit => QueueInv
<1> SUFFICES ASSUME QueueInit PROVE QueueInv
  OBVIOUS
<1> USE DEF QueueInit, AtRest
<1>1. QueueTypes
  <2>1. <<>> \in Seq(Entries) /\ <<>> \in Seq(MessageJobs)
    BY EmptySeq
  <2>2. hand \in [Hands -> [pc : {"idle", "execute", "read", "write", "invoke", "reply", "off"},
                            job : Entries, left : Int, read : Seq(Entries)]]
    BY <2>1
  <2> QED BY <2>1, <2>2 DEF QueueTypes
<1>2. UnderWay /\ BetweenJobs
  BY DEF UnderWay, BetweenJobs, Travels
<1>3. \A j \in MessageJobs : ~Awaited(j) /\ Nowhere(j)
  BY DEF Awaited, Created, Nowhere, Absent, Spots, WithTaker, Holders
<1>4. Accounted
  BY <1>3 DEF Accounted
<1> QED BY <1>1, <1>2, <1>4 DEF QueueInv

\* A list that holds no job holds placeholders only.
LEMMA AllPlaceholders ==
    ASSUME NEW q \in Seq(Entries)
    PROVE  (\A i \in DOMAIN q : q[i] = Placeholder) <=> \A j \in MessageJobs : Absent(q, j)
<1>1. \A i \in DOMAIN q : q[i] \in Entries
  BY ElementOfSeq
<1>2. \A j : Absent(q, j) <=> \A i \in DOMAIN q : q[i] # j
  BY DEF Absent, Spots
<1> QED BY <1>1, <1>2

LEMMA WithinTravels ==
    ASSUME NEW q, NEW t, NEW b, Travels(q, b), Within(t, q)
    PROVE  Travels(t, b)
<1>1. \A k \in DOMAIN t : ~Absent(t, t[k])
  BY DEF Absent, Spots
<1>2. \A k \in DOMAIN t : \E i \in DOMAIN q : q[i] = t[k]
  <2>1. \A k \in DOMAIN t : ~Absent(q, t[k])
    BY <1>1 DEF Within
  <2> QED BY <2>1 DEF Absent, Spots
<1> QED BY <1>2 DEF Travels

\* A job whose three places do not change is placed as before.
LEMMA PlacedAsBefore ==
    ASSUME NEW j, Absent(heap', j) <=> Absent(heap, j), Single(heap, j) => Single(heap', j),
           WithTaker(j)' <=> WithTaker(j), Holders(j)' = Holders(j)
    PROVE  (OncePlaced(j) => OncePlaced(j)') /\ (Nowhere(j) => Nowhere(j)')
BY DEF OncePlaced, Nowhere

LEMMA BornGrows ==
    ASSUME QueueTypes, NEW j \in MessageJobs, born' = Append(born, j)
    PROVE  /\ born' \in Seq(MessageJobs)
           /\ \A k : Created(k)' <=> Created(k) \/ k = j
           /\ \A q : Travels(q, born) => Travels(q, born')
<1>1. born \in Seq(MessageJobs)
  BY DEF QueueTypes
<1>2. /\ born' \in Seq(MessageJobs) /\ Len(born') = Len(born) + 1 /\ born'[Len(born) + 1] = j
      /\ \A i \in 1 .. Len(born) : born'[i] = born[i]
  BY <1>1, AppendProperties
<1>3. /\ Len(born) \in Nat /\ DOMAIN born = 1 .. Len(born) /\ DOMAIN born' = 1 .. Len(born) + 1
  BY <1>1, <1>2, LenProperties
<1>4. ASSUME NEW k PROVE Created(k)' <=> Created(k) \/ k = j
  <2>1. ASSUME Created(k) PROVE Created(k)'
    <3>1. PICK i \in DOMAIN born : born[i] = k
      BY <2>1 DEF Created
    <3>2. i \in DOMAIN born' /\ born'[i] = k
      BY <1>2, <1>3, <3>1
    <3> QED BY <3>2 DEF Created
  <2>2. Created(j)'
    <3>1. Len(born) + 1 \in DOMAIN born'
      BY <1>3
    <3> QED BY <1>2, <3>1 DEF Created
  <2>3. ASSUME Created(k)', k # j PROVE Created(k)
    <3>1. PICK i \in DOMAIN born' : born'[i] = k
      BY <2>3 DEF Created
    <3>2. i \in 1 .. Len(born)
      BY <1>2, <1>3, <2>3, <3>1
    <3> QED BY <1>2, <1>3, <3>1, <3>2 DEF Created
  <2> QED BY <2>1, <2>2, <2>3
<1>5. \A q : Travels(q, born) => Travels(q, born')
  <2>1. DOMAIN born \subseteq DOMAIN born' /\ \A i \in DOMAIN born : born'[i] = born[i]
    BY <1>2, <1>3
  <2> QED BY <2>1 DEF Travels
<1> QED BY <1>2, <1>4, <1>5

-----------------------------------------------------------------------------
(* The steps.                                                                *)

\* A request that is refused is created with its answer.
LEMMA RefusedStep ==
    ASSUME QueueInv, NEW j \in MessageJobs, AddJob(j), returnErrorJobResult(j) PROVE QueueInv'
<1>u. UNCHANGED <<heap, taker, hand, stopped, raced>>
  BY DEF AddJob, returnErrorJobResult
<1>b. born' = Append(born, j) /\ ~Created(j)
  BY DEF AddJob, Created
<1>o. outcome' = [outcome EXCEPT ![j] = "failed"]
  BY DEF returnErrorJobResult
<1>t. QueueTypes /\ UnderWay /\ BetweenJobs
  BY DEF QueueInv
<1>1. born' \in Seq(MessageJobs) /\ (\A k : Created(k)' <=> Created(k) \/ k = j)
      /\ \A q : Travels(q, born) => Travels(q, born')
  BY <1>b, <1>t, BornGrows
<1>2. /\ outcome' \in [MessageJobs -> {"none", "failed", "cancelled", "sent"}]
      /\ outcome'[j] = "failed" /\ \A k \in MessageJobs : k # j => outcome'[k] = outcome[k]
  BY <1>o, <1>t DEF QueueTypes
<1>3. QueueTypes'
  BY <1>u, <1>t, <1>1, <1>2 DEF QueueTypes
<1>4. UnderWay'
  BY <1>u, <1>t, <1>1, <1>2 DEF UnderWay
<1>5. BetweenJobs'
  BY <1>u, <1>t DEF BetweenJobs
<1>6. ASSUME Accounted PROVE Accounted'
  <2>1. \A k \in MessageJobs : Awaited(k)' <=> Awaited(k)
    BY <1>b, <1>1, <1>2 DEF Awaited
  <2>2. \A k \in MessageJobs : (OncePlaced(k)' <=> OncePlaced(k)) /\ (Nowhere(k)' <=> Nowhere(k))
    BY <1>u DEF OncePlaced, Nowhere, WithTaker, Holders
  <2> QED BY <1>u, <1>6, <2>1, <2>2 DEF Accounted
<1> QED BY <1>u, <1>3, <1>4, <1>5, <1>6 DEF QueueInv

\* A request that is queued is on the heap, and the waiting goroutine wakes.
LEMMA QueuedStep ==
    ASSUME QueueInv, NEW j \in MessageJobs, AddJob(j), AddRawJob(j) PROVE QueueInv'
<1>u. UNCHANGED <<outcome, hand, stopped, raced>>
  BY DEF AddJob, AddRawJob
<1>b. born' = Append(born, j) /\ ~Created(j)
  BY DEF AddJob, Created
<1>h. heap' = Push(heap, j)
  BY DEF AddRawJob
<1>t. QueueTypes /\ UnderWay /\ BetweenJobs
  BY DEF QueueInv
<1>1. born' \in Seq(MessageJobs) /\ (\A k : Created(k)' <=> Created(k) \/ k = j)
      /\ \A q : Travels(q, born) => Travels(q, born')
  BY <1>b, <1>t, BornGrows
<1>2. heap \in Seq(Entries) /\ j \in Entries /\ Travels(heap, born')
  BY <1>t, <1>1 DEF QueueTypes, UnderWay
<1>3. Travels(Append(heap, j), born')
  <2>1. /\ Len(Append(heap, j)) = Len(heap) + 1 /\ Append(heap, j)[Len(heap) + 1] = j
        /\ \A i \in 1 .. Len(heap) : Append(heap, j)[i] = heap[i]
        /\ Append(heap, j) \in Seq(Entries)
    BY <1>2, AppendProperties
  <2>2. Len(heap) \in Nat /\ DOMAIN heap = 1 .. Len(heap)
        /\ DOMAIN Append(heap, j) = 1 .. Len(heap) + 1
    BY <1>2, <2>1, LenProperties
  <2>3. \E i \in DOMAIN born' : born'[i] = j
    BY <1>1 DEF Created
  <2> QED BY <1>2, <2>1, <2>2, <2>3 DEF Travels
<1>4. heap' \in Seq(Entries) /\ SameBut(heap', heap, {j}) /\ (Absent(heap, j) => Single(heap', j))
  BY <1>h, <1>1, <1>2, <1>3, PushPlaces
<1>5. taker' \in [pc : {"top", "wait", "pop", "send"}, job : Entries] /\ taker'.job = taker.job
      /\ taker'.pc # "wait" /\ (taker'.pc = "send" <=> taker.pc = "send")
  BY <1>t DEF AddRawJob, QueueTypes
<1>6. QueueTypes'
  BY <1>u, <1>t, <1>1, <1>4, <1>5 DEF QueueTypes
<1>7. UnderWay'
  <2>1. Travels(heap', born')
    <3>1. \A k \in DOMAIN heap' : ~Absent(heap', heap'[k])
      BY DEF Absent, Spots
    <3>2. \A k \in DOMAIN heap' : heap'[k] = j \/ ~Absent(heap, heap'[k])
      BY <1>4, <3>1 DEF SameBut
    <3>3. \A k \in DOMAIN heap' : heap'[k] = j \/ \E i \in DOMAIN heap : heap[i] = heap'[k]
      BY <3>2 DEF Absent, Spots
    <3>4. \E i \in DOMAIN born' : born'[i] = j
      BY <1>1 DEF Created
    <3> QED BY <1>2, <3>3, <3>4 DEF Travels
  <2> QED BY <1>u, <1>t, <1>1, <1>5, <2>1 DEF UnderWay
<1>8. BetweenJobs'
  BY <1>u, <1>t, <1>5 DEF BetweenJobs
<1>9. ASSUME Accounted PROVE Accounted'
  <2>1. Nowhere(j)
    BY <1>b, <1>9 DEF Accounted, Awaited
  <2>2. WithTaker(j)' = WithTaker(j) /\ Holders(j)' = Holders(j)
    BY <1>u, <1>5 DEF WithTaker, Holders
  <2>3. Awaited(j)' /\ OncePlaced(j)'
    BY <1>u, <1>b, <1>t, <1>1, <1>4, <2>1, <2>2 DEF Awaited, UnderWay, Nowhere, OncePlaced
  <2>4. ASSUME NEW k \in MessageJobs, k # j
        PROVE  /\ Awaited(k)' <=> Awaited(k)
               /\ (OncePlaced(k) => OncePlaced(k)') /\ (Nowhere(k) => Nowhere(k)')
    <3>1. (Absent(heap', k) <=> Absent(heap, k)) /\ (Single(heap, k) => Single(heap', k))
      BY <1>4, <2>4 DEF SameBut
    <3>2. WithTaker(k)' = WithTaker(k) /\ Holders(k)' = Holders(k)
      BY <1>u, <1>5 DEF WithTaker, Holders
    <3>3. (OncePlaced(k) => OncePlaced(k)') /\ (Nowhere(k) => Nowhere(k)')
      BY <3>1, <3>2, PlacedAsBefore
    <3> QED BY <1>u, <1>1, <2>4, <3>3 DEF Awaited
  <2> QED BY <1>5, <1>9, <2>3, <2>4 DEF Accounted
<1> QED BY <1>u, <1>6, <1>7, <1>8, <1>9 DEF QueueInv

\* Requests that are cancelled leave the heap with their answer.
LEMMA RemovalStep ==
    ASSUME QueueInv, NEW X, X \subseteq Entries, \A x \in X : ~Absent(heap, x), Cancelled(X),
           heap' \in Seq(Entries), SameBut(heap', heap, X), Within(heap', heap),
           \A x \in X : Single(heap, x) => Absent(heap', x),
           UNCHANGED <<born, taker, hand, stopped, raced>>
    PROVE  QueueInv'
<1>t. QueueTypes /\ UnderWay /\ BetweenJobs
  BY DEF QueueInv
<1>1. /\ outcome' \in [MessageJobs -> {"none", "failed", "cancelled", "sent"}]
      /\ \A j \in MessageJobs \cap X : outcome[j] = "none" /\ outcome'[j] = "cancelled"
      /\ \A j \in MessageJobs \ X : outcome'[j] = outcome[j]
  BY <1>t DEF Cancelled, QueueTypes
<1>2. \A j \in MessageJobs \cap X : Created(j)
  <2>1. \A j \in MessageJobs \cap X : \E k \in DOMAIN heap : heap[k] = j
    BY DEF Absent, Spots
  <2> QED BY <1>t, <2>1 DEF UnderWay, Travels, Created
<1>3. QueueTypes'
  BY <1>t, <1>1 DEF QueueTypes
<1>4. \A j : Created(j)' <=> Created(j)
  BY DEF Created
<1>5. UnderWay'
  <2>1. Travels(heap', born')
    BY <1>t, WithinTravels DEF UnderWay
  <2>2. \A j \in MessageJobs : ~Created(j) => outcome'[j] = "none"
    BY <1>t, <1>1, <1>2 DEF UnderWay
  <2> QED BY <1>t, <1>4, <2>1, <2>2 DEF UnderWay
<1>6. BetweenJobs'
  BY <1>t DEF BetweenJobs
<1>7. ASSUME Accounted PROVE Accounted'
  <2>1. \A j : WithTaker(j)' = WithTaker(j) /\ Holders(j)' = Holders(j)
    BY DEF WithTaker, Holders
  <2>2. ASSUME NEW j \in MessageJobs \cap X PROVE ~Awaited(j)' /\ Nowhere(j)'
    <3>1. Awaited(j) /\ ~Absent(heap, j)
      BY <1>1, <1>2 DEF Awaited
    <3>2. OncePlaced(j)
      BY <1>7, <3>1 DEF Accounted
    <3>3. Single(heap, j) /\ ~WithTaker(j) /\ Holders(j) = {}
      BY <3>1, <3>2 DEF OncePlaced
    <3> QED BY <1>1, <2>1, <3>3 DEF Awaited, Nowhere
  <2>3. ASSUME NEW j \in MessageJobs \ X
        PROVE  IF Awaited(j)' THEN OncePlaced(j)' ELSE Nowhere(j)'
    <3>1. (Absent(heap', j) <=> Absent(heap, j)) /\ (Single(heap, j) => Single(heap', j))
      BY DEF SameBut
    <3>2. (OncePlaced(j) => OncePlaced(j)') /\ (Nowhere(j) => Nowhere(j)')
      BY <2>1, <3>1, PlacedAsBefore
    <3>3. Awaited(j)' <=> Awaited(j)
      BY <1>1, <1>4 DEF Awaited
    <3> QED BY <1>7, <3>2, <3>3 DEF Accounted
  <2>4. taker'.pc = "wait" => \A i \in DOMAIN heap' : heap'[i] = Placeholder
    <3> SUFFICES ASSUME taker.pc = "wait" PROVE \A j \in MessageJobs : Absent(heap', j)
      BY AllPlaceholders
    <3>1. \A j \in MessageJobs : Absent(heap, j)
      BY <1>7, <1>t, AllPlaceholders DEF Accounted, QueueTypes
    <3> QED BY <3>1 DEF Within
  <2> QED BY <2>2, <2>3, <2>4 DEF Accounted
<1> QED BY <1>3, <1>5, <1>6, <1>7 DEF QueueInv

LEMMA DeleteStep ==
    ASSUME QueueInv, NEW id \in Entries, DeleteQueued(id) PROVE QueueInv'
<1>1. PICK at : at = {i \in DOMAIN heap : heap[i] = id}
  OBVIOUS
<1>2. PICK first : first = CHOOSE i \in at : \A k \in at : i <= k
  OBVIOUS
<1>3. heap \in Seq(Entries) /\ DOMAIN heap \subseteq Nat
  BY LenProperties DEF QueueInv, QueueTypes
<1>4. at # {} /\ at \subseteq Nat
  BY <1>1, <1>3 DEF DeleteQueued
<1>5. \E i \in at : \A k \in at : i <= k
  BY <1>4, LeastNumber
<1>6. first \in DOMAIN heap /\ heap[first] = id
  BY <1>1, <1>2, <1>5
<1>7. heap' = [i \in 1 .. Len(heap) - 1 |-> IF i < first THEN heap[i] ELSE heap[i + 1]]
  BY <1>1, <1>2 DEF DeleteQueued
<1>8. /\ heap' \in Seq(Entries) /\ SameBut(heap', heap, {id}) /\ Within(heap', heap)
      /\ Single(heap, id) => Absent(heap', id)
  BY <1>3, <1>6, <1>7, DeletePlaces
<1>9. ~Absent(heap, id) /\ Cancelled({id}) /\ UNCHANGED <<born, taker, hand, stopped, raced>>
  BY <1>6 DEF DeleteQueued, Absent, Spots
<1>10. PICK X : X = {id}
  OBVIOUS
<1> QED BY <1>8, <1>9, <1>10, RemovalStep

LEMMA DeleteFuncStep ==
    ASSUME QueueInv, NEW S, S \subseteq Entries, DeleteJobFunc(S) PROVE QueueInv'
<1>1. heap \in Seq(Entries)
  BY DEF QueueInv, QueueTypes
<1>2. PICK E : E = {n \in DOMAIN heap : heap[n] \notin S}
  OBVIOUS
<1>3. heap' = Kept(heap, E)
  BY <1>2 DEF DeleteJobFunc
<1>4. /\ heap' \in Seq(Entries) /\ SameBut(heap', heap, S) /\ Within(heap', heap)
      /\ \A j \in S : Absent(heap', j)
  BY <1>1, <1>2, <1>3, KeptPlaces
<1>5. \A x \in S : ~Absent(heap, x)
  BY DEF DeleteJobFunc, Absent, Spots
<1>6. Cancelled(S) /\ UNCHANGED <<born, taker, hand, stopped, raced>>
  BY DEF DeleteJobFunc
<1> QED BY <1>4, <1>5, <1>6, RemovalStep

LEMMA StopStep == ASSUME QueueInv, StopDispatcher PROVE QueueInv'
BY DEF QueueInv, StopDispatcher, QueueTypes, UnderWay, BetweenJobs, Created

\* The goroutine finds nothing: it waits, or looks again.
LEMMA NothingStep ==
    ASSUME QueueInv, heap = <<>>, UNCHANGED <<heap, born, hand, outcome, stopped, raced>>,
           taker.pc \in {"top", "pop"}, NEW c \in {"wait", "top"}, taker' = [taker EXCEPT !.pc = c]
    PROVE  QueueInv'
<1>t. QueueTypes /\ UnderWay /\ BetweenJobs
  BY DEF QueueInv
<1>1. taker' \in [pc : {"top", "wait", "pop", "send"}, job : Entries]
      /\ taker'.job = taker.job /\ taker'.pc = c
  BY <1>t DEF QueueTypes
<1>2. QueueTypes' /\ UnderWay'
  BY <1>t, <1>1 DEF QueueTypes, UnderWay, Created
<1>3. BetweenJobs'
  BY <1>t, <1>1 DEF BetweenJobs
<1>4. \A j : /\ Awaited(j)' <=> Awaited(j)
             /\ OncePlaced(j)' <=> OncePlaced(j)
             /\ Nowhere(j)' <=> Nowhere(j)
  BY <1>1 DEF Awaited, Created, OncePlaced, Nowhere, WithTaker, Holders
<1>5. \A i \in DOMAIN heap' : heap'[i] = Placeholder
  OBVIOUS
<1>6. Accounted => Accounted'
  BY <1>4, <1>5 DEF Accounted
<1> QED BY <1>2, <1>3, <1>6 DEF QueueInv

\* The most urgent request leaves the heap with the goroutine.
LEMMA PopStep ==
    ASSUME QueueInv, heap # <<>>, UNCHANGED <<born, hand, outcome, stopped, raced>>,
           taker.pc \in {"top", "pop"}, taker' = [pc |-> "send", job |-> heap[Len(heap)]],
           heap' = SubSeq(heap, 1, Len(heap) - 1)
    PROVE  QueueInv'
<1>t. QueueTypes /\ UnderWay /\ BetweenJobs
  BY DEF QueueInv
<1>x. PICK x : x = heap[Len(heap)]
  OBVIOUS
<1>1. heap \in Seq(Entries)
  BY <1>t DEF QueueTypes
<1>2. /\ x \in Entries /\ heap' \in Seq(Entries) /\ ~Absent(heap, x)
      /\ SameBut(heap', heap, {x}) /\ Within(heap', heap)
      /\ Single(heap, x) => Absent(heap', x)
  BY <1>x, <1>1, PopPlaces
<1>3. taker' = [pc |-> "send", job |-> x]
  BY <1>x
<1>4. taker' \in [pc : {"top", "wait", "pop", "send"}, job : Entries]
      /\ taker'.job = x /\ taker'.pc = "send"
  BY <1>2, <1>3
<1>5. QueueTypes'
  BY <1>t, <1>2, <1>4 DEF QueueTypes
<1>6. x = Placeholder \/ Created(x)
  <2>1. \E k \in DOMAIN heap : heap[k] = x
    BY <1>2 DEF Absent, Spots
  <2> QED BY <1>t, <2>1 DEF UnderWay, Travels, Created
<1>7. UnderWay'
  <2>1. Travels(heap', born')
    BY <1>t, <1>2, WithinTravels DEF UnderWay
  <2> QED BY <1>t, <1>4, <1>6, <2>1 DEF UnderWay, Created
<1>8. BetweenJobs'
  BY <1>t, <1>4 DEF BetweenJobs
<1>9. \A j : (Awaited(j)' <=> Awaited(j)) /\ Holders(j)' = Holders(j)
  BY DEF Awaited, Created, Holders
<1>10. ASSUME Accounted PROVE Accounted'
  <2>1. ASSUME NEW j \in MessageJobs, j # x
        PROVE  IF Awaited(j)' THEN OncePlaced(j)' ELSE Nowhere(j)'
    <3>1. (Absent(heap', j) <=> Absent(heap, j)) /\ (Single(heap, j) => Single(heap', j))
      BY <1>2, <2>1 DEF SameBut
    <3>2. ~WithTaker(j)' /\ ~WithTaker(j)
      BY <1>t, <1>4, <2>1 DEF WithTaker, BetweenJobs
    <3>3. (OncePlaced(j) => OncePlaced(j)') /\ (Nowhere(j) => Nowhere(j)')
      BY <1>9, <3>1, <3>2, PlacedAsBefore
    <3> QED BY <1>9, <1>10, <3>3 DEF Accounted
  <2>2. ASSUME x \in MessageJobs PROVE Awaited(x)' /\ OncePlaced(x)'
    <3>1. Awaited(x) /\ OncePlaced(x)
      BY <1>2, <1>10, <2>2 DEF Accounted, Nowhere
    <3>2. Single(heap, x) /\ Holders(x) = {}
      BY <1>2, <3>1 DEF OncePlaced
    <3> QED BY <1>2, <1>4, <1>9, <3>1, <3>2 DEF OncePlaced, WithTaker
  <2> QED BY <1>4, <2>1, <2>2 DEF Accounted
<1> QED BY <1>5, <1>7, <1>8, <1>10 DEF QueueInv

LEMMA TakerStep == ASSUME QueueInv, proccessMessagesQueue PROVE QueueInv'
<1>1. taker.pc \in {"top", "pop"} /\ UNCHANGED <<born, hand, outcome, stopped, raced>>
  BY DEF proccessMessagesQueue
<1>2. CASE heap = <<>> /\ taker' = [taker EXCEPT !.pc = "wait"] /\ UNCHANGED heap
  BY <1>1, <1>2, NothingStep
<1>3. CASE heap = <<>> /\ taker' = [taker EXCEPT !.pc = "top"] /\ UNCHANGED heap
  BY <1>1, <1>3, NothingStep
<1>4. CASE heap # <<>> /\ taker' = [pc |-> "send", job |-> heap[Len(heap)]]
           /\ heap' = SubSeq(heap, 1, Len(heap) - 1)
  BY <1>1, <1>4, PopStep
<1> QED BY <1>2, <1>3, <1>4 DEF proccessMessagesQueue

HandType == [pc : {"idle", "execute", "read", "write", "invoke", "reply", "off"},
             job : Entries, left : Int, read : Seq(Entries)]

LEMMA RestType ==
    AtRest \in HandType /\ AtRest.pc = "idle" /\ AtRest.job = Placeholder /\ AtRest.read = <<>>
<1>1. PICK e : e = <<>>
  OBVIOUS
<1>2. Placeholder \in Entries
  OBVIOUS
<1> HIDE DEF Entries, Placeholder
<1>3. e \in Seq(Entries)
  BY <1>1, EmptySeq
<1>4. PICK r : r = [pc |-> "idle", job |-> Placeholder, left |-> 0, read |-> e]
  OBVIOUS
<1>5. r \in HandType
  BY <1>2, <1>3, <1>4 DEF HandType
<1>6. AtRest = r
  BY <1>1, <1>4 DEF AtRest
<1> QED BY <1>1, <1>4, <1>5, <1>6

\* A worker goes on with its job.
LEMMA GoesOn ==
    ASSUME QueueInv, NEW w \in Hands, UNCHANGED <<heap, born, taker, outcome, stopped, raced>>,
           NEW h \in HandType, hand' = [hand EXCEPT ![w] = h], h.job = hand[w].job,
           Travels(h.read, born), h.pc \in {"idle", "off"} => h.job = Placeholder
    PROVE  QueueInv'
<1>t. QueueTypes /\ UnderWay /\ BetweenJobs
  BY DEF QueueInv
<1>1. hand \in [Hands -> HandType]
  BY <1>t DEF QueueTypes, HandType
<1>2. hand' \in [Hands -> HandType] /\ hand'[w] = h /\ \A v \in Hands : v # w => hand'[v] = hand[v]
  BY <1>1
<1>3. \A v \in Hands : hand'[v].job = hand[v].job
  BY <1>2
<1>4. QueueTypes'
  BY <1>t, <1>2 DEF QueueTypes, HandType
<1>5. UnderWay'
  BY <1>t, <1>2, <1>3 DEF UnderWay, Created
<1>6. BetweenJobs'
  BY <1>t, <1>2 DEF BetweenJobs
<1>7. \A j : Holders(j)' = Holders(j)
  BY <1>3 DEF Holders
<1>8. \A j : /\ Awaited(j)' <=> Awaited(j)
             /\ OncePlaced(j)' <=> OncePlaced(j)
             /\ Nowhere(j)' <=> Nowhere(j)
  BY <1>7 DEF Awaited, Created, OncePlaced, Nowhere, WithTaker
<1>9. Accounted => Accounted'
  BY <1>8 DEF Accounted
<1> QED BY <1>4, <1>5, <1>6, <1>9 DEF QueueInv

LEMMA HandFacts ==
    ASSUME QueueInv, NEW w \in Hands
    PROVE  /\ hand \in [Hands -> HandType] /\ hand[w] \in HandType
           /\ Travels(hand[w].read, born)
           /\ \A j \in MessageJobs : TaskCount[j] \in Nat
BY DEF QueueInv, QueueTypes, HandType, UnderWay

LEMMA ExecuteStep == ASSUME QueueInv, NEW w \in Hands, Execute(w) PROVE QueueInv'
<1>p. PICK p : p = IF hand[w].job = Placeholder THEN "reply"
                   ELSE IF TaskCount[hand[w].job] > 1 THEN "read" ELSE "invoke"
  OBVIOUS
<1>l. PICK l : l = IF hand[w].job = Placeholder THEN 0 ELSE TaskCount[hand[w].job] - 1
  OBVIOUS
<1>1. PICK h : h = [hand[w] EXCEPT !.pc = p, !.left = l]
  OBVIOUS
<1>2. hand \in [Hands -> HandType] /\ hand[w] \in HandType /\ Travels(hand[w].read, born)
      /\ \A j \in MessageJobs : TaskCount[j] \in Nat
  BY HandFacts
<1>3. h \in HandType /\ h.job = hand[w].job /\ h.read = hand[w].read /\ h.pc \notin {"idle", "off"}
  <2>1. p \in {"reply", "read", "invoke"}
    BY <1>p
  <2>2. hand[w].job \in Entries
    BY <1>2 DEF HandType
  <2>3. l \in Int
    BY <1>l, <1>2, <2>2
  <2> QED BY <1>1, <1>2, <2>1, <2>3 DEF HandType
<1>4. hand' = [hand EXCEPT ![w] = h]
  BY <1>p, <1>l, <1>1, <1>2 DEF Execute, HandType
<1>5. UNCHANGED <<heap, born, taker, outcome, stopped, raced>>
  BY DEF Execute
<1>6. Travels(h.read, born)
  BY <1>2, <1>3
<1> QED BY <1>3, <1>4, <1>5, <1>6, GoesOn

LEMMA ReadStep == ASSUME QueueInv, NEW w \in Hands, ReadHeap(w) PROVE QueueInv'
<1>1. PICK h : h = [hand[w] EXCEPT !.pc = "write", !.read = heap]
  OBVIOUS
<1>2. hand \in [Hands -> HandType] /\ hand[w] \in HandType
  BY HandFacts
<1>3. heap \in Seq(Entries) /\ Travels(heap, born)
  BY DEF QueueInv, QueueTypes, UnderWay
<1>4. h \in HandType /\ h.job = hand[w].job /\ h.read = heap /\ h.pc \notin {"idle", "off"}
  BY <1>1, <1>2, <1>3 DEF HandType
<1>5. hand' = [hand EXCEPT ![w] = h]
  BY <1>1, <1>2 DEF ReadHeap, HandType
<1>6. UNCHANGED <<heap, born, taker, outcome, stopped, raced>>
  BY DEF ReadHeap
<1>7. Travels(h.read, born)
  BY <1>3, <1>4
<1> QED BY <1>4, <1>5, <1>6, <1>7, GoesOn

LEMMA InvokeStep == ASSUME QueueInv, NEW w \in Hands, Invoke(w) PROVE QueueInv'
<1>1. PICK h : h = [hand[w] EXCEPT !.pc = "reply"]
  OBVIOUS
<1>2. hand \in [Hands -> HandType] /\ hand[w] \in HandType /\ Travels(hand[w].read, born)
  BY HandFacts
<1>3. h \in HandType /\ h.job = hand[w].job /\ h.read = hand[w].read /\ h.pc \notin {"idle", "off"}
  BY <1>1, <1>2 DEF HandType
<1>4. hand' = [hand EXCEPT ![w] = h]
  BY <1>1, <1>2 DEF Invoke, HandType
<1>5. UNCHANGED <<heap, born, taker, outcome, stopped, raced>>
  BY DEF Invoke
<1>6. Travels(h.read, born)
  BY <1>2, <1>3
<1> QED BY <1>3, <1>4, <1>5, <1>6, GoesOn

LEMMA LeaveStep == ASSUME QueueInv, NEW w \in Hands, WorkerLeaves(w) PROVE QueueInv'
<1>1. PICK h : h = [hand[w] EXCEPT !.pc = "off"]
  OBVIOUS
<1>2. hand \in [Hands -> HandType] /\ hand[w] \in HandType /\ Travels(hand[w].read, born)
  BY HandFacts
<1>3. h \in HandType /\ h.job = hand[w].job /\ h.read = hand[w].read
  BY <1>1, <1>2 DEF HandType
<1>4. hand' = [hand EXCEPT ![w] = h]
  BY <1>1, <1>2 DEF WorkerLeaves, HandType
<1>5. hand[w].job = Placeholder
  BY DEF WorkerLeaves, QueueInv, BetweenJobs
<1>6. UNCHANGED <<heap, born, taker, outcome, stopped, raced>>
  BY DEF WorkerLeaves
<1>7. Travels(h.read, born)
  BY <1>2, <1>3
<1> QED BY <1>3, <1>4, <1>5, <1>6, <1>7, GoesOn

\* The request passes from the goroutine to a worker that has none.
LEMMA HandOverStep == ASSUME QueueInv, NEW w \in Hands, HandOver(w) PROVE QueueInv'
<1>t. QueueTypes /\ UnderWay /\ BetweenJobs
  BY DEF QueueInv
<1>u. UNCHANGED <<heap, born, outcome, stopped, raced>>
  BY DEF HandOver
<1>1. PICK h : h = [AtRest EXCEPT !.pc = "execute", !.job = taker.job]
  OBVIOUS
<1>2. hand \in [Hands -> HandType] /\ taker.job \in Entries /\ hand[w].job = Placeholder
  BY <1>t, HandFacts DEF QueueTypes, BetweenJobs, HandOver
<1>3. <<>> \in Seq(Entries)
  BY EmptySeq
<1>4. h \in HandType /\ h.job = taker.job /\ h.read = <<>> /\ h.pc = "execute"
  <2>1. PICK a \in HandType : a = AtRest /\ a.read = <<>>
    BY RestType
  <2>3. h = [a EXCEPT !.pc = "execute", !.job = taker.job]
    BY <1>1, <2>1
  <2> QED BY <1>2, <2>1, <2>3 DEF HandType
<1>5. hand' = [hand EXCEPT ![w] = h]
  BY <1>1 DEF HandOver
<1>6. hand' \in [Hands -> HandType] /\ hand'[w] = h /\ \A v \in Hands : v # w => hand'[v] = hand[v]
  BY <1>2, <1>4, <1>5
<1>7. taker' = [pc |-> "top", job |-> Placeholder]
  BY DEF HandOver
<1>8. QueueTypes'
  BY <1>t, <1>u, <1>6, <1>7 DEF QueueTypes, HandType
<1>9. UnderWay'
  <2>1. Travels(h.read, born)
    BY <1>4 DEF Travels
  <2> QED BY <1>t, <1>u, <1>4, <1>6, <1>7, <2>1 DEF UnderWay, Created
<1>10. BetweenJobs'
  BY <1>t, <1>4, <1>6, <1>7 DEF BetweenJobs
<1>11. ASSUME Accounted PROVE Accounted'
  <2>1. \A j : Awaited(j)' <=> Awaited(j)
    BY <1>u DEF Awaited, Created
  <2>2. \A j \in MessageJobs : ~WithTaker(j)'
    BY <1>7 DEF WithTaker
  <2>3. ASSUME NEW j \in MessageJobs, j # taker.job
        PROVE  (OncePlaced(j) => OncePlaced(j)') /\ (Nowhere(j) => Nowhere(j)')
    <3>1. \A v \in Hands : hand'[v].job = j <=> hand[v].job = j
      BY <1>2, <1>4, <1>6, <2>3
    <3>2. Holders(j)' = Holders(j)
      BY <3>1 DEF Holders
    <3>3. WithTaker(j)' <=> WithTaker(j)
      BY <2>2, <2>3 DEF WithTaker
    <3> QED BY <1>u, <3>2, <3>3, PlacedAsBefore
  <2>4. ASSUME NEW j \in MessageJobs, j = taker.job PROVE Awaited(j) /\ OncePlaced(j)'
    <3>1. WithTaker(j)
      BY <2>4 DEF WithTaker
    <3>2. Awaited(j) /\ Absent(heap, j) /\ Holders(j) = {}
      BY <1>11, <3>1 DEF Accounted, OncePlaced, Nowhere
    <3>3. \A v \in Hands : hand'[v].job = j <=> v = w
      BY <1>4, <1>6, <2>4, <3>2 DEF Holders
    <3>4. Holders(j)' = {w}
      BY <3>3 DEF Holders
    <3> QED BY <1>u, <2>2, <3>2, <3>4 DEF OncePlaced
  <2> QED BY <1>7, <1>11, <2>1, <2>3, <2>4 DEF Accounted
<1> QED BY <1>u, <1>8, <1>9, <1>10, <1>11 DEF QueueInv

\* A placeholder is pushed on the heap the worker read.
LEMMA EmptyJobStep == ASSUME QueueInv, NEW w \in Hands, AddEmptyJob(w) PROVE QueueInv'
<1>t. QueueTypes /\ UnderWay /\ BetweenJobs
  BY DEF QueueInv
<1>u. UNCHANGED <<born, taker, outcome, stopped>>
  BY DEF AddEmptyJob
<1>p. PICK p : p = IF hand[w].left > 1 THEN "read" ELSE "invoke"
  OBVIOUS
<1>q. PICK q : q = hand[w].read
  OBVIOUS
<1>e. PICK e : e = <<>>
  OBVIOUS
<1>1. hand \in [Hands -> HandType] /\ hand[w] \in HandType /\ Travels(q, born) /\ q \in Seq(Entries)
  BY <1>q, HandFacts DEF HandType
<1>2. PICK h : h = [hand[w] EXCEPT !.pc = p, !.left = hand[w].left - 1, !.read = e]
  OBVIOUS
<1>3. h \in HandType /\ h.job = hand[w].job /\ h.read = e /\ h.pc \notin {"idle", "off"}
  <2>1. e \in Seq(Entries) /\ p \in {"read", "invoke"} /\ hand[w].left - 1 \in Int
    BY <1>p, <1>e, <1>1, EmptySeq DEF HandType
  <2> QED BY <1>1, <1>2, <2>1 DEF HandType
<1>4. hand' = [hand EXCEPT ![w] = h]
  BY <1>p, <1>e, <1>1, <1>2 DEF AddEmptyJob, HandType
<1>5. hand' \in [Hands -> HandType] /\ hand'[w] = h /\ \A v \in Hands : v # w => hand'[v] = hand[v]
  BY <1>1, <1>3, <1>4
<1>6. \A v \in Hands : hand'[v].job = hand[v].job
  BY <1>3, <1>5
<1>7. heap' = Push(q, Placeholder) /\ raced' = (raced \/ heap # q)
  BY <1>q DEF AddEmptyJob
<1>8. PICK a : a = Append(q, Placeholder)
  OBVIOUS
<1>9. Travels(a, born')
  <2>1. /\ Len(a) = Len(q) + 1 /\ a[Len(q) + 1] = Placeholder
        /\ \A i \in 1 .. Len(q) : a[i] = q[i]
        /\ a \in Seq(Entries)
    BY <1>1, <1>8, AppendProperties
  <2>2. Len(q) \in Nat /\ DOMAIN q = 1 .. Len(q) /\ DOMAIN a = 1 .. Len(q) + 1
    BY <1>1, <2>1, LenProperties
  <2> QED BY <1>u, <1>1, <2>1, <2>2 DEF Travels
<1>10. heap' \in Seq(Entries) /\ SameBut(heap', q, {Placeholder})
  <2>1. born' \in Seq(MessageJobs)
    BY <1>t, <1>u DEF QueueTypes
  <2> QED BY <1>1, <1>7, <1>8, <1>9, <2>1, PushPlaces
<1>11. QueueTypes'
  BY <1>t, <1>u, <1>5, <1>7, <1>10 DEF QueueTypes, HandType
<1>12. UnderWay'
  <2>1. Travels(heap', born)
    <3>1. \A k \in DOMAIN heap' : ~Absent(heap', heap'[k])
      BY DEF Absent, Spots
    <3>2. \A k \in DOMAIN heap' : heap'[k] = Placeholder \/ ~Absent(q, heap'[k])
      BY <1>10, <3>1 DEF SameBut
    <3>3. \A k \in DOMAIN heap' : heap'[k] = Placeholder \/ \E i \in DOMAIN q : q[i] = heap'[k]
      BY <3>2 DEF Absent, Spots
    <3> QED BY <1>1, <3>3 DEF Travels
  <2>2. Travels(h.read, born)
    BY <1>e, <1>3 DEF Travels
  <2> QED BY <1>t, <1>u, <1>5, <1>6, <2>1, <2>2 DEF UnderWay, Created
<1>13. BetweenJobs'
  BY <1>t, <1>u, <1>3, <1>5 DEF BetweenJobs
<1>14. ASSUME Accounted, heap = q PROVE Accounted'
  <2>1. \A j : /\ Awaited(j)' <=> Awaited(j)
               /\ WithTaker(j)' <=> WithTaker(j)
               /\ Holders(j)' = Holders(j)
    BY <1>u, <1>6 DEF Awaited, Created, WithTaker, Holders
  <2>2. ASSUME NEW j \in MessageJobs
        PROVE  /\ Absent(heap', j) <=> Absent(heap, j)
               /\ (OncePlaced(j) => OncePlaced(j)') /\ (Nowhere(j) => Nowhere(j)')
    <3>1. (Absent(heap', j) <=> Absent(heap, j)) /\ (Single(heap, j) => Single(heap', j))
      BY <1>10, <1>14 DEF SameBut
    <3> QED BY <2>1, <3>1, PlacedAsBefore
  <2>3. taker'.pc = "wait" => \A i \in DOMAIN heap' : heap'[i] = Placeholder
    <3> SUFFICES ASSUME taker.pc = "wait" PROVE \A j \in MessageJobs : Absent(heap', j)
      BY <1>u, <1>10, AllPlaceholders
    <3>1. \A j \in MessageJobs : Absent(heap, j)
      BY <1>14, <1>t, AllPlaceholders DEF Accounted, QueueTypes
    <3> QED BY <2>2, <3>1
  <2> QED BY <1>14, <2>1, <2>2, <2>3 DEF Accounted
<1> QED BY <1>u, <1>7, <1>11, <1>12, <1>13, <1>14 DEF QueueInv

\* The answer is given once, or the context has ended.
LEMMA ReplyStep == ASSUME QueueInv, NEW w \in Hands, Reply(w) PROVE QueueInv'
<1>t. QueueTypes /\ UnderWay /\ BetweenJobs
  BY DEF QueueInv
<1>u. UNCHANGED <<heap, born, taker, stopped, raced>>
  BY DEF Reply
<1>a. ASSUME NEW c \in {"idle", "off"}, NEW h, h = [AtRest EXCEPT !.pc = c],
             hand' = [hand EXCEPT ![w] = h]
      PROVE  /\ hand' \in [Hands -> HandType] /\ Travels(hand'[w].read, born)
             /\ hand'[w].job = Placeholder /\ \A v \in Hands : v # w => hand'[v] = hand[v]
  <2>1. PICK a \in HandType : a = AtRest /\ a.job = Placeholder /\ a.read = <<>>
    BY RestType
  <2>2. h = [a EXCEPT !.pc = c]
    BY <1>a, <2>1
  <2>3. h \in HandType /\ h.read = <<>> /\ h.job = Placeholder
    BY <2>1, <2>2 DEF HandType
  <2>4. hand \in [Hands -> HandType]
    BY HandFacts
  <2>5. Travels(h.read, born)
    BY <2>3 DEF Travels
  <2> QED BY <1>a, <2>3, <2>4, <2>5
<1>1. CASE /\ hand[w].job # Placeholder /\ outcome[hand[w].job] = "none"
           /\ outcome' = [outcome EXCEPT ![hand[w].job] = "sent"]
           /\ hand' = [hand EXCEPT ![w] = AtRest]
  <2>j. PICK j : j = hand[w].job
    OBVIOUS
  <2>0. j \in MessageJobs /\ outcome[j] = "none" /\ outcome' = [outcome EXCEPT ![j] = "sent"] /\ Created(j)
    <3>1. hand[w] \in HandType
      BY HandFacts
    <3>2. hand[w].job \in Entries
      BY <3>1 DEF HandType
    <3> QED BY <1>t, <1>1, <2>j, <3>2 DEF UnderWay
  <2>1. /\ hand' \in [Hands -> HandType] /\ Travels(hand'[w].read, born)
        /\ hand'[w].job = Placeholder /\ \A v \in Hands : v # w => hand'[v] = hand[v]
    <3>1. PICK h : h = [AtRest EXCEPT !.pc = "idle"]
      OBVIOUS
    <3>2. AtRest = h
      BY <3>1 DEF AtRest
    <3> QED BY <1>1, <1>a, <3>1, <3>2
  <2>2. /\ outcome' \in [MessageJobs -> {"none", "failed", "cancelled", "sent"}]
        /\ outcome'[j] = "sent" /\ \A i \in MessageJobs : i # j => outcome'[i] = outcome[i]
    BY <1>t, <2>0 DEF QueueTypes
  <2>3. QueueTypes'
    BY <1>t, <1>u, <2>1, <2>2 DEF QueueTypes, HandType
  <2>4. UnderWay'
    BY <1>t, <1>u, <2>0, <2>1, <2>2 DEF UnderWay, Created
  <2>5. BetweenJobs'
    BY <1>t, <1>u, <2>1 DEF BetweenJobs
  <2>6. ASSUME Accounted PROVE Accounted'
    <3>1. Holders(j) = {w} /\ Absent(heap, j) /\ ~WithTaker(j)
      <4>1. w \in Holders(j) /\ Awaited(j)
        BY <2>j, <2>0 DEF Holders, Awaited
      <4>2. OncePlaced(j)
        BY <2>0, <2>6, <4>1 DEF Accounted
      <4> QED BY <4>1, <4>2 DEF OncePlaced
    <3>2. ~Awaited(j)' /\ Nowhere(j)'
      <4>1. \A v \in Hands : hand'[v].job # j
        BY <2>0, <2>1, <3>1 DEF Holders
      <4>2. Holders(j)' = {}
        BY <4>1 DEF Holders
      <4> QED BY <1>u, <2>2, <3>1, <4>2 DEF Nowhere, Awaited, WithTaker
    <3>3. ASSUME NEW i \in MessageJobs, i # j
          PROVE  /\ Awaited(i)' <=> Awaited(i)
                 /\ (OncePlaced(i) => OncePlaced(i)') /\ (Nowhere(i) => Nowhere(i)')
      <4>1. \A v \in Hands : hand'[v].job = i <=> hand[v].job = i
        BY <2>j, <2>1, <3>3
      <4>2. Holders(i)' = Holders(i) /\ (WithTaker(i)' <=> WithTaker(i))
        BY <1>u, <4>1 DEF Holders, WithTaker
      <4>3. (OncePlaced(i) => OncePlaced(i)') /\ (Nowhere(i) => Nowhere(i)')
        BY <1>u, <4>2, PlacedAsBefore
      <4> QED BY <1>u, <2>2, <3>3, <4>3 DEF Awaited, Created
    <3> QED BY <1>u, <2>6, <3>2, <3>3 DEF Accounted
  <2> QED BY <1>u, <2>3, <2>4, <2>5, <2>6 DEF QueueInv
<1>2. CASE stopped /\ hand' = [hand EXCEPT ![w] = [AtRest EXCEPT !.pc = "off"]] /\ UNCHANGED outcome
  <2>1. /\ hand' \in [Hands -> HandType] /\ Travels(hand'[w].read, born)
        /\ hand'[w].job = Placeholder /\ \A v \in Hands : v # w => hand'[v] = hand[v]
    BY <1>2, <1>a
  <2>2. QueueTypes'
    BY <1>t, <1>u, <1>2, <2>1 DEF QueueTypes, HandType
  <2>3. UnderWay'
    BY <1>t, <1>u, <1>2, <2>1 DEF UnderWay, Created
  <2>4. BetweenJobs'
    BY <1>t, <1>u, <2>1 DEF BetweenJobs
  <2> QED BY <1>u, <1>2, <2>2, <2>3, <2>4 DEF QueueInv
<1> QED BY <1>1, <1>2 DEF Reply

-----------------------------------------------------------------------------
(* The theorem.                                                              *)

LEMMA QueueStep == ASSUME QueueInv, QueueNext PROVE QueueInv'
<1>1. ASSUME NEW j \in MessageJobs, AddJob(j) PROVE QueueInv'
  BY <1>1, RefusedStep, QueuedStep DEF AddJob
<1>2. ASSUME NEW id \in Entries, DeleteQueued(id) PROVE QueueInv'
  BY <1>2, DeleteStep
<1>3. ASSUME NEW S \in SUBSET Entries, DeleteJobFunc(S) PROVE QueueInv'
  BY <1>3, DeleteFuncStep
<1>4. ASSUME NEW w \in Hands, WorkerStep(w) PROVE QueueInv'
  BY <1>4, HandOverStep, ExecuteStep, ReadStep, EmptyJobStep, InvokeStep, ReplyStep, LeaveStep
     DEF WorkerStep
<1> QED BY <1>1, <1>2, <1>3, <1>4, StopStep, TakerStep DEF QueueNext

LEMMA QueueStutter == ASSUME QueueInv, UNCHANGED queueVars PROVE QueueInv'
<1>1. UNCHANGED <<heap, born, taker, hand, outcome, stopped, raced>>
  BY DEF queueVars
<1>2. /\ QueueTypes' <=> QueueTypes
      /\ UnderWay' <=> UnderWay
      /\ BetweenJobs' <=> BetweenJobs
  BY <1>1 DEF QueueTypes, UnderWay, BetweenJobs, Created
<1>3. Accounted' <=> Accounted
  BY <1>1 DEF Accounted, Awaited, Created, OncePlaced, Nowhere, WithTaker, Holders
<1> QED BY <1>1, <1>2, <1>3 DEF QueueInv

\* How many places a job has.
LEMMA PlacesCounted ==
    ASSUME NEW j
    PROVE  /\ Nowhere(j) => Cardinality(Places(j)) = 0
           /\ OncePlaced(j) => Cardinality(Places(j)) = 1
<1>1. \A p : p \in Places(j) <=> \/ \E i \in Spots(heap, j) : p = <<"heap", i>>
                                 \/ WithTaker(j) /\ p = <<"taker", 0>>
                                 \/ \E w \in Holders(j) : p = <<"worker", w>>
  BY DEF Places, Spots, WithTaker, Holders
<1>2. ASSUME Nowhere(j) PROVE Cardinality(Places(j)) = 0
  <2>1. Places(j) = {}
    BY <1>1, <1>2 DEF Nowhere, Absent
  <2> QED BY <2>1, FS_EmptySet
<1>3. ASSUME OncePlaced(j) PROVE Cardinality(Places(j)) = 1
  <2>1. CASE Single(heap, j) /\ ~WithTaker(j) /\ Holders(j) = {}
    <3>1. PICK k : Spots(heap, j) = {k}
      BY <2>1 DEF Single
    <3>2. PICK x : x = <<"heap", k>>
      OBVIOUS
    <3>3. \A p : p \in Places(j) <=> p = x
      BY <1>1, <2>1, <3>1, <3>2
    <3>4. Places(j) = {x}
      BY <3>3
    <3> QED BY <3>4, FS_Singleton
  <2>2. CASE Absent(heap, j) /\ WithTaker(j) /\ Holders(j) = {}
    <3>1. PICK x : x = <<"taker", 0>>
      OBVIOUS
    <3>2. \A p : p \in Places(j) <=> p = x
      BY <1>1, <2>2, <3>1 DEF Absent
    <3>3. Places(j) = {x}
      BY <3>2
    <3> QED BY <3>3, FS_Singleton
  <2>3. CASE Absent(heap, j) /\ ~WithTaker(j) /\ \E w : Holders(j) = {w}
    <3>1. PICK w : Holders(j) = {w}
      BY <2>3
    <3>2. PICK x : x = <<"worker", w>>
      OBVIOUS
    <3>3. \A p : p \in Places(j) <=> p = x
      BY <1>1, <2>3, <3>1, <3>2 DEF Absent
    <3>4. Places(j) = {x}
      BY <3>3
    <3> QED BY <3>4, FS_Singleton
  <2> QED BY <1>3, <2>1, <2>2, <2>3 DEF OncePlaced
<1> QED BY <1>2, <1>3

\* While the context lasts, and unless the push of a placeholder overwrote a
\* change of the heap, a request that waits for its answer is in exactly one
\* place, an answered one in none, and the goroutine that empties the heap
\* never sleeps on a request.
THEOREM QueueSafety == QueueInit /\ [][QueueNext]_queueVars => []NeverForgotten
<1>1. QueueInit => QueueInv
  BY QueueStart
<1>2. QueueInv /\ [QueueNext]_queueVars => QueueInv'
  BY QueueStep, QueueStutter
<1>3. QueueInv => NeverForgotten
  <2> SUFFICES ASSUME QueueInv, ~stopped, ~raced
               PROVE  /\ \A i \in DOMAIN born :
                           Cardinality(Places(born[i])) = IF outcome[born[i]] = "none" THEN 1 ELSE 0
                      /\ taker.pc = "wait" => \A i \in DOMAIN heap : heap[i] = Placeholder
    BY DEF NeverForgotten
  <2>1. Accounted /\ born \in Seq(MessageJobs)
    BY DEF QueueInv, QueueTypes
  <2>2. ASSUME NEW i \in DOMAIN born
        PROVE  Cardinality(Places(born[i])) = IF outcome[born[i]] = "none" THEN 1 ELSE 0
    <3>1. PICK j : j = born[i]
      OBVIOUS
    <3>2. j \in MessageJobs /\ Created(j)
      BY <2>1, <3>1, ElementOfSeq DEF Created
    <3>3. IF outcome[j] = "none" THEN OncePlaced(j) ELSE Nowhere(j)
      BY <2>1, <3>2 DEF Accounted, Awaited
    <3> QED BY <3>1, <3>3, PlacesCounted
  <2> QED BY <2>1, <2>2 DEF Accounted
<1> QED BY <1>1, <1>2, <1>3, PTL

=============================================================================
