------------------------- MODULE OccurrencesProofs -------------------------
(***************************************************************************)
(* Proofs about module Occurrences, for any job definitions, configuration, *)
(* clock and number of failures: no attempt outlives its execution, and     *)
(* what ran is only materialized again as the next occurrence after a run.  *)
(*                                                                          *)
(* What decides the first is stale copies.  The engine acts on executions   *)
(* it listed earlier, and the store refuses what is out of date; the        *)
(* inductive invariant says what a copy still tells about the store, that   *)
(* the execution the timing loop has claimed is nobody else's to move, and  *)
(* that a purge has every attempt of its execution on its list before the   *)
(* execution itself.  What decides the second is time: retention covers the *)
(* window that backfill looks back on.                                      *)
(***************************************************************************)
EXTENDS Occurrences, TLAPS, FiniteSetTheorems, SequenceTheorems, WellFoundedInduction

-----------------------------------------------------------------------------
(* Ranks.                                                                    *)

\* A set that lacks an element of another is smaller.
LEMMA SmallerSet ==
    ASSUME NEW S, NEW T, IsFiniteSet(T), S \subseteq T, NEW x \in T, x \notin S
    PROVE  Cardinality(S) \in Nat /\ Cardinality(T) \in Nat /\ Cardinality(S) + 1 <= Cardinality(T)
<1>1. IsFiniteSet(S) /\ Cardinality(S) \in Nat /\ Cardinality(T) \in Nat
  BY FS_Subset, FS_CardinalityType
<1>2. Cardinality(S \cup {x}) = Cardinality(S) + 1
  BY <1>1, FS_AddElement
<1>3. Cardinality(S \cup {x}) <= Cardinality(T)
  <2>1. S \cup {x} \in SUBSET T
    OBVIOUS
  <2> QED BY <2>1, FS_Subset
<1> QED BY <1>1, <1>2, <1>3

\* A strict total order.
Orders(R, S) ==
    /\ \A x \in S : <<x, x>> \notin R
    /\ \A x, y, z \in S : <<x, y>> \in R /\ <<y, z>> \in R => <<x, z>> \in R
    /\ \A x, y \in S : x = y \/ <<x, y>> \in R \/ <<y, x>> \in R

\* How many come before each.
Ranking(R, S) == [x \in S |-> Cardinality({y \in S : <<y, x>> \in R})]

Counts(rank, S) ==
    /\ Cardinality(S) \in Nat
    /\ \A x \in S : rank[x] \in 0 .. Cardinality(S) - 1
    /\ \A x, y \in S : rank[x] = rank[y] => x = y
    /\ \A r \in 1 .. Cardinality(S) : \E x \in S : rank[x] = r - 1

\* The ranks of a finite set under a strict total order count from 0.
LEMMA RanksCount ==
    ASSUME NEW S, IsFiniteSet(S), NEW R, Orders(R, S), NEW rank, rank = Ranking(R, S)
    PROVE  Counts(rank, S)
<1> USE DEF Orders, Ranking, Counts
<1> DEFINE below == [x \in S |-> {y \in S : <<y, x>> \in R}]
           n == Cardinality(S)
<1>0. n \in Nat
  BY FS_CardinalityType
<1>1. /\ \A x \in S : rank[x] = Cardinality(below[x]) /\ below[x] \subseteq S \ {x} /\ IsFiniteSet(below[x])
      /\ \A x, y \in S : y \in below[x] <=> <<y, x>> \in R
  BY FS_Subset
<1> HIDE DEF below
<1>2. \A x \in S : rank[x] \in 0 .. n - 1
  <2> SUFFICES ASSUME NEW x \in S PROVE rank[x] \in 0 .. n - 1
    OBVIOUS
  <2>1. below[x] \subseteq S /\ x \notin below[x]
    BY <1>1
  <2>2. Cardinality(below[x]) \in Nat /\ Cardinality(below[x]) + 1 <= n
    BY <2>1, SmallerSet
  <2> HIDE DEF n
  <2> QED BY <1>0, <1>1, <2>2
<1>3. \A x, y \in S : <<x, y>> \in R => rank[x] + 1 <= rank[y]
  <2> SUFFICES ASSUME NEW x \in S, NEW y \in S, <<x, y>> \in R PROVE rank[x] + 1 <= rank[y]
    OBVIOUS
  <2>1. below[x] \subseteq below[y] /\ x \in below[y] /\ x \notin below[x]
    BY <1>1
  <2> QED BY <1>1, <2>1, SmallerSet
<1> HIDE DEF n
<1>4. \A x, y \in S : rank[x] = rank[y] => x = y
  <2> SUFFICES ASSUME NEW x \in S, NEW y \in S, x # y PROVE rank[x] # rank[y]
    OBVIOUS
  <2>1. rank[x] \in Int /\ rank[y] \in Int
    BY <1>0, <1>2
  <2>2. rank[x] + 1 <= rank[y] \/ rank[y] + 1 <= rank[x]
    BY <1>3
  <2> QED BY <2>1, <2>2
<1>5. \A r \in 0 .. n - 1 : \E x \in S : rank[x] = r
  <2> DEFINE T == 0 .. n - 1
  <2>1. rank \in Injection(S, T)
    BY <1>2, <1>4 DEF Injection, IsInjective
  <2>2. IsFiniteSet(T) /\ Cardinality(T) = n
    <3>1. CASE n = 0
      <4>1. T = {}
        BY <3>1
      <4> QED BY <3>1, <4>1, FS_EmptySet
    <3>2. CASE n # 0
      BY <1>0, <3>2, FS_Interval
    <3> QED BY <3>1, <3>2
  <2>3. rank \in Surjection(S, T)
    <3> HIDE DEF T
    <3>1. Cardinality(S) = Cardinality(T)
      BY <2>2 DEF n
    <3> QED BY <2>1, <2>2, <3>1, FS_Injection
  <2> QED BY <2>3 DEF Surjection
<1>6. \A r \in 1 .. n : \E x \in S : rank[x] = r - 1
  <2> SUFFICES ASSUME NEW r \in 1 .. n PROVE \E x \in S : rank[x] = r - 1
    OBVIOUS
  <2>1. r - 1 \in 0 .. n - 1
    BY <1>0
  <2> QED BY <1>5, <2>1
<1> QED BY <1>0, <1>2, <1>4, <1>6 DEF n

\* A set of numbers has a least one.
LEMMA LeastNumber ==
    ASSUME NEW S, S \subseteq Nat, S # {}
    PROVE  \E m \in S : \A n \in S : m <= n
<1> DEFINE R == {e \in Nat \X Nat : e[1] < e[2]}
<1>1. IsWellFoundedOn(R, Nat)
  BY NatLessThanWellFounded DEF OpToRel
<1>2. PICK m \in S : \A n \in S : ~(<<n, m>> \in R)
  BY <1>1, WFMin
<1>3. \A n \in S : ~(n < m)
  BY <1>2
<1> QED BY <1>3

-----------------------------------------------------------------------------
(* Instants, lists and plans.                                                *)

\* A finite set of numbers has a greatest one.
LEMMA GreatestNumber ==
    ASSUME NEW S, S \subseteq Nat, S # {}, IsFiniteSet(S)
    PROVE  \E m \in S : \A n \in S : m >= n
<1>1. PICK R : R = {e \in S \X S : e[1] < e[2]}
  OBVIOUS
<1>2. \A x, y \in S : <<x, y>> \in R <=> x < y
  BY <1>1
<1>3. Orders(R, S)
  BY <1>2 DEF Orders
<1>4. PICK rank : rank = Ranking(R, S)
  OBVIOUS
<1>5. Counts(rank, S)
  BY <1>3, <1>4, RanksCount
<1>6. Cardinality(S) \in Nat /\ Cardinality(S) # 0
  BY FS_CardinalityType, FS_EmptySet
<1>7. PICK m \in S : rank[m] = Cardinality(S) - 1
  BY <1>5, <1>6 DEF Counts
<1>8. ASSUME NEW n \in S PROVE m >= n
  <2>1. CASE m < n
    <3>1. PICK below : below = [x \in S |-> {y \in S : <<y, x>> \in R}]
      OBVIOUS
    <3>2. /\ below[m] \subseteq below[n] /\ m \in below[n] /\ m \notin below[m]
          /\ IsFiniteSet(below[n])
          /\ rank[m] = Cardinality(below[m]) /\ rank[n] = Cardinality(below[n])
      <4>1. below[m] = {y \in S : <<y, m>> \in R} /\ below[n] = {y \in S : <<y, n>> \in R}
        BY <3>1
      <4>2. IsFiniteSet(below[n])
        BY <4>1, FS_Subset
      <4>3. \A y \in S : <<y, m>> \in R => <<y, n>> \in R
        BY <1>2, <2>1
      <4>4. rank[m] = Cardinality(below[m]) /\ rank[n] = Cardinality(below[n])
        BY <1>4, <4>1 DEF Ranking
      <4>5. below[m] \subseteq below[n]
        BY <4>1, <4>3
      <4>6. m \in below[n]
        BY <1>2, <2>1, <4>1
      <4>7. m \notin below[m]
        <5>1. ~(m < m)
          BY <1>7
        <5> QED BY <1>2, <4>1, <5>1
      <4> QED BY <4>2, <4>4, <4>5, <4>6, <4>7
    <3>3. rank[m] + 1 <= rank[n]
      BY <3>2, SmallerSet
    <3>4. rank[n] \in 0 .. Cardinality(S) - 1
      BY <1>5 DEF Counts
    <3> QED BY <1>6, <1>7, <3>3, <3>4
  <2> QED BY <2>1
<1> QED BY <1>8

LEMMA HorizonType == Horizon \in Nat /\ Instants \subseteq Nat /\ IsFiniteSet(Instants)
<1>1. PICK S : S = {r.sched.interval : r \in Requests}
  OBVIOUS
<1>2. IsFiniteSet(S)
  <2>1. PICK f : f = [r \in Requests |-> r.sched.interval]
    OBVIOUS
  <2>2. f \in Surjection(Requests, S)
    BY <1>1, <2>1 DEF Surjection
  <2> QED BY <2>2, OccurrencesAssumption, FS_Surjection
<1>3. S \cup {1} \subseteq Nat /\ IsFiniteSet(S \cup {1}) /\ S \cup {1} # {}
  BY <1>1, <1>2, OccurrencesAssumption, FS_AddElement
<1>4. \E m \in S \cup {1} : \A n \in S \cup {1} : m >= n
  <2>1. PICK T : T = S \cup {1}
    OBVIOUS
  <2> QED BY <1>3, <2>1, GreatestNumber
<1>5. Max(S \cup {1}) \in S \cup {1}
  BY <1>4 DEF Max
<1>6. Horizon \in Nat
  BY <1>1, <1>3, <1>5, OccurrencesAssumption DEF Horizon
<1> QED BY <1>6, FS_Interval DEF Instants

\* A list, whatever it lists.
Listing(s) == Len(s) \in Nat /\ s = [i \in 1 .. Len(s) |-> s[i]]

LEMMA MadeListing ==
    ASSUME NEW n \in Nat, NEW s, DOMAIN s = 1 .. n, s = [i \in 1 .. n |-> s[i]]
    PROVE  Listing(s) /\ Len(s) = n
<1>1. PICK T : T = {s[i] : i \in 1 .. n}
  OBVIOUS
<1>2. s \in [1 .. n -> T]
  BY <1>1
<1>3. s \in Seq(T)
  BY <1>2, SeqDef
<1>4. Len(s) = n
  BY <1>3, LenProperties
<1> QED BY <1>4 DEF Listing

LEMMA ListingSeq ==
    ASSUME NEW s, Listing(s)
    PROVE  s \in Seq({s[i] : i \in 1 .. Len(s)}) /\ DOMAIN s = 1 .. Len(s)
<1>1. PICK T : T = {s[i] : i \in 1 .. Len(s)}
  OBVIOUS
<1>2. s \in [1 .. Len(s) -> T] /\ Len(s) \in Nat
  BY <1>1 DEF Listing
<1>3. s \in Seq(T)
  BY <1>2, SeqDef
<1> QED BY <1>1, <1>2, <1>3

LEMMA EmptyListing == Listing(<<>>) /\ Len(<<>>) = 0 /\ DOMAIN <<>> = {}
<1>1. PICK s : s = <<>>
  OBVIOUS
<1>2. s \in Seq({}) /\ Len(s) = 0 /\ DOMAIN s = {}
  BY <1>1, EmptySeq, LenProperties
<1>3. s = [i \in 1 .. Len(s) |-> s[i]]
  BY <1>2
<1> QED BY <1>1, <1>2, <1>3 DEF Listing

\* The rest of a list that is not empty.
LEMMA TailListing ==
    ASSUME NEW s, Listing(s), s # <<>>, NEW t, t = Tail(s)
    PROVE  /\ Listing(t) /\ Len(s) > 0 /\ Len(t) = Len(s) - 1 /\ Head(s) = s[1]
           /\ \A i \in 1 .. Len(s) - 1 : t[i] = s[i + 1] /\ i + 1 \in 1 .. Len(s)
<1>1. PICK T : T = {s[i] : i \in 1 .. Len(s)}
  OBVIOUS
<1>2. s \in Seq(T) /\ DOMAIN s = 1 .. Len(s) /\ Len(s) \in Nat
  BY <1>1, ListingSeq DEF Listing
<1>3. t \in Seq(T) /\ Len(t) = Len(s) - 1 /\ \A i \in 1 .. Len(t) : t[i] = s[i + 1]
  BY <1>2, HeadTailProperties
<1>4. Len(s) > 0
  BY <1>2, EmptySeq
<1>5. DOMAIN t = 1 .. Len(t) /\ t = [i \in 1 .. Len(t) |-> t[i]]
  BY <1>3, LenProperties
<1>6. \A i \in 1 .. Len(s) - 1 : i + 1 \in 1 .. Len(s)
  BY <1>2
<1> QED BY <1>2, <1>3, <1>4, <1>5, <1>6 DEF Listing

\* What a list joined from two others holds.
Joined(u, s, t) ==
    /\ Listing(u) /\ Len(u) = Len(s) + Len(t)
    /\ \A i \in 1 .. Len(s) : u[i] = s[i] /\ i \in 1 .. Len(u)
    /\ \A i \in 1 .. Len(t) : u[Len(s) + i] = t[i] /\ Len(s) + i \in 1 .. Len(u)
    /\ \A i \in 1 .. Len(u) : \/ i \in 1 .. Len(s) /\ u[i] = s[i]
                             \/ \E k \in 1 .. Len(t) : i = Len(s) + k /\ u[i] = t[k]

LEMMA JoinedListing ==
    ASSUME NEW s, NEW t, Listing(s), Listing(t), NEW u, u = s \o t
    PROVE  Joined(u, s, t)
<1>1. PICK T : T = {s[i] : i \in 1 .. Len(s)} \cup {t[i] : i \in 1 .. Len(t)}
  OBVIOUS
<1>2. Len(s) \in Nat /\ Len(t) \in Nat
  BY DEF Listing
<1>3. s \in Seq(T) /\ t \in Seq(T)
  <2>1. s \in [1 .. Len(s) -> T] /\ t \in [1 .. Len(t) -> T]
    BY <1>1 DEF Listing
  <2>2. \A n \in Nat : \A x \in [1 .. n -> T] : x \in Seq(T)
    BY SeqDef
  <2> QED BY <1>2, <2>1, <2>2
<1>4. u \in Seq(T) /\ Len(u) = Len(s) + Len(t)
      /\ \A i \in 1 .. Len(s) + Len(t) : u[i] = IF i <= Len(s) THEN s[i] ELSE t[i - Len(s)]
  BY <1>3, ConcatProperties
<1>5. DOMAIN u = 1 .. Len(u) /\ u = [i \in 1 .. Len(u) |-> u[i]]
  BY <1>4, LenProperties
<1>6. \A i \in 1 .. Len(s) : u[i] = s[i] /\ i \in 1 .. Len(u)
  BY <1>2, <1>4
<1>7. \A i \in 1 .. Len(t) : u[Len(s) + i] = t[i] /\ Len(s) + i \in 1 .. Len(u)
  <2> SUFFICES ASSUME NEW i \in 1 .. Len(t)
               PROVE  u[Len(s) + i] = t[i] /\ Len(s) + i \in 1 .. Len(u)
    OBVIOUS
  <2>1. /\ Len(s) + i \in 1 .. Len(s) + Len(t) /\ ~(Len(s) + i <= Len(s))
        /\ (Len(s) + i) - Len(s) = i
    BY <1>2
  <2> QED BY <1>4, <2>1
<1>8. ASSUME NEW i \in 1 .. Len(u)
      PROVE  \/ i \in 1 .. Len(s) /\ u[i] = s[i]
             \/ \E k \in 1 .. Len(t) : i = Len(s) + k /\ u[i] = t[k]
  <2>1. CASE i <= Len(s)
    BY <1>2, <1>4, <2>1
  <2>2. CASE ~(i <= Len(s))
    <3>1. PICK k \in 1 .. Len(t) : i = Len(s) + k
      BY <1>2, <1>4, <2>2
    <3> QED BY <1>7, <3>1
  <2> QED BY <2>1, <2>2
<1> QED BY <1>4, <1>5, <1>6, <1>7, <1>8 DEF Listing, Joined

\* The list of executions by instant: every position names one, none twice.
LEMMA InOrderLists ==
    ASSUME NEW S, IsFiniteSet(S), \A e \in S : e.at \in Nat,
           \A e, f \in S : e.at = f.at => e = f, NEW s, s = InOrder(S)
    PROVE  /\ Listing(s) /\ \A i \in 1 .. Len(s) : s[i] \in S
           /\ \A i, k \in 1 .. Len(s) : s[i] = s[k] => i = k
<1>1. PICK R : R = {p \in S \X S : p[1].at < p[2].at}
  OBVIOUS
<1>2. \A x, y \in S : <<x, y>> \in R <=> x.at < y.at
  BY <1>1
<1>3. Orders(R, S)
  <2>1. \A x \in S : <<x, x>> \notin R
    BY <1>2
  <2>2. \A x, y, z \in S : <<x, y>> \in R /\ <<y, z>> \in R => <<x, z>> \in R
    BY <1>2
  <2>3. \A x, y \in S : x = y \/ <<x, y>> \in R \/ <<y, x>> \in R
    <3> SUFFICES ASSUME NEW x \in S, NEW y \in S, x # y PROVE <<x, y>> \in R \/ <<y, x>> \in R
      OBVIOUS
    <3>1. x.at \in Nat /\ y.at \in Nat /\ x.at # y.at
      OBVIOUS
    <3>2. x.at < y.at \/ y.at < x.at
      BY <3>1
    <3> QED BY <1>2, <3>2
  <2> QED BY <2>1, <2>2, <2>3 DEF Orders
<1>4. PICK rank : rank = Ranking(R, S)
  OBVIOUS
<1>5. Counts(rank, S)
  BY <1>3, <1>4, RanksCount
<1>6. PICK n \in Nat : n = Cardinality(S)
  BY FS_CardinalityType
<1>7. ASSUME NEW e \in S PROVE Cardinality({o \in S : o.at < e.at}) = rank[e]
  <2>1. {o \in S : o.at < e.at} = {y \in S : <<y, e>> \in R}
    BY <1>2
  <2> QED BY <1>4, <2>1 DEF Ranking
<1>8. ASSUME NEW i \in 1 .. n PROVE s[i] \in S /\ rank[s[i]] = i - 1
  <2>1. s[i] = CHOOSE e \in S : Cardinality({o \in S : o.at < e.at}) = i - 1
    BY <1>6 DEF InOrder
  <2>2. \E e \in S : rank[e] = i - 1
    BY <1>5, <1>6 DEF Counts
  <2>3. \E e \in S : Cardinality({o \in S : o.at < e.at}) = i - 1
    BY <1>7, <2>2
  <2>4. s[i] \in S /\ Cardinality({o \in S : o.at < s[i].at}) = i - 1
    BY <2>1, <2>3
  <2> QED BY <1>7, <2>4
<1>9. Listing(s) /\ Len(s) = n
  <2>1. s = [i \in 1 .. n |-> CHOOSE e \in S : Cardinality({o \in S : o.at < e.at}) = i - 1]
    BY <1>6, Zenon DEF InOrder
  <2>2. PICK g : g = [i \in 1 .. n |-> s[i]]
    OBVIOUS
  <2>3. DOMAIN s = 1 .. n
    BY <2>1
  <2>4. s = g
    BY <2>1, <2>2
  <2>5. DOMAIN s = 1 .. n /\ s = [i \in 1 .. n |-> s[i]]
    BY <2>2, <2>3, <2>4
  <2> QED BY <2>5, MadeListing
<1>10. \A i, k \in 1 .. n : s[i] = s[k] => i = k
  <2> SUFFICES ASSUME NEW i \in 1 .. n, NEW k \in 1 .. n, s[i] = s[k] PROVE i = k
    OBVIOUS
  <2>1. i - 1 = k - 1
    BY <1>8
  <2> QED BY <1>6, <2>1
<1> QED BY <1>8, <1>9, <1>10

LEMMA SequenceOf ==
    ASSUME NEW S, IsFiniteSet(S), NEW s, s = SetToSeq(S)
    PROVE  /\ Listing(s) /\ \A i \in 1 .. Len(s) : s[i] \in S
           /\ \A x \in S : \E i \in 1 .. Len(s) : s[i] = x
<1>1. PICK n \in Nat : n = Cardinality(S) /\ ExistsBijection(1 .. n, S)
  BY FS_CardinalityType
<1>2. \E f \in [1 .. n -> S] : IsInjective(f)
  BY <1>1 DEF ExistsBijection, Bijection, Injection, IsInjective
<1>3. s \in [1 .. n -> S] /\ IsInjective(s)
  BY <1>1, <1>2 DEF SetToSeq
<1>4. s \in Surjection(1 .. n, S)
  <2>1. IsFiniteSet(1 .. n) /\ Cardinality(1 .. n) = n
    <3>1. CASE n = 0
      <4>1. 1 .. n = {}
        BY <3>1
      <4> QED BY <3>1, <4>1, FS_EmptySet
    <3>2. CASE n # 0
      BY <3>2, FS_Interval
    <3> QED BY <3>1, <3>2
  <2>2. PICK D : D = 1 .. n
    OBVIOUS
  <2>3. s \in Injection(D, S)
    BY <1>3, <2>2 DEF Injection
  <2>4. Cardinality(D) = Cardinality(S)
    BY <1>1, <2>1, <2>2
  <2>5. s \in Surjection(D, S)
    BY <2>3, <2>4, FS_Injection
  <2> QED BY <2>2, <2>5
<1>5. Listing(s) /\ Len(s) = n
  BY <1>3, MadeListing
<1> QED BY <1>3, <1>4, <1>5 DEF Surjection

\* A purge: every attempt of the execution, then the execution.
PurgeList(s, e, owned) ==
    /\ Listing(s) /\ Len(s) > 0 /\ s[Len(s)] = DeleteExecution(e)
    /\ \A i \in 1 .. Len(s) - 1 : s[i].op = "deleteAttempt"
    /\ \A a \in owned : \E i \in 1 .. Len(s) - 1 : s[i].attempt = a

LEMMA PurgeLists ==
    ASSUME NEW owned, IsFiniteSet(owned), NEW e, NEW s, s = Purge(e, owned)
    PROVE  PurgeList(s, e, owned)
<1>1. PICK D : D = {DeleteAttempt(a) : a \in owned}
  OBVIOUS
<1>2. IsFiniteSet(D)
  <2>1. PICK f : f = [a \in owned |-> DeleteAttempt(a)]
    OBVIOUS
  <2>2. f \in Surjection(owned, D)
    BY <1>1, <2>1 DEF Surjection
  <2> QED BY <2>2, FS_Surjection
<1>3. PICK t : t = SetToSeq(D)
  OBVIOUS
<1>4. /\ Listing(t) /\ \A i \in 1 .. Len(t) : t[i] \in D
      /\ \A x \in D : \E i \in 1 .. Len(t) : t[i] = x
  BY <1>2, <1>3, SequenceOf
<1>5. PICK u : u = <<DeleteExecution(e)>>
  OBVIOUS
<1>6. Listing(u) /\ Len(u) = 1 /\ u[1] = DeleteExecution(e)
  <2>1. DOMAIN u = 1 .. 1 /\ u[1] = DeleteExecution(e)
    BY <1>5
  <2>2. u = [i \in 1 .. 1 |-> u[i]]
    BY <1>5
  <2> QED BY <2>1, <2>2, MadeListing
<1>7. s = t \o u
  BY <1>1, <1>3, <1>5 DEF Purge
<1>8. /\ Listing(s) /\ Len(s) = Len(t) + 1 /\ s[Len(t) + 1] = u[1]
      /\ \A i \in 1 .. Len(t) : s[i] = t[i]
  <2>1. /\ Listing(s) /\ Len(s) = Len(t) + Len(u)
        /\ \A i \in 1 .. Len(t) : s[i] = t[i]
        /\ \A i \in 1 .. Len(u) : s[Len(t) + i] = u[i]
    <3>1. Joined(s, t, u)
      BY <1>4, <1>6, <1>7, JoinedListing
    <3> QED BY <3>1 DEF Joined
  <2>2. 1 \in 1 .. Len(u)
    BY <1>6
  <2> QED BY <1>6, <2>1, <2>2
<1>9. Len(t) \in Nat /\ Len(s) - 1 = Len(t) /\ Len(s) > 0
  BY <1>4, <1>8 DEF Listing
<1>10. \A x \in D : x.op = "deleteAttempt"
  BY <1>1 DEF DeleteAttempt
<1>11. ASSUME NEW a \in owned PROVE \E i \in 1 .. Len(s) - 1 : s[i].attempt = a
  <2>1. DeleteAttempt(a) \in D /\ DeleteAttempt(a).attempt = a
    BY <1>1 DEF DeleteAttempt
  <2> QED BY <1>4, <1>8, <1>9, <2>1
<1> QED BY <1>4, <1>6, <1>8, <1>9, <1>10, <1>11 DEF PurgeList

-----------------------------------------------------------------------------
(* Schedules: what a materialization makes is a list.                        *)

Sched == [kind : ScheduleKinds, start : Nat, interval : Nat]

LEMMA IntervalType ==
    ASSUME NEW spec \in Sched, HasInterval(spec)
    PROVE  scheduleInterval(spec) \in Nat \ {0}
<1>1. spec.interval \in Nat /\ spec.interval # 0
  BY DEF HasInterval, Sched
<1>2. spec.interval * NanosPerMilli \in Nat \ {0}
  <2>1. PICK a \in Nat \ {0} : a = spec.interval
    BY <1>1
  <2>2. PICK b \in Nat \ {0} : b = NanosPerMilli
    BY OccurrencesAssumption
  <2>3. a * b \in Nat \ {0}
    OBVIOUS
  <2> QED BY <2>1, <2>2, <2>3
<1>3. CASE spec.interval > maxIntervalMillis
  BY <1>3, OccurrencesAssumption DEF scheduleInterval, millisDuration
<1>4. CASE ~(spec.interval > maxIntervalMillis)
  BY <1>2, <1>4 DEF scheduleInterval, millisDuration
<1> QED BY <1>3, <1>4

\* The walk back ends at the latest below the start, and collects nothing that
\* is too old.
LEMMA WalkBackEnds ==
    ASSUME NEW start \in Nat, NEW last \in Int, start <= last, NEW interval \in Nat \ {0},
           NEW maxCount, NEW oldest, NEW count,
           count = WalkBack(start, last, interval, maxCount, oldest)
    PROVE  /\ count \in Nat
           /\ \A m \in 0 .. count - 1 : ~(oldest.exists /\ last - m * interval < oldest.at)
<1> DEFINE K == (last - start) \div interval + 1
           stops(n) == \/ last - n * interval < start
                       \/ maxCount > 0 /\ n >= maxCount
                       \/ oldest.exists /\ last - n * interval < oldest.at
<1>1. K \in Nat /\ last - K * interval < start
  <2>1. PICK d \in Nat : d = last - start
    OBVIOUS
  <2>2. d \div interval \in Nat /\ d % interval \in 0 .. interval - 1
    OBVIOUS
  <2>3. PICK q \in Nat, m \in Nat : q = d \div interval /\ m = d % interval /\ m < interval
    BY <2>2
  <2>4. d = interval * q + m /\ (q + 1) * interval = interval * q + interval
    BY <2>3
  <2>5. PICK x \in Nat : x = interval * q
    BY <2>3
  <2>6. d < x + interval
    BY <2>3, <2>4, <2>5
  <2>7. (q + 1) * interval = x + interval /\ K = q + 1
    BY <2>1, <2>3, <2>4, <2>5
  <2>8. last - (x + interval) < start
    BY <2>1, <2>6
  <2> QED BY <2>3, <2>7, <2>8
<1>2. PICK k \in Nat : k = K
  BY <1>1
<1>3. stops(k)
  BY <1>1, <1>2
<1> HIDE DEF K, stops
<1>4. PICK S : S = {n \in 0 .. k : stops(n)}
  OBVIOUS
<1>5. S \subseteq Nat /\ S # {}
  BY <1>3, <1>4
<1>6. PICK m \in S : \A n \in S : m <= n
  BY <1>5, LeastNumber
<1>7. m \in 0 .. k /\ stops(m) /\ \A n \in 0 .. m - 1 : ~stops(n)
  BY <1>4, <1>6
<1>8. \E n \in 0 .. K : stops(n) /\ \A i \in 0 .. n - 1 : ~stops(i)
  BY <1>2, <1>7
<1>9. count = CHOOSE n \in 0 .. K : stops(n) /\ \A i \in 0 .. n - 1 : ~stops(i)
  BY Zenon DEF WalkBack, K, stops
<1>10. count \in 0 .. K /\ \A i \in 0 .. count - 1 : ~stops(i)
  BY <1>8, <1>9
<1>11. \A i \in 0 .. count - 1 : ~(oldest.exists /\ last - i * interval < oldest.at)
  BY <1>10 DEF stops
<1> QED BY <1>2, <1>10, <1>11

LEMMA OneListing == ASSUME NEW x, NEW s, s = <<x>> PROVE Listing(s) /\ Len(s) = 1 /\ s[1] = x
<1>1. DOMAIN s = 1 .. 1 /\ s[1] = x
  OBVIOUS
<1>2. s = [i \in 1 .. 1 |-> s[i]]
  OBVIOUS
<1> QED BY <1>1, <1>2, MadeListing

\* Instants that are no older than allowed.
Recent(s, until, maxAge) ==
    \A i \in 1 .. Len(s) : s[i] \in Int /\ until <= s[i] + maxAge

LEMMA EmptyRecent == \A until, maxAge : Recent(<<>>, until, maxAge)
<1>1. PICK e : e = <<>>
  OBVIOUS
<1>2. 1 .. Len(e) = {}
  BY <1>1, EmptyListing
<1> QED BY <1>1, <1>2 DEF Recent

LEMMA MissedListing ==
    ASSUME NEW spec \in Sched, NEW until \in Nat, NEW maxCount, NEW maxAge,
           NEW s, s = missedOccurrences(spec, until, maxCount, maxAge).list
    PROVE  /\ Listing(s)
           /\ maxAge \in Nat \ {0} /\ until <= MaxDuration => Recent(s, until, maxAge)
<1>t. spec.start \in Nat /\ until \in Nat
  BY DEF Sched
<1>1. PICK interval : interval = scheduleInterval(spec)
  OBVIOUS
<1>2. PICK elapsed : elapsed = Sub(until, spec.start)
  OBVIOUS
<1>3. PICK last : last = spec.start + (elapsed - (elapsed % interval))
  OBVIOUS
<1>o. PICK oldest : oldest = IF maxAge > 0 THEN Some(until - maxAge) ELSE None
  OBVIOUS
<1>4. PICK count : count = WalkBack(spec.start, last, interval, maxCount, oldest)
  OBVIOUS
<1>5. PICK total : total = occurrenceCount(elapsed \div interval) + 1
  OBVIOUS
<1>6. PICK list : list = [i \in 1 .. count |-> last - (count - i) * interval]
  OBVIOUS
<1>7. s = (CASE spec.start > until -> Missed(<<>>, 0)
             [] spec.start <= until /\ spec.kind = "OneShot" ->
                   IF maxAge > 0 /\ elapsed > maxAge THEN Missed(<<>>, 1)
                   ELSE Missed(<<spec.start>>, 0)
             [] spec.start <= until /\ HasInterval(spec) -> Missed(list, total - count)
             [] OTHER -> Missed(<<>>, 0)).list
  BY <1>1, <1>2, <1>3, <1>o, <1>4, <1>5, <1>6 DEF missedOccurrences
<1>8. \A l, n : Missed(l, n).list = l
  BY DEF Missed
<1>9. CASE spec.start > until
  <2>1. ~(spec.start <= until)
    BY <1>t, <1>9
  <2>2. s = <<>>
    BY <1>7, <1>8, <1>9, <2>1
  <2> QED BY <2>2, EmptyListing, EmptyRecent
<1>10. CASE ~(spec.start > until) /\ spec.kind = "OneShot"
  <2>1. spec.start <= until
    BY <1>t, <1>10
  <2>2. s = <<>> \/ s = <<spec.start>>
    BY <1>7, <1>8, <1>10, <2>1 DEF HasInterval
  <2>3. CASE s = <<>>
    BY <2>3, EmptyListing, EmptyRecent
  <2>4. CASE s # <<>>
    <3>1. s = <<spec.start>> /\ ~(maxAge > 0 /\ elapsed > maxAge)
      BY <1>7, <1>8, <1>10, <2>1, <2>4 DEF HasInterval
    <3>2. PICK x : x = spec.start
      OBVIOUS
    <3>3. Listing(s) /\ Len(s) = 1 /\ s[1] = x
      BY <3>1, <3>2, OneListing
    <3>4. maxAge \in Nat \ {0} /\ until <= MaxDuration => until <= x + maxAge
      BY <1>t, <1>2, <2>1, <3>1, <3>2, OccurrencesAssumption DEF Sub
    <3>5. x \in Int
      BY <1>t, <3>2
    <3> QED BY <3>3, <3>4, <3>5 DEF Recent
  <2> QED BY <2>3, <2>4
<1>11. CASE ~(spec.start > until) /\ HasInterval(spec)
  <2>1. interval \in Nat \ {0}
    BY <1>1, <1>11, IntervalType
  <2>2. elapsed \in Nat
    BY <1>t, <1>2, <1>11, OccurrencesAssumption DEF Sub
  <2>3. last \in Int /\ spec.start <= last
    <3>1. elapsed % interval \in 0 .. interval - 1
      BY <2>1, <2>2
    <3>2. elapsed % interval <= elapsed
      <4>1. PICK q \in Nat, m \in Nat : q = elapsed \div interval /\ m = elapsed % interval
        BY <2>1, <2>2
      <4>2. elapsed = interval * q + m /\ interval * q \in Nat
        BY <2>1, <2>2, <4>1
      <4> QED BY <2>2, <4>1, <4>2
    <3> QED BY <1>t, <1>3, <2>1, <2>2, <3>1, <3>2
  <2>4. /\ count \in Nat
        /\ \A m \in 0 .. count - 1 : ~(oldest.exists /\ last - m * interval < oldest.at)
    BY <1>t, <1>4, <2>1, <2>3, WalkBackEnds
  <2>5. DOMAIN list = 1 .. count /\ list = [i \in 1 .. count |-> list[i]]
    BY <1>6
  <2>6. Listing(list) /\ Len(list) = count
    BY <2>4, <2>5, MadeListing
  <2>8. maxAge \in Nat \ {0} => Recent(list, until, maxAge)
    <3> SUFFICES ASSUME maxAge \in Nat \ {0}, NEW i \in 1 .. Len(list)
                 PROVE  list[i] \in Int /\ until <= list[i] + maxAge
      BY DEF Recent
    <3>1. oldest.exists /\ oldest.at = until - maxAge
      BY <1>o DEF Some
    <3>2. PICK m \in 0 .. count - 1 : m = count - i
      BY <2>4, <2>6
    <3>3. PICK x \in Int : x = m * interval
      BY <2>1, <2>4, <3>2
    <3>4. list[i] = last - x
      BY <1>6, <2>6, <3>2, <3>3
    <3>5. ~(last - x < until - maxAge)
      BY <2>4, <3>1, <3>2, <3>3
    <3> QED BY <1>t, <2>3, <3>4, <3>5
  <2>7. spec.start <= until /\ spec.kind # "OneShot"
    BY <1>t, <1>11 DEF HasInterval
  <2> QED BY <1>7, <1>8, <1>11, <2>6, <2>7, <2>8
<1>12. CASE ~(spec.start > until) /\ spec.kind # "OneShot" /\ ~HasInterval(spec)
  BY <1>7, <1>8, <1>12, EmptyListing, EmptyRecent
<1> QED BY <1>9, <1>10, <1>11, <1>12

LEMMA Division ==
    ASSUME NEW d \in Nat, NEW b \in Nat \ {0}
    PROVE  \E q, x, m \in Nat : /\ q = d \div b /\ x = b * q /\ d = x + m /\ m < b
                               /\ (q + 1) * b = x + b
<1>1. d \div b \in Nat /\ d % b \in 0 .. b - 1
  OBVIOUS
<1>2. PICK q \in Nat, m \in Nat : q = d \div b /\ m = d % b /\ m < b
  BY <1>1
<1>3. d = b * q + m /\ (q + 1) * b = b * q + b
  BY <1>2
<1>4. PICK x \in Nat : x = b * q
  BY <1>2
<1> QED BY <1>2, <1>3, <1>4

\* Unless an instant and the interval after it outgrow a duration, the next
\* occurrence lies in the future.
LEMMA NextLater ==
    ASSUME NEW spec \in Sched, NEW now \in Nat, now + scheduleInterval(spec) <= MaxDuration,
           NEW next, next = nextOccurrence(spec, now), next.exists
    PROVE  next.at \in Int /\ now < next.at
<1>t. spec.start \in Nat /\ MaxDuration \in Nat \ {0}
  BY OccurrencesAssumption DEF Sched
<1>1. \A t : Some(t).at = t
  BY DEF Some
<1>2. CASE spec.start > now
  <2>1. next = Some(spec.start) \/ next = None
    BY <1>2 DEF nextOccurrence
  <2>2. next.at = spec.start
    BY <1>1, <2>1 DEF None
  <2> QED BY <1>t, <1>2, <2>2
<1>3. CASE ~(spec.start > now)
  <2>1. PICK interval : interval = scheduleInterval(spec)
    OBVIOUS
  <2>2. PICK periods : periods = (Sub(now, spec.start) \div interval) + 1
    OBVIOUS
  <2>3. HasInterval(spec) /\ next = Some(spec.start + Wrapped(periods * interval))
    BY <1>3, <2>1, <2>2 DEF nextOccurrence, None, HasInterval
  <2>4. interval \in Nat \ {0}
    BY <2>1, <2>3, IntervalType
  <2>5. PICK d \in Nat : d = now - spec.start /\ d + interval <= MaxDuration
    BY <1>t, <1>3, <2>1, <2>4
  <2>6. Sub(now, spec.start) = d
    BY <1>t, <2>4, <2>5 DEF Sub
  <2>7. PICK q, x, m \in Nat : /\ q = d \div interval /\ x = interval * q /\ d = x + m /\ m < interval
                              /\ (q + 1) * interval = x + interval
    BY <2>4, Division
  <2>10. PICK y \in Nat : y = periods * interval /\ y = x + interval
    <3>1. periods * interval = (q + 1) * interval
      BY <2>2, <2>6, <2>7
    <3> QED BY <2>4, <2>7, <3>1
  <2>11. d < y /\ y <= MaxDuration
    <3>1. d = x + m /\ m < interval /\ y = x + interval /\ d + interval <= MaxDuration
      BY <2>5, <2>7, <2>10
    <3> QED BY <1>t, <2>4, <3>1
  <2>12. Wrapped(y) = y
    <3>1. PICK W \in Nat \ {0} : W = 2 * MaxDuration + 2
      BY <1>t
    <3>2. PICK z \in Nat : z = y + MaxDuration + 1 /\ z < W
      BY <1>t, <2>11, <3>1
    <3>3. z % W = z
      BY <3>1, <3>2
    <3> QED BY <1>t, <3>1, <3>2, <3>3 DEF Wrapped
  <2>13. next.at = spec.start + y
    BY <1>1, <2>3, <2>10, <2>12
  <2> QED BY <1>t, <2>5, <2>11, <2>13
<1> QED BY <1>2, <1>3

\* A list of new occurrences and of what to count as skipped.
Makes(s) == Listing(s) /\ \A i \in 1 .. Len(s) : s[i].op \in {"skip", "create"}

\* What it makes is no older than backfill looks back.
Within(s, now) ==
    \A i \in 1 .. Len(s) : s[i].op = "create" => s[i].at \in Int /\ now <= s[i].at + cfg.maxAge

LEMMA JoinedMakes ==
    ASSUME NEW s, NEW t, Makes(s), Makes(t), NEW u, u = s \o t
    PROVE  Makes(u) /\ \A now : Within(s, now) /\ Within(t, now) => Within(u, now)
<1>1. Joined(u, s, t)
  BY JoinedListing DEF Makes
<1> QED BY <1>1 DEF Joined, Makes, Within

\* Retention never undercuts the window that backfill looks back.
LEMMA ConfigAges ==
    /\ cfg.maxAge \in Nat \ {0} /\ cfg.retention \in Nat /\ cfg.maxAge <= cfg.retention
<1>1. PICK filled : filled = [f \in DOMAIN RawConfig |-> IF RawConfig[f] <= 0 THEN Defaults[f] ELSE RawConfig[f]]
  OBVIOUS
<1>2. /\ RawConfig \in [maxAge : Int, retention : Int, maxCount : Int, batch : Int]
      /\ Defaults \in [maxAge : Nat \ {0}, retention : Nat \ {0}, maxCount : Nat \ {0},
                       batch : Nat \ {0}]
  BY OccurrencesAssumption
<1>3. "maxAge" \in DOMAIN RawConfig /\ "retention" \in DOMAIN RawConfig
  BY <1>2
<1>4. filled.maxAge = (IF RawConfig.maxAge <= 0 THEN Defaults.maxAge ELSE RawConfig.maxAge)
      /\ filled.retention = (IF RawConfig.retention <= 0 THEN Defaults.retention ELSE RawConfig.retention)
      /\ DOMAIN filled = DOMAIN RawConfig
  BY <1>1, <1>3
<1>5. /\ RawConfig.maxAge \in Int /\ RawConfig.retention \in Int
      /\ Defaults.maxAge \in Nat \ {0} /\ Defaults.retention \in Nat \ {0}
  BY <1>2
<1>6. filled.maxAge \in Nat \ {0} /\ filled.retention \in Nat \ {0}
  BY <1>4, <1>5
<1>7. cfg = [filled EXCEPT !.retention = IF @ < filled.maxAge THEN filled.maxAge ELSE @]
  BY <1>1 DEF cfg, normalized
<1>8. /\ cfg.maxAge = filled.maxAge
      /\ cfg.retention = IF filled.retention < filled.maxAge THEN filled.maxAge ELSE filled.retention
  BY <1>3, <1>4, <1>7
<1> QED BY <1>6, <1>8

LEMMA BackfillAge ==
    ASSUME NEW own \in Nat, NEW capped \in Nat \ {0}, NEW age, age = MaxBackfillAge(own, capped)
    PROVE  age \in Nat \ {0} /\ age <= capped
<1>1. millisDuration(own) \in Nat
  <2>1. PICK n \in Nat : n = NanosPerMilli
    BY OccurrencesAssumption
  <2>2. own * n \in Nat
    OBVIOUS
  <2> QED BY <2>1, <2>2, OccurrencesAssumption DEF millisDuration
<1> QED BY <1>1 DEF MaxBackfillAge

\* The interval of a schedule is a natural number, the longest duration at most.
LEMMA IntervalNat ==
    ASSUME NEW spec \in Sched
    PROVE  scheduleInterval(spec) \in Nat
<1>1. PICK i \in Nat : i = spec.interval
  BY DEF Sched
<1>2. PICK n \in Nat : n = NanosPerMilli
  BY OccurrencesAssumption
<1>3. i * n \in Nat
  OBVIOUS
<1> QED BY <1>1, <1>2, <1>3, OccurrencesAssumption DEF scheduleInterval, millisDuration

\* The clock and the interval of a job fit a duration.
Timely(j) ==
    /\ "maxAge" \in DOMAIN j /\ j.maxAge \in Nat
    /\ MaxClock + scheduleInterval(j.sched) <= MaxDuration

LEMMA MaterializeMakes ==
    ASSUME NEW j, j.sched \in Sched, NEW now \in Nat, NEW s, s = Materialize(j, now)
    PROVE  /\ Makes(s)
           /\ Timely(j) /\ now <= MaxClock => Within(s, now)
<1>w. PICK age : age = MaxBackfillAge(j.maxAge, cfg.maxAge)
  OBVIOUS
<1>1. PICK found : found = missedOccurrences(j.sched, now, MaxBackfillCount(j.maxCount, cfg.maxCount), age)
  OBVIOUS
<1>f. PICK fits : fits = (Timely(j) /\ now <= MaxClock)
  OBVIOUS
<1>g. fits => /\ age \in Nat \ {0} /\ age <= cfg.maxAge /\ now <= MaxDuration
              /\ now + scheduleInterval(j.sched) <= MaxDuration
  <2> SUFFICES ASSUME Timely(j), now <= MaxClock
               PROVE  /\ age \in Nat \ {0} /\ age <= cfg.maxAge /\ now <= MaxDuration
                      /\ now + scheduleInterval(j.sched) <= MaxDuration
    BY <1>f
  <2>1. age \in Nat \ {0} /\ age <= cfg.maxAge
    BY <1>w, ConfigAges, BackfillAge DEF Timely
  <2>2. scheduleInterval(j.sched) \in Nat
    BY IntervalNat
  <2> QED BY <2>1, <2>2, OccurrencesAssumption DEF Timely
<1>2. PICK off : off = (resolveBackfill(j.mode) = "disabled")
  OBVIOUS
<1>3. PICK skipped : skipped = found.skipped + (IF off THEN Len(found.list) ELSE 0)
  OBVIOUS
<1>4. PICK missed : missed = IF off THEN <<>> ELSE found.list
  OBVIOUS
<1>5. PICK next : next = nextOccurrence(j.sched, now)
  OBVIOUS
<1>6. PICK a : a = IF skipped > 0 THEN <<Skip(skipped)>> ELSE <<>>
  OBVIOUS
<1>7. PICK b : b = [i \in DOMAIN missed |-> Make(missed[i])]
  OBVIOUS
<1>8. PICK c : c = IF next.exists THEN <<Make(next.at)>> ELSE <<>>
  OBVIOUS
<1>9. s = (a \o b) \o c
  BY <1>w, <1>1, <1>2, <1>3, <1>4, <1>5, <1>6, <1>7, <1>8 DEF Materialize
<1>10. Makes(<<>>) /\ Within(<<>>, now)
  <2>1. PICK e : e = <<>>
    OBVIOUS
  <2>2. Listing(e) /\ 1 .. Len(e) = {}
    BY <2>1, EmptyListing
  <2> QED BY <2>1, <2>2 DEF Makes, Within
<1>11. Makes(a) /\ Within(a, now)
  <2>1. PICK x : x = Skip(skipped)
    OBVIOUS
  <2>2. x.op = "skip"
    BY <2>1 DEF Skip
  <2>3. PICK l : l = <<x>>
    OBVIOUS
  <2>4. Makes(l) /\ Within(l, now)
    BY <2>2, <2>3, OneListing DEF Makes, Within
  <2> QED BY <1>6, <1>10, <2>1, <2>3, <2>4
<1>12. Makes(b) /\ (fits => Within(b, now))
  <2>1. Listing(missed) /\ (fits => Recent(missed, now, age))
    <3>1. PICK list : list = found.list
      OBVIOUS
    <3>2. Listing(list) /\ (fits => Recent(list, now, age))
      BY <1>1, <1>g, <3>1, MissedListing
    <3> QED BY <1>4, <3>1, <3>2, EmptyListing, EmptyRecent
  <2>2. DOMAIN b = 1 .. Len(missed) /\ b = [i \in 1 .. Len(missed) |-> b[i]] /\ Len(missed) \in Nat
    BY <1>7, <2>1, ListingSeq DEF Listing
  <2>3. Listing(b) /\ Len(b) = Len(missed)
    BY <2>2, MadeListing
  <2>4. \A i \in 1 .. Len(b) : b[i].op = "create" /\ b[i].at = missed[i]
    BY <1>7, <2>2, <2>3 DEF Make
  <2>5. fits => Within(b, now)
    <3> SUFFICES ASSUME fits, NEW i \in 1 .. Len(b)
                 PROVE  b[i].at \in Int /\ now <= b[i].at + cfg.maxAge
      BY DEF Within
    <3>1. missed[i] \in Int /\ now <= missed[i] + age
      BY <2>1, <2>3 DEF Recent
    <3>2. PICK x \in Int : x = b[i].at /\ now <= x + age
      BY <2>4, <3>1
    <3> QED BY <1>g, <3>2, ConfigAges
  <2> QED BY <2>3, <2>4, <2>5 DEF Makes
<1>13. Makes(c) /\ (fits => Within(c, now))
  <2>1. PICK x : x = Make(next.at)
    OBVIOUS
  <2>2. x.op = "create" /\ x.at = next.at
    BY <2>1 DEF Make
  <2>3. PICK l : l = <<x>>
    OBVIOUS
  <2>4. Makes(l) /\ Len(l) = 1 /\ l[1] = x
    BY <2>2, <2>3, OneListing DEF Makes
  <2>5. next.exists /\ fits => Within(l, now)
    <3> SUFFICES ASSUME next.exists, fits PROVE Within(l, now)
      OBVIOUS
    <3>1. PICK spec \in Sched : spec = j.sched
      OBVIOUS
    <3>2. next.at \in Int /\ now < next.at
      BY <1>5, <1>g, <3>1, NextLater
    <3>3. x.at \in Int /\ now <= x.at + cfg.maxAge
      BY <2>2, <3>2, ConfigAges
    <3> QED BY <2>4, <3>3 DEF Within
  <2> QED BY <1>8, <1>10, <2>1, <2>3, <2>4, <2>5
<1>14. PICK d : d = a \o b
  OBVIOUS
<1>15. Makes(d) /\ (fits => Within(d, now))
  BY <1>11, <1>12, <1>14, JoinedMakes
<1>16. Makes(s) /\ (fits => Within(s, now))
  BY <1>9, <1>13, <1>14, <1>15, JoinedMakes
<1> QED BY <1>f, <1>16

-----------------------------------------------------------------------------
(* The inductive invariant.                                                  *)

Record == [id : Nat, at : Instants, state : ExecutionStateSet \cup {"Absent"},
           version : Nat, wake : Nat, updated : Nat]

\* The store keeps one execution per instant, under identities of its own.
StoreOK ==
    /\ executions \in [Instants -> Record] /\ lastID \in Nat /\ clock \in Nat
    /\ \A t \in Instants : /\ executions[t].id <= lastID
                           /\ executions[t].id = 0 => executions[t].state = "Absent"
                           /\ executions[t].id # 0 => executions[t].at = t
    /\ \A t, u \in Instants : executions[t].id = executions[u].id => executions[t].id = 0 \/ t = u

AttemptsOK == IsFiniteSet(attempts) /\ (\A a \in attempts : a.of \in 1 .. lastID) /\ AttemptsOwned

\* What a copy tells of the execution it was read from: while the execution is
\* stored it is at the same instant and in no earlier version, in the same
\* state if it is the same version, and settled if the copy is.
Faithful(c) ==
    /\ c.id \in 1 .. lastID /\ c.at \in Instants
    /\ c.version \in Nat /\ c.wake \in Nat /\ c.updated \in Nat
    /\ \A t \in Instants : executions[t].id = c.id =>
          /\ t = c.at /\ c.version <= executions[t].version
          /\ c.version = executions[t].version => executions[t].state = c.state
          /\ c.state \in TerminalStates => executions[t].state \in TerminalStates

JobOK(j) == "sched" \in DOMAIN j /\ j.sched \in Sched

Shaped(l) ==
    /\ l = [pc |-> l.pc, now |-> l.now, job |-> l.job, exec |-> l.exec, todo |-> l.todo,
            plan |-> l.plan]
    /\ Listing(l.plan)

\* The job operations cancel only what nobody had leased.
AdminOK(l) ==
    /\ JobOK(l.job)
    /\ \A i \in 1 .. Len(l.plan) :
          \/ /\ l.plan[i].op = "cancel"
             /\ Faithful(l.plan[i].exec) /\ l.plan[i].exec.state \notin LeasedStates
          \/ l.plan[i].op \in {"skip", "create"}

Held(l) == l.pc \in {"attempt", "deliver"}

\* The timing loop has copies of executions that were due; the one it claimed
\* stays exactly as it claimed it.
TimingOK(l) ==
    /\ \A e \in l.todo : Faithful(e) /\ e.state \in DueStates
    /\ l.pc \in {"cancel", "skip", "claim"} => Faithful(l.exec) /\ l.exec.state \in DueStates
    /\ Held(l) => /\ l.exec.at \in Instants /\ executions[l.exec.at] = l.exec
                  /\ l.exec.id # 0 /\ l.exec.state = "Dispatching"

\* An execution whose lease was found expired is still being dispatched.
Lost(c) ==
    /\ c.at \in Instants /\ c.id # 0
    /\ executions[c.at].id = c.id /\ executions[c.at].state = "Dispatching"

\* A purge in progress has every attempt of its settled execution on the list.
PurgeOK(s) ==
    s # <<>> => \E e : /\ Faithful(e) /\ e.state \in TerminalStates
                       /\ PurgeList(s, e, {a \in attempts : a.of = e.id})

ReconcileOK(l) ==
    /\ l.pc = "reap" => /\ \A i \in 1 .. Len(l.plan) : l.plan[i].op = "abandon" /\ Lost(l.plan[i].exec)
                        /\ \A i, k \in 1 .. Len(l.plan) :
                              l.plan[i].exec.at = l.plan[k].exec.at => i = k
    /\ l.pc = "purge" => /\ \A e \in l.todo : Faithful(e) /\ e.state \in TerminalStates
                         /\ PurgeOK(l.plan)

StartOK(l) ==
    l.pc \in {"recover", "abandon"} =>
        \A i \in 1 .. Len(l.plan) : \/ l.plan[i].op \in {"skip", "create"}
                                    \/ l.plan[i].op = "abandon" /\ l.plan[i].exec.at \in Instants

\* The loops rest while the engine starts.
Resting(s, t, r) == s.pc \in {"recover", "abandon"} => t.pc = "off" /\ r.pc = "off"

\* The reconcile pass leaves alone what the timing loop holds.
NotHeld(t, r) ==
    r.pc = "reap" /\ Held(t) => \A i \in 1 .. Len(r.plan) : r.plan[i].exec.id # t.exec.id

ProcOK ==
    /\ proc = [p \in Goroutines |-> proc[p]] /\ \A p \in Goroutines : Shaped(proc[p])
    /\ AdminOK(proc["admin"]) /\ TimingOK(proc["timing"]) /\ ReconcileOK(proc["reconcile"])
    /\ StartOK(proc["start"])
    /\ Resting(proc["start"], proc["timing"], proc["reconcile"])
    /\ NotHeld(proc["timing"], proc["reconcile"])

LifeInv == StoreOK /\ AttemptsOK /\ JobOK(job) /\ ProcOK

-----------------------------------------------------------------------------
(* What a step of the store may do to one execution.                         *)

StoreMoves ==
    /\ lastID' \in Nat /\ lastID' >= lastID
    /\ \A t \in Instants :
          \/ executions'[t] = executions[t]
          \/ /\ executions'[t].id = executions[t].id
             /\ executions'[t].version \in Nat /\ executions'[t].version > executions[t].version
             /\ executions[t].state \notin TerminalStates
          \/ executions'[t].id = lastID + 1
          \/ executions'[t].id = 0

\* What is being dispatched stays as it is, but for the instants T.
KeepsClaims(T) ==
    \A t \in Instants \ T : executions[t].state = "Dispatching" => executions'[t] = executions[t]

LEMMA FaithfulKept ==
    ASSUME StoreOK, StoreMoves, NEW c, Faithful(c)
    PROVE  Faithful(c)'
<1>1. /\ c.id \in 1 .. lastID /\ c.at \in Instants
      /\ c.version \in Nat /\ c.wake \in Nat /\ c.updated \in Nat
      /\ lastID \in Nat /\ lastID' \in Nat /\ lastID' >= lastID
  BY DEF Faithful, StoreOK, StoreMoves
<1>2. c.id \in 1 .. lastID' /\ c.id # 0 /\ c.id # lastID + 1
  BY <1>1
<1>3. ASSUME NEW t \in Instants, executions'[t].id = c.id
      PROVE  /\ t = c.at /\ c.version <= executions'[t].version
             /\ c.version = executions'[t].version => executions'[t].state = c.state
             /\ c.state \in TerminalStates => executions'[t].state \in TerminalStates
  <2>1. CASE executions'[t] = executions[t]
    BY <1>3, <2>1 DEF Faithful
  <2>2. CASE /\ executions'[t].id = executions[t].id
             /\ executions'[t].version \in Nat /\ executions'[t].version > executions[t].version
             /\ executions[t].state \notin TerminalStates
    <3>1. /\ t = c.at /\ c.version <= executions[t].version
          /\ c.state \notin TerminalStates
      BY <1>3, <2>2 DEF Faithful
    <3>2. executions[t].version \in Nat
      BY DEF StoreOK, Record
    <3>3. c.version <= executions'[t].version /\ c.version # executions'[t].version
      BY <1>1, <2>2, <3>1, <3>2
    <3> QED BY <3>1, <3>3
  <2> QED BY <1>2, <1>3, <2>1, <2>2 DEF StoreMoves
<1> QED BY <1>1, <1>2, <1>3 DEF Faithful

LEMMA AdminKept ==
    ASSUME StoreOK, StoreMoves, NEW l, AdminOK(l)
    PROVE  AdminOK(l)'
<1>1. \A c : Faithful(c) => Faithful(c)'
  BY FaithfulKept
<1> QED BY <1>1 DEF AdminOK

LEMMA TimingKept ==
    ASSUME StoreOK, StoreMoves, NEW T, KeepsClaims(T), NEW l, TimingOK(l), Held(l) => l.exec.at \notin T
    PROVE  TimingOK(l)'
<1>1. \A c : Faithful(c) => Faithful(c)'
  BY FaithfulKept
<1>2. Held(l) => executions'[l.exec.at] = l.exec
  BY DEF TimingOK, KeepsClaims
<1> QED BY <1>1, <1>2 DEF TimingOK, Held

LEMMA ReconcileKept ==
    ASSUME StoreOK, StoreMoves, NEW T, KeepsClaims(T), NEW l, ReconcileOK(l), attempts' \subseteq attempts,
           l.pc = "reap" => \A i \in 1 .. Len(l.plan) : l.plan[i].exec.at \notin T
    PROVE  ReconcileOK(l)'
<1>1. \A c : Faithful(c) => Faithful(c)'
  BY FaithfulKept
<1>2. \A c : Lost(c) /\ c.at \notin T => Lost(c)'
  BY DEF Lost, KeepsClaims
<1>3. PurgeOK(l.plan) => PurgeOK(l.plan)'
  <2> SUFFICES ASSUME PurgeOK(l.plan), l.plan # <<>> PROVE PurgeOK(l.plan)'
    BY DEF PurgeOK
  <2>1. PICK e : /\ Faithful(e) /\ e.state \in TerminalStates
                 /\ PurgeList(l.plan, e, {a \in attempts : a.of = e.id})
    BY DEF PurgeOK
  <2>2. PurgeList(l.plan, e, {a \in attempts' : a.of = e.id})
    BY <2>1 DEF PurgeList
  <2> QED BY <1>1, <2>1, <2>2 DEF PurgeOK
<1> QED BY <1>1, <1>2, <1>3 DEF ReconcileOK

-----------------------------------------------------------------------------
(* The calls of the store.                                                   *)

LEMMA OwnedMeans ==
    AttemptsOwned <=> \A a \in attempts : \E t \in Instants : executions[t].id # 0 /\ executions[t].id = a.of
BY DEF AttemptsOwned, Stored

\* Attempts whose executions are not deleted stay owned.
LEMMA AttemptsKept ==
    ASSUME StoreOK, AttemptsOK, StoreMoves, attempts' \subseteq attempts,
           \A t \in Instants, a \in attempts' :
               executions[t].id # 0 /\ executions[t].id = a.of => executions'[t].id = executions[t].id
    PROVE  AttemptsOK'
<1>1. IsFiniteSet(attempts')
  BY FS_Subset DEF AttemptsOK
<1>2. \A a \in attempts' : a.of \in 1 .. lastID'
  <2>1. lastID \in Nat /\ lastID' \in Nat /\ lastID' >= lastID
    BY DEF StoreOK, StoreMoves
  <2>2. \A a \in attempts' : a.of \in 1 .. lastID
    BY DEF AttemptsOK
  <2> QED BY <2>1, <2>2
<1>3. \A a \in attempts' : \E t \in Instants : executions'[t].id # 0 /\ executions'[t].id = a.of
  BY OwnedMeans DEF AttemptsOK
<1>4. AttemptsOwned'
  BY <1>3 DEF AttemptsOwned, Stored
<1> QED BY <1>1, <1>2, <1>4 DEF AttemptsOK

\* Nothing happens to the store.
LEMMA QuietStep ==
    ASSUME StoreOK, UNCHANGED <<executions, lastID>>, clock' \in Nat
    PROVE  StoreOK' /\ StoreMoves /\ KeepsClaims({})
<1>1. StoreOK'
  BY DEF StoreOK
<1>2. StoreMoves
  BY DEF StoreOK, StoreMoves
<1>3. KeepsClaims({})
  BY DEF KeepsClaims
<1> QED BY <1>1, <1>2, <1>3

LEMMA FromOpen ==
    ASSUME NEW from, NEW to, CanTransition(from, to)
    PROVE  from \notin TerminalStates /\ from # "Absent"
BY DEF CanTransition, Targets, TerminalStates, WaitingStates

\* A version-checked update.
UpdateDone(e, state) ==
    /\ StoreOK' /\ StoreMoves
    /\ \A t \in Instants : executions'[t].id = executions[t].id
    /\ \A t \in Instants \ {e.at} : executions'[t] = executions[t]
    /\ ~Accepts(e, state) => executions' = executions
    /\ Accepts(e, state) => executions'[e.at].state = state /\ executions[e.at].id # 0

LEMMA UpdateStep ==
    ASSUME StoreOK, NEW e, e.at \in Instants, NEW state \in ExecutionStateSet, Update(e, state),
           UNCHANGED <<lastID, clock>>
    PROVE  UpdateDone(e, state)
<1>1. CASE ~Accepts(e, state)
  <2>1. executions' = executions
    BY <1>1 DEF Update
  <2>2. StoreOK' /\ StoreMoves
    <3>1. clock' \in Nat
      BY DEF StoreOK
    <3> QED BY <2>1, <3>1, QuietStep
  <2> QED BY <1>1, <2>1, <2>2 DEF UpdateDone
<1>2. CASE Accepts(e, state)
  <2>1. PICK t0 \in Instants : t0 = e.at
    OBVIOUS
  <2>2. PICK old : old = executions[t0]
    OBVIOUS
  <2>3. /\ executions \in [Instants -> Record] /\ old \in Record /\ clock \in Nat
        /\ lastID \in Nat /\ lastID' = lastID /\ clock' = clock
    BY <2>2 DEF StoreOK
  <2>4. PICK new : new = [old EXCEPT !.state = state, !.version = @ + 1,
                                     !.wake = IF state \in DueStates THEN clock ELSE 0,
                                     !.updated = IF state \in TerminalStates THEN clock ELSE 0]
    OBVIOUS
  <2>5. executions' = [executions EXCEPT ![t0] = new]
    BY <1>2, <2>1, <2>2, <2>4, Zenon DEF Update
  <2>6. /\ new \in Record /\ new.id = old.id /\ new.at = old.at /\ new.state = state
        /\ new.version = old.version + 1 /\ old.version \in Nat
    <3>1. PICK w \in Nat : w = IF state \in DueStates THEN clock ELSE 0
      BY <2>3
    <3>2. PICK u \in Nat : u = IF state \in TerminalStates THEN clock ELSE 0
      BY <2>3
    <3>3. new = [old EXCEPT !.state = state, !.version = @ + 1, !.wake = w, !.updated = u]
      BY <2>4, <3>1, <3>2, Zenon
    <3>4. /\ old.id \in Nat /\ old.at \in Instants /\ old.version \in Nat
          /\ old = [id |-> old.id, at |-> old.at, state |-> old.state, version |-> old.version,
                    wake |-> old.wake, updated |-> old.updated]
      BY <2>3 DEF Record
    <3>5. new = [id |-> old.id, at |-> old.at, state |-> state, version |-> old.version + 1,
                 wake |-> w, updated |-> u]
      BY <3>3, <3>4
    <3>6. PICK v \in Nat : v = old.version + 1
      BY <3>4
    <3>7. new \in Record
      BY <3>1, <3>2, <3>4, <3>5, <3>6 DEF Record
    <3> QED BY <3>4, <3>5, <3>7
  <2>7. executions'[t0] = new /\ \A t \in Instants \ {t0} : executions'[t] = executions[t]
    BY <2>3, <2>5
  <2>8. executions' \in [Instants -> Record]
    BY <2>3, <2>5, <2>6
  <2>9. old.state \notin TerminalStates /\ old.state # "Absent" /\ old.id # 0
    <3>1. CanTransition(old.state, state)
      BY <1>2, <2>1, <2>2 DEF Accepts
    <3>2. old.state \notin TerminalStates /\ old.state # "Absent"
      BY <3>1, FromOpen
    <3> QED BY <2>2, <3>2 DEF StoreOK
  <2>10. \A t \in Instants : executions'[t].id = executions[t].id /\ executions'[t].at = executions[t].at
    BY <2>2, <2>6, <2>7
  <2>11. StoreOK'
    <3>1. \A t \in Instants : /\ executions'[t].id <= lastID'
                              /\ executions'[t].id = 0 => executions'[t].state = "Absent"
                              /\ executions'[t].id # 0 => executions'[t].at = t
      <4> SUFFICES ASSUME NEW t \in Instants
                   PROVE  /\ executions'[t].id <= lastID'
                          /\ executions'[t].id = 0 => executions'[t].state = "Absent"
                          /\ executions'[t].id # 0 => executions'[t].at = t
        OBVIOUS
      <4>1. /\ executions[t].id <= lastID
            /\ executions[t].id = 0 => executions[t].state = "Absent"
            /\ executions[t].id # 0 => executions[t].at = t
        BY DEF StoreOK
      <4>2. executions'[t].id = 0 => t # t0
        BY <2>2, <2>9, <2>10
      <4> QED BY <2>3, <2>7, <2>10, <4>1, <4>2
    <3>2. \A t, u \in Instants : executions'[t].id = executions'[u].id => executions'[t].id = 0 \/ t = u
      BY <2>10 DEF StoreOK
    <3> QED BY <2>3, <2>8, <3>1, <3>2 DEF StoreOK
  <2>12. StoreMoves
    <3>1. executions'[t0].version \in Nat /\ executions'[t0].version > executions[t0].version
      BY <2>2, <2>6, <2>7
    <3>2. lastID' \in Nat /\ lastID' >= lastID
      BY <2>3
    <3> QED BY <2>2, <2>7, <2>9, <2>10, <3>1, <3>2 DEF StoreMoves
  <2> QED BY <1>2, <2>1, <2>2, <2>6, <2>7, <2>9, <2>10, <2>11, <2>12 DEF UpdateDone
<1> QED BY <1>1, <1>2

\* The update of a copy that was not being dispatched leaves alone whatever is.
LEMMA StaleUpdate ==
    ASSUME StoreOK, NEW e, Faithful(e), e.state # "Dispatching",
           NEW state \in ExecutionStateSet, Update(e, state), UNCHANGED <<lastID, clock>>
    PROVE  /\ StoreOK' /\ StoreMoves /\ KeepsClaims({})
           /\ \A t \in Instants : executions'[t].id = executions[t].id
<1>1. e.at \in Instants
  BY DEF Faithful
<1>2. UpdateDone(e, state)
  BY <1>1, UpdateStep
<1>3. KeepsClaims({})
  <2>1. CASE ~Accepts(e, state)
    BY <1>2, <2>1 DEF UpdateDone, KeepsClaims
  <2>2. CASE Accepts(e, state)
    <3>1. executions[e.at].state = e.state
      BY <1>1, <2>2 DEF Accepts, Faithful
    <3> QED BY <1>2, <3>1 DEF UpdateDone, KeepsClaims
  <2> QED BY <2>1, <2>2
<1> QED BY <1>2, <1>3 DEF UpdateDone

LEMMA CreateStep ==
    ASSUME StoreOK, NEW t0, Create(t0), clock' = clock
    PROVE  /\ StoreOK' /\ StoreMoves /\ KeepsClaims({})
           /\ \A t \in Instants : executions[t].id # 0 => executions'[t] = executions[t]
<1>t. /\ executions \in [Instants -> Record] /\ lastID \in Nat /\ clock \in Nat
      /\ Instants \subseteq Nat
  BY HorizonType DEF StoreOK
<1>1. CASE ~CanCreate(t0)
  <2>1. UNCHANGED <<executions, lastID>>
    BY <1>1 DEF Create
  <2> QED BY <1>t, <2>1, QuietStep
<1>2. CASE CanCreate(t0)
  <2>1. PICK new : new = [id |-> lastID + 1, at |-> t0, state |-> "Scheduled", version |-> 1,
                          wake |-> t0, updated |-> 0]
    OBVIOUS
  <2>2. lastID' = lastID + 1 /\ executions' = [executions EXCEPT ![t0] = new] /\ executions[t0].id = 0
    BY <1>2, <2>1 DEF Create, CanCreate
  <2>3. t0 \in Instants => new \in Record
    BY <1>t, <2>1 DEF Record, ExecutionStateSet, DueStates
  <2>4. executions' \in [Instants -> Record]
    BY <1>t, <2>2, <2>3
  <2>5. \A t \in Instants : executions'[t] = IF t = t0 THEN new ELSE executions[t]
    BY <1>t, <2>2
  <2>6. lastID' \in Nat /\ lastID' >= lastID /\ new.id = lastID' /\ new.id # 0 /\ new.at = t0
    BY <1>t, <2>1, <2>2
  <2>7. \A t \in Instants : executions[t].id \in Nat /\ executions[t].id <= lastID
    BY DEF StoreOK, Record
  <2>8. \A t \in Instants : executions[t].id # new.id
    BY <1>t, <2>2, <2>6, <2>7
  <2>9. \A t \in Instants : executions[t].id # 0 => executions'[t] = executions[t]
    BY <2>2, <2>5
  <2>10. StoreOK'
    <3>1. \A t \in Instants : /\ executions'[t].id <= lastID'
                              /\ executions'[t].id = 0 => executions'[t].state = "Absent"
                              /\ executions'[t].id # 0 => executions'[t].at = t
      <4> SUFFICES ASSUME NEW t \in Instants
                   PROVE  /\ executions'[t].id <= lastID'
                          /\ executions'[t].id = 0 => executions'[t].state = "Absent"
                          /\ executions'[t].id # 0 => executions'[t].at = t
        OBVIOUS
      <4>1. CASE t = t0
        BY <2>5, <2>6, <4>1
      <4>2. CASE t # t0
        <5>1. /\ executions[t].id <= lastID
              /\ executions[t].id = 0 => executions[t].state = "Absent"
              /\ executions[t].id # 0 => executions[t].at = t
          BY DEF StoreOK
        <5> QED BY <1>t, <2>2, <2>5, <2>7, <4>2, <5>1
      <4> QED BY <4>1, <4>2
    <3>2. \A t, u \in Instants : executions'[t].id = executions'[u].id => executions'[t].id = 0 \/ t = u
      BY <2>5, <2>8 DEF StoreOK
    <3>3. clock' \in Nat
      BY <1>t
    <3> QED BY <2>4, <2>6, <3>1, <3>2, <3>3 DEF StoreOK
  <2>11. StoreMoves
    BY <2>2, <2>5, <2>6 DEF StoreMoves
  <2>12. KeepsClaims({})
    <3>1. \A t \in Instants : executions[t].state = "Dispatching" => executions[t].id # 0
      BY DEF StoreOK
    <3> QED BY <2>9, <3>1 DEF KeepsClaims
  <2> QED BY <2>9, <2>10, <2>11, <2>12
<1> QED BY <1>1, <1>2

LEMMA DeleteStep ==
    ASSUME StoreOK, NEW e, e.at \in Instants,
           executions[e.at].id = e.id => executions[e.at].state \in TerminalStates,
           executions' = IF executions[e.at].id = e.id
                         THEN [executions EXCEPT ![e.at] = NoExecution] ELSE executions,
           UNCHANGED <<lastID, clock>>
    PROVE  /\ StoreOK' /\ StoreMoves /\ KeepsClaims({})
           /\ \A t \in Instants : executions[t].id # e.id => executions'[t] = executions[t]
<1>t. executions \in [Instants -> Record] /\ lastID \in Nat /\ clock \in Nat
  BY DEF StoreOK
<1>1. CASE executions[e.at].id # e.id
  BY <1>t, <1>1, QuietStep
<1>2. CASE executions[e.at].id = e.id
  <2>1. executions' = [executions EXCEPT ![e.at] = NoExecution]
    BY <1>2
  <2>2. NoExecution \in Record /\ NoExecution.id = 0 /\ NoExecution.state = "Absent"
    <3>1. 0 \in Instants
      BY HorizonType DEF Instants
    <3> QED BY <3>1 DEF NoExecution, Record
  <2>3. executions' \in [Instants -> Record]
    BY <1>t, <2>1, <2>2
  <2>4. \A t \in Instants : executions'[t] = IF t = e.at THEN NoExecution ELSE executions[t]
    BY <1>t, <2>1
  <2>5. StoreOK'
    <3>1. \A t \in Instants : /\ executions'[t].id <= lastID'
                              /\ executions'[t].id = 0 => executions'[t].state = "Absent"
                              /\ executions'[t].id # 0 => executions'[t].at = t
      BY <1>t, <2>2, <2>4 DEF StoreOK
    <3>2. \A t, u \in Instants : executions'[t].id = executions'[u].id => executions'[t].id = 0 \/ t = u
      BY <2>2, <2>4 DEF StoreOK
    <3> QED BY <1>t, <2>3, <3>1, <3>2 DEF StoreOK
  <2>6. StoreMoves
    BY <1>t, <2>2, <2>4 DEF StoreMoves
  <2>7. KeepsClaims({})
    <3>1. executions[e.at].state # "Dispatching"
      BY <1>2 DEF TerminalStates
    <3> QED BY <2>4, <3>1 DEF KeepsClaims
  <2> QED BY <1>2, <2>4, <2>5, <2>6, <2>7
<1> QED BY <1>1, <1>2

-----------------------------------------------------------------------------
(* The steps of the goroutines, put together.                                *)

\* What a step leaves of the store, with the instants whose claims it touches.
Sound(T) ==
    /\ StoreOK' /\ AttemptsOK' /\ JobOK(job)'
    /\ StoreMoves /\ KeepsClaims(T) /\ attempts' \subseteq attempts

LEMMA ProcHolds ==
    ASSUME NEW a, NEW t, NEW r, NEW s,
           proc' = [p \in Goroutines |-> proc'[p]],
           proc'["admin"] = a, proc'["timing"] = t, proc'["reconcile"] = r, proc'["start"] = s,
           Shaped(a), Shaped(t), Shaped(r), Shaped(s),
           AdminOK(a)', TimingOK(t)', ReconcileOK(r)', StartOK(s), Resting(s, t, r), NotHeld(t, r)
    PROVE  ProcOK'
<1>1. \A p \in Goroutines : Shaped(proc[p])'
  BY DEF Goroutines, Loops, Shaped, Listing
<1>2. AdminOK(proc["admin"])'
  BY DEF AdminOK, Faithful
<1>3. TimingOK(proc["timing"])'
  BY DEF TimingOK, Faithful, Held
<1>4. ReconcileOK(proc["reconcile"])'
  <2>1. PurgeOK(r.plan)' => PurgeOK(proc["reconcile"].plan)'
    BY DEF PurgeOK, Faithful
  <2>2. r.pc = "purge" => /\ \A e \in r.todo : Faithful(e)' /\ e.state \in TerminalStates
                          /\ PurgeOK(proc["reconcile"].plan)'
    BY <2>1 DEF ReconcileOK
  <2>3. r.pc = "reap" => /\ \A i \in 1 .. Len(r.plan) : r.plan[i].op = "abandon" /\ Lost(r.plan[i].exec)'
                         /\ \A i, k \in 1 .. Len(r.plan) :
                               r.plan[i].exec.at = r.plan[k].exec.at => i = k
    BY DEF ReconcileOK
  <2> QED BY <2>2, <2>3 DEF ReconcileOK, Faithful, Lost
<1>5. StartOK(proc["start"])'
  BY DEF StartOK
<1>6. Resting(proc["start"], proc["timing"], proc["reconcile"])'
  BY DEF Resting
<1>7. NotHeld(proc["timing"], proc["reconcile"])'
  BY DEF NotHeld, Held
<1> QED BY <1>1, <1>2, <1>3, <1>4, <1>5, <1>6, <1>7 DEF ProcOK

LEMMA AdminActs ==
    ASSUME LifeInv, NEW m, proc' = [proc EXCEPT !["admin"] = m], Shaped(m), AdminOK(m)', Sound({})
    PROVE  LifeInv'
<1>1. PICK t : t = proc["timing"]
  OBVIOUS
<1>2. PICK r : r = proc["reconcile"]
  OBVIOUS
<1>3. PICK s : s = proc["start"]
  OBVIOUS
<1>4. /\ Shaped(t) /\ Shaped(r) /\ Shaped(s) /\ TimingOK(t) /\ ReconcileOK(r)
      /\ StartOK(s) /\ Resting(s, t, r) /\ NotHeld(t, r)
  BY <1>1, <1>2, <1>3 DEF LifeInv, ProcOK, Goroutines, Loops
<1>5. /\ proc' = [p \in Goroutines |-> proc'[p]]
      /\ proc'["admin"] = m /\ proc'["timing"] = t /\ proc'["reconcile"] = r /\ proc'["start"] = s
  BY <1>1, <1>2, <1>3 DEF LifeInv, ProcOK, Goroutines, Loops
<1>6. StoreOK /\ StoreMoves /\ KeepsClaims({}) /\ attempts' \subseteq attempts
  BY DEF LifeInv, Sound
<1>7. TimingOK(t)'
  BY <1>4, <1>6, TimingKept
<1>8. ReconcileOK(r)'
  BY <1>4, <1>6, ReconcileKept
<1>9. ProcOK'
  BY <1>4, <1>5, <1>7, <1>8, ProcHolds
<1> QED BY <1>9 DEF LifeInv, Sound

LEMMA TimingActs ==
    ASSUME LifeInv, NEW m, proc' = [proc EXCEPT !["timing"] = m], Shaped(m), TimingOK(m)',
           NEW T, Sound(T),
           proc["reconcile"].pc = "reap" =>
              \A i \in 1 .. Len(proc["reconcile"].plan) : proc["reconcile"].plan[i].exec.at \notin T,
           Resting(proc["start"], m, proc["reconcile"]), NotHeld(m, proc["reconcile"])
    PROVE  LifeInv'
<1>1. PICK a : a = proc["admin"]
  OBVIOUS
<1>2. PICK r : r = proc["reconcile"]
  OBVIOUS
<1>3. PICK s : s = proc["start"]
  OBVIOUS
<1>4. /\ Shaped(a) /\ Shaped(r) /\ Shaped(s) /\ AdminOK(a) /\ ReconcileOK(r)
      /\ StartOK(s) /\ Resting(s, m, r) /\ NotHeld(m, r)
  BY <1>1, <1>2, <1>3 DEF LifeInv, ProcOK, Goroutines, Loops
<1>5. /\ proc' = [p \in Goroutines |-> proc'[p]]
      /\ proc'["admin"] = a /\ proc'["timing"] = m /\ proc'["reconcile"] = r /\ proc'["start"] = s
  BY <1>1, <1>2, <1>3 DEF LifeInv, ProcOK, Goroutines, Loops
<1>6. StoreOK /\ StoreMoves /\ KeepsClaims(T) /\ attempts' \subseteq attempts
  BY DEF LifeInv, Sound
<1>7. AdminOK(a)'
  BY <1>4, <1>6, AdminKept
<1>8. ReconcileOK(r)'
  BY <1>2, <1>4, <1>6, ReconcileKept
<1>9. ProcOK'
  BY <1>4, <1>5, <1>7, <1>8, ProcHolds
<1> QED BY <1>9 DEF LifeInv, Sound

LEMMA ReconcileActs ==
    ASSUME LifeInv, NEW m, proc' = [proc EXCEPT !["reconcile"] = m], Shaped(m), ReconcileOK(m)',
           NEW T, Sound(T), Held(proc["timing"]) => proc["timing"].exec.at \notin T,
           Resting(proc["start"], proc["timing"], m), NotHeld(proc["timing"], m)
    PROVE  LifeInv'
<1>1. PICK a : a = proc["admin"]
  OBVIOUS
<1>2. PICK t : t = proc["timing"]
  OBVIOUS
<1>3. PICK s : s = proc["start"]
  OBVIOUS
<1>4. /\ Shaped(a) /\ Shaped(t) /\ Shaped(s) /\ AdminOK(a) /\ TimingOK(t)
      /\ StartOK(s) /\ Resting(s, t, m) /\ NotHeld(t, m)
  BY <1>1, <1>2, <1>3 DEF LifeInv, ProcOK, Goroutines, Loops
<1>5. /\ proc' = [p \in Goroutines |-> proc'[p]]
      /\ proc'["admin"] = a /\ proc'["timing"] = t /\ proc'["reconcile"] = m /\ proc'["start"] = s
  BY <1>1, <1>2, <1>3 DEF LifeInv, ProcOK, Goroutines, Loops
<1>6. StoreOK /\ StoreMoves /\ KeepsClaims(T)
  BY DEF LifeInv, Sound
<1>7. AdminOK(a)'
  BY <1>4, <1>6, AdminKept
<1>8. TimingOK(t)'
  BY <1>2, <1>4, <1>6, TimingKept
<1>9. ProcOK'
  BY <1>4, <1>5, <1>7, <1>8, ProcHolds
<1> QED BY <1>9 DEF LifeInv, Sound

\* While the engine starts the loops are off, and any claim may be touched.
LEMMA StartActs ==
    ASSUME LifeInv, NEW m, proc' = [proc EXCEPT !["start"] = m], Shaped(m), StartOK(m),
           NEW T, Sound(T), proc["timing"].pc = "off", proc["reconcile"].pc = "off"
    PROVE  LifeInv'
<1>1. PICK a : a = proc["admin"]
  OBVIOUS
<1>2. PICK t : t = proc["timing"]
  OBVIOUS
<1>3. PICK r : r = proc["reconcile"]
  OBVIOUS
<1>4. Shaped(a) /\ Shaped(t) /\ Shaped(r) /\ AdminOK(a) /\ TimingOK(t) /\ ReconcileOK(r)
  BY <1>1, <1>2, <1>3 DEF LifeInv, ProcOK, Goroutines, Loops
<1>5. /\ proc' = [p \in Goroutines |-> proc'[p]]
      /\ proc'["admin"] = a /\ proc'["timing"] = t /\ proc'["reconcile"] = r /\ proc'["start"] = m
  BY <1>1, <1>2, <1>3 DEF LifeInv, ProcOK, Goroutines, Loops
<1>6. StoreOK /\ StoreMoves /\ KeepsClaims(T) /\ attempts' \subseteq attempts
  BY DEF LifeInv, Sound
<1>7. AdminOK(a)'
  BY <1>4, <1>6, AdminKept
<1>8. TimingOK(t)'
  <2>1. ~Held(t)
    BY <1>2 DEF Held
  <2> QED BY <1>4, <1>6, <2>1, TimingKept
<1>9. ReconcileOK(r)'
  BY <1>3, <1>4, <1>6, ReconcileKept
<1>10. Resting(m, t, r) /\ NotHeld(t, r)
  BY <1>2, <1>3 DEF Resting, NotHeld
<1>11. ProcOK'
  BY <1>4, <1>5, <1>7, <1>8, <1>9, <1>10, ProcHolds
<1> QED BY <1>11 DEF LifeInv, Sound

\* A step of the store alone.
LEMMA StoreActs ==
    ASSUME LifeInv, proc' = proc, Sound({})
    PROVE  LifeInv'
<1>1. PICK m : m = proc["admin"]
  OBVIOUS
<1>2. proc' = [proc EXCEPT !["admin"] = m] /\ Shaped(m) /\ AdminOK(m)
  BY <1>1 DEF LifeInv, ProcOK, Goroutines, Loops
<1>3. AdminOK(m)'
  <2>1. StoreOK /\ StoreMoves
    BY DEF LifeInv, Sound
  <2> QED BY <1>2, <2>1, AdminKept
<1> QED BY <1>2, <1>3, AdminActs

-----------------------------------------------------------------------------
(* What the goroutines read and plan.                                        *)

\* What is listed from the store is true of it.
LEMMA StoredFaithful ==
    ASSUME StoreOK
    PROVE  /\ IsFiniteSet(Stored)
           /\ \A e \in Stored : Faithful(e) /\ e.at \in Instants /\ e.id # 0 /\ executions[e.at] = e
           /\ \A e, f \in Stored : e.at = f.at => e = f
<1>t. /\ executions \in [Instants -> Record] /\ lastID \in Nat
      /\ \A t \in Instants : /\ executions[t].id <= lastID
                             /\ executions[t].id # 0 => executions[t].at = t
      /\ \A t, u \in Instants : executions[t].id = executions[u].id => executions[t].id = 0 \/ t = u
  BY DEF StoreOK
<1>1. \A e \in Stored : e.at \in Instants /\ e.id # 0 /\ executions[e.at] = e
  BY <1>t DEF Stored
<1>2. ASSUME NEW e \in Stored
      PROVE  Faithful(e)
  <2>1. e.at \in Instants /\ e.id # 0 /\ executions[e.at] = e
    BY <1>1
  <2>2. e \in Record /\ e.id <= lastID
    BY <1>t, <2>1
  <2>3. /\ e.id \in 1 .. lastID /\ e.version \in Nat /\ e.wake \in Nat /\ e.updated \in Nat
    BY <1>t, <2>1, <2>2 DEF Record
  <2>4. \A t \in Instants : executions[t].id = e.id => t = e.at /\ executions[t] = e
    BY <1>t, <2>1
  <2>5. e.version <= e.version
    BY <2>3
  <2> QED BY <2>1, <2>3, <2>4, <2>5 DEF Faithful
<1>3. IsFiniteSet(Stored)
  <2>1. PICK U : U = {u \in Instants : executions[u].id # 0}
    OBVIOUS
  <2>2. IsFiniteSet(U)
    BY <2>1, HorizonType, FS_Subset
  <2>3. PICK f : f = [u \in U |-> executions[u]]
    OBVIOUS
  <2>4. Stored = {executions[u] : u \in U}
    BY <2>1 DEF Stored
  <2>5. f \in Surjection(U, Stored)
    BY <2>3, <2>4 DEF Surjection
  <2> QED BY <2>2, <2>5, FS_Surjection
<1> QED BY <1>1, <1>2, <1>3

\* A listing of stored executions, no two at the same instant.
Copies(s) ==
    /\ Listing(s)
    /\ \A i \in 1 .. Len(s) : s[i] \in Stored
    /\ \A i, k \in 1 .. Len(s) : s[i].at = s[k].at => i = k

LEMMA CopiesInOrder ==
    ASSUME StoreOK, NEW S, S \subseteq Stored, NEW s, s = InOrder(S)
    PROVE  Copies(s) /\ \A i \in 1 .. Len(s) : s[i] \in S
<1>1. IsFiniteSet(S)
  BY StoredFaithful, FS_Subset
<1>2. \A e \in S : e.at \in Nat
  BY StoredFaithful, HorizonType
<1>3. \A e, f \in S : e.at = f.at => e = f
  BY StoredFaithful
<1>4. /\ Listing(s) /\ \A i \in 1 .. Len(s) : s[i] \in S
      /\ \A i, k \in 1 .. Len(s) : s[i] = s[k] => i = k
  BY <1>1, <1>2, <1>3, InOrderLists
<1> QED BY <1>3, <1>4 DEF Copies

\* A plan that makes one call for each member of a list.
Maps(plan, s, op) ==
    /\ Listing(plan) /\ Len(plan) = Len(s)
    /\ \A i \in 1 .. Len(s) : plan[i].op = op /\ plan[i].exec = s[i]

LEMMA PlanMaps ==
    ASSUME NEW s, Listing(s), NEW op,
           NEW plan, plan = [i \in DOMAIN s |-> [op |-> op, exec |-> s[i]]]
    PROVE  Maps(plan, s, op)
<1>1. DOMAIN s = 1 .. Len(s) /\ Len(s) \in Nat
  BY ListingSeq DEF Listing
<1>2. plan = [i \in 1 .. Len(s) |-> plan[i]] /\ DOMAIN plan = 1 .. Len(s)
  BY <1>1
<1>3. Listing(plan) /\ Len(plan) = Len(s)
  BY <1>1, <1>2, MadeListing
<1> QED BY <1>1, <1>3 DEF Maps

\* A goroutine that starts afresh.
Fresh(m, pc) ==
    /\ Shaped(m) /\ m.pc = pc /\ m.plan = <<>> /\ m.todo = {} /\ m.job = NoJob
    /\ m.exec = NoExecution /\ Len(m.plan) = 0 /\ JobOK(m.job)

LEMMA RestIs ==
    ASSUME NEW pc, NEW m, m = Rest(pc)
    PROVE  Fresh(m, pc)
<1>1. PICK e : e = <<>>
  OBVIOUS
<1>2. Listing(e) /\ Len(e) = 0
  BY <1>1, EmptyListing
<1>3. m = [pc |-> pc, now |-> 0, job |-> NoJob, exec |-> NoExecution, todo |-> {}, plan |-> e]
  BY <1>1 DEF Rest
<1>4. Shaped(m)
  BY <1>2, <1>3 DEF Shaped
<1>5. JobOK(NoJob)
  BY DEF JobOK, NoJob, Sched, ScheduleKinds
<1> QED BY <1>1, <1>2, <1>3, <1>4, <1>5 DEF Fresh

LEMMA FreshOK ==
    ASSUME NEW m, NEW pc, Fresh(m, pc)
    PROVE  /\ AdminOK(m)' /\ ReconcileOK(m)' /\ StartOK(m)
           /\ pc \notin {"cancel", "skip", "claim", "attempt", "deliver"} => TimingOK(m)'
<1>1. Len(m.plan) = 0 /\ 1 .. Len(m.plan) = {}
  BY DEF Fresh
<1>2. AdminOK(m)'
  BY <1>1 DEF Fresh, AdminOK
<1>3. PurgeOK(m.plan)'
  BY DEF Fresh, PurgeOK
<1>4. ReconcileOK(m)'
  BY <1>1, <1>3 DEF Fresh, ReconcileOK
<1>5. StartOK(m)
  BY <1>1 DEF Fresh, StartOK
<1>6. pc \notin {"cancel", "skip", "claim", "attempt", "deliver"} => TimingOK(m)'
  BY DEF Fresh, TimingOK, Held
<1> QED BY <1>2, <1>4, <1>5, <1>6

\* Neither executions nor attempts change.
LEMMA StillSound ==
    ASSUME LifeInv, UNCHANGED executions, UNCHANGED lastID, UNCHANGED attempts,
           clock' \in Nat, JobOK(job)'
    PROVE  Sound({})
<1>1. StoreOK' /\ StoreMoves /\ KeepsClaims({})
  BY QuietStep DEF LifeInv
<1>2. AttemptsOK'
  BY DEF LifeInv, AttemptsOK, AttemptsOwned, Stored
<1> QED BY <1>1, <1>2 DEF Sound

LEMMA QuietSound ==
    ASSUME LifeInv, Quiet, clock' \in Nat
    PROVE  Sound({})
<1>1. UNCHANGED executions /\ UNCHANGED lastID /\ UNCHANGED attempts
  BY DEF Quiet, storeVars
<1>2. JobOK(job)'
  BY DEF LifeInv, Quiet, storeVars, JobOK
<1> QED BY <1>1, <1>2, StillSound

-----------------------------------------------------------------------------
(* The job operations.                                                       *)

\* A goroutine that goes on to a plan.
Planned(m, l, pc, plan) ==
    m = [pc |-> pc, now |-> l.now, job |-> l.job, exec |-> l.exec, todo |-> l.todo, plan |-> plan]

LEMMA PlannedShape ==
    ASSUME NEW l, NEW m, NEW pc, NEW plan, Listing(plan), Planned(m, l, pc, plan)
    PROVE  /\ Shaped(m) /\ m.pc = pc /\ m.now = l.now /\ m.job = l.job /\ m.exec = l.exec
           /\ m.todo = l.todo /\ m.plan = plan
BY DEF Planned, Shaped

LEMMA ClockIs == ASSUME LifeInv, UNCHANGED engineVars PROVE clock' \in Nat /\ clock' = clock
BY DEF LifeInv, StoreOK, engineVars

LEMMA Edited ==
    ASSUME NEW l, Shaped(l), NEW pc, NEW plan
    PROVE  /\ Planned([l EXCEPT !.pc = pc, !.plan = plan], l, pc, plan)
           /\ Planned([l EXCEPT !.pc = pc], l, pc, l.plan)
           /\ Planned([l EXCEPT !.plan = plan], l, l.pc, plan)
<1>1. l = [pc |-> l.pc, now |-> l.now, job |-> l.job, exec |-> l.exec, todo |-> l.todo,
           plan |-> l.plan]
  BY DEF Shaped
<1>2. PICK a, b, c, d, e, f :
         l = [pc |-> a, now |-> b, job |-> c, exec |-> d, todo |-> e, plan |-> f]
  BY <1>1
<1>3. [l EXCEPT !.pc = pc, !.plan = plan]
          = [pc |-> pc, now |-> b, job |-> c, exec |-> d, todo |-> e, plan |-> plan]
  <2>1. PICK m : m = [l EXCEPT !.pc = pc, !.plan = plan]
    OBVIOUS
  <2>2. /\ DOMAIN l = {"pc", "now", "job", "exec", "todo", "plan"}
        /\ l.now = b /\ l.job = c /\ l.exec = d /\ l.todo = e
    BY <1>2
  <2>3. m = [k \in DOMAIN l |-> IF k = "plan" THEN plan ELSE IF k = "pc" THEN pc ELSE l[k]]
    BY <2>1
  <2>4. /\ m = [k \in DOMAIN m |-> m[k]] /\ DOMAIN m = DOMAIN l /\ m.pc = pc /\ m.plan = plan
        /\ m.now = b /\ m.job = c /\ m.exec = d /\ m.todo = e
    BY <2>2, <2>3
  <2> QED BY <2>1, <2>2, <2>4
<1>4. [l EXCEPT !.pc = pc] = [pc |-> pc, now |-> b, job |-> c, exec |-> d, todo |-> e, plan |-> f]
  BY <1>2
<1>5. [l EXCEPT !.plan = plan]
          = [pc |-> a, now |-> b, job |-> c, exec |-> d, todo |-> e, plan |-> plan]
  BY <1>2
<1> QED BY <1>2, <1>3, <1>4, <1>5 DEF Planned

LEMMA AdminIs ==
    ASSUME LifeInv, NEW l, l = proc["admin"]
    PROVE  Shaped(l) /\ AdminOK(l)
BY DEF LifeInv, ProcOK, Goroutines

LEMMA HandleJobUpsertKeeps ==
    ASSUME LifeInv, NEW r \in Requests, HandleJobUpsert(r)
    PROVE  LifeInv'
<1>1. PICK j : j = job'
  OBVIOUS
<1>2. JobOK(j)
  <2>1. j = [present |-> TRUE, version |-> job.version + 1, skipped |-> job.skipped,
             sched |-> r.sched, enabled |-> r.enabled, mode |-> r.mode,
             maxCount |-> r.maxCount, maxAge |-> r.maxAge]
    BY <1>1 DEF HandleJobUpsert
  <2>2. r.sched \in Sched
    BY OccurrencesAssumption DEF Sched
  <2> QED BY <2>1, <2>2 DEF JobOK
<1>3. PICK pc : pc = IF j.version > 1 THEN "replace" ELSE "cancelled"
  OBVIOUS
<1>4. PICK m0 : m0 = Rest(pc)
  OBVIOUS
<1>5. PICK m : m = [m0 EXCEPT !.job = j]
  OBVIOUS
<1>6. proc' = [proc EXCEPT !["admin"] = m]
  BY <1>1, <1>3, <1>4, <1>5 DEF HandleJobUpsert, Become
<1>7. Fresh(m0, pc)
  BY <1>4, RestIs
<1>8. Shaped(m) /\ m.plan = m0.plan /\ m.job = j
  <2>1. /\ m0 = [pc |-> m0.pc, now |-> m0.now, job |-> m0.job, exec |-> m0.exec,
                 todo |-> m0.todo, plan |-> m0.plan]
        /\ Listing(m0.plan)
    BY <1>7 DEF Fresh, Shaped
  <2>2. m = [pc |-> m0.pc, now |-> m0.now, job |-> j, exec |-> m0.exec,
             todo |-> m0.todo, plan |-> m0.plan]
    BY <1>5, <2>1
  <2> QED BY <2>1, <2>2 DEF Shaped
<1>9. AdminOK(m)'
  <2>1. Len(m.plan) = 0 /\ 1 .. Len(m.plan) = {}
    BY <1>7, <1>8 DEF Fresh
  <2> QED BY <1>2, <1>8, <2>1 DEF AdminOK
<1>10. Sound({})
  <2>1. UNCHANGED executions /\ UNCHANGED lastID /\ UNCHANGED attempts /\ UNCHANGED engineVars
    BY DEF HandleJobUpsert
  <2>2. JobOK(job)'
    BY <1>1, <1>2 DEF JobOK
  <2> QED BY <2>1, <2>2, ClockIs, StillSound
<1> QED BY <1>6, <1>8, <1>9, <1>10, AdminActs

\* The admin goroutine moves on with a plan of cancellations or creations.
LEMMA AdminPlans ==
    ASSUME LifeInv, NEW pc, NEW plan, NEW m, Planned(m, proc["admin"], pc, plan), Listing(plan),
           proc' = [proc EXCEPT !["admin"] = m], Quiet, UNCHANGED engineVars,
           \A i \in 1 .. Len(plan) :
               \/ /\ plan[i].op = "cancel"
                  /\ Faithful(plan[i].exec) /\ plan[i].exec.state \notin LeasedStates
               \/ plan[i].op \in {"skip", "create"}
    PROVE  LifeInv'
<1>1. PICK l : l = proc["admin"]
  OBVIOUS
<1>2. Shaped(l) /\ AdminOK(l)
  BY <1>1, AdminIs
<1>3. Shaped(m) /\ m.job = l.job /\ m.plan = plan
  BY <1>1, PlannedShape
<1>4. AdminOK(m)
  BY <1>2, <1>3 DEF AdminOK
<1>5. Sound({})
  BY ClockIs, QuietSound
<1>6. AdminOK(m)'
  BY <1>4, <1>5, AdminKept DEF Sound, LifeInv
<1> QED BY <1>3, <1>5, <1>6, AdminActs

\* The cancellations of what was listed, not leased at the time.
LEMMA CancelPlan ==
    ASSUME LifeInv, NEW S, S \subseteq Stored, \A e \in S : e.state \notin LeasedStates,
           NEW gone, gone = InOrder(S), NEW plan, plan = [i \in DOMAIN gone |-> Cancel(gone[i])]
    PROVE  /\ Listing(plan)
           /\ \A i \in 1 .. Len(plan) :
                /\ plan[i].op = "cancel"
                /\ Faithful(plan[i].exec) /\ plan[i].exec.state \notin LeasedStates
<1>1. Copies(gone) /\ \A i \in 1 .. Len(gone) : gone[i] \in S
  BY CopiesInOrder DEF LifeInv
<1>2. Maps(plan, gone, "cancel")
  <2>1. Listing(gone)
    BY <1>1 DEF Copies
  <2>2. PICK op : op = "cancel"
    OBVIOUS
  <2>3. plan = [i \in DOMAIN gone |-> [op |-> op, exec |-> gone[i]]]
    BY <2>2 DEF Cancel
  <2> QED BY <2>1, <2>2, <2>3, PlanMaps
<1>3. \A e \in Stored : Faithful(e)
  BY StoredFaithful DEF LifeInv
<1> QED BY <1>1, <1>2, <1>3 DEF Maps

LEMMA CancelReplacedKeeps ==
    ASSUME LifeInv, CancelReplaced
    PROVE  LifeInv'
<1>1. PICK l : l = proc["admin"]
  OBVIOUS
<1>2. Quiet /\ UNCHANGED engineVars
  BY DEF CancelReplaced
<1>3. CASE Goto("admin", "cancelled")
  <2>1. PICK m : m = [l EXCEPT !.pc = "cancelled"]
    OBVIOUS
  <2>2. Planned(m, l, "cancelled", l.plan)
    BY <1>1, <2>1, AdminIs, Edited
  <2>3. proc' = [proc EXCEPT !["admin"] = m]
    BY <1>1, <1>3, <2>1 DEF Goto
  <2>4. Shaped(l) /\ AdminOK(l)
    BY <1>1, AdminIs
  <2> QED BY <1>1, <1>2, <2>2, <2>3, <2>4, AdminPlans DEF Shaped, AdminOK
<1>4. PICK S : S = {e \in Stored : Replaced(e, l.job)}
  OBVIOUS
<1>5. PICK gone : gone = InOrder(S)
  OBVIOUS
<1>6. PICK plan : plan = [i \in DOMAIN gone |-> Cancel(gone[i])]
  OBVIOUS
<1>7. CASE proc' = [proc EXCEPT !["admin"].pc = "cancelled", !["admin"].plan = plan]
  <2>1. S \subseteq Stored /\ \A e \in S : e.state \notin LeasedStates
    BY <1>4 DEF Replaced
  <2>2. /\ Listing(plan)
        /\ \A i \in 1 .. Len(plan) :
                /\ plan[i].op = "cancel"
                /\ Faithful(plan[i].exec) /\ plan[i].exec.state \notin LeasedStates
    BY <1>5, <1>6, <2>1, CancelPlan
  <2>3. PICK m : m = [l EXCEPT !.pc = "cancelled", !.plan = plan]
    OBVIOUS
  <2>4. Planned(m, l, "cancelled", plan)
    BY <1>1, <2>3, AdminIs, Edited
  <2>5. proc' = [proc EXCEPT !["admin"] = m]
    BY <1>1, <1>7, <2>3 DEF LifeInv, ProcOK, Goroutines
  <2> QED BY <1>1, <1>2, <2>2, <2>4, <2>5, AdminPlans
<1> QED BY <1>1, <1>3, <1>4, <1>5, <1>6, <1>7 DEF CancelReplaced

\* What a call of a plan does to the store.
LEMMA ApplyCases ==
    ASSUME NEW c, Apply(c)
    PROVE  /\ c.op = "cancel" => /\ Update(c.exec, "Cancelled") /\ UNCHANGED job
                                 /\ UNCHANGED lastID /\ UNCHANGED attempts
           /\ c.op = "abandon" => /\ Update(executions[c.exec.at], "Ready") /\ UNCHANGED job
                                  /\ UNCHANGED lastID /\ UNCHANGED attempts
           /\ c.op = "skip" => /\ job' = IF job.present THEN [job EXCEPT !.skipped = @ + c.count] ELSE job
                               /\ UNCHANGED executions /\ UNCHANGED lastID /\ UNCHANGED attempts
           /\ c.op = "create" => Create(c.at) /\ UNCHANGED job /\ UNCHANGED attempts
           /\ c.op = "deleteAttempt" =>
                 /\ attempts' = attempts \ {c.attempt}
                 /\ UNCHANGED job /\ UNCHANGED executions /\ UNCHANGED lastID
           /\ c.op = "deleteExecution" =>
                 /\ executions' = IF executions[c.exec.at].id = c.exec.id
                                  THEN [executions EXCEPT ![c.exec.at] = NoExecution]
                                  ELSE executions
                 /\ UNCHANGED job /\ UNCHANGED lastID /\ UNCHANGED attempts
<1>1. CASE c.op = "cancel"
  BY <1>1 DEF Apply
<1>2. CASE c.op = "abandon"
  BY <1>2 DEF Apply
<1>3. CASE c.op = "skip"
  BY <1>3 DEF Apply
<1>4. CASE c.op = "create"
  BY <1>4 DEF Apply
<1>5. CASE c.op = "deleteAttempt"
  BY <1>5 DEF Apply
<1>6. CASE c.op = "deleteExecution"
  BY <1>6 DEF Apply
<1> QED BY <1>1, <1>2, <1>3, <1>4, <1>5, <1>6

\* The executions keep their identities: whatever was owned is owned.
LEMMA SameOwners ==
    ASSUME LifeInv, StoreOK', StoreMoves, NEW T, KeepsClaims(T), attempts' \subseteq attempts, JobOK(job)',
           \A t \in Instants : executions[t].id # 0 => executions'[t].id = executions[t].id
    PROVE  Sound(T)
<1>1. AttemptsOK'
  BY AttemptsKept DEF LifeInv
<1> QED BY <1>1 DEF Sound

LEMMA SameJob == ASSUME LifeInv, UNCHANGED job PROVE JobOK(job)'
BY DEF LifeInv, JobOK

LEMMA CreateSound ==
    ASSUME LifeInv, NEW t0, Create(t0), UNCHANGED job, UNCHANGED attempts, clock' = clock
    PROVE  Sound({})
<1>1. /\ StoreOK' /\ StoreMoves /\ KeepsClaims({})
      /\ \A t \in Instants : executions[t].id # 0 => executions'[t] = executions[t]
  BY CreateStep DEF LifeInv
<1>2. JobOK(job)'
  BY SameJob
<1> QED BY <1>1, <1>2, SameOwners

LEMMA StaleSound ==
    ASSUME LifeInv, NEW e, Faithful(e), e.state # "Dispatching",
           NEW state \in ExecutionStateSet, Update(e, state), UNCHANGED lastID, clock' = clock,
           UNCHANGED job, UNCHANGED attempts
    PROVE  Sound({})
<1>1. /\ StoreOK' /\ StoreMoves /\ KeepsClaims({})
      /\ \A t \in Instants : executions'[t].id = executions[t].id
  BY StaleUpdate DEF LifeInv
<1>2. JobOK(job)'
  BY SameJob
<1> QED BY <1>1, <1>2, SameOwners

LEMMA MakeOrCancel ==
    ASSUME LifeInv, NEW c, Apply(c), clock' = clock,
           \/ c.op = "cancel" /\ Faithful(c.exec) /\ c.exec.state \notin LeasedStates
           \/ c.op \in {"skip", "create"}
    PROVE  Sound({})
<1>1. CASE c.op = "cancel"
  <2>1. /\ Update(c.exec, "Cancelled") /\ UNCHANGED job
        /\ UNCHANGED lastID /\ UNCHANGED attempts
    BY <1>1, ApplyCases
  <2>2. Faithful(c.exec) /\ c.exec.state # "Dispatching"
    BY <1>1 DEF LeasedStates
  <2>3. PICK e : e = c.exec
    OBVIOUS
  <2>4. "Cancelled" \in ExecutionStateSet
    BY DEF ExecutionStateSet, TerminalStates
  <2>5. PICK st \in ExecutionStateSet : st = "Cancelled"
    BY <2>4
  <2>6. Faithful(e) /\ e.state # "Dispatching" /\ Update(e, st)
    BY <2>1, <2>2, <2>3, <2>5
  <2> QED BY <2>1, <2>6, StaleSound
<1>2. CASE c.op = "skip"
  <2>1. /\ job' = IF job.present THEN [job EXCEPT !.skipped = @ + c.count] ELSE job
        /\ UNCHANGED executions /\ UNCHANGED lastID /\ UNCHANGED attempts
    BY <1>2, ApplyCases
  <2>2. JobOK(job)'
    BY <2>1 DEF LifeInv, JobOK
  <2>3. clock' \in Nat
    BY DEF LifeInv, StoreOK
  <2> QED BY <2>1, <2>2, <2>3, StillSound
<1>3. CASE c.op = "create"
  <2>1. PICK t0 : t0 = c.at
    OBVIOUS
  <2>2. Create(t0) /\ UNCHANGED job /\ UNCHANGED attempts
    BY <1>3, <2>1, ApplyCases
  <2> QED BY <2>2, CreateSound
<1> QED BY <1>1, <1>2, <1>3

\* The rest of a plan when its first call is done.
Shorter(plan, rest) ==
    /\ Listing(rest) /\ Len(plan) > 0 /\ Len(rest) = Len(plan) - 1
    /\ \A i \in 1 .. Len(rest) : rest[i] = plan[i + 1] /\ i + 1 \in 1 .. Len(plan)

LEMMA TailShorter ==
    ASSUME NEW plan, Listing(plan), plan # <<>>, NEW rest, rest = Tail(plan)
    PROVE  Shorter(plan, rest) /\ Head(plan) = plan[1] /\ 1 \in 1 .. Len(plan)
<1>1. /\ Listing(rest) /\ Len(plan) > 0 /\ Len(rest) = Len(plan) - 1 /\ Head(plan) = plan[1]
      /\ \A i \in 1 .. Len(plan) - 1 : rest[i] = plan[i + 1] /\ i + 1 \in 1 .. Len(plan)
  BY TailListing
<1>2. Len(plan) \in Nat
  BY DEF Listing
<1> QED BY <1>1, <1>2 DEF Shorter

\* A call of a loop, done or failed: the store moves or not, the plan shrinks.
Performed(p, pc, l) ==
    /\ l.pc = pc /\ l.plan # <<>> /\ Shaped(l) /\ clock' = clock /\ clock' \in Nat
    /\ \E c, m, rest :
          /\ c = l.plan[1] /\ 1 \in 1 .. Len(l.plan) /\ Shorter(l.plan, rest) /\ Listing(rest)
          /\ Planned(m, l, pc, rest)
          /\ proc' = [proc EXCEPT ![p] = m]
          /\ Apply(c) \/ Quiet

LEMMA PerformCases ==
    ASSUME LifeInv, NEW p \in Goroutines, NEW pc, Perform(p, pc), NEW l, l = proc[p]
    PROVE  Performed(p, pc, l)
<1>1. l.pc = pc /\ l.plan # <<>> /\ Shaped(l) /\ Listing(l.plan)
  BY DEF Perform, Finished, LifeInv, ProcOK, Shaped
<1>2. clock' = clock /\ clock' \in Nat
  BY ClockIs DEF Perform, engineVars
<1>3. PICK rest : rest = Tail(l.plan)
  OBVIOUS
<1>4. PICK c : c = Head(l.plan)
  OBVIOUS
<1>5. c = l.plan[1] /\ 1 \in 1 .. Len(l.plan) /\ Shorter(l.plan, rest) /\ Listing(rest)
  BY <1>1, <1>3, <1>4, TailShorter DEF Shorter
<1>6. PICK m : m = [l EXCEPT !.plan = rest]
  OBVIOUS
<1>7. Planned(m, l, pc, rest)
  BY <1>1, <1>6, Edited
<1>8. proc' = [proc EXCEPT ![p] = m]
  BY <1>3, <1>6 DEF Perform
<1>9. Apply(c) \/ Quiet
  BY <1>4 DEF Perform, Quiet
<1> QED BY <1>1, <1>2, <1>5, <1>7, <1>8, <1>9 DEF Performed

LEMMA AdminCallKeeps ==
    ASSUME LifeInv, AdminCall
    PROVE  LifeInv'
<1>1. PICK pc \in {"cancelled", "materialize", "delete"} : Perform("admin", pc)
  BY DEF AdminCall
<1>2. PICK l : l = proc["admin"]
  OBVIOUS
<1>3. AdminOK(l)
  BY <1>2, AdminIs
<1>4. PICK p \in Goroutines : p = "admin"
  BY DEF Goroutines
<1>5. Performed(p, pc, l)
  <2>1. Perform(p, pc) /\ l = proc[p]
    BY <1>1, <1>2, <1>4
  <2> QED BY <2>1, PerformCases
<1>6. PICK c, m, rest :
                 /\ c = l.plan[1] /\ 1 \in 1 .. Len(l.plan) /\ Shorter(l.plan, rest) /\ Listing(rest)
                 /\ Planned(m, l, pc, rest)
                 /\ proc' = [proc EXCEPT ![p] = m]
                 /\ Apply(c) \/ Quiet
  BY <1>5 DEF Performed
<1>7. Sound({})
  <2>1. CASE Apply(c)
    <3>1. \/ c.op = "cancel" /\ Faithful(c.exec) /\ c.exec.state \notin LeasedStates
          \/ c.op \in {"skip", "create"}
      BY <1>3, <1>6 DEF AdminOK
    <3> QED BY <1>5, <2>1, <3>1, MakeOrCancel DEF Performed
  <2>2. CASE Quiet
    BY <1>5, <2>2, QuietSound DEF Performed
  <2> QED BY <1>6, <2>1, <2>2
<1>8. Shaped(m) /\ m.job = l.job /\ m.plan = rest
  BY <1>6, PlannedShape
<1>9. AdminOK(m)
  BY <1>3, <1>6, <1>8 DEF AdminOK, Shorter
<1>10. AdminOK(m)'
  BY <1>7, <1>9, AdminKept DEF Sound, LifeInv
<1> QED BY <1>4, <1>6, <1>7, <1>8, <1>10, AdminActs

LEMMA MaterializeUpsertedKeeps ==
    ASSUME LifeInv, MaterializeUpserted
    PROVE  LifeInv'
<1>1. PICK l : l = proc["admin"]
  OBVIOUS
<1>2. Quiet /\ UNCHANGED engineVars /\ clock \in Nat
  BY DEF MaterializeUpserted, LifeInv, StoreOK
<1>3. Shaped(l) /\ AdminOK(l)
  BY <1>1, AdminIs
<1>4. PICK plan : plan = Materialize(l.job, clock)
  OBVIOUS
<1>5. CASE proc' = [proc EXCEPT !["admin"].pc = "materialize", !["admin"].plan = plan]
  <2>1. PICK j : j = l.job
    OBVIOUS
  <2>2. PICK now \in Nat : now = clock
    BY <1>2
  <2>3. Makes(plan)
    <3>1. j.sched \in Sched
      BY <1>3, <2>1 DEF AdminOK, JobOK
    <3>2. plan = Materialize(j, now)
      BY <1>4, <2>1, <2>2
    <3> QED BY <3>1, <3>2, MaterializeMakes
  <2>4. PICK m : m = [l EXCEPT !.pc = "materialize", !.plan = plan]
    OBVIOUS
  <2>5. Planned(m, l, "materialize", plan)
    BY <1>3, <2>4, Edited
  <2>6. proc' = [proc EXCEPT !["admin"] = m]
    BY <1>1, <1>5, <2>4 DEF LifeInv, ProcOK, Goroutines
  <2> QED BY <1>1, <1>2, <2>3, <2>5, <2>6, AdminPlans DEF Makes
<1>6. CASE Goto("admin", "materialize")
  <2>1. PICK m : m = [l EXCEPT !.pc = "materialize"]
    OBVIOUS
  <2>2. Planned(m, l, "materialize", l.plan)
    BY <1>3, <2>1, Edited
  <2>3. proc' = [proc EXCEPT !["admin"] = m]
    BY <1>1, <1>6, <2>1 DEF Goto
  <2> QED BY <1>1, <1>2, <1>3, <2>2, <2>3, AdminPlans DEF Shaped, AdminOK
<1> QED BY <1>1, <1>4, <1>5, <1>6 DEF MaterializeUpserted

\* The admin goroutine starts afresh.
LEMMA AdminFresh ==
    ASSUME LifeInv, NEW pc, Become("admin", Rest(pc)), Sound({})
    PROVE  LifeInv'
<1>1. PICK m : m = Rest(pc)
  OBVIOUS
<1>2. Fresh(m, pc)
  BY <1>1, RestIs
<1>3. Shaped(m) /\ AdminOK(m)'
  BY <1>2, FreshOK DEF Fresh
<1>4. proc' = [proc EXCEPT !["admin"] = m]
  BY <1>1 DEF Become
<1> QED BY <1>3, <1>4, AdminActs

LEMMA HandleJobDeleteKeeps ==
    ASSUME LifeInv, HandleJobDelete
    PROVE  LifeInv'
<1>1. Quiet /\ UNCHANGED engineVars /\ Become("admin", Rest("deleted"))
  BY DEF HandleJobDelete
<1>2. Sound({})
  BY <1>1, ClockIs, QuietSound
<1> QED BY <1>1, <1>2, AdminFresh

LEMMA CancelDeletedKeeps ==
    ASSUME LifeInv, CancelDeleted
    PROVE  LifeInv'
<1>1. PICK l : l = proc["admin"]
  OBVIOUS
<1>2. Quiet /\ UNCHANGED engineVars
  BY DEF CancelDeleted
<1>3. Shaped(l) /\ AdminOK(l)
  BY <1>1, AdminIs
<1>4. PICK S : S = Pending \ InStates(LeasedStates)
  OBVIOUS
<1>5. PICK gone : gone = InOrder(S)
  OBVIOUS
<1>6. PICK plan : plan = [i \in DOMAIN gone |-> Cancel(gone[i])]
  OBVIOUS
<1>7. CASE proc' = [proc EXCEPT !["admin"].pc = "delete", !["admin"].plan = plan]
  <2>1. S \subseteq Stored /\ \A e \in S : e.state \notin LeasedStates
    BY <1>4 DEF Pending, InStates
  <2>2. /\ Listing(plan)
        /\ \A i \in 1 .. Len(plan) :
                /\ plan[i].op = "cancel"
                /\ Faithful(plan[i].exec) /\ plan[i].exec.state \notin LeasedStates
    BY <1>5, <1>6, <2>1, CancelPlan
  <2>3. PICK m : m = [l EXCEPT !.pc = "delete", !.plan = plan]
    OBVIOUS
  <2>4. Planned(m, l, "delete", plan)
    BY <1>3, <2>3, Edited
  <2>5. proc' = [proc EXCEPT !["admin"] = m]
    BY <1>1, <1>7, <2>3 DEF LifeInv, ProcOK, Goroutines
  <2> QED BY <1>1, <1>2, <2>2, <2>4, <2>5, AdminPlans
<1>8. CASE Goto("admin", "delete")
  <2>1. PICK m : m = [l EXCEPT !.pc = "delete"]
    OBVIOUS
  <2>2. Planned(m, l, "delete", l.plan)
    BY <1>3, <2>1, Edited
  <2>3. proc' = [proc EXCEPT !["admin"] = m]
    BY <1>1, <1>8, <2>1 DEF Goto
  <2> QED BY <1>1, <1>2, <1>3, <2>2, <2>3, AdminPlans DEF Shaped, AdminOK
<1> QED BY <1>1, <1>4, <1>5, <1>6, <1>7, <1>8 DEF CancelDeleted

LEMMA DeleteJobKeeps ==
    ASSUME LifeInv, DeleteJob
    PROVE  LifeInv'
<1>1. /\ Become("admin", Rest("idle")) /\ UNCHANGED engineVars
      /\ UNCHANGED executions /\ UNCHANGED lastID /\ UNCHANGED attempts
  BY DEF DeleteJob
<1>2. JobOK(NoJob)
  BY DEF JobOK, NoJob, Sched, ScheduleKinds
<1>3. job' = NoJob \/ job' = job
  BY DEF DeleteJob
<1>4. JobOK(job)'
  BY <1>2, <1>3 DEF JobOK, LifeInv
<1>5. Sound({})
  BY <1>1, <1>4, ClockIs, StillSound
<1> QED BY <1>1, <1>5, AdminFresh

LEMMA UpsertedKeeps ==
    ASSUME LifeInv, Upserted
    PROVE  LifeInv'
<1>1. Quiet /\ UNCHANGED engineVars /\ Become("admin", Rest("idle"))
  BY DEF Upserted
<1>2. Sound({})
  BY <1>1, ClockIs, QuietSound
<1> QED BY <1>1, <1>2, AdminFresh

-----------------------------------------------------------------------------
(* The timing loop.                                                          *)

LEMMA TimingIs ==
    ASSUME LifeInv, NEW l, l = proc["timing"]
    PROVE  /\ Shaped(l) /\ TimingOK(l) /\ Resting(proc["start"], l, proc["reconcile"])
           /\ NotHeld(l, proc["reconcile"])
BY DEF LifeInv, ProcOK, Goroutines, Loops

\* A step of the timing loop, which is not off, to where it holds nothing.
LEMMA TimingMoves ==
    ASSUME LifeInv, NEW m, proc' = [proc EXCEPT !["timing"] = m], Shaped(m), TimingOK(m),
           ~Held(m), Sound({}), proc["timing"].pc # "off"
    PROVE  LifeInv'
<1>1. TimingOK(m)'
  BY TimingKept DEF LifeInv, Sound
<1>2. Resting(proc["start"], m, proc["reconcile"])
  BY TimingIs DEF Resting
<1>3. NotHeld(m, proc["reconcile"])
  BY DEF NotHeld
<1>4. PICK T : T = {}
  OBVIOUS
<1>5. Sound(T) /\ (proc["reconcile"].pc = "reap" =>
              \A i \in 1 .. Len(proc["reconcile"].plan) : proc["reconcile"].plan[i].exec.at \notin T)
  BY <1>4
<1> QED BY <1>1, <1>2, <1>3, <1>5, TimingActs

\* The reconcile pass has no business at the instants T.
Clear(T) ==
    proc["reconcile"].pc = "reap" =>
        \A i \in 1 .. Len(proc["reconcile"].plan) : proc["reconcile"].plan[i].exec.at \notin T

LEMMA VisitNextMoves ==
    ASSUME LifeInv, VisitNext, NEW T, Sound(T), Clear(T), proc["timing"].pc # "off"
    PROVE  LifeInv'
<1>1. PICK l : l = proc["timing"]
  OBVIOUS
<1>2. PICK m0 : m0 = Rest("visit")
  OBVIOUS
<1>3. PICK m : m = [m0 EXCEPT !.todo = l.todo]
  OBVIOUS
<1>4. proc' = [proc EXCEPT !["timing"] = m]
  BY <1>1, <1>2, <1>3 DEF VisitNext, Become
<1>5. Fresh(m0, "visit")
  BY <1>2, RestIs
<1>6. Shaped(m) /\ m.pc = "visit" /\ m.todo = l.todo
  <2>1. /\ m0 = [pc |-> m0.pc, now |-> m0.now, job |-> m0.job, exec |-> m0.exec,
                 todo |-> m0.todo, plan |-> m0.plan]
        /\ Listing(m0.plan) /\ m0.pc = "visit"
    BY <1>5 DEF Fresh, Shaped
  <2>2. m = [pc |-> m0.pc, now |-> m0.now, job |-> m0.job, exec |-> m0.exec,
             todo |-> l.todo, plan |-> m0.plan]
    BY <1>3, <2>1
  <2> QED BY <2>1, <2>2 DEF Shaped
<1>7. TimingOK(m)'
  <2>1. \A e \in l.todo : Faithful(e) /\ e.state \in DueStates
    BY <1>1, TimingIs DEF TimingOK
  <2>2. \A c : Faithful(c) => Faithful(c)'
    BY FaithfulKept DEF LifeInv, Sound
  <2> QED BY <1>6, <2>1, <2>2 DEF TimingOK, Held
<1>8. Resting(proc["start"], m, proc["reconcile"])
  BY TimingIs DEF Resting
<1>9. NotHeld(m, proc["reconcile"])
  BY <1>6 DEF NotHeld, Held
<1> QED BY <1>4, <1>6, <1>7, <1>8, <1>9, TimingActs DEF Clear

LEMMA ClearNone == Clear({})
BY DEF Clear

\* The timing loop goes on to a step at which it needs no execution.
Plain(pc) == pc \notin {"cancel", "skip", "claim", "attempt", "deliver"}

LEMMA TimingFresh ==
    ASSUME LifeInv, NEW pc, Plain(pc), Become("timing", Rest(pc)), Sound({}), proc["timing"].pc # "off"
    PROVE  LifeInv'
<1>1. PICK m : m = Rest(pc)
  OBVIOUS
<1>2. Fresh(m, pc)
  BY <1>1, RestIs
<1>3. Shaped(m) /\ TimingOK(m) /\ ~Held(m)
  BY <1>2 DEF Fresh, Plain, TimingOK, Held
<1>4. proc' = [proc EXCEPT !["timing"] = m]
  BY <1>1 DEF Become
<1> QED BY <1>3, <1>4, TimingMoves

LEMMA TimingGoto ==
    ASSUME LifeInv, NEW pc, Plain(pc), Goto("timing", pc), NEW T, Sound(T), Clear(T),
           proc["timing"].pc # "off"
    PROVE  LifeInv'
<1>1. PICK l : l = proc["timing"]
  OBVIOUS
<1>2. Shaped(l) /\ TimingOK(l)
  BY <1>1, TimingIs
<1>3. PICK m : m = [l EXCEPT !.pc = pc]
  OBVIOUS
<1>4. Planned(m, l, pc, l.plan)
  BY <1>2, <1>3, Edited
<1>5. Shaped(m) /\ m.pc = pc /\ m.todo = l.todo
  BY <1>2, <1>4, PlannedShape DEF Shaped
<1>6. TimingOK(m)'
  <2>1. \A c : Faithful(c) => Faithful(c)'
    BY FaithfulKept DEF LifeInv, Sound
  <2> QED BY <1>2, <1>5, <2>1 DEF TimingOK, Plain, Held
<1>7. Resting(proc["start"], m, proc["reconcile"])
  BY TimingIs DEF Resting
<1>8. NotHeld(m, proc["reconcile"])
  BY <1>5 DEF NotHeld, Held, Plain
<1>9. proc' = [proc EXCEPT !["timing"] = m]
  BY <1>1, <1>3 DEF Goto
<1> QED BY <1>5, <1>6, <1>7, <1>8, <1>9, TimingActs DEF Clear

\* A batch of what is due, as stored.
LEMMA DueAreStored ==
    ASSUME LifeInv, NEW e \in InStates(DueStates)
    PROVE  Faithful(e) /\ e.state \in DueStates
BY StoredFaithful DEF LifeInv, InStates

LEMMA ProcessDueKeeps ==
    ASSUME LifeInv, ProcessDue
    PROVE  LifeInv'
<1>1. Quiet /\ UNCHANGED engineVars /\ proc["timing"].pc = "top"
  BY DEF ProcessDue
<1>2. Sound({})
  BY <1>1, ClockIs, QuietSound
<1>3. CASE Goto("timing", "off") \/ Goto("timing", "lookup")
  <2>1. Plain("off") /\ Plain("lookup")
    BY DEF Plain
  <2> QED BY <1>1, <1>2, <1>3, <2>1, ClearNone, TimingGoto
<1>4. PICK batch : batch = DueBatch(clock)
  OBVIOUS
<1>5. CASE proc' = [proc EXCEPT !["timing"].pc = "visit", !["timing"].todo = batch]
  <2>1. PICK l : l = proc["timing"]
    OBVIOUS
  <2>2. PICK m : m = [l EXCEPT !.pc = "visit", !.todo = batch]
    OBVIOUS
  <2>3. Shaped(l)
    BY <2>1, TimingIs
  <2>4. Shaped(m) /\ m.pc = "visit" /\ m.todo = batch
    BY <2>2, <2>3 DEF Shaped
  <2>5. proc' = [proc EXCEPT !["timing"] = m]
    BY <1>5, <2>1, <2>2 DEF LifeInv, ProcOK, Goroutines, Loops
  <2>6. \A e \in batch : Faithful(e) /\ e.state \in DueStates
    <3>1. batch \subseteq InStates(DueStates)
      BY <1>4 DEF DueBatch
    <3> QED BY <3>1, DueAreStored
  <2>7. TimingOK(m) /\ ~Held(m)
    BY <2>4, <2>6 DEF TimingOK, Held
  <2> QED BY <1>1, <1>2, <2>4, <2>5, <2>7, TimingMoves
<1> QED BY <1>3, <1>4, <1>5 DEF ProcessDue

LEMMA EarliestIn ==
    ASSUME NEW S, S # {}, \A e \in S : e.wake \in Nat /\ e.id \in Nat
    PROVE  Earliest(S) \in S
<1>1. PICK w \in {e.wake : e \in S} : \A n \in {e.wake : e \in S} : w <= n
  <2>1. PICK W : W = {e.wake : e \in S}
    OBVIOUS
  <2>2. W \subseteq Nat /\ W # {}
    BY <2>1
  <2>3. \E w \in W : \A n \in W : w <= n
    BY <2>2, LeastNumber
  <2> QED BY <2>1, <2>3
<1>2. PICK T : T = {e \in S : e.wake = w}
  OBVIOUS
<1>3. PICK i \in {e.id : e \in T} : \A n \in {e.id : e \in T} : i <= n
  <2>1. PICK I : I = {e.id : e \in T}
    OBVIOUS
  <2>2. I \subseteq Nat /\ I # {}
    BY <1>1, <1>2, <2>1
  <2>3. \E k \in I : \A n \in I : k <= n
    BY <2>2, LeastNumber
  <2> QED BY <2>1, <2>3
<1>4. PICK e \in T : e.id = i
  BY <1>3
<1>5. e \in S /\ e.wake = w
  BY <1>2
<1>6. \A o \in S : e.wake < o.wake \/ (e.wake = o.wake /\ e.id <= o.id)
  <2> SUFFICES ASSUME NEW o \in S PROVE e.wake < o.wake \/ (e.wake = o.wake /\ e.id <= o.id)
    OBVIOUS
  <2>1. o.wake \in Nat /\ e.wake \in Nat /\ e.wake <= o.wake
    BY <1>1, <1>5
  <2>2. CASE o.wake = e.wake
    BY <1>2, <1>3, <1>4, <1>5, <2>2
  <2> QED BY <2>1, <2>2
<1>7. \E x \in S : \A o \in S : x.wake < o.wake \/ (x.wake = o.wake /\ x.id <= o.id)
  BY <1>5, <1>6
<1> QED BY <1>7, Zenon DEF Earliest

LEMMA ConsiderKeeps ==
    ASSUME LifeInv, Consider
    PROVE  LifeInv'
<1>1. Quiet /\ UNCHANGED engineVars /\ proc["timing"].pc = "visit"
  BY DEF Consider
<1>2. Sound({})
  BY <1>1, ClockIs, QuietSound
<1>3. CASE Become("timing", Rest("lookup"))
  <2>1. Plain("lookup")
    BY DEF Plain
  <2> QED BY <1>1, <1>2, <1>3, <2>1, TimingFresh
<1>4. PICK l : l = proc["timing"]
  OBVIOUS
<1>5. PICK e : e = Earliest(l.todo)
  OBVIOUS
<1>6. Shaped(l) /\ TimingOK(l) /\ l.pc = "visit"
  BY <1>1, <1>4, TimingIs
<1>7. l.todo # {} => Faithful(e) /\ e.state \in DueStates
  <2>1. \A x \in l.todo : x.wake \in Nat /\ x.id \in Nat
    BY <1>6 DEF TimingOK, Faithful
  <2>2. PICK S : S = l.todo
    OBVIOUS
  <2>3. S # {} => Earliest(S) \in S
    BY <2>1, <2>2, EarliestIn
  <2> QED BY <1>5, <1>6, <2>2, <2>3 DEF TimingOK
<1>8. ASSUME NEW pc \in {"cancel", "skip", "claim"}, l.todo # {},
             proc' = [proc EXCEPT !["timing"].pc = pc, !["timing"].exec = e,
                                  !["timing"].job = job, !["timing"].todo = @ \ {e}]
      PROVE  LifeInv'
  <2>1. PICK todo : todo = l.todo \ {e}
    OBVIOUS
  <2>2. PICK m : m = [pc |-> pc, now |-> l.now, job |-> job, exec |-> e, todo |-> todo, plan |-> l.plan]
    OBVIOUS
  <2>3. proc' = [proc EXCEPT !["timing"] = m]
    <3>1. PICK n : n = [l EXCEPT !.pc = pc, !.exec = e, !.job = job, !.todo = @ \ {e}]
      OBVIOUS
    <3>2. proc' = [proc EXCEPT !["timing"] = n]
      BY <1>4, <1>8, <3>1 DEF LifeInv, ProcOK, Goroutines, Loops
    <3>3. PICK b, f : l = [pc |-> l.pc, now |-> b, job |-> l.job, exec |-> l.exec, todo |-> l.todo, plan |-> f]
      BY <1>6 DEF Shaped
    <3>4. n = m
      <4>1. /\ DOMAIN l = {"pc", "now", "job", "exec", "todo", "plan"} /\ l.now = b /\ l.plan = f
        BY <3>3
      <4>2. /\ n = [k \in DOMAIN n |-> n[k]] /\ DOMAIN n = DOMAIN l
            /\ n.pc = pc /\ n.exec = e /\ n.job = job /\ n.todo = todo /\ n.now = b /\ n.plan = f
        BY <2>1, <3>1, <4>1
      <4> QED BY <2>2, <4>1, <4>2
    <3> QED BY <3>2, <3>4
  <2>4. Shaped(m)
    BY <1>6, <2>2 DEF Shaped
  <2>5. TimingOK(m) /\ ~Held(m)
    <3>1. m.pc = pc /\ m.exec = e /\ m.todo = todo
      BY <2>2
    <3> QED BY <1>6, <1>7, <1>8, <2>1, <3>1 DEF TimingOK, Held
  <2> QED BY <1>1, <1>2, <2>3, <2>4, <2>5, TimingMoves
<1>9. CASE proc' = [proc EXCEPT !["timing"].todo = @ \ {e}]
  <2>1. PICK todo : todo = l.todo \ {e}
    OBVIOUS
  <2>2. PICK m : m = [l EXCEPT !.todo = todo]
    OBVIOUS
  <2>3. proc' = [proc EXCEPT !["timing"] = m]
    BY <1>4, <1>9, <2>1, <2>2 DEF LifeInv, ProcOK, Goroutines, Loops
  <2>4. Shaped(m) /\ m.pc = "visit" /\ m.todo = todo
    BY <1>6, <2>2 DEF Shaped
  <2>5. TimingOK(m) /\ ~Held(m)
    BY <1>6, <2>1, <2>4 DEF TimingOK, Held
  <2> QED BY <1>1, <1>2, <2>3, <2>4, <2>5, TimingMoves
<1>10. \/ Become("timing", Rest("lookup"))
       \/ /\ l.todo # {}
          /\ \E pc \in {"cancel", "skip", "claim"} :
                proc' = [proc EXCEPT !["timing"].pc = pc, !["timing"].exec = e,
                                     !["timing"].job = job, !["timing"].todo = @ \ {e}]
       \/ proc' = [proc EXCEPT !["timing"].todo = @ \ {e}]
  <2>1. PICK go : go = IF SkipOverlap /\ Overlapping(e) THEN "skip" ELSE "claim"
    OBVIOUS
  <2> QED BY <1>4, <1>5, <2>1, Zenon DEF Consider
<1> QED BY <1>3, <1>8, <1>9, <1>10

\* The transition of a copy of what was due.
LEMMA DueUpdate ==
    ASSUME LifeInv, NEW e, Faithful(e), e.state \in DueStates, NEW state \in ExecutionStateSet,
           Update(e, state), UNCHANGED lastID, clock' = clock, UNCHANGED job, UNCHANGED attempts
    PROVE  Sound({})
<1>1. e.state # "Dispatching"
  BY DEF DueStates
<1> QED BY <1>1, StaleSound

LEMMA TransitionKeeps ==
    ASSUME LifeInv, Transition
    PROVE  LifeInv'
<1>1. PICK l : l = proc["timing"]
  OBVIOUS
<1>2. PICK e : e = l.exec
  OBVIOUS
<1>3. /\ l.pc \in {"cancel", "skip"} /\ UNCHANGED job /\ UNCHANGED lastID /\ UNCHANGED attempts
      /\ UNCHANGED engineVars
  BY <1>1 DEF Transition
<1>4. Faithful(e) /\ e.state \in DueStates
  BY <1>1, <1>2, <1>3, TimingIs DEF TimingOK
<1>5. clock' = clock /\ clock' \in Nat
  BY <1>3, ClockIs
<1>6. Sound({})
  <2>1. CASE UNCHANGED executions
    <3>1. JobOK(job)'
      BY <1>3, SameJob
    <3> QED BY <1>3, <1>5, <2>1, <3>1, StillSound
  <2>2. CASE Update(l.exec, IF l.pc = "cancel" THEN "Cancelled" ELSE "Skipped")
    <3>1. PICK st : st = IF l.pc = "cancel" THEN "Cancelled" ELSE "Skipped"
      OBVIOUS
    <3>2. st \in ExecutionStateSet
      BY <3>1 DEF ExecutionStateSet, TerminalStates
    <3>3. Update(e, st)
      BY <1>2, <2>2, <3>1
    <3> QED BY <1>3, <1>4, <1>5, <3>2, <3>3, DueUpdate
  <2> QED BY <1>1, <2>1, <2>2 DEF Transition
<1>7. VisitNext \/ Goto("timing", "next")
  BY DEF Transition
<1>8. Plain("next") /\ Clear({}) /\ proc["timing"].pc # "off"
  BY <1>1, <1>3, ClearNone DEF Plain
<1> QED BY <1>6, <1>7, <1>8, VisitNextMoves, TimingGoto

LEMMA ClaimKeeps ==
    ASSUME LifeInv, Claim
    PROVE  LifeInv'
<1>1. PICK l : l = proc["timing"]
  OBVIOUS
<1>2. PICK e : e = l.exec
  OBVIOUS
<1>3. /\ l.pc = "claim" /\ UNCHANGED job /\ UNCHANGED lastID /\ UNCHANGED attempts
      /\ UNCHANGED engineVars
  BY <1>1 DEF Claim
<1>4. Faithful(e) /\ e.state \in DueStates /\ Shaped(l) /\ TimingOK(l)
  BY <1>1, <1>2, <1>3, TimingIs DEF TimingOK
<1>5. clock' = clock /\ clock' \in Nat
  BY <1>3, ClockIs
<1>6. Clear({}) /\ proc["timing"].pc # "off"
  BY <1>1, <1>3, ClearNone
<1>7. CASE VisitNext /\ UNCHANGED executions
  <2>1. JobOK(job)'
    BY <1>3, SameJob
  <2>2. Sound({})
    BY <1>3, <1>5, <1>7, <2>1, StillSound
  <2> QED BY <1>6, <1>7, <2>2, VisitNextMoves
<1>8. CASE /\ Accepts(e, "Dispatching") /\ Update(e, "Dispatching")
           /\ proc' = [proc EXCEPT !["timing"].pc = "attempt", !["timing"].exec = executions'[e.at]]
  <2>1. PICK st \in ExecutionStateSet : st = "Dispatching"
    BY DEF ExecutionStateSet, LeasedStates
  <2>2. Accepts(e, st) /\ Update(e, st)
    BY <1>8, <2>1
  <2>3. Sound({})
    BY <1>3, <1>4, <1>5, <2>2, DueUpdate
  <2>4. e.at \in Instants
    BY <1>4 DEF Faithful
  <2>5. UpdateDone(e, st)
    BY <1>3, <1>5, <2>2, <2>4, UpdateStep DEF LifeInv
  <2>6. PICK new : new = executions'[e.at]
    OBVIOUS
  <2>7. /\ new.state = "Dispatching" /\ new.id = executions[e.at].id /\ new.id # 0
        /\ executions[e.at].id = e.id /\ executions[e.at].version = e.version
    BY <2>1, <2>2, <2>4, <2>5, <2>6 DEF UpdateDone, Accepts
  <2>8. new.at = e.at
    BY <2>3, <2>4, <2>6, <2>7 DEF Sound, StoreOK
  <2>9. PICK m : m = [l EXCEPT !.pc = "attempt", !.exec = new]
    OBVIOUS
  <2>10. proc' = [proc EXCEPT !["timing"] = m]
    BY <1>1, <1>8, <2>6, <2>9 DEF LifeInv, ProcOK, Goroutines, Loops
  <2>11. Shaped(m) /\ m.pc = "attempt" /\ m.exec = new /\ m.todo = l.todo
    BY <1>4, <2>9 DEF Shaped
  <2>12. TimingOK(m)'
    <3>1. \A c : Faithful(c) => Faithful(c)'
      BY <2>3, FaithfulKept DEF LifeInv, Sound
    <3>2. \A c \in m.todo : Faithful(c)' /\ c.state \in DueStates
      BY <1>4, <2>11, <3>1 DEF TimingOK
    <3>3. /\ m.exec.at \in Instants /\ executions'[m.exec.at] = m.exec
          /\ m.exec.id # 0 /\ m.exec.state = "Dispatching"
      BY <2>4, <2>6, <2>7, <2>8, <2>11
    <3> QED BY <2>11, <3>2, <3>3 DEF TimingOK
  <2>13. Resting(proc["start"], m, proc["reconcile"])
    BY <1>1, <1>3, TimingIs DEF Resting
  <2>14. NotHeld(m, proc["reconcile"])
    <3> SUFFICES ASSUME proc["reconcile"].pc = "reap", NEW i \in 1 .. Len(proc["reconcile"].plan),
                        proc["reconcile"].plan[i].exec.id = new.id
                 PROVE  FALSE
      BY <2>11 DEF NotHeld
    <3>1. PICK c : c = proc["reconcile"].plan[i].exec
      OBVIOUS
    <3>2. Lost(c)
      BY <3>1 DEF LifeInv, ProcOK, ReconcileOK
    <3>3. c.at \in Instants /\ executions[c.at].id = e.id /\ executions[c.at].state = "Dispatching"
      BY <2>7, <3>1, <3>2 DEF Lost
    <3>4. c.at = e.at /\ executions[c.at].state = e.state
      BY <1>4, <2>7, <3>3 DEF Faithful
    <3> QED BY <1>4, <3>3, <3>4 DEF DueStates
  <2> QED BY <1>6, <2>3, <2>10, <2>11, <2>12, <2>13, <2>14, TimingActs DEF Clear
<1> QED BY <1>1, <1>2, <1>7, <1>8, Zenon DEF Claim

LEMMA CreateAttemptKeeps ==
    ASSUME LifeInv, CreateAttempt
    PROVE  LifeInv'
<1>1. PICK l : l = proc["timing"]
  OBVIOUS
<1>2. PICK e : e = l.exec
  OBVIOUS
<1>3. /\ l.pc = "attempt" /\ UNCHANGED job /\ UNCHANGED lastID /\ UNCHANGED executions
      /\ UNCHANGED engineVars
  BY <1>1 DEF CreateAttempt
<1>4. /\ Shaped(l) /\ TimingOK(l) /\ e.at \in Instants /\ executions[e.at] = e
      /\ e.id # 0 /\ e.state = "Dispatching"
  BY <1>1, <1>2, <1>3, TimingIs DEF TimingOK, Held
<1>5. clock' = clock /\ clock' \in Nat /\ JobOK(job)'
  BY <1>3, ClockIs, SameJob
<1>6. StoreOK' /\ StoreMoves /\ KeepsClaims({})
  BY <1>3, <1>5, QuietStep DEF LifeInv
<1>7. CASE VisitNext /\ UNCHANGED attempts
  <2>1. Sound({})
    BY <1>3, <1>5, <1>7, StillSound
  <2>2. Clear({}) /\ proc["timing"].pc # "off"
    BY <1>1, <1>3, ClearNone
  <2> QED BY <1>7, <2>1, <2>2, VisitNextMoves
<1>8. ASSUME NEW n, attempts' = attempts \cup {[of |-> e.id, number |-> n]}, Goto("timing", "deliver")
      PROVE  LifeInv'
  <2>1. PICK new : new = [of |-> e.id, number |-> n]
    OBVIOUS
  <2>2. attempts' = attempts \cup {new} /\ new.of = e.id
    BY <1>8, <2>1
  <2>3. AttemptsOK'
    <3>1. IsFiniteSet(attempts')
      <4>1. IsFiniteSet(attempts) /\ IsFiniteSet({new})
        BY FS_Singleton DEF LifeInv, AttemptsOK
      <4> QED BY <2>2, <4>1, FS_Union
    <3>2. new.of \in 1 .. lastID
      <4>1. executions[e.at].id <= lastID /\ executions[e.at].id \in Nat /\ lastID \in Nat
        BY <1>4 DEF LifeInv, StoreOK, Record
      <4> QED BY <1>4, <2>2, <4>1
    <3>3. \A a \in attempts' : a.of \in 1 .. lastID'
      BY <1>3, <2>2, <3>2 DEF LifeInv, AttemptsOK
    <3>4. \A a \in attempts' : \E t \in Instants : executions'[t].id # 0 /\ executions'[t].id = a.of
      BY <1>3, <1>4, <2>2, OwnedMeans DEF LifeInv, AttemptsOK
    <3>5. AttemptsOwned'
      BY <3>4 DEF AttemptsOwned, Stored
    <3> QED BY <3>1, <3>3, <3>5 DEF AttemptsOK
  <2>4. PICK a : a = proc["admin"]
    OBVIOUS
  <2>5. PICK r : r = proc["reconcile"]
    OBVIOUS
  <2>6. PICK s : s = proc["start"]
    OBVIOUS
  <2>7. PICK m : m = [l EXCEPT !.pc = "deliver"]
    OBVIOUS
  <2>8. Shaped(m) /\ m.pc = "deliver" /\ m.exec = e /\ m.todo = l.todo
    <3>1. Planned(m, l, "deliver", l.plan)
      BY <1>4, <2>7, Edited
    <3> QED BY <1>2, <1>4, <3>1, PlannedShape DEF Shaped
  <2>9. /\ Shaped(a) /\ Shaped(r) /\ Shaped(s) /\ AdminOK(a) /\ ReconcileOK(r) /\ StartOK(s)
        /\ Resting(s, l, r) /\ NotHeld(l, r)
    BY <1>1, <2>4, <2>5, <2>6 DEF LifeInv, ProcOK, Goroutines, Loops
  <2>10. Resting(s, m, r) /\ NotHeld(m, r)
    BY <1>2, <1>3, <2>8, <2>9 DEF Resting, NotHeld, Held
  <2>11. AdminOK(a)'
    BY <1>6, <2>9, AdminKept DEF LifeInv
  <2>12. \A c : Faithful(c) => Faithful(c)'
    BY <1>6, FaithfulKept DEF LifeInv
  <2>13. TimingOK(m)'
    BY <1>3, <1>4, <2>8, <2>12 DEF TimingOK, Held
  <2>14. ReconcileOK(r)'
    <3>1. PurgeOK(r.plan) => PurgeOK(r.plan)'
      <4> SUFFICES ASSUME PurgeOK(r.plan), r.plan # <<>> PROVE PurgeOK(r.plan)'
        BY DEF PurgeOK
      <4>1. PICK x : /\ Faithful(x) /\ x.state \in TerminalStates
                     /\ PurgeList(r.plan, x, {b \in attempts : b.of = x.id})
        BY DEF PurgeOK
      <4>2. x.id # e.id
        BY <1>4, <4>1 DEF Faithful, TerminalStates
      <4>3. {b \in attempts' : b.of = x.id} = {b \in attempts : b.of = x.id}
        BY <2>2, <4>2
      <4> QED BY <2>12, <4>1, <4>3 DEF PurgeOK
    <3>2. \A c : Lost(c) => Lost(c)'
      BY <1>3 DEF Lost
    <3> QED BY <2>9, <2>12, <3>1, <3>2 DEF ReconcileOK
  <2>15. /\ proc' = [p \in Goroutines |-> proc'[p]]
         /\ proc'["admin"] = a /\ proc'["timing"] = m /\ proc'["reconcile"] = r /\ proc'["start"] = s
    BY <1>1, <1>8, <2>4, <2>5, <2>6, <2>7 DEF Goto, LifeInv, ProcOK, Goroutines, Loops
  <2>16. ProcOK'
    BY <2>8, <2>9, <2>10, <2>11, <2>13, <2>14, <2>15, ProcHolds
  <2> QED BY <1>5, <1>6, <2>3, <2>16 DEF LifeInv
<1> QED BY <1>1, <1>2, <1>7, <1>8 DEF CreateAttempt

LEMMA DeliverKeeps ==
    ASSUME LifeInv, Deliver
    PROVE  LifeInv'
<1>1. PICK l : l = proc["timing"]
  OBVIOUS
<1>2. PICK e : e = l.exec
  OBVIOUS
<1>3. /\ l.pc = "deliver" /\ UNCHANGED job /\ UNCHANGED lastID /\ UNCHANGED attempts
      /\ UNCHANGED engineVars
  BY <1>1 DEF Deliver
<1>4. /\ NotHeld(l, proc["reconcile"]) /\ e.at \in Instants /\ executions[e.at] = e
      /\ e.id # 0 /\ e.state = "Dispatching" /\ Held(l)
  BY <1>1, <1>2, <1>3, TimingIs DEF TimingOK, Held
<1>5. clock' = clock /\ JobOK(job)'
  BY <1>3, ClockIs, SameJob
<1>6. PICK st \in ExecutionStateSet : st = "Running"
  BY DEF ExecutionStateSet, LeasedStates
<1>7. UpdateDone(e, st)
  <2>1. Update(e, st)
    BY <1>1, <1>2, <1>6 DEF Deliver
  <2> QED BY <1>3, <1>4, <1>5, <2>1, UpdateStep DEF LifeInv
<1>8. PICK T : T = {e.at}
  OBVIOUS
<1>9. Sound(T)
  <2>1. KeepsClaims(T)
    BY <1>7, <1>8 DEF UpdateDone, KeepsClaims
  <2> QED BY <1>3, <1>5, <1>7, <2>1, SameOwners DEF UpdateDone
<1>10. Clear(T)
  <2> SUFFICES ASSUME proc["reconcile"].pc = "reap", NEW i \in 1 .. Len(proc["reconcile"].plan),
                      proc["reconcile"].plan[i].exec.at = e.at
               PROVE  FALSE
    BY <1>8 DEF Clear
  <2>1. Lost(proc["reconcile"].plan[i].exec)
    BY DEF LifeInv, ProcOK, ReconcileOK
  <2> QED BY <1>2, <1>4, <2>1 DEF Lost, NotHeld
<1>11. VisitNext \/ Goto("timing", "next")
  BY DEF Deliver
<1>12. Plain("next") /\ proc["timing"].pc # "off"
  BY <1>1, <1>3 DEF Plain
<1> QED BY <1>9, <1>10, <1>11, <1>12, VisitNextMoves, TimingGoto

LEMMA MaterializeNextKeeps ==
    ASSUME LifeInv, MaterializeNext
    PROVE  LifeInv'
<1>1. PICK t0 : t0 = nextOccurrence(proc["timing"].job.sched, proc["timing"].exec.at).at
  OBVIOUS
<1>2. /\ VisitNext /\ UNCHANGED job /\ UNCHANGED attempts /\ UNCHANGED engineVars
      /\ proc["timing"].pc = "next"
  BY DEF MaterializeNext
<1>3. clock' = clock /\ clock' \in Nat /\ JobOK(job)'
  BY <1>2, ClockIs, SameJob
<1>4. CASE Create(t0)
  <2>1. Sound({})
    BY <1>2, <1>3, <1>4, CreateSound
  <2> QED BY <1>2, <2>1, ClearNone, VisitNextMoves
<1>5. CASE UNCHANGED <<executions, lastID>>
  <2>1. Sound({})
    BY <1>2, <1>3, <1>5, StillSound
  <2> QED BY <1>2, <2>1, ClearNone, VisitNextMoves
<1> QED BY <1>1, <1>4, <1>5 DEF MaterializeNext

LEMMA NextWakeAtKeeps ==
    ASSUME LifeInv, NextWakeAt
    PROVE  LifeInv'
<1>1. /\ Quiet /\ UNCHANGED engineVars /\ Become("timing", Rest("wait"))
      /\ proc["timing"].pc # "off"
  BY DEF NextWakeAt
<1>2. Sound({})
  BY <1>1, ClockIs, QuietSound
<1>3. Plain("wait")
  BY DEF Plain
<1> QED BY <1>1, <1>2, <1>3, TimingFresh

LEMMA WaitKeeps ==
    ASSUME LifeInv, Wait
    PROVE  LifeInv'
<1>1. Quiet /\ UNCHANGED engineVars /\ Goto("timing", "top") /\ proc["timing"].pc # "off"
  BY DEF Wait
<1>2. Sound({})
  BY <1>1, ClockIs, QuietSound
<1>3. Plain("top")
  BY DEF Plain
<1> QED BY <1>1, <1>2, <1>3, ClearNone, TimingGoto

-----------------------------------------------------------------------------
(* The reconcile loop.                                                       *)

LEMMA ReconcileIs ==
    ASSUME LifeInv, NEW l, l = proc["reconcile"]
    PROVE  /\ Shaped(l) /\ ReconcileOK(l) /\ Resting(proc["start"], proc["timing"], l)
           /\ NotHeld(proc["timing"], l) /\ TimingOK(proc["timing"])
BY DEF LifeInv, ProcOK, Goroutines, Loops

\* A step of the reconcile loop, which is not off, that touches no claim.
LEMMA ReconcileMoves ==
    ASSUME LifeInv, NEW m, proc' = [proc EXCEPT !["reconcile"] = m], Shaped(m), ReconcileOK(m),
           NotHeld(proc["timing"], m), Sound({}), proc["reconcile"].pc # "off"
    PROVE  LifeInv'
<1>1. PICK T : T = {}
  OBVIOUS
<1>2. Sound(T) /\ (Held(proc["timing"]) => proc["timing"].exec.at \notin T)
  BY <1>1
<1>3. ReconcileOK(m)'
  BY ReconcileKept DEF LifeInv, Sound
<1>4. Resting(proc["start"], proc["timing"], m)
  BY ReconcileIs DEF Resting
<1> QED BY <1>2, <1>3, <1>4, ReconcileActs

\* Where the pass is when it is not reaping.
Sweeping(m) == Shaped(m) /\ ReconcileOK(m) /\ m.pc # "reap"

LEMMA EmptyPurge == PurgeOK(<<>>)
BY DEF PurgeOK

LEMMA SweepOK ==
    ASSUME LifeInv, NEW now, NEW m, m = Sweep(now)
    PROVE  Sweeping(m)
<1>1. PICK expired : expired = ExpiredExecutions(now - cfg.retention)
  OBVIOUS
<1>2. \A e \in expired : Faithful(e) /\ e.state \in TerminalStates
  <2>1. expired \subseteq InStates(TerminalStates)
    BY <1>1 DEF ExpiredExecutions
  <2> QED BY <2>1, StoredFaithful DEF LifeInv, InStates
<1>3. CASE m = Rest("rest")
  <2>1. PICK pc : pc = "rest"
    OBVIOUS
  <2>2. Fresh(m, pc)
    BY <1>3, <2>1, RestIs
  <2> QED BY <2>1, <2>2 DEF Fresh, Sweeping, ReconcileOK
<1>4. PICK m0 : m0 = Rest("purge")
  OBVIOUS
<1>5. CASE m = [m0 EXCEPT !.todo = expired]
  <2>1. Fresh(m0, "purge")
    BY <1>4, RestIs
  <2>2. Shaped(m) /\ m.pc = "purge" /\ m.todo = expired /\ m.plan = <<>>
    BY <1>5, <2>1 DEF Fresh, Shaped
  <2>3. PurgeOK(m.plan)
    BY <2>2, EmptyPurge
  <2> QED BY <1>2, <2>2, <2>3 DEF Sweeping, ReconcileOK
<1> QED BY <1>1, <1>3, <1>4, <1>5 DEF Sweep

LEMMA EnsureOK ==
    ASSUME LifeInv, NEW now, NEW m, m = Ensure(now)
    PROVE  Sweeping(m)
<1>1. CASE m = Sweep(now)
  BY <1>1, SweepOK
<1>2. PICK m0 : m0 = Rest("ensure")
  OBVIOUS
<1>3. CASE m = [m0 EXCEPT !.now = now, !.job = job]
  <2>1. Fresh(m0, "ensure")
    BY <1>2, RestIs
  <2>2. Shaped(m) /\ m.pc = "ensure"
    BY <1>3, <2>1 DEF Fresh, Shaped
  <2> QED BY <2>2 DEF Sweeping, ReconcileOK
<1> QED BY <1>1, <1>2, <1>3 DEF Ensure

LEMMA SweepMoves ==
    ASSUME LifeInv, NEW m, Sweeping(m), Become("reconcile", m), Sound({}), proc["reconcile"].pc # "off"
    PROVE  LifeInv'
<1>1. NotHeld(proc["timing"], m)
  BY DEF Sweeping, NotHeld
<1> QED BY <1>1, ReconcileMoves DEF Sweeping, Become

LEMMA ReconcileKeeps ==
    ASSUME LifeInv, Reconcile
    PROVE  LifeInv'
<1>1. Quiet /\ UNCHANGED engineVars /\ proc["reconcile"].pc # "off"
  BY DEF Reconcile
<1>2. Sound({})
  BY <1>1, ClockIs, QuietSound
<1>3. CASE UNCHANGED proc
  BY <1>2, <1>3, StoreActs
<1>4. CASE Become("reconcile", Ensure(clock))
  <2>1. PICK m : m = Ensure(clock)
    OBVIOUS
  <2>2. Sweeping(m)
    BY <2>1, EnsureOK
  <2>3. Become("reconcile", m)
    BY <1>4, <2>1
  <2> QED BY <1>1, <1>2, <2>2, <2>3, SweepMoves
<1>5. CASE Become("reconcile", Sweep(clock))
  <2>1. PICK m : m = Sweep(clock)
    OBVIOUS
  <2>2. Sweeping(m)
    BY <2>1, SweepOK
  <2>3. Become("reconcile", m)
    BY <1>5, <2>1
  <2> QED BY <1>1, <1>2, <2>2, <2>3, SweepMoves
<1>6. PICK lost : lost = InOrder(ExpiredLeases)
  OBVIOUS
<1>7. PICK plan : plan = [i \in DOMAIN lost |-> Abandon(lost[i])]
  OBVIOUS
<1>8. PICK m0 : m0 = Rest("reap")
  OBVIOUS
<1>9. PICK m : m = [m0 EXCEPT !.now = clock, !.plan = plan]
  OBVIOUS
<1>10. CASE Become("reconcile", m)
  <2>1. PICK S : S = ExpiredLeases
    OBVIOUS
  <2>2. /\ S \subseteq Stored
        /\ \A e \in S : e.state = "Dispatching" /\ proc["timing"].exec.id # e.id
    BY <2>1 DEF ExpiredLeases, InStates
  <2>3. Copies(lost) /\ \A i \in 1 .. Len(lost) : lost[i] \in S
    BY <1>6, <2>1, <2>2, CopiesInOrder DEF LifeInv
  <2>4. Maps(plan, lost, "abandon")
    <3>1. Listing(lost)
      BY <2>3 DEF Copies
    <3>2. PICK op : op = "abandon"
      OBVIOUS
    <3>3. plan = [i \in DOMAIN lost |-> [op |-> op, exec |-> lost[i]]]
      BY <1>7, <3>2 DEF Abandon
    <3> QED BY <3>1, <3>2, <3>3, PlanMaps
  <2>5. Shaped(m) /\ m.pc = "reap" /\ m.plan = plan
    <3>1. /\ m0 = [pc |-> m0.pc, now |-> m0.now, job |-> m0.job, exec |-> m0.exec,
                   todo |-> m0.todo, plan |-> m0.plan]
          /\ m0.pc = "reap"
      BY <1>8, RestIs DEF Fresh, Shaped
    <3>2. Listing(plan)
      BY <2>4 DEF Maps
    <3> QED BY <1>9, <3>1, <3>2 DEF Shaped
  <2>6. \A e \in Stored : e.at \in Instants /\ e.id # 0 /\ executions[e.at] = e
    BY StoredFaithful DEF LifeInv
  <2>7. \A i \in 1 .. Len(plan) : plan[i].op = "abandon" /\ plan[i].exec = lost[i] /\ lost[i] \in S
                                  /\ i \in 1 .. Len(lost)
    BY <2>3, <2>4 DEF Maps
  <2>8. \A i \in 1 .. Len(plan) : Lost(plan[i].exec)
    BY <2>2, <2>6, <2>7 DEF Lost
  <2>9. \A i, k \in 1 .. Len(plan) : plan[i].exec.at = plan[k].exec.at => i = k
    BY <2>3, <2>7 DEF Copies
  <2>10. ReconcileOK(m)
    BY <2>5, <2>7, <2>8, <2>9 DEF ReconcileOK
  <2>11. NotHeld(proc["timing"], m)
    BY <2>2, <2>5, <2>7 DEF NotHeld
  <2> QED BY <1>1, <1>2, <1>10, <2>5, <2>10, <2>11, ReconcileMoves DEF Become
<1> QED BY <1>3, <1>4, <1>5, <1>6, <1>7, <1>8, <1>9, <1>10, Zenon DEF Reconcile

LEMMA ReapKeeps ==
    ASSUME LifeInv, Perform("reconcile", "reap")
    PROVE  LifeInv'
<1>1. PICK l : l = proc["reconcile"]
  OBVIOUS
<1>2. PICK p \in Goroutines : p = "reconcile"
  BY DEF Goroutines, Loops
<1>3. PICK pc : pc = "reap"
  OBVIOUS
<1>4. Performed(p, pc, l)
  <2>1. Perform(p, pc) /\ l = proc[p]
    BY <1>1, <1>2, <1>3
  <2> QED BY <2>1, PerformCases
<1>5. PICK c, m, rest :
          /\ c = l.plan[1] /\ 1 \in 1 .. Len(l.plan) /\ Shorter(l.plan, rest) /\ Listing(rest)
          /\ Planned(m, l, pc, rest)
          /\ proc' = [proc EXCEPT ![p] = m]
          /\ Apply(c) \/ Quiet
  BY <1>4 DEF Performed
<1>6. l.pc = "reap" /\ clock' = clock /\ clock' \in Nat
  BY <1>3, <1>4 DEF Performed
<1>7. ReconcileOK(l) /\ NotHeld(proc["timing"], l) /\ TimingOK(proc["timing"])
      /\ Resting(proc["start"], proc["timing"], l)
  BY <1>1, ReconcileIs
<1>8. Shaped(m) /\ m.pc = "reap" /\ m.plan = rest
  BY <1>3, <1>5, PlannedShape
<1>9. PICK e : e = c.exec
  OBVIOUS
<1>10. /\ Lost(e) /\ c.op = "abandon"
       /\ \A i \in 1 .. Len(l.plan) : l.plan[i].exec.at = e.at => i = 1
       /\ \A i \in 1 .. Len(l.plan) : l.plan[i].op = "abandon" /\ Lost(l.plan[i].exec)
       /\ \A i, k \in 1 .. Len(l.plan) : l.plan[i].exec.at = l.plan[k].exec.at => i = k
  BY <1>5, <1>6, <1>7, <1>9 DEF ReconcileOK
<1>11. /\ \A i \in 1 .. Len(rest) : rest[i].op = "abandon" /\ Lost(rest[i].exec) /\ rest[i].exec.at # e.at
       /\ \A i, k \in 1 .. Len(rest) : rest[i].exec.at = rest[k].exec.at => i = k
  <2>1. \A i \in 1 .. Len(rest) : rest[i] = l.plan[i + 1] /\ i + 1 \in 1 .. Len(l.plan)
    BY <1>5 DEF Shorter
  <2>2. \A i \in 1 .. Len(rest) : rest[i].op = "abandon" /\ Lost(rest[i].exec) /\ rest[i].exec.at # e.at
    <3> SUFFICES ASSUME NEW i \in 1 .. Len(rest)
                 PROVE  rest[i].op = "abandon" /\ Lost(rest[i].exec) /\ rest[i].exec.at # e.at
      OBVIOUS
    <3>1. PICK k \in 1 .. Len(l.plan) : k = i + 1 /\ k # 1
      BY <2>1
    <3>2. rest[i] = l.plan[k]
      BY <2>1, <3>1
    <3> QED BY <1>10, <3>1, <3>2
  <2>3. \A i, k \in 1 .. Len(rest) : rest[i].exec.at = rest[k].exec.at => i = k
    <3> SUFFICES ASSUME NEW i \in 1 .. Len(rest), NEW k \in 1 .. Len(rest),
                        rest[i].exec.at = rest[k].exec.at
                 PROVE  i = k
      OBVIOUS
    <3>1. PICK x \in 1 .. Len(l.plan) : x = i + 1
      BY <2>1
    <3>2. PICK y \in 1 .. Len(l.plan) : y = k + 1
      BY <2>1
    <3>3. rest[i] = l.plan[x] /\ rest[k] = l.plan[y]
      BY <2>1, <3>1, <3>2
    <3>4. x = y
      BY <1>10, <3>3
    <3> QED BY <3>1, <3>2, <3>4
  <2> QED BY <2>2, <2>3
<1>12. ReconcileOK(m)
  BY <1>8, <1>11 DEF ReconcileOK
<1>13. NotHeld(proc["timing"], m)
  <2>1. \A i \in 1 .. Len(rest) : \E k \in 1 .. Len(l.plan) : rest[i] = l.plan[k]
    BY <1>5 DEF Shorter
  <2> QED BY <1>6, <1>7, <1>8, <2>1 DEF NotHeld
<1>14. CASE Quiet
  <2>1. Sound({})
    BY <1>6, <1>14, QuietSound
  <2> QED BY <1>1, <1>2, <1>5, <1>6, <1>8, <1>12, <1>13, <2>1, ReconcileMoves
<1>15. CASE Apply(c)
  <2>1. /\ Update(executions[e.at], "Ready") /\ UNCHANGED job
        /\ UNCHANGED lastID /\ UNCHANGED attempts
    BY <1>9, <1>10, <1>15, ApplyCases
  <2>2. PICK now : now = executions[e.at]
    OBVIOUS
  <2>3. PICK st \in ExecutionStateSet : st = "Ready"
    BY DEF ExecutionStateSet, DueStates
  <2>4. Update(now, st) /\ e.at \in Instants /\ now.id = e.id /\ e.id # 0
    BY <1>10, <2>1, <2>2, <2>3 DEF Lost
  <2>5. now.at = e.at
    BY <2>2, <2>4 DEF LifeInv, StoreOK
  <2>6. UpdateDone(now, st)
    BY <1>6, <2>1, <2>4, <2>5, UpdateStep DEF LifeInv
  <2>7. PICK T : T = {e.at}
    OBVIOUS
  <2>8. KeepsClaims(T)
    BY <2>5, <2>6, <2>7 DEF UpdateDone, KeepsClaims
  <2>9. JobOK(job)'
    BY <2>1, SameJob
  <2>10. Sound(T)
    BY <2>1, <2>6, <2>8, <2>9, SameOwners DEF UpdateDone
  <2>11. ReconcileOK(m)'
    <3>1. m.pc = "reap" => \A i \in 1 .. Len(m.plan) : m.plan[i].exec.at \notin T
      BY <1>8, <1>11, <2>7
    <3>2. attempts' \subseteq attempts
      BY <2>1
    <3> QED BY <1>12, <2>8, <2>10, <3>1, <3>2, ReconcileKept DEF LifeInv, Sound
  <2>12. Held(proc["timing"]) => proc["timing"].exec.at \notin T
    <3> SUFFICES ASSUME Held(proc["timing"]), proc["timing"].exec.at = e.at PROVE FALSE
      BY <2>7
    <3>1. proc["timing"].exec.id = e.id
      BY <1>7, <2>2, <2>4 DEF TimingOK
    <3> QED BY <1>5, <1>6, <1>7, <1>9, <3>1 DEF NotHeld
  <2>13. Resting(proc["start"], proc["timing"], m)
    BY <1>6, <1>7, <1>8 DEF Resting
  <2>14. proc' = [proc EXCEPT !["reconcile"] = m]
    BY <1>2, <1>5
  <2> QED BY <1>8, <1>13, <2>10, <2>11, <2>12, <2>13, <2>14, ReconcileActs
<1> QED BY <1>5, <1>14, <1>15

LEMMA ReapedKeeps ==
    ASSUME LifeInv, Reaped
    PROVE  LifeInv'
<1>1. Quiet /\ UNCHANGED engineVars /\ proc["reconcile"].pc # "off"
  BY DEF Reaped
<1>2. Sound({})
  BY <1>1, ClockIs, QuietSound
<1>3. PICK now : now = proc["reconcile"].now
  OBVIOUS
<1>4. PICK m : m = Ensure(now)
  OBVIOUS
<1>5. Sweeping(m)
  BY <1>4, EnsureOK
<1>6. Become("reconcile", m)
  BY <1>3, <1>4 DEF Reaped
<1> QED BY <1>1, <1>2, <1>5, <1>6, SweepMoves

LEMMA EnsurePendingKeeps ==
    ASSUME LifeInv, EnsurePending
    PROVE  LifeInv'
<1>1. PICK t0 : t0 = nextOccurrence(proc["reconcile"].job.sched, proc["reconcile"].now).at
  OBVIOUS
<1>2. /\ UNCHANGED job /\ UNCHANGED attempts /\ UNCHANGED engineVars
      /\ proc["reconcile"].pc # "off"
  BY DEF EnsurePending
<1>3. clock' = clock /\ clock' \in Nat /\ JobOK(job)'
  BY <1>2, ClockIs, SameJob
<1>4. Sound({})
  <2>1. CASE Create(t0)
    BY <1>2, <1>3, <2>1, CreateSound
  <2>2. CASE UNCHANGED <<executions, lastID>>
    BY <1>2, <1>3, <2>2, StillSound
  <2> QED BY <1>1, <2>1, <2>2 DEF EnsurePending
<1>5. PICK now : now = proc["reconcile"].now
  OBVIOUS
<1>6. PICK m : m = Sweep(now)
  OBVIOUS
<1>7. Sweeping(m)
  BY <1>6, SweepOK
<1>8. Become("reconcile", m)
  BY <1>5, <1>6 DEF EnsurePending
<1> QED BY <1>2, <1>4, <1>7, <1>8, SweepMoves

LEMMA OldestIn ==
    ASSUME NEW S, S # {}, \A e \in S : e.updated \in Nat
    PROVE  (CHOOSE x \in S : \A o \in S : x.updated <= o.updated) \in S
<1>1. PICK U : U = {e.updated : e \in S}
  OBVIOUS
<1>2. U \subseteq Nat /\ U # {}
  BY <1>1
<1>3. PICK u \in U : \A n \in U : u <= n
  BY <1>2, LeastNumber
<1>4. \E x \in S : \A o \in S : x.updated <= o.updated
  BY <1>1, <1>3
<1> QED BY <1>4

LEMMA PurgeExecutionKeeps ==
    ASSUME LifeInv, PurgeExecution
    PROVE  LifeInv'
<1>1. PICK l : l = proc["reconcile"]
  OBVIOUS
<1>2. /\ Quiet /\ UNCHANGED engineVars /\ proc["reconcile"].pc # "off" /\ l.pc = "purge"
      /\ l.plan = <<>>
  BY <1>1 DEF PurgeExecution, Finished
<1>3. Sound({})
  BY <1>2, ClockIs, QuietSound
<1>4. Shaped(l) /\ ReconcileOK(l)
  BY <1>1, ReconcileIs
<1>5. CASE Become("reconcile", Rest("rest"))
  <2>1. PICK pc : pc = "rest"
    OBVIOUS
  <2>2. PICK m : m = Rest(pc)
    OBVIOUS
  <2>3. Fresh(m, pc)
    BY <2>2, RestIs
  <2>4. Sweeping(m) /\ Become("reconcile", m)
    BY <1>5, <2>1, <2>2, <2>3 DEF Fresh, Sweeping, ReconcileOK
  <2> QED BY <1>2, <1>3, <2>4, SweepMoves
<1>6. PICK S : S = l.todo
  OBVIOUS
<1>7. PICK e : e = CHOOSE x \in S : \A o \in S : x.updated <= o.updated
  OBVIOUS
<1>8. \A x \in S : Faithful(x) /\ x.state \in TerminalStates
  BY <1>2, <1>4, <1>6 DEF ReconcileOK
<1>9. S # {} => Faithful(e) /\ e.state \in TerminalStates
  <2>1. \A x \in S : x.updated \in Nat
    BY <1>8 DEF Faithful
  <2>2. S # {} => e \in S
    BY <1>7, <2>1, OldestIn
  <2> QED BY <1>8, <2>2
<1>10. PICK todo : todo = l.todo \ {e}
  OBVIOUS
<1>11. CASE proc' = [proc EXCEPT !["reconcile"].todo = @ \ {e}]
  <2>1. PICK m : m = [l EXCEPT !.todo = todo]
    OBVIOUS
  <2>2. proc' = [proc EXCEPT !["reconcile"] = m]
    BY <1>1, <1>10, <1>11, <2>1 DEF LifeInv, ProcOK, Goroutines, Loops
  <2>3. Shaped(m) /\ m.pc = "purge" /\ m.todo = todo /\ m.plan = l.plan
    BY <1>2, <1>4, <2>1 DEF Shaped
  <2>4. PurgeOK(m.plan)
    BY <1>2, <2>3, EmptyPurge
  <2>5. Sweeping(m)
    BY <1>6, <1>8, <1>10, <2>3, <2>4 DEF Sweeping, ReconcileOK
  <2> QED BY <1>2, <1>3, <2>2, <2>5, SweepMoves DEF Become
<1>12. PICK owned : owned = {a \in attempts : a.of = e.id}
  OBVIOUS
<1>13. PICK plan : plan = Purge(e, owned)
  OBVIOUS
<1>14. PurgeList(plan, e, owned)
  <2>1. IsFiniteSet(owned)
    BY <1>12, FS_Subset DEF LifeInv, AttemptsOK
  <2> QED BY <1>13, <2>1, PurgeLists
<1>15. CASE /\ S # {}
            /\ proc' = [proc EXCEPT !["reconcile"].todo = @ \ {e}, !["reconcile"].plan = plan]
  <2>1. PICK m : m = [l EXCEPT !.todo = todo, !.plan = plan]
    OBVIOUS
  <2>2. proc' = [proc EXCEPT !["reconcile"] = m]
    BY <1>1, <1>10, <1>15, <2>1 DEF LifeInv, ProcOK, Goroutines, Loops
  <2>3. Shaped(m) /\ m.pc = "purge" /\ m.todo = todo /\ m.plan = plan
    BY <1>2, <1>4, <1>14, <2>1 DEF Shaped, PurgeList
  <2>4. PurgeOK(m.plan)
    BY <1>9, <1>12, <1>14, <1>15, <2>3 DEF PurgeOK
  <2>5. Sweeping(m)
    BY <1>6, <1>8, <1>10, <2>3, <2>4 DEF Sweeping, ReconcileOK
  <2> QED BY <1>2, <1>3, <2>2, <2>5, SweepMoves DEF Become
<1> QED BY <1>1, <1>5, <1>6, <1>7, <1>11, <1>12, <1>13, <1>15 DEF PurgeExecution

LEMMA EmptyIs ==
    ASSUME NEW s, Listing(s), Len(s) = 0
    PROVE  s = <<>>
<1>1. PICK e : e = <<>>
  OBVIOUS
<1>2. Listing(e) /\ Len(e) = 0
  BY <1>1, EmptyListing
<1>3. e = [i \in 1 .. 0 |-> e[i]] /\ s = [i \in 1 .. 0 |-> s[i]] /\ 1 .. 0 = {}
  BY <1>2 DEF Listing
<1> QED BY <1>1, <1>3

\* After the deletion of an attempt the rest is the list of what is left.
LEMMA PurgeGoesOn ==
    ASSUME NEW s, NEW e, NEW owned, PurgeList(s, e, owned), NEW rest, Shorter(s, rest), Len(s) # 1,
           NEW left, left = owned \ {s[1].attempt}
    PROVE  PurgeList(rest, e, left) /\ s[1].op = "deleteAttempt"
<1>t. Len(s) \in Nat /\ Len(s) > 1 /\ Len(rest) = Len(s) - 1 /\ Len(rest) \in Nat /\ Listing(rest)
  BY DEF PurgeList, Listing, Shorter
<1>1. \A i \in 1 .. Len(rest) : rest[i] = s[i + 1]
  BY DEF Shorter
<1>2. rest[Len(rest)] = DeleteExecution(e)
  <2>1. Len(rest) \in 1 .. Len(rest) /\ Len(rest) + 1 = Len(s)
    BY <1>t
  <2>2. rest[Len(rest)] = s[Len(rest) + 1]
    BY <1>1, <2>1
  <2> QED BY <2>1, <2>2 DEF PurgeList
<1>3. \A i \in 1 .. Len(rest) - 1 : rest[i].op = "deleteAttempt"
  <2> SUFFICES ASSUME NEW i \in 1 .. Len(rest) - 1 PROVE rest[i].op = "deleteAttempt"
    OBVIOUS
  <2>1. PICK k \in 1 .. Len(s) - 1 : k = i + 1 /\ i \in 1 .. Len(rest)
    BY <1>t
  <2>2. rest[i] = s[k]
    BY <1>1, <2>1
  <2> QED BY <2>2 DEF PurgeList
<1>4. \A a \in left : \E i \in 1 .. Len(rest) - 1 : rest[i].attempt = a
  <2> SUFFICES ASSUME NEW a \in left PROVE \E i \in 1 .. Len(rest) - 1 : rest[i].attempt = a
    OBVIOUS
  <2>1. PICK k \in 1 .. Len(s) - 1 : s[k].attempt = a
    BY DEF PurgeList
  <2>2. k # 1
    BY <2>1
  <2>3. PICK i \in 1 .. Len(rest) - 1 : k = i + 1 /\ i \in 1 .. Len(rest)
    <3>1. k - 1 \in 1 .. Len(rest) - 1 /\ k = (k - 1) + 1 /\ k - 1 \in 1 .. Len(rest)
      BY <1>t, <2>2
    <3> QED BY <3>1
  <2>4. rest[i] = s[k]
    BY <1>1, <2>3
  <2> QED BY <2>1, <2>4
<1>5. s[1].op = "deleteAttempt"
  <2>1. 1 \in 1 .. Len(s) - 1
    BY <1>t
  <2> QED BY <2>1 DEF PurgeList
<1> QED BY <1>t, <1>2, <1>3, <1>4, <1>5 DEF PurgeList

LEMMA PurgeCallKeeps ==
    ASSUME LifeInv, PurgeCall
    PROVE  LifeInv'
<1>1. PICK l : l = proc["reconcile"]
  OBVIOUS
<1>2. /\ UNCHANGED engineVars /\ proc["reconcile"].pc # "off" /\ l.pc = "purge" /\ l.plan # <<>>
  BY <1>1 DEF PurgeCall, Finished
<1>3. clock' = clock /\ clock' \in Nat
  BY <1>2, ClockIs
<1>4. Shaped(l) /\ ReconcileOK(l)
  BY <1>1, ReconcileIs
<1>5. PICK rest : rest = Tail(l.plan)
  OBVIOUS
<1>6. PICK c : c = Head(l.plan)
  OBVIOUS
<1>7. Shorter(l.plan, rest) /\ c = l.plan[1]
  BY <1>2, <1>4, <1>5, <1>6, TailShorter DEF Shaped
<1>8. PICK e : /\ Faithful(e) /\ e.state \in TerminalStates
               /\ PurgeList(l.plan, e, {a \in attempts : a.of = e.id})
  BY <1>2, <1>4 DEF ReconcileOK, PurgeOK
<1>9. \A x \in l.todo : Faithful(x) /\ x.state \in TerminalStates
  BY <1>2, <1>4 DEF ReconcileOK
<1>10. CASE /\ UNCHANGED storeVars /\ UNCHANGED ran
            /\ proc' = [proc EXCEPT !["reconcile"].plan = <<>>]
  <2>1. Sound({})
    BY <1>3, <1>10, QuietSound DEF Quiet
  <2>2. PICK none : none = <<>>
    OBVIOUS
  <2>3. PICK m : m = [l EXCEPT !.plan = none]
    OBVIOUS
  <2>4. proc' = [proc EXCEPT !["reconcile"] = m]
    BY <1>1, <1>10, <2>2, <2>3
  <2>5. Planned(m, l, l.pc, none) /\ Listing(none)
    BY <1>4, <2>2, <2>3, Edited, EmptyListing
  <2>6. Shaped(m) /\ m.pc = "purge" /\ m.todo = l.todo /\ m.plan = <<>>
    BY <1>2, <2>2, <2>5, PlannedShape
  <2>7. PurgeOK(m.plan)
    BY <2>6, EmptyPurge
  <2>8. Sweeping(m)
    BY <1>9, <2>6, <2>7 DEF Sweeping, ReconcileOK
  <2> QED BY <1>2, <2>1, <2>4, <2>8, SweepMoves DEF Become
<1>11. CASE Apply(c) /\ proc' = [proc EXCEPT !["reconcile"].plan = rest]
  <2>1. PICK m : m = [l EXCEPT !.plan = rest]
    OBVIOUS
  <2>2. proc' = [proc EXCEPT !["reconcile"] = m]
    BY <1>1, <1>11, <2>1
  <2>3. Planned(m, l, l.pc, rest) /\ Listing(rest)
    BY <1>4, <1>7, <2>1, Edited DEF Shorter
  <2>4. Shaped(m) /\ m.pc = "purge" /\ m.todo = l.todo /\ m.plan = rest
    BY <1>2, <2>3, PlannedShape
  <2>5. Sound({}) /\ PurgeOK(rest)'
    <3>1. CASE Len(l.plan) # 1
      <4>1. PICK owned : owned = {a \in attempts : a.of = e.id}
        OBVIOUS
      <4>2. PICK left : left = owned \ {c.attempt}
        OBVIOUS
      <4>3. PurgeList(rest, e, left) /\ c.op = "deleteAttempt"
        BY <1>7, <1>8, <3>1, <4>1, <4>2, PurgeGoesOn
      <4>4. /\ attempts' = attempts \ {c.attempt}
            /\ UNCHANGED job /\ UNCHANGED executions /\ UNCHANGED lastID
        BY <1>11, <4>3, ApplyCases
      <4>5. left = {a \in attempts' : a.of = e.id}
        BY <4>1, <4>2, <4>4
      <4>6. Sound({})
        <5>1. StoreOK' /\ StoreMoves /\ KeepsClaims({})
          BY <1>3, <4>4, QuietStep DEF LifeInv
        <5>2. JobOK(job)'
          BY <4>4, SameJob
        <5>3. \A t \in Instants : executions[t].id # 0 => executions'[t].id = executions[t].id
          BY <4>4
        <5>4. attempts' \subseteq attempts
          BY <4>4
        <5> QED BY <5>1, <5>2, <5>3, <5>4, SameOwners
      <4>7. Faithful(e)'
        BY <1>8, <4>6, FaithfulKept DEF LifeInv, Sound
      <4> QED BY <1>8, <4>3, <4>5, <4>6, <4>7 DEF PurgeOK
    <3>2. CASE Len(l.plan) = 1
      <4>1. c = DeleteExecution(e)
        BY <1>7, <1>8, <3>2 DEF PurgeList
      <4>2. c.op = "deleteExecution" /\ c.exec = e
        BY <4>1 DEF DeleteExecution
      <4>3. /\ executions' = IF executions[e.at].id = e.id
                             THEN [executions EXCEPT ![e.at] = NoExecution]
                             ELSE executions
            /\ UNCHANGED job /\ UNCHANGED lastID /\ UNCHANGED attempts
        BY <1>11, <4>2, ApplyCases
      <4>4. /\ e.at \in Instants
            /\ executions[e.at].id = e.id => executions[e.at].state \in TerminalStates
        BY <1>8 DEF Faithful
      <4>5. /\ StoreOK' /\ StoreMoves /\ KeepsClaims({})
            /\ \A t \in Instants : executions[t].id # e.id => executions'[t] = executions[t]
        BY <1>3, <4>3, <4>4, DeleteStep DEF LifeInv
      <4>6. \A a \in attempts : a.of # e.id
        <5>1. 1 .. Len(l.plan) - 1 = {}
          BY <3>2
        <5> QED BY <1>8, <5>1 DEF PurgeList
      <4>7. AttemptsOK'
        <5>1. \A t \in Instants, a \in attempts' :
                 executions[t].id # 0 /\ executions[t].id = a.of => executions'[t].id = executions[t].id
          BY <4>3, <4>5, <4>6
        <5>2. attempts' \subseteq attempts
          BY <4>3
        <5> QED BY <4>5, <5>1, <5>2, AttemptsKept DEF LifeInv
      <4>8. JobOK(job)'
        BY <4>3, SameJob
      <4>9. Sound({})
        BY <4>3, <4>5, <4>7, <4>8 DEF Sound
      <4>10. rest = <<>>
        <5>1. Listing(rest) /\ Len(rest) = 0
          BY <1>7, <3>2 DEF Shorter
        <5> QED BY <5>1, EmptyIs
      <4> QED BY <4>9, <4>10 DEF PurgeOK
    <3> QED BY <3>1, <3>2
  <2>6. ReconcileOK(m)'
    <3>1. \A x \in l.todo : Faithful(x)'
      BY <1>9, <2>5, FaithfulKept DEF LifeInv, Sound
    <3> QED BY <1>9, <2>4, <2>5, <3>1 DEF ReconcileOK
  <2>7. PICK T : T = {}
    OBVIOUS
  <2>8. Sound(T) /\ (Held(proc["timing"]) => proc["timing"].exec.at \notin T)
    BY <2>5, <2>7
  <2>9. Resting(proc["start"], proc["timing"], m) /\ NotHeld(proc["timing"], m)
    BY <1>2, <2>4, ReconcileIs DEF Resting, NotHeld
  <2> QED BY <2>2, <2>4, <2>6, <2>8, <2>9, ReconcileActs
<1> QED BY <1>1, <1>5, <1>6, <1>10, <1>11 DEF PurgeCall

LEMMA ReconcileLeavesKeeps ==
    ASSUME LifeInv, ReconcileLeaves
    PROVE  LifeInv'
<1>1. PICK l : l = proc["reconcile"]
  OBVIOUS
<1>2. /\ Quiet /\ UNCHANGED engineVars /\ l.pc = "rest" /\ Goto("reconcile", "off")
  BY <1>1 DEF ReconcileLeaves
<1>3. Sound({})
  BY <1>2, ClockIs, QuietSound
<1>4. Shaped(l)
  BY <1>1, ReconcileIs
<1>5. PICK m : m = [l EXCEPT !.pc = "off"]
  OBVIOUS
<1>6. Planned(m, l, "off", l.plan)
  BY <1>4, <1>5, Edited
<1>7. Shaped(m) /\ m.pc = "off"
  BY <1>4, <1>6, PlannedShape DEF Shaped
<1>8. Sweeping(m) /\ Become("reconcile", m)
  BY <1>1, <1>2, <1>5, <1>7 DEF Sweeping, ReconcileOK, Goto, Become
<1> QED BY <1>1, <1>2, <1>3, <1>8, SweepMoves

-----------------------------------------------------------------------------
(* Start, stop and crash.                                                    *)

LEMMA StartIs ==
    ASSUME LifeInv, NEW l, l = proc["start"]
    PROVE  Shaped(l) /\ StartOK(l) /\ Resting(l, proc["timing"], proc["reconcile"])
BY DEF LifeInv, ProcOK, Goroutines

\* A plan of the engine's start.
Starting(plan) ==
    /\ Listing(plan)
    /\ \A i \in 1 .. Len(plan) : \/ plan[i].op \in {"skip", "create"}
                                 \/ plan[i].op = "abandon" /\ plan[i].exec.at \in Instants

LEMMA StartPlans ==
    ASSUME LifeInv, NEW pc \in {"recover", "abandon"}, NEW plan, Starting(plan), NEW m0, m0 = Rest(pc),
           NEW m, m = [m0 EXCEPT !.plan = plan], Become("start", m), Sound({}),
           proc["timing"].pc = "off", proc["reconcile"].pc = "off"
    PROVE  LifeInv'
<1>1. Fresh(m0, pc)
  BY RestIs
<1>2. Shaped(m) /\ m.plan = plan
  <2>1. m0 = [pc |-> m0.pc, now |-> m0.now, job |-> m0.job, exec |-> m0.exec,
                 todo |-> m0.todo, plan |-> m0.plan]
    BY <1>1 DEF Fresh, Shaped
  <2>2. m = [pc |-> m0.pc, now |-> m0.now, job |-> m0.job, exec |-> m0.exec,
             todo |-> m0.todo, plan |-> plan]
    BY <2>1
  <2> QED BY <2>2 DEF Shaped, Starting
<1>3. StartOK(m)
  BY <1>2 DEF Starting, StartOK
<1> QED BY <1>2, <1>3, StartActs DEF Become

LEMMA EmptyStarting == Starting(<<>>)
<1>1. PICK e : e = <<>>
  OBVIOUS
<1>2. Listing(e) /\ 1 .. Len(e) = {}
  BY <1>1, EmptyListing
<1> QED BY <1>1, <1>2 DEF Starting

LEMMA StartEngineKeeps ==
    ASSUME LifeInv, StartEngine
    PROVE  LifeInv'
<1>1. /\ Quiet /\ UNCHANGED clock /\ clock \in Nat
      /\ proc["timing"].pc = "off" /\ proc["reconcile"].pc = "off"
  BY DEF StartEngine, LifeInv, StoreOK
<1>2. Sound({})
  BY <1>1, QuietSound
<1>3. PICK pc \in {"recover", "abandon"} : pc = "recover"
  OBVIOUS
<1>4. PICK m0 : m0 = Rest(pc)
  OBVIOUS
<1>5. PICK plan : plan = IF job.present /\ job.enabled THEN Materialize(job, clock) ELSE <<>>
  OBVIOUS
<1>6. CASE Become("start", [m0 EXCEPT !.plan = plan])
  <2>1. PICK m : m = [m0 EXCEPT !.plan = plan]
    OBVIOUS
  <2>2. Starting(plan)
    <3>1. CASE plan = <<>>
      BY <3>1, EmptyStarting
    <3>2. CASE plan = Materialize(job, clock)
      <4>1. PICK j : j = job
        OBVIOUS
      <4>2. PICK now \in Nat : now = clock
        BY <1>1
      <4>3. j.sched \in Sched
        BY <4>1 DEF LifeInv, JobOK
      <4>4. plan = Materialize(j, now)
        BY <3>2, <4>1, <4>2
      <4>5. Makes(plan)
        BY <4>3, <4>4, MaterializeMakes
      <4> QED BY <4>5 DEF Makes, Starting
    <3> QED BY <1>5, <3>1, <3>2
  <2>3. Become("start", m)
    BY <1>6, <2>1
  <2> QED BY <1>1, <1>2, <1>4, <2>1, <2>2, <2>3, StartPlans
<1>7. CASE Become("start", Rest("recover"))
  <2>1. PICK m : m = Rest("recover")
    OBVIOUS
  <2>2. Fresh(m, "recover")
    BY <2>1, RestIs
  <2>3. Shaped(m) /\ StartOK(m)
    BY <2>2, FreshOK DEF Fresh
  <2>4. proc' = [proc EXCEPT !["start"] = m]
    BY <1>7, <2>1 DEF Become
  <2> QED BY <1>1, <1>2, <2>3, <2>4, StartActs
<1> QED BY <1>3, <1>4, <1>5, <1>6, <1>7 DEF StartEngine

\* The loops start.
LEMMA LoopsStart ==
    ASSUME LifeInv, Quiet, UNCHANGED engineVars,
           proc' = [proc EXCEPT !["start"] = Rest("idle"), !["timing"] = Rest("top"),
                                !["reconcile"] = Rest("rest")]
    PROVE  LifeInv'
<1>1. PICK a : a = proc["admin"]
  OBVIOUS
<1>2. PICK t : t = Rest("top")
  OBVIOUS
<1>3. PICK r : r = Rest("rest")
  OBVIOUS
<1>4. PICK s : s = Rest("idle")
  OBVIOUS
<1>5. Fresh(t, "top") /\ Fresh(r, "rest") /\ Fresh(s, "idle")
  BY <1>2, <1>3, <1>4, RestIs
<1>6. Sound({})
  BY ClockIs, QuietSound
<1>7. Shaped(a) /\ AdminOK(a)
  BY <1>1, AdminIs
<1>8. AdminOK(a)'
  BY <1>6, <1>7, AdminKept DEF LifeInv, Sound
<1>9. TimingOK(t)' /\ Shaped(t)
  BY <1>5, FreshOK DEF Fresh
<1>10. ReconcileOK(r)' /\ Shaped(r)
  BY <1>5, FreshOK DEF Fresh
<1>11. StartOK(s) /\ Shaped(s)
  BY <1>5, FreshOK DEF Fresh
<1>12. Resting(s, t, r) /\ NotHeld(t, r)
  BY <1>5 DEF Fresh, Resting, NotHeld, Held
<1>13. /\ proc' = [p \in Goroutines |-> proc'[p]]
       /\ proc'["admin"] = a /\ proc'["timing"] = t /\ proc'["reconcile"] = r /\ proc'["start"] = s
  BY <1>1, <1>2, <1>3, <1>4 DEF LifeInv, ProcOK, Goroutines, Loops
<1>14. ProcOK'
  BY <1>7, <1>8, <1>9, <1>10, <1>11, <1>12, <1>13, ProcHolds
<1> QED BY <1>6, <1>14 DEF LifeInv, Sound

LEMMA RecoverInterruptedKeeps ==
    ASSUME LifeInv, RecoverInterrupted
    PROVE  LifeInv'
<1>1. Quiet /\ UNCHANGED engineVars /\ proc["start"].pc = "recover"
  BY DEF RecoverInterrupted
<1>2. Sound({})
  BY <1>1, ClockIs, QuietSound
<1>3. proc["timing"].pc = "off" /\ proc["reconcile"].pc = "off"
  BY <1>1, StartIs DEF Resting
<1>4. CASE proc' = [proc EXCEPT !["start"] = Rest("idle"), !["timing"] = Rest("top"),
                                !["reconcile"] = Rest("rest")]
  BY <1>1, <1>4, LoopsStart
<1>5. PICK pc \in {"recover", "abandon"} : pc = "abandon"
  OBVIOUS
<1>6. PICK m0 : m0 = Rest(pc)
  OBVIOUS
<1>7. PICK S : S = InStates(LeasedStates)
  OBVIOUS
<1>8. PICK lost : lost = InOrder(S)
  OBVIOUS
<1>9. PICK plan : plan = [i \in DOMAIN lost |-> Abandon(lost[i])]
  OBVIOUS
<1>10. PICK m : m = [m0 EXCEPT !.plan = plan]
  OBVIOUS
<1>11. CASE Become("start", m)
  <2>1. S \subseteq Stored
    BY <1>7 DEF InStates
  <2>2. Copies(lost)
    BY <1>8, <2>1, CopiesInOrder DEF LifeInv
  <2>3. Maps(plan, lost, "abandon")
    <3>1. Listing(lost)
      BY <2>2 DEF Copies
    <3>2. PICK op : op = "abandon"
      OBVIOUS
    <3>3. plan = [i \in DOMAIN lost |-> [op |-> op, exec |-> lost[i]]]
      BY <1>9, <3>2 DEF Abandon
    <3> QED BY <3>1, <3>2, <3>3, PlanMaps
  <2>4. \A e \in Stored : e.at \in Instants
    BY StoredFaithful DEF LifeInv
  <2>5. Starting(plan)
    BY <2>2, <2>3, <2>4 DEF Copies, Maps, Starting
  <2>6. Fresh(m0, pc)
    BY <1>6, RestIs
  <2>7. Shaped(m) /\ m.plan = plan
    <3>1. m0 = [pc |-> m0.pc, now |-> m0.now, job |-> m0.job, exec |-> m0.exec,
                todo |-> m0.todo, plan |-> m0.plan]
      BY <2>6 DEF Fresh, Shaped
    <3> QED BY <1>10, <2>5, <3>1 DEF Shaped, Starting
  <2>8. StartOK(m)
    BY <2>5, <2>7 DEF Starting, StartOK
  <2>9. proc' = [proc EXCEPT !["start"] = m]
    BY <1>11 DEF Become
  <2> QED BY <1>2, <1>3, <2>7, <2>8, <2>9, StartActs
<1> QED BY <1>4, <1>5, <1>6, <1>7, <1>8, <1>9, <1>10, <1>11, Zenon DEF RecoverInterrupted

LEMMA StartLoopsKeeps ==
    ASSUME LifeInv, StartLoops
    PROVE  LifeInv'
BY LoopsStart DEF StartLoops

LEMMA StartCallKeeps ==
    ASSUME LifeInv, StartCall
    PROVE  LifeInv'
<1>1. PICK pc \in {"recover", "abandon"} : Perform("start", pc)
  BY DEF StartCall
<1>2. PICK l : l = proc["start"]
  OBVIOUS
<1>3. PICK p \in Goroutines : p = "start"
  BY DEF Goroutines
<1>4. Performed(p, pc, l)
  <2>1. Perform(p, pc) /\ l = proc[p]
    BY <1>1, <1>2, <1>3
  <2> QED BY <2>1, PerformCases
<1>5. PICK c, m, rest :
          /\ c = l.plan[1] /\ 1 \in 1 .. Len(l.plan) /\ Shorter(l.plan, rest) /\ Listing(rest)
          /\ Planned(m, l, pc, rest)
          /\ proc' = [proc EXCEPT ![p] = m]
          /\ Apply(c) \/ Quiet
  BY <1>4 DEF Performed
<1>6. l.pc = pc /\ clock' = clock /\ clock' \in Nat
  BY <1>4 DEF Performed
<1>7. StartOK(l) /\ proc["timing"].pc = "off" /\ proc["reconcile"].pc = "off"
  BY <1>2, <1>6, StartIs DEF Resting
<1>8. \A i \in 1 .. Len(l.plan) : \/ l.plan[i].op \in {"skip", "create"}
                                  \/ l.plan[i].op = "abandon" /\ l.plan[i].exec.at \in Instants
  BY <1>6, <1>7 DEF StartOK
<1>9. Shaped(m) /\ m.pc = pc /\ m.plan = rest
  BY <1>5, PlannedShape
<1>10. StartOK(m)
  BY <1>5, <1>8, <1>9 DEF StartOK, Shorter
<1>11. proc' = [proc EXCEPT !["start"] = m]
  BY <1>3, <1>5
<1>12. CASE Quiet
  <2>1. Sound({})
    BY <1>6, <1>12, QuietSound
  <2> QED BY <1>7, <1>9, <1>10, <1>11, <2>1, StartActs
<1>13. CASE Apply(c) /\ c.op \in {"skip", "create"}
  <2>1. Sound({})
    BY <1>6, <1>13, MakeOrCancel
  <2> QED BY <1>7, <1>9, <1>10, <1>11, <2>1, StartActs
<1>14. CASE Apply(c) /\ c.op = "abandon" /\ c.exec.at \in Instants
  <2>1. PICK now : now = executions[c.exec.at]
    OBVIOUS
  <2>2. PICK st \in ExecutionStateSet : st = "Ready"
    BY DEF ExecutionStateSet, DueStates
  <2>3. Update(now, st) /\ UNCHANGED job /\ UNCHANGED lastID /\ UNCHANGED attempts
    BY <1>14, <2>1, <2>2, ApplyCases
  <2>4. now.at \in Instants
    <3>1. now \in Record
      BY <1>14, <2>1 DEF LifeInv, StoreOK
    <3> QED BY <3>1 DEF Record
  <2>5. UpdateDone(now, st)
    BY <1>6, <2>3, <2>4, UpdateStep DEF LifeInv
  <2>6. PICK T : T = {now.at}
    OBVIOUS
  <2>7. KeepsClaims(T)
    BY <2>5, <2>6 DEF UpdateDone, KeepsClaims
  <2>8. JobOK(job)'
    BY <2>3, SameJob
  <2>9. Sound(T)
    BY <2>3, <2>5, <2>7, <2>8, SameOwners DEF UpdateDone
  <2> QED BY <1>7, <1>9, <1>10, <1>11, <2>9, StartActs
<1> QED BY <1>5, <1>8, <1>12, <1>13, <1>14

LEMMA StopEngineKeeps ==
    ASSUME LifeInv, StopEngine
    PROVE  LifeInv'
<1>1. Quiet /\ UNCHANGED clock /\ clock \in Nat /\ proc' = proc
  BY DEF StopEngine, LifeInv, StoreOK
<1> QED BY <1>1, QuietSound, StoreActs

LEMMA CrashKeeps ==
    ASSUME LifeInv, Crash
    PROVE  LifeInv'
<1>1. Quiet /\ UNCHANGED clock /\ clock \in Nat
  BY DEF Crash, LifeInv, StoreOK
<1>2. Sound({})
  BY <1>1, QuietSound
<1>3. PICK a : a = Rest("idle")
  OBVIOUS
<1>4. PICK t : t = Rest("off")
  OBVIOUS
<1>5. Fresh(a, "idle") /\ Fresh(t, "off")
  BY <1>3, <1>4, RestIs
<1>6. AdminOK(a)' /\ StartOK(a) /\ Shaped(a)
  BY <1>5, FreshOK DEF Fresh
<1>7. TimingOK(t)' /\ ReconcileOK(t)' /\ Shaped(t)
  BY <1>5, FreshOK DEF Fresh
<1>8. Resting(a, t, t) /\ NotHeld(t, t)
  BY <1>5 DEF Fresh, Resting, NotHeld, Held
<1>9. /\ proc' = [p \in Goroutines |-> proc'[p]]
      /\ proc'["admin"] = a /\ proc'["timing"] = t /\ proc'["reconcile"] = t /\ proc'["start"] = a
  BY <1>3, <1>4 DEF Crash, Goroutines, Loops
<1>10. ProcOK'
  BY <1>6, <1>7, <1>8, <1>9, ProcHolds
<1> QED BY <1>2, <1>10 DEF LifeInv, Sound

LEMMA SettleKeeps ==
    ASSUME LifeInv, NEW t \in Instants, Settle(t)
    PROVE  LifeInv'
<1>1. PICK e : e = executions[t]
  OBVIOUS
<1>2. /\ e.state = "Running" /\ proc' = proc /\ UNCHANGED job /\ UNCHANGED lastID
      /\ UNCHANGED attempts /\ UNCHANGED engineVars
  BY <1>1 DEF Settle
<1>3. PICK st \in ExecutionStateSet : st = "Succeeded"
  BY DEF ExecutionStateSet, TerminalStates
<1>4. Update(e, st)
  BY <1>1, <1>3 DEF Settle
<1>5. e \in Stored
  <2>1. e.id # 0
    BY <1>1, <1>2 DEF LifeInv, StoreOK
  <2> QED BY <1>1, <2>1 DEF Stored
<1>6. Faithful(e) /\ e.state # "Dispatching"
  BY <1>2, <1>5, StoredFaithful DEF LifeInv
<1>7. clock' = clock
  BY <1>2, ClockIs
<1>8. Sound({})
  BY <1>2, <1>4, <1>6, <1>7, StaleSound
<1> QED BY <1>2, <1>8, StoreActs

LEMMA TickKeeps ==
    ASSUME LifeInv, Tick
    PROVE  LifeInv'
<1>1. Quiet /\ clock' = clock + 1 /\ clock \in Nat /\ proc' = proc
  BY DEF Tick, Quiet, LifeInv, StoreOK
<1>2. clock' \in Nat
  BY <1>1
<1> QED BY <1>1, <1>2, QuietSound, StoreActs

-----------------------------------------------------------------------------
(* The theorem.                                                              *)

LEMMA LifeInit == Init => LifeInv
<1> SUFFICES ASSUME Init PROVE LifeInv
  OBVIOUS
<1>1. StoreOK
  <2>1. NoExecution \in Record /\ NoExecution.id = 0 /\ NoExecution.state = "Absent"
    <3>1. 0 \in Instants
      BY HorizonType DEF Instants
    <3> QED BY <3>1 DEF NoExecution, Record
  <2> QED BY <2>1 DEF Init, StoreOK
<1>2. AttemptsOK
  BY FS_EmptySet DEF Init, AttemptsOK, AttemptsOwned
<1>3. JobOK(job)
  BY DEF Init, JobOK, NoJob, Sched, ScheduleKinds
<1>4. PICK a : a = Rest("idle")
  OBVIOUS
<1>5. PICK t : t = Rest("top")
  OBVIOUS
<1>6. PICK r : r = Rest("rest")
  OBVIOUS
<1>7. Fresh(a, "idle") /\ Fresh(t, "top") /\ Fresh(r, "rest")
  BY <1>4, <1>5, <1>6, RestIs
<1>8. /\ proc = [p \in Goroutines |-> proc[p]]
      /\ proc["admin"] = a /\ proc["timing"] = t /\ proc["reconcile"] = r /\ proc["start"] = a
  BY <1>4, <1>5, <1>6 DEF Init, Goroutines, Loops
<1>9. 1 .. Len(a.plan) = {} /\ 1 .. Len(r.plan) = {}
  BY <1>7 DEF Fresh
<1>10. ProcOK
  <2>1. \A p \in Goroutines : Shaped(proc[p])
    BY <1>7, <1>8 DEF Fresh, Goroutines, Loops
  <2>2. AdminOK(proc["admin"])
    BY <1>7, <1>8, <1>9 DEF Fresh, AdminOK
  <2>3. TimingOK(proc["timing"])
    BY <1>7, <1>8 DEF Fresh, TimingOK, Held
  <2>4. ReconcileOK(proc["reconcile"])
    BY <1>7, <1>8 DEF Fresh, ReconcileOK
  <2>5. StartOK(proc["start"])
    BY <1>7, <1>8 DEF Fresh, StartOK
  <2>6. /\ Resting(proc["start"], proc["timing"], proc["reconcile"])
        /\ NotHeld(proc["timing"], proc["reconcile"])
    BY <1>7, <1>8 DEF Fresh, Resting, NotHeld
  <2> QED BY <1>8, <2>1, <2>2, <2>3, <2>4, <2>5, <2>6 DEF ProcOK
<1> QED BY <1>1, <1>2, <1>3, <1>10 DEF LifeInv

LEMMA LifeStep == LifeInv /\ [Next]_vars => LifeInv'
<1> SUFFICES ASSUME LifeInv, [Next]_vars PROVE LifeInv'
  OBVIOUS
<1>1. CASE \E r \in Requests : HandleJobUpsert(r)
  BY <1>1, HandleJobUpsertKeeps
<1>2. CASE HandleJobDelete
  BY <1>2, HandleJobDeleteKeeps
<1>3. CASE AdminStep
  BY <1>3, CancelReplacedKeeps, MaterializeUpsertedKeeps, UpsertedKeeps, CancelDeletedKeeps,
     DeleteJobKeeps, AdminCallKeeps DEF AdminStep
<1>4. CASE TimingStep
  BY <1>4, ProcessDueKeeps, ConsiderKeeps, TransitionKeeps, ClaimKeeps, CreateAttemptKeeps,
     DeliverKeeps, MaterializeNextKeeps, NextWakeAtKeeps, WaitKeeps DEF TimingStep
<1>5. CASE ReconcileStep
  BY <1>5, ReconcileKeeps, ReapKeeps, ReapedKeeps, EnsurePendingKeeps, PurgeExecutionKeeps,
     PurgeCallKeeps, ReconcileLeavesKeeps DEF ReconcileStep
<1>6. CASE StartStep
  BY <1>6, StartEngineKeeps, RecoverInterruptedKeeps, StartLoopsKeeps, StartCallKeeps DEF StartStep
<1>7. CASE StopEngine \/ Crash
  BY <1>7, StopEngineKeeps, CrashKeeps
<1>8. CASE \E t \in Instants : Settle(t)
  BY <1>8, SettleKeeps
<1>9. CASE Tick
  BY <1>9, TickKeeps
<1>10. CASE UNCHANGED vars
  <2>1. Quiet /\ clock' = clock /\ clock \in Nat /\ proc' = proc
    BY <1>10 DEF vars, Quiet, storeVars, LifeInv, StoreOK
  <2> QED BY <2>1, QuietSound, StoreActs
<1> QED BY <1>1, <1>2, <1>3, <1>4, <1>5, <1>6, <1>7, <1>8, <1>9, <1>10 DEF Next

\* No attempt outlives its execution, whatever the schedule, the bounds and
\* the order of the steps: the purge deletes every attempt there is before the
\* execution, and none is created meanwhile, because what is purged has
\* settled and only what is being dispatched gets attempts (retention.go's
\* purgeExecution against dispatch.go's createAttempt).
THEOREM OccurrenceSafety == Spec => []AttemptsOwned
<1>1. LifeInv => AttemptsOwned
  BY DEF LifeInv, AttemptsOK
<1> QED BY <1>1, LifeInit, LifeStep, PTL DEF Spec

-----------------------------------------------------------------------------
(* What ran is not materialized again.  An execution is only purged when its *)
(* instant has left the window that backfill looks back on, and whatever is  *)
(* materialized on the clock of its moment is inside that window.            *)

\* The clock and the intervals fit a duration.
Fits ==
    /\ MaxClock <= MaxDuration
    /\ \A r \in Requests : MaxClock + scheduleInterval(r.sched) <= MaxDuration

\* The instants that backfill may still look back on.
Window == {t \in Int : clock <= t + cfg.maxAge}

\* An execution is leased, wakes and succeeds no earlier than its instant.
OnTime(x, t) ==
    /\ x.state \in LeasedStates => t <= clock
    /\ x.state \in DueStates => t <= x.wake
    /\ x.state = "Succeeded" => t <= x.updated

\* What ran is kept as long as it is in the window.
RanKept ==
    ran \subseteq Instants /\ \A t \in ran : executions[t].state = "Succeeded" \/ t \notin Window

Idle == {"idle", "wait", "rest", "off"}

\* A plan makes what is in the window, on the clock it was made at.
Young(l) ==
    \A i \in 1 .. Len(l.plan) : l.plan[i].op = "create" => l.plan[i].at \in Window /\ l.pc \notin Idle

\* What is purged is out of the window, or was not what ran.
Expired(e) ==
    /\ Faithful(e) /\ e.state \in TerminalStates
    /\ executions[e.at].id = e.id /\ executions[e.at].state = "Succeeded" => e.at \notin Window

AdminApt(l) == Young(l) /\ Timely(l.job)

\* The timing loop handles what is due.
TimingApt(l) ==
    /\ \A e \in l.todo : e.at <= clock
    /\ l.pc \in {"cancel", "skip", "claim"} => l.exec.at <= clock

\* The occurrence a pass goes on to make exists.
Following(l) == JobOK(l.job) /\ nextOccurrence(l.job.sched, l.now).exists

\* A pass works on the clock it started at.
ReconcileApt(l) ==
    /\ Timely(l.job)
    /\ l.pc \in {"reap", "ensure"} => l.now = clock
    /\ l.pc = "ensure" => Following(l)
    /\ l.pc = "purge" => /\ \A e \in l.todo : Expired(e)
                         /\ \A i \in 1 .. Len(l.plan) :
                               l.plan[i].op = "deleteExecution" => Expired(l.plan[i].exec)

StartApt(l) ==
    /\ Young(l)
    /\ l.pc \in {"recover", "abandon"} =>
          \A i \in 1 .. Len(l.plan) : l.plan[i].op = "abandon" => l.plan[i].exec.at <= clock

Apt(p, l) ==
    /\ p = "admin" => AdminApt(l)
    /\ p = "timing" => TimingApt(l)
    /\ p = "reconcile" => ReconcileApt(l)
    /\ p = "start" => StartApt(l)

PastInv ==
    /\ clock <= MaxClock
    /\ \A t \in Instants : OnTime(executions[t], t)
    /\ RanKept
    /\ Timely(job)
    /\ \A p \in Goroutines : Apt(p, proc[p])

\* A step of the store moves an execution on time, and never takes back what
\* ran inside the window.
Punctual ==
    /\ StoreMoves
    /\ \A t \in Instants : \/ executions'[t] = executions[t]
                           \/ /\ OnTime(executions'[t], t)
                              /\ executions[t].state = "Succeeded" => t \notin Window

\* No occurrence is made again.
NoneAnew == \A t \in Instants : ~Recreated(t)

LEMMA InstantsAre == Instants \subseteq Int /\ \A t \in Instants : t \in Nat
BY HorizonType

LEMMA SamePunctual ==
    ASSUME LifeInv, UNCHANGED executions, UNCHANGED lastID
    PROVE  Punctual /\ NoneAnew
<1>1. StoreMoves
  BY DEF LifeInv, StoreOK, StoreMoves
<1> QED BY <1>1 DEF Punctual, NoneAnew, Recreated

\* An update of an execution whose instant has come, or one that ends it unrun.
LEMMA UpdatePunctual ==
    ASSUME LifeInv, PastInv, NEW e, e.at \in Instants, NEW state \in ExecutionStateSet, Update(e, state),
           UNCHANGED lastID, clock' = clock, e.at <= clock \/ state \in {"Cancelled", "Skipped"}
    PROVE  Punctual /\ NoneAnew
<1>1. UpdateDone(e, state)
  BY UpdateStep DEF LifeInv
<1>2. StoreMoves /\ NoneAnew
  BY <1>1 DEF NoneAnew, Recreated, UpdateDone
<1>3. CASE ~Accepts(e, state)
  <2>1. executions' = executions
    BY <1>1, <1>3 DEF UpdateDone
  <2> QED BY <1>2, <2>1 DEF Punctual
<1>4. CASE Accepts(e, state)
  <2>1. PICK x : x = executions[e.at]
    OBVIOUS
  <2>2. x \in Record /\ executions \in [Instants -> Record]
    BY <2>1 DEF LifeInv, StoreOK
  <2>3. PICK y : y = [x EXCEPT !.state = state, !.version = x.version + 1,
                              !.wake = IF state \in DueStates THEN clock ELSE 0,
                              !.updated = IF state \in TerminalStates THEN clock ELSE 0]
    OBVIOUS
  <2>4. executions' = [executions EXCEPT ![e.at] = y]
    BY <1>4, <2>1, <2>3 DEF Update
  <2>5. executions'[e.at] = y
    BY <2>2, <2>4
  <2>6. /\ y.state = state
        /\ state \in DueStates => y.wake = clock
        /\ state \in TerminalStates => y.updated = clock
    BY <2>2, <2>3 DEF Record
  <2>7. OnTime(y, e.at)
    BY <2>6 DEF OnTime, LeasedStates, DueStates, TerminalStates
  <2>8. x.state # "Succeeded"
    BY <1>4, <2>1, FromOpen DEF Accepts, TerminalStates
  <2>9. \A t \in Instants \ {e.at} : executions'[t] = executions[t]
    BY <1>1 DEF UpdateDone
  <2> QED BY <1>2, <2>1, <2>5, <2>7, <2>8, <2>9 DEF Punctual
<1> QED BY <1>2, <1>3, <1>4

LEMMA CreatePunctual ==
    ASSUME LifeInv, PastInv, NEW t0, Create(t0), clock' = clock
    PROVE  Punctual /\ (t0 \in Window => NoneAnew)
<1>1. /\ StoreMoves
      /\ \A t \in Instants : executions[t].id # 0 => executions'[t] = executions[t]
  BY CreateStep DEF LifeInv
<1>2. CASE ~CanCreate(t0)
  <2>1. UNCHANGED executions /\ UNCHANGED lastID
    BY <1>2 DEF Create
  <2> QED BY <2>1, SamePunctual
<1>3. CASE CanCreate(t0)
  <2>1. PICK new : new = [id |-> lastID + 1, at |-> t0, state |-> "Scheduled", version |-> 1,
                          wake |-> t0, updated |-> 0]
    OBVIOUS
  <2>2. executions' = [executions EXCEPT ![t0] = new] /\ executions[t0].id = 0
    BY <1>3, <2>1 DEF Create, CanCreate
  <2>3. executions \in [Instants -> Record]
    BY DEF LifeInv, StoreOK
  <2>4. \A t \in Instants : executions'[t] = IF t = t0 THEN new ELSE executions[t]
    BY <2>2, <2>3
  <2>5. \A t \in Instants : executions[t].id = 0 => executions[t].state # "Succeeded"
    BY DEF LifeInv, StoreOK
  <2>6. t0 \in Instants => OnTime(new, t0)
    <3>1. new.state = "Scheduled" /\ new.wake = t0
      BY <2>1
    <3>2. t0 \in Instants => t0 <= t0
      BY InstantsAre
    <3> QED BY <3>1, <3>2 DEF OnTime, LeasedStates
  <2>7. Punctual
    BY <1>1, <2>2, <2>4, <2>5, <2>6 DEF Punctual
  <2>8. t0 \in Window => NoneAnew
    <3> SUFFICES ASSUME t0 \in Window, NEW t \in Instants, t \in ran, executions[t].id = 0,
                        executions'[t].id # 0
                 PROVE  FALSE
      BY DEF NoneAnew, Recreated
    <3>1. t = t0
      BY <2>4
    <3>2. executions[t].state = "Succeeded" \/ t \notin Window
      BY DEF PastInv, RanKept
    <3> QED BY <2>5, <3>1, <3>2
  <2> QED BY <2>7, <2>8
<1> QED BY <1>2, <1>3

LEMMA DeletePunctual ==
    ASSUME LifeInv, NEW e, Expired(e),
           executions' = IF executions[e.at].id = e.id
                         THEN [executions EXCEPT ![e.at] = NoExecution] ELSE executions,
           UNCHANGED lastID, clock' = clock
    PROVE  Punctual /\ NoneAnew
<1>1. e.at \in Instants
  BY DEF Expired, Faithful
<1>2. executions[e.at].id = e.id => executions[e.at].state \in TerminalStates
  BY <1>1 DEF Expired, Faithful
<1>3. StoreMoves
  BY <1>1, <1>2, DeleteStep DEF LifeInv
<1>4. CASE executions[e.at].id # e.id
  BY <1>4, SamePunctual
<1>5. CASE executions[e.at].id = e.id
  <2>1. executions' = [executions EXCEPT ![e.at] = NoExecution]
    BY <1>5
  <2>2. executions \in [Instants -> Record]
    BY DEF LifeInv, StoreOK
  <2>3. \A t \in Instants : executions'[t] = IF t = e.at THEN NoExecution ELSE executions[t]
    BY <2>1, <2>2
  <2>4. NoExecution.id = 0 /\ NoExecution.state = "Absent"
    BY DEF NoExecution
  <2>5. OnTime(NoExecution, e.at)
    BY <2>4 DEF OnTime, LeasedStates, DueStates
  <2>6. executions[e.at].state = "Succeeded" => e.at \notin Window
    BY <1>5 DEF Expired
  <2> QED BY <1>3, <2>3, <2>4, <2>5, <2>6 DEF Punctual, NoneAnew, Recreated
<1> QED BY <1>4, <1>5

-----------------------------------------------------------------------------
(* The steps put together.                                                   *)

LEMMA ExpiredKept ==
    ASSUME LifeInv, Punctual, clock' = clock, NEW e, Expired(e)
    PROVE  Expired(e)'
<1>1. Faithful(e)'
  BY FaithfulKept DEF LifeInv, Punctual, Expired
<1>2. e.at \in Instants /\ e.id \in 1 .. lastID /\ lastID \in Nat
  BY DEF Expired, Faithful, LifeInv, StoreOK
<1>3. e.id # 0 /\ e.id # lastID + 1
  BY <1>2
<1>4. Window' = Window
  BY DEF Window
<1>5. ASSUME executions'[e.at].id = e.id, executions'[e.at].state = "Succeeded"
      PROVE  e.at \notin Window
  <2>1. CASE executions'[e.at] = executions[e.at]
    BY <1>5, <2>1 DEF Expired
  <2>2. CASE executions'[e.at].id = executions[e.at].id /\ executions[e.at].state \notin TerminalStates
    <3>1. executions[e.at].state \in TerminalStates
      BY <1>2, <1>5, <2>2 DEF Expired, Faithful
    <3> QED BY <2>2, <3>1
  <2> QED BY <1>2, <1>3, <1>5, <2>1, <2>2 DEF Punctual, StoreMoves
<1> QED BY <1>1, <1>4, <1>5 DEF Expired

LEMMA AptKept ==
    ASSUME LifeInv, Punctual, clock' = clock, NEW p, NEW l, Apt(p, l)
    PROVE  Apt(p, l)'
<1>1. Window' = Window
  BY DEF Window
<1>2. Young(l) => Young(l)'
  BY <1>1 DEF Young
<1>3. AdminApt(l) => AdminApt(l)'
  BY <1>2 DEF AdminApt, Timely
<1>4. TimingApt(l) => TimingApt(l)'
  BY DEF TimingApt
<1>5. ReconcileApt(l) => ReconcileApt(l)'
  <2>1. \A e : Expired(e) => Expired(e)'
    BY ExpiredKept
  <2> QED BY <2>1 DEF ReconcileApt, Timely, Following, JobOK
<1>6. StartApt(l) => StartApt(l)'
  BY <1>2 DEF StartApt
<1> QED BY <1>3, <1>4, <1>5, <1>6 DEF Apt

\* The rest of the state on a step that is not a tick.
Steady == clock' = clock /\ UNCHANGED ran /\ Timely(job)' /\ Punctual

LEMMA StoreHolds ==
    ASSUME LifeInv, PastInv, Steady
    PROVE  /\ clock' <= MaxClock /\ (\A t \in Instants : OnTime(executions[t], t)')
           /\ RanKept' /\ Timely(job)'
<1>1. clock' <= MaxClock /\ Timely(job)'
  BY DEF PastInv, Steady
<1>2. ASSUME NEW t \in Instants PROVE OnTime(executions[t], t)'
  <2>1. OnTime(executions[t], t)
    BY DEF PastInv
  <2> QED BY <2>1 DEF OnTime, Steady, Punctual
<1>3. RanKept'
  <2>1. ran' = ran /\ ran \subseteq Instants /\ Window' = Window
    BY DEF PastInv, RanKept, Steady, Window
  <2>2. ASSUME NEW t \in ran PROVE executions'[t].state = "Succeeded" \/ t \notin Window
    <3>1. executions[t].state = "Succeeded" \/ t \notin Window
      BY DEF PastInv, RanKept
    <3>2. t \in Instants
      BY <2>1
    <3> QED BY <3>1, <3>2 DEF Steady, Punctual
  <2> QED BY <2>1, <2>2 DEF RanKept
<1> QED BY <1>1, <1>2, <1>3

LEMMA PastMoves ==
    ASSUME LifeInv, PastInv, Steady, \A p \in Goroutines : proc'[p] = proc[p] \/ \E m : proc'[p] = m /\ Apt(p, m)
    PROVE  PastInv'
<1>1. /\ clock' <= MaxClock /\ (\A t \in Instants : OnTime(executions[t], t)')
      /\ RanKept' /\ Timely(job)'
  BY StoreHolds
<1>2. ASSUME NEW p \in Goroutines PROVE Apt(p, proc[p])'
  <2>1. PICK m : proc'[p] = m /\ Apt(p, m)
    BY DEF PastInv
  <2>2. Apt(p, m)'
    BY <2>1, AptKept DEF Steady
  <2> QED BY <2>1, <2>2 DEF Apt, AdminApt, TimingApt, ReconcileApt, StartApt, Young, Expired, Faithful
<1> QED BY <1>1, <1>2 DEF PastInv

\* One goroutine moves.
LEMMA PastActs ==
    ASSUME LifeInv, PastInv, Steady, NEW q \in Goroutines, NEW m, proc' = [proc EXCEPT ![q] = m], Apt(q, m)
    PROVE  PastInv'
<1>1. proc = [p \in Goroutines |-> proc[p]]
  BY DEF LifeInv, ProcOK
<1>2. \A p \in Goroutines : proc'[p] = IF p = q THEN m ELSE proc[p]
  BY <1>1
<1> QED BY <1>2, PastMoves

\* What a step keeps of it, and that it makes no occurrence again.
StillPast == PastInv' /\ NoneAnew

LEMMA QuietSteady ==
    ASSUME LifeInv, PastInv, Quiet, clock' = clock
    PROVE  Steady /\ NoneAnew
<1>1. UNCHANGED executions /\ UNCHANGED lastID /\ UNCHANGED ran /\ job' = job
  BY DEF Quiet, storeVars
<1>2. Timely(job)'
  BY <1>1 DEF PastInv, Timely
<1> QED BY <1>1, <1>2, SamePunctual DEF Steady

LEMMA NoJobTimely ==
    ASSUME Fits
    PROVE  Timely(NoJob)
<1>1. PICK n \in Nat : n = NanosPerMilli
  BY OccurrencesAssumption
<1>2. n # 0 /\ MaxDuration \in Nat /\ MaxClock \in Nat
  BY <1>1, OccurrencesAssumption
<1>3. 0 * n = 0
  BY <1>1
<1>4. millisDuration(0) \in {0, MaxDuration} /\ (0 <= maxIntervalMillis => millisDuration(0) = 0)
  <2>1. maxIntervalMillis \in Int
    BY <1>1, <1>2 DEF maxIntervalMillis
  <2> QED BY <1>1, <1>3, <2>1 DEF millisDuration
<1>5. 0 <= maxIntervalMillis
  <2>1. PICK d \in Nat : d = MaxDuration
    BY <1>2
  <2>2. 0 <= d \div n
    BY <1>1, <1>2, <2>1
  <2> QED BY <1>1, <2>1, <2>2 DEF maxIntervalMillis
<1>6. scheduleInterval(NoJob.sched) = 0
  BY <1>4, <1>5 DEF scheduleInterval, NoJob
<1>7. "maxAge" \in DOMAIN NoJob /\ NoJob.maxAge \in Nat
  BY DEF NoJob
<1> QED BY <1>2, <1>6, <1>7 DEF Timely, Fits

\* A goroutine that starts afresh has nothing that could be late.
LEMMA FreshApt ==
    ASSUME Fits, NEW m, NEW pc, Fresh(m, pc)
    PROVE  /\ AdminApt(m) /\ StartApt(m)
           /\ pc \notin {"cancel", "skip", "claim"} => TimingApt(m)
           /\ pc \notin {"reap", "ensure"} => ReconcileApt(m)
<1>1. 1 .. Len(m.plan) = {} /\ m.todo = {} /\ m.pc = pc /\ m.job = NoJob
  BY DEF Fresh
<1>2. Timely(m.job)
  BY <1>1, NoJobTimely
<1> QED BY <1>1, <1>2 DEF AdminApt, StartApt, TimingApt, ReconcileApt, Young

\* What changes of a goroutine that goes on, with or without a plan.
LEMMA GotoIs ==
    ASSUME LifeInv, NEW p \in Goroutines, NEW l, l = proc[p], NEW pc, Goto(p, pc)
    PROVE  \E m : Planned(m, l, pc, l.plan) /\ Shaped(m) /\ proc' = [proc EXCEPT ![p] = m]
<1>1. PICK m : m = [l EXCEPT !.pc = pc]
  OBVIOUS
<1>2. Shaped(l)
  BY DEF LifeInv, ProcOK
<1>3. Planned(m, l, pc, l.plan)
  BY <1>1, <1>2, Edited
<1>4. proc' = [proc EXCEPT ![p] = m]
  BY <1>1 DEF Goto
<1>5. Shaped(m)
  BY <1>2, <1>3, PlannedShape DEF Shaped
<1> QED BY <1>3, <1>4, <1>5

-----------------------------------------------------------------------------
(* The job operations.                                                       *)

\* The admin goroutine starts afresh.
LEMMA AdminAfresh ==
    ASSUME LifeInv, PastInv, Fits, Steady, NEW pc, Become("admin", Rest(pc))
    PROVE  PastInv'
<1>1. PICK m : m = Rest(pc)
  OBVIOUS
<1>2. Apt("admin", m)
  BY <1>1, RestIs, FreshApt DEF Apt
<1>3. proc' = [proc EXCEPT !["admin"] = m]
  BY <1>1 DEF Become
<1>4. PICK q \in Goroutines : q = "admin"
  BY DEF Goroutines
<1> QED BY <1>2, <1>3, <1>4, PastActs

\* The admin goroutine goes on with a plan.
LEMMA AdminGoes ==
    ASSUME LifeInv, PastInv, Steady, NEW pc, pc \notin Idle, NEW plan, NEW m,
           Planned(m, proc["admin"], pc, plan), proc' = [proc EXCEPT !["admin"] = m],
           \A i \in 1 .. Len(plan) : plan[i].op = "create" => plan[i].at \in Window
    PROVE  PastInv'
<1>1. PICK l : l = proc["admin"]
  OBVIOUS
<1>2. m.pc = pc /\ m.plan = plan /\ m.job = l.job
  BY <1>1 DEF Planned
<1>3. PICK q \in Goroutines : q = "admin"
  BY DEF Goroutines
<1>4. Timely(l.job)
  BY <1>1, <1>3 DEF PastInv, Apt, AdminApt
<1>5. Apt(q, m)
  BY <1>2, <1>3, <1>4 DEF Apt, AdminApt, Young
<1> QED BY <1>3, <1>5, PastActs

\* The admin goroutine goes on with the plan it has.
LEMMA AdminGoesOn ==
    ASSUME LifeInv, PastInv, Steady, NEW pc, pc \notin Idle, Goto("admin", pc)
    PROVE  PastInv'
<1>1. PICK l : l = proc["admin"]
  OBVIOUS
<1>2. PICK q \in Goroutines : q = "admin"
  BY DEF Goroutines
<1>3. PICK m : Planned(m, l, pc, l.plan) /\ proc' = [proc EXCEPT ![q] = m]
  BY <1>1, <1>2, GotoIs
<1>4. Young(l)
  BY <1>1, <1>2 DEF PastInv, Apt, AdminApt
<1>5. PICK plan : plan = l.plan
  OBVIOUS
<1>6. \A i \in 1 .. Len(plan) : plan[i].op = "create" => plan[i].at \in Window
  BY <1>4, <1>5 DEF Young
<1> QED BY <1>1, <1>2, <1>3, <1>5, <1>6, AdminGoes

LEMMA HandleJobUpsertPast ==
    ASSUME LifeInv, PastInv, Fits, NEW r \in Requests, HandleJobUpsert(r)
    PROVE  StillPast
<1>1. PICK j : j = job'
  OBVIOUS
<1>2. Timely(j)
  <2>1. j = [present |-> TRUE, version |-> job.version + 1, skipped |-> job.skipped,
             sched |-> r.sched, enabled |-> r.enabled, mode |-> r.mode,
             maxCount |-> r.maxCount, maxAge |-> r.maxAge]
    BY <1>1 DEF HandleJobUpsert
  <2>2. r.maxAge \in Nat
    BY OccurrencesAssumption
  <2>3. j.sched = r.sched /\ j.maxAge = r.maxAge /\ "maxAge" \in DOMAIN j
    BY <2>1
  <2> QED BY <2>2, <2>3 DEF Timely, Fits
<1>3. PICK pc : pc = IF j.version > 1 THEN "replace" ELSE "cancelled"
  OBVIOUS
<1>4. PICK m0 : m0 = Rest(pc)
  OBVIOUS
<1>5. PICK m : m = [m0 EXCEPT !.job = j]
  OBVIOUS
<1>6. proc' = [proc EXCEPT !["admin"] = m]
  BY <1>1, <1>3, <1>4, <1>5 DEF HandleJobUpsert, Become
<1>7. Fresh(m0, pc)
  BY <1>4, RestIs
<1>8. m.plan = m0.plan /\ m.job = j
  <2>1. m0 = [pc |-> m0.pc, now |-> m0.now, job |-> m0.job, exec |-> m0.exec,
              todo |-> m0.todo, plan |-> m0.plan]
    BY <1>7 DEF Fresh, Shaped
  <2>2. m = [pc |-> m0.pc, now |-> m0.now, job |-> j, exec |-> m0.exec,
             todo |-> m0.todo, plan |-> m0.plan]
    BY <1>5, <2>1
  <2> QED BY <2>2
<1>9. PICK q \in Goroutines : q = "admin"
  BY DEF Goroutines
<1>10. Apt(q, m)
  <2>1. 1 .. Len(m.plan) = {}
    BY <1>7, <1>8 DEF Fresh
  <2> QED BY <1>2, <1>8, <1>9, <2>1 DEF Apt, AdminApt, Young
<1>11. Steady /\ NoneAnew
  <2>1. /\ UNCHANGED executions /\ UNCHANGED lastID /\ UNCHANGED ran /\ clock' = clock
    BY DEF HandleJobUpsert, engineVars
  <2>2. Timely(job)'
    BY <1>1, <1>2 DEF Timely
  <2> QED BY <2>1, <2>2, SamePunctual DEF Steady
<1> QED BY <1>6, <1>9, <1>10, <1>11, PastActs DEF StillPast

\* The cancellations that a failed listing leaves out make nothing.
LEMMA CancelReplacedPast ==
    ASSUME LifeInv, PastInv, CancelReplaced
    PROVE  StillPast
<1>1. PICK l : l = proc["admin"]
  OBVIOUS
<1>2. Steady /\ NoneAnew
  <2>1. Quiet /\ clock' = clock
    BY DEF CancelReplaced, engineVars
  <2> QED BY <2>1, QuietSteady
<1>3. CASE Goto("admin", "cancelled")
  BY <1>2, <1>3, AdminGoesOn DEF StillPast, Idle
<1>4. PICK S : S = {e \in Stored : Replaced(e, l.job)}
  OBVIOUS
<1>5. PICK gone : gone = InOrder(S)
  OBVIOUS
<1>6. PICK plan : plan = [i \in DOMAIN gone |-> Cancel(gone[i])]
  OBVIOUS
<1>7. CASE proc' = [proc EXCEPT !["admin"].pc = "cancelled", !["admin"].plan = plan]
  <2>1. S \subseteq Stored /\ \A e \in S : e.state \notin LeasedStates
    BY <1>4 DEF Replaced
  <2>2. \A i \in 1 .. Len(plan) : plan[i].op # "create"
    BY <1>5, <1>6, <2>1, CancelPlan
  <2>3. PICK q \in Goroutines : q = "admin"
    BY DEF Goroutines
  <2>4. PICK pc : pc = "cancelled"
    OBVIOUS
  <2>5. PICK m : m = [l EXCEPT !.pc = pc, !.plan = plan]
    OBVIOUS
  <2>6. Planned(m, l, pc, plan) /\ proc' = [proc EXCEPT ![q] = m]
    <3>1. Planned(m, l, pc, plan)
      BY <1>1, <2>5, AdminIs, Edited
    <3>2. proc' = [proc EXCEPT !["admin"] = m]
      BY <1>1, <1>7, <2>4, <2>5 DEF LifeInv, ProcOK, Goroutines
    <3> QED BY <2>3, <3>1, <3>2
  <2> QED BY <1>1, <1>2, <2>2, <2>3, <2>4, <2>6, AdminGoes DEF StillPast, Idle
<1> QED BY <1>1, <1>3, <1>4, <1>5, <1>6, <1>7 DEF CancelReplaced

LEMMA CancelDeletedPast ==
    ASSUME LifeInv, PastInv, CancelDeleted
    PROVE  StillPast
<1>1. PICK l : l = proc["admin"]
  OBVIOUS
<1>2. Steady /\ NoneAnew
  <2>1. Quiet /\ clock' = clock
    BY DEF CancelDeleted, engineVars
  <2> QED BY <2>1, QuietSteady
<1>3. CASE Goto("admin", "delete")
  BY <1>2, <1>3, AdminGoesOn DEF StillPast, Idle
<1>4. PICK S : S = Pending \ InStates(LeasedStates)
  OBVIOUS
<1>5. PICK gone : gone = InOrder(S)
  OBVIOUS
<1>6. PICK plan : plan = [i \in DOMAIN gone |-> Cancel(gone[i])]
  OBVIOUS
<1>7. CASE proc' = [proc EXCEPT !["admin"].pc = "delete", !["admin"].plan = plan]
  <2>1. S \subseteq Stored /\ \A e \in S : e.state \notin LeasedStates
    BY <1>4 DEF Pending, InStates
  <2>2. \A i \in 1 .. Len(plan) : plan[i].op # "create"
    BY <1>5, <1>6, <2>1, CancelPlan
  <2>3. PICK q \in Goroutines : q = "admin"
    BY DEF Goroutines
  <2>4. PICK pc : pc = "delete"
    OBVIOUS
  <2>5. PICK m : m = [l EXCEPT !.pc = pc, !.plan = plan]
    OBVIOUS
  <2>6. Planned(m, l, pc, plan) /\ proc' = [proc EXCEPT ![q] = m]
    <3>1. Planned(m, l, pc, plan)
      BY <1>1, <2>5, AdminIs, Edited
    <3>2. proc' = [proc EXCEPT !["admin"] = m]
      BY <1>1, <1>7, <2>4, <2>5 DEF LifeInv, ProcOK, Goroutines
    <3> QED BY <2>3, <3>1, <3>2
  <2> QED BY <1>1, <1>2, <2>2, <2>3, <2>4, <2>6, AdminGoes DEF StillPast, Idle
<1> QED BY <1>1, <1>3, <1>4, <1>5, <1>6, <1>7 DEF CancelDeleted

LEMMA HandleJobDeletePast ==
    ASSUME LifeInv, PastInv, Fits, HandleJobDelete
    PROVE  StillPast
<1>1. Quiet /\ clock' = clock /\ Become("admin", Rest("deleted"))
  BY DEF HandleJobDelete, engineVars
<1> QED BY <1>1, QuietSteady, AdminAfresh DEF StillPast

LEMMA UpsertedPast ==
    ASSUME LifeInv, PastInv, Fits, Upserted
    PROVE  StillPast
<1>1. Quiet /\ clock' = clock /\ Become("admin", Rest("idle"))
  BY DEF Upserted, engineVars
<1> QED BY <1>1, QuietSteady, AdminAfresh DEF StillPast

LEMMA DeleteJobPast ==
    ASSUME LifeInv, PastInv, Fits, DeleteJob
    PROVE  StillPast
<1>1. /\ Become("admin", Rest("idle")) /\ clock' = clock /\ UNCHANGED ran
      /\ UNCHANGED executions /\ UNCHANGED lastID
  BY DEF DeleteJob, engineVars
<1>2. job' = NoJob \/ job' = job
  BY DEF DeleteJob
<1>3. Timely(job)'
  BY <1>2, NoJobTimely DEF Timely, PastInv
<1>4. Steady /\ NoneAnew
  BY <1>1, <1>3, SamePunctual DEF Steady
<1> QED BY <1>1, <1>4, AdminAfresh DEF StillPast

\* What the definition just stored missed is materialized on the clock of the
\* upsert, within the window.
LEMMA MaterializeUpsertedPast ==
    ASSUME LifeInv, PastInv, MaterializeUpserted
    PROVE  StillPast
<1>1. PICK l : l = proc["admin"]
  OBVIOUS
<1>2. Steady /\ NoneAnew
  <2>1. Quiet /\ clock' = clock
    BY DEF MaterializeUpserted, engineVars
  <2> QED BY <2>1, QuietSteady
<1>3. CASE Goto("admin", "materialize")
  BY <1>2, <1>3, AdminGoesOn DEF StillPast, Idle
<1>4. PICK plan : plan = Materialize(l.job, clock)
  OBVIOUS
<1>5. CASE proc' = [proc EXCEPT !["admin"].pc = "materialize", !["admin"].plan = plan]
  <2>1. PICK j : j = l.job
    OBVIOUS
  <2>2. PICK now \in Nat : now = clock
    BY DEF LifeInv, StoreOK
  <2>3. PICK q \in Goroutines : q = "admin"
    BY DEF Goroutines
  <2>4. Within(plan, now)
    <3>1. j.sched \in Sched
      BY <1>1, <2>1, AdminIs DEF AdminOK, JobOK
    <3>2. Timely(j) /\ now <= MaxClock
      BY <1>1, <2>1, <2>2, <2>3 DEF PastInv, Apt, AdminApt
    <3>3. plan = Materialize(j, now)
      BY <1>4, <2>1, <2>2
    <3> QED BY <3>1, <3>2, <3>3, MaterializeMakes
  <2>5. PICK pc : pc = "materialize"
    OBVIOUS
  <2>6. PICK m : m = [l EXCEPT !.pc = pc, !.plan = plan]
    OBVIOUS
  <2>7. Planned(m, l, pc, plan) /\ proc' = [proc EXCEPT ![q] = m]
    <3>1. Planned(m, l, pc, plan)
      BY <1>1, <2>6, AdminIs, Edited
    <3>2. proc' = [proc EXCEPT !["admin"] = m]
      BY <1>1, <1>5, <2>5, <2>6 DEF LifeInv, ProcOK, Goroutines
    <3> QED BY <2>3, <3>1, <3>2
  <2>8. \A i \in 1 .. Len(plan) : plan[i].op = "create" => plan[i].at \in Window
    BY <2>2, <2>4 DEF Within, Window
  <2> QED BY <1>1, <1>2, <2>3, <2>5, <2>7, <2>8, AdminGoes DEF StillPast, Idle
<1> QED BY <1>1, <1>3, <1>4, <1>5 DEF MaterializeUpserted

\* A call of a loop that cancels, counts or makes within the window.
LEMMA CallPast ==
    ASSUME LifeInv, PastInv, NEW c, Apply(c), clock' = clock, UNCHANGED ran,
           \/ c.op = "cancel" /\ c.exec.at \in Instants
           \/ c.op = "skip"
           \/ c.op = "create" /\ c.at \in Window
           \/ c.op = "abandon" /\ c.exec.at \in Instants /\ c.exec.at <= clock
    PROVE  Steady /\ NoneAnew
<1>1. CASE c.op = "cancel" /\ c.exec.at \in Instants
  <2>1. PICK e : e = c.exec
    OBVIOUS
  <2>2. PICK st \in ExecutionStateSet : st = "Cancelled"
    BY DEF ExecutionStateSet, TerminalStates
  <2>3. Update(e, st) /\ UNCHANGED job /\ UNCHANGED lastID /\ e.at \in Instants
    BY <1>1, <2>1, <2>2, ApplyCases
  <2>4. Punctual /\ NoneAnew
    BY <2>2, <2>3, UpdatePunctual
  <2> QED BY <2>3, <2>4 DEF Steady, Timely, PastInv
<1>2. CASE c.op = "skip"
  <2>1. /\ job' = IF job.present THEN [job EXCEPT !.skipped = @ + c.count] ELSE job
        /\ UNCHANGED executions /\ UNCHANGED lastID
    BY <1>2, ApplyCases
  <2>2. Timely(job)'
    BY <2>1 DEF PastInv, Timely
  <2> QED BY <2>1, <2>2, SamePunctual DEF Steady
<1>3. CASE c.op = "create" /\ c.at \in Window
  <2>1. PICK t0 : t0 = c.at
    OBVIOUS
  <2>2. Create(t0) /\ UNCHANGED job /\ t0 \in Window
    BY <1>3, <2>1, ApplyCases
  <2>3. Punctual /\ NoneAnew
    BY <2>2, CreatePunctual
  <2> QED BY <2>2, <2>3 DEF Steady, Timely, PastInv
<1>4. CASE c.op = "abandon" /\ c.exec.at \in Instants /\ c.exec.at <= clock
  <2>1. PICK t : t = c.exec.at
    OBVIOUS
  <2>2. PICK e : e = executions[t]
    OBVIOUS
  <2>3. PICK st \in ExecutionStateSet : st = "Ready"
    BY DEF ExecutionStateSet, DueStates
  <2>4. Update(e, st) /\ UNCHANGED job /\ UNCHANGED lastID
    BY <1>4, <2>1, <2>2, <2>3, ApplyCases
  <2>5. CASE Accepts(e, st)
    <3>1. e.id # 0
      <4>1. e.at \in Instants
        BY <1>4, <2>1, <2>2 DEF LifeInv, StoreOK, Record
      <4>2. executions[e.at].id = e.id /\ executions[e.at].state # "Absent"
        BY <2>5, FromOpen DEF Accepts
      <4> QED BY <4>1, <4>2 DEF LifeInv, StoreOK
    <3>2. e.at = t
      BY <1>4, <2>1, <2>2, <3>1 DEF LifeInv, StoreOK
    <3>3. Punctual /\ NoneAnew
      BY <1>4, <2>1, <2>3, <2>4, <3>2, UpdatePunctual
    <3> QED BY <2>4, <3>3 DEF Steady, Timely, PastInv
  <2>6. CASE ~Accepts(e, st)
    <3>1. UNCHANGED executions
      BY <2>4, <2>6 DEF Update
    <3> QED BY <2>4, <3>1, SamePunctual DEF Steady, Timely, PastInv
  <2> QED BY <2>5, <2>6
<1> QED BY <1>1, <1>2, <1>3, <1>4

LEMMA AdminCallPast ==
    ASSUME LifeInv, PastInv, AdminCall
    PROVE  StillPast
<1>1. PICK pc \in {"cancelled", "materialize", "delete"} : Perform("admin", pc)
  BY DEF AdminCall
<1>2. PICK l : l = proc["admin"]
  OBVIOUS
<1>3. PICK p \in Goroutines : p = "admin"
  BY DEF Goroutines
<1>4. AdminOK(l) /\ Young(l)
  BY <1>2, <1>3, AdminIs DEF PastInv, Apt, AdminApt
<1>5. Performed(p, pc, l)
  <2>1. Perform(p, pc) /\ l = proc[p]
    BY <1>1, <1>2, <1>3
  <2> QED BY <2>1, PerformCases
<1>6. PICK c, m, rest :
                 /\ c = l.plan[1] /\ 1 \in 1 .. Len(l.plan) /\ Shorter(l.plan, rest) /\ Listing(rest)
                 /\ Planned(m, l, pc, rest)
                 /\ proc' = [proc EXCEPT ![p] = m]
                 /\ Apply(c) \/ Quiet
  BY <1>5 DEF Performed
<1>7. clock' = clock /\ UNCHANGED ran
  BY <1>1 DEF Perform, engineVars
<1>8. Steady /\ NoneAnew
  <2>1. CASE Apply(c)
    <3>1. \/ c.op = "cancel" /\ c.exec.at \in Instants
          \/ c.op = "skip"
          \/ c.op = "create" /\ c.at \in Window
      BY <1>4, <1>6 DEF AdminOK, Faithful, Young
    <3> QED BY <1>7, <2>1, <3>1, CallPast
  <2>2. CASE Quiet
    BY <1>7, <2>2, QuietSteady
  <2> QED BY <1>6, <2>1, <2>2
<1>9. \A i \in 1 .. Len(rest) : rest[i].op = "create" => rest[i].at \in Window
  BY <1>4, <1>6 DEF Young, Shorter
<1> QED BY <1>1, <1>2, <1>3, <1>6, <1>8, <1>9, AdminGoes DEF StillPast, Idle

-----------------------------------------------------------------------------
(* The timing loop.                                                          *)

LEMMA TimingTurns ==
    ASSUME LifeInv, PastInv, Steady, NEW m, proc' = [proc EXCEPT !["timing"] = m], TimingApt(m)
    PROVE  PastInv'
<1>1. PICK q \in Goroutines : q = "timing"
  BY DEF Goroutines, Loops
<1> QED BY <1>1, PastActs DEF Apt

LEMMA TimingDue ==
    ASSUME PastInv, NEW l, l = proc["timing"]
    PROVE  TimingApt(l)
BY DEF PastInv, Apt, Goroutines, Loops

LEMMA VisitNextPast ==
    ASSUME LifeInv, PastInv, Steady, VisitNext
    PROVE  PastInv'
<1>1. PICK l : l = proc["timing"]
  OBVIOUS
<1>2. PICK m0 : m0 = Rest("visit")
  OBVIOUS
<1>3. PICK m : m = [m0 EXCEPT !.todo = l.todo]
  OBVIOUS
<1>4. proc' = [proc EXCEPT !["timing"] = m]
  BY <1>1, <1>2, <1>3 DEF VisitNext, Become
<1>5. Fresh(m0, "visit")
  BY <1>2, RestIs
<1>6. m.pc = "visit" /\ m.todo = l.todo
  <2>1. /\ m0 = [pc |-> m0.pc, now |-> m0.now, job |-> m0.job, exec |-> m0.exec,
                 todo |-> m0.todo, plan |-> m0.plan]
        /\ m0.pc = "visit"
    BY <1>5 DEF Fresh, Shaped
  <2>2. m = [pc |-> m0.pc, now |-> m0.now, job |-> m0.job, exec |-> m0.exec,
             todo |-> l.todo, plan |-> m0.plan]
    BY <1>3, <2>1
  <2> QED BY <2>1, <2>2
<1>7. TimingApt(m)
  BY <1>1, <1>6, TimingDue DEF TimingApt
<1> QED BY <1>4, <1>7, TimingTurns

LEMMA TimingAfresh ==
    ASSUME LifeInv, PastInv, Fits, Steady, NEW pc, Plain(pc), Become("timing", Rest(pc))
    PROVE  PastInv'
<1>1. PICK m : m = Rest(pc)
  OBVIOUS
<1>2. TimingApt(m)
  BY <1>1, RestIs, FreshApt DEF Plain
<1>3. proc' = [proc EXCEPT !["timing"] = m]
  BY <1>1 DEF Become
<1> QED BY <1>2, <1>3, TimingTurns

LEMMA TimingGoesOn ==
    ASSUME LifeInv, PastInv, Steady, NEW pc, pc \notin {"cancel", "skip", "claim"}, Goto("timing", pc)
    PROVE  PastInv'
<1>1. PICK l : l = proc["timing"]
  OBVIOUS
<1>2. PICK q \in Goroutines : q = "timing"
  BY DEF Goroutines, Loops
<1>3. PICK m : Planned(m, l, pc, l.plan) /\ proc' = [proc EXCEPT ![q] = m]
  BY <1>1, <1>2, GotoIs
<1>4. m.pc = pc /\ m.todo = l.todo
  BY <1>3 DEF Planned
<1>5. TimingApt(m)
  BY <1>1, <1>4, TimingDue DEF TimingApt
<1> QED BY <1>2, <1>3, <1>5, TimingTurns

LEMMA ProcessDuePast ==
    ASSUME LifeInv, PastInv, ProcessDue
    PROVE  StillPast
<1>1. Steady /\ NoneAnew
  <2>1. Quiet /\ clock' = clock
    BY DEF ProcessDue, engineVars
  <2> QED BY <2>1, QuietSteady
<1>2. CASE Goto("timing", "off") \/ Goto("timing", "lookup")
  BY <1>1, <1>2, TimingGoesOn DEF StillPast
<1>3. PICK batch : batch = DueBatch(clock)
  OBVIOUS
<1>4. CASE proc' = [proc EXCEPT !["timing"].pc = "visit", !["timing"].todo = batch]
  <2>1. PICK l : l = proc["timing"]
    OBVIOUS
  <2>2. PICK m : m = [l EXCEPT !.pc = "visit", !.todo = batch]
    OBVIOUS
  <2>3. Shaped(l)
    BY <2>1, TimingIs
  <2>4. m.pc = "visit" /\ m.todo = batch
    BY <2>2, <2>3 DEF Shaped
  <2>5. proc' = [proc EXCEPT !["timing"] = m]
    BY <1>4, <2>1, <2>2 DEF LifeInv, ProcOK, Goroutines, Loops
  <2>6. ASSUME NEW e \in batch PROVE e.at <= clock
    <3>1. e \in Stored /\ e.state \in DueStates /\ e.wake <= clock
      BY <1>3 DEF DueBatch, InStates
    <3>2. e.at \in Instants /\ executions[e.at] = e /\ Faithful(e)
      BY <3>1, StoredFaithful DEF LifeInv
    <3>3. e.at <= e.wake
      BY <3>1, <3>2 DEF PastInv, OnTime
    <3>4. e.at \in Nat /\ e.wake \in Nat /\ clock \in Nat
      BY <3>2, InstantsAre DEF Faithful, LifeInv, StoreOK
    <3> QED BY <3>1, <3>3, <3>4
  <2>7. TimingApt(m)
    BY <2>4, <2>6 DEF TimingApt
  <2> QED BY <1>1, <2>5, <2>7, TimingTurns DEF StillPast
<1> QED BY <1>2, <1>3, <1>4 DEF ProcessDue

LEMMA ConsiderPast ==
    ASSUME LifeInv, PastInv, Fits, Consider
    PROVE  StillPast
<1>1. Steady /\ NoneAnew
  <2>1. Quiet /\ clock' = clock
    BY DEF Consider, engineVars
  <2> QED BY <2>1, QuietSteady
<1>2. CASE Become("timing", Rest("lookup"))
  <2>1. Plain("lookup")
    BY DEF Plain
  <2> QED BY <1>1, <1>2, <2>1, TimingAfresh DEF StillPast
<1>3. PICK l : l = proc["timing"]
  OBVIOUS
<1>4. PICK e : e = Earliest(l.todo)
  OBVIOUS
<1>5. Shaped(l) /\ TimingOK(l) /\ TimingApt(l) /\ l.pc = "visit"
  BY <1>3, TimingIs, TimingDue DEF Consider
<1>6. l.todo # {} => e \in l.todo
  <2>1. \A x \in l.todo : x.wake \in Nat /\ x.id \in Nat
    BY <1>5 DEF TimingOK, Faithful
  <2>2. PICK S : S = l.todo
    OBVIOUS
  <2>3. S # {} => Earliest(S) \in S
    BY <2>1, <2>2, EarliestIn
  <2> QED BY <1>4, <2>2, <2>3
<1>7. PICK todo : todo = l.todo \ {e}
  OBVIOUS
<1>8. ASSUME NEW pc, l.todo # {},
             proc' = [proc EXCEPT !["timing"].pc = pc, !["timing"].exec = e,
                                  !["timing"].job = job, !["timing"].todo = @ \ {e}]
      PROVE  PastInv'
  <2>1. PICK m : m = [l EXCEPT !.pc = pc, !.exec = e, !.job = job, !.todo = @ \ {e}]
    OBVIOUS
  <2>2. proc' = [proc EXCEPT !["timing"] = m]
    BY <1>3, <1>8, <2>1 DEF LifeInv, ProcOK, Goroutines, Loops
  <2>3. m.exec = e /\ m.todo = todo
    <3>1. DOMAIN l = {"pc", "now", "job", "exec", "todo", "plan"}
      BY <1>5 DEF Shaped
    <3> QED BY <1>7, <2>1, <3>1
  <2>4. TimingApt(m)
    BY <1>5, <1>6, <1>7, <1>8, <2>3 DEF TimingApt
  <2> QED BY <1>1, <2>2, <2>4, TimingTurns
<1>9. CASE proc' = [proc EXCEPT !["timing"].todo = @ \ {e}]
  <2>1. PICK m : m = [l EXCEPT !.todo = todo]
    OBVIOUS
  <2>2. proc' = [proc EXCEPT !["timing"] = m]
    BY <1>3, <1>7, <1>9, <2>1 DEF LifeInv, ProcOK, Goroutines, Loops
  <2>3. m.pc = "visit" /\ m.todo = todo
    BY <1>5, <2>1 DEF Shaped
  <2>4. TimingApt(m)
    BY <1>5, <1>7, <2>3 DEF TimingApt
  <2> QED BY <1>1, <2>2, <2>4, TimingTurns DEF StillPast
<1>10. \/ Become("timing", Rest("lookup"))
       \/ /\ l.todo # {}
          /\ \E pc \in {"cancel", "skip", "claim"} :
                proc' = [proc EXCEPT !["timing"].pc = pc, !["timing"].exec = e,
                                     !["timing"].job = job, !["timing"].todo = @ \ {e}]
       \/ proc' = [proc EXCEPT !["timing"].todo = @ \ {e}]
  <2>1. PICK go : go = IF SkipOverlap /\ Overlapping(e) THEN "skip" ELSE "claim"
    OBVIOUS
  <2> QED BY <1>3, <1>4, <2>1, Zenon DEF Consider
<1> QED BY <1>1, <1>2, <1>8, <1>9, <1>10 DEF StillPast

LEMMA TransitionPast ==
    ASSUME LifeInv, PastInv, Transition
    PROVE  StillPast
<1>1. PICK l : l = proc["timing"]
  OBVIOUS
<1>2. PICK e : e = l.exec
  OBVIOUS
<1>3. /\ l.pc \in {"cancel", "skip"} /\ UNCHANGED job /\ UNCHANGED lastID /\ UNCHANGED ran
      /\ clock' = clock
  BY <1>1 DEF Transition, engineVars
<1>4. e.at \in Instants
  BY <1>1, <1>2, <1>3, TimingIs DEF TimingOK, Faithful
<1>5. Punctual /\ NoneAnew
  <2>1. CASE UNCHANGED executions
    BY <1>3, <2>1, SamePunctual
  <2>2. CASE Update(l.exec, IF l.pc = "cancel" THEN "Cancelled" ELSE "Skipped")
    <3>1. PICK st \in ExecutionStateSet : st = IF l.pc = "cancel" THEN "Cancelled" ELSE "Skipped"
      BY DEF ExecutionStateSet, TerminalStates
    <3>2. Update(e, st) /\ st \in {"Cancelled", "Skipped"}
      BY <1>2, <2>2, <3>1
    <3> QED BY <1>3, <1>4, <3>2, UpdatePunctual
  <2> QED BY <1>1, <2>1, <2>2 DEF Transition
<1>6. Steady
  BY <1>3, <1>5 DEF Steady, PastInv, Timely
<1>7. VisitNext \/ Goto("timing", "next")
  BY DEF Transition
<1> QED BY <1>5, <1>6, <1>7, VisitNextPast, TimingGoesOn DEF StillPast

LEMMA ClaimPast ==
    ASSUME LifeInv, PastInv, Claim
    PROVE  StillPast
<1>1. PICK l : l = proc["timing"]
  OBVIOUS
<1>2. PICK e : e = l.exec
  OBVIOUS
<1>3. l.pc = "claim" /\ UNCHANGED job /\ UNCHANGED lastID /\ UNCHANGED ran /\ clock' = clock
  BY <1>1 DEF Claim, engineVars
<1>4. e.at \in Instants /\ e.at <= clock /\ Shaped(l) /\ TimingApt(l)
  BY <1>1, <1>2, <1>3, TimingIs, TimingDue DEF TimingOK, TimingApt, Faithful
<1>5. CASE VisitNext /\ UNCHANGED executions
  <2>1. Punctual /\ NoneAnew
    BY <1>3, <1>5, SamePunctual
  <2>2. Steady
    BY <1>3, <2>1 DEF Steady, PastInv, Timely
  <2> QED BY <1>5, <2>1, <2>2, VisitNextPast DEF StillPast
<1>6. CASE /\ Accepts(e, "Dispatching") /\ Update(e, "Dispatching")
           /\ proc' = [proc EXCEPT !["timing"].pc = "attempt", !["timing"].exec = executions'[e.at]]
  <2>1. PICK st \in ExecutionStateSet : st = "Dispatching"
    BY DEF ExecutionStateSet, LeasedStates
  <2>2. Update(e, st)
    BY <1>6, <2>1
  <2>3. Punctual /\ NoneAnew
    BY <1>3, <1>4, <2>2, UpdatePunctual
  <2>4. Steady
    BY <1>3, <2>3 DEF Steady, PastInv, Timely
  <2>5. PICK new : new = executions'[e.at]
    OBVIOUS
  <2>6. PICK m : m = [l EXCEPT !.pc = "attempt", !.exec = new]
    OBVIOUS
  <2>7. proc' = [proc EXCEPT !["timing"] = m]
    BY <1>1, <1>6, <2>5, <2>6 DEF LifeInv, ProcOK, Goroutines, Loops
  <2>8. m.pc = "attempt" /\ m.todo = l.todo
    BY <1>4, <2>6 DEF Shaped
  <2>9. TimingApt(m)
    BY <1>4, <2>8 DEF TimingApt
  <2> QED BY <2>3, <2>4, <2>7, <2>9, TimingTurns DEF StillPast
<1> QED BY <1>1, <1>2, <1>5, <1>6, Zenon DEF Claim

LEMMA CreateAttemptPast ==
    ASSUME LifeInv, PastInv, CreateAttempt
    PROVE  StillPast
<1>1. /\ UNCHANGED job /\ UNCHANGED lastID /\ UNCHANGED executions /\ UNCHANGED ran
      /\ clock' = clock
  BY DEF CreateAttempt, engineVars
<1>2. Punctual /\ NoneAnew
  BY <1>1, SamePunctual
<1>3. Steady
  BY <1>1, <1>2 DEF Steady, PastInv, Timely
<1>4. VisitNext \/ Goto("timing", "deliver")
  BY DEF CreateAttempt
<1> QED BY <1>2, <1>3, <1>4, VisitNextPast, TimingGoesOn DEF StillPast

LEMMA DeliverPast ==
    ASSUME LifeInv, PastInv, Deliver
    PROVE  StillPast
<1>1. PICK l : l = proc["timing"]
  OBVIOUS
<1>2. PICK e : e = l.exec
  OBVIOUS
<1>3. l.pc = "deliver" /\ UNCHANGED job /\ UNCHANGED lastID /\ UNCHANGED ran /\ clock' = clock
  BY <1>1 DEF Deliver, engineVars
<1>4. e.at \in Instants /\ executions[e.at] = e /\ e.state = "Dispatching"
  BY <1>1, <1>2, <1>3, TimingIs DEF TimingOK, Held
<1>5. e.at <= clock
  BY <1>4 DEF PastInv, OnTime, LeasedStates
<1>6. PICK st \in ExecutionStateSet : st = "Running"
  BY DEF ExecutionStateSet, LeasedStates
<1>7. Update(e, st)
  BY <1>1, <1>2, <1>6 DEF Deliver
<1>8. Punctual /\ NoneAnew
  BY <1>3, <1>4, <1>5, <1>7, UpdatePunctual
<1>9. Steady
  BY <1>3, <1>8 DEF Steady, PastInv, Timely
<1>10. VisitNext \/ Goto("timing", "next")
  BY DEF Deliver
<1> QED BY <1>8, <1>9, <1>10, VisitNextPast, TimingGoesOn DEF StillPast

\* The successor of what is dispatched may be one that ran and was purged.
LEMMA MaterializeNextPast ==
    ASSUME LifeInv, PastInv, MaterializeNext
    PROVE  PastInv'
<1>1. PICK t0 : t0 = nextOccurrence(proc["timing"].job.sched, proc["timing"].exec.at).at
  OBVIOUS
<1>2. VisitNext /\ UNCHANGED job /\ UNCHANGED ran /\ clock' = clock
  BY DEF MaterializeNext, engineVars
<1>3. CASE Create(t0)
  <2>1. Punctual
    BY <1>2, <1>3, CreatePunctual
  <2>2. Steady
    BY <1>2, <2>1 DEF Steady, PastInv, Timely
  <2> QED BY <1>2, <2>2, VisitNextPast
<1>4. CASE UNCHANGED <<executions, lastID>>
  <2>1. Punctual
    BY <1>4, SamePunctual
  <2>2. Steady
    BY <1>2, <2>1 DEF Steady, PastInv, Timely
  <2> QED BY <1>2, <2>2, VisitNextPast
<1> QED BY <1>1, <1>3, <1>4 DEF MaterializeNext

LEMMA NextWakeAtPast ==
    ASSUME LifeInv, PastInv, Fits, NextWakeAt
    PROVE  StillPast
<1>1. Quiet /\ clock' = clock /\ Become("timing", Rest("wait"))
  BY DEF NextWakeAt, engineVars
<1>2. Plain("wait")
  BY DEF Plain
<1> QED BY <1>1, <1>2, QuietSteady, TimingAfresh DEF StillPast

LEMMA WaitPast ==
    ASSUME LifeInv, PastInv, Wait
    PROVE  StillPast
<1>1. Quiet /\ clock' = clock /\ Goto("timing", "top")
  BY DEF Wait, engineVars
<1> QED BY <1>1, QuietSteady, TimingGoesOn DEF StillPast

-----------------------------------------------------------------------------
(* The reconcile loop.                                                       *)

LEMMA ReconcileTurns ==
    ASSUME LifeInv, PastInv, Steady, NEW m, proc' = [proc EXCEPT !["reconcile"] = m], ReconcileApt(m)
    PROVE  PastInv'
<1>1. PICK q \in Goroutines : q = "reconcile"
  BY DEF Goroutines, Loops
<1> QED BY <1>1, PastActs DEF Apt

LEMMA ReconcileDue ==
    ASSUME PastInv, NEW l, l = proc["reconcile"]
    PROVE  ReconcileApt(l)
BY DEF PastInv, Apt, Goroutines, Loops

\* What a sweep finds settled longer ago than retention is out of the window:
\* it succeeded no earlier than its instant, and retention covers the window.
LEMMA SweepApt ==
    ASSUME LifeInv, PastInv, Fits, NEW m, m = Sweep(clock)
    PROVE  ReconcileApt(m)
<1>1. PICK before : before = clock - cfg.retention
  OBVIOUS
<1>2. PICK expired : expired = ExpiredExecutions(before)
  OBVIOUS
<1>3. ASSUME NEW e \in expired PROVE Expired(e)
  <2>1. e \in Stored /\ e.state \in TerminalStates /\ e.updated < before
    BY <1>2 DEF ExpiredExecutions, InStates
  <2>2. Faithful(e) /\ e.at \in Instants /\ executions[e.at] = e
    BY <2>1, StoredFaithful DEF LifeInv
  <2>3. ASSUME e.state = "Succeeded" PROVE e.at \notin Window
    <3>1. e.at <= e.updated
      BY <2>2, <2>3 DEF PastInv, OnTime
    <3>2. e.at \in Nat /\ e.updated \in Nat /\ clock \in Nat
      BY <2>2, InstantsAre DEF Faithful, LifeInv, StoreOK
    <3>3. PICK kept \in Nat : kept = cfg.retention
      BY ConfigAges
    <3>4. PICK age \in Nat : age = cfg.maxAge /\ age <= kept
      BY <3>3, ConfigAges
    <3>5. e.updated < clock - kept
      BY <1>1, <2>1, <3>3
    <3>6. ~(clock <= e.at + age)
      BY <3>1, <3>2, <3>4, <3>5
    <3> QED BY <3>4, <3>6 DEF Window
  <2> QED BY <2>1, <2>2, <2>3 DEF Expired
<1>4. CASE m = Rest("rest")
  <2>1. PICK pc : pc = "rest"
    OBVIOUS
  <2>2. Fresh(m, pc)
    BY <1>4, <2>1, RestIs
  <2> QED BY <2>1, <2>2, FreshApt
<1>5. PICK m0 : m0 = Rest("purge")
  OBVIOUS
<1>6. CASE m = [m0 EXCEPT !.todo = expired]
  <2>1. Fresh(m0, "purge")
    BY <1>5, RestIs
  <2>2. m.pc = "purge" /\ m.todo = expired /\ m.plan = m0.plan /\ m.job = NoJob
    BY <1>6, <2>1 DEF Fresh, Shaped
  <2>3. 1 .. Len(m.plan) = {}
    BY <2>1, <2>2 DEF Fresh
  <2> QED BY <1>3, <2>2, <2>3, NoJobTimely DEF ReconcileApt
<1> QED BY <1>1, <1>2, <1>4, <1>5, <1>6 DEF Sweep

LEMMA EnsureApt ==
    ASSUME LifeInv, PastInv, Fits, NEW m, m = Ensure(clock)
    PROVE  ReconcileApt(m)
<1>1. CASE m = Sweep(clock)
  BY <1>1, SweepApt
<1>2. PICK m0 : m0 = Rest("ensure")
  OBVIOUS
<1>3. PICK now : now = clock
  OBVIOUS
<1>4. CASE m = [m0 EXCEPT !.now = now, !.job = job] /\ nextOccurrence(job.sched, now).exists
  <2>1. Fresh(m0, "ensure")
    BY <1>2, RestIs
  <2>2. m.pc = "ensure" /\ m.now = now /\ m.job = job
    <3>1. /\ DOMAIN m0 = {"pc", "now", "job", "exec", "todo", "plan"} /\ m0.pc = "ensure"
      BY <2>1 DEF Fresh, Shaped
    <3> QED BY <1>4, <3>1
  <2>3. Following(m)
    BY <1>4, <2>2 DEF Following, LifeInv, JobOK
  <2> QED BY <1>3, <2>2, <2>3 DEF ReconcileApt, PastInv, Timely
<1> QED BY <1>1, <1>2, <1>3, <1>4 DEF Ensure

LEMMA ReconcilePast ==
    ASSUME LifeInv, PastInv, Fits, Reconcile
    PROVE  StillPast
<1>1. Steady /\ NoneAnew
  <2>1. Quiet /\ clock' = clock
    BY DEF Reconcile, engineVars
  <2> QED BY <2>1, QuietSteady
<1>2. CASE UNCHANGED proc
  BY <1>1, <1>2, PastMoves DEF StillPast
<1>3. CASE Become("reconcile", Ensure(clock))
  <2>1. PICK m : m = Ensure(clock)
    OBVIOUS
  <2>2. ReconcileApt(m)
    BY <2>1, EnsureApt
  <2>3. proc' = [proc EXCEPT !["reconcile"] = m]
    BY <1>3, <2>1 DEF Become
  <2> QED BY <1>1, <2>2, <2>3, ReconcileTurns DEF StillPast
<1>4. CASE Become("reconcile", Sweep(clock))
  <2>1. PICK m : m = Sweep(clock)
    OBVIOUS
  <2>2. ReconcileApt(m)
    BY <2>1, SweepApt
  <2>3. proc' = [proc EXCEPT !["reconcile"] = m]
    BY <1>4, <2>1 DEF Become
  <2> QED BY <1>1, <2>2, <2>3, ReconcileTurns DEF StillPast
<1>5. PICK lost : lost = InOrder(ExpiredLeases)
  OBVIOUS
<1>6. PICK plan : plan = [i \in DOMAIN lost |-> Abandon(lost[i])]
  OBVIOUS
<1>7. PICK m0 : m0 = Rest("reap")
  OBVIOUS
<1>8. PICK m : m = [m0 EXCEPT !.now = clock, !.plan = plan]
  OBVIOUS
<1>9. CASE Become("reconcile", m)
  <2>1. /\ m0 = [pc |-> m0.pc, now |-> m0.now, job |-> m0.job, exec |-> m0.exec,
                 todo |-> m0.todo, plan |-> m0.plan]
        /\ m0.pc = "reap" /\ m0.job = NoJob
    BY <1>7, RestIs DEF Fresh, Shaped
  <2>2. PICK now : now = clock
    OBVIOUS
  <2>3. m.pc = "reap" /\ m.now = now /\ m.job = NoJob
    <3>1. m = [m0 EXCEPT !.now = now, !.plan = plan]
      BY <1>8, <2>2
    <3>2. DOMAIN m0 = {"pc", "now", "job", "exec", "todo", "plan"}
      BY <2>1
    <3> QED BY <2>1, <3>1, <3>2
  <2>4. ReconcileApt(m)
    BY <2>2, <2>3, NoJobTimely DEF ReconcileApt
  <2>5. proc' = [proc EXCEPT !["reconcile"] = m]
    BY <1>9 DEF Become
  <2> QED BY <1>1, <2>4, <2>5, ReconcileTurns DEF StillPast
<1> QED BY <1>2, <1>3, <1>4, <1>5, <1>6, <1>7, <1>8, <1>9, Zenon DEF Reconcile

\* What is reaped is still being dispatched: its instant has come.
LEMMA ReapPast ==
    ASSUME LifeInv, PastInv, Perform("reconcile", "reap")
    PROVE  StillPast
<1>1. PICK l : l = proc["reconcile"]
  OBVIOUS
<1>2. PICK p \in Goroutines : p = "reconcile"
  BY DEF Goroutines, Loops
<1>3. PICK pc : pc = "reap"
  OBVIOUS
<1>4. Performed(p, pc, l)
  <2>1. Perform(p, pc) /\ l = proc[p]
    BY <1>1, <1>2, <1>3
  <2> QED BY <2>1, PerformCases
<1>5. PICK c, m, rest :
          /\ c = l.plan[1] /\ 1 \in 1 .. Len(l.plan) /\ Shorter(l.plan, rest) /\ Listing(rest)
          /\ Planned(m, l, pc, rest)
          /\ proc' = [proc EXCEPT ![p] = m]
          /\ Apply(c) \/ Quiet
  BY <1>4 DEF Performed
<1>6. l.pc = "reap"
  BY <1>3, <1>4 DEF Performed
<1>7. clock' = clock /\ UNCHANGED ran
  BY DEF Perform, engineVars
<1>8. Steady /\ NoneAnew
  <2>1. CASE Quiet
    BY <1>7, <2>1, QuietSteady
  <2>2. CASE Apply(c)
    <3>1. c.op = "abandon" /\ Lost(c.exec)
      BY <1>1, <1>5, <1>6, ReconcileIs DEF ReconcileOK
    <3>2. c.exec.at \in Instants /\ c.exec.at <= clock
      BY <3>1 DEF Lost, PastInv, OnTime, LeasedStates
    <3> QED BY <1>7, <2>2, <3>1, <3>2, CallPast
  <2> QED BY <1>5, <2>1, <2>2
<1>9. m.pc = "reap" /\ m.now = l.now /\ m.job = l.job
  BY <1>3, <1>5 DEF Planned
<1>10. ReconcileApt(m)
  <2>1. ReconcileApt(l)
    BY <1>1, ReconcileDue
  <2> QED BY <1>6, <1>9, <2>1 DEF ReconcileApt
<1> QED BY <1>2, <1>5, <1>8, <1>10, ReconcileTurns DEF StillPast

LEMMA ReapedPast ==
    ASSUME LifeInv, PastInv, Fits, Reaped
    PROVE  StillPast
<1>1. Steady /\ NoneAnew
  <2>1. Quiet /\ clock' = clock
    BY DEF Reaped, engineVars
  <2> QED BY <2>1, QuietSteady
<1>2. PICK l : l = proc["reconcile"]
  OBVIOUS
<1>3. l.now = clock
  BY <1>2, ReconcileDue DEF Reaped, ReconcileApt
<1>4. PICK m : m = Ensure(clock)
  OBVIOUS
<1>5. proc' = [proc EXCEPT !["reconcile"] = m]
  BY <1>2, <1>3, <1>4 DEF Reaped, Become
<1>6. ReconcileApt(m)
  BY <1>4, EnsureApt
<1> QED BY <1>1, <1>5, <1>6, ReconcileTurns DEF StillPast

\* The missing occurrence lies ahead of the clock of its pass.
LEMMA EnsurePendingPast ==
    ASSUME LifeInv, PastInv, Fits, EnsurePending
    PROVE  StillPast
<1>1. PICK l : l = proc["reconcile"]
  OBVIOUS
<1>2. PICK now \in Nat : now = clock
  BY DEF LifeInv, StoreOK
<1>3. ReconcileApt(l) /\ l.pc = "ensure"
  BY <1>1, ReconcileDue DEF EnsurePending
<1>4. l.now = now /\ Following(l) /\ Timely(l.job)
  BY <1>2, <1>3 DEF ReconcileApt
<1>5. PICK spec \in Sched : spec = l.job.sched
  BY <1>4 DEF Following, JobOK
<1>6. PICK next : next = nextOccurrence(spec, now)
  OBVIOUS
<1>7. PICK t0 : t0 = next.at
  OBVIOUS
<1>8. t0 \in Window
  <2>1. next.exists
    BY <1>4, <1>5, <1>6 DEF Following
  <2>2. PICK width \in Int : width = scheduleInterval(spec)
    BY IntervalNat
  <2>3. now + scheduleInterval(spec) <= MaxDuration
    <3>1. MaxClock + width <= MaxDuration /\ now <= MaxClock
      BY <1>2, <1>4, <1>5, <2>2 DEF Timely, PastInv
    <3>2. MaxClock \in Nat /\ MaxDuration \in Nat
      BY OccurrencesAssumption
    <3>3. now + width <= MaxDuration
      BY <3>1, <3>2
    <3> QED BY <2>2, <3>3
  <2>4. next.at \in Int /\ now < next.at
    BY <1>6, <2>1, <2>3, NextLater
  <2>5. PICK age \in Nat : age = cfg.maxAge
    BY ConfigAges
  <2>6. now <= t0 + age /\ t0 \in Int
    BY <1>7, <2>4, <2>5
  <2> QED BY <1>2, <2>5, <2>6 DEF Window
<1>9. UNCHANGED job /\ UNCHANGED ran /\ clock' = clock
  BY DEF EnsurePending, engineVars
<1>10. Create(t0) \/ UNCHANGED <<executions, lastID>>
  BY <1>1, <1>4, <1>5, <1>6, <1>7 DEF EnsurePending
<1>11. Punctual /\ NoneAnew
  BY <1>8, <1>9, <1>10, CreatePunctual, SamePunctual
<1>12. Steady
  BY <1>9, <1>11 DEF Steady, PastInv, Timely
<1>13. PICK m : m = Sweep(clock)
  OBVIOUS
<1>14. proc' = [proc EXCEPT !["reconcile"] = m]
  BY <1>1, <1>2, <1>4, <1>13 DEF EnsurePending, Become
<1>15. ReconcileApt(m)
  BY <1>13, SweepApt
<1> QED BY <1>11, <1>12, <1>14, <1>15, ReconcileTurns DEF StillPast

LEMMA PurgeExecutionPast ==
    ASSUME LifeInv, PastInv, Fits, PurgeExecution
    PROVE  StillPast
<1>1. PICK l : l = proc["reconcile"]
  OBVIOUS
<1>2. l.pc = "purge" /\ l.plan = <<>> /\ Quiet /\ clock' = clock
  BY <1>1 DEF PurgeExecution, Finished, engineVars
<1>3. Steady /\ NoneAnew
  BY <1>2, QuietSteady
<1>4. Shaped(l) /\ ReconcileOK(l) /\ ReconcileApt(l)
  BY <1>1, ReconcileIs, ReconcileDue
<1>5. CASE Become("reconcile", Rest("rest"))
  <2>1. PICK pc : pc = "rest"
    OBVIOUS
  <2>2. PICK m : m = Rest(pc)
    OBVIOUS
  <2>3. ReconcileApt(m)
    BY <2>1, <2>2, RestIs, FreshApt
  <2>4. proc' = [proc EXCEPT !["reconcile"] = m]
    BY <1>5, <2>1, <2>2 DEF Become
  <2> QED BY <1>3, <2>3, <2>4, ReconcileTurns DEF StillPast
<1>6. PICK S : S = l.todo
  OBVIOUS
<1>7. PICK e : e = CHOOSE x \in S : \A o \in S : x.updated <= o.updated
  OBVIOUS
<1>8. \A x \in S : Expired(x) /\ x.updated \in Nat
  BY <1>2, <1>4, <1>6 DEF ReconcileApt, Expired, Faithful
<1>9. S # {} => Expired(e)
  <2>1. S # {} => e \in S
    BY <1>7, <1>8, OldestIn
  <2> QED BY <1>8, <2>1
<1>10. PICK todo : todo = l.todo \ {e}
  OBVIOUS
<1>11. CASE proc' = [proc EXCEPT !["reconcile"].todo = @ \ {e}]
  <2>1. PICK m : m = [l EXCEPT !.todo = todo]
    OBVIOUS
  <2>2. proc' = [proc EXCEPT !["reconcile"] = m]
    BY <1>1, <1>10, <1>11, <2>1 DEF LifeInv, ProcOK, Goroutines, Loops
  <2>3. m.pc = "purge" /\ m.todo = todo /\ m.plan = l.plan /\ m.job = l.job
    BY <1>2, <1>4, <2>1 DEF Shaped
  <2>4. ReconcileApt(m)
    BY <1>2, <1>4, <1>10, <2>3 DEF ReconcileApt
  <2> QED BY <1>3, <2>2, <2>4, ReconcileTurns DEF StillPast
<1>12. PICK owned : owned = {a \in attempts : a.of = e.id}
  OBVIOUS
<1>13. PICK plan : plan = Purge(e, owned)
  OBVIOUS
<1>14. PurgeList(plan, e, owned)
  <2>1. IsFiniteSet(owned)
    BY <1>12, FS_Subset DEF LifeInv, AttemptsOK
  <2> QED BY <1>13, <2>1, PurgeLists
<1>15. \A i \in 1 .. Len(plan) : plan[i].op = "deleteExecution" => plan[i].exec = e
  <2> SUFFICES ASSUME NEW i \in 1 .. Len(plan), plan[i].op = "deleteExecution" PROVE plan[i].exec = e
    OBVIOUS
  <2>1. Len(plan) \in Nat
    BY <1>14 DEF PurgeList, Listing
  <2>2. i = Len(plan)
    BY <1>14, <2>1 DEF PurgeList
  <2> QED BY <1>14, <2>2 DEF PurgeList, DeleteExecution
<1>16. CASE /\ S # {}
            /\ proc' = [proc EXCEPT !["reconcile"].todo = @ \ {e}, !["reconcile"].plan = plan]
  <2>1. PICK m : m = [l EXCEPT !.todo = todo, !.plan = plan]
    OBVIOUS
  <2>2. proc' = [proc EXCEPT !["reconcile"] = m]
    BY <1>1, <1>10, <1>16, <2>1 DEF LifeInv, ProcOK, Goroutines, Loops
  <2>3. m.pc = "purge" /\ m.todo = todo /\ m.plan = plan /\ m.job = l.job
    BY <1>2, <1>4, <2>1 DEF Shaped
  <2>4. ReconcileApt(m)
    BY <1>2, <1>4, <1>9, <1>10, <1>15, <1>16, <2>3 DEF ReconcileApt
  <2> QED BY <1>3, <2>2, <2>4, ReconcileTurns DEF StillPast
<1> QED BY <1>1, <1>5, <1>6, <1>7, <1>11, <1>12, <1>13, <1>16 DEF PurgeExecution

LEMMA PurgeCallPast ==
    ASSUME LifeInv, PastInv, PurgeCall
    PROVE  StillPast
<1>1. PICK l : l = proc["reconcile"]
  OBVIOUS
<1>2. l.pc = "purge" /\ l.plan # <<>> /\ clock' = clock /\ UNCHANGED ran
  BY <1>1 DEF PurgeCall, Finished, engineVars
<1>3. Shaped(l) /\ ReconcileOK(l) /\ ReconcileApt(l)
  BY <1>1, ReconcileIs, ReconcileDue
<1>4. PICK rest : rest = Tail(l.plan)
  OBVIOUS
<1>5. PICK c : c = Head(l.plan)
  OBVIOUS
<1>6. Shorter(l.plan, rest) /\ c = l.plan[1] /\ 1 \in 1 .. Len(l.plan)
  BY <1>2, <1>3, <1>4, <1>5, TailShorter DEF Shaped
<1>7. CASE UNCHANGED storeVars /\ proc' = [proc EXCEPT !["reconcile"].plan = <<>>]
  <2>1. Steady /\ NoneAnew
    BY <1>2, <1>7, QuietSteady DEF Quiet
  <2>2. PICK none : none = <<>>
    OBVIOUS
  <2>3. PICK m : m = [l EXCEPT !.plan = none]
    OBVIOUS
  <2>4. proc' = [proc EXCEPT !["reconcile"] = m]
    BY <1>1, <1>7, <2>2, <2>3
  <2>5. Planned(m, l, l.pc, none) /\ 1 .. Len(none) = {}
    <3>1. Planned(m, l, l.pc, none)
      BY <1>3, <2>3, Edited
    <3>2. Len(none) = 0
      BY <2>2, EmptyListing
    <3>3. \A n : n = 0 => 1 .. n = {}
      OBVIOUS
    <3> QED BY <3>1, <3>2, <3>3
  <2>6. ReconcileApt(m)
    BY <1>2, <1>3, <2>5 DEF Planned, ReconcileApt
  <2> QED BY <2>1, <2>4, <2>6, ReconcileTurns DEF StillPast
<1>8. CASE Apply(c) /\ proc' = [proc EXCEPT !["reconcile"].plan = rest]
  <2>1. PICK m : m = [l EXCEPT !.plan = rest]
    OBVIOUS
  <2>2. proc' = [proc EXCEPT !["reconcile"] = m]
    BY <1>1, <1>8, <2>1
  <2>3. Planned(m, l, l.pc, rest)
    BY <1>3, <2>1, Edited
  <2>4. ReconcileApt(m)
    BY <1>2, <1>3, <1>6, <2>3 DEF Planned, ReconcileApt, Shorter
  <2>5. c.op = "deleteAttempt" \/ (c.op = "deleteExecution" /\ Expired(c.exec))
    <3>1. PICK e : PurgeList(l.plan, e, {a \in attempts : a.of = e.id})
      BY <1>2, <1>3 DEF ReconcileOK, PurgeOK
    <3>2. CASE Len(l.plan) = 1
      <4>1. c.op = "deleteExecution"
        BY <1>6, <3>1, <3>2 DEF PurgeList, DeleteExecution
      <4> QED BY <1>2, <1>3, <1>6, <4>1 DEF ReconcileApt
    <3>3. CASE Len(l.plan) # 1
      <4>1. 1 \in 1 .. Len(l.plan) - 1
        <5>1. PICK n \in Nat : n = Len(l.plan)
          BY <3>1 DEF PurgeList, Listing
        <5>2. n > 0 /\ n # 1
          BY <3>1, <3>3, <5>1 DEF PurgeList
        <5>3. 1 \in 1 .. n - 1
          BY <5>2
        <5> QED BY <5>1, <5>3
      <4> QED BY <1>6, <3>1, <4>1 DEF PurgeList
    <3> QED BY <3>2, <3>3
  <2>6. CASE c.op = "deleteAttempt"
    <3>1. UNCHANGED job /\ UNCHANGED executions /\ UNCHANGED lastID
      BY <1>8, <2>6, ApplyCases
    <3>2. Punctual /\ NoneAnew
      BY <3>1, SamePunctual
    <3>3. Steady
      BY <1>2, <3>1, <3>2 DEF Steady, PastInv, Timely
    <3> QED BY <2>2, <2>4, <3>2, <3>3, ReconcileTurns DEF StillPast
  <2>7. CASE c.op = "deleteExecution" /\ Expired(c.exec)
    <3>1. PICK e : e = c.exec
      OBVIOUS
    <3>2. /\ executions' = IF executions[e.at].id = e.id
                           THEN [executions EXCEPT ![e.at] = NoExecution]
                           ELSE executions
          /\ UNCHANGED job /\ UNCHANGED lastID
      BY <1>8, <2>7, <3>1, ApplyCases
    <3>3. Punctual /\ NoneAnew
      BY <1>2, <2>7, <3>1, <3>2, DeletePunctual
    <3>4. Steady
      BY <1>2, <3>2, <3>3 DEF Steady, PastInv, Timely
    <3> QED BY <2>2, <2>4, <3>3, <3>4, ReconcileTurns DEF StillPast
  <2> QED BY <2>5, <2>6, <2>7
<1> QED BY <1>1, <1>4, <1>5, <1>7, <1>8 DEF PurgeCall

LEMMA ReconcileLeavesPast ==
    ASSUME LifeInv, PastInv, ReconcileLeaves
    PROVE  StillPast
<1>1. Quiet /\ clock' = clock /\ Goto("reconcile", "off")
  BY DEF ReconcileLeaves, engineVars
<1>2. Steady /\ NoneAnew
  BY <1>1, QuietSteady
<1>3. PICK l : l = proc["reconcile"]
  OBVIOUS
<1>4. PICK q \in Goroutines : q = "reconcile"
  BY DEF Goroutines, Loops
<1>5. PICK pc : pc = "off"
  OBVIOUS
<1>6. PICK m : Planned(m, l, pc, l.plan) /\ proc' = [proc EXCEPT ![q] = m]
  <2>1. Goto(q, pc) /\ l = proc[q]
    BY <1>1, <1>3, <1>4, <1>5
  <2> QED BY <2>1, GotoIs
<1>7. ReconcileApt(m)
  <2>1. Timely(l.job)
    BY <1>3, ReconcileDue DEF ReconcileApt
  <2> QED BY <1>5, <1>6, <2>1 DEF Planned, ReconcileApt
<1> QED BY <1>2, <1>4, <1>6, <1>7, ReconcileTurns DEF StillPast

-----------------------------------------------------------------------------
(* Start, stop, crash, settlement and time.                                  *)

LEMMA StartTurns ==
    ASSUME LifeInv, PastInv, Steady, NEW m, proc' = [proc EXCEPT !["start"] = m], StartApt(m)
    PROVE  PastInv'
<1>1. PICK q \in Goroutines : q = "start"
  BY DEF Goroutines
<1> QED BY <1>1, PastActs DEF Apt

\* The start makes what was missed on the clock it starts at.
LEMMA StartEnginePast ==
    ASSUME LifeInv, PastInv, Fits, StartEngine
    PROVE  StillPast
<1>1. Steady /\ NoneAnew
  <2>1. Quiet /\ clock' = clock
    BY DEF StartEngine
  <2> QED BY <2>1, QuietSteady
<1>2. PICK plan : plan = IF job.present /\ job.enabled THEN Materialize(job, clock) ELSE <<>>
  OBVIOUS
<1>3. PICK m0 : m0 = Rest("recover")
  OBVIOUS
<1>4. Fresh(m0, "recover")
  BY <1>3, RestIs
<1>5. CASE Become("start", [m0 EXCEPT !.plan = plan])
  <2>1. PICK m : m = [m0 EXCEPT !.plan = plan]
    OBVIOUS
  <2>2. m.pc = "recover" /\ m.plan = plan
    BY <1>4, <2>1 DEF Fresh, Shaped
  <2>3. \A i \in 1 .. Len(plan) : /\ plan[i].op # "abandon"
                                  /\ plan[i].op = "create" => plan[i].at \in Window
    <3>1. CASE plan = <<>>
      <4>1. Len(plan) = 0
        BY <3>1, EmptyListing
      <4>2. \A n : n = 0 => 1 .. n = {}
        OBVIOUS
      <4> QED BY <4>1, <4>2
    <3>2. CASE plan = Materialize(job, clock)
      <4>1. PICK j : j = job
        OBVIOUS
      <4>2. PICK now \in Nat : now = clock
        BY DEF LifeInv, StoreOK
      <4>3. j.sched \in Sched
        BY <4>1 DEF LifeInv, JobOK
      <4>4. plan = Materialize(j, now)
        BY <3>2, <4>1, <4>2
      <4>5. Timely(j) /\ now <= MaxClock
        BY <4>1, <4>2 DEF PastInv
      <4>6. Makes(plan) /\ Within(plan, now)
        BY <4>3, <4>4, <4>5, MaterializeMakes
      <4> QED BY <4>2, <4>6 DEF Makes, Within, Window
    <3> QED BY <1>2, <3>1, <3>2
  <2>4. StartApt(m)
    BY <2>2, <2>3 DEF StartApt, Young, Idle
  <2>5. proc' = [proc EXCEPT !["start"] = m]
    BY <1>5, <2>1 DEF Become
  <2> QED BY <1>1, <2>4, <2>5, StartTurns DEF StillPast
<1>6. CASE Become("start", m0)
  <2>1. StartApt(m0)
    BY <1>4, FreshApt
  <2>2. proc' = [proc EXCEPT !["start"] = m0]
    BY <1>6 DEF Become
  <2> QED BY <1>1, <2>1, <2>2, StartTurns DEF StillPast
<1> QED BY <1>2, <1>3, <1>5, <1>6 DEF StartEngine

\* The loops start with nothing to do.
LEMMA LoopsStartPast ==
    ASSUME LifeInv, PastInv, Fits, Quiet, clock' = clock,
           proc' = [proc EXCEPT !["start"] = Rest("idle"), !["timing"] = Rest("top"),
                                !["reconcile"] = Rest("rest")]
    PROVE  StillPast
<1>1. PICK t : t = Rest("top")
  OBVIOUS
<1>2. PICK r : r = Rest("rest")
  OBVIOUS
<1>3. PICK s : s = Rest("idle")
  OBVIOUS
<1>4. TimingApt(t) /\ ReconcileApt(r) /\ StartApt(s)
  BY <1>1, <1>2, <1>3, RestIs, FreshApt
<1>5. Apt("timing", t) /\ Apt("reconcile", r) /\ Apt("start", s)
  BY <1>4 DEF Apt
<1>6. /\ proc'["admin"] = proc["admin"] /\ proc'["timing"] = t
      /\ proc'["reconcile"] = r /\ proc'["start"] = s
  BY <1>1, <1>2, <1>3 DEF LifeInv, ProcOK, Goroutines, Loops
<1>7. \A p \in Goroutines : proc'[p] = proc[p] \/ \E m : proc'[p] = m /\ Apt(p, m)
  BY <1>5, <1>6 DEF Goroutines, Loops
<1> QED BY <1>7, QuietSteady, PastMoves DEF StillPast

LEMMA RecoverInterruptedPast ==
    ASSUME LifeInv, PastInv, Fits, RecoverInterrupted
    PROVE  StillPast
<1>1. Quiet /\ clock' = clock
  BY DEF RecoverInterrupted, engineVars
<1>2. Steady /\ NoneAnew
  BY <1>1, QuietSteady
<1>3. CASE proc' = [proc EXCEPT !["start"] = Rest("idle"), !["timing"] = Rest("top"),
                                !["reconcile"] = Rest("rest")]
  BY <1>1, <1>3, LoopsStartPast
<1>4. PICK m0 : m0 = Rest("abandon")
  OBVIOUS
<1>5. PICK S : S = InStates(LeasedStates)
  OBVIOUS
<1>6. PICK lost : lost = InOrder(S)
  OBVIOUS
<1>7. PICK plan : plan = [i \in DOMAIN lost |-> Abandon(lost[i])]
  OBVIOUS
<1>8. PICK m : m = [m0 EXCEPT !.plan = plan]
  OBVIOUS
<1>9. CASE Become("start", m)
  <2>1. \A e \in S : e \in Stored /\ e.state \in LeasedStates
    BY <1>5 DEF InStates
  <2>2. Copies(lost) /\ \A i \in 1 .. Len(lost) : lost[i] \in S
    BY <1>6, <2>1, CopiesInOrder DEF LifeInv
  <2>3. Maps(plan, lost, "abandon")
    <3>1. Listing(lost)
      BY <2>2 DEF Copies
    <3>2. PICK op : op = "abandon"
      OBVIOUS
    <3>3. plan = [i \in DOMAIN lost |-> [op |-> op, exec |-> lost[i]]]
      BY <1>7, <3>2 DEF Abandon
    <3> QED BY <3>1, <3>2, <3>3, PlanMaps
  <2>4. \A e \in S : e.at <= clock
    BY <2>1, StoredFaithful DEF LifeInv, PastInv, OnTime
  <2>5. \A i \in 1 .. Len(plan) : plan[i].op = "abandon" /\ plan[i].exec.at <= clock
    BY <2>2, <2>3, <2>4 DEF Maps
  <2>6. m.pc = "abandon" /\ m.plan = plan
    BY <1>4, <1>8, RestIs DEF Fresh, Shaped
  <2>7. StartApt(m)
    BY <2>5, <2>6 DEF StartApt, Young
  <2>8. proc' = [proc EXCEPT !["start"] = m]
    BY <1>9 DEF Become
  <2> QED BY <1>2, <2>7, <2>8, StartTurns DEF StillPast
<1> QED BY <1>3, <1>4, <1>5, <1>6, <1>7, <1>8, <1>9, Zenon DEF RecoverInterrupted

LEMMA StartLoopsPast ==
    ASSUME LifeInv, PastInv, Fits, StartLoops
    PROVE  StillPast
<1>1. Quiet /\ clock' = clock
  BY DEF StartLoops, engineVars
<1> QED BY <1>1, LoopsStartPast DEF StartLoops

LEMMA StartCallPast ==
    ASSUME LifeInv, PastInv, StartCall
    PROVE  StillPast
<1>1. PICK pc \in {"recover", "abandon"} : Perform("start", pc)
  BY DEF StartCall
<1>2. PICK l : l = proc["start"]
  OBVIOUS
<1>3. PICK p \in Goroutines : p = "start"
  BY DEF Goroutines
<1>4. Performed(p, pc, l)
  <2>1. Perform(p, pc) /\ l = proc[p]
    BY <1>1, <1>2, <1>3
  <2> QED BY <2>1, PerformCases
<1>5. PICK c, m, rest :
          /\ c = l.plan[1] /\ 1 \in 1 .. Len(l.plan) /\ Shorter(l.plan, rest) /\ Listing(rest)
          /\ Planned(m, l, pc, rest)
          /\ proc' = [proc EXCEPT ![p] = m]
          /\ Apply(c) \/ Quiet
  BY <1>4 DEF Performed
<1>6. l.pc = pc
  BY <1>4 DEF Performed
<1>7. clock' = clock /\ UNCHANGED ran
  BY <1>1 DEF Perform, engineVars
<1>8. StartOK(l) /\ StartApt(l)
  BY <1>2, <1>3, StartIs DEF PastInv, Apt
<1>9. Steady /\ NoneAnew
  <2>1. CASE Quiet
    BY <1>7, <2>1, QuietSteady
  <2>2. CASE Apply(c)
    <3>1. \/ c.op = "skip"
          \/ c.op = "create" /\ c.at \in Window
          \/ c.op = "abandon" /\ c.exec.at \in Instants /\ c.exec.at <= clock
      BY <1>5, <1>6, <1>8 DEF StartOK, StartApt, Young
    <3> QED BY <1>7, <2>2, <3>1, CallPast
  <2> QED BY <1>5, <2>1, <2>2
<1>10. m.pc = l.pc /\ m.plan = rest
  BY <1>5, <1>6 DEF Planned
<1>11. StartApt(m)
  BY <1>5, <1>6, <1>8, <1>10 DEF StartApt, Young, Shorter
<1> QED BY <1>3, <1>5, <1>9, <1>11, StartTurns DEF StillPast

LEMMA StopEnginePast ==
    ASSUME LifeInv, PastInv, StopEngine
    PROVE  StillPast
<1>1. Quiet /\ clock' = clock /\ proc' = proc
  BY DEF StopEngine
<1> QED BY <1>1, QuietSteady, PastMoves DEF StillPast

LEMMA CrashPast ==
    ASSUME LifeInv, PastInv, Fits, Crash
    PROVE  StillPast
<1>1. Quiet /\ clock' = clock
  BY DEF Crash
<1>2. PICK a : a = Rest("idle")
  OBVIOUS
<1>3. PICK t : t = Rest("off")
  OBVIOUS
<1>4. AdminApt(a) /\ StartApt(a) /\ TimingApt(t) /\ ReconcileApt(t)
  BY <1>2, <1>3, RestIs, FreshApt
<1>5. Apt("admin", a) /\ Apt("start", a) /\ Apt("timing", t) /\ Apt("reconcile", t)
  BY <1>4 DEF Apt
<1>6. proc'["admin"] = a /\ proc'["timing"] = t /\ proc'["reconcile"] = t /\ proc'["start"] = a
  BY <1>2, <1>3 DEF Crash, Goroutines, Loops
<1>7. \A p \in Goroutines : proc'[p] = proc[p] \/ \E m : proc'[p] = m /\ Apt(p, m)
  BY <1>5, <1>6 DEF Goroutines, Loops
<1> QED BY <1>1, <1>7, QuietSteady, PastMoves DEF StillPast

\* What settles has run, and is kept as one that succeeded.
LEMMA SettlePast ==
    ASSUME LifeInv, PastInv, NEW t \in Instants, Settle(t)
    PROVE  StillPast
<1>1. PICK e : e = executions[t]
  OBVIOUS
<1>2. /\ e.state = "Running" /\ proc' = proc /\ UNCHANGED job /\ UNCHANGED lastID
      /\ clock' = clock /\ ran' = ran \cup {t}
  BY <1>1 DEF Settle, engineVars
<1>3. PICK st \in ExecutionStateSet : st = "Succeeded"
  BY DEF ExecutionStateSet, TerminalStates
<1>4. Update(e, st)
  BY <1>1, <1>3 DEF Settle
<1>5. e.at = t /\ t <= clock
  <2>1. e.id # 0
    BY <1>1, <1>2 DEF LifeInv, StoreOK
  <2>2. OnTime(e, t)
    BY <1>1 DEF PastInv
  <2> QED BY <1>1, <1>2, <2>1, <2>2 DEF LifeInv, StoreOK, OnTime, LeasedStates
<1>6. Punctual /\ NoneAnew
  BY <1>2, <1>3, <1>4, <1>5, UpdatePunctual
<1>7. executions'[t].state = "Succeeded"
  <2>1. Accepts(e, st)
    BY <1>1, <1>2, <1>3, <1>5 DEF Accepts, CanTransition, Targets, WaitingStates
  <2>2. UpdateDone(e, st)
    BY <1>2, <1>4, <1>5, UpdateStep DEF LifeInv
  <2> QED BY <1>3, <1>5, <2>1, <2>2 DEF UpdateDone
<1>8. Window' = Window
  BY <1>2 DEF Window
<1>9. RanKept'
  <2>1. ran' \subseteq Instants
    BY <1>2 DEF PastInv, RanKept
  <2>2. ASSUME NEW u \in ran' PROVE executions'[u].state = "Succeeded" \/ u \notin Window
    <3>1. CASE u = t
      BY <1>7, <3>1
    <3>2. CASE u # t
      <4>1. u \in ran /\ u \in Instants
        BY <1>2, <2>1, <3>2
      <4>2. executions[u].state = "Succeeded" \/ u \notin Window
        BY <4>1 DEF PastInv, RanKept
      <4> QED BY <1>6, <4>1, <4>2 DEF Punctual
    <3> QED BY <3>1, <3>2
  <2> QED BY <1>8, <2>1, <2>2 DEF RanKept
<1>10. ASSUME NEW u \in Instants PROVE OnTime(executions[u], u)'
  <2>1. OnTime(executions[u], u)
    BY DEF PastInv
  <2> QED BY <1>2, <1>6, <2>1 DEF OnTime, Punctual
<1>11. ASSUME NEW p \in Goroutines PROVE Apt(p, proc[p])'
  <2>1. PICK l : l = proc[p]
    OBVIOUS
  <2>2. Apt(p, l)
    BY <2>1 DEF PastInv
  <2>3. Apt(p, l)'
    BY <1>2, <1>6, <2>2, AptKept
  <2> QED BY <1>2, <2>1, <2>3 DEF Apt, AdminApt, TimingApt, ReconcileApt, StartApt, Young, Expired, Faithful
<1>12. clock' <= MaxClock /\ Timely(job)'
  BY <1>2 DEF PastInv, Timely
<1> QED BY <1>6, <1>9, <1>10, <1>11, <1>12 DEF PastInv, StillPast

\* The clock moves while no goroutine is at work: nobody acts on an instant it
\* read before.
LEMMA TickPast ==
    ASSUME LifeInv, PastInv, Prompt, Tick
    PROVE  StillPast
<1>1. /\ clock < MaxClock /\ clock' = clock + 1 /\ proc' = proc /\ ran' = ran
      /\ UNCHANGED executions /\ UNCHANGED job /\ UNCHANGED lastID
  BY DEF Tick, storeVars
<1>2. clock \in Nat /\ MaxClock \in Nat
  BY OccurrencesAssumption DEF LifeInv, StoreOK
<1>3. PICK now \in Nat : now = clock
  BY <1>2
<1>4. clock' <= MaxClock /\ clock' = now + 1
  BY <1>1, <1>2, <1>3
<1>5. \A p \in Goroutines : proc[p].pc \in Idle
  BY DEF Tick, AtWork, Idle
<1>6. \A t \in Int : t <= now => t <= now + 1
  OBVIOUS
<1>7. ASSUME NEW t \in Instants PROVE OnTime(executions[t], t)'
  <2>1. OnTime(executions[t], t)
    BY DEF PastInv
  <2>2. t \in Int
    BY InstantsAre
  <2> QED BY <1>1, <1>3, <1>4, <1>6, <2>1, <2>2 DEF OnTime
<1>8. RanKept'
  <2>1. \A t \in Int : t \in Window' => t \in Window
    <3>1. PICK age \in Nat : age = cfg.maxAge
      BY ConfigAges
    <3>2. \A t \in Int : now + 1 <= t + age => now <= t + age
      OBVIOUS
    <3> QED BY <1>3, <1>4, <3>1, <3>2 DEF Window
  <2> QED BY <1>1, <2>1, InstantsAre DEF PastInv, RanKept
<1>9. ASSUME NEW p \in Goroutines PROVE Apt(p, proc[p])'
  <2>1. PICK l : l = proc[p]
    OBVIOUS
  <2>2. Apt(p, l) /\ l.pc \in Idle
    BY <1>5, <2>1 DEF PastInv
  <2>3. AdminApt(l) => AdminApt(l)'
    BY <2>2 DEF AdminApt, Young, Timely
  <2>4. StartApt(l) => StartApt(l)'
    BY <2>2 DEF StartApt, Young, Idle
  <2>5. ReconcileApt(l) => ReconcileApt(l)'
    BY <2>2 DEF ReconcileApt, Idle, Timely
  <2>6. p = "timing" => TimingApt(l)'
    <3> SUFFICES ASSUME p = "timing" PROVE TimingApt(l)'
      OBVIOUS
    <3>1. TimingOK(l) /\ TimingApt(l)
      BY <2>1, <2>2, TimingIs DEF Apt
    <3>2. \A e \in l.todo : e.at \in Int /\ e.at <= now
      BY <1>3, <3>1, InstantsAre DEF TimingOK, TimingApt, Faithful
    <3> QED BY <1>4, <1>6, <2>2, <3>2 DEF TimingApt, Idle
  <2>7. Apt(p, l)'
    BY <2>2, <2>3, <2>4, <2>5, <2>6 DEF Apt
  <2> QED BY <1>1, <2>1, <2>7 DEF Apt, AdminApt, TimingApt, ReconcileApt, StartApt, Young, Expired, Faithful
<1>10. Timely(job)'
  BY <1>1 DEF PastInv, Timely
<1>11. NoneAnew
  BY <1>1, SamePunctual
<1> QED BY <1>4, <1>7, <1>8, <1>9, <1>10, <1>11 DEF PastInv, StillPast

LEMMA StutterPast ==
    ASSUME LifeInv, PastInv, UNCHANGED vars
    PROVE  StillPast
<1>1. Quiet /\ clock' = clock /\ proc' = proc
  BY DEF vars, Quiet, storeVars
<1> QED BY <1>1, QuietSteady, PastMoves DEF StillPast

-----------------------------------------------------------------------------

LEMMA PastInit ==
    ASSUME Fits, Init
    PROVE  PastInv
<1>1. clock <= MaxClock
  BY OccurrencesAssumption DEF Init
<1>2. ASSUME NEW t \in Instants PROVE OnTime(executions[t], t)
  <2>1. executions[t].state = "Absent"
    BY DEF Init, NoExecution
  <2> QED BY <2>1 DEF OnTime, LeasedStates, DueStates
<1>3. RanKept /\ Timely(job)
  BY NoJobTimely DEF Init, RanKept
<1>4. PICK a : a = Rest("idle")
  OBVIOUS
<1>5. PICK t : t = Rest("top")
  OBVIOUS
<1>6. PICK r : r = Rest("rest")
  OBVIOUS
<1>7. proc["admin"] = a /\ proc["timing"] = t /\ proc["reconcile"] = r /\ proc["start"] = a
  BY <1>4, <1>5, <1>6 DEF Init, Goroutines, Loops
<1>8. AdminApt(a) /\ TimingApt(t) /\ ReconcileApt(r) /\ StartApt(a)
  BY <1>4, <1>5, <1>6, RestIs, FreshApt
<1>9. \A p \in Goroutines : Apt(p, proc[p])
  BY <1>7, <1>8 DEF Apt, Goroutines, Loops
<1> QED BY <1>1, <1>2, <1>3, <1>9 DEF PastInv

LEMMA PastStep ==
    ASSUME Prompt, Fits, LifeInv, PastInv, [Next]_vars
    PROVE  PastInv' /\ (NoneAnew \/ MaterializeNext)
<1>1. CASE \E r \in Requests : HandleJobUpsert(r)
  BY <1>1, HandleJobUpsertPast DEF StillPast
<1>2. CASE HandleJobDelete
  BY <1>2, HandleJobDeletePast DEF StillPast
<1>3. CASE AdminStep
  BY <1>3, CancelReplacedPast, MaterializeUpsertedPast, UpsertedPast, CancelDeletedPast,
     DeleteJobPast, AdminCallPast DEF AdminStep, StillPast
<1>4. CASE TimingStep
  BY <1>4, ProcessDuePast, ConsiderPast, TransitionPast, ClaimPast, CreateAttemptPast,
     DeliverPast, MaterializeNextPast, NextWakeAtPast, WaitPast DEF TimingStep, StillPast
<1>5. CASE ReconcileStep
  BY <1>5, ReconcilePast, ReapPast, ReapedPast, EnsurePendingPast, PurgeExecutionPast,
     PurgeCallPast, ReconcileLeavesPast DEF ReconcileStep, StillPast
<1>6. CASE StartStep
  BY <1>6, StartEnginePast, RecoverInterruptedPast, StartLoopsPast, StartCallPast
     DEF StartStep, StillPast
<1>7. CASE StopEngine \/ Crash
  BY <1>7, StopEnginePast, CrashPast DEF StillPast
<1>8. CASE \E t \in Instants : Settle(t)
  BY <1>8, SettlePast DEF StillPast
<1>9. CASE Tick
  BY <1>9, TickPast DEF StillPast
<1>10. CASE UNCHANGED vars
  BY <1>10, StutterPast DEF StillPast
<1> QED BY <1>1, <1>2, <1>3, <1>4, <1>5, <1>6, <1>7, <1>8, <1>9, <1>10 DEF Next

\* What ran is never made again by a backfill, a job update or a reconcile
\* pass: missedOccurrences (schedule.go) looks back no further than the age
\* limit, purgeExecution (retention.go) only deletes what settled longer ago
\* than a retention that the configuration keeps at least as long, and what
\* succeeded did so no earlier than its instant; ensurePendingOccurrences makes
\* only what is still ahead.  Left is materializeNext (dispatch.go), which
\* counts on from the planned time and not from the clock.  The clock stands
\* still while a goroutine works, as in the runs, and neither it nor an
\* interval exceeds a duration: beyond, the code's own sums wrap.
THEOREM RematerializationSafety ==
    ASSUME Prompt, Fits
    PROVE  Spec => NeverRematerialized
<1>1. Init => LifeInv /\ PastInv
  BY LifeInit, PastInit
<1>2. LifeInv /\ PastInv /\ [Next]_vars => (LifeInv /\ PastInv)'
  BY LifeStep, PastStep
<1>3. LifeInv /\ PastInv /\ [Next]_vars => [\A t \in Instants : Recreated(t) => MaterializeNext]_vars
  BY PastStep DEF NoneAnew
<1> QED BY <1>1, <1>2, <1>3, PTL DEF Spec, NeverRematerialized

=============================================================================
