--------------------------- MODULE RegistryProofs ---------------------------
(***************************************************************************)
(* Proofs about module ExecutorRegistry, for any number of instances,       *)
(* types, labels and registrations, and about the ring it is built from     *)
(* when MCRing drives one alone, for any number of keys.                    *)
(*                                                                          *)
(* That the rings agree with the entries holds only while the lock is free. *)
(* In between, a ring may be wrong about one instance: the one the holder   *)
(* of the lock still owes this ring an operation for.  The inductive        *)
(* invariant says exactly that, and what the operations still owed are.     *)
(*                                                                          *)
(* A ring is fair because a cursor serves and a removal closes the gap, both *)
(* without changing who comes before whom: the inductive invariant of       *)
(* MCRing is that whoever was served while j waits now stands behind j.     *)
(***************************************************************************)
EXTENDS ExecutorRegistry, MCRing, TLAPS, SequenceTheorems, WellFoundedInduction

-----------------------------------------------------------------------------
(* The inductive invariant.                                                  *)

Slot == [key : Instances, value : Nat]
RingBound == [entries : Seq(Slot), index : UNION {[S -> Nat] : S \in SUBSET Instances}, cursor : Nat]
SoundRing(r) == r \in RingBound /\ RingOK(r)

EntryBound == [inst : Instances, type : Types, labels : SUBSET Labels,
               supports : BOOLEAN, closed : BOOLEAN, inFlight : Nat]
HolderBound == [gen : Nat, leave : Types \cup {NoType}, drop : SUBSET Labels, join : BOOLEAN,
                add : SUBSET Labels, close : Nat]
CallBound == [pc : {"idle", "match", "done"}, type : Types \cup {NoType},
              label : Labels \cup {NoLabel}, dropped : BOOLEAN, got : Nat]

Made == 1 .. generation

\* Every variable of the registry keeps its type, and the entry of an instance
\* is one of its own.
RegistryTypeOK ==
    /\ generation \in Nat
    /\ entry \in [Made -> EntryBound]
    /\ DOMAIN entries \subseteq Instances
    /\ \A i \in DOMAIN entries : entries[i] \in Made /\ entry[entries[i]].inst = i
    /\ pools \in [Types -> RingBound]
    /\ DOMAIN labelPools \subseteq Labels
    /\ labelPools \in [DOMAIN labelPools -> RingBound]
    /\ mu \in HolderBound /\ mu.gen \in Made \cup {0} /\ mu.close \in Made \cup {0}
    /\ retiring \subseteq Made /\ ended \subseteq Made /\ revisions \in Nat
    /\ call \in CallBound /\ call.got \in Made \cup {0}

\* What the holder of the lock still owes: an instance leaves the rings it no
\* longer belongs to and joins those of its live entry.
OwedOK ==
    IF mu.gen = 0 THEN mu = Free
    ELSE LET inst == entry[mu.gen].inst IN
         /\ mu.join \/ mu.add # {} => inst \in DOMAIN entries
         /\ inst \in DOMAIN entries =>
               /\ entries[inst] = mu.gen
               /\ mu.leave # entry[mu.gen].type
               /\ mu.drop \cap entry[mu.gen].labels = {} /\ mu.add \subseteq entry[mu.gen].labels
         /\ mu.close # 0 => entry[mu.close].inst = inst

\* The instances one ring may be wrong about.
DuePool(t) ==
    IF mu.gen # 0 /\ (mu.leave = t \/ (mu.join /\ entry[mu.gen].type = t))
    THEN {entry[mu.gen].inst} ELSE {}
DueLabel(l) == IF mu.gen # 0 /\ l \in mu.drop \cup mu.add THEN {entry[mu.gen].inst} ELSE {}

Value(r, i) == At(r, r.index[i]).value

OfType(t) == {i \in DOMAIN entries : entry[entries[i]].type = t}
Announcing(l) == {i \in DOMAIN entries : l \in entry[entries[i]].labels}

\* A ring is right about every instance it is not owed an operation for, and
\* holds the live or the displaced entry of one it is owed an operation for.
Agrees(r, who, due) ==
    /\ RingMembers(r) \ due = who \ due
    /\ \A i \in RingMembers(r) \ due : Value(r, i) = entries[i]
    /\ \A i \in RingMembers(r) \cap due : Value(r, i) \in {mu.gen, mu.close} \ {0}

PoolsOK == \A t \in Types : SoundRing(pools[t]) /\ Agrees(pools[t], OfType(t), DuePool(t))

LabelPoolsOK ==
    /\ \A l \in Labels : SoundRing(RingIn(l)) /\ Agrees(RingIn(l), Announcing(l), DueLabel(l))
    /\ \A l \in DOMAIN labelPools : RingLen(labelPools[l]) > 0

RingsInv == RegistryTypeOK /\ OwedOK /\ PoolsOK /\ LabelPoolsOK

\* A running selection scans a ring that is still in its map, or an empty one.
CallOK ==
    call.pc = "match" =>
        /\ call.type \in Types /\ call.got = 0
        /\ ~call.dropped /\ call.label # NoLabel => call.label \in DOMAIN labelPools

\* Whoever its ring offers was routable during the call ...
OfferedOK ==
    call.pc = "match" =>
        \A i \in RingMembers(Ring) : LET g == Value(Ring, i) IN
            ~entry[g].closed /\ (call.label = NoLabel \/ entry[g].type = call.type) => g \in offered

\* ... and whoever was eligible all along stands in its ring as a candidate.
SteadyOK ==
    call.pc = "match" =>
        \A i \in steady : i \in Eligible /\ i \in RingMembers(Ring) /\ Value(Ring, i) \in Candidates

SelectionInv == CallOK /\ OfferedOK /\ SteadyOK /\ SelectionHonest

-----------------------------------------------------------------------------
(* Rings of any entries.                                                     *)

\* The index of a ring names the position of each key.
LEMMA RingPlaces ==
    ASSUME NEW T, NEW r, r.entries \in Seq(T), RingOK(r)
    PROVE  /\ Len(r.entries) \in Nat /\ DOMAIN r.entries = 1 .. Len(r.entries)
           /\ \A n \in 1 .. Len(r.entries) :
                 r.entries[n].key \in RingMembers(r) /\ r.index[r.entries[n].key] = n - 1
           /\ \A x \in RingMembers(r) :
                 /\ r.index[x] \in 0 .. Len(r.entries) - 1 /\ r.index[x] + 1 \in 1 .. Len(r.entries)
                 /\ r.entries[r.index[x] + 1].key = x
<1>1. Len(r.entries) \in Nat /\ DOMAIN r.entries = 1 .. Len(r.entries)
  BY LenProperties
<1>2. \A n \in 1 .. Len(r.entries) :
         r.entries[n].key \in RingMembers(r) /\ r.index[r.entries[n].key] = n - 1
  BY <1>1 DEF RingOK, RingMembers
<1>3. ASSUME NEW x \in RingMembers(r)
      PROVE  /\ r.index[x] \in 0 .. Len(r.entries) - 1 /\ r.index[x] + 1 \in 1 .. Len(r.entries)
             /\ r.entries[r.index[x] + 1].key = x
  <2>1. PICK n \in 1 .. Len(r.entries) : r.entries[n].key = x
    BY <1>1 DEF RingOK, RingMembers
  <2>2. r.index[x] = n - 1 /\ n - 1 \in 0 .. Len(r.entries) - 1 /\ (n - 1) + 1 = n
    BY <1>1, <1>2, <2>1
  <2> QED BY <2>1, <2>2
<1> QED BY <1>1, <1>2, <1>3

\* Removing a key moves the entries behind it one place ahead.
LEMMA CompactedRing ==
    ASSUME NEW T, NEW e \in Seq(T), NEW p \in Nat, p < Len(e)
    PROVE  LET s == Compacted(e, p) IN
           /\ s \in Seq(T) /\ Len(s) = Len(e) - 1
           /\ \A n \in 1 .. p : s[n] = e[n]
           /\ \A n \in p + 1 .. Len(e) - 1 : s[n] = e[n + 1]
<1> DEFINE a == SubSeq(e, 1, p)
           b == SubSeq(e, p + 2, Len(e))
           s == Compacted(e, p)
<1>1. Len(e) \in Nat /\ \A n \in 1 .. Len(e) : e[n] \in T
  BY LenProperties
<1>2. a \in Seq(T) /\ Len(a) = p /\ \A n \in 1 .. p : a[n] = e[n]
  <2>1. \A n \in 1 .. p : e[n] \in T
    BY <1>1
  <2>2. /\ a \in Seq(T) /\ Len(a) = IF 1 <= p THEN p - 1 + 1 ELSE 0
        /\ \A n \in 1 .. p - 1 + 1 : a[n] = e[1 + n - 1]
    BY <2>1, SubSeqProperties
  <2> HIDE DEF a
  <2> QED BY <2>2
<1>3. b \in Seq(T) /\ Len(b) = Len(e) - p - 1 /\ \A n \in 1 .. Len(e) - p - 1 : b[n] = e[p + 1 + n]
  <2>1. \A n \in p + 2 .. Len(e) : e[n] \in T
    BY <1>1
  <2>2. /\ b \in Seq(T) /\ Len(b) = IF p + 2 <= Len(e) THEN Len(e) - (p + 2) + 1 ELSE 0
        /\ \A n \in 1 .. Len(e) - (p + 2) + 1 : b[n] = e[p + 2 + n - 1]
    BY <1>1, <2>1, SubSeqProperties
  <2> HIDE DEF b
  <2>3. ASSUME NEW n \in 1 .. Len(e) - p - 1
        PROVE  b[n] = e[p + 1 + n]
    <3>1. n \in 1 .. Len(e) - (p + 2) + 1 /\ p + 2 + n - 1 = p + 1 + n
      BY <1>1
    <3> QED BY <2>2, <3>1
  <2>4. Len(b) = Len(e) - p - 1
    BY <1>1, <2>2
  <2> QED BY <2>2, <2>3, <2>4
<1>4. s = a \o b
  BY DEF Compacted
<1> HIDE DEF a, b, s
<1>5. /\ s \in Seq(T) /\ Len(s) = Len(a) + Len(b)
      /\ \A n \in 1 .. Len(a) + Len(b) : s[n] = IF n <= Len(a) THEN a[n] ELSE b[n - Len(a)]
  BY SMTT(30), <1>2, <1>3, <1>4, ConcatProperties
<1>6. Len(s) = Len(e) - 1
  BY <1>1, <1>2, <1>3, <1>5
<1>7. \A n \in 1 .. p : s[n] = e[n]
  BY SMTT(30), <1>1, <1>2, <1>3, <1>5
<1>8. \A n \in p + 1 .. Len(e) - 1 : s[n] = e[n + 1]
  <2> TAKE n \in p + 1 .. Len(e) - 1
  <2>1. n \in 1 .. Len(a) + Len(b) /\ ~(n <= Len(a)) /\ n - p \in 1 .. Len(e) - p - 1 /\ p + 1 + (n - p) = n + 1
    BY <1>1, <1>2, <1>3
  <2> QED BY <1>2, <1>3, <1>5, <2>1
<1> QED BY <1>5, <1>6, <1>7, <1>8 DEF s

\* The entries and the index after a removal.
Removal(r, k, s, index) == s = Compacted(r.entries, r.index[k]) /\ index = Reindexed(r, k, s)

\* The other entries keep their order.
Shifted(r, k, s, index) ==
    /\ Len(s) = Len(r.entries) - 1 /\ DOMAIN index = RingMembers(r) \ {k}
    /\ \A x \in RingMembers(r) \ {k} :
          /\ r.index[x] # r.index[k]
          /\ index[x] = IF r.index[x] < r.index[k] THEN r.index[x] ELSE r.index[x] - 1
          /\ index[x] \in Nat /\ index[x] + 1 \in 1 .. Len(s)
          /\ s[index[x] + 1] = r.entries[r.index[x] + 1] /\ s[index[x] + 1].key = x
    /\ \A n \in 1 .. Len(s) : s[n].key \in RingMembers(r) \ {k} /\ index[s[n].key] = n - 1

\* The positions after a removal.
LEMMA RemovedPlaces ==
    ASSUME NEW T, NEW r, r.entries \in Seq(T), RingOK(r), NEW k \in RingMembers(r),
           NEW s, NEW index, Removal(r, k, s, index)
    PROVE  s \in Seq(T) /\ Shifted(r, k, s, index)
<1> USE DEF Removal, Shifted
<1>e. PICK e : e = r.entries
  OBVIOUS
<1>d. PICK ind : ind = r.index
  OBVIOUS
<1>p. PICK p : p = ind[k]
  OBVIOUS
<1>m. PICK S : S = RingMembers(r) \ {k}
  OBVIOUS
<1>0. Len(e) \in Nat /\ DOMAIN e = 1 .. Len(e) /\ e \in Seq(T)
  BY <1>e, RingPlaces
<1>k. \A n \in 1 .. Len(e) : e[n].key \in RingMembers(r) /\ ind[e[n].key] = n - 1
  BY <1>e, <1>d, RingPlaces
<1>i. \A i \in RingMembers(r) : ind[i] \in 0 .. Len(e) - 1 /\ e[ind[i] + 1].key = i
  BY <1>e, <1>d, RingPlaces
<1>2. p \in Nat /\ p < Len(e) /\ e[p + 1].key = k
  BY <1>0, <1>p, <1>i
<1>3. /\ s \in Seq(T) /\ Len(s) = Len(e) - 1
      /\ \A n \in 1 .. p : s[n] = e[n]
      /\ \A n \in p + 1 .. Len(e) - 1 : s[n] = e[n + 1]
  <2>1. s = Compacted(e, p)
    BY <1>e, <1>d, <1>p
  <2>2. e \in Seq(T) /\ p \in Nat /\ p < Len(e)
    BY <1>0, <1>2
  <2>3. LET q == Compacted(e, p) IN
        /\ q \in Seq(T) /\ Len(q) = Len(e) - 1
        /\ \A n \in 1 .. p : q[n] = e[n]
        /\ \A n \in p + 1 .. Len(e) - 1 : q[n] = e[n + 1]
    BY <2>2, CompactedRing
  <2> QED BY <2>1, <2>3
<1>x. index = [x \in S |-> IF \E i \in p .. Len(s) - 1 : s[i + 1].key = x
                           THEN CHOOSE i \in p .. Len(s) - 1 : s[i + 1].key = x
                           ELSE ind[x]]
  BY <1>d, <1>p, <1>m DEF Reindexed, RingMembers
<1>4. ASSUME NEW x \in S
      PROVE  /\ ind[x] # p /\ ind[x] \in 0 .. Len(e) - 1 /\ e[ind[x] + 1].key = x
             /\ ind[x] < p => index[x] = ind[x]
             /\ ind[x] > p => index[x] = ind[x] - 1
  <2>1. ind[x] # p /\ ind[x] \in 0 .. Len(e) - 1 /\ e[ind[x] + 1].key = x
    BY <1>i, <1>m, <1>2
  <2>2. \A i \in p .. Len(s) - 1 : s[i + 1] = e[i + 2] /\ i + 2 \in 1 .. Len(e)
    <3> TAKE i \in p .. Len(s) - 1
    <3>1. i + 1 \in p + 1 .. Len(e) - 1 /\ (i + 1) + 1 = i + 2 /\ i + 2 \in 1 .. Len(e)
      BY <1>0, <1>2, <1>3
    <3> QED BY <1>3, <3>1
  <2>3. \A i \in p .. Len(s) - 1 : s[i + 1].key = x => i = ind[x] - 1
    <3> TAKE i \in p .. Len(s) - 1
    <3>1. e[i + 2].key = x => ind[x] = i + 1
      BY <1>0, <1>k, <1>2, <1>3, <2>2
    <3>2. i \in Int /\ s[i + 1] = e[i + 2]
      BY <1>0, <1>2, <1>3, <2>2
    <3> QED BY <3>1, <3>2
  <2>4. ASSUME ind[x] < p PROVE index[x] = ind[x]
    <3>1. ~\E i \in p .. Len(s) - 1 : s[i + 1].key = x
      <4> SUFFICES ASSUME NEW i \in p .. Len(s) - 1, s[i + 1].key = x PROVE FALSE
        OBVIOUS
      <4>1. i = ind[x] - 1 /\ ind[x] \in Int /\ p \in Int
        BY <1>0, <1>2, <2>1, <2>3
      <4>2. p <= i
        BY <1>0, <1>2, <1>3
      <4> QED BY <2>4, <4>1, <4>2
    <3>2. index[x] = IF \E i \in p .. Len(s) - 1 : s[i + 1].key = x
                      THEN CHOOSE i \in p .. Len(s) - 1 : s[i + 1].key = x
                      ELSE ind[x]
      BY <1>x, Zenon
    <3> QED BY <3>1, <3>2, Zenon
  <2>5. ASSUME ind[x] > p PROVE index[x] = ind[x] - 1
    <3>1. ind[x] - 1 \in p .. Len(s) - 1 /\ (ind[x] - 1) + 2 = ind[x] + 1
      BY <1>0, <1>2, <1>3, <2>1, <2>5
    <3>2. s[(ind[x] - 1) + 1].key = x
      BY <2>1, <2>2, <3>1
    <3>3. (CHOOSE i \in p .. Len(s) - 1 : s[i + 1].key = x) = ind[x] - 1
      BY <2>3, <3>1, <3>2
    <3>4. \E i \in p .. Len(s) - 1 : s[i + 1].key = x
      BY <3>1, <3>2
    <3>5. index[x] = ind[x] - 1
      BY <1>x, <3>3, <3>4
    <3> QED BY <3>5
  <2> QED BY <2>1, <2>4, <2>5
<1>6. \A i \in S : index[i] \in Nat /\ index[i] + 1 \in 1 .. Len(s) /\ s[index[i] + 1] = e[ind[i] + 1]
  <2> TAKE i \in S
  <2>1. CASE ind[i] < p
    <3>1. PICK m \in 1 .. p : m = ind[i] + 1 /\ index[i] = ind[i] /\ ind[i] \in Nat
      BY <1>2, <1>4, <2>1
    <3>2. s[m] = e[m] /\ m \in 1 .. Len(s)
      BY <1>0, <1>2, <1>3
    <3> QED BY <3>1, <3>2
  <2>2. CASE ind[i] > p
    <3>1. index[i] + 1 \in p + 1 .. Len(e) - 1 /\ (index[i] + 1) + 1 = ind[i] + 1 /\ index[i] \in Nat
      BY <1>0, <1>2, <1>4, <2>2
    <3>2. PICK m \in p + 1 .. Len(e) - 1 : m = index[i] + 1 /\ m + 1 = ind[i] + 1
      BY <3>1
    <3>3. s[m] = e[m + 1] /\ m \in 1 .. Len(s)
      BY <1>0, <1>2, <1>3
    <3> QED BY <3>1, <3>2, <3>3
  <2> QED BY <1>0, <1>2, <1>4, <2>1, <2>2
<1>7. \A n \in 1 .. Len(s) : s[n].key \in S /\ index[s[n].key] = n - 1
  <2> TAKE n \in 1 .. Len(s)
  <2>1. CASE n \in 1 .. p
    <3>1. n \in 1 .. Len(e) /\ n # p + 1 /\ s[n] = e[n]
      BY <1>0, <1>2, <1>3, <2>1
    <3>2. e[n].key \in S /\ ind[e[n].key] = n - 1
      BY <1>k, <1>m, <1>p, <1>2, <3>1
    <3> QED BY <1>0, <1>2, <1>4, <2>1, <3>1, <3>2
  <2>2. CASE n \in p + 1 .. Len(e) - 1
    <3>1. n + 1 \in 1 .. Len(e) /\ n + 1 # p + 1 /\ s[n] = e[n + 1]
      BY <1>0, <1>2, <1>3, <2>2
    <3>2. e[n + 1].key \in S /\ ind[e[n + 1].key] = n
      BY <1>k, <1>m, <1>p, <1>2, <3>1
    <3> QED BY SMTT(30), <1>0, <1>2, <1>4, <2>2, <3>1, <3>2
  <2> QED BY <1>0, <1>2, <1>3, <2>1, <2>2
<1>8. ASSUME NEW x \in RingMembers(r) \ {k}
      PROVE  /\ r.index[x] # r.index[k]
             /\ index[x] = IF r.index[x] < r.index[k] THEN r.index[x] ELSE r.index[x] - 1
             /\ index[x] \in Nat /\ index[x] + 1 \in 1 .. Len(s)
             /\ s[index[x] + 1] = r.entries[r.index[x] + 1] /\ s[index[x] + 1].key = x
  <2>1. /\ ind[x] # p /\ ind[x] \in 0 .. Len(e) - 1 /\ e[ind[x] + 1].key = x
        /\ ind[x] < p => index[x] = ind[x]
        /\ ind[x] > p => index[x] = ind[x] - 1
    BY <1>4, <1>m
  <2>2. index[x] = IF ind[x] < p THEN ind[x] ELSE ind[x] - 1
    BY <1>0, <1>2, <2>1
  <2> QED BY <1>e, <1>d, <1>p, <1>m, <1>6, <2>1, <2>2
<1>9. DOMAIN index = RingMembers(r) \ {k}
  BY <1>m, <1>x
<1> QED BY <1>e, <1>m, <1>3, <1>7, <1>8, <1>9

-----------------------------------------------------------------------------
(* The operations of a ring.                                                 *)

\* A sound ring keeps one entry per key, at the position its index names.
LEMMA RingShape ==
    ASSUME NEW r, SoundRing(r)
    PROVE  /\ r.entries \in Seq(Slot) /\ r.cursor \in Nat /\ RingLen(r) \in Nat
           /\ DOMAIN r.entries = 1 .. RingLen(r)
           /\ RingMembers(r) \in SUBSET Instances
           /\ r = [entries |-> r.entries, index |-> r.index, cursor |-> r.cursor]
           /\ r.index \in [RingMembers(r) -> Nat]
           /\ r.cursor < RingLen(r) \/ (RingLen(r) = 0 /\ r.cursor = 0)
           /\ \A n \in 1 .. RingLen(r) :
                 /\ r.entries[n] \in Slot /\ r.entries[n].key \in RingMembers(r)
                 /\ r.index[r.entries[n].key] = n - 1
                 /\ Value(r, r.entries[n].key) = r.entries[n].value
           /\ \A i \in RingMembers(r) :
                 /\ r.index[i] \in 0 .. RingLen(r) - 1
                 /\ r.entries[r.index[i] + 1].key = i
                 /\ Value(r, i) \in Nat
<1> DEFINE e == r.entries
<1>1. e \in Seq(Slot) /\ r.cursor \in Nat /\ r = [entries |-> e, index |-> r.index, cursor |-> r.cursor]
  BY DEF SoundRing, RingBound
<1>2. PICK S \in SUBSET Instances : r.index \in [S -> Nat]
  BY DEF SoundRing, RingBound
<1>3. RingMembers(r) \in SUBSET Instances /\ r.index \in [RingMembers(r) -> Nat]
  BY <1>2 DEF RingMembers
<1>4. Len(e) \in Nat /\ DOMAIN e = 1 .. Len(e) /\ \A n \in 1 .. Len(e) : e[n] \in Slot
  BY <1>1, LenProperties
<1>5. \A n \in 1 .. Len(e) : e[n].key \in RingMembers(r) /\ r.index[e[n].key] = n - 1
  BY <1>4 DEF SoundRing, RingOK, RingMembers
<1>6. \A n \in 1 .. Len(e) : Value(r, e[n].key) = e[n].value
  <2> TAKE n \in 1 .. Len(e)
  <2>1. (n - 1) + 1 = n
    BY <1>4
  <2> QED BY <1>5, <2>1 DEF Value, At
<1>7. ASSUME NEW i \in RingMembers(r)
      PROVE  r.index[i] \in 0 .. Len(e) - 1 /\ e[r.index[i] + 1].key = i /\ Value(r, i) \in Nat
  <2>1. PICK n \in 1 .. Len(e) : e[n].key = i
    BY <1>4 DEF SoundRing, RingOK, RingMembers
  <2>2. r.index[i] = n - 1 /\ r.index[i] + 1 = n /\ n - 1 \in 0 .. Len(e) - 1
    BY <1>4, <1>5, <2>1
  <2>3. Value(r, i) = e[n].value
    BY <2>2 DEF Value, At
  <2> QED BY <1>4, <2>1, <2>2, <2>3 DEF Slot
<1>8. r.cursor < Len(e) \/ (Len(e) = 0 /\ r.cursor = 0)
  BY <1>1, <1>4 DEF SoundRing, RingOK, RingLen
<1> QED BY <1>1, <1>3, <1>4, <1>5, <1>6, <1>7, <1>8 DEF RingLen

\* A ring is sound when its index inverts its entries.
LEMMA RingBuilt ==
    ASSUME NEW s \in Seq(Slot), NEW S \in SUBSET Instances, NEW index \in [S -> Nat],
           NEW cursor \in Nat, cursor < Len(s) \/ (Len(s) = 0 /\ cursor = 0),
           \A n \in 1 .. Len(s) : s[n].key \in S /\ index[s[n].key] = n - 1,
           \A i \in S : \E n \in 1 .. Len(s) : s[n].key = i
    PROVE  SoundRing([entries |-> s, index |-> index, cursor |-> cursor])
<1> DEFINE r == [entries |-> s, index |-> index, cursor |-> cursor]
<1>1. Len(s) \in Nat /\ DOMAIN s = 1 .. Len(s)
  BY LenProperties
<1>2. r \in RingBound
  BY DEF RingBound
<1>3. DOMAIN r.index = S
  OBVIOUS
<1>4. S = {s[n].key : n \in DOMAIN s}
  BY <1>1
<1>5. cursor \in 0 .. Len(s) /\ (Len(s) # 0 => cursor < Len(s))
  BY <1>1
<1>6. RingOK(r)
  <2>1. r.entries = s /\ r.index = index /\ r.cursor = cursor /\ DOMAIN index = S
    OBVIOUS
  <2> HIDE DEF r
  <2>2. DOMAIN r.index = {r.entries[n].key : n \in DOMAIN r.entries}
    <3>1. {r.entries[n].key : n \in DOMAIN r.entries} = {s[n].key : n \in DOMAIN s}
      BY <2>1
    <3> QED BY <1>4, <2>1, <3>1
  <2>3. \A n \in DOMAIN r.entries : r.index[r.entries[n].key] = n - 1
    BY <1>1, <2>1
  <2>4. r.cursor \in 0 .. RingLen(r) /\ (RingLen(r) # 0 => r.cursor < RingLen(r))
    BY <1>5, <2>1 DEF RingLen
  <2> QED BY <2>2, <2>3, <2>4, Zenon DEF RingOK
<1> QED BY <1>2, <1>6 DEF SoundRing

\* Giving an entry of a ring a new value changes nothing else.
LEMMA SlotRevised ==
    ASSUME NEW e \in Seq(Slot), NEW p \in 1 .. Len(e), NEW v \in Nat
    PROVE  LET s == [e EXCEPT ![p].value = v] IN
           /\ s \in Seq(Slot) /\ Len(s) = Len(e)
           /\ \A n \in 1 .. Len(e) : s[n].key = e[n].key
           /\ s[p].value = v /\ \A n \in (1 .. Len(e)) \ {p} : s[n] = e[n]
<1> DEFINE x == [e[p] EXCEPT !.value = v]
           s == [e EXCEPT ![p] = x]
<1>1. Len(e) \in Nat /\ e \in [1 .. Len(e) -> Slot]
  BY LenProperties
<1>2. x \in Slot /\ x.key = e[p].key /\ x.value = v
  BY <1>1 DEF Slot
<1>3. s = [e EXCEPT ![p].value = v]
  OBVIOUS
<1> HIDE DEF x
<1>4. s \in [1 .. Len(e) -> Slot] /\ s[p] = x /\ \A n \in (1 .. Len(e)) \ {p} : s[n] = e[n]
  BY <1>1, <1>2
<1>5. s \in Seq(Slot) /\ Len(s) = Len(e)
  BY <1>1, <1>4
<1> HIDE DEF s
<1>6. \A n \in 1 .. Len(e) : s[n].key = e[n].key
  BY <1>2, <1>4
<1> QED BY <1>2, <1>3, <1>4, <1>5, <1>6

\* A key that is there takes the new value in place; a new one goes to the end.
LEMMA UpsertRing ==
    ASSUME NEW r, SoundRing(r), NEW k \in Instances, NEW v \in Nat
    PROVE  LET q == RingUpsert(r, k, v) IN
           /\ SoundRing(q) /\ RingMembers(q) = RingMembers(r) \cup {k} /\ Value(q, k) = v
           /\ \A i \in RingMembers(r) \ {k} : Value(q, i) = Value(r, i)
           /\ RingLen(q) > 0
<1> DEFINE q == RingUpsert(r, k, v)
           e == r.entries
           ind == r.index
           pos == r.cursor
<1>0. /\ r = [entries |-> e, index |-> ind, cursor |-> pos]
      /\ e \in Seq(Slot) /\ pos \in Nat /\ Len(e) \in Nat /\ DOMAIN e = 1 .. Len(e)
      /\ RingMembers(r) = DOMAIN ind /\ DOMAIN ind \in SUBSET Instances
      /\ ind \in [DOMAIN ind -> Nat]
      /\ pos < Len(e) \/ (Len(e) = 0 /\ pos = 0)
  BY RingShape DEF RingMembers, RingLen
<1>k. \A n \in 1 .. Len(e) : e[n] \in Slot /\ e[n].key \in DOMAIN ind /\ ind[e[n].key] = n - 1
  BY RingShape DEF RingMembers, RingLen
<1>i. \A i \in DOMAIN ind : ind[i] + 1 \in 1 .. Len(e) /\ e[ind[i] + 1].key = i
  <2> TAKE i \in DOMAIN ind
  <2>1. ind[i] \in 0 .. Len(e) - 1 /\ e[ind[i] + 1].key = i
    BY RingShape DEF RingMembers, RingLen
  <2> QED BY <1>0, <2>1
<1>1. CASE k \in DOMAIN ind
  <2> DEFINE p == ind[k] + 1
             s == [e EXCEPT ![p].value = v]
  <2>1. p \in 1 .. Len(e) /\ e[p].key = k
    BY <1>1, <1>i
  <2>2. q = [entries |-> s, index |-> ind, cursor |-> pos]
    BY <1>0, <1>1 DEF RingUpsert
  <2>3. /\ s \in Seq(Slot) /\ Len(s) = Len(e)
        /\ \A n \in 1 .. Len(e) : s[n].key = e[n].key
        /\ s[p].value = v /\ \A n \in (1 .. Len(e)) \ {p} : s[n] = e[n]
    BY <1>0, <2>1, SlotRevised
  <2> HIDE DEF s, p, q, e, ind, pos
  <2>4. \A n \in 1 .. Len(s) : s[n].key \in DOMAIN ind /\ ind[s[n].key] = n - 1
    BY <1>0, <1>k, <2>3
  <2>5. \A i \in DOMAIN ind : \E n \in 1 .. Len(s) : s[n].key = i
    BY <1>0, <1>i, <2>3
  <2>6. SoundRing(q)
    BY <1>0, <2>2, <2>3, <2>4, <2>5, RingBuilt
  <2>v. \A i : Value(q, i) = s[ind[i] + 1].value /\ Value(r, i) = e[ind[i] + 1].value
    BY <2>2 DEF Value, At, e, ind
  <2>7. RingMembers(q) = RingMembers(r) \cup {k}
    BY <1>0, <1>1, <2>2 DEF RingMembers
  <2>8. Value(q, k) = v
    BY <2>3, <2>v DEF p
  <2>9. \A i \in RingMembers(r) \ {k} : Value(q, i) = Value(r, i)
    <3> TAKE i \in RingMembers(r) \ {k}
    <3>1. ind[i] + 1 \in 1 .. Len(e) /\ ind[i] + 1 # p
      BY <1>0, <1>i, <2>1
    <3> QED BY <2>3, <2>v, <3>1
  <2>10. RingLen(q) > 0
    BY <1>0, <2>1, <2>2, <2>3 DEF RingLen
  <2> QED BY <2>6, <2>7, <2>8, <2>9, <2>10 DEF q
<1>2. CASE k \notin DOMAIN ind
  <2> DEFINE new == [key |-> k, value |-> v]
             s == Append(e, new)
             S == DOMAIN ind \cup {k}
             index == [x \in S |-> IF x = k THEN Len(e) ELSE ind[x]]
  <2>1. q = [entries |-> s, index |-> index, cursor |-> pos]
    BY <1>2 DEF RingUpsert, RingLen
  <2>2. new \in Slot /\ new.key = k /\ new.value = v
    BY DEF Slot
  <2>3. /\ s \in Seq(Slot) /\ Len(s) = Len(e) + 1 /\ s[Len(e) + 1] = new
        /\ \A n \in 1 .. Len(e) : s[n] = e[n]
    BY <1>0, <2>2, AppendProperties
  <2>4. index \in [S -> Nat] /\ S \in SUBSET Instances /\ index[k] = Len(e)
        /\ \A i \in DOMAIN ind : i \in S /\ index[i] = ind[i]
    BY <1>0, <1>2
  <2>s. k \in S /\ \A i \in S : i = k \/ i \in DOMAIN ind
    OBVIOUS
  <2> HIDE DEF s, index, new, q, e, ind, pos, S
  <2>5. \A n \in 1 .. Len(s) : s[n].key \in S /\ index[s[n].key] = n - 1
    <3> TAKE n \in 1 .. Len(s)
    <3>1. CASE n = Len(e) + 1
      BY <1>0, <2>2, <2>3, <2>4, <2>s, <3>1
    <3>2. CASE n \in 1 .. Len(e)
      BY <1>0, <1>k, <2>3, <2>4, <3>2
    <3> QED BY <1>0, <2>3, <3>1, <3>2
  <2>6. \A i \in S : \E n \in 1 .. Len(s) : s[n].key = i
    <3> TAKE i \in S
    <3>1. CASE i = k
      BY SMTT(30), <1>0, <2>2, <2>3, <3>1
    <3>2. CASE i \in DOMAIN ind
      <4>1. ind[i] + 1 \in 1 .. Len(s) /\ s[ind[i] + 1].key = i
        BY <1>0, <1>i, <2>3, <3>2
      <4> QED BY <4>1
    <3> QED BY <2>s, <3>1, <3>2
  <2>7. pos < Len(s)
    BY <1>0, <2>3
  <2>8. SoundRing(q)
    BY <1>0, <2>1, <2>3, <2>4, <2>5, <2>6, <2>7, RingBuilt
  <2>v. \A i : Value(q, i) = s[index[i] + 1].value /\ Value(r, i) = e[ind[i] + 1].value
    BY <2>1 DEF Value, At, e, ind
  <2>9. RingMembers(q) = RingMembers(r) \cup {k}
    BY <1>0, <2>1, <2>4 DEF RingMembers, S
  <2>10. Value(q, k) = v
    BY <1>0, <2>2, <2>3, <2>4, <2>v
  <2>11. \A i \in RingMembers(r) \ {k} : Value(q, i) = Value(r, i)
    <3> TAKE i \in RingMembers(r) \ {k}
    <3>1. ind[i] + 1 \in 1 .. Len(e) /\ index[i] = ind[i]
      BY <1>0, <1>i, <2>4
    <3> QED BY <2>3, <2>v, <3>1
  <2>12. RingLen(q) > 0
    BY <1>0, <2>1, <2>3 DEF RingLen
  <2> QED BY <2>8, <2>9, <2>10, <2>11, <2>12 DEF q
<1> QED BY <1>1, <1>2

\* The key that is removed is gone, and every other keeps its value.
LEMMA RemoveRing ==
    ASSUME NEW r, SoundRing(r), NEW k
    PROVE  LET q == RingRemove(r, k) IN
           /\ SoundRing(q) /\ RingMembers(q) = RingMembers(r) \ {k}
           /\ \A i \in RingMembers(q) : Value(q, i) = Value(r, i)
<1>q. PICK q : q = RingRemove(r, k)
  OBVIOUS
<1>0. r.entries \in Seq(Slot) /\ RingOK(r) /\ r.cursor \in Nat /\ RingMembers(r) \in SUBSET Instances
  BY RingShape DEF SoundRing
<1>1. CASE k \notin RingMembers(r)
  BY <1>q, <1>1 DEF RingRemove, RingMembers
<1>2. CASE k \in RingMembers(r)
  <2>s. PICK s : s = Compacted(r.entries, r.index[k])
    OBVIOUS
  <2>i. PICK index : index = Reindexed(r, k, s)
    OBVIOUS
  <2>c. PICK cursor : cursor = CursorAfterRemove(r, r.index[k], Len(s))
    OBVIOUS
  <2>m. PICK S : S = RingMembers(r) \ {k}
    OBVIOUS
  <2>1. q = [entries |-> s, index |-> index, cursor |-> cursor]
    BY <1>q, <1>2, <2>s, <2>i, <2>c DEF RingRemove, RingMembers
  <2>2. /\ s \in Seq(Slot) /\ Len(s) = Len(r.entries) - 1 /\ DOMAIN index = S
        /\ \A x \in S : /\ index[x] \in Nat /\ index[x] + 1 \in 1 .. Len(s)
                        /\ s[index[x] + 1] = r.entries[r.index[x] + 1] /\ s[index[x] + 1].key = x
        /\ \A n \in 1 .. Len(s) : s[n].key \in S /\ index[s[n].key] = n - 1
    <3>1. Removal(r, k, s, index)
      BY <2>s, <2>i DEF Removal
    <3>2. k \in RingMembers(r) /\ r.entries \in Seq(Slot) /\ RingOK(r)
      BY <1>0, <1>2
    <3>3. s \in Seq(Slot) /\ Shifted(r, k, s, index)
      BY <3>1, <3>2, RemovedPlaces
    <3> QED BY <2>m, <3>3 DEF Shifted
  <2>3. index \in [S -> Nat] /\ S \in SUBSET Instances
    BY <1>0, <2>i, <2>m, <2>2 DEF Reindexed, RingMembers
  <2>4. cursor \in Nat /\ (cursor < Len(s) \/ (Len(s) = 0 /\ cursor = 0))
    <3>1. Len(s) \in Nat /\ r.index[k] \in Nat
      BY <1>2, <2>2, LenProperties, RingShape
    <3>2. r.index[k] < r.cursor => r.cursor - 1 \in Nat
      BY <1>0, <3>1
    <3> QED BY <1>0, <2>c, <3>1, <3>2 DEF CursorAfterRemove
  <2>5. \A x \in S : \E n \in 1 .. Len(s) : s[n].key = x
    BY <2>2
  <2>6. SoundRing(q)
    BY <2>1, <2>2, <2>3, <2>4, <2>5, RingBuilt
  <2>7. RingMembers(q) = S
    BY <2>1, <2>2 DEF RingMembers
  <2>8. \A x \in S : Value(q, x) = Value(r, x)
    BY <2>1, <2>2 DEF Value, At
  <2> QED BY <1>q, <2>m, <2>6, <2>7, <2>8
<1> QED BY <1>1, <1>2

\* A nonempty set of numbers has a least one.
LEMMA LeastNumber ==
    ASSUME NEW S, S \subseteq Nat, S # {}
    PROVE  \E m \in S : \A n \in S : m <= n
<1> DEFINE R == {ss \in Nat \X Nat : ss[1] < ss[2]}
<1>1. IsWellFoundedOn(R, Nat)
  BY NatLessThanWellFounded DEF OpToRel
<1>2. PICK m \in S : \A n \in S : ~(<<n, m>> \in R)
  BY <1>1, WFMin
<1>3. \A n \in S : ~(n < m)
  BY <1>2
<1> QED BY <1>3

\* A place on the ring, and the offset of every place from the cursor.
LEMMA RoundTheRing ==
    ASSUME NEW N \in Nat, N > 0, NEW c \in 0 .. N - 1
    PROVE  /\ \A o \in Nat : (c + o) % N \in 0 .. N - 1
           /\ \A p \in 0 .. N - 1 : \E o \in 0 .. N - 1 : (c + o) % N = p
<1>1. \A o \in Nat : (c + o) % N \in 0 .. N - 1
  OBVIOUS
<1>2. ASSUME NEW p \in 0 .. N - 1
      PROVE  \E o \in 0 .. N - 1 : (c + o) % N = p
  <2>1. CASE c <= p
    <3>1. p - c \in 0 .. N - 1 /\ c + (p - c) = p /\ p % N = p
      BY <2>1
    <3> QED BY <3>1
  <2>2. CASE p < c
    <3>1. p + N - c \in 0 .. N - 1 /\ c + (p + N - c) = p + N
      BY <2>2
    <3>2. (p + N) % N = p
      OBVIOUS
    <3> QED BY <3>1, <3>2
  <2> QED BY <2>1, <2>2
<1> QED BY <1>1, <1>2

\* A scan that finds an entry moves the cursor and nothing else.
LEMMA MatchRing ==
    ASSUME NEW r, SoundRing(r), NEW M, Matching(r, M) # {}
    PROVE  LET q == RingNextMatch(r, M) IN
           /\ SoundRing(q) /\ RingMembers(q) = RingMembers(r) /\ RingLen(q) = RingLen(r)
           /\ \A i : Value(q, i) = Value(r, i)
           /\ \E i \in RingMembers(r) : Value(r, i) \in M /\ At(r, MatchPos(r, M)).value = Value(r, i)
<1> DEFINE q == RingNextMatch(r, M)
           N == RingLen(r)
           p == MatchPos(r, M)
<1>0. /\ N \in Nat /\ r.cursor \in Nat /\ r.entries \in Seq(Slot)
      /\ r = [entries |-> r.entries, index |-> r.index, cursor |-> r.cursor]
      /\ r.cursor < N \/ (N = 0 /\ r.cursor = 0)
  BY RingShape
<1>1. Matching(r, M) \subseteq Nat /\ Matching(r, M) \subseteq 0 .. N - 1
  BY <1>0 DEF Matching
<1>2. PICK o \in Matching(r, M) : o = CHOOSE x \in Matching(r, M) : \A y \in Matching(r, M) : x <= y
  BY <1>1, LeastNumber
<1>3. N > 0 /\ r.cursor \in 0 .. N - 1 /\ o \in 0 .. N - 1
  BY <1>0, <1>1
<1>4. p = (r.cursor + o) % N
  BY <1>2 DEF MatchPos
<1>5. p \in 0 .. N - 1
  <2>1. \A x \in Nat : (r.cursor + x) % N \in 0 .. N - 1
    <3> HIDE DEF N
    <3> QED BY <1>0, <1>3, RoundTheRing
  <2> QED BY <1>0, <1>3, <1>4, <2>1
<1>6. At(r, p).value \in M
  BY <1>2, <1>4 DEF Matching
<1>7. At(r, p).key \in RingMembers(r) /\ Value(r, At(r, p).key) = At(r, p).value
  <2> HIDE DEF p
  <2>1. p + 1 \in 1 .. RingLen(r)
    BY <1>0, <1>5
  <2> QED BY <2>1, RingShape DEF At
<1>8. AfterTurn(r, p) \in 0 .. N - 1
  <2>1. (p + 1) % N \in 0 .. N - 1
    BY <1>0, <1>3, <1>5
  <2> QED BY <2>1 DEF AfterTurn
<1>9. q = [entries |-> r.entries, index |-> r.index, cursor |-> AfterTurn(r, p)]
  BY <1>0 DEF RingNextMatch
<1>10. RingMembers(q) = RingMembers(r) /\ RingLen(q) = N /\ \A i : Value(q, i) = Value(r, i)
  BY <1>9 DEF RingMembers, RingLen, Value, At
<1>11. q \in RingBound
  <2>1. r.index \in UNION {[S -> Nat] : S \in SUBSET Instances} /\ AfterTurn(r, p) \in Nat
    BY <1>0, <1>8 DEF SoundRing, RingBound
  <2> QED BY <1>0, <1>9, <2>1 DEF RingBound
<1>12. RingOK(q)
  <2>1. q.entries = r.entries /\ q.index = r.index /\ q.cursor = AfterTurn(r, p)
    BY <1>9
  <2> HIDE DEF q
  <2>2. DOMAIN q.index = {q.entries[n].key : n \in DOMAIN q.entries}
    BY <2>1 DEF SoundRing, RingOK
  <2>3. \A n \in DOMAIN q.entries : q.index[q.entries[n].key] = n - 1
    BY <2>1 DEF SoundRing, RingOK
  <2>4. q.cursor \in 0 .. RingLen(q) /\ (RingLen(q) # 0 => q.cursor < RingLen(q))
    BY <1>0, <1>8, <1>10, <2>1
  <2> QED BY <2>2, <2>3, <2>4, Zenon DEF RingOK
<1> QED BY <1>6, <1>7, <1>10, <1>11, <1>12 DEF SoundRing

\* A scan that finds nothing has passed every entry.
LEMMA ScanSeesAll ==
    ASSUME NEW r, SoundRing(r), NEW M, Matching(r, M) = {}, NEW i \in RingMembers(r)
    PROVE  Value(r, i) \notin M
<1> DEFINE N == RingLen(r)
           p == r.index[i]
<1>1. N \in Nat /\ p \in 0 .. N - 1 /\ r.cursor \in Nat /\ (r.cursor < N \/ (N = 0 /\ r.cursor = 0))
  BY RingShape
<1>2. N > 0 /\ r.cursor \in 0 .. N - 1
  BY <1>1
<1>3. PICK o \in 0 .. N - 1 : (r.cursor + o) % N = p
  BY ZenonT(60), <1>1, <1>2, RoundTheRing
<1> QED BY <1>3 DEF Matching, Value

\* A ring nobody joined yet.
LEMMA NewRing == SoundRing(EmptyRing) /\ RingMembers(EmptyRing) = {} /\ RingLen(EmptyRing) = 0
<1>1. EmptyRing.entries = <<>> /\ EmptyRing.cursor = 0 /\ DOMAIN EmptyRing.index = {}
  BY DEF EmptyRing
<1>2. <<>> \in Seq(Slot) /\ Len(<<>>) = 0
  OBVIOUS
<1>3. [k \in {} |-> 0] \in [{} -> Nat]
  OBVIOUS
<1>4. EmptyRing \in RingBound
  BY <1>2, <1>3 DEF EmptyRing, RingBound
<1>5. RingOK(EmptyRing)
  BY <1>1, <1>2 DEF RingOK, RingLen
<1> QED BY <1>1, <1>2, <1>4, <1>5 DEF SoundRing, RingMembers, RingLen

-----------------------------------------------------------------------------
(* Rings and entries.                                                        *)

\* While the lock is free nothing is owed.
LEMMA NothingOwed ==
    ASSUME mu = Free
    PROVE  /\ mu.gen = 0 /\ mu.leave = NoType /\ mu.drop = {} /\ ~mu.join /\ mu.add = {} /\ mu.close = 0
           /\ \A t : DuePool(t) = {}
           /\ \A l : DueLabel(l) = {}
<1>1. mu.gen = 0 /\ mu.leave = NoType /\ mu.drop = {} /\ ~mu.join /\ mu.add = {} /\ mu.close = 0
  BY DEF Free
<1> QED BY <1>1 DEF DuePool, DueLabel

\* A ring that was right about everybody, after the entries changed.
LEMMA AgreesStill ==
    ASSUME NEW r, NEW W, NEW V, NEW D, Agrees(r, W, {}),
           \A i : i \notin D => (i \in W <=> i \in V) /\ (i \in W => entries'[i] = entries[i]),
           \A i \in W \cap D : entries[i] \in {mu'.gen, mu'.close} \ {0}
    PROVE  Agrees(r, V, D)'
<1>1. RingMembers(r) = W /\ \A i \in W : Value(r, i) = entries[i]
  BY DEF Agrees
<1>2. RingMembers(r) \ D = V \ D
  BY <1>1
<1>3. \A i \in RingMembers(r) \ D : Value(r, i) = entries'[i]
  BY <1>1
<1>4. \A i \in RingMembers(r) \cap D : Value(r, i) \in {mu'.gen, mu'.close} \ {0}
  BY <1>1
<1> QED BY <1>2, <1>3, <1>4 DEF Agrees, RingMembers, Value, At

\* A ring and its entries that did not change, while the same is owed.
LEMMA AgreesSame ==
    ASSUME NEW r, NEW W, NEW D, Agrees(r, W, D), entries' = entries,
           D = {} \/ (mu'.gen = mu.gen /\ mu'.close = mu.close)
    PROVE  Agrees(r, W, D)'
BY DEF Agrees, RingMembers, Value, At

\* Leaving and joining settle what the ring was owed.
LEMMA RemovedAgrees ==
    ASSUME NEW r, SoundRing(r), NEW k, NEW W, NEW D, Agrees(r, W, D), D \subseteq {k}, k \notin W
    PROVE  Agrees(RingRemove(r, k), W, {})
BY RemoveRing DEF Agrees

LEMMA JoinedAgrees ==
    ASSUME NEW r, SoundRing(r), NEW k \in Instances, NEW v \in Nat, NEW W, NEW D, Agrees(r, W, D),
           D \subseteq {k}, k \in W, entries[k] = v
    PROVE  Agrees(RingUpsert(r, k, v), W, {})
<1> DEFINE q == RingUpsert(r, k, v)
<1>1. /\ RingMembers(q) = RingMembers(r) \cup {k} /\ Value(q, k) = v
      /\ \A i \in RingMembers(r) \ {k} : Value(q, i) = Value(r, i)
  BY UpsertRing
<1> HIDE DEF q
<1>2. RingMembers(q) = W
  BY <1>1 DEF Agrees
<1>3. \A i \in W : Value(q, i) = entries[i]
  <2> TAKE i \in W
  <2>1. CASE i = k
    BY <1>1, <2>1
  <2>2. CASE i # k
    BY <1>1, <2>2 DEF Agrees
  <2> QED BY <2>1, <2>2
<1> QED BY <1>2, <1>3 DEF Agrees, q

\* The rings and the debts depend on an entry's instance, type and labels only.
LEMMA EntryTouched ==
    ASSUME RingsInv, entry' \in [Made -> EntryBound],
           \A g \in Made : entry'[g].inst = entry[g].inst /\ entry'[g].type = entry[g].type
                           /\ entry'[g].labels = entry[g].labels,
           UNCHANGED <<generation, entries, mu>>
    PROVE  /\ OwedOK'
           /\ \A i \in DOMAIN entries : entry'[entries'[i]].inst = i
           /\ \A t : OfType(t)' = OfType(t) /\ DuePool(t)' = DuePool(t)
           /\ \A l : Announcing(l)' = Announcing(l) /\ DueLabel(l)' = DueLabel(l)
<1>0. \A i \in DOMAIN entries : entries[i] \in Made /\ entry[entries[i]].inst = i
  BY DEF RingsInv, RegistryTypeOK
<1>1. mu.gen # 0 => mu.gen \in Made
  BY DEF RingsInv, RegistryTypeOK
<1>2. mu.close # 0 => mu.close \in Made
  BY DEF RingsInv, RegistryTypeOK
<1>3. OwedOK'
  BY <1>1, <1>2 DEF RingsInv, OwedOK, Free
<1>4. \A t : OfType(t)' = OfType(t) /\ DuePool(t)' = DuePool(t)
  BY <1>0, <1>1 DEF OfType, DuePool
<1>5. \A l : Announcing(l)' = Announcing(l) /\ DueLabel(l)' = DueLabel(l)
  BY <1>0, <1>1 DEF Announcing, DueLabel
<1> QED BY <1>0, <1>3, <1>4, <1>5

\* Rings that did not change, under entries that did not and the same debts.
LEMMA RingsUntouched ==
    ASSUME RingsInv, UNCHANGED <<entries, pools, labelPools>>,
           (mu'.gen = mu.gen /\ mu'.close = mu.close)
             \/ ((\A t \in Types : DuePool(t) = {}) /\ (\A l \in Labels : DueLabel(l) = {})),
           \A t \in Types : OfType(t)' = OfType(t) /\ DuePool(t)' = DuePool(t),
           \A l \in Labels : Announcing(l)' = Announcing(l) /\ DueLabel(l)' = DueLabel(l)
    PROVE  PoolsOK' /\ LabelPoolsOK'
<1>1. ASSUME NEW t \in Types
      PROVE  SoundRing(pools'[t]) /\ Agrees(pools[t], OfType(t), DuePool(t))'
  <2>1. SoundRing(pools[t]) /\ Agrees(pools[t], OfType(t), DuePool(t))
    BY DEF RingsInv, PoolsOK
  <2>2. PICK r, W, D : r = pools[t] /\ W = OfType(t) /\ D = DuePool(t)
    OBVIOUS
  <2>3. Agrees(r, W, D)'
    BY <2>1, <2>2, AgreesSame
  <2> QED BY <2>1, <2>2, <2>3
<1>2. ASSUME NEW l \in Labels
      PROVE  SoundRing(RingIn(l)') /\ Agrees(RingIn(l), Announcing(l), DueLabel(l))'
  <2>1. SoundRing(RingIn(l)) /\ Agrees(RingIn(l), Announcing(l), DueLabel(l))
    BY DEF RingsInv, LabelPoolsOK
  <2>2. PICK r, W, D : r = RingIn(l) /\ W = Announcing(l) /\ D = DueLabel(l)
    OBVIOUS
  <2>3. Agrees(r, W, D)'
    BY <2>1, <2>2, AgreesSame
  <2>4. RingIn(l)' = RingIn(l)
    BY DEF RingIn
  <2> QED BY <2>1, <2>2, <2>3, <2>4
<1>3. \A l \in DOMAIN labelPools' : RingLen(labelPools'[l]) > 0
  BY DEF RingsInv, LabelPoolsOK
<1>4. PoolsOK'
  BY <1>1 DEF PoolsOK, SoundRing, RingBound, Slot
<1> QED BY <1>2, <1>3, <1>4 DEF LabelPoolsOK

\* An operation on one instance leaves every other entry alone, and owes the
\* rings whatever changes for that instance.
LEMMA OneInstance ==
    ASSUME RingsInv, mu = Free, NEW k, UNCHANGED <<pools, labelPools>>,
           \A x \in Instances \ {k} :
              /\ x \in DOMAIN entries' <=> x \in DOMAIN entries
              /\ x \in DOMAIN entries => entries'[x] = entries[x],
           DOMAIN entries' \subseteq Instances,
           \A g \in Made : g \in DOMAIN entry' /\ entry'[g].type = entry[g].type,
           \A x \in DOMAIN entries \ {k} : entry'[entries[x]].labels = entry[entries[x]].labels,
           k \in DOMAIN entries => entries[k] \in {mu'.gen, mu'.close},
           \A t \in Types : DuePool(t)' \subseteq {k},
           \A l \in Labels : DueLabel(l)' \subseteq {k},
           \A t \in Types : k \in OfType(t) /\ k \notin DuePool(t)' =>
              k \in OfType(t)' /\ entries'[k] = entries[k],
           \A t \in Types : k \in OfType(t)' /\ k \notin DuePool(t)' => k \in OfType(t),
           \A l \in Labels : k \in Announcing(l) /\ k \notin DueLabel(l)' =>
              k \in Announcing(l)' /\ entries'[k] = entries[k],
           \A l \in Labels : k \in Announcing(l)' /\ k \notin DueLabel(l)' => k \in Announcing(l)
    PROVE  PoolsOK' /\ LabelPoolsOK'
<1>0. DOMAIN entries \subseteq Instances /\ \A i \in DOMAIN entries : entries[i] \in Made /\ entries[i] # 0
  BY DEF RingsInv, RegistryTypeOK, Made
<1>1. ASSUME NEW t \in Types
      PROVE  SoundRing(pools'[t]) /\ Agrees(pools[t], OfType(t), DuePool(t))'
  <2>1. SoundRing(pools[t]) /\ Agrees(pools[t], OfType(t), {})
    BY NothingOwed DEF RingsInv, PoolsOK
  <2>2. PICK r, W, V, D : r = pools[t] /\ W = OfType(t) /\ V = OfType(t)' /\ D = DuePool(t)'
    OBVIOUS
  <2>3. ASSUME NEW i, i # k
        PROVE  (i \in W <=> i \in V) /\ (i \in W => entries'[i] = entries[i])
    BY <1>0, <2>2, <2>3 DEF OfType
  <2>4. k \notin D => (k \in W <=> k \in V) /\ (k \in W => entries'[k] = entries[k])
    BY <2>2
  <2>5. W \subseteq DOMAIN entries
    BY <2>2 DEF OfType
  <2>6. \A i \in W \cap D : entries[i] \in {mu'.gen, mu'.close} \ {0}
    BY <1>0, <2>2, <2>5
  <2>7. Agrees(r, V, D)'
    <3>1. Agrees(r, W, {})
      BY <2>1, <2>2
    <3> QED BY <2>3, <2>4, <2>6, <3>1, AgreesStill
  <2> QED BY <2>1, <2>2, <2>7
<1>2. ASSUME NEW l \in Labels
      PROVE  SoundRing(RingIn(l)') /\ Agrees(RingIn(l), Announcing(l), DueLabel(l))'
  <2>1. SoundRing(RingIn(l)) /\ Agrees(RingIn(l), Announcing(l), {})
    BY NothingOwed DEF RingsInv, LabelPoolsOK
  <2>2. PICK r, W, V, D : r = RingIn(l) /\ W = Announcing(l) /\ V = Announcing(l)' /\ D = DueLabel(l)'
    OBVIOUS
  <2>3. ASSUME NEW i, i # k
        PROVE  (i \in W <=> i \in V) /\ (i \in W => entries'[i] = entries[i])
    BY <1>0, <2>2, <2>3 DEF Announcing
  <2>4. k \notin D => (k \in W <=> k \in V) /\ (k \in W => entries'[k] = entries[k])
    BY <2>2
  <2>5. W \subseteq DOMAIN entries
    BY <2>2 DEF Announcing
  <2>6. \A i \in W \cap D : entries[i] \in {mu'.gen, mu'.close} \ {0}
    BY <1>0, <2>2, <2>5
  <2>7. Agrees(r, V, D)'
    <3>1. Agrees(r, W, {})
      BY <2>1, <2>2
    <3> QED BY <2>3, <2>4, <2>6, <3>1, AgreesStill
  <2>8. RingIn(l)' = RingIn(l)
    BY DEF RingIn
  <2> QED BY <2>1, <2>2, <2>7, <2>8
<1>3. \A l \in DOMAIN labelPools' : RingLen(labelPools'[l]) > 0
  BY DEF RingsInv, LabelPoolsOK
<1>4. PoolsOK'
  BY <1>1 DEF PoolsOK
<1> QED BY <1>2, <1>3, <1>4 DEF LabelPoolsOK

-----------------------------------------------------------------------------
(* The operations that change the entries.                                   *)

LEMMA RegisterRings ==
    ASSUME RingsInv, NEW i \in Instances, NEW t \in Types, NEW offer \in Offers,
           NEW supports \in Support, Register(i, t, offer, supports)
    PROVE  RingsInv'
<1> DEFINE g == generation + 1
           labels == Announced(offer)
           old == IF i \in DOMAIN entries THEN entries[i] ELSE 0
           leave == IF old # 0 /\ entry[old].type # t THEN entry[old].type ELSE NoType
           drop == IF old # 0 THEN LeftBehind(old, labels) ELSE {}
           fresh == [inst |-> i, type |-> t, labels |-> labels,
                     supports |-> supports, closed |-> FALSE, inFlight |-> 0]
<1>0. /\ generation \in Nat /\ entry \in [Made -> EntryBound] /\ DOMAIN entries \subseteq Instances
      /\ \A x \in DOMAIN entries : entries[x] \in Made /\ entry[entries[x]].inst = x
      /\ mu = Free /\ generation' = g
      /\ entry' = [x \in 1 .. g |-> IF x = g THEN fresh ELSE entry[x]]
      /\ entries' = [x \in DOMAIN entries \cup {i} |-> IF x = i THEN g ELSE entries[x]]
      /\ mu' = [gen |-> g, join |-> TRUE, add |-> labels, close |-> old, leave |-> leave, drop |-> drop]
      /\ UNCHANGED <<pools, labelPools, retiring, ended, revisions, call>>
  BY DEF RingsInv, RegistryTypeOK, Register
<1>1. labels \subseteq Labels /\ supports \in BOOLEAN /\ g \in Nat /\ g # 0 /\ g \notin Made
      /\ Made' = Made \cup {g}
  BY <1>0, RegistryAssumption DEF Announced, Made
<1>2. fresh \in EntryBound /\ fresh.inst = i /\ fresh.type = t /\ fresh.labels = labels
  BY <1>1 DEF EntryBound
<1>3. old \in Made \cup {0} /\ (old = 0 <=> i \notin DOMAIN entries) /\ (old # 0 => entry[old] \in EntryBound)
      /\ (old # 0 => entries[i] = old)
  BY <1>0 DEF Made
<1>4. /\ leave \in Types \cup {NoType} /\ leave # t /\ drop \subseteq Labels /\ drop \cap labels = {}
      /\ \A tt \in Types : old # 0 /\ entry[old].type = tt => tt = t \/ tt = leave
      /\ \A l : old # 0 /\ l \in entry[old].labels => l \in labels \/ l \in drop
  BY <1>3, RegistryAssumption DEF EntryBound, LeftBehind
<1> HIDE DEF fresh, old, leave, drop, labels, g
<1>5. /\ entry' \in [Made' -> EntryBound] /\ entry'[g] = fresh
      /\ \A x \in Made : entry'[x] = entry[x]
  BY <1>0, <1>1, <1>2 DEF Made, g
<1>6. /\ DOMAIN entries' = DOMAIN entries \cup {i} /\ entries'[i] = g
      /\ \A x \in DOMAIN entries \ {i} : entries'[x] = entries[x]
  BY <1>0
<1>7. \A x \in DOMAIN entries' : entries'[x] \in Made' /\ entry'[entries'[x]].inst = x
  <2> TAKE x \in DOMAIN entries'
  <2>1. CASE x = i
    BY <1>1, <1>2, <1>5, <1>6, <2>1
  <2>2. CASE x # i
    BY <1>0, <1>1, <1>5, <1>6, <2>2
  <2> QED BY <2>1, <2>2
<1>8. /\ mu'.gen = g /\ mu'.join = TRUE /\ mu'.add = labels /\ mu'.close = old /\ mu'.leave = leave
      /\ mu'.drop = drop /\ mu' \in HolderBound
  BY <1>0, <1>1, <1>3, <1>4 DEF HolderBound, Made
<1>9. RegistryTypeOK'
  <2>1. retiring \subseteq Made' /\ ended \subseteq Made' /\ call.got \in Made' \cup {0}
    BY <1>1 DEF RingsInv, RegistryTypeOK
  <2>2. DOMAIN entries' \subseteq Instances
    BY <1>0, <1>6
  <2>3. mu'.gen \in Made' \cup {0} /\ mu'.close \in Made' \cup {0}
    BY <1>1, <1>3, <1>8
  <2> QED BY <1>0, <1>1, <1>5, <1>7, <1>8, <2>1, <2>2, <2>3 DEF RingsInv, RegistryTypeOK
<1>10. OwedOK'
  <2>1. old # 0 => entry'[old].inst = i
    BY <1>0, <1>3, <1>5
  <2> QED BY <1>1, <1>2, <1>4, <1>5, <1>6, <1>8, <2>1 DEF OwedOK
<1>11. /\ \A tt : DuePool(tt)' = IF tt = leave \/ tt = t THEN {i} ELSE {}
       /\ \A l : DueLabel(l)' = IF l \in drop \cup labels THEN {i} ELSE {}
  BY <1>1, <1>2, <1>5, <1>8 DEF DuePool, DueLabel
<1>12. PoolsOK' /\ LabelPoolsOK'
  <2>1. \A x \in Instances \ {i} : /\ x \in DOMAIN entries' <=> x \in DOMAIN entries
                                   /\ x \in DOMAIN entries => entries'[x] = entries[x]
    BY <1>6
  <2>2. \A x \in Made : x \in DOMAIN entry' /\ entry'[x].type = entry[x].type
    BY <1>1, <1>5
  <2>3. \A x \in DOMAIN entries \ {i} : entry'[entries[x]].labels = entry[entries[x]].labels
    BY <1>0, <1>5
  <2>4. i \in DOMAIN entries => entries[i] \in {mu'.gen, mu'.close}
    BY <1>3, <1>8
  <2>5. \A tt \in Types : i \in OfType(tt) => i \in DuePool(tt)'
    BY <1>3, <1>4, <1>11 DEF OfType
  <2>6. \A tt \in Types : i \in OfType(tt)' => i \in DuePool(tt)'
    BY <1>2, <1>5, <1>6, <1>11 DEF OfType
  <2>7. \A l \in Labels : i \in Announcing(l) => i \in DueLabel(l)'
    BY <1>3, <1>4, <1>11 DEF Announcing
  <2>8. \A l \in Labels : i \in Announcing(l)' => i \in DueLabel(l)'
    BY <1>2, <1>5, <1>6, <1>11 DEF Announcing
  <2>9. (\A tt \in Types : DuePool(tt)' \subseteq {i}) /\ (\A l \in Labels : DueLabel(l)' \subseteq {i})
    BY <1>11
  <2>10. DOMAIN entries' \subseteq Instances
    BY <1>0, <1>6
  <2> QED BY <1>0, <2>1, <2>2, <2>3, <2>4, <2>5, <2>6, <2>7, <2>8, <2>9, <2>10, OneInstance
<1> QED BY <1>9, <1>10, <1>12 DEF RingsInv

LEMMA DeregisterRings ==
    ASSUME RingsInv, NEW g \in DOMAIN entry, Deregister(g)
    PROVE  RingsInv'
<1> DEFINE i == entry[g].inst
<1>0. /\ generation \in Nat /\ entry \in [Made -> EntryBound] /\ DOMAIN entries \subseteq Instances
      /\ \A x \in DOMAIN entries : entries[x] \in Made /\ entry[entries[x]].inst = x
      /\ g \in Made /\ g \in Nat /\ g # 0 /\ mu = Free /\ ended' = ended \cup {g}
      /\ UNCHANGED <<generation, entry, pools, labelPools, retiring, revisions, call>>
  BY DEF RingsInv, RegistryTypeOK, Deregister, Made
<1>1. entry[g] \in EntryBound /\ i \in Instances /\ entry[g].type \in Types /\ entry[g].labels \subseteq Labels
      /\ entry[g].type # NoType
  BY <1>0, RegistryAssumption DEF EntryBound
<1>2. CASE StillLive(g)
  <2>1. /\ i \in DOMAIN entries /\ entries[i] = g
        /\ entries' = [x \in DOMAIN entries \ {i} |-> entries[x]]
        /\ mu' = [gen |-> g, leave |-> entry[g].type, drop |-> entry[g].labels,
                  join |-> FALSE, add |-> {}, close |-> g]
    BY <1>2 DEF Deregister, StillLive
  <2> HIDE DEF i
  <2>2. /\ mu'.gen = g /\ mu'.leave = entry[g].type /\ mu'.drop = entry[g].labels /\ mu'.join = FALSE
        /\ mu'.add = {} /\ mu'.close = g /\ mu' \in HolderBound
    BY <1>0, <1>1, <2>1 DEF HolderBound
  <2>3. DOMAIN entries' = DOMAIN entries \ {i} /\ \A x \in DOMAIN entries' : entries'[x] = entries[x]
    BY <2>1
  <2>4. RegistryTypeOK'
    BY <1>0, <2>2, <2>3 DEF RingsInv, RegistryTypeOK, Made
  <2>5. OwedOK'
    BY <1>0, <2>2, <2>3 DEF OwedOK, i
  <2>6. /\ \A t : DuePool(t)' = IF t = entry[g].type THEN {i} ELSE {}
        /\ \A l : DueLabel(l)' = IF l \in entry[g].labels THEN {i} ELSE {}
    BY <1>0, <2>2 DEF DuePool, DueLabel, i
  <2>7. PoolsOK' /\ LabelPoolsOK'
    <3>1. \A x \in Instances \ {i} : /\ x \in DOMAIN entries' <=> x \in DOMAIN entries
                                     /\ x \in DOMAIN entries => entries'[x] = entries[x]
      BY <2>3
    <3>2. \A t \in Types : i \in OfType(t) => i \in DuePool(t)'
      BY <2>1, <2>6 DEF OfType
    <3>3. \A t \in Types : i \notin OfType(t)'
      BY <2>3 DEF OfType
    <3>4. \A l \in Labels : i \in Announcing(l) => i \in DueLabel(l)'
      BY <2>1, <2>6 DEF Announcing
    <3>5. \A l \in Labels : i \notin Announcing(l)'
      BY <2>3 DEF Announcing
    <3>6. (\A t \in Types : DuePool(t)' \subseteq {i}) /\ (\A l \in Labels : DueLabel(l)' \subseteq {i})
      BY <2>6
    <3>7. \A x \in Made : x \in DOMAIN entry' /\ entry'[x].type = entry[x].type
      BY <1>0
    <3>8. \A x \in DOMAIN entries \ {i} : entry'[entries[x]].labels = entry[entries[x]].labels
      BY <1>0
    <3>9. DOMAIN entries' \subseteq Instances /\ (i \in DOMAIN entries => entries[i] \in {mu'.gen, mu'.close})
      BY <1>0, <2>1, <2>2, <2>3
    <3> QED BY <1>0, <3>1, <3>2, <3>3, <3>4, <3>5, <3>6, <3>7, <3>8, <3>9, OneInstance
  <2> QED BY <2>4, <2>5, <2>7 DEF RingsInv
<1>3. CASE ~StillLive(g)
  <2>1. UNCHANGED <<entries, mu>>
    BY <1>3 DEF Deregister
  <2>2. \A t : OfType(t)' = OfType(t) /\ DuePool(t)' = DuePool(t)
    BY <1>0, <2>1 DEF OfType, DuePool
  <2>3. \A l : Announcing(l)' = Announcing(l) /\ DueLabel(l)' = DueLabel(l)
    BY <1>0, <2>1 DEF Announcing, DueLabel
  <2>4. PoolsOK' /\ LabelPoolsOK'
    BY <1>0, <2>1, <2>2, <2>3, RingsUntouched
  <2>5. RegistryTypeOK' /\ OwedOK'
    BY <1>0, <2>1 DEF RingsInv, RegistryTypeOK, OwedOK, Made
  <2> QED BY <2>4, <2>5 DEF RingsInv
<1> QED BY <1>2, <1>3

LEMMA UpdateRings ==
    ASSUME RingsInv, NEW i \in Instances, NEW announce \in Offers, NEW withdraw \in Offers,
           UpdateLabels(i, announce, withdraw)
    PROVE  RingsInv'
<1> DEFINE g == entries[i]
           desired == (entry[g].labels \cup announce) \ withdraw
           drop == entry[g].labels \ desired
<1>0. /\ generation \in Nat /\ entry \in [Made -> EntryBound] /\ DOMAIN entries \subseteq Instances
      /\ \A x \in DOMAIN entries : entries[x] \in Made /\ entry[entries[x]].inst = x
      /\ i \in DOMAIN entries /\ g \in Made /\ g # 0 /\ entry[g].inst = i /\ mu = Free
      /\ revisions' = revisions - 1 /\ revisions > 0 /\ revisions \in Nat
      /\ EmptyLabel \notin announce
      /\ entry' = [entry EXCEPT ![g].labels = desired]
      /\ mu' = [Free EXCEPT !.gen = g, !.drop = drop, !.add = desired]
      /\ UNCHANGED <<generation, entries, pools, labelPools, retiring, ended, call>>
  BY DEF RingsInv, RegistryTypeOK, UpdateLabels, Made
<1>1. entry[g] \in EntryBound /\ entry[g].labels \subseteq Labels /\ entry[g].type \in Types
      /\ announce \subseteq Labels
  BY <1>0, RegistryAssumption DEF EntryBound
<1>2. desired \subseteq Labels /\ drop \subseteq Labels /\ drop \cap desired = {}
      /\ \A l : l \in entry[g].labels => l \in desired \/ l \in drop
  BY <1>1
<1> HIDE DEF desired, drop
<1>3. /\ entry' \in [Made -> EntryBound] /\ entry'[g].labels = desired
      /\ \A x \in Made : entry'[x].inst = entry[x].inst /\ entry'[x].type = entry[x].type
      /\ \A x \in Made \ {g} : entry'[x].labels = entry[x].labels
  <2> HIDE DEF g
  <2>1. [entry[g] EXCEPT !.labels = desired] \in EntryBound
    BY <1>1, <1>2 DEF EntryBound
  <2>2. entry' = [entry EXCEPT ![g] = [entry[g] EXCEPT !.labels = desired]]
    BY <1>0
  <2>3. entry' \in [Made -> EntryBound]
    BY <1>0, <2>1, <2>2
  <2>4. \A x \in Made : entry'[x] = IF x = g THEN [entry[g] EXCEPT !.labels = desired] ELSE entry[x]
    BY <1>0, <2>2
  <2>5. entry[g] = [inst |-> entry[g].inst, type |-> entry[g].type, labels |-> entry[g].labels,
                    supports |-> entry[g].supports, closed |-> entry[g].closed,
                    inFlight |-> entry[g].inFlight]
    BY <1>1 DEF EntryBound
  <2>6. /\ [entry[g] EXCEPT !.labels = desired].inst = entry[g].inst
        /\ [entry[g] EXCEPT !.labels = desired].type = entry[g].type
        /\ [entry[g] EXCEPT !.labels = desired].labels = desired
    BY <2>5
  <2> QED BY <1>0, <2>3, <2>4, <2>6
<1> HIDE DEF g
<1>4. /\ mu'.gen = g /\ mu'.leave = NoType /\ mu'.drop = drop /\ mu'.join = FALSE
      /\ mu'.add = desired /\ mu'.close = 0 /\ mu' \in HolderBound
  <2>1. g \in Nat
    BY <1>0 DEF Made
  <2>2. mu' = [gen |-> g, leave |-> NoType, drop |-> drop, join |-> FALSE, add |-> desired, close |-> 0]
    BY <1>0 DEF Free
  <2> QED BY <1>2, <2>1, <2>2 DEF HolderBound
<1>5. RegistryTypeOK'
  BY <1>0, <1>3, <1>4 DEF RingsInv, RegistryTypeOK, Made
<1>6. OwedOK'
  <2>1. entry'[g].inst = i /\ entries'[i] = g /\ i \in DOMAIN entries' /\ entry'[g].type # NoType
    BY <1>0, <1>1, <1>3, RegistryAssumption DEF g
  <2> QED BY <1>0, <1>2, <1>3, <1>4, <2>1 DEF OwedOK
<1>7. /\ \A t \in Types : DuePool(t)' = {}
      /\ \A l : DueLabel(l)' = IF l \in drop \cup desired THEN {i} ELSE {}
  <2>1. entry'[g].inst = i /\ NoType \notin Types /\ g # 0
    BY <1>0, <1>3, RegistryAssumption DEF g
  <2> QED BY <1>4, <2>1 DEF DuePool, DueLabel
<1>8. PoolsOK' /\ LabelPoolsOK'
  <2>1. \A t : i \in OfType(t)' <=> i \in OfType(t)
    BY <1>0, <1>3 DEF OfType, g
  <2>2. \A l \in Labels : i \in Announcing(l) => i \in DueLabel(l)'
    BY <1>0, <1>2, <1>7 DEF Announcing, g
  <2>3. \A l \in Labels : i \in Announcing(l)' => i \in DueLabel(l)'
    <3>1. entry'[entries'[i]].labels = desired
      BY <1>0, <1>3 DEF g
    <3> QED BY <1>7, <3>1 DEF Announcing
  <2>4. \A x \in DOMAIN entries \ {i} : entry'[entries[x]].labels = entry[entries[x]].labels
    BY <1>0, <1>3
  <2>5. \A x \in Made : x \in DOMAIN entry' /\ entry'[x].type = entry[x].type
    BY <1>3
  <2>6. (\A t \in Types : DuePool(t)' \subseteq {i}) /\ (\A l \in Labels : DueLabel(l)' \subseteq {i})
    BY <1>7
  <2>7. entries[i] \in {mu'.gen, mu'.close}
    BY <1>4 DEF g
  <2> QED BY <1>0, <2>1, <2>2, <2>3, <2>4, <2>5, <2>6, <2>7, OneInstance
<1> QED BY <1>5, <1>6, <1>8 DEF RingsInv

-----------------------------------------------------------------------------
(* The operations on the rings.                                              *)

\* The parts of the state an operation on a ring does not touch.
PoolStep ==
    /\ mu' \in HolderBound /\ mu'.gen = mu.gen /\ mu'.close = mu.close /\ mu.gen # 0
    /\ UNCHANGED <<generation, entry, entries, retiring, ended, revisions>>
    /\ call' \in CallBound /\ call'.got = call.got

\* What the operation that holds the lock knows of its instance.
LEMMA HolderKnows ==
    ASSUME RingsInv, mu.gen # 0
    PROVE  LET i == entry[mu.gen].inst IN
           /\ mu.gen \in Made /\ mu.gen \in Nat /\ i \in Instances /\ entry[mu.gen].type \in Types
           /\ mu.join \/ mu.add # {} => i \in DOMAIN entries
           /\ i \in DOMAIN entries =>
                 /\ entries[i] = mu.gen /\ mu.leave # entry[mu.gen].type
                 /\ mu.drop \cap entry[mu.gen].labels = {} /\ mu.add \subseteq entry[mu.gen].labels
           /\ mu \in HolderBound
BY DEF RingsInv, RegistryTypeOK, OwedOK, EntryBound, Made

LEMMA PoolStepTypes ==
    ASSUME RingsInv, PoolStep, pools' \in [Types -> RingBound], DOMAIN labelPools' \subseteq Labels,
           labelPools' \in [DOMAIN labelPools' -> RingBound],
           mu'.leave \in {mu.leave, NoType}, mu'.drop \subseteq mu.drop, mu'.add \subseteq mu.add,
           mu'.join => mu.join
    PROVE  RegistryTypeOK' /\ OwedOK' /\ \A t : OfType(t)' = OfType(t) /\ \A l : Announcing(l)' = Announcing(l)
<1>1. RegistryTypeOK'
  BY DEF RingsInv, RegistryTypeOK, PoolStep, Made
<1>2. OwedOK'
  <2>1. entry[mu.gen].type # NoType
    BY HolderKnows, RegistryAssumption DEF PoolStep
  <2> QED BY HolderKnows, <2>1 DEF RingsInv, OwedOK, PoolStep
<1>3. \A t : OfType(t)' = OfType(t) /\ \A l : Announcing(l)' = Announcing(l)
  BY DEF OfType, Announcing, PoolStep
<1> QED BY <1>1, <1>2, <1>3

\* The rings after such an operation, judged by entries that did not change.
LEMMA PoolsStep ==
    ASSUME PoolStep,
           \A t \in Types : SoundRing(pools'[t]) /\ Agrees(pools'[t], OfType(t), DuePool(t)')
    PROVE  PoolsOK'
<1>1. ASSUME NEW t \in Types
      PROVE  SoundRing(pools'[t]) /\ Agrees(pools[t], OfType(t), DuePool(t))'
  <2>1. PICK r, W, D : r = pools'[t] /\ W = OfType(t) /\ D = DuePool(t)'
    OBVIOUS
  <2>2. Agrees(r, W, D)
    BY <2>1
  <2>3. Agrees(r, W, D)'
    BY <2>2, AgreesSame DEF PoolStep
  <2>4. OfType(t)' = W
    BY <2>1 DEF OfType, PoolStep
  <2> QED BY <2>1, <2>3, <2>4
<1> QED BY <1>1 DEF PoolsOK

LEMMA LabelPoolsStep ==
    ASSUME PoolStep,
           \A l \in Labels : SoundRing(RingIn(l)') /\ Agrees(RingIn(l)', Announcing(l), DueLabel(l)'),
           \A l \in DOMAIN labelPools' : RingLen(labelPools'[l]) > 0
    PROVE  LabelPoolsOK'
<1>1. ASSUME NEW l \in Labels
      PROVE  SoundRing(RingIn(l)') /\ Agrees(RingIn(l), Announcing(l), DueLabel(l))'
  <2>1. PICK r, W, D : r = RingIn(l)' /\ W = Announcing(l) /\ D = DueLabel(l)'
    OBVIOUS
  <2>2. Agrees(r, W, D)
    BY <2>1
  <2>3. Agrees(r, W, D)'
    BY <2>2, AgreesSame DEF PoolStep
  <2>4. Announcing(l)' = W
    BY <2>1 DEF Announcing, PoolStep
  <2> QED BY <2>1, <2>3, <2>4
<1> QED BY <1>1 DEF LabelPoolsOK

LEMMA LeaveRings == ASSUME RingsInv, LeavePool PROVE RingsInv'
<1>c. PICK i, t0 : i = entry[mu.gen].inst /\ t0 = mu.leave
  OBVIOUS
<1> DEFINE q == RingRemove(pools[t0], i)
<1>0. /\ mu.leave # NoType /\ mu.gen # 0 /\ mu \in HolderBound
      /\ pools \in [Types -> RingBound] /\ DOMAIN labelPools \subseteq Labels
      /\ labelPools \in [DOMAIN labelPools -> RingBound] /\ call \in CallBound
  BY NothingOwed DEF LeavePool, RingsInv, RegistryTypeOK, OwedOK
<1>1. /\ mu' = [mu EXCEPT !.leave = NoType] /\ pools' = [pools EXCEPT ![t0] = q]
      /\ UNCHANGED <<generation, entry, entries, labelPools, retiring, ended, revisions, call>>
  BY <1>c DEF LeavePool
<1>2. t0 \in Types
  BY <1>c, <1>0 DEF HolderBound
<1>3. /\ mu' \in HolderBound /\ mu'.gen = mu.gen /\ mu'.close = mu.close /\ mu'.leave = NoType
      /\ mu'.drop = mu.drop /\ mu'.join = mu.join /\ mu'.add = mu.add
  BY <1>0, <1>1 DEF HolderBound
<1>4. PoolStep
  BY <1>0, <1>1, <1>3 DEF PoolStep
<1>5. SoundRing(pools[t0]) /\ Agrees(pools[t0], OfType(t0), DuePool(t0))
  BY <1>2 DEF RingsInv, PoolsOK
<1>6. i \notin OfType(t0)
  BY <1>c, <1>0, HolderKnows DEF OfType
<1>7. DuePool(t0) = {i} /\ DuePool(t0)' = {}
  <2>1. mu.join => t0 # entry[mu.gen].type
    BY <1>c, <1>0, HolderKnows
  <2>2. DuePool(t0) = {i}
    BY <1>c, <1>0 DEF DuePool
  <2>3. ~(mu'.leave = t0 \/ (mu'.join /\ entry'[mu'.gen].type = t0))
    BY <1>c, <1>0, <1>1, <1>2, <1>3, <2>1, RegistryAssumption
  <2> QED BY <2>2, <2>3 DEF DuePool
<1>8. SoundRing(q) /\ Agrees(q, OfType(t0), {})
  BY <1>5, <1>6, <1>7, RemoveRing, RemovedAgrees
<1>9. pools'[t0] = q /\ \A t \in Types \ {t0} : pools'[t] = pools[t]
  BY <1>0, <1>1, <1>2
<1> HIDE DEF q
<1>10. \A t \in Types \ {t0} : DuePool(t)' = DuePool(t)
  BY <1>0, <1>1, <1>3, <1>c, RegistryAssumption DEF DuePool
<1>11. ASSUME NEW t \in Types
       PROVE  SoundRing(pools'[t]) /\ Agrees(pools'[t], OfType(t), DuePool(t)')
  <2>1. CASE t = t0
    BY <1>7, <1>8, <1>9, <2>1
  <2>2. CASE t # t0
    <3>1. SoundRing(pools[t]) /\ Agrees(pools[t], OfType(t), DuePool(t))
      BY DEF RingsInv, PoolsOK
    <3> QED BY <1>9, <1>10, <2>2, <3>1 DEF Agrees
  <2> QED BY <2>1, <2>2
<1>12. PoolsOK'
  BY <1>4, <1>11, PoolsStep
<1>13. ASSUME NEW l \in Labels
       PROVE  RingIn(l)' = RingIn(l) /\ DueLabel(l)' = DueLabel(l)
  BY <1>1, <1>3 DEF RingIn, DueLabel
<1>14. LabelPoolsOK'
  BY <1>1, <1>4, <1>13, LabelPoolsStep DEF RingsInv, LabelPoolsOK
<1>15. pools' \in [Types -> RingBound]
  BY <1>0, <1>1, <1>2, <1>8 DEF SoundRing
<1>16. RegistryTypeOK' /\ OwedOK'
  BY <1>0, <1>1, <1>3, <1>4, <1>15, PoolStepTypes
<1> QED BY <1>12, <1>14, <1>16 DEF RingsInv

LEMMA JoinRings == ASSUME RingsInv, JoinPool PROVE RingsInv'
<1>c. PICK i, t0 : i = entry[mu.gen].inst /\ t0 = entry[mu.gen].type
  OBVIOUS
<1> DEFINE q == RingUpsert(pools[t0], i, mu.gen)
<1>0. /\ mu.leave = NoType /\ mu.join /\ mu.gen # 0 /\ mu \in HolderBound
      /\ pools \in [Types -> RingBound] /\ DOMAIN labelPools \subseteq Labels
      /\ labelPools \in [DOMAIN labelPools -> RingBound] /\ call \in CallBound
  BY NothingOwed DEF JoinPool, RingsInv, RegistryTypeOK, OwedOK
<1>1. /\ mu' = [mu EXCEPT !.join = FALSE] /\ pools' = [pools EXCEPT ![t0] = q]
      /\ UNCHANGED <<generation, entry, entries, labelPools, retiring, ended, revisions, call>>
  BY <1>c DEF JoinPool
<1>2. /\ t0 \in Types /\ i \in Instances /\ mu.gen \in Nat /\ i \in DOMAIN entries
      /\ entries[i] = mu.gen
  BY <1>c, <1>0, HolderKnows
<1>3. /\ mu' \in HolderBound /\ mu'.gen = mu.gen /\ mu'.close = mu.close /\ mu'.leave = mu.leave
      /\ mu'.drop = mu.drop /\ mu'.join = FALSE /\ mu'.add = mu.add
  BY <1>0, <1>1 DEF HolderBound
<1>4. PoolStep
  BY <1>0, <1>1, <1>3 DEF PoolStep
<1>5. SoundRing(pools[t0]) /\ Agrees(pools[t0], OfType(t0), DuePool(t0))
  BY <1>2 DEF RingsInv, PoolsOK
<1>6. i \in OfType(t0)
  BY <1>c, <1>2 DEF OfType
<1>7. DuePool(t0) \subseteq {i} /\ DuePool(t0)' = {}
  <2>1. NoType \notin Types
    BY RegistryAssumption
  <2> QED BY <1>c, <1>0, <1>1, <1>2, <1>3, <2>1 DEF DuePool
<1>8. SoundRing(q) /\ Agrees(q, OfType(t0), {})
  BY <1>2, <1>5, <1>6, <1>7, UpsertRing, JoinedAgrees
<1>9. pools'[t0] = q /\ \A t \in Types \ {t0} : pools'[t] = pools[t]
  BY <1>0, <1>1, <1>2
<1> HIDE DEF q
<1>10. \A t \in Types \ {t0} : DuePool(t)' = DuePool(t)
  BY <1>0, <1>1, <1>3, <1>c, RegistryAssumption DEF DuePool
<1>11. ASSUME NEW t \in Types
       PROVE  SoundRing(pools'[t]) /\ Agrees(pools'[t], OfType(t), DuePool(t)')
  <2>1. CASE t = t0
    BY <1>7, <1>8, <1>9, <2>1
  <2>2. CASE t # t0
    <3>1. SoundRing(pools[t]) /\ Agrees(pools[t], OfType(t), DuePool(t))
      BY DEF RingsInv, PoolsOK
    <3> QED BY <1>9, <1>10, <2>2, <3>1 DEF Agrees
  <2> QED BY <2>1, <2>2
<1>12. PoolsOK'
  BY <1>4, <1>11, PoolsStep
<1>13. ASSUME NEW l \in Labels
       PROVE  RingIn(l)' = RingIn(l) /\ DueLabel(l)' = DueLabel(l)
  BY <1>1, <1>3 DEF RingIn, DueLabel
<1>14. LabelPoolsOK'
  BY <1>1, <1>4, <1>13, LabelPoolsStep DEF RingsInv, LabelPoolsOK
<1>15. pools' \in [Types -> RingBound]
  BY <1>0, <1>1, <1>2, <1>8 DEF SoundRing
<1>16. RegistryTypeOK' /\ OwedOK'
  BY <1>0, <1>1, <1>3, <1>4, <1>15, PoolStepTypes
<1> QED BY <1>12, <1>14, <1>16 DEF RingsInv

LEMMA DetachRings == ASSUME RingsInv, NEW l \in Labels, DetachLabel(l) PROVE RingsInv'
<1>c. PICK i : i = entry[mu.gen].inst
  OBVIOUS
<1> DEFINE q == RingRemove(RingIn(l), i)
<1>0. /\ l \in mu.drop /\ mu.gen # 0 /\ mu \in HolderBound
      /\ pools \in [Types -> RingBound] /\ DOMAIN labelPools \subseteq Labels
      /\ labelPools \in [DOMAIN labelPools -> RingBound] /\ call \in CallBound
  BY NothingOwed DEF DetachLabel, RingsInv, RegistryTypeOK, OwedOK
<1>1. /\ mu' = [mu EXCEPT !.drop = @ \ {l}]
      /\ UNCHANGED <<generation, entry, entries, pools, retiring, ended, revisions>>
      /\ l \in DOMAIN labelPools => labelPools' = WithoutEmpty(l, q)
      /\ l \notin DOMAIN labelPools => labelPools' = labelPools
  BY <1>c DEF DetachLabel, RingIn
<1>2. \E d \in BOOLEAN : call' = [call EXCEPT !.dropped = d]
  <2>1. PICK d : d = (call.dropped \/ (call.pc = "match" /\ call.label = l /\ l \notin DOMAIN labelPools'))
    OBVIOUS
  <2>2. call' = [call EXCEPT !.dropped = d]
    BY <2>1 DEF DetachLabel
  <2>3. d \in BOOLEAN
    BY <2>1, Zenon
  <2> QED BY <2>2, <2>3
<1>3. /\ mu' \in HolderBound /\ mu'.gen = mu.gen /\ mu'.close = mu.close /\ mu'.leave = mu.leave
      /\ mu'.drop = mu.drop \ {l} /\ mu'.join = mu.join /\ mu'.add = mu.add
  BY <1>0, <1>1 DEF HolderBound
<1>4. PoolStep
  <2>1. call' \in CallBound /\ call'.got = call.got
    BY <1>0, <1>2 DEF CallBound
  <2> QED BY <1>0, <1>1, <1>3, <2>1 DEF PoolStep
<1>5. SoundRing(RingIn(l)) /\ Agrees(RingIn(l), Announcing(l), DueLabel(l))
  BY DEF RingsInv, LabelPoolsOK
<1>6. i \notin Announcing(l)
  BY <1>c, <1>0, HolderKnows DEF Announcing
<1>7. DueLabel(l) = {i} /\ DueLabel(l)' = {}
  <2>1. l \notin mu.add
    BY <1>c, <1>0, HolderKnows
  <2>2. l \notin mu'.drop \cup mu'.add
    BY <1>3, <2>1
  <2> QED BY <1>c, <1>0, <2>2 DEF DueLabel
<1>8. SoundRing(q) /\ Agrees(q, Announcing(l), {})
  BY <1>5, <1>6, <1>7, RemoveRing, RemovedAgrees
<1>9. l \notin DOMAIN labelPools => q = EmptyRing
  BY NewRing DEF RingIn, RingRemove, RingMembers
<1>10. RingLen(q) = 0 => SoundRing(EmptyRing) /\ Agrees(EmptyRing, Announcing(l), {})
  <2>1. ASSUME RingLen(q) = 0
        PROVE  Announcing(l) = {}
    <3>1. RingMembers(q) = {}
      BY <1>8, <2>1, RingShape
    <3> QED BY <1>8, <3>1 DEF Agrees
  <2> QED BY <2>1, NewRing DEF Agrees
<1>11. /\ DOMAIN labelPools' \subseteq DOMAIN labelPools
       /\ \A x \in DOMAIN labelPools' : labelPools'[x] = IF x = l THEN q ELSE labelPools[x]
       /\ l \in DOMAIN labelPools' => RingLen(q) > 0
       /\ l \notin DOMAIN labelPools' => RingLen(q) = 0
       /\ DOMAIN labelPools \ {l} \subseteq DOMAIN labelPools'
  <2> HIDE DEF q
  <2>1. CASE l \notin DOMAIN labelPools
    BY <1>1, <1>9, <2>1, NewRing
  <2>2. CASE l \in DOMAIN labelPools /\ RingLen(q) = 0
    BY <1>0, <1>1, <2>2 DEF WithoutEmpty
  <2>3. CASE l \in DOMAIN labelPools /\ RingLen(q) # 0
    <3>1. RingLen(q) \in Nat
      BY <1>8, RingShape
    <3> QED BY <1>0, <1>1, <2>3, <3>1 DEF WithoutEmpty
  <2> QED BY <2>1, <2>2, <2>3
<1>12. labelPools' \in [DOMAIN labelPools' -> RingBound]
  <2>1. \A x \in DOMAIN labelPools' : labelPools'[x] \in RingBound
    BY <1>0, <1>8, <1>11 DEF SoundRing
  <2>2. labelPools' = [x \in DOMAIN labelPools' |-> labelPools'[x]]
    BY <1>0, <1>1 DEF WithoutEmpty
  <2> QED BY <2>1, <2>2
<1> HIDE DEF q
<1>13. ASSUME NEW x \in Labels
       PROVE  SoundRing(RingIn(x)') /\ Agrees(RingIn(x)', Announcing(x), DueLabel(x)')
  <2>1. CASE x = l
    <3>1. RingIn(x)' = IF l \in DOMAIN labelPools' THEN q ELSE EmptyRing
      BY <1>11, <2>1 DEF RingIn
    <3>2. DueLabel(x)' = {} /\ Announcing(x) = Announcing(l)
      BY <1>7, <2>1
    <3>3. CASE l \in DOMAIN labelPools'
      BY <1>8, <3>1, <3>2, <3>3
    <3>4. CASE l \notin DOMAIN labelPools'
      BY <1>10, <1>11, <3>1, <3>2, <3>4
    <3> QED BY <3>3, <3>4
  <2>2. CASE x # l
    <3>1. RingIn(x)' = RingIn(x)
      BY <1>11, <2>2 DEF RingIn
    <3>2. DueLabel(x)' = DueLabel(x)
      BY <1>1, <1>3, <2>2 DEF DueLabel
    <3>3. SoundRing(RingIn(x)) /\ Agrees(RingIn(x), Announcing(x), DueLabel(x))
      BY DEF RingsInv, LabelPoolsOK
    <3> QED BY <3>1, <3>2, <3>3 DEF Agrees
  <2> QED BY <2>1, <2>2
<1>14. \A x \in DOMAIN labelPools' : RingLen(labelPools'[x]) > 0
  BY <1>11 DEF RingsInv, LabelPoolsOK
<1>15. LabelPoolsOK'
  BY <1>4, <1>13, <1>14, LabelPoolsStep
<1>16. ASSUME NEW t \in Types
       PROVE  SoundRing(pools'[t]) /\ Agrees(pools'[t], OfType(t), DuePool(t)')
  <2>1. DuePool(t)' = DuePool(t)
    BY <1>1, <1>3 DEF DuePool
  <2>2. SoundRing(pools[t]) /\ Agrees(pools[t], OfType(t), DuePool(t))
    BY DEF RingsInv, PoolsOK
  <2> QED BY <1>1, <2>1, <2>2 DEF Agrees
<1>17. PoolsOK'
  BY <1>4, <1>16, PoolsStep
<1>18. RegistryTypeOK' /\ OwedOK'
  BY <1>0, <1>1, <1>3, <1>4, <1>11, <1>12, PoolStepTypes
<1> QED BY <1>15, <1>17, <1>18 DEF RingsInv

LEMMA AttachRings == ASSUME RingsInv, NEW l \in Labels, AttachLabel(l) PROVE RingsInv'
<1>c. PICK i : i = entry[mu.gen].inst
  OBVIOUS
<1> DEFINE q == RingUpsert(RingIn(l), i, mu.gen)
<1>0. /\ l \in mu.add /\ mu.drop = {} /\ mu.gen # 0 /\ mu \in HolderBound
      /\ pools \in [Types -> RingBound] /\ DOMAIN labelPools \subseteq Labels
      /\ labelPools \in [DOMAIN labelPools -> RingBound] /\ call \in CallBound
  BY NothingOwed DEF AttachLabel, RingsInv, RegistryTypeOK, OwedOK
<1>1. /\ mu' = [mu EXCEPT !.add = @ \ {l}]
      /\ UNCHANGED <<generation, entry, entries, pools, retiring, ended, revisions, call>>
      /\ labelPools' = [x \in DOMAIN labelPools \cup {l} |-> IF x = l THEN q ELSE labelPools[x]]
  BY <1>c DEF AttachLabel, RingIn
<1>2. /\ i \in Instances /\ mu.gen \in Nat /\ i \in DOMAIN entries /\ entries[i] = mu.gen
      /\ l \in entry[mu.gen].labels
  BY <1>c, <1>0, HolderKnows
<1>3. /\ mu' \in HolderBound /\ mu'.gen = mu.gen /\ mu'.close = mu.close /\ mu'.leave = mu.leave
      /\ mu'.drop = mu.drop /\ mu'.join = mu.join /\ mu'.add = mu.add \ {l}
  BY <1>0, <1>1 DEF HolderBound
<1>4. PoolStep
  BY <1>0, <1>1, <1>3 DEF PoolStep
<1>5. SoundRing(RingIn(l)) /\ Agrees(RingIn(l), Announcing(l), DueLabel(l))
  BY DEF RingsInv, LabelPoolsOK
<1>6. i \in Announcing(l)
  BY <1>c, <1>2 DEF Announcing
<1>7. DueLabel(l) = {i} /\ DueLabel(l)' = {}
  <2>2. l \notin mu'.drop \cup mu'.add
    BY <1>0, <1>3
  <2> QED BY <1>c, <1>0, <2>2 DEF DueLabel
<1>8. SoundRing(q) /\ Agrees(q, Announcing(l), {}) /\ RingLen(q) > 0
  BY <1>2, <1>5, <1>6, <1>7, UpsertRing, JoinedAgrees
<1> HIDE DEF q
<1>11. /\ DOMAIN labelPools' = DOMAIN labelPools \cup {l}
       /\ \A x \in DOMAIN labelPools' : labelPools'[x] = IF x = l THEN q ELSE labelPools[x]
  BY <1>1
<1>12. labelPools' \in [DOMAIN labelPools' -> RingBound]
  BY <1>0, <1>1, <1>8 DEF SoundRing
<1>13. ASSUME NEW x \in Labels
       PROVE  SoundRing(RingIn(x)') /\ Agrees(RingIn(x)', Announcing(x), DueLabel(x)')
  <2>1. CASE x = l
    <3>1. RingIn(x)' = q
      BY <1>11, <2>1 DEF RingIn
    <3>2. DueLabel(x)' = {} /\ Announcing(x) = Announcing(l)
      BY <1>7, <2>1
    <3> QED BY <1>8, <3>1, <3>2
  <2>2. CASE x # l
    <3>1. RingIn(x)' = RingIn(x)
      BY <1>11, <2>2 DEF RingIn
    <3>2. DueLabel(x)' = DueLabel(x)
      BY <1>1, <1>3, <2>2 DEF DueLabel
    <3>3. SoundRing(RingIn(x)) /\ Agrees(RingIn(x), Announcing(x), DueLabel(x))
      BY DEF RingsInv, LabelPoolsOK
    <3> QED BY <3>1, <3>2, <3>3 DEF Agrees
  <2> QED BY <2>1, <2>2
<1>14. \A x \in DOMAIN labelPools' : RingLen(labelPools'[x]) > 0
  BY <1>8, <1>11 DEF RingsInv, LabelPoolsOK
<1>15. LabelPoolsOK'
  BY <1>4, <1>13, <1>14, LabelPoolsStep
<1>16. ASSUME NEW t \in Types
       PROVE  SoundRing(pools'[t]) /\ Agrees(pools'[t], OfType(t), DuePool(t)')
  <2>1. DuePool(t)' = DuePool(t)
    BY <1>1, <1>3 DEF DuePool
  <2>2. SoundRing(pools[t]) /\ Agrees(pools[t], OfType(t), DuePool(t))
    BY DEF RingsInv, PoolsOK
  <2> QED BY <1>1, <2>1, <2>2 DEF Agrees
<1>17. PoolsOK'
  BY <1>4, <1>16, PoolsStep
<1>18. RegistryTypeOK' /\ OwedOK'
  BY <1>0, <1>1, <1>3, <1>4, <1>11, <1>12, PoolStepTypes
<1> QED BY <1>15, <1>17, <1>18 DEF RingsInv

\* The lock is given back when nothing is owed any more.
LEMMA UnlockRings == ASSUME RingsInv, Unlock PROVE RingsInv'
<1>0. /\ mu.leave = NoType /\ mu.drop = {} /\ ~mu.join /\ mu.add = {} /\ mu' = Free
      /\ retiring' = retiring \cup ({mu.close} \ {0})
      /\ UNCHANGED <<generation, entry, entries, pools, labelPools, ended, revisions, call>>
  BY DEF Unlock
<1>1. \A t \in Types : DuePool(t) = {} /\ DuePool(t)' = {}
  BY <1>0, RegistryAssumption DEF DuePool, Free
<1>2. \A l : DueLabel(l) = {} /\ DueLabel(l)' = {}
  BY <1>0 DEF DueLabel, Free
<1>3. \A t : OfType(t)' = OfType(t) /\ \A l : Announcing(l)' = Announcing(l)
  BY <1>0 DEF OfType, Announcing
<1>4. PoolsOK' /\ LabelPoolsOK'
  BY <1>0, <1>1, <1>2, <1>3, RingsUntouched
<1>5. RegistryTypeOK'
  <2>1. Free \in HolderBound /\ Free.gen = 0 /\ Free.close = 0
    BY DEF Free, HolderBound
  <2>2. retiring' \subseteq Made
    BY <1>0 DEF RingsInv, RegistryTypeOK
  <2> QED BY <1>0, <2>1, <2>2 DEF RingsInv, RegistryTypeOK, Made
<1>6. OwedOK'
  BY <1>0 DEF OwedOK, Free
<1> QED BY <1>4, <1>5, <1>6 DEF RingsInv

\* Marking an entry closed, booking it and giving a booking back.
LEMMA EntryRings ==
    ASSUME RingsInv, entry' \in [Made -> EntryBound],
           \A g \in Made : entry'[g].inst = entry[g].inst /\ entry'[g].type = entry[g].type
                           /\ entry'[g].labels = entry[g].labels,
           UNCHANGED <<generation, entries, pools, labelPools, mu, ended, revisions>>,
           retiring' \subseteq Made, call' \in CallBound, call'.got \in Made \cup {0}
    PROVE  RingsInv'
<1>1. PoolsOK' /\ LabelPoolsOK' /\ OwedOK'
  BY EntryTouched, RingsUntouched
<1>2. RegistryTypeOK'
  BY EntryTouched DEF RingsInv, RegistryTypeOK, Made
<1> QED BY <1>1, <1>2 DEF RingsInv

\* Marking an entry closed, ...
LEMMA EntryClosed ==
    ASSUME NEW g \in Made, entry \in [Made -> EntryBound], NEW b \in BOOLEAN,
           entry' = [entry EXCEPT ![g].closed = b]
    PROVE  /\ entry' \in [Made -> EntryBound]
           /\ \A x \in Made : entry'[x].inst = entry[x].inst /\ entry'[x].type = entry[x].type
                              /\ entry'[x].labels = entry[x].labels /\ entry'[x].supports = entry[x].supports
                              /\ entry'[x].inFlight = entry[x].inFlight
           /\ \A x \in Made \ {g} : entry'[x] = entry[x]
           /\ entry'[g].closed = b
<1> DEFINE e == [entry[g] EXCEPT !.closed = b]
<1>1. entry[g] \in EntryBound
  OBVIOUS
<1>2. e = [inst |-> entry[g].inst, type |-> entry[g].type, labels |-> entry[g].labels,
             supports |-> entry[g].supports, closed |-> b, inFlight |-> entry[g].inFlight]
  BY <1>1 DEF EntryBound
<1>3. /\ e \in EntryBound /\ e.inst = entry[g].inst /\ e.type = entry[g].type
      /\ e.labels = entry[g].labels /\ e.supports = entry[g].supports
      /\ e.inFlight = entry[g].inFlight /\ e.closed = b
  BY <1>1, <1>2 DEF EntryBound
<1>4. entry' = [entry EXCEPT ![g] = e]
  OBVIOUS
<1> HIDE DEF e
<1>5. entry' \in [Made -> EntryBound] /\ entry'[g] = e /\ \A x \in Made \ {g} : entry'[x] = entry[x]
  BY <1>3, <1>4
<1> QED BY <1>3, <1>5

\* ... booking it and giving a booking back change nothing else of it.
LEMMA EntryBooked ==
    ASSUME NEW g \in Made, entry \in [Made -> EntryBound], NEW n \in Nat,
           entry' = [entry EXCEPT ![g].inFlight = n]
    PROVE  /\ entry' \in [Made -> EntryBound]
           /\ \A x \in Made : entry'[x].inst = entry[x].inst /\ entry'[x].type = entry[x].type
                              /\ entry'[x].labels = entry[x].labels /\ entry'[x].supports = entry[x].supports
                              /\ entry'[x].closed = entry[x].closed
           /\ \A x \in Made \ {g} : entry'[x] = entry[x]
           /\ entry'[g].inFlight = n
<1> DEFINE e == [entry[g] EXCEPT !.inFlight = n]
<1>1. entry[g] \in EntryBound
  OBVIOUS
<1>2. e = [inst |-> entry[g].inst, type |-> entry[g].type, labels |-> entry[g].labels,
             supports |-> entry[g].supports, closed |-> entry[g].closed, inFlight |-> n]
  BY <1>1 DEF EntryBound
<1>3. /\ e \in EntryBound /\ e.inst = entry[g].inst /\ e.type = entry[g].type
      /\ e.labels = entry[g].labels /\ e.supports = entry[g].supports
      /\ e.closed = entry[g].closed /\ e.inFlight = n
  BY <1>1, <1>2 DEF EntryBound
<1>4. entry' = [entry EXCEPT ![g] = e]
  OBVIOUS
<1> HIDE DEF e
<1>5. entry' \in [Made -> EntryBound] /\ entry'[g] = e /\ \A x \in Made \ {g} : entry'[x] = entry[x]
  BY <1>3, <1>4
<1> QED BY <1>3, <1>5

LEMMA QuietRings ==
    ASSUME RingsInv,
           \/ \E g \in retiring : MarkClosed(g)
           \/ CloseAll \/ AddInFlight
           \/ \E g \in DOMAIN entry : ReleaseInFlight(g)
           \/ \E q \in Requests : Look(q[1], q[2])
    PROVE  RingsInv'
<1>0. /\ entry \in [Made -> EntryBound] /\ retiring \subseteq Made /\ call \in CallBound
      /\ call.got \in Made \cup {0} /\ NoCall \in CallBound /\ NoCall.got = 0
  BY DEF RingsInv, RegistryTypeOK, CallBound, NoCall
<1>1. CASE \E g \in retiring : MarkClosed(g)
  <2>1. PICK g \in retiring : MarkClosed(g)
    BY <1>1
  <2>2. entry' = [entry EXCEPT ![g].closed = TRUE] /\ g \in Made /\ TRUE \in BOOLEAN
    BY <1>0, <2>1 DEF MarkClosed
  <2>3. /\ entry' \in [Made -> EntryBound]
        /\ \A x \in Made : entry'[x].inst = entry[x].inst /\ entry'[x].type = entry[x].type
                           /\ entry'[x].labels = entry[x].labels
    BY <1>0, <2>2, EntryClosed
  <2> QED BY <1>0, <2>1, <2>3, EntryRings DEF MarkClosed
<1>2. CASE CloseAll
  <2>1. \A i \in DOMAIN entries : entries[i] \in Made
    BY DEF RingsInv, RegistryTypeOK
  <2>2. retiring' \subseteq Made
    BY <1>0, <1>2, <2>1 DEF CloseAll
  <2> QED BY <1>0, <1>2, <2>2, EntryRings DEF CloseAll
<1>3. CASE AddInFlight
  <2>1. PICK g, n : g = call.got /\ n = entry[g].inFlight + 1
    OBVIOUS
  <2>2. g \in Made /\ entry[g] \in EntryBound
    BY <1>0, <1>3, <2>1 DEF AddInFlight
  <2>3. entry' = [entry EXCEPT ![g].inFlight = n] /\ n \in Nat
    BY <1>3, <2>1, <2>2 DEF AddInFlight, EntryBound
  <2>4. /\ entry' \in [Made -> EntryBound]
        /\ \A x \in Made : entry'[x].inst = entry[x].inst /\ entry'[x].type = entry[x].type
                           /\ entry'[x].labels = entry[x].labels
    BY <1>0, <2>2, <2>3, EntryBooked
  <2> QED BY <1>0, <1>3, <2>4, EntryRings DEF AddInFlight
<1>4. CASE \E g \in DOMAIN entry : ReleaseInFlight(g)
  <2>1. PICK g \in Made : ReleaseInFlight(g)
    BY <1>0, <1>4
  <2>2. PICK n : n = entry[g].inFlight - 1
    OBVIOUS
  <2>3. entry[g] \in EntryBound
    BY <1>0
  <2>4. entry' = [entry EXCEPT ![g].inFlight = n] /\ n \in Nat
    BY <2>1, <2>2, <2>3 DEF ReleaseInFlight, EntryBound
  <2>5. /\ entry' \in [Made -> EntryBound]
        /\ \A x \in Made : entry'[x].inst = entry[x].inst /\ entry'[x].type = entry[x].type
                           /\ entry'[x].labels = entry[x].labels
    BY <1>0, <2>4, EntryBooked
  <2> QED BY <1>0, <2>1, <2>5, EntryRings DEF ReleaseInFlight
<1>5. CASE \E q \in Requests : Look(q[1], q[2])
  <2>1. PICK q \in Requests : Look(q[1], q[2])
    BY <1>5
  <2>2. q[1] \in Types /\ q[2] \in Labels \cup {NoLabel}
    BY RegistryAssumption
  <2>3. PICK d \in BOOLEAN : d = (q[2] # NoLabel /\ q[2] \notin DOMAIN labelPools)
    OBVIOUS
  <2>4. call' = [pc |-> "match", type |-> q[1], label |-> q[2], got |-> 0, dropped |-> d]
    BY <2>1, <2>3 DEF Look
  <2>5. call' \in CallBound /\ call'.got = 0
    BY <2>2, <2>4 DEF CallBound
  <2>6. UNCHANGED <<generation, entry, entries, pools, labelPools, mu, ended, revisions, retiring>>
    BY <2>1 DEF Look, registryVars
  <2> QED BY <1>0, <2>5, <2>6, EntryRings
<1> QED BY <1>1, <1>2, <1>3, <1>4, <1>5

\* The scan moves the cursor of the ring it was given.
LEMMA MatchRings == ASSUME RingsInv, CallOK, Match PROVE RingsInv'
<1>0. /\ call.pc = "match" /\ call.type \in Types /\ call \in CallBound
      /\ pools \in [Types -> RingBound] /\ DOMAIN labelPools \subseteq Labels
      /\ labelPools \in [DOMAIN labelPools -> RingBound]
      /\ mu \in HolderBound /\ mu.gen \in Made \cup {0} /\ call.got \in Made \cup {0}
      /\ UNCHANGED <<generation, entry, entries, mu, retiring, ended, revisions>>
  BY DEF Match, CallOK, RingsInv, RegistryTypeOK
<1>1. /\ \A t : OfType(t)' = OfType(t) /\ DuePool(t)' = DuePool(t)
      /\ \A l : Announcing(l)' = Announcing(l) /\ DueLabel(l)' = DueLabel(l)
  BY <1>0 DEF OfType, DuePool, Announcing, DueLabel
<1>2. CASE Matching(Ring, Candidates) = {}
  <2>1. call' = [call EXCEPT !.pc = "done"] /\ UNCHANGED <<pools, labelPools>>
    BY <1>2 DEF Match
  <2>2. call' \in CallBound /\ call'.got = call.got
    BY <1>0, <2>1 DEF CallBound
  <2>3. PoolsOK' /\ LabelPoolsOK'
    BY <1>0, <1>1, <2>1, RingsUntouched
  <2> QED BY <1>0, <2>1, <2>2, <2>3 DEF RingsInv, RegistryTypeOK, OwedOK, Made
<1>3. CASE Matching(Ring, Candidates) # {}
  <2>1. PICK r, q, M : r = Ring /\ M = Candidates /\ q = RingNextMatch(r, M)
    OBVIOUS
  <2>2. SoundRing(r) /\ (call.label # NoLabel => call.label \in DOMAIN labelPools /\ r = labelPools[call.label])
        /\ (call.label = NoLabel => r = pools[call.type])
    <3>1. ~call.dropped
      BY <1>3, NewRing DEF Ring, Matching
    <3>2. CASE call.label = NoLabel
      BY <1>0, <2>1, <3>1, <3>2 DEF Ring, RingsInv, PoolsOK
    <3>3. CASE call.label # NoLabel
      <4>1. call.label \in DOMAIN labelPools /\ r = labelPools[call.label] /\ call.label \in Labels
        BY <1>0, <2>1, <3>1, <3>3 DEF Ring, CallOK
      <4>2. SoundRing(RingIn(call.label))
        BY <4>1 DEF RingsInv, LabelPoolsOK
      <4> QED BY <3>3, <4>1, <4>2 DEF RingIn
    <3> QED BY <3>2, <3>3
  <2>3. /\ SoundRing(q) /\ RingMembers(q) = RingMembers(r) /\ RingLen(q) = RingLen(r)
        /\ \A i : Value(q, i) = Value(r, i)
        /\ \E i \in RingMembers(r) : Value(r, i) \in M /\ At(r, MatchPos(r, M)).value = Value(r, i)
    BY <1>3, <2>1, <2>2, MatchRing
  <2>4. \A W, D : Agrees(r, W, D) => Agrees(q, W, D)
    BY <2>3 DEF Agrees
  <2>5. call' \in CallBound /\ call'.got \in Made \cup {0}
    <3>1. PICK g \in M : call' = [call EXCEPT !.pc = "done", !.got = g]
      BY <1>3, <2>1, <2>3 DEF Match
    <3>2. g \in Made /\ g \in Nat
      BY <2>1 DEF Candidates, RingsInv, RegistryTypeOK, Made
    <3> QED BY <1>0, <3>1, <3>2 DEF CallBound
  <2>6. CASE call.label = NoLabel
    <3>1. pools' = [pools EXCEPT ![call.type] = q] /\ UNCHANGED labelPools
      BY <1>3, <2>1, <2>2, <2>6 DEF Match
    <3>2. pools' \in [Types -> RingBound]
      BY <1>0, <2>3, <3>1 DEF SoundRing
    <3>3. ASSUME NEW t \in Types
          PROVE  SoundRing(pools'[t]) /\ Agrees(pools[t], OfType(t), DuePool(t))'
      <4>1. SoundRing(pools[t]) /\ Agrees(pools[t], OfType(t), DuePool(t))
        BY DEF RingsInv, PoolsOK
      <4>2. PICK p, W, D : p = pools'[t] /\ W = OfType(t) /\ D = DuePool(t)
        OBVIOUS
      <4>3. SoundRing(p) /\ Agrees(p, W, D)
        BY <1>0, <2>2, <2>3, <2>4, <2>6, <3>1, <4>1, <4>2
      <4>4. Agrees(p, W, D)'
        BY <1>0, <4>3, AgreesSame
      <4> QED BY <1>1, <4>2, <4>3, <4>4
    <3>4. ASSUME NEW l \in Labels
          PROVE  SoundRing(RingIn(l)') /\ Agrees(RingIn(l), Announcing(l), DueLabel(l))'
      <4>1. SoundRing(RingIn(l)) /\ Agrees(RingIn(l), Announcing(l), DueLabel(l))
        BY DEF RingsInv, LabelPoolsOK
      <4>2. PICK p, W, D : p = RingIn(l) /\ W = Announcing(l) /\ D = DueLabel(l)
        OBVIOUS
      <4>3. Agrees(p, W, D)'
        BY <1>0, <4>1, <4>2, AgreesSame
      <4>4. RingIn(l)' = p
        BY <3>1, <4>2 DEF RingIn
      <4> QED BY <1>1, <4>1, <4>2, <4>3, <4>4
    <3>5. PoolsOK' /\ LabelPoolsOK'
      BY <3>1, <3>3, <3>4 DEF PoolsOK, LabelPoolsOK, RingsInv
    <3> QED BY <1>0, <2>5, <3>1, <3>2, <3>5 DEF RingsInv, RegistryTypeOK, OwedOK, Made
  <2>7. CASE call.label # NoLabel
    <3>1. labelPools' = [labelPools EXCEPT ![call.label] = q] /\ UNCHANGED pools
      BY <1>3, <2>1, <2>2, <2>7 DEF Match
    <3>2. DOMAIN labelPools' = DOMAIN labelPools /\ labelPools' \in [DOMAIN labelPools -> RingBound]
      BY <1>0, <2>3, <3>1 DEF SoundRing
    <3>3. ASSUME NEW t \in Types
          PROVE  SoundRing(pools'[t]) /\ Agrees(pools[t], OfType(t), DuePool(t))'
      <4>1. SoundRing(pools[t]) /\ Agrees(pools[t], OfType(t), DuePool(t))
        BY DEF RingsInv, PoolsOK
      <4>2. PICK p, W, D : p = pools[t] /\ W = OfType(t) /\ D = DuePool(t)
        OBVIOUS
      <4>3. Agrees(p, W, D)'
        BY <1>0, <4>1, <4>2, AgreesSame
      <4> QED BY <1>1, <3>1, <4>1, <4>2, <4>3
    <3>4. ASSUME NEW l \in Labels
          PROVE  SoundRing(RingIn(l)') /\ Agrees(RingIn(l), Announcing(l), DueLabel(l))'
      <4>1. SoundRing(RingIn(l)) /\ Agrees(RingIn(l), Announcing(l), DueLabel(l))
        BY DEF RingsInv, LabelPoolsOK
      <4>2. PICK p, W, D : p = RingIn(l)' /\ W = Announcing(l) /\ D = DueLabel(l)
        OBVIOUS
      <4>3. p = IF l = call.label THEN q ELSE RingIn(l)
        BY <1>0, <2>2, <2>7, <3>1, <3>2, <4>2 DEF RingIn
      <4>4. l = call.label => r = RingIn(l)
        BY <2>2, <2>7 DEF RingIn
      <4>5. SoundRing(p) /\ Agrees(p, W, D)
        BY <2>3, <2>4, <4>1, <4>2, <4>3, <4>4
      <4>6. Agrees(p, W, D)'
        BY <1>0, <4>5, AgreesSame
      <4> QED BY <1>1, <4>2, <4>5, <4>6
    <3>5. \A l \in DOMAIN labelPools' : RingLen(labelPools'[l]) > 0
      <4>1. \A l \in DOMAIN labelPools : RingLen(labelPools[l]) > 0
        BY DEF RingsInv, LabelPoolsOK
      <4> QED BY <1>0, <2>2, <2>3, <2>7, <3>1, <3>2, <4>1
    <3>6. PoolsOK' /\ LabelPoolsOK'
      BY <3>3, <3>4, <3>5 DEF PoolsOK, LabelPoolsOK
    <3> QED BY <1>0, <2>5, <3>1, <3>2, <3>6 DEF RingsInv, RegistryTypeOK, OwedOK, Made
  <2> QED BY <2>6, <2>7
<1> QED BY <1>2, <1>3

LEMMA FirstRings == ASSUME RegistryInit PROVE RingsInv
<1>0. /\ generation = 0 /\ entry = [g \in {} |-> 0] /\ entries = [i \in {} |-> 0]
      /\ pools = [t \in Types |-> EmptyRing] /\ labelPools = [l \in {} |-> EmptyRing]
      /\ mu = Free /\ retiring = {} /\ ended = {} /\ revisions = MaxRevisions /\ call = NoCall
  BY DEF RegistryInit
<1>1. Made = {} /\ DOMAIN entries = {} /\ DOMAIN labelPools = {}
  BY <1>0 DEF Made
<1>2. /\ Free \in HolderBound /\ Free.gen = 0 /\ Free.close = 0
      /\ NoCall \in CallBound /\ NoCall.got = 0 /\ EmptyRing \in RingBound
  BY NewRing DEF Free, HolderBound, NoCall, CallBound, SoundRing
<1>3. entry \in [Made -> EntryBound] /\ labelPools \in [DOMAIN labelPools -> RingBound]
  BY <1>0, <1>1
<1>4. RegistryTypeOK
  BY <1>0, <1>1, <1>2, <1>3, RegistryAssumption DEF RegistryTypeOK
<1>5. OwedOK
  BY <1>0, <1>2 DEF OwedOK
<1>6. (\A t : DuePool(t) = {} /\ OfType(t) = {}) /\ (\A l : DueLabel(l) = {} /\ Announcing(l) = {})
  BY <1>0, <1>1, NothingOwed DEF OfType, Announcing
<1>7. SoundRing(EmptyRing) /\ Agrees(EmptyRing, {}, {})
  BY NewRing DEF Agrees
<1>8. PoolsOK
  BY <1>0, <1>6, <1>7 DEF PoolsOK
<1>9. \A l : RingIn(l) = EmptyRing
  BY <1>1 DEF RingIn
<1>10. LabelPoolsOK
  BY <1>1, <1>6, <1>7, <1>9 DEF LabelPoolsOK
<1> QED BY <1>4, <1>5, <1>8, <1>10 DEF RingsInv

-----------------------------------------------------------------------------
(* The steps of the registry.                                                *)

LEMMA RingsKept == ASSUME RingsInv, CallOK, [RegistryNext]_vars PROVE RingsInv'
<1>1. CASE \E i \in Instances, t \in Types, offer \in Offers, supports \in Support :
              Register(i, t, offer, supports)
  BY <1>1, RegisterRings
<1>2. CASE \E g \in DOMAIN entry : Deregister(g)
  BY <1>2, DeregisterRings
<1>3. CASE \E i \in Instances, announce, withdraw \in Offers : UpdateLabels(i, announce, withdraw)
  BY <1>3, UpdateRings
<1>4. CASE LeavePool \/ JoinPool \/ Unlock \/ Match
  BY <1>4, LeaveRings, JoinRings, UnlockRings, MatchRings
<1>5. CASE \E l \in Labels : DetachLabel(l) \/ AttachLabel(l)
  BY <1>5, DetachRings, AttachRings
<1>6. CASE \/ \E g \in retiring : MarkClosed(g)
           \/ CloseAll \/ AddInFlight
           \/ \E g \in DOMAIN entry : ReleaseInFlight(g)
           \/ \E q \in Requests : Look(q[1], q[2])
  BY <1>6, QuietRings
<1>7. CASE UNCHANGED vars
  <2>1. UNCHANGED <<generation, entry, entries, pools, labelPools, mu, ended, revisions, retiring, call>>
    BY <1>7 DEF vars, registryVars
  <2>2. entry' \in [Made -> EntryBound] /\ retiring' \subseteq Made /\ call' \in CallBound
        /\ call'.got \in Made \cup {0}
    BY <2>1 DEF RingsInv, RegistryTypeOK
  <2> QED BY <2>1, <2>2, EntryRings
<1> QED BY <1>1, <1>2, <1>3, <1>4, <1>5, <1>6, <1>7 DEF RegistryNext

\* A call keeps its ring: only the last withdrawal of a label drops it, and the
\* call is told.
LEMMA CallKept == ASSUME RingsInv, CallOK, [RegistryNext]_vars PROVE CallOK'
<1>0. /\ DOMAIN labelPools \subseteq Labels /\ call \in CallBound
      /\ Requests \subseteq Types \X (Labels \cup {NoLabel})
  BY RegistryAssumption DEF RingsInv, RegistryTypeOK
<1>1. ASSUME call' = call, DOMAIN labelPools \subseteq DOMAIN labelPools' PROVE CallOK'
  BY <1>1 DEF CallOK
<1>2. CASE UNCHANGED <<call, labelPools>>
  BY <1>1, <1>2
<1>3. CASE Match \/ AddInFlight
  <2>1. ASSUME Match PROVE call'.pc = "done"
    <3>1. PICK g : call' = [call EXCEPT !.pc = "done"] \/ call' = [call EXCEPT !.pc = "done", !.got = g]
      BY <2>1 DEF Match
    <3> QED BY <1>0, <3>1 DEF CallBound
  <2>2. ASSUME AddInFlight PROVE call'.pc = "idle"
    BY <2>2 DEF AddInFlight, NoCall
  <2> QED BY <1>3, <2>1, <2>2 DEF CallOK
<1>4. ASSUME NEW l \in Labels, DetachLabel(l) PROVE CallOK'
  <2>1. PICK d : /\ d = (call.dropped \/ (call.pc = "match" /\ call.label = l /\ l \notin DOMAIN labelPools'))
                 /\ call' = [call EXCEPT !.dropped = d]
    BY <1>4 DEF DetachLabel
  <2>2. /\ call'.pc = call.pc /\ call'.type = call.type /\ call'.label = call.label
        /\ call'.got = call.got /\ call'.dropped = d
    BY <1>0, <2>1 DEF CallBound
  <2>3. DOMAIN labelPools \ {l} \subseteq DOMAIN labelPools'
    BY <1>0, <1>4 DEF DetachLabel, WithoutEmpty
  <2>4. ASSUME call'.pc = "match" PROVE call'.type \in Types /\ call'.got = 0
    BY <2>2, <2>4 DEF CallOK
  <2>5. ASSUME call'.pc = "match", ~call'.dropped, call'.label # NoLabel
        PROVE  call'.label \in DOMAIN labelPools'
    <3>1. ~d
      BY <2>2, <2>5
    <3>2. ~call.dropped /\ ~(call.pc = "match" /\ call.label = l /\ l \notin DOMAIN labelPools')
      BY <2>1, <3>1, Zenon
    <3> QED BY <2>2, <2>3, <2>5, <3>2 DEF CallOK
  <2> QED BY <2>4, <2>5, Zenon DEF CallOK
<1>5. ASSUME NEW l \in Labels, AttachLabel(l) PROVE CallOK'
  BY <1>1, <1>5 DEF AttachLabel
<1>6. ASSUME NEW q \in Requests, Look(q[1], q[2]) PROVE CallOK'
  <2>1. PICK d : /\ d = (q[2] # NoLabel /\ q[2] \notin DOMAIN labelPools)
                 /\ call' = [pc |-> "match", type |-> q[1], label |-> q[2], got |-> 0, dropped |-> d]
    BY <1>6 DEF Look
  <2>2. call'.dropped = d /\ call'.type \in Types /\ call'.label = q[2] /\ call'.got = 0
        /\ labelPools' = labelPools
    BY <1>0, <1>6, <2>1 DEF Look, registryVars
  <2>3. ~d => q[2] = NoLabel \/ q[2] \in DOMAIN labelPools
    BY <2>1, Zenon
  <2> QED BY <2>2, <2>3 DEF CallOK
<1>7. CASE \/ \E i \in Instances, t \in Types, offer \in Offers, supports \in Support :
                Register(i, t, offer, supports)
           \/ \E g \in DOMAIN entry : Deregister(g) \/ ReleaseInFlight(g)
           \/ \E i \in Instances, announce, withdraw \in Offers : UpdateLabels(i, announce, withdraw)
           \/ LeavePool \/ JoinPool \/ Unlock \/ CloseAll
           \/ \E g \in retiring : MarkClosed(g)
           \/ UNCHANGED vars
  <2>1. UNCHANGED <<call, labelPools>>
    BY ZenonT(60), <1>7 DEF Register, Deregister, ReleaseInFlight, UpdateLabels, LeavePool, JoinPool, Unlock,
                CloseAll, MarkClosed, vars, registryVars
  <2> QED BY <1>2, <2>1
<1> QED BY <1>3, <1>4, <1>5, <1>6, <1>7 DEF RegistryNext

\* A ring that agrees with the entries holds what it should.
LEMMA AgreesHolds ==
    ASSUME NEW r, SoundRing(r), NEW W, Agrees(r, W, {})
    PROVE  Holds(r, W)
<1>1. RingMembers(r) = W /\ \A i \in W : Value(r, i) = entries[i]
  BY DEF Agrees
<1>2. \A n \in DOMAIN r.entries : r.entries[n].value = entries[r.entries[n].key]
  <2> TAKE n \in DOMAIN r.entries
  <2>1. r.entries[n].key \in RingMembers(r) /\ Value(r, r.entries[n].key) = r.entries[n].value
    BY RingShape
  <2> QED BY <1>1, <2>1
<1> QED BY <1>1, <1>2 DEF Holds, SoundRing

LEMMA RingsGiveAgreement == ASSUME RingsInv PROVE RingsAgree
<1> SUFFICES ASSUME mu = Free
             PROVE  /\ \A t \in Types : Holds(pools[t], OfType(t))
                    /\ \A l \in Labels : Holds(RingIn(l), Announcing(l))
                    /\ \A l \in DOMAIN labelPools : RingLen(labelPools[l]) > 0
  BY DEF RingsAgree, OfType, Announcing
<1>1. \A t \in Types : Holds(pools[t], OfType(t))
  BY NothingOwed, AgreesHolds DEF RingsInv, PoolsOK
<1>2. \A l \in Labels : Holds(RingIn(l), Announcing(l))
  BY NothingOwed, AgreesHolds DEF RingsInv, LabelPoolsOK
<1> QED BY <1>1, <1>2 DEF RingsInv, LabelPoolsOK

\* Whenever no operation holds the registry's lock, every type's ring holds
\* exactly the live entries of the type and every label's ring the live entries
\* announcing it, whatever registrations, label updates and departures displaced
\* each other before.
THEOREM RingSafety == RegistrySpec => []RingsAgree
<1>1. RegistryInit => RingsInv /\ CallOK
  BY FirstRings DEF RegistryInit, CallOK, NoCall
<1>2. RingsInv /\ CallOK /\ [RegistryNext]_vars => RingsInv' /\ CallOK'
  BY RingsKept, CallKept
<1>3. RingsInv => RingsAgree
  BY RingsGiveAgreement
<1> QED BY <1>1, <1>2, <1>3, PTL DEF RegistrySpec

-----------------------------------------------------------------------------
(* The newest registration.                                                  *)

LEMMA NewestKept == ASSUME RingsInv, NewestStaysRegistered, [RegistryNext]_vars PROVE NewestStaysRegistered'
<1>0. /\ generation \in Nat /\ entry \in [Made -> EntryBound]
      /\ \A x \in DOMAIN entries : entries[x] \in Made /\ entry[entries[x]].inst = x
  BY DEF RingsInv, RegistryTypeOK
<1>1. ASSUME DOMAIN entry' = DOMAIN entry, \A g \in Made : entry'[g].inst = entry[g].inst,
             UNCHANGED <<entries, ended>>
      PROVE  NewestStaysRegistered'
  BY <1>0, <1>1 DEF NewestStaysRegistered
<1>2. ASSUME NEW i \in Instances, NEW t \in Types, NEW offer \in Offers, NEW supports \in Support,
             Register(i, t, offer, supports)
      PROVE  NewestStaysRegistered'
  <2>1. PICK n, fresh :
           /\ n = generation + 1 /\ fresh.inst = i
           /\ entry' = [x \in 1 .. n |-> IF x = n THEN fresh ELSE entry[x]]
           /\ entries' = [x \in DOMAIN entries \cup {i} |-> IF x = i THEN n ELSE entries[x]]
           /\ ended' = ended
    <3>1. PICK fresh : fresh = [inst |-> i, type |-> t, labels |-> Announced(offer),
                                supports |-> supports, closed |-> FALSE, inFlight |-> 0]
      OBVIOUS
    <3> QED BY <1>2, <3>1 DEF Register
  <2>2. /\ DOMAIN entry' = Made \cup {n} /\ entry'[n].inst = i /\ n \notin Made
        /\ \A x \in Made : entry'[x] = entry[x] /\ x < n
    BY <1>0, <2>1 DEF Made
  <2>3. ASSUME NEW g \in DOMAIN entry' \ ended,
               \A h \in DOMAIN entry' : entry'[h].inst = entry'[g].inst => h <= g
        PROVE  entry'[g].inst \in DOMAIN entries' /\ entries'[entry'[g].inst] = g
    <3>1. CASE g = n
      BY <2>1, <2>2, <3>1
    <3>2. CASE g \in Made
      <4>1. entry'[g].inst # i
        BY SMTT(30), <1>0, <2>1, <2>2, <2>3, <3>2 DEF Made
      <4>2. entry[g].inst \in DOMAIN entries /\ entries[entry[g].inst] = g
        BY <1>0, <2>2, <2>3, <3>2 DEF NewestStaysRegistered
      <4> QED BY <2>1, <2>2, <3>2, <4>1, <4>2
    <3> QED BY <2>2, <3>1, <3>2
  <2> QED BY <2>1, <2>3 DEF NewestStaysRegistered
<1>3. ASSUME NEW g \in DOMAIN entry, Deregister(g) PROVE NewestStaysRegistered'
  <2>1. ended' = ended \cup {g} /\ entry' = entry
    BY <1>3 DEF Deregister
  <2>2. CASE ~StillLive(g)
    BY <1>3, <2>1, <2>2 DEF Deregister, NewestStaysRegistered
  <2>3. CASE StillLive(g)
    <3>1. PICK i : i = entry[g].inst
      OBVIOUS
    <3>2. entries' = [x \in DOMAIN entries \ {i} |-> entries[x]] /\ entries[i] = g
      BY <1>3, <2>3, <3>1 DEF Deregister, StillLive
    <3> QED BY <2>1, <3>1, <3>2 DEF NewestStaysRegistered
  <2> QED BY <2>2, <2>3
<1>4. ASSUME NEW i \in Instances, NEW announce \in Offers, NEW withdraw \in Offers,
             UpdateLabels(i, announce, withdraw)
      PROVE  NewestStaysRegistered'
  <2>1. PICK g \in Made : \E desired : entry' = [entry EXCEPT ![g].labels = desired]
    BY <1>0, <1>4 DEF UpdateLabels
  <2>2. DOMAIN entry' = DOMAIN entry /\ \A x \in Made : entry'[x].inst = entry[x].inst
    BY <1>0, <2>1 DEF EntryBound
  <2> QED BY <1>1, <1>4, <2>2 DEF UpdateLabels
<1>5. CASE \/ LeavePool \/ JoinPool \/ Unlock \/ CloseAll \/ Match
           \/ \E l \in Labels : DetachLabel(l) \/ AttachLabel(l)
           \/ \E q \in Requests : Look(q[1], q[2])
           \/ UNCHANGED vars
  <2>1. UNCHANGED <<entry, entries, ended>>
    BY <1>5 DEF LeavePool, JoinPool, Unlock, CloseAll, Match, DetachLabel, AttachLabel, Look, vars, registryVars
  <2> QED BY <1>1, <2>1
<1>6. CASE (\E g \in retiring : MarkClosed(g)) \/ AddInFlight \/ (\E g \in DOMAIN entry : ReleaseInFlight(g))
  <2>1. UNCHANGED <<entries, ended>>
    BY <1>6 DEF MarkClosed, AddInFlight, ReleaseInFlight
  <2>2. DOMAIN entry' = DOMAIN entry /\ \A x \in Made : entry'[x].inst = entry[x].inst
    BY <1>0, <1>6 DEF MarkClosed, AddInFlight, ReleaseInFlight, EntryBound
  <2> QED BY <1>1, <2>1, <2>2
<1> QED BY <1>2, <1>3, <1>4, <1>5, <1>6 DEF RegistryNext

\* The newest connection of an instance stays registered until its own reader
\* deregisters it: a late deregistration of a displaced one takes nothing away.
THEOREM NewestSafety == RegistrySpec => []NewestStaysRegistered
<1>1. RegistryInit => RingsInv /\ CallOK /\ NewestStaysRegistered
  BY FirstRings DEF RegistryInit, CallOK, NoCall, NewestStaysRegistered
<1>2. RingsInv /\ CallOK /\ NewestStaysRegistered /\ [RegistryNext]_vars
        => RingsInv' /\ CallOK' /\ NewestStaysRegistered'
  BY RingsKept, CallKept, NewestKept
<1> QED BY <1>1, <1>2, PTL DEF RegistrySpec

-----------------------------------------------------------------------------
(* The selection.                                                            *)

\* A running selection holds a sound ring, and what stands in it was registered.
LEMMA RingOfCall ==
    ASSUME RingsInv, CallOK, call.pc = "match"
    PROVE  /\ SoundRing(Ring)
           /\ \A i \in RingMembers(Ring) : i \in Instances /\ Value(Ring, i) \in Made
           /\ \A i \in RingMembers(Ring) :
                 \/ i \in DOMAIN entries /\ Value(Ring, i) = entries[i]
                 \/ mu.gen # 0 /\ i = entry[mu.gen].inst /\ Value(Ring, i) \in {mu.gen, mu.close} \ {0}
<1>0. /\ \A i \in DOMAIN entries : entries[i] \in Made
      /\ mu.gen \in Made \cup {0} /\ mu.close \in Made \cup {0} /\ call \in CallBound
      /\ DOMAIN labelPools \subseteq Labels
  BY DEF RingsInv, RegistryTypeOK
<1>1. ASSUME NEW r, NEW W, NEW D, SoundRing(r), Agrees(r, W, D), W \subseteq DOMAIN entries,
             D \subseteq IF mu.gen # 0 THEN {entry[mu.gen].inst} ELSE {}
      PROVE  /\ \A i \in RingMembers(r) : i \in Instances /\ Value(r, i) \in Made
             /\ \A i \in RingMembers(r) :
                   \/ i \in DOMAIN entries /\ Value(r, i) = entries[i]
                   \/ mu.gen # 0 /\ i = entry[mu.gen].inst /\ Value(r, i) \in {mu.gen, mu.close} \ {0}
  <2>1. RingMembers(r) \subseteq Instances
    BY <1>1, RingShape
  <2>2. ASSUME NEW i \in RingMembers(r), i \notin D
        PROVE  i \in DOMAIN entries /\ Value(r, i) = entries[i]
    BY <1>1, <2>2 DEF Agrees
  <2>3. ASSUME NEW i \in RingMembers(r), i \in D
        PROVE  mu.gen # 0 /\ i = entry[mu.gen].inst /\ Value(r, i) \in {mu.gen, mu.close} \ {0}
    BY <1>1, <2>3 DEF Agrees
  <2> QED BY <1>0, <2>1, <2>2, <2>3
<1>2. CASE call.dropped
  BY <1>2, NewRing DEF Ring
<1>3. CASE ~call.dropped /\ call.label = NoLabel
  <2>1. PICK t \in Types : t = call.type
    BY DEF CallOK
  <2>2. Ring = pools[t]
    BY <1>3, <2>1 DEF Ring
  <2>3. SoundRing(pools[t]) /\ Agrees(pools[t], OfType(t), DuePool(t))
    BY DEF RingsInv, PoolsOK
  <2>4. OfType(t) \subseteq DOMAIN entries /\ DuePool(t) \subseteq IF mu.gen # 0 THEN {entry[mu.gen].inst} ELSE {}
    BY DEF OfType, DuePool
  <2> QED BY <1>1, <2>2, <2>3, <2>4
<1>4. CASE ~call.dropped /\ call.label # NoLabel
  <2>1. PICK l \in Labels : l = call.label /\ l \in DOMAIN labelPools
    BY <1>0, <1>4 DEF CallOK
  <2>2. Ring = RingIn(l)
    BY <1>4, <2>1 DEF Ring, RingIn
  <2>3. SoundRing(RingIn(l)) /\ Agrees(RingIn(l), Announcing(l), DueLabel(l))
    BY DEF RingsInv, LabelPoolsOK
  <2>4. Announcing(l) \subseteq DOMAIN entries /\ DueLabel(l) \subseteq IF mu.gen # 0 THEN {entry[mu.gen].inst} ELSE {}
    BY DEF Announcing, DueLabel
  <2> QED BY <1>1, <2>2, <2>3, <2>4
<1> QED BY <1>2, <1>3, <1>4

\* Who is eligible is registered, and routable with capacity.
LEMMA EligibleEntry ==
    ASSUME RegistryTypeOK, NEW i \in Eligible
    PROVE  /\ i \in DOMAIN entries /\ entries[i] \in Routable /\ i \notin Joining
           /\ entry[entries[i]].supports /\ HasCapacity(entries[i])
BY DEF RegistryTypeOK, Eligible, Routable

\* The selection goes on, on the same ring: an entry that was fit to be taken
\* must not have been closed.
LEMMA SameRing ==
    ASSUME RingsInv, CallOK, OfferedOK, SteadyOK, Watch, call.pc = "match", call'.pc = "match",
           call'.type = call.type, call'.label = call.label, Ring' = Ring,
           entry \in [Made -> EntryBound],
           \A g \in Made : /\ g \in DOMAIN entry' /\ entry'[g].type = entry[g].type
                           /\ entry'[g].supports = entry[g].supports
                           /\ entry[g].closed => entry'[g].closed
                           /\ entry'[g].inFlight \in Nat /\ entry'[g].inFlight <= entry[g].inFlight,
           \A i \in steady \cap Eligible' : ~entry'[Value(Ring, i)].closed
    PROVE  OfferedOK' /\ SteadyOK'
<1>1. offered \subseteq offered' /\ steady' = steady \cap Eligible'
  BY DEF Watch
<1>2. PICK r : r = Ring /\ r = Ring'
  OBVIOUS
<1>3. \A i \in RingMembers(r) : Value(r, i) \in Made
  BY <1>2, RingOfCall
<1>4. ASSUME NEW i \in RingMembers(r), ~entry'[Value(r, i)].closed,
             call'.label = NoLabel \/ entry'[Value(r, i)].type = call'.type
      PROVE  Value(r, i) \in offered'
  BY <1>1, <1>2, <1>3, <1>4 DEF OfferedOK
<1>5. OfferedOK'
  BY <1>2, <1>4 DEF OfferedOK, RingMembers, Value, At
<1>6. ASSUME NEW i \in steady'
      PROVE  i \in RingMembers(r) /\ Value(r, i) \in Candidates'
  <2>1. i \in steady /\ i \in RingMembers(r) /\ Value(r, i) \in Candidates
    BY <1>1, <1>2 DEF SteadyOK
  <2>2. PICK g \in Made : g = Value(r, i)
    BY <1>3, <2>1
  <2>3. /\ entry[g].supports /\ HasCapacity(g) /\ (call.label = NoLabel \/ entry[g].type = call.type)
        /\ ~entry'[g].closed /\ entry[g].inFlight \in Nat /\ entry'[g].inFlight <= entry[g].inFlight
        /\ entry'[g].inFlight \in Nat
    BY <1>1, <1>2, <1>6, <2>1, <2>2 DEF Candidates, EntryBound
  <2>4. HasCapacity(g)'
    BY <2>3, RegistryAssumption DEF HasCapacity
  <2> QED BY <2>1, <2>2, <2>3, <2>4 DEF Candidates
<1>7. SteadyOK'
  BY <1>1, <1>2, <1>6 DEF SteadyOK, RingMembers, Value, At
<1> QED BY <1>5, <1>7

\* The selection goes on while its ring loses or gains one key.
LEMMA RevisedRing ==
    ASSUME RingsInv, CallOK, OfferedOK, SteadyOK, Watch, call.pc = "match", call'.pc = "match",
           call'.type = call.type, call'.label = call.label,
           UNCHANGED <<entry, entries>>, mu'.gen = mu.gen, mu'.close = mu.close,
           NEW r, NEW q, r = Ring, q = Ring', NEW k,
           \A i : i # k => /\ i \in RingMembers(q) <=> i \in RingMembers(r)
                           /\ i \in RingMembers(q) => Value(q, i) = Value(r, i),
           k \in RingMembers(q) =>
              /\ k \in DOMAIN entries /\ Value(q, k) = entries[k]
              /\ call.label = NoLabel => entry[entries[k]].type = call.type
              /\ call.label # NoLabel => call.label \in entry[entries[k]].labels,
           k \notin RingMembers(q) => k \notin Eligible
    PROVE  OfferedOK' /\ SteadyOK'
<1>1. Routable' = Routable /\ Eligible' = Eligible /\ Candidates' = Candidates
  BY DEF Routable, Eligible, Joining, Candidates, HasCapacity
<1>2. offered' = offered \cup Routable /\ steady' = steady \cap Eligible
  BY <1>1 DEF Watch
<1>3. ASSUME NEW i \in RingMembers(q), ~entry[Value(q, i)].closed,
             call.label = NoLabel \/ entry[Value(q, i)].type = call.type
      PROVE  Value(q, i) \in offered'
  <2>1. CASE i # k
    BY <1>2, <1>3, <2>1 DEF OfferedOK
  <2>2. CASE i = k
    <3>1. Value(q, k) \in Routable
      BY <1>3, <2>2 DEF Routable
    <3> QED BY <1>2, <2>2, <3>1
  <2> QED BY <2>1, <2>2
<1>4. OfferedOK'
  BY <1>3 DEF OfferedOK, RingMembers, Value, At
<1>5. ASSUME NEW i \in steady'
      PROVE  i \in RingMembers(q) /\ Value(q, i) \in Candidates
  <2>1. i \in steady /\ i \in Eligible /\ i \in RingMembers(r) /\ Value(r, i) \in Candidates
    BY <1>2, <1>5 DEF SteadyOK
  <2>2. CASE i # k
    BY <2>1, <2>2
  <2>3. CASE i = k
    <3>1. k \in RingMembers(q) /\ Value(q, k) = entries[k]
      BY <2>1, <2>3
    <3>2. entries[k] \in Routable /\ entry[entries[k]].supports /\ HasCapacity(entries[k])
          /\ entries[k] \in DOMAIN entry
      BY <2>1, <2>3, EligibleEntry DEF RingsInv, RegistryTypeOK
    <3> QED BY <2>3, <3>1, <3>2 DEF Candidates, Routable
  <2> QED BY <2>2, <2>3
<1>6. SteadyOK'
  BY <1>1, <1>2, <1>5 DEF SteadyOK, RingMembers, Value, At
<1> QED BY <1>4, <1>6

\* An operation that does not touch the rings, nor close an entry, nor book one.
LEMMA RingLeftAlone ==
    ASSUME RingsInv, CallOK, OfferedOK, SteadyOK, Watch, UNCHANGED <<pools, labelPools, call>>,
           \A g \in Made : /\ g \in DOMAIN entry' /\ entry'[g].type = entry[g].type
                           /\ entry'[g].supports = entry[g].supports
                           /\ entry'[g].closed = entry[g].closed
                           /\ entry'[g].inFlight \in Nat /\ entry'[g].inFlight <= entry[g].inFlight
    PROVE  OfferedOK' /\ SteadyOK'
<1>1. CASE call.pc # "match"
  BY <1>1 DEF OfferedOK, SteadyOK
<1>2. CASE call.pc = "match"
  <2>1. Ring' = Ring
    BY DEF Ring
  <2>2. entry \in [Made -> EntryBound]
    BY DEF RingsInv, RegistryTypeOK
  <2>3. \A i \in steady : Value(Ring, i) \in Made /\ ~entry[Value(Ring, i)].closed
    BY <1>2, <2>2 DEF SteadyOK, Candidates
  <2> QED BY <1>2, <2>1, <2>2, <2>3, SameRing
<1> QED BY <1>1, <1>2

LEMMA EntriesSelection ==
    ASSUME RingsInv, CallOK, OfferedOK, SteadyOK,
           \/ \E i \in Instances, t \in Types, offer \in Offers, supports \in Support :
                 Register(i, t, offer, supports)
           \/ \E g \in DOMAIN entry : Deregister(g) \/ ReleaseInFlight(g)
           \/ \E i \in Instances, announce, withdraw \in Offers : UpdateLabels(i, announce, withdraw)
           \/ Unlock \/ CloseAll
    PROVE  OfferedOK' /\ SteadyOK'
<1>0. /\ generation \in Nat /\ entry \in [Made -> EntryBound]
      /\ \A g \in Made : entry[g] \in EntryBound /\ entry[g].inFlight \in Nat
  BY DEF RingsInv, RegistryTypeOK, EntryBound
<1>1. UNCHANGED <<pools, labelPools, call>> /\ Watch
  BY ZenonT(60) DEF Register, Deregister, ReleaseInFlight, UpdateLabels, Unlock, CloseAll
<1>2. CASE \E i \in Instances, t \in Types, offer \in Offers, supports \in Support :
              Register(i, t, offer, supports)
  <2>1. PICK n, fresh : n = generation + 1 /\ entry' = [x \in 1 .. n |-> IF x = n THEN fresh ELSE entry[x]]
    BY <1>2 DEF Register
  <2>2. \A g \in Made : g \in DOMAIN entry' /\ entry'[g] = entry[g]
    BY <1>0, <2>1 DEF Made
  <2> QED BY <1>0, <1>1, <2>2, RingLeftAlone
<1>3. CASE \E g \in DOMAIN entry : ReleaseInFlight(g)
  <2>1. PICK g \in Made : ReleaseInFlight(g)
    BY <1>0, <1>3
  <2>2. PICK n : n = entry[g].inFlight - 1
    OBVIOUS
  <2>3. entry' = [entry EXCEPT ![g].inFlight = n] /\ n \in Nat /\ n <= entry[g].inFlight
    BY <1>0, <2>1, <2>2 DEF ReleaseInFlight
  <2>4. /\ entry' \in [Made -> EntryBound]
        /\ \A x \in Made : entry'[x].type = entry[x].type /\ entry'[x].supports = entry[x].supports
                           /\ entry'[x].closed = entry[x].closed
        /\ \A x \in Made \ {g} : entry'[x] = entry[x]
        /\ entry'[g].inFlight = n
    BY <1>0, <2>3, EntryBooked
  <2>5. \A x \in Made : entry'[x].inFlight \in Nat /\ entry'[x].inFlight <= entry[x].inFlight
    BY <1>0, <2>3, <2>4
  <2> QED BY <1>0, <1>1, <2>4, <2>5, RingLeftAlone
<1>4. CASE \E i \in Instances, announce, withdraw \in Offers : UpdateLabels(i, announce, withdraw)
  <2>1. PICK g \in Made : \E desired : entry' = [entry EXCEPT ![g].labels = desired]
    BY <1>0, <1>4 DEF UpdateLabels, RingsInv, RegistryTypeOK
  <2>2. \A x \in Made : /\ x \in DOMAIN entry' /\ entry'[x].type = entry[x].type
                        /\ entry'[x].supports = entry[x].supports
                        /\ entry'[x].closed = entry[x].closed
                        /\ entry'[x].inFlight = entry[x].inFlight
    BY <1>0, <2>1 DEF EntryBound
  <2> QED BY <1>0, <1>1, <2>2, RingLeftAlone
<1>5. CASE (\E g \in DOMAIN entry : Deregister(g)) \/ Unlock \/ CloseAll
  <2>1. entry' = entry
    BY <1>5 DEF Deregister, Unlock, CloseAll
  <2> QED BY <1>0, <1>1, <2>1, RingLeftAlone
<1> QED BY <1>2, <1>3, <1>4, <1>5

\* An entry is marked closed: an instance that was eligible all along has
\* registered again, and counts only once the old entry has left.
LEMMA ClosedSelection ==
    ASSUME RingsInv, CallOK, OfferedOK, SteadyOK, NEW c \in retiring, MarkClosed(c)
    PROVE  OfferedOK' /\ SteadyOK'
<1>0. /\ entry \in [Made -> EntryBound] /\ c \in Made
      /\ \A i \in DOMAIN entries : entries[i] \in Made /\ entry[entries[i]].inst = i
      /\ entry' = [entry EXCEPT ![c].closed = TRUE]
      /\ UNCHANGED <<entries, pools, labelPools, mu, call>> /\ Watch
  BY DEF RingsInv, RegistryTypeOK, MarkClosed
<1>1. /\ entry' \in [Made -> EntryBound]
      /\ \A x \in Made : entry'[x].inst = entry[x].inst /\ entry'[x].type = entry[x].type
                         /\ entry'[x].supports = entry[x].supports
                         /\ entry'[x].inFlight = entry[x].inFlight
      /\ \A x \in Made \ {c} : entry'[x] = entry[x]
      /\ entry'[c].closed = TRUE
  <2>1. TRUE \in BOOLEAN
    OBVIOUS
  <2> QED BY <1>0, <2>1, EntryClosed
<1>2. CASE call.pc # "match"
  BY <1>0, <1>2 DEF OfferedOK, SteadyOK
<1>3. CASE call.pc = "match"
  <2>1. Ring' = Ring
    BY <1>0 DEF Ring
  <2>2. ASSUME NEW i \in steady \cap Eligible'
        PROVE  ~entry'[Value(Ring, i)].closed
    <3>1. i \in RingMembers(Ring) /\ Value(Ring, i) \in Candidates /\ Value(Ring, i) \in Made
      BY <1>3, <1>0 DEF SteadyOK, Candidates
    <3>2. CASE Value(Ring, i) # c
      BY <1>1, <3>1, <3>2 DEF Candidates
    <3>3. CASE Value(Ring, i) = c
      <4>1. PICK x \in DOMAIN entries : /\ entry'[entries[x]].inst = i /\ ~entry'[entries[x]].closed
                                        /\ i \notin Joining'
        BY <1>0 DEF Eligible, Routable
      <4>2. x = i /\ entries[i] # c
        BY <1>0, <1>1, <4>1
      <4>3. mu.gen # 0 /\ i = entry[mu.gen].inst /\ c \in {mu.gen, mu.close} \ {0}
        BY <1>3, <3>1, <3>3, <4>2, RingOfCall
      <4>4. mu.gen = entries[i] /\ mu.gen \in Made
        BY <1>0, <4>1, <4>2, <4>3, HolderKnows
      <4>5. mu.close = c /\ c # 0
        BY <4>2, <4>3, <4>4
      <4>6. i \in Joining'
        <5>1. mu'.gen = mu.gen /\ mu'.close = mu.close
          BY <1>0
        <5>2. entry'[mu.gen].inst = i
          BY <1>1, <4>3, <4>4
        <5>3. entry'[mu.close].closed
          BY <1>1, <4>5
        <5> QED BY <4>5, <5>1, <5>2, <5>3 DEF Joining
      <4> QED BY <4>1, <4>6
    <3> QED BY <3>2, <3>3
  <2>3. \A x \in Made : /\ x \in DOMAIN entry' /\ (entry[x].closed => entry'[x].closed)
                        /\ entry'[x].inFlight \in Nat /\ entry'[x].inFlight <= entry[x].inFlight
    BY <1>0, <1>1 DEF EntryBound
  <2> QED BY <1>0, <1>1, <1>3, <2>1, <2>2, <2>3, SameRing
<1> QED BY <1>2, <1>3

\* Nobody leaves a ring it is eligible in.
LEMMA LeaveSelection == ASSUME RingsInv, CallOK, OfferedOK, SteadyOK, LeavePool PROVE OfferedOK' /\ SteadyOK'
<1>c. PICK i, t0 : i = entry[mu.gen].inst /\ t0 = mu.leave
  OBVIOUS
<1>0. /\ mu.gen # 0 /\ mu.leave # NoType /\ t0 \in Types
      /\ mu' = [mu EXCEPT !.leave = NoType] /\ pools' = [pools EXCEPT ![t0] = RingRemove(@, i)]
      /\ UNCHANGED <<entry, entries, labelPools, call>> /\ Watch
      /\ pools \in [Types -> RingBound] /\ mu \in HolderBound
  BY <1>c, NothingOwed DEF LeavePool, RingsInv, OwedOK, RegistryTypeOK, HolderBound
<1>1. mu'.gen = mu.gen /\ mu'.close = mu.close
  BY <1>0 DEF HolderBound
<1>2. CASE call.pc # "match"
  BY <1>0, <1>2 DEF OfferedOK, SteadyOK
<1>3. CASE call.pc = "match"
  <2>1. PICK r, q : r = Ring /\ q = Ring'
    OBVIOUS
  <2>2. CASE call.dropped \/ call.label # NoLabel \/ call.type # t0
    <3>1. q = r
      BY <1>0, <1>3, <2>1, <2>2 DEF Ring, CallOK
    <3>2. entry \in [Made -> EntryBound] /\ \A g \in Made : entry[g].inFlight \in Nat
      BY DEF RingsInv, RegistryTypeOK, EntryBound
    <3>3. \A x \in steady : ~entry'[Value(Ring, x)].closed
      BY <1>0, <1>3 DEF SteadyOK, Candidates
    <3> QED BY <1>0, <1>3, <2>1, <3>1, <3>2, <3>3, SameRing
  <2>3. CASE ~call.dropped /\ call.label = NoLabel /\ call.type = t0
    <3>1. r = pools[t0] /\ q = RingRemove(r, i)
      BY <1>0, <2>1, <2>3 DEF Ring
    <3>2. SoundRing(r)
      BY <1>3, <2>1, RingOfCall
    <3>3. /\ RingMembers(q) = RingMembers(r) \ {i}
          /\ \A x \in RingMembers(q) : Value(q, x) = Value(r, x)
      BY <3>1, <3>2, RemoveRing
    <3>4. i \notin Eligible
      <4>1. i \in DOMAIN entries => entry[entries[i]].type # t0
        BY <1>0, <1>c, HolderKnows
      <4> QED BY <2>3, <4>1, EligibleEntry DEF RingsInv, Routable
    <3> QED BY <1>0, <1>1, <1>3, <2>1, <3>3, <3>4, RevisedRing
  <2> QED BY <2>2, <2>3
<1> QED BY <1>2, <1>3

LEMMA JoinSelection == ASSUME RingsInv, CallOK, OfferedOK, SteadyOK, JoinPool PROVE OfferedOK' /\ SteadyOK'
<1>c. PICK i, t0 : i = entry[mu.gen].inst /\ t0 = entry[mu.gen].type
  OBVIOUS
<1>0. /\ mu.gen # 0 /\ mu.join
      /\ mu' = [mu EXCEPT !.join = FALSE] /\ pools' = [pools EXCEPT ![t0] = RingUpsert(@, i, mu.gen)]
      /\ UNCHANGED <<entry, entries, labelPools, call>> /\ Watch
      /\ pools \in [Types -> RingBound] /\ mu \in HolderBound
  BY <1>c, NothingOwed DEF JoinPool, RingsInv, OwedOK, RegistryTypeOK
<1>1. mu'.gen = mu.gen /\ mu'.close = mu.close
  BY <1>0 DEF HolderBound
<1>k. t0 \in Types /\ i \in Instances /\ mu.gen \in Nat /\ i \in DOMAIN entries /\ entries[i] = mu.gen
  BY <1>0, <1>c, HolderKnows
<1>2. CASE call.pc # "match"
  BY <1>0, <1>2 DEF OfferedOK, SteadyOK
<1>3. CASE call.pc = "match"
  <2>1. PICK r, q : r = Ring /\ q = Ring'
    OBVIOUS
  <2>2. CASE call.dropped \/ call.label # NoLabel \/ call.type # t0
    <3>1. q = r
      BY <1>0, <1>3, <2>1, <2>2 DEF Ring, CallOK
    <3>2. entry \in [Made -> EntryBound] /\ \A g \in Made : entry[g].inFlight \in Nat
      BY DEF RingsInv, RegistryTypeOK, EntryBound
    <3>3. \A x \in steady : ~entry'[Value(Ring, x)].closed
      BY <1>0, <1>3 DEF SteadyOK, Candidates
    <3> QED BY <1>0, <1>3, <2>1, <3>1, <3>2, <3>3, SameRing
  <2>3. CASE ~call.dropped /\ call.label = NoLabel /\ call.type = t0
    <3>1. r = pools[t0] /\ q = RingUpsert(r, i, mu.gen)
      BY <1>0, <1>k, <2>1, <2>3 DEF Ring
    <3>2. SoundRing(r)
      BY <1>3, <2>1, RingOfCall
    <3>3. /\ RingMembers(q) = RingMembers(r) \cup {i} /\ Value(q, i) = mu.gen
          /\ \A x \in RingMembers(r) \ {i} : Value(q, x) = Value(r, x)
      BY <1>k, <3>1, <3>2, UpsertRing
    <3>4. entry[entries[i]].type = call.type
      BY <1>c, <1>k, <2>3
    <3> QED BY <1>0, <1>1, <1>3, <1>k, <2>1, <2>3, <3>3, <3>4, RevisedRing
  <2> QED BY <2>2, <2>3
<1> QED BY <1>2, <1>3

LEMMA DetachSelection ==
    ASSUME RingsInv, CallOK, OfferedOK, SteadyOK, NEW l \in Labels, DetachLabel(l)
    PROVE  OfferedOK' /\ SteadyOK'
<1>c. PICK i, d : /\ i = entry[mu.gen].inst
                  /\ d = (call.dropped \/ (call.pc = "match" /\ call.label = l /\ l \notin DOMAIN labelPools'))
  OBVIOUS
<1>0. /\ mu.gen # 0 /\ l \in mu.drop
      /\ mu' = [mu EXCEPT !.drop = @ \ {l}]
      /\ l \in DOMAIN labelPools => labelPools' = WithoutEmpty(l, RingRemove(labelPools[l], i))
      /\ l \notin DOMAIN labelPools => labelPools' = labelPools
      /\ call' = [call EXCEPT !.dropped = d]
      /\ UNCHANGED <<entry, entries, pools>> /\ Watch
      /\ mu \in HolderBound /\ call \in CallBound
  BY <1>c, NothingOwed DEF DetachLabel, RingsInv, OwedOK, RegistryTypeOK
<1>1. mu'.gen = mu.gen /\ mu'.close = mu.close
  BY <1>0 DEF HolderBound
<1>d. call'.pc = call.pc /\ call'.type = call.type /\ call'.label = call.label /\ call'.dropped = d
  BY <1>0 DEF CallBound
<1>2. CASE call.pc # "match"
  BY <1>d, <1>2 DEF OfferedOK, SteadyOK
<1>3. CASE call.pc = "match"
  <2>1. PICK r, q : r = Ring /\ q = Ring'
    OBVIOUS
  <2>d. /\ call.dropped => d
        /\ ~call.dropped /\ call.label # l => ~d
        /\ ~call.dropped /\ call.label = l => (d <=> l \notin DOMAIN labelPools')
    BY <1>c, <1>3, Zenon
  <2>2. CASE call.dropped \/ call.label # l
    <3>1. ~call.dropped /\ call.label # NoLabel =>
             call.label \in DOMAIN labelPools /\ labelPools'[call.label] = labelPools[call.label]
      BY <1>0, <1>3, <2>2 DEF CallOK, WithoutEmpty
    <3>2. q = r
      BY <1>0, <1>d, <2>1, <2>2, <2>d, <3>1 DEF Ring
    <3>3. entry \in [Made -> EntryBound] /\ \A g \in Made : entry[g].inFlight \in Nat
      BY DEF RingsInv, RegistryTypeOK, EntryBound
    <3>4. \A x \in steady : ~entry'[Value(Ring, x)].closed
      BY <1>0, <1>3 DEF SteadyOK, Candidates
    <3> QED BY <1>0, <1>3, <1>d, <2>1, <3>2, <3>3, <3>4, SameRing
  <2>3. CASE ~call.dropped /\ call.label = l
    <3>0. l # NoLabel /\ l \in DOMAIN labelPools
      BY <1>3, <2>3, RegistryAssumption DEF CallOK
    <3>1. PICK s : r = labelPools[l] /\ s = RingRemove(r, i) /\ SoundRing(r)
      BY <1>3, <2>1, <2>3, <3>0, RingOfCall DEF Ring
    <3>2. /\ RingMembers(s) = RingMembers(r) \ {i} /\ SoundRing(s)
          /\ \A x \in RingMembers(s) : Value(s, x) = Value(r, x)
      BY <3>1, RemoveRing
    <3>3. labelPools' = WithoutEmpty(l, s)
      BY <1>0, <3>0, <3>1
    <3>4. RingMembers(q) = RingMembers(s) /\ \A x \in RingMembers(q) : Value(q, x) = Value(s, x)
      <4>1. CASE RingLen(s) = 0
        <5>1. l \notin DOMAIN labelPools'
          BY <3>3, <4>1 DEF WithoutEmpty
        <5>2. q = EmptyRing
          BY <1>d, <2>1, <2>3, <2>d, <5>1 DEF Ring
        <5>3. RingMembers(s) = {}
          BY <3>2, <4>1, RingShape
        <5> QED BY <5>2, <5>3, NewRing
      <4>2. CASE RingLen(s) # 0
        <5>1. labelPools' = [labelPools EXCEPT ![l] = s] /\ DOMAIN labelPools' = DOMAIN labelPools
          BY <3>3, <4>2 DEF WithoutEmpty
        <5>2. labelPools'[l] = s
          BY <3>0, <5>1 DEF RingsInv, RegistryTypeOK
        <5>3. q = s
          BY <1>d, <2>1, <2>3, <2>d, <3>0, <5>1, <5>2 DEF Ring
        <5> QED BY <5>3
      <4> QED BY <4>1, <4>2
    <3>5. i \notin Eligible
      <4>1. i \in DOMAIN entries => l \notin entry[entries[i]].labels
        BY <1>0, <1>c, HolderKnows
      <4> QED BY <2>3, <3>0, <4>1, EligibleEntry DEF RingsInv, Routable
    <3>6. \A x : x # i => /\ x \in RingMembers(q) <=> x \in RingMembers(r)
                          /\ x \in RingMembers(q) => Value(q, x) = Value(r, x)
      BY <3>2, <3>4
    <3>7. i \notin RingMembers(q)
      BY <3>2, <3>4
    <3> QED BY <1>0, <1>1, <1>3, <1>d, <2>1, <3>5, <3>6, <3>7, RevisedRing
  <2> QED BY <2>2, <2>3
<1> QED BY <1>2, <1>3

LEMMA AttachSelection ==
    ASSUME RingsInv, CallOK, OfferedOK, SteadyOK, NEW l \in Labels, AttachLabel(l)
    PROVE  OfferedOK' /\ SteadyOK'
<1>c. PICK i, p : i = entry[mu.gen].inst /\ p = RingUpsert(RingIn(l), i, mu.gen)
  OBVIOUS
<1>0. /\ mu.gen # 0 /\ l \in mu.add
      /\ mu' = [mu EXCEPT !.add = @ \ {l}]
      /\ labelPools' = [x \in DOMAIN labelPools \cup {l} |-> IF x = l THEN p ELSE labelPools[x]]
      /\ UNCHANGED <<entry, entries, pools, call>> /\ Watch
      /\ mu \in HolderBound
  BY <1>c, NothingOwed DEF AttachLabel, RingsInv, OwedOK, RegistryTypeOK, RingIn
<1>1. mu'.gen = mu.gen /\ mu'.close = mu.close
  BY <1>0 DEF HolderBound
<1>k. i \in Instances /\ mu.gen \in Nat /\ i \in DOMAIN entries /\ entries[i] = mu.gen
      /\ l \in entry[entries[i]].labels
  BY <1>0, <1>c, HolderKnows
<1>2. CASE call.pc # "match"
  BY <1>0, <1>2 DEF OfferedOK, SteadyOK
<1>3. CASE call.pc = "match"
  <2>1. PICK r, q : r = Ring /\ q = Ring'
    OBVIOUS
  <2>2. CASE call.dropped \/ call.label # l
    <3>1. ~call.dropped /\ call.label # NoLabel =>
             call.label \in DOMAIN labelPools /\ labelPools'[call.label] = labelPools[call.label]
      BY <1>0, <1>3, <2>2 DEF CallOK
    <3>2. q = r
      BY <1>0, <2>1, <2>2, <3>1 DEF Ring
    <3>3. entry \in [Made -> EntryBound] /\ \A g \in Made : entry[g].inFlight \in Nat
      BY DEF RingsInv, RegistryTypeOK, EntryBound
    <3>4. \A x \in steady : ~entry'[Value(Ring, x)].closed
      BY <1>0, <1>3 DEF SteadyOK, Candidates
    <3> QED BY <1>0, <1>3, <2>1, <3>2, <3>3, <3>4, SameRing
  <2>3. CASE ~call.dropped /\ call.label = l
    <3>0. l # NoLabel /\ l \in DOMAIN labelPools
      BY <1>3, <2>3, RegistryAssumption DEF CallOK
    <3>1. r = RingIn(l) /\ SoundRing(r) /\ q = p
      BY <1>0, <1>3, <2>1, <2>3, <3>0, RingOfCall DEF Ring, RingIn
    <3>2. /\ RingMembers(q) = RingMembers(r) \cup {i} /\ Value(q, i) = mu.gen
          /\ \A x \in RingMembers(r) \ {i} : Value(q, x) = Value(r, x)
      BY <1>c, <1>k, <3>1, UpsertRing
    <3> QED BY <1>0, <1>1, <1>3, <1>k, <2>1, <2>3, <3>0, <3>2, RevisedRing
  <2> QED BY <2>2, <2>3
<1> QED BY <1>2, <1>3

\* A selection finds its ring under the lock, when every ring is exact.
LEMMA LookSelection ==
    ASSUME RingsInv, CallOK, NEW t \in Types, NEW l \in Labels \cup {NoLabel}, Look(t, l)
    PROVE  OfferedOK' /\ SteadyOK' /\ call'.pc = "match"
<1>1. PICK d : /\ d = (l # NoLabel /\ l \notin DOMAIN labelPools)
               /\ call' = [pc |-> "match", type |-> t, label |-> l, got |-> 0, dropped |-> d]
  BY DEF Look
<1>2. /\ call'.pc = "match" /\ call'.type = t /\ call'.label = l /\ call'.dropped = d
      /\ mu = Free /\ call.pc # "match" /\ UNCHANGED <<entry, entries, pools, labelPools, mu>> /\ Watch
  BY <1>1 DEF Look, registryVars
<1>3. /\ entry \in [Made -> EntryBound]
      /\ \A i \in DOMAIN entries : entries[i] \in Made /\ entry[entries[i]].inst = i
  BY DEF RingsInv, RegistryTypeOK
<1>4. offered' = Routable' /\ steady' = Eligible'
  BY <1>2 DEF Watch
<1>5. PICK r, W, R, E, C : /\ r = Ring' /\ R = Routable' /\ E = Eligible' /\ C = Candidates'
                           /\ W = IF l = NoLabel THEN OfType(t) ELSE Announcing(l)
  OBVIOUS
<1>6. SoundRing(r) /\ Agrees(r, W, {})
  <2>1. CASE l = NoLabel
    <3>1. ~d
      BY <1>1, <2>1, Zenon
    <3>2. r = pools[t]
      BY <1>2, <1>5, <2>1, <3>1 DEF Ring
    <3> QED BY <1>2, <1>5, <2>1, <3>2, NothingOwed DEF RingsInv, PoolsOK
  <2>2. CASE l # NoLabel
    <3>1. d <=> l \notin DOMAIN labelPools
      BY <1>1, <2>2, Zenon
    <3>2. r = RingIn(l)
      BY <1>2, <1>5, <2>2, <3>1 DEF Ring, RingIn
    <3> QED BY <1>2, <1>5, <2>2, <3>2, NothingOwed DEF RingsInv, LabelPoolsOK
  <2> QED BY <2>1, <2>2
<1>7. RingMembers(r) = W /\ \A i \in W : Value(r, i) = entries[i]
  BY <1>6 DEF Agrees
<1>8. \A i : i \in W <=> /\ i \in DOMAIN entries
                         /\ l = NoLabel => entry[entries[i]].type = t
                         /\ l # NoLabel => l \in entry[entries[i]].labels
  BY <1>5 DEF OfType, Announcing
<1>9. \A g : g \in R <=> /\ g \in {entries[i] : i \in DOMAIN entries}
                         /\ ~entry[g].closed /\ entry[g].type = t
                         /\ l = NoLabel \/ l \in entry[g].labels
  BY <1>2, <1>5 DEF Routable
<1>10. ASSUME NEW i \in RingMembers(r), ~entry[Value(r, i)].closed,
              l = NoLabel \/ entry[Value(r, i)].type = t
       PROVE  Value(r, i) \in R
  BY <1>7, <1>8, <1>9, <1>10
<1>11. ASSUME NEW i \in E
       PROVE  i \in RingMembers(r) /\ Value(r, i) \in C
  <2>1. PICK g \in R : i = entry[g].inst /\ entry[g].supports /\ HasCapacity(g)
    BY <1>2, <1>5 DEF Eligible, HasCapacity
  <2>2. i \in DOMAIN entries /\ g = entries[i] /\ g \in DOMAIN entry
    BY <1>3, <1>9, <2>1
  <2>3. i \in W
    BY <1>8, <1>9, <2>1, <2>2
  <2>4. g \in C
    BY <1>2, <1>5, <1>9, <2>1, <2>2 DEF Candidates, HasCapacity
  <2> QED BY <1>7, <2>2, <2>3, <2>4
<1>12. OfferedOK'
  BY <1>2, <1>4, <1>5, <1>10 DEF OfferedOK, RingMembers, Value, At
<1>13. SteadyOK'
  BY <1>4, <1>5, <1>11 DEF SteadyOK, RingMembers, Value, At
<1> QED BY <1>2, <1>12, <1>13

\* The scan returns an entry its ring offered, or has passed everyone in it.
LEMMA MatchSelection ==
    ASSUME RingsInv, CallOK, OfferedOK, SteadyOK, Match
    PROVE  call'.pc = "done" /\ SelectionHonest'
<1>0. call.pc = "match" /\ call \in CallBound /\ call.got = 0
  BY DEF Match, CallOK, RingsInv, RegistryTypeOK
<1>1. PICK r, M : r = Ring /\ M = Candidates
  OBVIOUS
<1>2. SoundRing(r)
  BY <1>0, <1>1, RingOfCall
<1>3. CASE Matching(r, M) = {}
  <2>1. call' = [call EXCEPT !.pc = "done"] /\ Watch
    BY <1>1, <1>3 DEF Match
  <2>2. call'.pc = "done" /\ call'.got = 0 /\ UNCHANGED <<offered, steady>>
    BY <1>0, <2>1 DEF CallBound, Watch
  <2>3. steady = {}
    BY <1>0, <1>1, <1>2, <1>3, ScanSeesAll DEF SteadyOK
  <2> QED BY <2>2, <2>3 DEF SelectionHonest
<1>4. CASE Matching(r, M) # {}
  <2>1. PICK g : g = At(r, MatchPos(r, M)).value
    OBVIOUS
  <2>2. call' = [call EXCEPT !.pc = "done", !.got = g] /\ Watch
    BY <1>1, <1>4, <2>1 DEF Match
  <2>3. call'.pc = "done" /\ call'.got = g /\ UNCHANGED <<offered, steady>>
    BY <1>0, <2>2 DEF CallBound, Watch
  <2>4. PICK i \in RingMembers(r) : Value(r, i) \in M /\ g = Value(r, i)
    BY <1>2, <1>4, <2>1, MatchRing
  <2>5. g # 0
    BY <1>0, <1>1, <2>4, RingOfCall DEF Made
  <2>6. g \in offered
    BY <1>0, <1>1, <2>4 DEF OfferedOK, Candidates
  <2> QED BY <2>3, <2>5, <2>6 DEF SelectionHonest
<1> QED BY <1>3, <1>4

\* Between two selections the answer of the last one stands.
LEMMA AnswerStands ==
    ASSUME SelectionHonest, Watch, call'.pc = call.pc, call'.got = call.got
    PROVE  SelectionHonest'
BY DEF SelectionHonest, Watch

LEMMA SelectionKept ==
    ASSUME RingsInv, SelectionInv, [RegistryNext]_vars
    PROVE  SelectionInv'
<1>0. CallOK /\ OfferedOK /\ SteadyOK /\ SelectionHonest
  BY DEF SelectionInv
<1>1. CallOK'
  BY <1>0, CallKept
<1>2. call \in CallBound
  BY DEF RingsInv, RegistryTypeOK
<1>3. CASE \/ \E i \in Instances, t \in Types, offer \in Offers, supports \in Support :
                Register(i, t, offer, supports)
           \/ \E g \in DOMAIN entry : Deregister(g) \/ ReleaseInFlight(g)
           \/ \E i \in Instances, announce, withdraw \in Offers : UpdateLabels(i, announce, withdraw)
           \/ Unlock \/ CloseAll
  <2>1. OfferedOK' /\ SteadyOK'
    BY <1>0, <1>3, EntriesSelection
  <2>2. call' = call /\ Watch
    BY ZenonT(60), <1>3 DEF Register, Deregister, ReleaseInFlight, UpdateLabels, Unlock, CloseAll
  <2> QED BY <1>0, <1>1, <2>1, <2>2, AnswerStands DEF SelectionInv
<1>4. CASE LeavePool \/ JoinPool \/ (\E l \in Labels : AttachLabel(l)) \/ (\E g \in retiring : MarkClosed(g))
  <2>1. OfferedOK' /\ SteadyOK'
    BY <1>0, <1>4, LeaveSelection, JoinSelection, AttachSelection, ClosedSelection
  <2>2. call' = call /\ Watch
    BY <1>4 DEF LeavePool, JoinPool, AttachLabel, MarkClosed
  <2> QED BY <1>0, <1>1, <2>1, <2>2, AnswerStands DEF SelectionInv
<1>5. ASSUME NEW l \in Labels, DetachLabel(l) PROVE SelectionInv'
  <2>1. OfferedOK' /\ SteadyOK'
    BY <1>0, <1>5, DetachSelection
  <2>2. PICK d : call' = [call EXCEPT !.dropped = d] /\ Watch
    BY <1>5 DEF DetachLabel
  <2>3. call'.pc = call.pc /\ call'.got = call.got
    BY <1>2, <2>2 DEF CallBound
  <2> QED BY <1>0, <1>1, <2>1, <2>2, <2>3, AnswerStands DEF SelectionInv
<1>6. ASSUME NEW q \in Requests, Look(q[1], q[2]) PROVE SelectionInv'
  <2>1. q[1] \in Types /\ q[2] \in Labels \cup {NoLabel}
    BY RegistryAssumption
  <2>2. OfferedOK' /\ SteadyOK' /\ call'.pc = "match"
    BY <1>0, <1>6, <2>1, LookSelection
  <2> QED BY <1>1, <2>2 DEF SelectionInv, SelectionHonest
<1>7. CASE Match
  <2>1. call'.pc = "done" /\ SelectionHonest'
    BY <1>0, <1>7, MatchSelection
  <2> QED BY <1>1, <2>1 DEF SelectionInv, OfferedOK, SteadyOK
<1>8. CASE AddInFlight
  <2>1. call'.pc = "idle"
    BY <1>8 DEF AddInFlight, NoCall
  <2> QED BY <1>1, <2>1 DEF SelectionInv, OfferedOK, SteadyOK, SelectionHonest
<1>9. CASE UNCHANGED vars
  <2>1. UNCHANGED <<entry, entries, pools, labelPools, mu, call, offered, steady>>
    BY <1>9 DEF vars, registryVars
  <2>2. Ring' = Ring /\ Eligible' = Eligible /\ Candidates' = Candidates
    BY <2>1 DEF Ring, Eligible, Joining, Routable, Candidates, HasCapacity
  <2>3. OfferedOK'
    BY <1>0, <2>1, <2>2 DEF OfferedOK, RingMembers, Value, At
  <2>4. SteadyOK'
    BY <1>0, <2>1, <2>2 DEF SteadyOK, RingMembers, Value, At
  <2>5. SelectionHonest'
    BY <1>0, <2>1 DEF SelectionHonest
  <2> QED BY <1>1, <2>3, <2>4, <2>5 DEF SelectionInv
<1> QED BY <1>3, <1>4, <1>5, <1>6, <1>7, <1>8, <1>9 DEF RegistryNext

\* A selection is right although it scans outside the registry's lock: whom it
\* returns was the open, live registration of its instance with the asked type
\* and label at some moment of the call, and when it finds nobody, no executor
\* with capacity was routable during the whole call.
THEOREM SelectionSafety == RegistrySpec => []SelectionHonest
<1>1. RegistryInit => RingsInv /\ SelectionInv
  BY FirstRings DEF RegistryInit, SelectionInv, CallOK, OfferedOK, SteadyOK, SelectionHonest, NoCall
<1>2. RingsInv /\ SelectionInv /\ [RegistryNext]_vars => RingsInv' /\ SelectionInv'
  BY RingsKept, SelectionKept DEF SelectionInv
<1>3. SelectionInv => SelectionHonest
  BY DEF SelectionInv
<1> QED BY <1>1, <1>2, <1>3, PTL DEF RegistrySpec

-----------------------------------------------------------------------------
(* The turns of one ring that MCRing drives.                                 *)

Turn == [key : Entrants, value : Entrants]

\* A ring as MCRing drives it: every key is its own value.
TurnRing(r) ==
    /\ r = [entries |-> r.entries, index |-> r.index, cursor |-> r.cursor]
    /\ r.entries \in Seq(Turn) /\ RingOK(r)
    /\ \A n \in DOMAIN r.entries : r.entries[n].value = r.entries[n].key

\* How many places behind the cursor a key stands.
Offset(r, k) ==
    IF r.index[k] >= r.cursor THEN r.index[k] - r.cursor ELSE RingLen(r) + r.index[k] - r.cursor

\* What a step of the cursor does to a number below twice the length.
LEMMA ModOnce ==
    ASSUME NEW N \in Nat, N > 0, NEW x \in 0 .. 2 * N - 1
    PROVE  x % N = IF x < N THEN x ELSE x - N
<1>1. CASE x < N
  BY <1>1
<1>2. CASE ~(x < N)
  <2>1. PICK y \in 0 .. N - 1 : x = y + N
    BY <1>2
  <2>2. (y + N) % N = y
    OBVIOUS
  <2> QED BY <1>2, <2>1, <2>2
<1> QED BY <1>1, <1>2

LEMMA TurnShape ==
    ASSUME NEW r, TurnRing(r)
    PROVE  /\ RingLen(r) \in Nat /\ r.cursor \in Nat /\ DOMAIN r.entries = 1 .. RingLen(r)
           /\ r.cursor < RingLen(r) \/ (RingLen(r) = 0 /\ r.cursor = 0)
           /\ \A n \in 1 .. RingLen(r) :
                 /\ r.entries[n].key \in RingMembers(r) /\ r.index[r.entries[n].key] = n - 1
                 /\ r.entries[n].value = r.entries[n].key
           /\ \A x \in RingMembers(r) :
                 /\ x \in Entrants /\ r.index[x] \in 0 .. RingLen(r) - 1
                 /\ r.index[x] + 1 \in 1 .. RingLen(r)
                 /\ r.entries[r.index[x] + 1].key = x
           /\ \A x, y \in RingMembers(r) : r.index[x] = r.index[y] => x = y
<1>1. r.entries \in Seq(Turn) /\ RingOK(r)
  BY DEF TurnRing
<1>2. /\ Len(r.entries) \in Nat /\ DOMAIN r.entries = 1 .. Len(r.entries)
      /\ \A n \in 1 .. Len(r.entries) :
            r.entries[n].key \in RingMembers(r) /\ r.index[r.entries[n].key] = n - 1
      /\ \A x \in RingMembers(r) :
            /\ r.index[x] \in 0 .. Len(r.entries) - 1 /\ r.index[x] + 1 \in 1 .. Len(r.entries)
            /\ r.entries[r.index[x] + 1].key = x
  BY <1>1, RingPlaces
<1>3. \A n \in 1 .. Len(r.entries) : r.entries[n].key \in Entrants
  <2>1. \A n \in 1 .. Len(r.entries) : r.entries[n] \in Turn
    BY <1>1, <1>2, ElementOfSeq
  <2> QED BY <2>1 DEF Turn
<1>4. r.cursor \in 0 .. Len(r.entries) /\ (Len(r.entries) # 0 => r.cursor < Len(r.entries))
  BY <1>1 DEF RingOK, RingLen
<1>5. r.cursor \in Nat /\ (r.cursor < Len(r.entries) \/ (Len(r.entries) = 0 /\ r.cursor = 0))
  BY <1>2, <1>4
<1>6. \A n \in 1 .. Len(r.entries) : r.entries[n].value = r.entries[n].key
  BY <1>2 DEF TurnRing
<1>7. \A x, y \in RingMembers(r) : r.index[x] = r.index[y] => x = y
  BY <1>2
<1> QED BY <1>2, <1>3, <1>5, <1>6, <1>7 DEF RingLen

\* The parts of such a ring fit together.
TurnParts(s, index, cursor) ==
    /\ s \in Seq(Turn) /\ cursor \in Nat /\ (cursor < Len(s) \/ (Len(s) = 0 /\ cursor = 0))
    /\ \A n \in 1 .. Len(s) : s[n].value = s[n].key
    /\ \A n \in 1 .. Len(s) : s[n].key \in DOMAIN index /\ index[s[n].key] = n - 1
    /\ \A x \in DOMAIN index : \E n \in 1 .. Len(s) : s[n].key = x

LEMMA TurnBuilt ==
    ASSUME NEW s, NEW index, NEW cursor, TurnParts(s, index, cursor),
           NEW q, q = [entries |-> s, index |-> index, cursor |-> cursor]
    PROVE  TurnRing(q) /\ RingMembers(q) = DOMAIN index /\ RingLen(q) = Len(s)
<1> USE DEF TurnParts
<1>1. q.entries = s /\ q.index = index /\ q.cursor = cursor
  OBVIOUS
<1>2. Len(s) \in Nat /\ DOMAIN s = 1 .. Len(s)
  BY LenProperties
<1>3. DOMAIN q.index = {q.entries[n].key : n \in DOMAIN q.entries}
  <2>1. DOMAIN index = {s[n].key : n \in 1 .. Len(s)}
    BY DEF TurnParts
  <2>2. {q.entries[n].key : n \in DOMAIN q.entries} = {s[n].key : n \in 1 .. Len(s)}
    BY <1>1, <1>2
  <2> QED BY <1>1, <2>1, <2>2
<1>4. \A n \in DOMAIN q.entries : q.index[q.entries[n].key] = n - 1
  BY <1>1, <1>2
<1>5. q.cursor \in 0 .. RingLen(q) /\ (RingLen(q) # 0 => q.cursor < RingLen(q))
  BY <1>1, <1>2 DEF RingLen
<1>6. RingOK(q)
  BY <1>3, <1>4, <1>5, Zenon DEF RingOK
<1> QED BY <1>1, <1>2, <1>6 DEF TurnRing, RingMembers, RingLen

\* The order in which the others come does not change.
SameOrder(q, r, S) == \A x, y \in S : Offset(r, x) < Offset(r, y) => Offset(q, x) < Offset(q, y)

LEMMA EmptyTurns == TurnRing(EmptyRing) /\ RingMembers(EmptyRing) = {}
<1>1. PICK s : s = <<>>
  OBVIOUS
<1>2. PICK index : index = [k \in {} |-> 0]
  OBVIOUS
<1>3. s \in Seq(Turn) /\ Len(s) = 0
  BY <1>1, EmptySeq
<1>4. PICK q : q = [entries |-> s, index |-> index, cursor |-> 0]
  OBVIOUS
<1>5. TurnParts(s, index, 0)
  BY <1>2, <1>3 DEF TurnParts
<1>6. /\ TurnRing(q) /\ RingMembers(q) = DOMAIN index
  BY <1>4, <1>5, TurnBuilt
<1> QED BY <1>1, <1>2, <1>4, <1>6 DEF EmptyRing

LEMMA UpsertTurns ==
    ASSUME NEW r, TurnRing(r), NEW k \in Entrants, NEW q, q = RingUpsert(r, k, k)
    PROVE  /\ TurnRing(q) /\ RingMembers(q) = RingMembers(r) \cup {k}
           /\ SameOrder(q, r, RingMembers(r))
<1>t. r.entries \in Seq(Turn) /\ r = [entries |-> r.entries, index |-> r.index, cursor |-> r.cursor]
  BY DEF TurnRing
<1>s. /\ Len(r.entries) \in Nat /\ r.cursor \in Nat /\ DOMAIN r.entries = 1 .. Len(r.entries)
      /\ r.cursor < Len(r.entries) \/ (Len(r.entries) = 0 /\ r.cursor = 0)
      /\ \A n \in 1 .. Len(r.entries) :
            /\ r.entries[n].key \in RingMembers(r) /\ r.index[r.entries[n].key] = n - 1
            /\ r.entries[n].value = r.entries[n].key
      /\ \A x \in RingMembers(r) :
            /\ r.index[x] \in 0 .. Len(r.entries) - 1 /\ r.index[x] + 1 \in 1 .. Len(r.entries)
            /\ r.entries[r.index[x] + 1].key = x
  BY TurnShape DEF RingLen
<1>1. CASE k \in RingMembers(r)
  <2>p. PICK p : p = r.index[k] + 1
    OBVIOUS
  <2>1. p \in 1 .. Len(r.entries) /\ r.entries[p].key = k /\ r.entries[p].value = k /\ r.entries[p] \in Turn
    BY <1>t, <1>s, <1>1, <2>p, ElementOfSeq
  <2>2. [r.entries[p] EXCEPT !.value = k] = r.entries[p]
    BY <2>1 DEF Turn
  <2>3. [r.entries EXCEPT ![p].value = k] = r.entries
    <3>1. r.entries \in [1 .. Len(r.entries) -> Turn]
      BY <1>t, <1>s, ElementOfSeq
    <3>2. [r.entries EXCEPT ![p] = r.entries[p]] = r.entries
      BY <2>1, <3>1
    <3>3. [r.entries EXCEPT ![p].value = k] = [r.entries EXCEPT ![p] = [r.entries[p] EXCEPT !.value = k]]
      OBVIOUS
    <3> QED BY <2>2, <3>2, <3>3
  <2>4. q = r
    <3>1. q = [r EXCEPT !.entries[p].value = k]
      BY <1>1, <2>p DEF RingUpsert, RingMembers
    <3>2. q = [r EXCEPT !.entries = [r.entries EXCEPT ![p].value = k]]
      BY <3>1
    <3>3. q = [r EXCEPT !.entries = r.entries]
      BY <2>3, <3>2
    <3> QED BY <1>t, <3>3
  <2> QED BY <1>1, <2>4 DEF SameOrder
<1>2. CASE k \notin RingMembers(r)
  <2>n. PICK new : new = [key |-> k, value |-> k]
    OBVIOUS
  <2>s. PICK s : s = Append(r.entries, new)
    OBVIOUS
  <2>i. PICK index : index = [x \in RingMembers(r) \cup {k} |-> IF x = k THEN Len(r.entries) ELSE r.index[x]]
    OBVIOUS
  <2>1. q = [entries |-> s, index |-> index, cursor |-> r.cursor]
    BY <1>2, <2>n, <2>s, <2>i DEF RingUpsert, RingLen, RingMembers
  <2>2. new \in Turn /\ new.key = k /\ new.value = k
    BY <2>n DEF Turn
  <2>3. /\ s \in Seq(Turn) /\ Len(s) = Len(r.entries) + 1 /\ s[Len(r.entries) + 1] = new
        /\ \A n \in 1 .. Len(r.entries) : s[n] = r.entries[n]
    BY <1>t, <2>s, <2>2, AppendProperties
  <2>4. /\ DOMAIN index = RingMembers(r) \cup {k} /\ index[k] = Len(r.entries)
        /\ \A x \in RingMembers(r) : index[x] = r.index[x]
    BY <1>2, <2>i
  <2>5. \A n \in 1 .. Len(s) : /\ s[n].value = s[n].key
                               /\ s[n].key \in DOMAIN index /\ index[s[n].key] = n - 1
    <3> TAKE n \in 1 .. Len(s)
    <3>1. CASE n = Len(r.entries) + 1
      BY <1>s, <2>2, <2>3, <2>4, <3>1
    <3>2. CASE n \in 1 .. Len(r.entries)
      BY <1>s, <2>3, <2>4, <3>2
    <3> QED BY <1>s, <2>3, <3>1, <3>2
  <2>6. \A x \in DOMAIN index : \E n \in 1 .. Len(s) : s[n].key = x
    <3> TAKE x \in DOMAIN index
    <3>1. CASE x = k
      <4>1. Len(r.entries) + 1 \in 1 .. Len(s)
        BY <1>s, <2>3
      <4> QED BY <2>2, <2>3, <3>1, <4>1
    <3>2. CASE x \in RingMembers(r)
      <4>1. r.index[x] + 1 \in 1 .. Len(s) /\ s[r.index[x] + 1].key = x
        BY <1>s, <2>3, <3>2
      <4> QED BY <4>1
    <3> QED BY <2>4, <3>1, <3>2
  <2>7. r.cursor < Len(s)
    BY <1>s, <2>3
  <2>8. TurnRing(q) /\ RingMembers(q) = DOMAIN index /\ RingLen(q) = Len(s)
    <3>1. TurnParts(s, index, r.cursor)
      BY <1>s, <2>3, <2>5, <2>6, <2>7 DEF TurnParts
    <3> QED BY <2>1, <3>1, TurnBuilt
  <2>9. SameOrder(q, r, RingMembers(r))
    <3> SUFFICES ASSUME NEW x \in RingMembers(r), NEW y \in RingMembers(r),
                        Offset(r, x) < Offset(r, y)
                 PROVE  Offset(q, x) < Offset(q, y)
      BY DEF SameOrder
    <3>1. q.index[x] = r.index[x] /\ q.index[y] = r.index[y] /\ q.cursor = r.cursor
      BY <2>1, <2>4
    <3>2. RingLen(q) = RingLen(r) + 1 /\ RingLen(r) = Len(r.entries)
      BY <2>3, <2>8 DEF RingLen
    <3>3. r.index[x] \in 0 .. RingLen(r) - 1 /\ r.index[y] \in 0 .. RingLen(r) - 1
      BY <1>s, <3>2
    <3>4. PICK a \in 0 .. RingLen(r) - 1 : a = r.index[x]
      BY <3>3
    <3>5. PICK b \in 0 .. RingLen(r) - 1 : b = r.index[y]
      BY <3>3
    <3>6. PICK c \in Nat : c = r.cursor /\ c < RingLen(r)
      BY <1>s, <3>2, <3>3
    <3>7. PICK N \in Nat : N = RingLen(r)
      BY <1>s, <3>2
    <3>8. /\ Offset(r, x) = (IF a >= c THEN a - c ELSE N + a - c)
          /\ Offset(r, y) = (IF b >= c THEN b - c ELSE N + b - c)
          /\ Offset(q, x) = (IF a >= c THEN a - c ELSE N + 1 + a - c)
          /\ Offset(q, y) = (IF b >= c THEN b - c ELSE N + 1 + b - c)
      BY <3>1, <3>2, <3>4, <3>5, <3>6, <3>7 DEF Offset
    <3>9. a < N /\ b < N /\ c < N /\ a \in Nat /\ b \in Nat
      BY <3>4, <3>5, <3>6, <3>7
    <3>10. (IF a >= c THEN a - c ELSE N + a - c) < (IF b >= c THEN b - c ELSE N + b - c)
      BY <3>8
    <3>11. (IF a >= c THEN a - c ELSE N + 1 + a - c) < (IF b >= c THEN b - c ELSE N + 1 + b - c)
      BY <3>9, <3>10
    <3> QED BY <3>8, <3>11
  <2> QED BY <2>4, <2>8, <2>9
<1> QED BY <1>1, <1>2

\* The arithmetic of a removal: place p goes, a and b are places of others.
LEMMA GapClosed ==
    ASSUME NEW N \in Int, NEW c \in Int, NEW p \in Int, NEW a \in Int, NEW b \in Int,
           NEW d \in Int, NEW a1 \in Int, NEW b1 \in Int,
           0 <= c, c < N, 0 <= p, p < N, 0 <= a, a < N, 0 <= b, b < N, a # p, b # p,
           a < p => a1 = a, a > p => a1 = a - 1, b < p => b1 = b, b > p => b1 = b - 1,
           p < c => d = c - 1, (~(p < c) /\ c < N - 1) => d = c, (~(p < c) /\ c >= N - 1) => d = 0,
           (IF a >= c THEN a - c ELSE N + a - c) < (IF b >= c THEN b - c ELSE N + b - c)
    PROVE  (IF a1 >= d THEN a1 - d ELSE N - 1 + a1 - d) < (IF b1 >= d THEN b1 - d ELSE N - 1 + b1 - d)
<1>1. CASE p < c
  BY <1>1
<1>2. CASE ~(p < c) /\ c < N - 1
  BY <1>2
<1>3. CASE ~(p < c) /\ c >= N - 1
  BY <1>3
<1> QED BY <1>1, <1>2, <1>3

LEMMA RemoveTurns ==
    ASSUME NEW r, TurnRing(r), NEW k \in RingMembers(r), NEW q, q = RingRemove(r, k)
    PROVE  /\ TurnRing(q) /\ RingMembers(q) = RingMembers(r) \ {k}
           /\ SameOrder(q, r, RingMembers(r) \ {k})
<1>t. r.entries \in Seq(Turn) /\ RingOK(r)
  BY DEF TurnRing
<1>s. PICK s : s = Compacted(r.entries, r.index[k])
  OBVIOUS
<1>i. PICK index : index = Reindexed(r, k, s)
  OBVIOUS
<1>c. PICK cursor : cursor = CursorAfterRemove(r, r.index[k], Len(s))
  OBVIOUS
<1>1. q = [entries |-> s, index |-> index, cursor |-> cursor]
  BY <1>s, <1>i, <1>c DEF RingRemove, RingMembers
<1>2. s \in Seq(Turn) /\ Shifted(r, k, s, index)
  <2>1. Removal(r, k, s, index)
    BY <1>s, <1>i DEF Removal
  <2> QED BY <1>t, <2>1, RemovedPlaces
<1>3. /\ RingLen(r) \in Nat /\ r.cursor \in Nat
      /\ r.cursor < RingLen(r) \/ (RingLen(r) = 0 /\ r.cursor = 0)
      /\ \A n \in 1 .. RingLen(r) : r.entries[n].value = r.entries[n].key
      /\ \A x \in RingMembers(r) :
            r.index[x] \in 0 .. RingLen(r) - 1 /\ r.index[x] + 1 \in 1 .. RingLen(r)
  BY TurnShape
<1>4. PICK p \in Nat : p = r.index[k] /\ p < RingLen(r)
  BY <1>3
<1>5. PICK N \in Nat : N = RingLen(r) /\ N > 0 /\ Len(s) = N - 1
  BY <1>2, <1>3, <1>4 DEF Shifted, RingLen
<1>6. PICK c \in Nat : c = r.cursor /\ c < N
  BY <1>3, <1>5
<1>7. cursor = LET d == IF p < c THEN c - 1 ELSE c IN IF d >= N - 1 THEN 0 ELSE d
  BY <1>c, <1>4, <1>5, <1>6 DEF CursorAfterRemove
<1>8. cursor \in Nat /\ (cursor < Len(s) \/ (Len(s) = 0 /\ cursor = 0))
  BY <1>4, <1>5, <1>6, <1>7
<1>9. \A n \in 1 .. Len(s) : s[n].value = s[n].key
  <2> TAKE n \in 1 .. Len(s)
  <2>1. PICK x \in RingMembers(r) \ {k} : x = s[n].key /\ index[x] = n - 1
    BY <1>2 DEF Shifted
  <2>2. n \in Int /\ index[x] + 1 = n
    BY <1>5, <2>1
  <2>3. s[n] = r.entries[r.index[x] + 1]
    BY <1>2, <2>1, <2>2 DEF Shifted
  <2> QED BY <1>3, <2>1, <2>3
<1>10. TurnParts(s, index, cursor)
  <2>1. \A n \in 1 .. Len(s) : s[n].key \in DOMAIN index /\ index[s[n].key] = n - 1
    BY <1>2 DEF Shifted
  <2>2. \A x \in DOMAIN index : \E n \in 1 .. Len(s) : s[n].key = x
    BY <1>2 DEF Shifted
  <2> QED BY <1>2, <1>8, <1>9, <2>1, <2>2 DEF TurnParts
<1>11. TurnRing(q) /\ RingMembers(q) = RingMembers(r) \ {k} /\ RingLen(q) = Len(s)
  <2>1. TurnRing(q) /\ RingMembers(q) = DOMAIN index /\ RingLen(q) = Len(s)
    BY <1>1, <1>10, TurnBuilt
  <2> QED BY <1>2, <2>1 DEF Shifted
<1>12. SameOrder(q, r, RingMembers(r) \ {k})
  <2> SUFFICES ASSUME NEW x \in RingMembers(r) \ {k}, NEW y \in RingMembers(r) \ {k},
                      Offset(r, x) < Offset(r, y)
               PROVE  Offset(q, x) < Offset(q, y)
    BY DEF SameOrder
  <2>1. PICK a \in Nat : a = r.index[x] /\ a < N
    BY <1>3, <1>5
  <2>2. PICK b \in Nat : b = r.index[y] /\ b < N
    BY <1>3, <1>5
  <2>3. PICK a1 \in Int : a1 = index[x] /\ a1 = IF a < p THEN a ELSE a - 1
    BY <1>2, <1>4, <2>1 DEF Shifted
  <2>4. PICK b1 \in Int : b1 = index[y] /\ b1 = IF b < p THEN b ELSE b - 1
    BY <1>2, <1>4, <2>2 DEF Shifted
  <2>5. a # p /\ b # p
    BY <1>2, <1>4, <2>1, <2>2 DEF Shifted
  <2>6. q.index[x] = a1 /\ q.index[y] = b1 /\ q.cursor = cursor /\ RingLen(q) = N - 1
    <3>1. q.index = index /\ q.cursor = cursor
      BY <1>1
    <3>2. RingLen(q) = N - 1
      BY <1>5, <1>11
    <3> QED BY <2>3, <2>4, <3>1, <3>2
  <2>7. PICK d \in Nat : d = cursor /\ d = IF (IF p < c THEN c - 1 ELSE c) >= N - 1 THEN 0
                                          ELSE IF p < c THEN c - 1 ELSE c
    BY <1>4, <1>5, <1>6, <1>7, <1>8
  <2>8. /\ Offset(r, x) = (IF a >= c THEN a - c ELSE N + a - c)
        /\ Offset(r, y) = (IF b >= c THEN b - c ELSE N + b - c)
        /\ Offset(q, x) = (IF a1 >= d THEN a1 - d ELSE N - 1 + a1 - d)
        /\ Offset(q, y) = (IF b1 >= d THEN b1 - d ELSE N - 1 + b1 - d)
    BY <1>5, <1>6, <2>1, <2>2, <2>6, <2>7 DEF Offset
  <2>9. (IF a >= c THEN a - c ELSE N + a - c) < (IF b >= c THEN b - c ELSE N + b - c)
    BY <2>8
  <2>10. (IF a1 >= d THEN a1 - d ELSE N - 1 + a1 - d) < (IF b1 >= d THEN b1 - d ELSE N - 1 + b1 - d)
    <3>1. N \in Int /\ c \in Int /\ p \in Int /\ a \in Int /\ b \in Int /\ d \in Int
      BY <1>4, <1>5, <1>6, <2>1, <2>2, <2>7
    <3>2. /\ 0 <= c /\ c < N /\ 0 <= p /\ p < N /\ 0 <= a /\ a < N /\ 0 <= b /\ b < N
          /\ a # p /\ b # p
      BY <1>4, <1>5, <1>6, <2>1, <2>2, <2>5
    <3>3. /\ a < p => a1 = a
          /\ a > p => a1 = a - 1
          /\ b < p => b1 = b
          /\ b > p => b1 = b - 1
      BY <2>3, <2>4, <3>1
    <3>4. /\ p < c => d = c - 1
          /\ (~(p < c) /\ c < N - 1) => d = c
          /\ (~(p < c) /\ c >= N - 1) => d = 0
      BY <2>7, <3>1, <3>2
    <3> QED BY <2>3, <2>4, <2>9, <3>1, <3>2, <3>3, <3>4, GapClosed
  <2> QED BY <2>8, <2>10
<1> QED BY <1>11, <1>12

\* The arithmetic of a turn: the entry at offset o of N has it, a is the place of
\* any entry, f and g are its offsets before and after.
TurnAt(N, c, o, p, d, a, f, g) ==
    /\ 0 <= c /\ c < N /\ 0 <= o /\ o < N /\ 0 <= a /\ a < N
    /\ p = IF c + o < N THEN c + o ELSE c + o - N
    /\ d = IF p + 1 < N THEN p + 1 ELSE p + 1 - N
    /\ f = IF a >= c THEN a - c ELSE N + a - c
    /\ g = IF a >= d THEN a - d ELSE N + a - d

MovedUp(N, o, p, a, f, g) ==
    /\ 0 <= f /\ f < N /\ (f = o <=> a = p)
    /\ g = IF f > o THEN f - o - 1 ELSE f + N - o - 1

LEMMA TurnAway ==
    ASSUME NEW N \in Int, NEW c \in Int, NEW o \in Int, NEW p \in Int, NEW d \in Int,
           NEW a \in Int, NEW f \in Int, NEW g \in Int, TurnAt(N, c, o, p, d, a, f, g)
    PROVE  MovedUp(N, o, p, a, f, g)
<1> USE DEF TurnAt, MovedUp
<1>1. CASE c + o < N /\ a >= c
  BY <1>1
<1>2. CASE c + o < N /\ a < c
  BY <1>2
<1>3. CASE c + o >= N /\ a >= c
  BY <1>3
<1>4. CASE c + o >= N /\ a < c
  BY <1>4
<1> QED BY <1>1, <1>2, <1>3, <1>4

\* The entry at an offset, and the ring after its turn: whoever stands behind
\* it moves up, the others go behind those.
LEMMA TurnTaken ==
    ASSUME NEW r, TurnRing(r), RingLen(r) > 0, NEW o \in 0 .. RingLen(r) - 1,
           NEW p, p = (r.cursor + o) % RingLen(r),
           NEW q, q = [r EXCEPT !.cursor = (p + 1) % RingLen(r)]
    PROVE  /\ At(r, p).key \in RingMembers(r) /\ At(r, p).value = At(r, p).key
           /\ Offset(r, At(r, p).key) = o
           /\ TurnRing(q) /\ RingMembers(q) = RingMembers(r)
           /\ \A x \in RingMembers(r) :
                 /\ Offset(r, x) \in 0 .. RingLen(r) - 1
                 /\ Offset(r, x) = o => x = At(r, p).key
                 /\ Offset(q, x) = IF Offset(r, x) > o THEN Offset(r, x) - o - 1
                                   ELSE Offset(r, x) + RingLen(r) - o - 1
<1>1. /\ RingLen(r) \in Nat /\ r.cursor \in Nat /\ DOMAIN r.entries = 1 .. RingLen(r)
      /\ r.cursor < RingLen(r) \/ (RingLen(r) = 0 /\ r.cursor = 0)
      /\ \A n \in 1 .. RingLen(r) :
            /\ r.entries[n].key \in RingMembers(r) /\ r.index[r.entries[n].key] = n - 1
            /\ r.entries[n].value = r.entries[n].key
      /\ \A x \in RingMembers(r) : r.index[x] \in 0 .. RingLen(r) - 1
      /\ \A x, y \in RingMembers(r) : r.index[x] = r.index[y] => x = y
  BY TurnShape
<1>2. PICK N \in Nat : N = RingLen(r) /\ N > 0
  BY <1>1
<1>3. PICK c \in Nat : c = r.cursor /\ c < N
  BY <1>1, <1>2
<1>4. p = (IF c + o < N THEN c + o ELSE c + o - N) /\ p \in 0 .. N - 1
  <2>1. c + o \in 0 .. 2 * N - 1
    BY <1>2, <1>3
  <2>2. (c + o) % N = IF c + o < N THEN c + o ELSE c + o - N
    BY <1>2, <2>1, ModOnce
  <2> QED BY <1>2, <1>3, <2>2
<1>5. PICK d \in 0 .. N - 1 : d = (p + 1) % N /\ d = IF p + 1 < N THEN p + 1 ELSE p + 1 - N
  <2>1. PICK x \in 0 .. 2 * N - 1 : x = p + 1
    BY <1>2, <1>4
  <2>2. x % N = IF x < N THEN x ELSE x - N
    BY <1>2, ModOnce
  <2>3. (IF x < N THEN x ELSE x - N) \in 0 .. N - 1
    BY <1>2
  <2>4. (p + 1) % N = (IF p + 1 < N THEN p + 1 ELSE p + 1 - N)
    BY <1>2, <1>4, <2>1, <2>2
  <2>5. (p + 1) % N \in 0 .. N - 1
    BY <2>1, <2>2, <2>3
  <2> QED BY <2>4, <2>5
<1>6. PICK k : k = At(r, p).key
  OBVIOUS
<1>7. k \in RingMembers(r) /\ At(r, p).value = k /\ r.index[k] = p
  <2>1. p + 1 \in 1 .. RingLen(r) /\ (p + 1) - 1 = p
    BY <1>2, <1>4
  <2> QED BY <1>1, <1>6, <2>1 DEF At
<1>8. /\ q.entries = r.entries /\ q.index = r.index /\ q.cursor = d
      /\ q = [entries |-> q.entries, index |-> q.index, cursor |-> q.cursor]
  BY <1>2, <1>5 DEF TurnRing
<1>9. TurnRing(q)
  <2>1. RingLen(q) = N
    BY <1>2, <1>8 DEF RingLen
  <2>2. DOMAIN q.index = {q.entries[n].key : n \in DOMAIN q.entries}
    BY <1>8 DEF TurnRing, RingOK
  <2>3. \A n \in DOMAIN q.entries : q.index[q.entries[n].key] = n - 1
    BY <1>8 DEF TurnRing, RingOK
  <2>4. q.cursor \in 0 .. RingLen(q) /\ (RingLen(q) # 0 => q.cursor < RingLen(q))
    BY <1>2, <1>5, <1>8, <2>1
  <2>5. RingOK(q)
    BY <2>2, <2>3, <2>4, Zenon DEF RingOK
  <2> QED BY <1>8, <2>5 DEF TurnRing
<1>10. RingMembers(q) = RingMembers(r) /\ RingLen(q) = N
  BY <1>2, <1>8 DEF RingMembers, RingLen
<1>11. ASSUME NEW x \in RingMembers(r)
       PROVE  /\ Offset(r, x) \in 0 .. N - 1
              /\ Offset(r, x) = o <=> r.index[x] = p
              /\ Offset(q, x) = IF Offset(r, x) > o THEN Offset(r, x) - o - 1
                                ELSE Offset(r, x) + N - o - 1
  <2>1. PICK a \in Nat : a = r.index[x] /\ a < N
    BY <1>1, <1>2
  <2>2. PICK f \in Int : f = Offset(r, x) /\ f = IF a >= c THEN a - c ELSE N + a - c
    BY <1>2, <1>3, <2>1 DEF Offset
  <2>3. PICK g \in Int : g = Offset(q, x) /\ g = IF a >= d THEN a - d ELSE N + a - d
    BY <1>2, <1>5, <1>8, <1>10, <2>1 DEF Offset
  <2>4. o \in Int /\ 0 <= o /\ o < N /\ p \in Int /\ d \in Int
    BY <1>2, <1>4, <1>5
  <2>5. /\ N \in Int /\ c \in Int /\ o \in Int /\ p \in Int /\ d \in Int /\ a \in Int
        /\ 0 <= c /\ c < N /\ 0 <= o /\ o < N /\ 0 <= a /\ a < N
    BY <1>2, <1>3, <1>4, <1>5, <2>1, <2>4
  <2>6. TurnAt(N, c, o, p, d, a, f, g)
    BY <1>4, <1>5, <2>2, <2>3, <2>5 DEF TurnAt
  <2>7. MovedUp(N, o, p, a, f, g)
    BY <2>5, <2>6, TurnAway
  <2>8. f \in 0 .. N - 1 /\ (f = o <=> a = p) /\ g = IF f > o THEN f - o - 1 ELSE f + N - o - 1
    BY <2>5, <2>7 DEF MovedUp
  <2> QED BY <2>1, <2>2, <2>3, <2>8
<1>12. \A x \in RingMembers(r) : Offset(r, x) = o => x = k
  BY <1>1, <1>7, <1>11
<1> QED BY <1>2, <1>6, <1>7, <1>9, <1>10, <1>11, <1>12

-----------------------------------------------------------------------------
(* The inductive invariant of the ring that MCRing drives: who was served    *)
(* once while j waits now stands behind j.                                   *)

Waits(r, who, count) ==
    \A j \in RingMembers(r) \cap who, k \in Entrants :
        \/ count[j][k] = 0
        \/ count[j][k] = 1 /\ k \in RingMembers(r) /\ Offset(r, j) < Offset(r, k)

Turns == [Entrants -> [Entrants -> 0 .. 2]]

TurnInv == TurnRing(ring) /\ ready \subseteq Entrants /\ passed \in Turns /\ Waits(ring, ready, passed)

LEMMA NobodyType == Nobody \in [Entrants -> 0 .. 2] /\ \A k \in Entrants : Nobody[k] = 0
BY DEF Nobody

LEMMA UpsertWaits == ASSUME TurnInv, NEW k \in Entrants, Upsert(k) PROVE TurnInv'
<1>q. PICK q : q = ring'
  OBVIOUS
<1>n. PICK count : count = passed'
  OBVIOUS
<1>1. /\ TurnRing(ring) /\ ready \subseteq Entrants /\ passed \in Turns /\ Waits(ring, ready, passed)
      /\ q = RingUpsert(ring, k, k) /\ ready' = ready
      /\ count = IF k \in RingMembers(ring) THEN passed ELSE [passed EXCEPT ![k] = Nobody]
  BY <1>q, <1>n DEF TurnInv, Upsert
<1>2. /\ TurnRing(q) /\ RingMembers(q) = RingMembers(ring) \cup {k}
      /\ SameOrder(q, ring, RingMembers(ring))
  BY <1>1, UpsertTurns
<1>3. count \in Turns
  BY <1>1, NobodyType DEF Turns
<1>4. Waits(q, ready, count)
  <2> SUFFICES ASSUME NEW j \in RingMembers(q) \cap ready, NEW x \in Entrants, count[j][x] # 0
               PROVE  count[j][x] = 1 /\ x \in RingMembers(q) /\ Offset(q, j) < Offset(q, x)
    BY DEF Waits
  <2>1. j \in RingMembers(ring) /\ count[j] = passed[j]
    <3>1. CASE k \in RingMembers(ring)
      BY <1>1, <1>2, <3>1
    <3>2. CASE k \notin RingMembers(ring)
      <4>1. j # k
        BY <1>1, <3>2, NobodyType DEF Turns
      <4> QED BY <1>1, <1>2, <3>2, <4>1 DEF Turns
    <3> QED BY <3>1, <3>2
  <2>2. count[j][x] = 1 /\ x \in RingMembers(ring) /\ Offset(ring, j) < Offset(ring, x)
    BY <1>1, <2>1 DEF Waits
  <2> QED BY <1>2, <2>1, <2>2 DEF SameOrder
<1> QED BY <1>q, <1>n, <1>1, <1>2, <1>3, <1>4 DEF TurnInv

LEMMA RemoveWaits == ASSUME TurnInv, NEW k \in Entrants, RemoveKey(k) PROVE TurnInv'
<1>q. PICK q : q = ring'
  OBVIOUS
<1>n. PICK count : count = passed'
  OBVIOUS
<1>1. /\ TurnRing(ring) /\ ready \subseteq Entrants /\ passed \in Turns /\ Waits(ring, ready, passed)
      /\ k \in RingMembers(ring) /\ q = RingRemove(ring, k) /\ ready' = ready
      /\ count = [j \in Entrants |-> IF j = k THEN Nobody ELSE [passed[j] EXCEPT ![k] = 0]]
  BY <1>q, <1>n DEF TurnInv, RemoveKey
<1>2. /\ TurnRing(q) /\ RingMembers(q) = RingMembers(ring) \ {k}
      /\ SameOrder(q, ring, RingMembers(ring) \ {k})
  BY <1>1, RemoveTurns
<1>3. count \in Turns
  BY <1>1, NobodyType DEF Turns
<1>4. Waits(q, ready, count)
  <2> SUFFICES ASSUME NEW j \in RingMembers(q) \cap ready, NEW x \in Entrants, count[j][x] # 0
               PROVE  count[j][x] = 1 /\ x \in RingMembers(q) /\ Offset(q, j) < Offset(q, x)
    BY DEF Waits
  <2>1. j \in RingMembers(ring) \ {k} /\ j \in Entrants /\ j \in ready
    BY <1>1, <1>2
  <2>2. x # k /\ count[j][x] = passed[j][x]
    BY <1>1, <2>1 DEF Turns
  <2>3. passed[j][x] = 1 /\ x \in RingMembers(ring) /\ Offset(ring, j) < Offset(ring, x)
    BY <1>1, <2>1, <2>2 DEF Waits
  <2> QED BY <1>2, <2>1, <2>2, <2>3 DEF SameOrder
<1> QED BY <1>q, <1>n, <1>1, <1>2, <1>3, <1>4 DEF TurnInv

LEMMA ToggleWaits == ASSUME TurnInv, NEW k \in Entrants, Toggle(k) PROVE TurnInv'
<1>n. PICK count : count = passed'
  OBVIOUS
<1>w. PICK who : who = ready'
  OBVIOUS
<1>1. /\ TurnRing(ring) /\ ready \subseteq Entrants /\ passed \in Turns /\ Waits(ring, ready, passed)
      /\ who = (IF k \in ready THEN ready \ {k} ELSE ready \cup {k}) /\ ring' = ring
      /\ count = [passed EXCEPT ![k] = Nobody]
  BY <1>w, <1>n DEF TurnInv, Toggle
<1>2. count \in Turns /\ who \subseteq Entrants
  BY <1>1, NobodyType DEF Turns
<1>3. Waits(ring, who, count)
  <2> SUFFICES ASSUME NEW j \in RingMembers(ring) \cap who, NEW x \in Entrants, count[j][x] # 0
               PROVE  count[j][x] = 1 /\ x \in RingMembers(ring) /\ Offset(ring, j) < Offset(ring, x)
    BY DEF Waits
  <2>1. j # k
    BY <1>1, NobodyType DEF Turns
  <2>2. j \in ready /\ count[j] = passed[j]
    BY <1>1, <2>1 DEF Turns
  <2> QED BY <1>1, <2>2 DEF Waits
<1> QED BY <1>w, <1>n, <1>1, <1>2, <1>3 DEF TurnInv

\* One selection: no waiting entry stands before the offset that is served.
LEMMA ServedWaits ==
    ASSUME TurnInv, RingLen(ring) > 0, NEW o \in 0 .. RingLen(ring) - 1,
           NEW p, p = (ring.cursor + o) % RingLen(ring), Served(At(ring, p).key),
           ring' = [ring EXCEPT !.cursor = (p + 1) % RingLen(ring)],
           \A j \in RingMembers(ring) \cap ready : Offset(ring, j) >= o
    PROVE  TurnInv'
<1>q. PICK q : q = ring'
  OBVIOUS
<1>n. PICK count : count = passed'
  OBVIOUS
<1>s. PICK s : s = At(ring, p).key
  OBVIOUS
<1>1. /\ TurnRing(ring) /\ ready \subseteq Entrants /\ passed \in Turns /\ Waits(ring, ready, passed)
      /\ q = [ring EXCEPT !.cursor = (p + 1) % RingLen(ring)] /\ ready' = ready
      /\ count = [j \in Entrants |->
                     IF j = s \/ j \notin RingMembers(ring) \cap ready THEN Nobody
                     ELSE [passed[j] EXCEPT ![s] = IF @ = 2 THEN 2 ELSE @ + 1]]
  BY <1>q, <1>n, <1>s DEF TurnInv, Served
<1>2. /\ s \in RingMembers(ring) /\ Offset(ring, s) = o
      /\ TurnRing(q) /\ RingMembers(q) = RingMembers(ring)
      /\ \A x \in RingMembers(ring) :
            /\ Offset(ring, x) \in 0 .. RingLen(ring) - 1
            /\ Offset(ring, x) = o => x = s
            /\ Offset(q, x) = IF Offset(ring, x) > o THEN Offset(ring, x) - o - 1
                              ELSE Offset(ring, x) + RingLen(ring) - o - 1
  BY <1>1, <1>s, TurnTaken
<1>3. s \in Entrants /\ RingLen(ring) \in Nat
  BY <1>1, <1>2, TurnShape
<1>4. count \in Turns
  <2> SUFFICES ASSUME NEW j \in Entrants PROVE count[j] \in [Entrants -> 0 .. 2]
    BY <1>1 DEF Turns
  <2>1. passed[j] \in [Entrants -> 0 .. 2]
    BY <1>1 DEF Turns
  <2>2. (IF passed[j][s] = 2 THEN 2 ELSE passed[j][s] + 1) \in 0 .. 2
    BY <1>3, <2>1
  <2> QED BY <1>1, <1>3, <2>1, <2>2, NobodyType
<1>5. Waits(q, ready, count)
  <2> SUFFICES ASSUME NEW j \in RingMembers(q) \cap ready, NEW x \in Entrants, count[j][x] # 0
               PROVE  count[j][x] = 1 /\ x \in RingMembers(q) /\ Offset(q, j) < Offset(q, x)
    BY DEF Waits
  <2>1. j \in RingMembers(ring) /\ j \in ready /\ j \in Entrants
    BY <1>1, <1>2
  <2>2. j # s
    BY <1>1, <2>1, NobodyType
  <2>3. PICK f \in 0 .. RingLen(ring) - 1 : f = Offset(ring, j)
    BY <1>2, <2>1
  <2>4. f > o /\ Offset(q, j) = f - o - 1
    <3>1. f >= o /\ f # o
      BY <1>2, <2>1, <2>2, <2>3
    <3>2. f > o
      BY <1>3, <2>3, <3>1
    <3> QED BY <1>2, <2>1, <2>3, <3>2
  <2>5. /\ passed[j] \in [Entrants -> 0 .. 2]
        /\ count[j] = [passed[j] EXCEPT ![s] = IF @ = 2 THEN 2 ELSE @ + 1]
    BY <1>1, <2>1, <2>2 DEF Turns
  <2>6. \A y \in Entrants :
           passed[j][y] = 0 \/ (passed[j][y] = 1 /\ y \in RingMembers(ring) /\ f < Offset(ring, y))
    BY <1>1, <2>1, <2>3 DEF Waits
  <2>7. CASE x = s
    <3>1. passed[j][s] = 0
      <4>1. ~(f < Offset(ring, s))
        BY <1>2, <1>3, <2>3, <2>4
      <4> QED BY <1>3, <2>6, <4>1
    <3>2. count[j][s] = 1
      BY <1>3, <2>5, <3>1
    <3>3. Offset(q, s) = o + RingLen(ring) - o - 1
      BY <1>2, <1>3
    <3>4. f - o - 1 < o + RingLen(ring) - o - 1
      BY <1>3, <2>3, <2>4
    <3> QED BY <1>2, <2>4, <2>7, <3>2, <3>3, <3>4
  <2>8. CASE x # s
    <3>1. count[j][x] = passed[j][x]
      BY <2>5, <2>8
    <3>2. passed[j][x] = 1 /\ x \in RingMembers(ring) /\ f < Offset(ring, x)
      BY <2>6, <3>1
    <3>3. PICK g \in 0 .. RingLen(ring) - 1 : g = Offset(ring, x)
      BY <1>2, <3>2
    <3>4. g > o /\ f - o - 1 < g - o - 1
      BY <1>3, <2>3, <2>4, <3>2, <3>3
    <3>5. Offset(q, x) = g - o - 1
      BY <1>2, <3>2, <3>3, <3>4
    <3> QED BY <1>2, <2>4, <3>1, <3>2, <3>4, <3>5
  <2> QED BY <2>7, <2>8
<1> QED BY <1>q, <1>n, <1>1, <1>2, <1>4, <1>5 DEF TurnInv
\* NextMatch: every waiting entry matches, so none stands before the first match.
LEMMA NextMatchWaits == ASSUME TurnInv, NextMatch PROVE TurnInv'
<1>1. TurnRing(ring) /\ Matching(ring, ready) # {}
  BY DEF TurnInv, NextMatch
<1>2. RingLen(ring) \in Nat /\ Matching(ring, ready) \subseteq 0 .. RingLen(ring) - 1
  BY <1>1, TurnShape DEF Matching
<1>3. RingLen(ring) > 0
  BY <1>1, <1>2
<1>4. PICK m \in Matching(ring, ready) : \A x \in Matching(ring, ready) : m <= x
  <2>1. Matching(ring, ready) \subseteq Nat
    BY <1>2
  <2> QED BY <1>1, <2>1, LeastNumber
<1>5. PICK o : /\ o = CHOOSE y \in Matching(ring, ready) : \A x \in Matching(ring, ready) : y <= x
               /\ o \in Matching(ring, ready) /\ \A x \in Matching(ring, ready) : o <= x
  BY <1>4
<1>6. o \in 0 .. RingLen(ring) - 1
  BY <1>2, <1>5
<1>7. PICK p : p = (ring.cursor + o) % RingLen(ring)
  OBVIOUS
<1>8. MatchPos(ring, ready) = p
  BY <1>5, <1>7 DEF MatchPos
<1>9. Served(At(ring, p).key) /\ ring' = [ring EXCEPT !.cursor = (p + 1) % RingLen(ring)]
  BY <1>8 DEF NextMatch, RingNextMatch, AfterTurn
<1>10. ASSUME NEW j \in RingMembers(ring) \cap ready
       PROVE  Offset(ring, j) >= o
  <2>1. PICK p0 \in 0 .. RingLen(ring) - 1 : p0 = o
    BY <1>6
  <2>2. PICK q0 : q0 = [ring EXCEPT !.cursor = (p + 1) % RingLen(ring)]
    OBVIOUS
  <2>3. Offset(ring, j) \in 0 .. RingLen(ring) - 1
    BY <1>1, <1>3, <1>6, <1>7, <2>2, TurnTaken
  <2>4. PICK f \in 0 .. RingLen(ring) - 1 : f = Offset(ring, j)
    BY <2>3
  <2>5. PICK pf : pf = (ring.cursor + f) % RingLen(ring)
    OBVIOUS
  <2>6. PICK qf : qf = [ring EXCEPT !.cursor = (pf + 1) % RingLen(ring)]
    OBVIOUS
  <2>7. At(ring, pf).value = At(ring, pf).key /\ At(ring, pf).key = j
    BY <1>1, <1>3, <2>4, <2>5, <2>6, TurnTaken
  <2>8. f \in Matching(ring, ready)
    BY <2>4, <2>5, <2>7 DEF Matching
  <2>9. o <= f /\ o \in Int /\ f \in Int
    BY <1>2, <1>5, <1>6, <2>4, <2>8
  <2> QED BY <2>4, <2>9
<1> QED BY <1>3, <1>6, <1>7, <1>9, <1>10, ServedWaits

\* Next: nothing stands before the cursor.
LEMMA NextWaits == ASSUME TurnInv, Next PROVE TurnInv'
<1>1. TurnRing(ring)
  BY DEF TurnInv
<1>2. RingLen(ring) \in Nat /\ ring.cursor \in Nat /\ ring.cursor < RingLen(ring) /\ RingLen(ring) > 0
  BY <1>1, TurnShape DEF Next
<1>3. ring.cursor = (ring.cursor + 0) % RingLen(ring)
  <2>1. ring.cursor \in 0 .. 2 * RingLen(ring) - 1
    BY <1>2
  <2>2. ring.cursor % RingLen(ring) = ring.cursor
    BY <1>2, <2>1, ModOnce
  <2> QED BY <1>2, <2>2
<1>4. PICK p : p = ring.cursor
  OBVIOUS
<1>5. PICK o \in 0 .. RingLen(ring) - 1 : o = 0 /\ p = (ring.cursor + o) % RingLen(ring)
  BY <1>2, <1>3, <1>4
<1>6. Served(At(ring, p).key) /\ ring' = [ring EXCEPT !.cursor = (p + 1) % RingLen(ring)]
  BY <1>4 DEF Next, RingNext
<1>7. PICK q : q = [ring EXCEPT !.cursor = (p + 1) % RingLen(ring)]
  OBVIOUS
<1>8. \A j \in RingMembers(ring) : Offset(ring, j) \in 0 .. RingLen(ring) - 1
  BY <1>1, <1>2, <1>5, <1>7, TurnTaken
<1>9. \A j \in RingMembers(ring) \cap ready : Offset(ring, j) >= o
  BY <1>2, <1>5, <1>8
<1> QED BY <1>2, <1>5, <1>6, <1>9, ServedWaits

LEMMA ClearWaits == ASSUME TurnInv, Clear PROVE TurnInv'
<1>1. /\ ring' = EmptyRing /\ ready' = ready /\ ready \subseteq Entrants
      /\ passed' = [j \in Entrants |-> Nobody]
  BY DEF TurnInv, Clear
<1>2. [j \in Entrants |-> Nobody] \in Turns
  BY NobodyType DEF Turns
<1>3. TurnRing(EmptyRing) /\ \A who, count : Waits(EmptyRing, who, count)
  BY EmptyTurns DEF Waits
<1> QED BY <1>1, <1>2, <1>3 DEF TurnInv

\* One turn per lap, for any ring of any keys: while an entry stays in the ring
\* and keeps matching, no other that stays gets two turns before it gets one,
\* whatever joins, leaves or stops matching meanwhile (ringbuffer.go: Next,
\* NextMatch and the cursor that Remove adjusts).
THEOREM TurnSafety == RingSpec => []FairTurns
<1>1. RingInit => TurnInv
  <2>1. [j \in Entrants |-> Nobody] \in Turns
    BY NobodyType DEF Turns
  <2>2. TurnRing(EmptyRing) /\ \A who, count : Waits(EmptyRing, who, count)
    BY EmptyTurns DEF Waits
  <2> QED BY <2>1, <2>2 DEF RingInit, TurnInv
<1>2. TurnInv /\ [RingStep]_ringVars => TurnInv'
  <2> SUFFICES ASSUME TurnInv, [RingStep]_ringVars PROVE TurnInv'
    OBVIOUS
  <2>1. ASSUME NEW k \in Entrants, Upsert(k) PROVE TurnInv'
    BY <2>1, UpsertWaits
  <2>2. ASSUME NEW k \in Entrants, RemoveKey(k) PROVE TurnInv'
    BY <2>2, RemoveWaits
  <2>3. ASSUME NEW k \in Entrants, Toggle(k) PROVE TurnInv'
    BY <2>3, ToggleWaits
  <2>4. CASE NextMatch
    BY <2>4, NextMatchWaits
  <2>5. CASE Next
    BY <2>5, NextWaits
  <2>6. CASE Clear
    BY <2>6, ClearWaits
  <2>7. CASE UNCHANGED ringVars
    BY <2>7 DEF TurnInv, ringVars, TurnRing, Waits
  <2> QED BY <2>1, <2>2, <2>3, <2>4, <2>5, <2>6, <2>7 DEF RingStep
<1>3. TurnInv => FairTurns
  <2> SUFFICES ASSUME TurnInv, NEW j \in RingMembers(ring) \cap ready, NEW k \in Entrants
               PROVE  passed[j][k] <= 1
    BY DEF FairTurns
  <2>1. passed[j][k] = 0 \/ passed[j][k] = 1
    BY DEF TurnInv, Waits
  <2> QED BY <2>1
<1> QED BY <1>1, <1>2, <1>3, PTL DEF RingSpec

=============================================================================
