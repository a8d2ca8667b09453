---------------------------- MODULE ResultProofs ----------------------------
(***************************************************************************)
(* Proofs about module ResultDelivery, for any number of submissions, keys, *)
(* instances and executions, any caps, and any course of lost connections,  *)
(* retention passes, deletions and callers that give up.                    *)
(*                                                                          *)
(* The table invariant is not inductive without the typing of everything a   *)
(* UUID travels through (queues, readers, captures, the retention list), for *)
(* a deletion that named no job would leave the tables apart; the waiter     *)
(* invariant needs what the latest registration says of a submission that    *)
(* is not waiting yet.                                                       *)
(*                                                                          *)
(* That nothing is lost needs the whole way of a job submitted once: its     *)
(* upsert travels once, it settles once, every copy of its result in a       *)
(* table, a sender's list or a queue is that one result bound for that one   *)
(* submission, which waits under its own job until it returns, and nothing   *)
(* is acknowledged that did not arrive.                                      *)
(***************************************************************************)
EXTENDS ResultDelivery, TLAPS, FiniteSetTheorems, SequenceTheorems

-----------------------------------------------------------------------------
(* The inductive invariant.                                                  *)

Marks == 0 .. MaxExecution
Owners == Instances \cup {NoInstance}
SubmissionStates == {"new", "sent", "replied", "awaiting", "done", "closed", "failed"}
CaptureStates == {"none", "store", "deliver", "done", "dropped"}
JobRecords == [uuid : 0 .. MaxSubmission, inst : Owners]
ToClient == [type : {"reply"}, sub : Submissions, uuid : UUIDs]
              \cup [type : {"delivery"}, uuid : UUIDs, exec : Marks]
ToEngine == [type : {"upsert"}, sub : Submissions] \cup [type : {"ack"}, uuid : UUIDs]
Listed == [uuid : UUIDs, inst : Instances, exec : Marks]

StoreType ==
    /\ jobs \in [Keys -> JobRecords] /\ due \in [Keys -> Nat] /\ settled \in Marks
    /\ results \in [UUIDs -> [inst : Owners, exec : Marks]]
    /\ byInstance \in [Instances -> Seq(UUIDs)]

ClientType ==
    /\ sub \in [Submissions -> [pc : SubmissionStates, uuid : UUIDs, chan : Marks, got : Marks]]
    /\ waiters \in [Instances -> [UUIDs -> 0 .. MaxSubmission]]
    /\ latest \in [Instances -> [UUIDs -> 0 .. MaxSubmission]]
    /\ missed \subseteq Submissions

WireType ==
    /\ up \subseteq Instances
    /\ toClient \in [Instances -> Seq(ToClient)] /\ toEngine \in [Instances -> Seq(ToEngine)]

EngineType ==
    /\ capture \in [Executions -> [pc : CaptureStates, uuid : 0 .. MaxSubmission, inst : Owners]]
    /\ reader \in [Instances -> [pc : {"idle", "reply", "delete"}, uuid : 0 .. MaxSubmission,
                                 sub : 0 .. MaxSubmission]]
    /\ outbox \in [Senders -> Seq(Listed)]
    /\ evict \subseteq UUIDs /\ deleting \in JobRecords
    /\ drops \in Nat /\ evictions \in Nat /\ excused \subseteq Executions

\* Every variable of result delivery keeps its type.
ResultsTypeOK == StoreType /\ ClientType /\ WireType /\ EngineType

\* Whoever is about to act on a job names one.
NamesOK ==
    /\ \A k \in Keys : jobs[k].uuid # 0 => jobs[k].inst \in Instances
    /\ \A e \in Executions : capture[e].pc \in {"store", "deliver"} =>
          capture[e].uuid \in UUIDs /\ capture[e].inst \in Instances
    /\ \A i \in Instances : /\ reader[i].pc # "idle" => reader[i].uuid \in UUIDs
                            /\ reader[i].pc = "reply" => reader[i].sub \in Submissions

\* A held result names the instance it is held for, a free slot of the table none.
OwnersOK ==
    \A u \in UUIDs : IF results[u].exec = 0 THEN results[u].inst = NoInstance
                     ELSE results[u].inst \in Instances

\* A submission that was last to register under a job is its waiter until it
\* returns; before it is answered the job can only be its own.
WaitersOK ==
    \A i \in Instances, u \in UUIDs :
        LET s == latest[i][u] IN
        s # 0 =>
            /\ InstOf[s] = i /\ sub[s].pc # "new"
            /\ sub[s].pc \in {"sent", "replied"} => u = s /\ waiters[i][u] = s
            /\ sub[s].pc = "awaiting" /\ sub[s].uuid = u => waiters[i][u] = s

ResultsInv == ResultsTypeOK /\ NamesOK /\ OwnersOK /\ ResultTablesAgree /\ WaitersOK

-----------------------------------------------------------------------------
(* The operators.                                                            *)

USE ResultsAssumption DEF Submissions, UUIDs, Executions

\* The job a list names once is the only one removed from it.
LEMMA RemoveFirstProperties ==
    ASSUME NEW S, NEW s \in Seq(S), IsInjective(s), NEW e
    PROVE  /\ RemoveFirst(s, e) \in Seq(S) /\ IsInjective(RemoveFirst(s, e))
           /\ Range(RemoveFirst(s, e)) = Range(s) \ {e}
           /\ Len(RemoveFirst(s, e)) <= Len(s)
<1>1. Len(s) \in Nat /\ DOMAIN s = 1 .. Len(s) /\ \A i \in 1 .. Len(s) : s[i] \in S
  BY LenProperties, ElementOfSeq
<1>2. CASE ~ \E i \in 1 .. Len(s) : s[i] = e
  <2>1. RemoveFirst(s, e) = s
    BY <1>2 DEF RemoveFirst
  <2>2. e \notin Range(s)
    BY <1>1, <1>2 DEF Range
  <2> QED BY <1>1, <2>1, <2>2
<1>3. CASE \E i \in 1 .. Len(s) : s[i] = e
  <2>1. PICK k \in 1 .. Len(s) : s[k] = e
    BY <1>3
  <2>0. k \in Nat /\ Len(s) \in Nat /\ 1 <= k /\ k <= Len(s)
    BY <1>1
  <2>2. {i \in 1 .. Len(s) : s[i] = e} = {k}
    BY <1>1, <2>1 DEF IsInjective
  <2>3. Min({k}) = k
    BY <2>1 DEF Min
  <2>4. RemoveFirst(s, e) = RemoveAt(s, k)
    BY <1>3, <2>2, <2>3 DEF RemoveFirst, SelectInSeq
  <2> DEFINE front == SubSeq(s, 1, k - 1)
             back == SubSeq(s, k + 1, Len(s))
             rest == front \o back
  <2>5. front \in Seq(S) /\ Len(front) = k - 1 /\ \A i \in 1 .. k - 1 : front[i] = s[i]
    <3>1. 1 \in Int /\ k - 1 \in Int /\ \A i \in 1 .. k - 1 : s[i] \in S
      BY <1>1
    <3>2. /\ front \in Seq(S) /\ Len(front) = IF 1 <= k - 1 THEN (k - 1) - 1 + 1 ELSE 0
          /\ \A i \in 1 .. (k - 1) - 1 + 1 : front[i] = s[1 + i - 1]
      BY <3>1, SubSeqProperties
    <3> HIDE DEF front
    <3> QED BY <1>1, <3>2
  <2>6. back \in Seq(S) /\ Len(back) = Len(s) - k /\ \A i \in 1 .. Len(s) - k : back[i] = s[k + i]
    <3>1. k + 1 \in Int /\ Len(s) \in Int /\ \A i \in k + 1 .. Len(s) : s[i] \in S
      BY <1>1
    <3>2. /\ back \in Seq(S) /\ Len(back) = IF k + 1 <= Len(s) THEN Len(s) - (k + 1) + 1 ELSE 0
          /\ \A i \in 1 .. Len(s) - (k + 1) + 1 : back[i] = s[(k + 1) + i - 1]
      BY <3>1, SubSeqProperties
    <3> HIDE DEF back
    <3>3. Len(back) = Len(s) - k
      <4>1. Len(back) = IF k + 1 <= Len(s) THEN Len(s) - (k + 1) + 1 ELSE 0
        BY <3>2
      <4>2. k + 1 <= Len(s) \/ k = Len(s)
        BY <2>0
      <4>3. Len(s) - (k + 1) + 1 = Len(s) - k
        BY <2>0
      <4>4. CASE k + 1 <= Len(s)
        BY <4>1, <4>3, <4>4
      <4>5. CASE k = Len(s)
        <5>1. ~(k + 1 <= Len(s)) /\ Len(s) - k = 0
          BY <2>0, <4>5
        <5> QED BY <4>1, <5>1
      <4> QED BY <4>2, <4>4, <4>5
    <3>4. ASSUME NEW i \in 1 .. Len(s) - k PROVE back[i] = s[k + i]
      <4>1. i \in 1 .. Len(s) - (k + 1) + 1 /\ (k + 1) + i - 1 = k + i
        BY <2>0
      <4> QED BY <3>2, <4>1
    <3> QED BY <3>2, <3>3, <3>4
  <2> HIDE DEF front, back
  <2>7. /\ rest \in Seq(S) /\ Len(rest) = Len(front) + Len(back)
        /\ \A i \in 1 .. Len(front) + Len(back) :
              rest[i] = IF i <= Len(front) THEN front[i] ELSE back[i - Len(front)]
    BY ZenonT(60), <2>5, <2>6, ConcatProperties
  <2>8. RemoveFirst(s, e) = rest
    BY <2>4 DEF RemoveAt, front, back
  <2> HIDE DEF rest
  <2>9. /\ DOMAIN rest = 1 .. Len(s) - 1 /\ Len(rest) = Len(s) - 1
        /\ \A i \in 1 .. Len(s) - 1 : rest[i] = IF i < k THEN s[i] ELSE s[i + 1]
    <3>1. Len(rest) = Len(s) - 1 /\ DOMAIN rest = 1 .. Len(rest)
      BY <1>1, <2>5, <2>6, <2>7, LenProperties
    <3>2. ASSUME NEW i \in 1 .. Len(s) - 1 PROVE rest[i] = IF i < k THEN s[i] ELSE s[i + 1]
      <4>1. CASE i < k
        <5>1. i <= Len(front) /\ i \in 1 .. Len(front) + Len(back) /\ i \in 1 .. k - 1
          BY <1>1, <2>5, <2>6, <4>1
        <5> QED BY <2>5, <2>7, <4>1, <5>1
      <4>2. CASE i >= k
        <5>0. /\ ~(i <= Len(front)) /\ i \in 1 .. Len(front) + Len(back)
              /\ i - (k - 1) \in 1 .. Len(s) - k
          BY <2>0, <2>5, <2>6, <4>2
        <5>1. rest[i] = back[i - (k - 1)] /\ i - (k - 1) \in 1 .. Len(s) - k
          BY <2>5, <2>7, <5>0
        <5>2. back[i - (k - 1)] = s[k + (i - (k - 1))]
          BY <2>6, <5>1
        <5>3. k + (i - (k - 1)) = i + 1
          OBVIOUS
        <5> QED BY <4>2, <5>1, <5>2, <5>3
      <4> QED BY <4>1, <4>2
    <3> QED BY <3>1, <3>2
  <2>10. IsInjective(rest)
    <3> SUFFICES ASSUME NEW i \in 1 .. Len(s) - 1, NEW j \in 1 .. Len(s) - 1, rest[i] = rest[j] PROVE i = j
      BY <2>9 DEF IsInjective
    <3>1. \A m, n \in 1 .. Len(s) : s[m] = s[n] => m = n
      BY <1>1 DEF IsInjective
    <3> QED BY <1>1, <2>9, <3>1
  <2>11. Range(rest) = Range(s) \ {e}
    <3>1. ASSUME NEW x \in Range(rest) PROVE x \in Range(s) \ {e}
      <4>1. PICK i \in 1 .. Len(s) - 1 : x = rest[i]
        BY <2>9, <3>1 DEF Range
      <4>2. PICK j \in 1 .. Len(s) : x = s[j] /\ j # k
        BY <1>1, <2>9, <4>1
      <4> QED BY <1>1, <2>1, <4>2 DEF Range, IsInjective
    <3>2. ASSUME NEW x \in Range(s) \ {e} PROVE x \in Range(rest)
      <4>1. PICK j \in 1 .. Len(s) : x = s[j] /\ j # k
        BY <1>1, <2>1, <3>2 DEF Range
      <4>2. CASE j < k
        <5>1. j \in 1 .. Len(s) - 1 /\ rest[j] = x
          BY <1>1, <2>9, <4>1, <4>2
        <5> QED BY <2>9, <5>1 DEF Range
      <4>3. CASE j > k
        <5>1. j - 1 \in 1 .. Len(s) - 1 /\ rest[j - 1] = x
          BY <1>1, <2>9, <4>1, <4>3
        <5> QED BY <2>9, <5>1 DEF Range
      <4> QED BY <4>1, <4>2, <4>3
    <3> QED BY <3>1, <3>2
  <2> QED BY <1>1, <2>7, <2>8, <2>9, <2>10, <2>11
<1> QED BY <1>2, <1>3

\* A job that is appended to a list that does not name it is named once.
LEMMA AppendNew ==
    ASSUME NEW S, NEW s \in Seq(S), IsInjective(s), NEW e \in S, e \notin Range(s)
    PROVE  /\ Append(s, e) \in Seq(S) /\ IsInjective(Append(s, e))
           /\ Range(Append(s, e)) = Range(s) \cup {e}
           /\ Len(Append(s, e)) = Len(s) + 1
<1>1. Len(s) \in Nat /\ DOMAIN s = 1 .. Len(s) /\ \A i \in 1 .. Len(s) : s[i] # e
  BY LenProperties DEF Range
<1>2. /\ Append(s, e) \in Seq(S) /\ Len(Append(s, e)) = Len(s) + 1
      /\ \A i \in 1 .. Len(s) : Append(s, e)[i] = s[i]
      /\ Append(s, e)[Len(s) + 1] = e
  BY AppendProperties
<1>3. DOMAIN Append(s, e) = 1 .. Len(s) + 1
  BY <1>1, <1>2, LenProperties
<1> DEFINE t == Append(s, e)
<1> HIDE DEF t
<1>4. IsInjective(t)
  BY <1>1, <1>2, <1>3 DEF t, IsInjective
<1>5. Range(t) = Range(s) \cup {e}
  BY <1>1, <1>2, <1>3 DEF t, Range
<1> QED BY <1>2, <1>4, <1>5 DEF t

-----------------------------------------------------------------------------
(* The two result tables.                                                    *)

\* The tables keep their types.
TablesType ==
    /\ results \in [UUIDs -> [inst : Owners, exec : Marks]]
    /\ byInstance \in [Instances -> Seq(UUIDs)]

\* The held jobs are finitely many, and count by ones.
LEMMA HeldFacts ==
    /\ IsFiniteSet(Held) /\ Cardinality(Held) \in Nat
    /\ \A u : u \notin Held => Cardinality(Held \cup {u}) = Cardinality(Held) + 1
    /\ \A u : Cardinality(Held \ {u}) <= Cardinality(Held)
<1>1. IsFiniteSet(1 .. MaxSubmission)
  BY FS_Interval
<1>2. IsFiniteSet(Held)
  BY <1>1, FS_Subset DEF Held
<1>3. Cardinality(Held) \in Nat
  BY <1>2, FS_CardinalityType
<1>4. \A u : u \notin Held => Cardinality(Held \cup {u}) = Cardinality(Held) + 1
  BY <1>2, FS_AddElement
<1>5. \A u : Cardinality(Held \ {u}) <= Cardinality(Held)
  <2> SUFFICES ASSUME NEW u PROVE Cardinality(Held \ {u}) <= Cardinality(Held)
    OBVIOUS
  <2>1. Cardinality(Held \ {u}) = IF u \in Held THEN Cardinality(Held) - 1 ELSE Cardinality(Held)
    BY <1>2, FS_RemoveElement
  <2> QED BY <1>3, <2>1
<1> QED BY <1>2, <1>3, <1>4, <1>5

\* Taking a held job off its list: the one that names it is its owner's.
LEMMA DetachedProperties ==
    ASSUME TablesType, OwnersOK, ResultTablesAgree, NEW u \in UUIDs
    PROVE  /\ Detached(u) \in [Instances -> Seq(UUIDs)]
           /\ \A i \in Instances :
                 /\ Len(Detached(u)[i]) <= MaxPerInstance /\ Len(Detached(u)[i]) <= Len(byInstance[i])
                 /\ IsInjective(Detached(u)[i])
                 /\ Range(Detached(u)[i]) = Range(byInstance[i]) \ {u}
<1>0. \A i \in Instances : /\ byInstance[i] \in Seq(UUIDs) /\ IsInjective(byInstance[i])
                           /\ Len(byInstance[i]) \in Nat /\ Len(byInstance[i]) <= MaxPerInstance
                           /\ Range(byInstance[i]) = {v \in Held : results[v].inst = i}
  BY LenProperties DEF ResultTablesAgree, TablesType
<1>1. CASE results[u].exec = 0
  <2>1. Detached(u) = byInstance /\ u \notin Held
    BY <1>1 DEF Detached, Held
  <2>2. \A i \in Instances : Range(byInstance[i]) \ {u} = Range(byInstance[i])
    BY <1>0, <2>1
  <2> QED BY <1>0, <2>1, <2>2 DEF TablesType
<1>2. CASE results[u].exec # 0
  <2> DEFINE o == results[u].inst
             rest == RemoveFirst(byInstance[o], u)
  <2>1. o \in Instances
    BY <1>2 DEF OwnersOK
  <2>2. /\ rest \in Seq(UUIDs) /\ IsInjective(rest) /\ Range(rest) = Range(byInstance[o]) \ {u}
        /\ Len(rest) <= Len(byInstance[o]) /\ Len(rest) \in Nat
    BY <1>0, <2>1, RemoveFirstProperties, LenProperties
  <2>3. Detached(u) = [byInstance EXCEPT ![o] = rest]
    BY <1>2 DEF Detached
  <2> HIDE DEF rest
  <2>4. Detached(u) \in [Instances -> Seq(UUIDs)]
        /\ \A i \in Instances : Detached(u)[i] = IF i = o THEN rest ELSE byInstance[i]
    BY <2>1, <2>2, <2>3 DEF TablesType
  <2>5. \A i \in Instances : i # o => u \notin Range(byInstance[i])
    BY <1>0
  <2> HIDE DEF o
  <2>6. ASSUME NEW i \in Instances
        PROVE  /\ Len(Detached(u)[i]) <= MaxPerInstance /\ Len(Detached(u)[i]) <= Len(byInstance[i])
               /\ IsInjective(Detached(u)[i])
               /\ Range(Detached(u)[i]) = Range(byInstance[i]) \ {u}
    <3>1. CASE i = o
      <4>1. Detached(u)[i] = rest
        BY <2>4, <3>1
      <4>2. Len(rest) <= MaxPerInstance
        BY <1>0, <2>1, <2>2
      <4> QED BY <2>2, <3>1, <4>1, <4>2
    <3>2. CASE i # o
      <4>1. Detached(u)[i] = byInstance[i] /\ Range(byInstance[i]) \ {u} = Range(byInstance[i])
        BY <2>4, <2>5, <3>2
      <4> QED BY <1>0, <4>1
    <3> QED BY <3>1, <3>2
  <2> QED BY <2>4, <2>6
<1> QED BY <1>1, <1>2

\* A deletion keeps the tables in step, also of a job nothing is held for.
LEMMA DeleteTables ==
    ASSUME TablesType, OwnersOK, ResultTablesAgree, NEW u \in UUIDs, DeleteResult(u)
    PROVE  TablesType' /\ OwnersOK' /\ ResultTablesAgree'
<1>1. \A v \in UUIDs : results'[v] = IF v = u THEN NoResult ELSE results[v]
  BY DEF DeleteResult, TablesType
<1>2. byInstance' = Detached(u)
  BY DEF DeleteResult
<1>3. TablesType'
  <2>1. NoResult \in [inst : Owners, exec : Marks]
    BY DEF NoResult, Owners, Marks
  <2> QED BY <1>2, <2>1, DetachedProperties DEF TablesType, DeleteResult
<1>4. OwnersOK'
  BY <1>1 DEF OwnersOK, NoResult
<1>5. Held' = Held \ {u}
  BY <1>1 DEF Held, NoResult
<1>6. Cardinality(Held') <= MaxResults
  <2>1. Cardinality(Held) <= MaxResults /\ Cardinality(Held) \in Nat /\ Cardinality(Held \ {u}) <= Cardinality(Held)
    BY HeldFacts DEF ResultTablesAgree
  <2>2. Cardinality(Held \ {u}) \in Nat
    BY HeldFacts, FS_RemoveElement, FS_CardinalityType
  <2> QED BY <1>5, <2>1, <2>2
<1>7. ASSUME NEW i \in Instances
      PROVE  /\ Len(byInstance'[i]) <= MaxPerInstance /\ IsInjective(byInstance'[i])
             /\ Range(byInstance'[i]) = {v \in Held' : results'[v].inst = i}
  <2>1. Range(byInstance[i]) = {v \in Held : results[v].inst = i}
    BY DEF ResultTablesAgree
  <2>2. Range(byInstance'[i]) = Range(byInstance[i]) \ {u}
    BY <1>2, DetachedProperties
  <2>3. \A v \in Held' : v \in Held /\ v # u /\ results'[v] = results[v]
    BY <1>1, <1>5 DEF Held
  <2>4. {v \in Held' : results'[v].inst = i} = {v \in Held : results[v].inst = i} \ {u}
    BY <1>5, <2>3
  <2> QED BY <1>2, <2>1, <2>2, <2>4, DetachedProperties
<1> QED BY <1>3, <1>4, <1>6, <1>7 DEF ResultTablesAgree

\* Storing a result within the caps keeps the tables in step: the job is listed
\* anew, stays where it is, or moves to its new submitter.
LEMMA StoreTables ==
    ASSUME TablesType, OwnersOK, ResultTablesAgree,
           NEW u \in UUIDs, NEW i \in Instances, NEW e \in Executions,
           Fits(u, i), StoreResult(u, i, e)
    PROVE  TablesType' /\ OwnersOK' /\ ResultTablesAgree'
<1>1. \A v \in UUIDs : results'[v] = IF v = u THEN [inst |-> i, exec |-> e] ELSE results[v]
  BY DEF StoreResult, TablesType
<1>2. /\ \A v \in UUIDs : v # u => results'[v] = results[v]
      /\ results'[u].inst = i /\ results'[u].exec = e /\ e # 0
  BY SMTT(30), <1>1
<1>3. Held' = Held \cup {u}
  BY <1>2 DEF Held
<1>4. OwnersOK'
  BY <1>2 DEF OwnersOK
<1>5. results' \in [UUIDs -> [inst : Owners, exec : Marks]]
  BY DEF StoreResult, TablesType, Owners, Marks
<1>6. Cardinality(Held') <= MaxResults
  <2>1. Cardinality(Held) <= MaxResults /\ Cardinality(Held) \in Nat
    BY HeldFacts DEF ResultTablesAgree
  <2>2. CASE u \in Held
    <3>1. Held' = Held
      BY <1>3, <2>2
    <3> QED BY <2>1, <3>1
  <2>3. CASE u \notin Held
    <3>1. Cardinality(Held) < MaxResults
      BY <2>3 DEF Fits, Held
    <3>2. Cardinality(Held') = Cardinality(Held) + 1
      BY <1>3, <2>3, HeldFacts
    <3> QED BY <2>1, <3>1, <3>2
  <2> QED BY <2>2, <2>3
<1>7. \A j \in Instances : /\ byInstance[j] \in Seq(UUIDs) /\ IsInjective(byInstance[j])
                           /\ Len(byInstance[j]) \in Nat /\ Len(byInstance[j]) <= MaxPerInstance
                           /\ Range(byInstance[j]) = {v \in Held : results[v].inst = j}
  BY LenProperties DEF ResultTablesAgree, TablesType
<1>8. CASE results[u].inst = i
  <2>1. byInstance' = byInstance /\ u \in Held
    <3>1. results[u].exec # 0
      BY <1>8 DEF OwnersOK
    <3> QED BY <1>8, <3>1 DEF StoreResult, Held
  <2>2. Held' = Held
    BY <1>3, <2>1
  <2>3. \A v \in Held : results'[v].inst = results[v].inst
    BY <1>2, <1>8 DEF Held
  <2>4. \A j \in Instances : {v \in Held' : results'[v].inst = j} = {v \in Held : results[v].inst = j}
    BY <2>2, <2>3
  <2> QED BY <1>4, <1>5, <1>6, <1>7, <2>1, <2>4 DEF TablesType, ResultTablesAgree
<1>9. CASE results[u].inst # i
  <2> DEFINE rest == Detached(u)[i]
  <2>1. /\ rest \in Seq(UUIDs) /\ IsInjective(rest) /\ Range(rest) = Range(byInstance[i]) \ {u}
        /\ Len(rest) <= Len(byInstance[i]) /\ Len(rest) \in Nat
    BY ZenonT(60), DetachedProperties, LenProperties
  <2>2. byInstance' = [Detached(u) EXCEPT ![i] = Append(@, u)]
    BY <1>9 DEF StoreResult
  <2>3. Len(byInstance[i]) < MaxPerInstance
    BY <1>9 DEF Fits
  <2>4. u \notin Range(rest)
    BY <2>1
  <2> HIDE DEF rest
  <2>5. /\ Append(rest, u) \in Seq(UUIDs) /\ IsInjective(Append(rest, u))
        /\ Range(Append(rest, u)) = Range(rest) \cup {u} /\ Len(Append(rest, u)) = Len(rest) + 1
    BY <2>1, <2>4, AppendNew
  <2>6. Len(Append(rest, u)) <= MaxPerInstance
    BY <1>7, <2>1, <2>3, <2>5
  <2>7. \A j \in Instances : byInstance'[j] = IF j = i THEN Append(rest, u) ELSE Detached(u)[j]
    BY <2>2, DetachedProperties DEF rest
  <2>8. byInstance' \in [Instances -> Seq(UUIDs)]
    BY <2>2, <2>5, DetachedProperties DEF rest
  <2>9. ASSUME NEW j \in Instances
        PROVE  /\ Len(byInstance'[j]) <= MaxPerInstance /\ IsInjective(byInstance'[j])
               /\ Range(byInstance'[j]) = {v \in Held' : results'[v].inst = j}
    <3>1. CASE j = i
      <4>1. byInstance'[j] = Append(rest, u)
        BY <2>7, <3>1
      <4>2. Range(Append(rest, u)) = Range(byInstance[i]) \cup {u}
        BY <2>1, <2>5
      <4>3. {v \in Held' : results'[v].inst = i} = {v \in Held : results[v].inst = i} \cup {u}
        BY <1>2, <1>3, <1>9 DEF Held
      <4> QED BY <1>7, <2>5, <2>6, <3>1, <4>1, <4>2, <4>3
    <3>2. CASE j # i
      <4>1. byInstance'[j] = Detached(u)[j]
        BY <2>7, <3>2
      <4>2. Range(Detached(u)[j]) = {v \in Held : results[v].inst = j} \ {u}
        BY <1>7, DetachedProperties
      <4>3. {v \in Held' : results'[v].inst = j} = {v \in Held : results[v].inst = j} \ {u}
        BY <1>2, <1>3, <3>2 DEF Held
      <4> QED BY <4>1, <4>2, <4>3, DetachedProperties
    <3> QED BY <3>1, <3>2
  <2> QED BY <1>4, <1>5, <1>6, <2>8, <2>9 DEF TablesType, ResultTablesAgree
<1> QED BY <1>8, <1>9

-----------------------------------------------------------------------------
(* Types.                                                                    *)

HIDE ResultsAssumption DEF Submissions, UUIDs, Executions

\* What the proofs below need of the constants.
LEMMA ConstantFacts ==
    /\ UUIDs = Submissions /\ Submissions \subseteq 0 .. MaxSubmission /\ 0 \notin Submissions
    /\ 0 \in 0 .. MaxSubmission /\ \A n \in 0 .. MaxSubmission : n # 0 => n \in Submissions
    /\ \A s \in Submissions : InstOf[s] \in Instances /\ KeyOf[s] \in Keys
    /\ 0 \in Marks /\ Executions \subseteq Marks /\ 0 \notin Executions
    /\ \A e \in Marks : e # 0 => e \in Executions
    /\ NoInstance \notin Instances /\ Instances \subseteq Owners /\ NoInstance \in Owners
    /\ Instances \subseteq Senders /\ "sweeper" \in Senders /\ Runs \in Nat
  BY ResultsAssumption DEF Submissions, UUIDs, Executions, Marks, Owners, Senders

USE DEF storeVars, clientVars, wireVars, engineVars, boundVars, ghostVars

\* A queue keeps its type when its head is taken or a message is appended.
LEMMA QueueTypes ==
    ASSUME WireType
    PROVE  /\ \A i \in Instances : toClient[i] # <<>> =>
                 /\ Head(toClient[i]) \in ToClient
                 /\ [toClient EXCEPT ![i] = Tail(toClient[i])] \in [Instances -> Seq(ToClient)]
           /\ \A i \in Instances : toEngine[i] # <<>> =>
                 /\ Head(toEngine[i]) \in ToEngine
                 /\ [toEngine EXCEPT ![i] = Tail(toEngine[i])] \in [Instances -> Seq(ToEngine)]
           /\ \A i \in Instances, m \in ToClient :
                 [toClient EXCEPT ![i] = Append(toClient[i], m)] \in [Instances -> Seq(ToClient)]
           /\ \A i \in Instances, m \in ToEngine :
                 [toEngine EXCEPT ![i] = Append(toEngine[i], m)] \in [Instances -> Seq(ToEngine)]
<1>1. \A i \in Instances : toClient[i] \in Seq(ToClient) /\ toEngine[i] \in Seq(ToEngine)
  BY DEF WireType
<1>2. \A i \in Instances : toClient[i] # <<>> =>
         Head(toClient[i]) \in ToClient /\ Tail(toClient[i]) \in Seq(ToClient)
  BY <1>1, HeadTailProperties
<1>3. \A i \in Instances : toEngine[i] # <<>> =>
         Head(toEngine[i]) \in ToEngine /\ Tail(toEngine[i]) \in Seq(ToEngine)
  BY <1>1, HeadTailProperties
<1>4. \A i \in Instances, m \in ToClient : Append(toClient[i], m) \in Seq(ToClient)
  BY <1>1, AppendProperties
<1>5. \A i \in Instances, m \in ToEngine : Append(toEngine[i], m) \in Seq(ToEngine)
  BY <1>1, AppendProperties
<1> QED BY <1>2, <1>3, <1>4, <1>5 DEF WireType

\* The kind of a message tells its fields.
LEMMA MessageFields ==
    /\ \A m \in ToClient : m.type = "reply" => m.sub \in Submissions /\ m.uuid \in UUIDs
    /\ \A m \in ToClient : m.type # "reply" => m.uuid \in UUIDs /\ m.exec \in Marks
    /\ \A m \in ToEngine : m.type = "upsert" => m.sub \in Submissions
    /\ \A m \in ToEngine : m.type = "ack" => m.uuid \in UUIDs
  BY DEF ToClient, ToEngine

\* ... and a message of these fields is one.
LEMMA MessageForms ==
    /\ \A s \in Submissions, u \in UUIDs : [type |-> "reply", sub |-> s, uuid |-> u] \in ToClient
    /\ \A u \in UUIDs, e \in Marks : [type |-> "delivery", uuid |-> u, exec |-> e] \in ToClient
    /\ \A s \in Submissions : [type |-> "upsert", sub |-> s] \in ToEngine
    /\ \A u \in UUIDs : [type |-> "ack", uuid |-> u] \in ToEngine
  BY DEF ToClient, ToEngine

LEMMA InitTypes == ResultsInit => ResultsTypeOK /\ NamesOK
<1> SUFFICES ASSUME ResultsInit PROVE ResultsTypeOK /\ NamesOK
  OBVIOUS
<1>1. StoreType
  <2>1. NoJob \in JobRecords /\ NoResult \in [inst : Owners, exec : Marks] /\ 0 \in Marks
    BY ConstantFacts DEF NoJob, NoResult, JobRecords
  <2> QED BY <2>1, EmptySeq, ConstantFacts DEF ResultsInit, StoreType
<1>2. ClientType
  <2> PICK c \in Courses :
         sub = [s \in Submissions |-> [pc |-> IF s \in c.who THEN "new" ELSE "failed",
                                       uuid |-> s, chan |-> 0, got |-> 0]]
    BY DEF ResultsInit
  <2>1. sub \in [Submissions -> [pc : SubmissionStates, uuid : UUIDs, chan : Marks, got : Marks]]
    BY ConstantFacts DEF SubmissionStates
  <2>2. [i \in Instances |-> [u \in UUIDs |-> 0]] \in [Instances -> [UUIDs -> 0 .. MaxSubmission]]
    BY ConstantFacts
  <2> QED BY <2>1, <2>2 DEF ResultsInit, ClientType
<1>3. WireType
  BY EmptySeq DEF ResultsInit, WireType
<1>4. EngineType
  <2>1. NoJob \in JobRecords /\ Idle \in [pc : {"idle", "reply", "delete"}, uuid : 0 .. MaxSubmission,
                                          sub : 0 .. MaxSubmission]
        /\ [pc |-> "none", uuid |-> 0, inst |-> NoInstance]
              \in [pc : CaptureStates, uuid : 0 .. MaxSubmission, inst : Owners]
    BY ConstantFacts DEF NoJob, JobRecords, Idle, CaptureStates
  <2>2. drops \in Nat /\ evictions \in Nat
    BY ResultsAssumption DEF ResultsInit
  <2> QED BY <2>1, <2>2, EmptySeq DEF ResultsInit, EngineType
<1>5. NamesOK
  BY DEF ResultsInit, NamesOK, NoJob, Idle
<1> QED BY <1>1, <1>2, <1>3, <1>4, <1>5 DEF ResultsTypeOK

SubmissionRecords == [pc : SubmissionStates, uuid : UUIDs, chan : Marks, got : Marks]

\* Submissions are updated field by field.
LEMMA SubmissionFields ==
    ASSUME ClientType, NEW s \in Submissions
    PROVE  /\ sub[s].pc \in SubmissionStates /\ sub[s].uuid \in UUIDs
           /\ sub[s].chan \in Marks /\ sub[s].got \in Marks
           /\ \A c \in SubmissionStates : [sub EXCEPT ![s].pc = c] \in [Submissions -> SubmissionRecords]
           /\ \A c \in SubmissionStates, u \in UUIDs :
                 [sub EXCEPT ![s].pc = c, ![s].uuid = u] \in [Submissions -> SubmissionRecords]
           /\ \A e \in Marks : [sub EXCEPT ![s].chan = e] \in [Submissions -> SubmissionRecords]
           /\ \A c \in SubmissionStates, e \in Marks :
                 [sub EXCEPT ![s].pc = c, ![s].chan = e] \in [Submissions -> SubmissionRecords]
           /\ \A c \in SubmissionStates, e, g \in Marks :
                 [sub EXCEPT ![s].pc = c, ![s].got = g, ![s].chan = e] \in [Submissions -> SubmissionRecords]
<1>1. sub \in [Submissions -> SubmissionRecords]
  BY DEF ClientType, SubmissionRecords
<1>2. /\ sub[s].pc \in SubmissionStates /\ sub[s].uuid \in UUIDs
      /\ sub[s].chan \in Marks /\ sub[s].got \in Marks
  BY <1>1 DEF SubmissionRecords
<1>3. \A c \in SubmissionStates : [sub EXCEPT ![s].pc = c] \in [Submissions -> SubmissionRecords]
  BY <1>1 DEF SubmissionRecords
<1>4. \A c \in SubmissionStates, u \in UUIDs :
         [sub EXCEPT ![s].pc = c, ![s].uuid = u] \in [Submissions -> SubmissionRecords]
  BY <1>1 DEF SubmissionRecords
<1>5. \A e \in Marks : [sub EXCEPT ![s].chan = e] \in [Submissions -> SubmissionRecords]
  BY <1>1 DEF SubmissionRecords
<1>6. \A c \in SubmissionStates, e \in Marks :
         [sub EXCEPT ![s].pc = c, ![s].chan = e] \in [Submissions -> SubmissionRecords]
  BY <1>1 DEF SubmissionRecords
<1>7. \A c \in SubmissionStates, e, g \in Marks :
         [sub EXCEPT ![s].pc = c, ![s].got = g, ![s].chan = e] \in [Submissions -> SubmissionRecords]
  BY <1>1 DEF SubmissionRecords
<1> QED BY <1>2, <1>3, <1>4, <1>5, <1>6, <1>7

\* A table of each client is updated entry by entry.
LEMMA TableTypes ==
    ASSUME NEW T \in [Instances -> [UUIDs -> 0 .. MaxSubmission]], NEW i \in Instances,
           NEW u \in UUIDs, NEW n \in 0 .. MaxSubmission
    PROVE  /\ [T EXCEPT ![i][u] = n] \in [Instances -> [UUIDs -> 0 .. MaxSubmission]]
           /\ \A j \in Instances, v \in UUIDs :
                 [T EXCEPT ![i][u] = n][j][v] = IF j = i /\ v = u THEN n ELSE T[j][v]
  OBVIOUS

\* What the client's steps do to the waiters: each entry is kept, freed by the
\* submission that held it, or taken by the submission that registers.
LEMMA WaiterSteps ==
    ASSUME ClientType, NEW s \in Submissions
    PROVE  LET i == InstOf[s] IN
           /\ SubmitJob(s) =>
                 \/ UNCHANGED <<waiters, latest>> /\ sub' = [sub EXCEPT ![s].pc = "failed"]
                 \/ /\ waiters' = [waiters EXCEPT ![i][s] = s] /\ latest' = [latest EXCEPT ![i][s] = s]
                    /\ sub' = [sub EXCEPT ![s].pc = "sent"]
           /\ Adopt(s) =>
                 \/ UNCHANGED <<waiters, latest>>
                 \/ /\ waiters' = [[waiters EXCEPT ![i][s] = 0] EXCEPT ![i][sub[s].uuid] = s]
                    /\ latest' = [latest EXCEPT ![i][sub[s].uuid] = s]
           /\ Await(s) \/ CloseSubmission(s) =>
                 /\ latest' = latest
                 /\ \E u \in UUIDs : \/ waiters' = waiters
                                     \/ waiters' = [waiters EXCEPT ![i][u] = 0] /\ waiters[i][u] = s
<1>1. sub[s].uuid \in UUIDs
  BY SubmissionFields
<1>2. SubmitJob(s) =>
         \/ UNCHANGED <<waiters, latest>> /\ sub' = [sub EXCEPT ![s].pc = "failed"]
         \/ /\ waiters' = [waiters EXCEPT ![InstOf[s]][s] = s] /\ latest' = [latest EXCEPT ![InstOf[s]][s] = s]
            /\ sub' = [sub EXCEPT ![s].pc = "sent"]
  BY DEF SubmitJob
<1>3. Adopt(s) =>
         \/ UNCHANGED <<waiters, latest>>
         \/ /\ waiters' = [[waiters EXCEPT ![InstOf[s]][s] = 0] EXCEPT ![InstOf[s]][sub[s].uuid] = s]
            /\ latest' = [latest EXCEPT ![InstOf[s]][sub[s].uuid] = s]
  BY DEF Adopt
<1>4. Await(s) \/ CloseSubmission(s) => latest' = latest /\ \E u \in UUIDs : waiters' = Released(u, s)
  <2>1. Await(s) => latest' = latest /\ waiters' = Released(sub[s].uuid, s)
    BY DEF Await
  <2>2. CloseSubmission(s) => latest' = latest /\ (waiters' = Released(sub[s].uuid, s) \/ waiters' = Released(s, s))
    BY DEF CloseSubmission
  <2>3. s \in UUIDs
    BY ConstantFacts
  <2> QED BY <1>1, <2>1, <2>2, <2>3
<1>5. \A u \in UUIDs : waiters' = Released(u, s) =>
         waiters' = waiters \/ (waiters' = [waiters EXCEPT ![InstOf[s]][u] = 0] /\ waiters[InstOf[s]][u] = s)
  BY DEF Released
<1> QED BY <1>2, <1>3, <1>4, <1>5

\* The client's steps.
LEMMA ClientTypes ==
    ASSUME ResultsTypeOK, NamesOK, NEW s \in Submissions,
           SubmitJob(s) \/ Adopt(s) \/ Await(s) \/ CloseSubmission(s)
    PROVE  ResultsTypeOK' /\ NamesOK'
<1> USE DEF ResultsTypeOK
<1>0. /\ InstOf[s] \in Instances /\ s \in 0 .. MaxSubmission /\ s \in UUIDs /\ 0 \in 0 .. MaxSubmission
      /\ sub[s].uuid \in UUIDs /\ sub[s].chan \in Marks /\ 0 \in Marks
  BY SubmissionFields, ConstantFacts
<1>1. UNCHANGED <<storeVars, due, settled, capture, up, toClient, engineVars, boundVars, excused, missed>>
  BY DEF SubmitJob, Adopt, Await, CloseSubmission
<1>2. StoreType' /\ EngineType' /\ NamesOK'
  BY <1>1 DEF StoreType, EngineType, NamesOK
<1>3. WireType'
  <2>1. CASE UNCHANGED toEngine
    BY <1>1, <2>1 DEF WireType
  <2>2. CASE SubmitJob(s)
    <3>1. [type |-> "upsert", sub |-> s] \in ToEngine
      BY MessageForms
    <3>2. \/ UNCHANGED toEngine
          \/ toEngine' = [toEngine EXCEPT ![InstOf[s]] = Append(toEngine[InstOf[s]], [type |-> "upsert", sub |-> s])]
      <4>1. CASE Len(toEngine[InstOf[s]]) < QueueLimit
        BY <2>2, <4>1 DEF SubmitJob
      <4>2. CASE ~(Len(toEngine[InstOf[s]]) < QueueLimit)
        BY <2>2, <4>2 DEF SubmitJob
      <4> QED BY <4>1, <4>2
    <3>3. toEngine' \in [Instances -> Seq(ToEngine)]
      <4>1. toEngine \in [Instances -> Seq(ToEngine)]
        BY DEF WireType
      <4>2. Append(toEngine[InstOf[s]], [type |-> "upsert", sub |-> s]) \in Seq(ToEngine)
        BY <1>0, <3>1, <4>1, AppendProperties
      <4> QED BY <1>0, <3>2, <4>1, <4>2
    <3> QED BY <1>1, <3>3 DEF WireType
  <2>3. Adopt(s) \/ Await(s) \/ CloseSubmission(s) => UNCHANGED toEngine
    BY DEF Adopt, Await, CloseSubmission
  <2> QED BY <2>1, <2>2, <2>3
<1>4. sub' \in [Submissions -> SubmissionRecords]
  <2>0. sub \in [Submissions -> SubmissionRecords]
    BY DEF ClientType, SubmissionRecords
  <2>1. "awaiting" \in SubmissionStates /\ "done" \in SubmissionStates /\ "closed" \in SubmissionStates
        /\ "sent" \in SubmissionStates /\ "failed" \in SubmissionStates
    BY DEF SubmissionStates
  <2>2. CASE SubmitJob(s)
    <3>1. sub' = [sub EXCEPT ![s].pc = "sent"] \/ sub' = [sub EXCEPT ![s].pc = "failed"]
      BY <2>2, WaiterSteps DEF SubmitJob
    <3> QED BY <2>0, <2>1, <3>1 DEF SubmissionRecords
  <2>3. CASE Adopt(s)
    <3>1. sub' = [sub EXCEPT ![s].pc = "awaiting"]
      BY <2>3 DEF Adopt
    <3> QED BY <2>0, <2>1, <3>1 DEF SubmissionRecords
  <2>4. CASE Await(s)
    <3>1. sub' = [sub EXCEPT ![s].pc = "done", ![s].got = sub[s].chan, ![s].chan = 0]
      BY <2>4 DEF Await
    <3> QED BY <1>0, <2>0, <2>1, <3>1 DEF SubmissionRecords
  <2>5. CASE CloseSubmission(s)
    <3>1. sub' = [sub EXCEPT ![s].pc = "closed", ![s].chan = 0]
      BY <2>5 DEF CloseSubmission
    <3> QED BY <1>0, <2>0, <2>1, <3>1 DEF SubmissionRecords
  <2> QED BY <2>2, <2>3, <2>4, <2>5
<1>5. /\ waiters' \in [Instances -> [UUIDs -> 0 .. MaxSubmission]]
      /\ latest' \in [Instances -> [UUIDs -> 0 .. MaxSubmission]]
  <2>0. /\ waiters \in [Instances -> [UUIDs -> 0 .. MaxSubmission]]
        /\ latest \in [Instances -> [UUIDs -> 0 .. MaxSubmission]]
    BY DEF ClientType
  <2>1. CASE SubmitJob(s)
    <3>1. \/ UNCHANGED <<waiters, latest>>
          \/ /\ waiters' = [waiters EXCEPT ![InstOf[s]][s] = s]
             /\ latest' = [latest EXCEPT ![InstOf[s]][s] = s]
      BY <2>1, WaiterSteps
    <3>2. CASE UNCHANGED <<waiters, latest>>
      BY <2>0, <3>2
    <3>3. CASE /\ waiters' = [waiters EXCEPT ![InstOf[s]][s] = s]
               /\ latest' = [latest EXCEPT ![InstOf[s]][s] = s]
      BY <1>0, <2>0, <3>3
    <3> QED BY <3>1, <3>2, <3>3
  <2>2. CASE Adopt(s)
    <3>1. \/ UNCHANGED <<waiters, latest>>
          \/ /\ waiters' = [[waiters EXCEPT ![InstOf[s]][s] = 0] EXCEPT ![InstOf[s]][sub[s].uuid] = s]
             /\ latest' = [latest EXCEPT ![InstOf[s]][sub[s].uuid] = s]
      BY <2>2, WaiterSteps
    <3>2. CASE UNCHANGED <<waiters, latest>>
      BY <2>0, <3>2
    <3>3. CASE /\ waiters' = [[waiters EXCEPT ![InstOf[s]][s] = 0] EXCEPT ![InstOf[s]][sub[s].uuid] = s]
               /\ latest' = [latest EXCEPT ![InstOf[s]][sub[s].uuid] = s]
      <4>1. [waiters EXCEPT ![InstOf[s]][s] = 0] \in [Instances -> [UUIDs -> 0 .. MaxSubmission]]
        BY <1>0, <2>0
      <4>2. waiters' \in [Instances -> [UUIDs -> 0 .. MaxSubmission]]
        BY <1>0, <3>3, <4>1, TableTypes
      <4>3. latest' \in [Instances -> [UUIDs -> 0 .. MaxSubmission]]
        BY <1>0, <2>0, <3>3
      <4> QED BY <4>2, <4>3
    <3> QED BY <3>1, <3>2, <3>3
  <2>3. CASE Await(s) \/ CloseSubmission(s)
    <3>1. /\ latest' = latest
          /\ \E u \in UUIDs : \/ waiters' = waiters
                              \/ waiters' = [waiters EXCEPT ![InstOf[s]][u] = 0]
      BY <2>3, WaiterSteps
    <3>2. ASSUME NEW u \in UUIDs, waiters' = [waiters EXCEPT ![InstOf[s]][u] = 0]
          PROVE  waiters' \in [Instances -> [UUIDs -> 0 .. MaxSubmission]]
      BY <1>0, <2>0, <3>2, TableTypes
    <3>3. waiters' = waiters => waiters' \in [Instances -> [UUIDs -> 0 .. MaxSubmission]]
      BY <2>0
    <3> QED BY <2>0, <3>1, <3>2, <3>3
  <2> QED BY <2>1, <2>2, <2>3
<1>6. missed' = missed
  BY <1>1
<1> QED BY <1>2, <1>3, <1>4, <1>5, <1>6 DEF ClientType, SubmissionRecords

\* The client's read loop.
LEMMA ReadTypes ==
    ASSUME ResultsTypeOK, NamesOK, NEW i \in Instances, ReadFrame(i)
    PROVE  ResultsTypeOK' /\ NamesOK'
<1> USE DEF ResultsTypeOK
<1> DEFINE m == Head(toClient[i])
<1>0. m \in ToClient /\ [toClient EXCEPT ![i] = Tail(toClient[i])] \in [Instances -> Seq(ToClient)]
  BY QueueTypes DEF ReadFrame
<1>1. /\ UNCHANGED <<storeVars, due, settled, capture, waiters, up, engineVars, boundVars, excused, latest>>
      /\ toClient' = [toClient EXCEPT ![i] = Tail(toClient[i])]
  BY DEF ReadFrame
<1>2. StoreType' /\ EngineType' /\ NamesOK'
  BY <1>1 DEF StoreType, EngineType, NamesOK
<1>3. CASE m.type = "reply"
  <2>1. m.sub \in Submissions /\ m.uuid \in UUIDs
    BY <1>0, <1>3, MessageFields
  <2>2. /\ sub' = IF sub[m.sub].pc = "sent"
                  THEN [sub EXCEPT ![m.sub].pc = "replied", ![m.sub].uuid = m.uuid] ELSE sub
        /\ UNCHANGED <<toEngine, missed>>
    BY <1>3 DEF ReadFrame
  <2> HIDE DEF m
  <2>3. ClientType'
    <3>1. sub' \in [Submissions -> SubmissionRecords]
      <4>1. sub' = sub \/ sub' = [sub EXCEPT ![m.sub].pc = "replied", ![m.sub].uuid = m.uuid]
        BY <2>2
      <4>2. sub \in [Submissions -> SubmissionRecords] /\ "replied" \in SubmissionStates
        BY DEF ClientType, SubmissionRecords, SubmissionStates
      <4> QED BY <2>1, <4>1, <4>2 DEF SubmissionRecords
    <3> QED BY <1>1, <2>2, <3>1 DEF ClientType, SubmissionRecords
  <2>4. WireType'
    BY <1>0, <1>1, <2>2 DEF WireType
  <2> QED BY <1>2, <2>3, <2>4
<1>4. CASE m.type # "reply"
  <2>1. m.uuid \in UUIDs /\ m.exec \in Marks
    BY <1>0, <1>4, MessageFields
  <2>2. /\ sub' = Offer(i, m.uuid, m.exec)
        /\ missed' = IF waiters[i][m.uuid] = 0 THEN missed \cup OpenFor(i, m.uuid) ELSE missed
        /\ toEngine' = [toEngine EXCEPT ![i] = Acknowledged(toEngine[i], m.uuid)]
    BY <1>4 DEF ReadFrame
  <2> HIDE DEF m
  <2>3. waiters[i][m.uuid] \in 0 .. MaxSubmission
    BY <2>1 DEF ClientType
  <2>4. sub' \in [Submissions -> [pc : SubmissionStates, uuid : UUIDs, chan : Marks, got : Marks]]
    BY ZenonT(60), <2>1, <2>2, <2>3, SubmissionFields, ConstantFacts DEF Offer, ClientType, SubmissionRecords
  <2>5. missed' \subseteq Submissions
    BY <2>2 DEF OpenFor, ClientType
  <2>6. toEngine' \in [Instances -> Seq(ToEngine)]
    <3>1. CASE Len(toEngine[i]) < QueueLimit
      <4>1. [type |-> "ack", uuid |-> m.uuid] \in ToEngine
        BY <2>1, MessageForms
      <4> QED BY <2>2, <3>1, <4>1, QueueTypes DEF Acknowledged
    <3>2. CASE ~(Len(toEngine[i]) < QueueLimit)
      BY <2>2, <3>2 DEF Acknowledged, WireType
    <3> QED BY <3>1, <3>2
  <2> QED BY <1>0, <1>1, <1>2, <2>4, <2>5, <2>6 DEF ClientType, WireType
<1> QED BY <1>3, <1>4

ReaderRecords == [pc : {"idle", "reply", "delete"}, uuid : 0 .. MaxSubmission, sub : 0 .. MaxSubmission]
CaptureRecords == [pc : CaptureStates, uuid : 0 .. MaxSubmission, inst : Owners]

\* The engine reads an upsert, or answers it.
LEMMA UpsertTypes ==
    ASSUME ResultsTypeOK, NamesOK, NEW i \in Instances, HandleJobUpsert(i)
    PROVE  ResultsTypeOK' /\ NamesOK'
<1> USE DEF ResultsTypeOK
<1> DEFINE m == Head(toEngine[i])
           k == KeyOf[m.sub]
           u == IF jobs[k].uuid = 0 THEN m.sub ELSE jobs[k].uuid
<1>0. /\ m \in ToEngine /\ m.type = "upsert"
      /\ [toEngine EXCEPT ![i] = Tail(toEngine[i])] \in [Instances -> Seq(ToEngine)]
  BY QueueTypes DEF HandleJobUpsert
<1>1. m.sub \in Submissions
  BY <1>0, MessageFields
<1>2. /\ k \in Keys /\ u \in UUIDs /\ u \in 0 .. MaxSubmission /\ m.sub \in 0 .. MaxSubmission
      /\ i \in Owners
  BY <1>1, ConstantFacts DEF StoreType, JobRecords
<1>3. /\ jobs' = [jobs EXCEPT ![k] = [uuid |-> u, inst |-> i]]
      /\ reader' = [reader EXCEPT ![i] = [pc |-> "reply", uuid |-> u, sub |-> m.sub]]
      /\ toEngine' = [toEngine EXCEPT ![i] = Tail(toEngine[i])]
      /\ UNCHANGED <<results, byInstance, settled, capture, clientVars, up, toClient,
                     outbox, evict, deleting, boundVars, ghostVars>>
      /\ \E running \in 0 .. due[k] : due' = [due EXCEPT ![k] = running + Runs]
  BY DEF HandleJobUpsert
<1> HIDE DEF m, k, u
<1>4. StoreType'
  <2>1. jobs' \in [Keys -> JobRecords]
    BY <1>2, <1>3 DEF StoreType, JobRecords
  <2>2. due' \in [Keys -> Nat]
    <3>1. PICK running \in 0 .. due[k] : due' = [due EXCEPT ![k] = running + Runs]
      BY <1>3
    <3>2. running + Runs \in Nat /\ due \in [Keys -> Nat]
      BY ConstantFacts DEF StoreType
    <3> QED BY <3>1, <3>2
  <2> QED BY <1>3, <2>1, <2>2 DEF StoreType
<1>5. ClientType' /\ WireType'
  BY <1>0, <1>3 DEF ClientType, WireType, m
<1>6. reader' \in [Instances -> ReaderRecords]
  BY <1>2, <1>3 DEF EngineType, ReaderRecords
<1>7. EngineType'
  BY <1>3, <1>6 DEF EngineType, ReaderRecords
<1>8. NamesOK'
  <2>1. \A j \in Keys : jobs'[j] = IF j = k THEN [uuid |-> u, inst |-> i] ELSE jobs[j]
    BY <1>2, <1>3 DEF StoreType
  <2>2. \A j \in Instances : reader'[j] = IF j = i THEN [pc |-> "reply", uuid |-> u, sub |-> m.sub] ELSE reader[j]
    BY <1>3 DEF EngineType
  <2>3. \A j \in Keys : jobs'[j].uuid # 0 => jobs'[j].inst \in Instances
    BY <2>1 DEF NamesOK
  <2>4. \A j \in Instances : /\ reader'[j].pc # "idle" => reader'[j].uuid \in UUIDs
                             /\ reader'[j].pc = "reply" => reader'[j].sub \in Submissions
    BY <1>1, <1>2, <2>2 DEF NamesOK
  <2> QED BY <1>3, <2>3, <2>4 DEF NamesOK
<1> QED BY <1>4, <1>5, <1>7, <1>8

\* A reader that returns to its loop.
LEMMA IdleReader ==
    ASSUME ResultsTypeOK, NamesOK, NEW i \in Instances, reader' = [reader EXCEPT ![i] = Idle]
    PROVE  /\ reader' \in [Instances -> ReaderRecords]
           /\ \A j \in Instances : /\ reader'[j].pc # "idle" => reader'[j].uuid \in UUIDs
                                   /\ reader'[j].pc = "reply" => reader'[j].sub \in Submissions
<1>1. Idle \in ReaderRecords /\ Idle.pc = "idle"
  BY ConstantFacts DEF Idle, ReaderRecords
<1>2. reader \in [Instances -> ReaderRecords]
  BY DEF ResultsTypeOK, EngineType, ReaderRecords
<1>3. \A j \in Instances : reader'[j] = IF j = i THEN Idle ELSE reader[j]
  BY <1>2
<1>4. reader' \in [Instances -> ReaderRecords]
  BY <1>1, <1>2
<1> QED BY <1>1, <1>3, <1>4 DEF NamesOK

LEMMA ReplyTypes ==
    ASSUME ResultsTypeOK, NamesOK, NEW i \in Instances, ReplyUpsert(i)
    PROVE  ResultsTypeOK' /\ NamesOK'
<1> USE DEF ResultsTypeOK
<1>1. /\ reader' = [reader EXCEPT ![i] = Idle] /\ reader[i].pc = "reply"
      /\ UNCHANGED <<storeVars, due, settled, capture, clientVars, up, toEngine,
                     outbox, evict, deleting, boundVars, ghostVars>>
  BY DEF ReplyUpsert
<1> DEFINE m == [type |-> "reply", sub |-> reader[i].sub, uuid |-> reader[i].uuid]
<1>2. m \in ToClient
  BY <1>1, MessageForms DEF NamesOK
<1>3. toClient' = toClient \/ toClient' = [toClient EXCEPT ![i] = Append(toClient[i], m)]
  BY DEF ReplyUpsert
<1> HIDE DEF m
<1>4. toClient' \in [Instances -> Seq(ToClient)]
  <2>1. toClient \in [Instances -> Seq(ToClient)]
    BY DEF WireType
  <2>2. Append(toClient[i], m) \in Seq(ToClient)
    BY <1>2, <2>1, AppendProperties
  <2> QED BY <1>3, <2>1, <2>2
<1>5. EngineType'
  BY <1>1, IdleReader DEF EngineType, ReaderRecords
<1> QED BY <1>1, <1>4, <1>5, IdleReader DEF StoreType, ClientType, WireType, NamesOK

\* The engine reads an acknowledgement.
LEMMA AckTypes ==
    ASSUME ResultsTypeOK, NamesOK, NEW i \in Instances, HandleResultAck(i)
    PROVE  ResultsTypeOK' /\ NamesOK'
<1> USE DEF ResultsTypeOK
<1> DEFINE m == Head(toEngine[i])
           r == [pc |-> "delete", uuid |-> m.uuid, sub |-> 0]
<1>0. /\ m \in ToEngine /\ m.type = "ack"
      /\ [toEngine EXCEPT ![i] = Tail(toEngine[i])] \in [Instances -> Seq(ToEngine)]
  BY QueueTypes DEF HandleResultAck
<1>1. m.uuid \in UUIDs
  BY <1>0, MessageFields
<1>2. r \in ReaderRecords /\ r.uuid \in UUIDs /\ r.pc = "delete"
  BY <1>1, ConstantFacts DEF ReaderRecords
<1>3. /\ reader' = reader \/ reader' = [reader EXCEPT ![i] = r]
      /\ toEngine' = [toEngine EXCEPT ![i] = Tail(toEngine[i])]
      /\ UNCHANGED <<storeVars, due, settled, capture, clientVars, up, toClient,
                     outbox, evict, deleting, boundVars, ghostVars>>
  BY DEF HandleResultAck
<1> HIDE DEF r
<1>4. reader' \in [Instances -> ReaderRecords]
  BY <1>2, <1>3 DEF EngineType, ReaderRecords
<1>5. \A j \in Instances : reader'[j] = reader[j] \/ reader'[j] = r
  BY <1>3 DEF EngineType
<1>6. NamesOK'
  BY <1>2, <1>3, <1>5 DEF NamesOK
<1> QED BY <1>0, <1>3, <1>4, <1>6 DEF StoreType, ClientType, WireType, EngineType, ReaderRecords

\* What the replaced or dropped result of a job excuses is an execution.
LEMMA ExcusedTypes ==
    ASSUME StoreType, NEW u \in UUIDs, excused \subseteq Executions
    PROVE  excused \cup ({results[u].exec} \ {0}) \subseteq Executions
  BY ConstantFacts DEF StoreType

LEMMA ListedFits ==
    ASSUME ResultsTypeOK, NEW i \in Instances
    PROVE  ResultsForInstance(i) \in Seq(Listed)
<1>1. byInstance[i] \in Seq(UUIDs) /\ results \in [UUIDs -> [inst : Owners, exec : Marks]]
  BY DEF ResultsTypeOK, StoreType
<1>2. Len(byInstance[i]) \in Nat /\ DOMAIN byInstance[i] = 1 .. Len(byInstance[i])
      /\ \A n \in 1 .. Len(byInstance[i]) : byInstance[i][n] \in UUIDs
  BY <1>1, LenProperties, ElementOfSeq
<1>3. \A n \in 1 .. Len(byInstance[i]) :
         [uuid |-> byInstance[i][n], inst |-> i, exec |-> results[byInstance[i][n]].exec] \in Listed
  BY <1>1, <1>2 DEF Listed
<1>4. [n \in 1 .. Len(byInstance[i]) |->
          [uuid |-> byInstance[i][n], inst |-> i, exec |-> results[byInstance[i][n]].exec]]
        \in [1 .. Len(byInstance[i]) -> Listed]
  BY <1>3
<1> QED BY <1>2, <1>4, SeqDef DEF ResultsForInstance

\* A delivery goes out to the instance of the result or not at all.
LEMMA SentTypes ==
    ASSUME ResultsTypeOK, NEW r \in Listed
    PROVE  Sent(r) \in [Instances -> Seq(ToClient)]
<1> DEFINE m == [type |-> "delivery", uuid |-> r.uuid, exec |-> r.exec]
<1>1. r.inst \in Instances /\ m \in ToClient
  BY MessageForms DEF Listed
<1>2. Sent(r) = toClient \/ Sent(r) = [toClient EXCEPT ![r.inst] = Append(toClient[r.inst], m)]
  BY DEF Sent
<1>3. toClient \in [Instances -> Seq(ToClient)]
  BY DEF ResultsTypeOK, WireType
<1> HIDE DEF m
<1>4. Append(toClient[r.inst], m) \in Seq(ToClient)
  BY <1>1, <1>3, AppendProperties
<1> QED BY <1>1, <1>2, <1>3, <1>4

\* An execution settles.
LEMMA CaptureTypes ==
    ASSUME ResultsTypeOK, NamesOK, NEW k \in Keys, CaptureResult(k)
    PROVE  ResultsTypeOK' /\ NamesOK'
<1> USE DEF ResultsTypeOK
<1> DEFINE e == settled + 1
           c == [uuid |-> jobs[k].uuid, inst |-> jobs[k].inst,
                 pc |-> IF jobs[k].uuid # 0 /\ ResultWithinCaps(jobs[k].inst) THEN "store" ELSE "dropped"]
<1>1. /\ due[k] > 0 /\ e \in Executions /\ settled' = e
      /\ due' = [due EXCEPT ![k] = due[k] - 1] /\ capture' = [capture EXCEPT ![e] = c]
      /\ UNCHANGED <<storeVars, clientVars, wireVars, engineVars, boundVars, ghostVars>>
  BY DEF CaptureResult
<1>2. jobs[k].uuid \in 0 .. MaxSubmission /\ jobs[k].inst \in Owners
      /\ (jobs[k].uuid # 0 => jobs[k].inst \in Instances /\ jobs[k].uuid \in UUIDs)
  BY ConstantFacts DEF StoreType, JobRecords, NamesOK
<1>3. c \in CaptureRecords /\ (c.pc \in {"store", "deliver"} => c.uuid \in UUIDs /\ c.inst \in Instances)
  <2>1. c.uuid \in 0 .. MaxSubmission /\ c.inst \in Owners /\ c.pc \in CaptureStates
    BY <1>2 DEF CaptureStates
  <2>2. c \in CaptureRecords
    BY <2>1 DEF CaptureRecords
  <2>3. c.pc \in {"store", "deliver"} => jobs[k].uuid # 0
    OBVIOUS
  <2> QED BY <1>2, <2>2, <2>3
<1> HIDE DEF c, e
<1>4. capture' \in [Executions -> CaptureRecords]
      /\ \A f \in Executions : capture'[f] = IF f = e THEN c ELSE capture[f]
  BY <1>1, <1>3 DEF EngineType, CaptureRecords
<1>5. due' \in [Keys -> Nat]
  <2>1. due \in [Keys -> Nat] /\ due[k] - 1 \in Nat
    BY <1>1 DEF StoreType
  <2> QED BY <1>1, <2>1
<1>6. StoreType'
  BY <1>1, <1>5, ConstantFacts DEF StoreType
<1>7. NamesOK'
  BY <1>1, <1>3, <1>4 DEF NamesOK
<1> QED BY <1>1, <1>4, <1>6, <1>7 DEF ClientType, WireType, EngineType, CaptureRecords

\* The progress of a result handler.
LEMMA HandlerTypes ==
    ASSUME EngineType, NamesOK, NEW e \in Executions, NEW c \in {"deliver", "done", "dropped"},
           capture[e].pc \in {"store", "deliver"}, capture' = [capture EXCEPT ![e].pc = c]
    PROVE  /\ capture' \in [Executions -> CaptureRecords]
           /\ \A f \in Executions : capture'[f].pc \in {"store", "deliver"} =>
                 capture'[f].uuid \in UUIDs /\ capture'[f].inst \in Instances
<1>1. capture \in [Executions -> CaptureRecords] /\ c \in CaptureStates
  BY DEF EngineType, CaptureRecords, CaptureStates
<1>2. capture' \in [Executions -> CaptureRecords]
  BY <1>1 DEF CaptureRecords
<1>3. \A f \in Executions : capture'[f].uuid = capture[f].uuid /\ capture'[f].inst = capture[f].inst
                            /\ (f # e => capture'[f].pc = capture[f].pc)
  BY <1>1 DEF CaptureRecords
<1> QED BY <1>2, <1>3 DEF NamesOK

\* A captured result is delivered.
LEMMA DeliverTypes ==
    ASSUME ResultsTypeOK, NamesOK, NEW e \in Executions, DeliverCaptured(e)
    PROVE  ResultsTypeOK' /\ NamesOK'
<1> USE DEF ResultsTypeOK
<1> DEFINE r == [uuid |-> capture[e].uuid, inst |-> capture[e].inst, exec |-> e]
<1>1. /\ capture[e].pc = "deliver" /\ capture' = [capture EXCEPT ![e].pc = "done"]
      /\ toClient' = Sent(r)
      /\ UNCHANGED <<storeVars, due, settled, clientVars, up, toEngine, engineVars, boundVars, ghostVars>>
  BY DEF DeliverCaptured
<1>2. r \in Listed
  BY <1>1, ConstantFacts DEF NamesOK, Listed
<1> HIDE DEF r
<1>3. toClient' \in [Instances -> Seq(ToClient)]
  BY <1>1, <1>2, SentTypes
<1>4. "done" \in {"deliver", "done", "dropped"} /\ capture[e].pc \in {"store", "deliver"}
  BY <1>1
<1>5. /\ capture' \in [Executions -> CaptureRecords]
      /\ \A f \in Executions : capture'[f].pc \in {"store", "deliver"} =>
            capture'[f].uuid \in UUIDs /\ capture'[f].inst \in Instances
  BY <1>1, <1>4, HandlerTypes
<1>6. NamesOK'
  BY <1>1, <1>5 DEF NamesOK
<1> QED BY <1>1, <1>3, <1>5, <1>6 DEF StoreType, ClientType, WireType, EngineType, CaptureRecords

\* A list of held results, delivered one by one.
LEMMA OutboxTypes ==
    ASSUME ResultsTypeOK, NEW p \in Senders, NEW q \in Seq(Listed), outbox' = [outbox EXCEPT ![p] = q]
    PROVE  outbox' \in [Senders -> Seq(Listed)]
  BY DEF ResultsTypeOK, EngineType

LEMMA SenderTypes ==
    ASSUME ResultsTypeOK, NamesOK, NEW p \in Senders, DeliverListed(p)
    PROVE  ResultsTypeOK' /\ NamesOK'
<1> USE DEF ResultsTypeOK
<1>1. /\ outbox[p] # <<>> /\ outbox' = [outbox EXCEPT ![p] = Tail(outbox[p])]
      /\ toClient' = Sent(Head(outbox[p]))
      /\ UNCHANGED <<storeVars, due, settled, capture, clientVars, up, toEngine,
                     reader, evict, deleting, boundVars, ghostVars>>
  BY DEF DeliverListed
<1>2. outbox[p] \in Seq(Listed)
  BY DEF EngineType
<1>3. Head(outbox[p]) \in Listed /\ Tail(outbox[p]) \in Seq(Listed)
  BY <1>1, <1>2, HeadTailProperties
<1>4. toClient' \in [Instances -> Seq(ToClient)]
  BY <1>1, <1>3, SentTypes
<1>5. outbox' \in [Senders -> Seq(Listed)]
  BY <1>1, <1>3, OutboxTypes
<1> QED BY <1>1, <1>4, <1>5 DEF StoreType, ClientType, WireType, EngineType, NamesOK

\* The sweep and the greeting list what is held for an instance.
LEMMA ListingTypes ==
    ASSUME ResultsTypeOK, NamesOK, NEW i \in Instances, RedeliverStaleResults(i) \/ HandleRegistered(i)
    PROVE  ResultsTypeOK' /\ NamesOK'
<1> USE DEF ResultsTypeOK
<1>1. /\ UNCHANGED <<storeVars, due, settled, capture, clientVars, toClient, toEngine,
                     reader, evict, deleting, boundVars, ghostVars>>
      /\ up' = up \/ up' = up \cup {i}
  BY DEF RedeliverStaleResults, HandleRegistered
<1>2. outbox' = [outbox EXCEPT !["sweeper"] = ResultsForInstance(i)]
      \/ outbox' = [outbox EXCEPT ![i] = ResultsForInstance(i)]
  BY DEF RedeliverStaleResults, HandleRegistered, Stale
<1>3. ResultsForInstance(i) \in Seq(Listed) /\ i \in Senders /\ "sweeper" \in Senders
  BY ListedFits, ConstantFacts
<1>4. outbox' \in [Senders -> Seq(Listed)]
  BY <1>2, <1>3, OutboxTypes
<1> QED BY <1>1, <1>4 DEF StoreType, ClientType, WireType, EngineType, NamesOK

\* The retention pass lists what it evicts.
LEMMA ExpireTypes ==
    ASSUME ResultsTypeOK, NamesOK, ExpireResults
    PROVE  ResultsTypeOK' /\ NamesOK'
<1> USE DEF ResultsTypeOK
<1>1. /\ evictions > 0 /\ evictions' = evictions - 1 /\ evict' \in SUBSET Held
      /\ UNCHANGED <<storeVars, due, settled, capture, clientVars, wireVars,
                     reader, outbox, deleting, drops, ghostVars>>
  BY DEF ExpireResults
<1>2. evictions' \in Nat
  BY <1>1 DEF EngineType
<1>3. evict' \subseteq UUIDs
  BY <1>1 DEF Held
<1> QED BY <1>1, <1>2, <1>3 DEF StoreType, ClientType, WireType, EngineType, NamesOK

\* A job's key is freed.
LEMMA DeleteJobTypes ==
    ASSUME ResultsTypeOK, NamesOK, DeleteJob
    PROVE  ResultsTypeOK' /\ NamesOK'
<1> USE DEF ResultsTypeOK
<1>1. /\ deleting' = NoJob
      /\ jobs' = [k \in Keys |-> IF jobs[k].uuid = deleting.uuid THEN NoJob ELSE jobs[k]]
      /\ UNCHANGED <<results, byInstance, due, settled, capture, clientVars, wireVars,
                     reader, outbox, evict, boundVars, ghostVars>>
  BY DEF DeleteJob
<1>2. NoJob \in JobRecords /\ NoJob.uuid = 0
  BY ConstantFacts DEF NoJob, JobRecords
<1>3. \A k \in Keys : jobs'[k] = NoJob \/ jobs'[k] = jobs[k]
  BY <1>1
<1>4. jobs' \in [Keys -> JobRecords]
  BY <1>1, <1>2 DEF StoreType
<1>5. NamesOK'
  BY <1>1, <1>2, <1>3 DEF NamesOK
<1> QED BY <1>1, <1>2, <1>4, <1>5 DEF StoreType, ClientType, WireType, EngineType

\* A connection drops.
LEMMA DisconnectTypes ==
    ASSUME ResultsTypeOK, NamesOK, NEW i \in Instances, Disconnect(i)
    PROVE  ResultsTypeOK' /\ NamesOK'
<1> USE DEF ResultsTypeOK
<1> DEFINE waiting == {s \in Submissions : InstOf[s] = i /\ sub[s].pc = "sent"}
           entry == [u \in UUIDs |-> IF waiters[i][u] \in waiting THEN 0 ELSE waiters[i][u]]
<1>1. /\ drops > 0 /\ drops' = drops - 1 /\ up' = up \ {i}
      /\ toClient' = [toClient EXCEPT ![i] = <<>>] /\ toEngine' = [toEngine EXCEPT ![i] = <<>>]
      /\ sub' = [s \in Submissions |-> IF s \in waiting THEN [sub[s] EXCEPT !.pc = "failed"] ELSE sub[s]]
      /\ waiters' = [waiters EXCEPT ![i] = entry]
      /\ UNCHANGED <<storeVars, due, settled, capture, engineVars, evictions, ghostVars>>
  BY DEF Disconnect
<1>2. sub' \in [Submissions -> SubmissionRecords]
  <2>1. sub \in [Submissions -> SubmissionRecords] /\ "failed" \in SubmissionStates
    BY DEF ClientType, SubmissionRecords, SubmissionStates
  <2>2. \A s \in Submissions : [sub[s] EXCEPT !.pc = "failed"] \in SubmissionRecords
    BY <2>1 DEF SubmissionRecords
  <2> HIDE DEF waiting
  <2> QED BY <1>1, <2>1, <2>2
<1>3. waiters' \in [Instances -> [UUIDs -> 0 .. MaxSubmission]]
  <2>1. waiters \in [Instances -> [UUIDs -> 0 .. MaxSubmission]]
    BY DEF ClientType
  <2> HIDE DEF waiting
  <2>2. entry \in [UUIDs -> 0 .. MaxSubmission]
    BY <2>1, ConstantFacts
  <2> HIDE DEF entry
  <2> QED BY <1>1, <2>1, <2>2
<1>4. /\ toClient' \in [Instances -> Seq(ToClient)] /\ toEngine' \in [Instances -> Seq(ToEngine)]
  BY <1>1, EmptySeq DEF WireType
<1>5. drops' \in Nat
  BY <1>1 DEF EngineType
<1> QED BY <1>1, <1>2, <1>3, <1>4, <1>5
        DEF StoreType, ClientType, WireType, EngineType, NamesOK, SubmissionRecords

-----------------------------------------------------------------------------
(* The store's tables.                                                       *)

\* What a step that deletes a job's result leaves.
LEMMA DeletionSafe ==
    ASSUME ResultsTypeOK, NamesOK, OwnersOK, ResultTablesAgree, NEW u \in UUIDs, DeleteResult(u)
    PROVE  /\ results' \in [UUIDs -> [inst : Owners, exec : Marks]]
           /\ byInstance' \in [Instances -> Seq(UUIDs)]
           /\ OwnersOK' /\ ResultTablesAgree'
<1>1. TablesType
  BY DEF ResultsTypeOK, StoreType, TablesType
<1> QED BY <1>1, DeleteTables DEF TablesType

\* An acknowledgement deletes.
LEMMA AckedSafe ==
    ASSUME ResultsTypeOK, NamesOK, OwnersOK, ResultTablesAgree, NEW i \in Instances, DeleteAcked(i)
    PROVE  ResultsTypeOK' /\ NamesOK' /\ OwnersOK' /\ ResultTablesAgree'
<1>1. /\ reader[i].pc = "delete" /\ reader' = [reader EXCEPT ![i] = Idle]
      /\ DeleteResult(reader[i].uuid)
      /\ UNCHANGED <<jobs, due, settled, capture, clientVars, wireVars,
                     outbox, evict, deleting, boundVars, ghostVars>>
  BY DEF DeleteAcked
<1>2. reader[i].uuid \in UUIDs
  BY <1>1 DEF NamesOK
<1>3. /\ results' \in [UUIDs -> [inst : Owners, exec : Marks]]
      /\ byInstance' \in [Instances -> Seq(UUIDs)]
      /\ OwnersOK' /\ ResultTablesAgree'
  BY <1>1, <1>2, DeletionSafe
<1>4. /\ reader' \in [Instances -> ReaderRecords]
      /\ \A j \in Instances : /\ reader'[j].pc # "idle" => reader'[j].uuid \in UUIDs
                              /\ reader'[j].pc = "reply" => reader'[j].sub \in Submissions
  BY <1>1, IdleReader
<1>5. NamesOK'
  BY <1>1, <1>4 DEF NamesOK
<1>6. ResultsTypeOK'
  BY <1>1, <1>3, <1>4 DEF ResultsTypeOK, StoreType, ClientType, WireType, EngineType, ReaderRecords
<1> QED BY <1>3, <1>5, <1>6

\* The retention pass deletes.
LEMMA EvictSafe ==
    ASSUME ResultsTypeOK, NamesOK, OwnersOK, ResultTablesAgree, NEW u \in UUIDs, Evict(u)
    PROVE  ResultsTypeOK' /\ NamesOK' /\ OwnersOK' /\ ResultTablesAgree'
<1>1. /\ evict' = evict \ {u} /\ excused' = excused \cup ({results[u].exec} \ {0})
      /\ DeleteResult(u)
      /\ UNCHANGED <<jobs, due, settled, capture, clientVars, wireVars,
                     reader, outbox, deleting, boundVars, missed, latest>>
  BY DEF Evict
<1>2. /\ results' \in [UUIDs -> [inst : Owners, exec : Marks]]
      /\ byInstance' \in [Instances -> Seq(UUIDs)]
      /\ OwnersOK' /\ ResultTablesAgree'
  BY <1>1, DeletionSafe
<1>3. excused' \subseteq Executions
  BY <1>1, ExcusedTypes DEF ResultsTypeOK, EngineType
<1>4. NamesOK'
  BY <1>1 DEF NamesOK
<1>5. ResultsTypeOK'
  BY <1>1, <1>2, <1>3 DEF ResultsTypeOK, StoreType, ClientType, WireType, EngineType
<1> QED BY <1>2, <1>4, <1>5

\* A job deletion deletes.
LEMMA JobDeleteSafe ==
    ASSUME ResultsTypeOK, NamesOK, OwnersOK, ResultTablesAgree, NEW k \in Keys, HandleJobDelete(k)
    PROVE  ResultsTypeOK' /\ NamesOK' /\ OwnersOK' /\ ResultTablesAgree'
<1> DEFINE u == jobs[k].uuid
<1>1. /\ u # 0 /\ deleting' = jobs[k] /\ excused' = excused \cup ({results[u].exec} \ {0})
      /\ DeleteResult(u)
      /\ UNCHANGED <<jobs, settled, capture, clientVars, wireVars, reader, outbox, evict, boundVars,
                     missed, latest>>
      /\ \E running \in 0 .. due[k] : due' = [due EXCEPT ![k] = running]
  BY DEF HandleJobDelete
<1>2. jobs[k] \in JobRecords /\ u \in UUIDs
  BY <1>1, ConstantFacts DEF ResultsTypeOK, StoreType, JobRecords
<1> HIDE DEF u
<1>3. /\ results' \in [UUIDs -> [inst : Owners, exec : Marks]]
      /\ byInstance' \in [Instances -> Seq(UUIDs)]
      /\ OwnersOK' /\ ResultTablesAgree'
  BY <1>1, <1>2, DeletionSafe
<1>4. excused' \subseteq Executions
  BY <1>1, <1>2, ExcusedTypes DEF ResultsTypeOK, EngineType
<1>5. due' \in [Keys -> Nat]
  <2>1. PICK running \in 0 .. due[k] : due' = [due EXCEPT ![k] = running]
    BY <1>1
  <2>2. running \in Nat /\ due \in [Keys -> Nat]
    BY DEF ResultsTypeOK, StoreType
  <2> QED BY <2>1, <2>2
<1>6. NamesOK'
  BY <1>1 DEF NamesOK
<1>7. ResultsTypeOK'
  BY <1>1, <1>2, <1>3, <1>4, <1>5 DEF ResultsTypeOK, StoreType, ClientType, WireType, EngineType
<1> QED BY <1>3, <1>6, <1>7

\* A captured result is stored, or refused at the caps.
LEMMA StoreSafe ==
    ASSUME ResultsTypeOK, NamesOK, OwnersOK, ResultTablesAgree, NEW e \in Executions, StoreCaptured(e)
    PROVE  ResultsTypeOK' /\ NamesOK' /\ OwnersOK' /\ ResultTablesAgree'
<1> DEFINE u == capture[e].uuid
           i == capture[e].inst
<1>1. /\ capture[e].pc = "store"
      /\ UNCHANGED <<jobs, due, settled, clientVars, wireVars, engineVars, boundVars, missed, latest>>
  BY DEF StoreCaptured
<1>2. u \in UUIDs /\ i \in Instances
  BY <1>1 DEF NamesOK
<1>3. TablesType
  BY DEF ResultsTypeOK, StoreType, TablesType
<1>4. \/ /\ Fits(u, i) /\ StoreResult(u, i, e)
         /\ capture' = [capture EXCEPT ![e].pc = "deliver"]
         /\ excused' = excused \cup ({results[u].exec} \ {0})
      \/ /\ capture' = [capture EXCEPT ![e].pc = "dropped"]
         /\ UNCHANGED <<results, byInstance, excused>>
  BY DEF StoreCaptured
<1> HIDE DEF u, i
<1>5. TablesType' /\ OwnersOK' /\ ResultTablesAgree'
  <2>1. CASE Fits(u, i) /\ StoreResult(u, i, e)
    BY <1>2, <1>3, <2>1, StoreTables
  <2>2. CASE UNCHANGED <<results, byInstance>>
    BY <1>3, <2>2 DEF TablesType, OwnersOK, ResultTablesAgree, Held
  <2> QED BY <1>4, <2>1, <2>2
<1>6. excused' \subseteq Executions
  BY <1>2, <1>4, ExcusedTypes DEF ResultsTypeOK, EngineType
<1>7. /\ capture' \in [Executions -> CaptureRecords]
      /\ \A f \in Executions : capture'[f].pc \in {"store", "deliver"} =>
            capture'[f].uuid \in UUIDs /\ capture'[f].inst \in Instances
  <2>1. EngineType /\ capture[e].pc \in {"store", "deliver"}
    BY <1>1 DEF ResultsTypeOK
  <2>2. "deliver" \in {"deliver", "done", "dropped"} /\ "dropped" \in {"deliver", "done", "dropped"}
    OBVIOUS
  <2> QED BY <1>4, <2>1, <2>2, HandlerTypes
<1>8. NamesOK'
  BY <1>1, <1>7 DEF NamesOK
<1>9. ResultsTypeOK'
  BY <1>1, <1>5, <1>6, <1>7
     DEF ResultsTypeOK, StoreType, ClientType, WireType, EngineType, TablesType, CaptureRecords
<1> QED BY <1>5, <1>8, <1>9

-----------------------------------------------------------------------------
(* The waiters.                                                              *)

\* One entry of the waiter registry.
WaiterOK(i, u) ==
    LET s == latest[i][u] IN
    s # 0 =>
        /\ InstOf[s] = i /\ sub[s].pc # "new"
        /\ sub[s].pc \in {"sent", "replied"} => u = s /\ waiters[i][u] = s
        /\ sub[s].pc = "awaiting" /\ sub[s].uuid = u => waiters[i][u] = s

LEMMA EntryFacts ==
    ASSUME ResultsTypeOK, WaitersOK, NEW j \in Instances, NEW v \in UUIDs
    PROVE  WaiterOK(j, v) /\ (latest[j][v] # 0 => latest[j][v] \in Submissions)
  BY ConstantFacts DEF ResultsTypeOK, ClientType, WaitersOK, WaiterOK

\* Submitting: whoever starts was never registered, and takes its own entry.
LEMMA SubmitWaiters ==
    ASSUME ResultsTypeOK, WaitersOK, NEW s \in Submissions, SubmitJob(s)
    PROVE  WaitersOK'
<1> DEFINE i == InstOf[s]
<1>0. /\ i \in Instances /\ s \in UUIDs /\ s \in 0 .. MaxSubmission
      /\ waiters \in [Instances -> [UUIDs -> 0 .. MaxSubmission]]
      /\ latest \in [Instances -> [UUIDs -> 0 .. MaxSubmission]]
      /\ sub \in [Submissions -> SubmissionRecords] /\ sub[s].pc = "new"
  BY ConstantFacts DEF ResultsTypeOK, ClientType, SubmissionRecords, SubmitJob
<1>1. \/ UNCHANGED <<waiters, latest>> /\ sub' = [sub EXCEPT ![s].pc = "failed"]
      \/ /\ waiters' = [waiters EXCEPT ![i][s] = s] /\ latest' = [latest EXCEPT ![i][s] = s]
         /\ sub' = [sub EXCEPT ![s].pc = "sent"]
  BY WaiterSteps DEF ResultsTypeOK
<1>2. \A w \in Submissions : w # s => sub'[w] = sub[w]
  BY <1>0, <1>1
<1>3. ASSUME NEW j \in Instances, NEW v \in UUIDs PROVE WaiterOK(j, v)'
  <2>1. latest[j][v] # s /\ WaiterOK(j, v) /\ (latest[j][v] # 0 => latest[j][v] \in Submissions)
    <3>1. WaiterOK(j, v) /\ (latest[j][v] # 0 => latest[j][v] \in Submissions) /\ s # 0
      BY EntryFacts, ConstantFacts
    <3>2. latest[j][v] = s => sub[s].pc # "new"
      BY <3>1 DEF WaiterOK
    <3> QED BY <1>0, <3>1, <3>2
  <2>2. CASE UNCHANGED <<waiters, latest>>
    <3>1. latest'[j][v] = latest[j][v] /\ waiters'[j][v] = waiters[j][v]
      BY <2>2
    <3> QED BY <1>2, <2>1, <3>1 DEF WaiterOK
  <2>3. CASE /\ waiters' = [waiters EXCEPT ![i][s] = s] /\ latest' = [latest EXCEPT ![i][s] = s]
             /\ sub' = [sub EXCEPT ![s].pc = "sent"]
    <3>1. CASE j = i /\ v = s
      <4>1. latest'[j][v] = s /\ waiters'[j][v] = s /\ sub'[s].pc = "sent"
        BY <1>0, <2>3, <3>1 DEF SubmissionRecords
      <4> QED BY <3>1, <4>1 DEF WaiterOK
    <3>2. CASE ~(j = i /\ v = s)
      <4>1. latest'[j][v] = latest[j][v] /\ waiters'[j][v] = waiters[j][v]
        BY <1>0, <2>3, <3>2
      <4> QED BY <1>2, <2>1, <4>1 DEF WaiterOK
    <3> QED BY <3>1, <3>2
  <2> QED BY <1>1, <2>2, <2>3
<1> QED BY <1>3 DEF WaitersOK, WaiterOK

\* Adopting: the submission leaves its own entry for the one its answer names,
\* and is from then on the latest there, whoever waited before.
LEMMA AdoptWaiters ==
    ASSUME ResultsTypeOK, WaitersOK, NEW s \in Submissions, Adopt(s)
    PROVE  WaitersOK'
<1> DEFINE i == InstOf[s]
           u == sub[s].uuid
<1>0. /\ i \in Instances /\ s \in UUIDs /\ s \in 0 .. MaxSubmission /\ u \in UUIDs
      /\ waiters \in [Instances -> [UUIDs -> 0 .. MaxSubmission]]
      /\ latest \in [Instances -> [UUIDs -> 0 .. MaxSubmission]]
      /\ sub \in [Submissions -> SubmissionRecords] /\ sub[s].pc = "replied"
  BY ConstantFacts DEF ResultsTypeOK, ClientType, SubmissionRecords, Adopt
<1>1. /\ sub' = [sub EXCEPT ![s].pc = "awaiting"]
      /\ \/ UNCHANGED <<waiters, latest>> /\ ~(u # s /\ waiters[i][s] = s)
         \/ /\ u # s /\ waiters[i][s] = s
            /\ waiters' = [[waiters EXCEPT ![i][s] = 0] EXCEPT ![i][u] = s]
            /\ latest' = [latest EXCEPT ![i][u] = s]
  BY DEF Adopt
<1>2. /\ \A w \in Submissions : w # s => sub'[w] = sub[w]
      /\ sub'[s].pc = "awaiting" /\ sub'[s].uuid = u
  BY <1>0, <1>1 DEF SubmissionRecords
<1> HIDE DEF i, u
<1>3. ASSUME NEW j \in Instances, NEW v \in UUIDs PROVE WaiterOK(j, v)'
  <2>1. WaiterOK(j, v) /\ (latest[j][v] # 0 => latest[j][v] \in Submissions)
    BY EntryFacts
  <2>2. latest[j][v] = s => v = s /\ waiters[j][s] = s /\ j = i /\ s # 0
    BY <1>0, <2>1, ConstantFacts DEF WaiterOK, i
  <2>3. CASE UNCHANGED <<waiters, latest>> /\ ~(u # s /\ waiters[i][s] = s)
    <3>1. CASE latest[j][v] = s
      BY <1>2, <2>1, <2>2, <2>3, <3>1 DEF WaiterOK
    <3>2. CASE latest[j][v] # s
      BY <1>2, <2>1, <2>3, <3>2 DEF WaiterOK
    <3> QED BY <3>1, <3>2
  <2>4. CASE /\ u # s /\ waiters[i][s] = s
             /\ waiters' = [[waiters EXCEPT ![i][s] = 0] EXCEPT ![i][u] = s]
             /\ latest' = [latest EXCEPT ![i][u] = s]
    <3>1. CASE j = i /\ v = u
      <4>1. latest'[j][v] = s /\ waiters'[j][v] = s
        BY <1>0, <2>4, <3>1
      <4> QED BY <1>2, <3>1, <4>1 DEF WaiterOK, i
    <3>2. CASE ~(j = i /\ v = u)
      <4>1. /\ latest'[j][v] = latest[j][v]
            /\ waiters'[j][v] = IF j = i /\ v = s THEN 0 ELSE waiters[j][v]
        BY <1>0, <2>4, <3>2
      <4>2. CASE latest[j][v] = s
        <5>1. v # u
          BY <2>2, <2>4, <4>2
        <5> QED BY <1>2, <2>1, <2>2, <4>1, <4>2, <5>1 DEF WaiterOK
      <4>3. CASE latest[j][v] # s
        <5>1. CASE j = i /\ v = s
          BY <1>2, <2>1, <2>4, <4>1, <4>3, <5>1 DEF WaiterOK
        <5>2. CASE ~(j = i /\ v = s)
          BY <1>2, <2>1, <4>1, <4>3, <5>2 DEF WaiterOK
        <5> QED BY <5>1, <5>2
      <4> QED BY <4>2, <4>3
    <3> QED BY <3>1, <3>2
  <2> QED BY <1>1, <2>3, <2>4
<1> QED BY <1>3 DEF WaitersOK, WaiterOK

\* Returning: the submission frees at most the entry it holds itself.
LEMMA ReturnWaiters ==
    ASSUME ResultsTypeOK, WaitersOK, NEW s \in Submissions, Await(s) \/ CloseSubmission(s)
    PROVE  WaitersOK'
<1> DEFINE i == InstOf[s]
<1>0. /\ i \in Instances
      /\ waiters \in [Instances -> [UUIDs -> 0 .. MaxSubmission]]
      /\ sub \in [Submissions -> SubmissionRecords]
  BY ConstantFacts DEF ResultsTypeOK, ClientType, SubmissionRecords
<1>1. /\ latest' = latest
      /\ \E u \in UUIDs : \/ waiters' = waiters
                          \/ waiters' = [waiters EXCEPT ![i][u] = 0] /\ waiters[i][u] = s
  BY WaiterSteps DEF ResultsTypeOK
<1>2. /\ \A w \in Submissions : w # s => sub'[w] = sub[w]
      /\ sub'[s].pc \in {"done", "closed"}
  <2>1. CASE Await(s)
    <3>1. sub' = [sub EXCEPT ![s].pc = "done", ![s].got = sub[s].chan, ![s].chan = 0]
      BY <2>1 DEF Await
    <3> QED BY <1>0, <3>1 DEF SubmissionRecords
  <2>2. CASE CloseSubmission(s)
    <3>1. sub' = [sub EXCEPT ![s].pc = "closed", ![s].chan = 0]
      BY <2>2 DEF CloseSubmission
    <3> QED BY <1>0, <3>1 DEF SubmissionRecords
  <2> QED BY <2>1, <2>2
<1>3. \A j \in Instances, v \in UUIDs : waiters'[j][v] = waiters[j][v] \/ waiters[j][v] = s
  BY <1>0, <1>1
<1>4. ASSUME NEW j \in Instances, NEW v \in UUIDs PROVE WaiterOK(j, v)'
  <2>1. WaiterOK(j, v) /\ (latest[j][v] # 0 => latest[j][v] \in Submissions)
    BY EntryFacts
  <2>2. CASE latest[j][v] = s
    BY <1>1, <1>2, <2>1, <2>2 DEF WaiterOK
  <2>3. CASE latest[j][v] # s
    BY <1>1, <1>2, <1>3, <2>1, <2>3 DEF WaiterOK
  <2> QED BY <2>2, <2>3
<1> QED BY <1>4 DEF WaitersOK, WaiterOK

\* Reading: an answer moves a waiting submission on, a delivery only fills it.
LEMMA ReadWaiters ==
    ASSUME ResultsTypeOK, WaitersOK, NEW i \in Instances, ReadFrame(i)
    PROVE  WaitersOK'
<1> DEFINE m == Head(toClient[i])
<1>0. m \in ToClient /\ sub \in [Submissions -> SubmissionRecords] /\ UNCHANGED <<waiters, latest>>
  BY QueueTypes DEF ReadFrame, ResultsTypeOK, ClientType, SubmissionRecords
<1>1. \A w \in Submissions : \/ sub'[w].pc = sub[w].pc /\ sub'[w].uuid = sub[w].uuid
                             \/ sub[w].pc = "sent" /\ sub'[w].pc = "replied"
  <2>1. CASE m.type = "reply"
    <3>1. m.sub \in Submissions
      BY <1>0, <2>1, MessageFields
    <3>2. \/ sub' = sub
          \/ sub[m.sub].pc = "sent" /\ sub' = [sub EXCEPT ![m.sub].pc = "replied", ![m.sub].uuid = m.uuid]
      BY <2>1 DEF ReadFrame
    <3> HIDE DEF m
    <3> QED BY <1>0, <3>1, <3>2 DEF SubmissionRecords
  <2>2. CASE m.type # "reply"
    <3>1. sub' = Offer(i, m.uuid, m.exec)
      BY <2>2 DEF ReadFrame
    <3> HIDE DEF m
    <3>2. sub' = sub \/ \E w : sub' = [sub EXCEPT ![w].chan = m.exec]
      BY <3>1 DEF Offer
    <3> QED BY <1>0, <3>2 DEF SubmissionRecords
  <2> QED BY <2>1, <2>2
<1>2. ASSUME NEW j \in Instances, NEW v \in UUIDs PROVE WaiterOK(j, v)'
  <2>1. WaiterOK(j, v) /\ (latest[j][v] # 0 => latest[j][v] \in Submissions)
    BY EntryFacts
  <2> QED BY <1>0, <1>1, <2>1 DEF WaiterOK
<1> QED BY <1>2 DEF WaitersOK, WaiterOK

\* A dropped connection fails the submissions that wait for an answer, and
\* frees the entries of those only.
LEMMA DropWaiters ==
    ASSUME ResultsTypeOK, WaitersOK, NEW i \in Instances, Disconnect(i)
    PROVE  WaitersOK'
<1> DEFINE waiting == {s \in Submissions : InstOf[s] = i /\ sub[s].pc = "sent"}
<1>0. /\ waiters \in [Instances -> [UUIDs -> 0 .. MaxSubmission]]
      /\ sub \in [Submissions -> SubmissionRecords] /\ latest' = latest
      /\ sub' = [s \in Submissions |-> IF s \in waiting THEN [sub[s] EXCEPT !.pc = "failed"] ELSE sub[s]]
      /\ waiters' = [waiters EXCEPT ![i] =
                       [u \in UUIDs |-> IF waiters[i][u] \in waiting THEN 0 ELSE waiters[i][u]]]
  BY DEF Disconnect, ResultsTypeOK, ClientType, SubmissionRecords
<1> HIDE DEF waiting
<1>1. \A w \in Submissions : IF w \in waiting THEN sub'[w].pc = "failed" ELSE sub'[w] = sub[w]
  BY <1>0 DEF SubmissionRecords
<1>2. \A j \in Instances, v \in UUIDs : waiters'[j][v] = waiters[j][v] \/ waiters[j][v] \in waiting
  BY <1>0
<1>3. ASSUME NEW j \in Instances, NEW v \in UUIDs PROVE WaiterOK(j, v)'
  <2>1. WaiterOK(j, v) /\ (latest[j][v] # 0 => latest[j][v] \in Submissions)
    BY EntryFacts
  <2>2. CASE latest[j][v] \in waiting
    <3>1. latest[j][v] \in Submissions
      BY <2>2 DEF waiting
    <3> QED BY <1>0, <1>1, <2>1, <2>2, <3>1 DEF WaiterOK
  <2>3. CASE latest[j][v] \notin waiting
    <3>1. latest[j][v] # 0 => sub'[latest[j][v]] = sub[latest[j][v]]
      BY <1>1, <2>1, <2>3
    <3>2. waiters[j][v] = latest[j][v] => waiters'[j][v] = waiters[j][v]
      BY <1>2, <2>3
    <3> QED BY <1>0, <2>1, <3>1, <3>2 DEF WaiterOK
  <2> QED BY <2>2, <2>3
<1> QED BY <1>3 DEF WaitersOK, WaiterOK

-----------------------------------------------------------------------------
(* The theorems.                                                             *)

LEMMA ResultsInitially == ResultsInit => ResultsInv
<1> SUFFICES ASSUME ResultsInit PROVE ResultsInv
  OBVIOUS
<1>1. ResultsTypeOK /\ NamesOK
  BY InitTypes
<1>2. \A u \in UUIDs : results[u].exec = 0 /\ results[u].inst = NoInstance
  BY DEF ResultsInit, NoResult
<1>3. OwnersOK /\ Held = {}
  BY <1>2 DEF OwnersOK, Held
<1>4. ResultTablesAgree
  <2>1. Cardinality(Held) = 0
    BY <1>3, FS_EmptySet
  <2>2. \A i \in Instances : byInstance[i] = <<>>
    BY DEF ResultsInit
  <2>3. Len(<<>>) = 0 /\ DOMAIN <<>> = {}
    OBVIOUS
  <2>5. IsInjective(<<>>) /\ Range(<<>>) = {}
    BY <2>3 DEF IsInjective, Range
  <2>4. 0 <= MaxResults /\ 0 <= MaxPerInstance
    BY ResultsAssumption
  <2> QED BY <1>3, <2>1, <2>2, <2>3, <2>4, <2>5 DEF ResultTablesAgree
<1>5. WaitersOK
  BY DEF WaitersOK, ResultsInit
<1> QED BY <1>1, <1>3, <1>4, <1>5 DEF ResultsInv

\* Whatever leaves the tables or the waiters alone keeps what is said of them.
LEMMA TablesUntouched ==
    ASSUME OwnersOK, ResultTablesAgree, UNCHANGED <<results, byInstance>>
    PROVE  OwnersOK' /\ ResultTablesAgree'
  BY DEF OwnersOK, ResultTablesAgree, Held

LEMMA WaitersUntouched == ASSUME WaitersOK, UNCHANGED <<sub, waiters, latest>> PROVE WaitersOK'
  BY DEF WaitersOK

LEMMA ResultsStep == ResultsInv /\ [ResultsNext]_vars => ResultsInv'
<1> SUFFICES ASSUME ResultsTypeOK, NamesOK, OwnersOK, ResultTablesAgree, WaitersOK, [ResultsNext]_vars
             PROVE  ResultsTypeOK' /\ NamesOK' /\ OwnersOK' /\ ResultTablesAgree' /\ WaitersOK'
  BY DEF ResultsInv
<1>1. ASSUME NEW s \in Submissions, SubmitJob(s) \/ Adopt(s) \/ Await(s) \/ CloseSubmission(s)
      PROVE  ResultsTypeOK' /\ NamesOK' /\ OwnersOK' /\ ResultTablesAgree' /\ WaitersOK'
  <2>1. UNCHANGED <<results, byInstance>>
    BY <1>1 DEF SubmitJob, Adopt, Await, CloseSubmission
  <2>2. WaitersOK'
    BY <1>1, SubmitWaiters, AdoptWaiters, ReturnWaiters
  <2> QED BY <1>1, <2>1, <2>2, ClientTypes, TablesUntouched
<1>2. ASSUME NEW i \in Instances, ReadFrame(i) \/ Disconnect(i)
      PROVE  ResultsTypeOK' /\ NamesOK' /\ OwnersOK' /\ ResultTablesAgree' /\ WaitersOK'
  <2>1. UNCHANGED <<results, byInstance>>
    BY <1>2 DEF ReadFrame, Disconnect
  <2>2. WaitersOK'
    BY <1>2, ReadWaiters, DropWaiters
  <2> QED BY <1>2, <2>1, <2>2, ReadTypes, DisconnectTypes, TablesUntouched
<1>3. ASSUME NEW i \in Instances,
             \/ HandleJobUpsert(i) \/ ReplyUpsert(i) \/ HandleResultAck(i)
             \/ RedeliverStaleResults(i) \/ HandleRegistered(i)
      PROVE  ResultsTypeOK' /\ NamesOK' /\ OwnersOK' /\ ResultTablesAgree' /\ WaitersOK'
  <2>1. UNCHANGED <<results, byInstance, sub, waiters, latest>>
    BY <1>3 DEF HandleJobUpsert, ReplyUpsert, HandleResultAck, RedeliverStaleResults, HandleRegistered
  <2>2. ResultsTypeOK' /\ NamesOK'
    BY <1>3, UpsertTypes, ReplyTypes, AckTypes, ListingTypes
  <2> QED BY <2>1, <2>2, TablesUntouched, WaitersUntouched
<1>4. ASSUME NEW i \in Instances, DeleteAcked(i)
      PROVE  ResultsTypeOK' /\ NamesOK' /\ OwnersOK' /\ ResultTablesAgree' /\ WaitersOK'
  <2>1. UNCHANGED <<sub, waiters, latest>>
    BY <1>4 DEF DeleteAcked
  <2> QED BY <1>4, <2>1, AckedSafe, WaitersUntouched
<1>5. ASSUME NEW k \in Keys, CaptureResult(k)
      PROVE  ResultsTypeOK' /\ NamesOK' /\ OwnersOK' /\ ResultTablesAgree' /\ WaitersOK'
  <2>1. UNCHANGED <<results, byInstance, sub, waiters, latest>>
    BY <1>5 DEF CaptureResult
  <2> QED BY <1>5, <2>1, CaptureTypes, TablesUntouched, WaitersUntouched
<1>6. ASSUME NEW k \in Keys, HandleJobDelete(k)
      PROVE  ResultsTypeOK' /\ NamesOK' /\ OwnersOK' /\ ResultTablesAgree' /\ WaitersOK'
  <2>1. UNCHANGED <<sub, waiters, latest>>
    BY <1>6 DEF HandleJobDelete
  <2> QED BY <1>6, <2>1, JobDeleteSafe, WaitersUntouched
<1>7. ASSUME NEW e \in Executions, StoreCaptured(e)
      PROVE  ResultsTypeOK' /\ NamesOK' /\ OwnersOK' /\ ResultTablesAgree' /\ WaitersOK'
  <2>1. UNCHANGED <<sub, waiters, latest>>
    BY <1>7 DEF StoreCaptured
  <2> QED BY <1>7, <2>1, StoreSafe, WaitersUntouched
<1>8. ASSUME NEW e \in Executions, DeliverCaptured(e)
      PROVE  ResultsTypeOK' /\ NamesOK' /\ OwnersOK' /\ ResultTablesAgree' /\ WaitersOK'
  <2>1. UNCHANGED <<results, byInstance, sub, waiters, latest>>
    BY <1>8 DEF DeliverCaptured
  <2> QED BY <1>8, <2>1, DeliverTypes, TablesUntouched, WaitersUntouched
<1>9. ASSUME NEW p \in Senders, DeliverListed(p)
      PROVE  ResultsTypeOK' /\ NamesOK' /\ OwnersOK' /\ ResultTablesAgree' /\ WaitersOK'
  <2>1. UNCHANGED <<results, byInstance, sub, waiters, latest>>
    BY <1>9 DEF DeliverListed
  <2> QED BY <1>9, <2>1, SenderTypes, TablesUntouched, WaitersUntouched
<1>10. ASSUME ExpireResults \/ DeleteJob
       PROVE  ResultsTypeOK' /\ NamesOK' /\ OwnersOK' /\ ResultTablesAgree' /\ WaitersOK'
  <2>1. UNCHANGED <<results, byInstance, sub, waiters, latest>>
    BY <1>10 DEF ExpireResults, DeleteJob
  <2> QED BY <1>10, <2>1, ExpireTypes, DeleteJobTypes, TablesUntouched, WaitersUntouched
<1>11. ASSUME NEW u \in UUIDs, Evict(u)
       PROVE  ResultsTypeOK' /\ NamesOK' /\ OwnersOK' /\ ResultTablesAgree' /\ WaitersOK'
  <2>1. UNCHANGED <<sub, waiters, latest>>
    BY <1>11 DEF Evict
  <2> QED BY <1>11, <2>1, EvictSafe, WaitersUntouched
<1>12. CASE UNCHANGED vars
  <2>1. UNCHANGED <<results, byInstance, sub, waiters, latest>>
    BY <1>12 DEF vars
  <2>2. ResultsTypeOK' /\ NamesOK'
    BY <1>12 DEF vars, ResultsTypeOK, StoreType, ClientType, WireType, EngineType, NamesOK
  <2> QED BY <2>1, <2>2, TablesUntouched, WaitersUntouched
<1> QED
  BY <1>1, <1>2, <1>3, <1>4, <1>5, <1>6, <1>7, <1>8, <1>9, <1>10, <1>11, <1>12 DEF ResultsNext

\* The invariant of result delivery: types, tables and waiters.
THEOREM ResultsInvariant == ResultsSpec => []ResultsInv
<1> QED BY ResultsInitially, ResultsStep, PTL DEF ResultsSpec

\* The store's two result tables never disagree and never outgrow their caps.
THEOREM TableSafety == ResultsSpec => []ResultTablesAgree
<1>1. ResultsInv => ResultTablesAgree
  BY DEF ResultsInv
<1> QED BY <1>1, ResultsInvariant, PTL

\* An old submission that ends never takes the waiter of a newer one.
THEOREM WaiterSafety == ResultsSpec => []LatestWaiterKept
<1>1. ResultsInv => LatestWaiterKept
  BY DEF ResultsInv, WaitersOK, LatestWaiterKept
<1> QED BY <1>1, ResultsInvariant, PTL

-----------------------------------------------------------------------------
(* What becomes of the result of a job that is submitted once.               *)

USE DEF Submissions, UUIDs, Executions

\* Each key is submitted once, and an upsert brings about one execution.
SubmittedOnce == Runs <= 1 /\ \A s, t \in Submissions : KeyOf[s] = KeyOf[t] => s = t

\* Nothing has come of submission s yet.
Fresh(s) ==
    /\ jobs[KeyOf[s]].uuid = 0 /\ due[KeyOf[s]] = 0
    /\ \A e \in Executions : capture[e].uuid # s

\* Execution e settled and was stored as the result of job u.
ResultOf(u, e) == e \in Executions /\ capture[e].pc \in {"deliver", "done"} /\ capture[e].uuid = u

\* Submission u has a result, or waits no longer.
Answered(u) == sub[u].pc \in {"closed", "failed"} \/ sub[u].chan # 0 \/ sub[u].got # 0

JobsOnce ==
    /\ \A k \in Keys :
          /\ due[k] <= 1
          /\ jobs[k].uuid # 0 => KeyOf[jobs[k].uuid] = k /\ jobs[k].inst = InstOf[jobs[k].uuid]
    /\ \A s \in Submissions :
          /\ sub[s].pc = "new" => Fresh(s)
          /\ due[KeyOf[s]] # 0 => \A e \in Executions : capture[e].uuid # s

\* An upsert travels once, ahead of everything that comes of it.
UpsertAt(i, n, s) == toEngine[i][n].type = "upsert" /\ toEngine[i][n].sub = s
UpsertsOnce ==
    \A i \in Instances, s \in Submissions : \A n \in 1 .. Len(toEngine[i]) :
        UpsertAt(i, n, s) =>
            /\ InstOf[s] = i /\ sub[s].pc # "new" /\ Fresh(s)
            /\ \A m \in 1 .. Len(toEngine[i]) : UpsertAt(i, m, s) => m = n

CapturesOnce ==
    /\ \A e \in Executions :
          /\ e > settled => capture[e].uuid = 0 /\ capture[e].pc = "none"
          /\ capture[e].uuid # 0 => capture[e].inst = InstOf[capture[e].uuid]
          /\ capture[e].pc \in {"store", "deliver", "done"} => capture[e].uuid # 0
    /\ \A e, f \in Executions : capture[e].uuid # 0 /\ capture[e].uuid = capture[f].uuid => e = f

\* Every copy of a result names the execution of its job, and travels to the
\* submitter; an answer names the job of the submission itself.
TableTrue ==
    \A u \in UUIDs : results[u].exec # 0 => ResultOf(u, results[u].exec) /\ results[u].inst = InstOf[u]
OutboxTrue ==
    \A p \in Senders : \A n \in 1 .. Len(outbox[p]) :
        ResultOf(outbox[p][n].uuid, outbox[p][n].exec) /\ outbox[p][n].inst = InstOf[outbox[p][n].uuid]
MessageTrue(i, m) ==
    IF m.type = "reply" THEN m.uuid = m.sub ELSE ResultOf(m.uuid, m.exec) /\ i = InstOf[m.uuid]
WireTrue == \A i \in Instances : \A n \in 1 .. Len(toClient[i]) : MessageTrue(i, toClient[i][n])
RepliesTrue == \A i \in Instances : reader[i].pc = "reply" => reader[i].uuid = reader[i].sub
CopiesTrue == TableTrue /\ OutboxTrue /\ WireTrue /\ RepliesTrue

\* A submission waits under its own job until it returns.
WaitersOwn ==
    /\ \A s \in Submissions :
          /\ sub[s].uuid = s
          /\ sub[s].pc \in {"sent", "replied", "awaiting"} => waiters[InstOf[s]][s] = s
          /\ sub[s].chan # 0 => ResultOf(s, sub[s].chan)
          /\ sub[s].got # 0 => ResultOf(s, sub[s].got)
          /\ sub[s].pc = "done" => sub[s].got # 0
    /\ \A i \in Instances, u \in UUIDs : waiters[i][u] \in {0, u}

\* Only what a submission has is acknowledged.
AcksTrue ==
    /\ \A i \in Instances : \A n \in 1 .. Len(toEngine[i]) :
          toEngine[i][n].type = "ack" => Answered(toEngine[i][n].uuid)
    /\ \A i \in Instances : reader[i].pc = "delete" => Answered(reader[i].uuid)

HeldOrAnswered ==
    \A e \in Executions : capture[e].pc \in {"deliver", "done"} /\ e \notin excused =>
        results[capture[e].uuid].exec = e \/ Answered(capture[e].uuid)

HeldInv ==
    JobsOnce /\ UpsertsOnce /\ CapturesOnce /\ CopiesTrue /\ WaitersOwn /\ AcksTrue /\ HeldOrAnswered

\* Where the entries of a shortened or longer queue come from.
LEMMA TailEntries ==
    ASSUME NEW S, NEW q \in Seq(S), q # <<>>
    PROVE  /\ \A n \in 1 .. Len(Tail(q)) : n + 1 \in 1 .. Len(q) /\ Tail(q)[n] = q[n + 1]
           /\ 1 \in 1 .. Len(q) /\ Head(q) = q[1]
<1>1. /\ Len(q) \in Nat /\ Len(q) # 0
  BY LenProperties, EmptySeq
<1>2. Len(Tail(q)) = Len(q) - 1 /\ \A n \in 1 .. Len(q) - 1 : Tail(q)[n] = q[n + 1]
  BY <1>1, HeadTailProperties
<1> QED BY <1>1, <1>2, HeadTailProperties

LEMMA AppendEntries ==
    ASSUME NEW S, NEW q \in Seq(S), NEW x \in S
    PROVE  /\ \A n \in 1 .. Len(Append(q, x)) :
                 \/ n \in 1 .. Len(q) /\ Append(q, x)[n] = q[n]
                 \/ n = Len(q) + 1 /\ n \notin 1 .. Len(q) /\ Append(q, x)[n] = x
<1>1. Len(q) \in Nat /\ Len(Append(q, x)) = Len(q) + 1
  BY LenProperties, AppendProperties
<1> QED BY <1>1, AppendProperties

\* The result of a handler is kept by whatever leaves the handlers alone.
LEMMA HandlersUntouched ==
    ASSUME UNCHANGED capture
    PROVE  \A u, e : ResultOf(u, e)' <=> ResultOf(u, e)
  BY DEF ResultOf

\* What keeps each part of the invariant when its variables stay.
Ages == \A s \in Submissions : sub'[s].pc = "new" => sub[s].pc = "new"

StillFresh == \A s \in Submissions : Fresh(s) => Fresh(s)'

LEMMA JobsUntouched ==
    ASSUME JobsOnce, UNCHANGED <<jobs, due>>, \A e \in Executions : capture'[e].uuid = capture[e].uuid, Ages
    PROVE  JobsOnce' /\ StillFresh
<1>1. StillFresh
  BY DEF Fresh, StillFresh
<1>2. \A s \in Submissions : sub'[s].pc = "new" => Fresh(s)'
  BY <1>1 DEF JobsOnce, Ages, StillFresh
<1> QED BY <1>1, <1>2 DEF JobsOnce

LEMMA UpsertsUntouched ==
    ASSUME UpsertsOnce, UNCHANGED toEngine, StillFresh, Ages
    PROVE  UpsertsOnce'
<1>1. \A i, n, s : UpsertAt(i, n, s)' <=> UpsertAt(i, n, s)
  BY DEF UpsertAt
<1> QED BY <1>1 DEF UpsertsOnce, StillFresh, Ages

\* The messages to the engine may be taken from the front, and joined by
\* acknowledgements of what was answered.
Joined(d) ==
    \A j \in Instances : \A n \in 1 .. Len(toEngine'[j]) :
        \/ n + d[j] \in 1 .. Len(toEngine[j]) /\ toEngine'[j][n] = toEngine[j][n + d[j]]
        \/ toEngine'[j][n].type = "ack" /\ (Answered(toEngine[j][n].uuid))'

LEMMA UpsertsJoined ==
    ASSUME UpsertsOnce, StillFresh, Ages, NEW d \in [Instances -> Nat], Joined(d)
    PROVE  UpsertsOnce'
<1> SUFFICES ASSUME NEW j \in Instances, NEW w \in Submissions, NEW n \in 1 .. Len(toEngine'[j]),
                    UpsertAt(j, n, w)'
             PROVE  /\ InstOf[w] = j /\ sub'[w].pc # "new" /\ Fresh(w)'
                    /\ \A k \in 1 .. Len(toEngine'[j]) : UpsertAt(j, k, w)' => k = n
  BY DEF UpsertsOnce
<1>1. \A k \in 1 .. Len(toEngine'[j]) : UpsertAt(j, k, w)' => k + d[j] \in 1 .. Len(toEngine[j])
                                                            /\ UpsertAt(j, k + d[j], w)
  BY DEF Joined, UpsertAt
<1>2. /\ InstOf[w] = j /\ sub[w].pc # "new" /\ Fresh(w)
      /\ \A k \in 1 .. Len(toEngine[j]) : UpsertAt(j, k, w) => k = n + d[j]
  BY <1>1 DEF UpsertsOnce
<1>3. \A k \in 1 .. Len(toEngine'[j]) : UpsertAt(j, k, w)' => k = n
  <2>1. d[j] \in Nat
    OBVIOUS
  <2>2. \A k \in 1 .. Len(toEngine'[j]) : UpsertAt(j, k, w)' => k + d[j] = n + d[j]
    BY <1>1, <1>2
  <2> QED BY <2>1, <2>2
<1>4. Fresh(w)' /\ sub'[w].pc # "new"
  BY <1>2 DEF Ages, StillFresh
<1> QED BY <1>2, <1>3, <1>4

LEMMA CapturesUntouched ==
    ASSUME CapturesOnce, UNCHANGED <<capture, settled>>
    PROVE  CapturesOnce'
  BY DEF CapturesOnce

LEMMA TableUntouched ==
    ASSUME TableTrue, UNCHANGED results, \A u, e : ResultOf(u, e) => ResultOf(u, e)'
    PROVE  TableTrue'
  BY DEF TableTrue

LEMMA OutboxUntouched ==
    ASSUME OutboxTrue, UNCHANGED outbox, \A u, e : ResultOf(u, e) => ResultOf(u, e)'
    PROVE  OutboxTrue'
  BY DEF OutboxTrue

\* The messages to the clients may only be added truly.
LEMMA WireThinned ==
    ASSUME WireTrue, \A u, e : ResultOf(u, e) => ResultOf(u, e)',
           \A i \in Instances : \A n \in 1 .. Len(toClient'[i]) :
              \/ \E k \in 1 .. Len(toClient[i]) : toClient'[i][n] = toClient[i][k]
              \/ MessageTrue(i, toClient[i][n])'
    PROVE  WireTrue'
<1> SUFFICES ASSUME NEW i \in Instances, NEW n \in 1 .. Len(toClient'[i]),
                    NEW k \in 1 .. Len(toClient[i]), toClient'[i][n] = toClient[i][k]
             PROVE  MessageTrue(i, toClient[i][n])'
  BY DEF WireTrue
<1>1. \A m : MessageTrue(i, m) => MessageTrue(i, m)'
  BY DEF MessageTrue
<1>2. \A m : m = toClient[i][k] => MessageTrue(i, m)
  BY DEF WireTrue
<1>3. \A m : m = toClient'[i][n] => (MessageTrue(i, m)' <=> MessageTrue(i, toClient[i][n])')
  BY DEF MessageTrue, ResultOf
<1> QED BY <1>1, <1>2, <1>3

LEMMA RepliesUntouched == ASSUME RepliesTrue, UNCHANGED reader PROVE RepliesTrue'
  BY DEF RepliesTrue

LEMMA CopiesUntouched ==
    ASSUME CopiesTrue, UNCHANGED <<results, outbox, toClient, reader>>,
           \A u, e : ResultOf(u, e) => ResultOf(u, e)'
    PROVE  CopiesTrue'
  BY TableUntouched, OutboxUntouched, WireThinned, RepliesUntouched DEF CopiesTrue

LEMMA OwnUntouched ==
    ASSUME WaitersOwn, UNCHANGED <<sub, waiters>>, \A u, e : ResultOf(u, e) => ResultOf(u, e)'
    PROVE  WaitersOwn'
  BY DEF WaitersOwn

\* A submission that is answered stays so.
StillAnswered == \A u \in UUIDs : Answered(u) => Answered(u)'

LEMMA AcksUntouched ==
    ASSUME ResultsTypeOK, NamesOK, AcksTrue, UNCHANGED <<toEngine, reader>>, StillAnswered
    PROVE  AcksTrue'
<1>1. \A i \in Instances : \A n \in 1 .. Len(toEngine[i]) :
         toEngine[i][n].type = "ack" => toEngine[i][n].uuid \in UUIDs
  BY ElementOfSeq, MessageFields DEF ResultsTypeOK, WireType
<1> QED BY <1>1 DEF AcksTrue, StillAnswered, NamesOK

LEMMA AcksJoined ==
    ASSUME ResultsTypeOK, NamesOK, AcksTrue, StillAnswered, NEW d \in [Instances -> Nat], Joined(d),
           \A i \in Instances : \/ reader'[i] = reader[i]
                                \/ reader'[i].pc = "delete" => (Answered(reader[i].uuid))'
    PROVE  AcksTrue'
<1>1. \A i \in Instances : \A n \in 1 .. Len(toEngine[i]) :
         toEngine[i][n].type = "ack" => toEngine[i][n].uuid \in UUIDs
  BY ElementOfSeq, MessageFields DEF ResultsTypeOK, WireType
<1>2. \A i \in Instances : reader[i].pc = "delete" => reader[i].uuid \in UUIDs
  BY DEF NamesOK
<1>3. (\A i \in Instances : reader[i].pc = "delete" => Answered(reader[i].uuid))'
  <2> SUFFICES ASSUME NEW i \in Instances, reader'[i] = reader[i], reader[i].pc = "delete"
               PROVE  (Answered(reader[i].uuid))'
    OBVIOUS
  <2>1. \A u \in UUIDs : u = reader[i].uuid => Answered(u)'
    BY DEF AcksTrue, StillAnswered
  <2> QED BY <1>2, <2>1 DEF Answered
<1>4. ASSUME NEW i \in Instances, NEW n \in 1 .. Len(toEngine'[i]), toEngine'[i][n].type = "ack"
      PROVE  (Answered(toEngine[i][n].uuid))'
  <2>1. CASE n + d[i] \in 1 .. Len(toEngine[i]) /\ toEngine'[i][n] = toEngine[i][n + d[i]]
    <3> DEFINE u == toEngine[i][n + d[i]].uuid
    <3>1. Answered(u) /\ u \in UUIDs
      BY <1>1, <1>4, <2>1 DEF AcksTrue
    <3>2. (Answered(toEngine[i][n].uuid))' <=> sub'[u].pc \in {"closed", "failed"} \/ sub'[u].chan # 0 \/ sub'[u].got # 0
      BY <2>1 DEF Answered
    <3>3. Answered(u) => sub'[u].pc \in {"closed", "failed"} \/ sub'[u].chan # 0 \/ sub'[u].got # 0
      BY <3>1 DEF StillAnswered, Answered
    <3> QED BY <3>1, <3>2, <3>3
  <2> QED BY <2>1 DEF Joined
<1> QED BY <1>3, <1>4 DEF AcksTrue

LEMMA HeldUntouched ==
    ASSUME ResultsTypeOK, CapturesOnce, HeldOrAnswered, UNCHANGED <<results, capture, excused>>, StillAnswered
    PROVE  HeldOrAnswered'
<1>1. \A e \in Executions : capture[e].pc \in {"deliver", "done"} => capture[e].uuid \in UUIDs
  BY ConstantFacts DEF CapturesOnce, ResultsTypeOK, EngineType
<1> QED BY <1>1 DEF HeldOrAnswered, StillAnswered

-----------------------------------------------------------------------------
(* The client's steps.                                                       *)

\* UpsertJob: the upsert goes out, once, and nothing has come of it.
LEMMA SubmitHeld ==
    ASSUME ResultsInv, HeldInv, NEW s \in Submissions, SubmitJob(s)
    PROVE  HeldInv'
<1> USE DEF ResultsInv, HeldInv
<1> DEFINE i == InstOf[s]
           m == [type |-> "upsert", sub |-> s]
<1>0. /\ i \in Instances /\ sub[s].pc = "new" /\ sub[s].uuid = s
      /\ sub \in [Submissions -> SubmissionRecords]
      /\ toEngine \in [Instances -> Seq(ToEngine)] /\ m \in ToEngine
      /\ waiters \in [Instances -> [UUIDs -> 0 .. MaxSubmission]] /\ s \in 0 .. MaxSubmission /\ s \in UUIDs
  BY ConstantFacts, MessageForms
     DEF ResultsTypeOK, ClientType, WireType, SubmissionRecords, SubmitJob, WaitersOwn
<1>u. UNCHANGED <<jobs, due, settled, capture, toClient, results, outbox, reader, excused>>
  BY DEF SubmitJob
<1>1. /\ \/ /\ waiters' = [waiters EXCEPT ![i][s] = s]
            /\ sub' = [sub EXCEPT ![s].pc = "sent"]
            /\ toEngine' = [toEngine EXCEPT ![i] = Append(toEngine[i], m)]
         \/ sub' = [sub EXCEPT ![s].pc = "failed"] /\ UNCHANGED <<waiters, toEngine>>
  BY DEF SubmitJob
<1> HIDE DEF i, m
<1>2. /\ \A w \in Submissions : w # s => sub'[w] = sub[w]
      /\ sub'[s].pc \in {"sent", "failed"} /\ sub'[s].uuid = s
      /\ sub'[s].chan = sub[s].chan /\ sub'[s].got = sub[s].got
      /\ sub'[s].pc = "sent" => waiters' = [waiters EXCEPT ![i][s] = s]
      /\ sub'[s].pc = "failed" => waiters' = waiters
  <2>1. CASE sub' = [sub EXCEPT ![s].pc = "sent"] /\ waiters' = [waiters EXCEPT ![i][s] = s]
    <3>1. sub' = [sub EXCEPT ![s].pc = "sent"]
      BY <2>1
    <3>2. sub'[s].pc = "sent"
      BY <1>0, <3>1 DEF SubmissionRecords
    <3> QED BY <1>0, <2>1, <3>1, <3>2 DEF SubmissionRecords
  <2>2. CASE sub' = [sub EXCEPT ![s].pc = "failed"] /\ waiters' = waiters
    BY <1>0, <2>2 DEF SubmissionRecords
  <2> QED BY <1>1, <2>1, <2>2
<1>3. Ages /\ StillAnswered /\ \A u, e : ResultOf(u, e)' <=> ResultOf(u, e)
  <2>1. Ages /\ StillAnswered
    BY <1>0, <1>2 DEF Ages, StillAnswered, Answered
  <2> QED BY <1>u, <2>1, HandlersUntouched
<1>4. JobsOnce' /\ StillFresh /\ CapturesOnce' /\ CopiesTrue' /\ HeldOrAnswered'
  BY <1>u, <1>3, JobsUntouched, CapturesUntouched, CopiesUntouched, HeldUntouched
<1>5. WaitersOwn'
  <2>1. \A j \in Instances, v \in UUIDs :
           waiters'[j][v] = waiters[j][v] \/ (j = i /\ v = s /\ waiters'[j][v] = s)
    <3>1. CASE sub'[s].pc = "sent"
      <4>1. waiters' = [waiters EXCEPT ![i][s] = s]
        BY <1>2, <3>1
      <4> QED BY <1>0, <4>1
    <3>2. CASE sub'[s].pc = "failed"
      BY <1>2, <3>2
    <3> QED BY <1>2, <3>1, <3>2
  <2>2. \A j \in Instances, v \in UUIDs : waiters'[j][v] \in {0, v}
    <3>1. \A j \in Instances, v \in UUIDs : waiters[j][v] \in {0, v}
      BY DEF WaitersOwn
    <3> QED BY <2>1, <3>1
  <2>3. sub'[s].pc = "sent" => waiters'[i][s] = s
    <3>1. ASSUME sub'[s].pc = "sent" PROVE waiters'[i][s] = s
      <4>1. waiters' = [waiters EXCEPT ![i][s] = s]
        BY <1>2, <3>1
      <4> QED BY <1>0, <4>1
    <3> QED BY <3>1
  <2>4. \A w \in Submissions : sub'[w].pc \in {"sent", "replied", "awaiting"} => waiters'[InstOf[w]][w] = w
    BY <1>2, <2>1, <2>3, ConstantFacts DEF WaitersOwn, i
  <2> QED BY <1>2, <1>3, <2>2, <2>4 DEF WaitersOwn
<1>6. CASE UNCHANGED toEngine
  BY <1>u, <1>3, <1>4, <1>5, <1>6, UpsertsUntouched, AcksUntouched
<1>7. CASE toEngine' = [toEngine EXCEPT ![i] = Append(toEngine[i], m)] /\ sub' = [sub EXCEPT ![s].pc = "sent"]
  <2>1. \A j \in Instances : \A n \in 1 .. Len(toEngine'[j]) :
           \/ n \in 1 .. Len(toEngine[j]) /\ toEngine'[j][n] = toEngine[j][n]
           \/ j = i /\ n = Len(toEngine[i]) + 1 /\ toEngine'[j][n] = m
    BY <1>0, <1>7, AppendEntries
  <2>2. \A j \in Instances : \A n \in 1 .. Len(toEngine[j]) : ~UpsertAt(j, n, s)
    BY <1>0 DEF UpsertsOnce
  <2>3. Fresh(s)' /\ \A w \in Submissions : Fresh(w)' <=> Fresh(w)
    <3>1. \A w \in Submissions : Fresh(w)' <=> Fresh(w)
      BY <1>u DEF Fresh
    <3> QED BY <1>0, <3>1 DEF JobsOnce
  <2>4. m.type = "upsert" /\ m.sub = s
    BY DEF m
  <2>5. UpsertsOnce'
    <3> SUFFICES ASSUME NEW j \in Instances, NEW w \in Submissions, NEW n \in 1 .. Len(toEngine'[j]),
                        UpsertAt(j, n, w)'
                 PROVE  /\ InstOf[w] = j /\ sub'[w].pc # "new" /\ Fresh(w)'
                        /\ \A k \in 1 .. Len(toEngine'[j]) : UpsertAt(j, k, w)' => k = n
      BY DEF UpsertsOnce
    <3>1. CASE w = s
      <4>1. \A k \in 1 .. Len(toEngine'[j]) : UpsertAt(j, k, s)' => j = i /\ k = Len(toEngine[i]) + 1
        BY <2>1, <2>2 DEF UpsertAt
      <4> QED BY <1>2, <2>3, <3>1, <4>1 DEF i
    <3>2. CASE w # s
      <4>1. \A k \in 1 .. Len(toEngine'[j]) : UpsertAt(j, k, w)' => k \in 1 .. Len(toEngine[j]) /\ UpsertAt(j, k, w)
        BY <2>1, <2>4, <3>2 DEF UpsertAt
      <4> QED BY <1>2, <2>3, <3>2, <4>1 DEF UpsertsOnce
    <3> QED BY <3>1, <3>2
  <2>6. \A j \in Instances : \A n \in 1 .. Len(toEngine[j]) :
           toEngine[j][n].type = "ack" => toEngine[j][n].uuid \in UUIDs
    BY <1>0, ElementOfSeq, MessageFields
  <2>7. AcksTrue'
    <3>1. \A j \in Instances : \A n \in 1 .. Len(toEngine'[j]) :
             toEngine'[j][n].type = "ack" => n \in 1 .. Len(toEngine[j]) /\ toEngine'[j][n] = toEngine[j][n]
      BY <2>1, <2>4
    <3>2. (\A j \in Instances : reader[j].pc = "delete" => Answered(reader[j].uuid))'
      BY <1>u, <1>3 DEF AcksTrue, StillAnswered, NamesOK
    <3>3. (\A j \in Instances : \A n \in 1 .. Len(toEngine[j]) :
              toEngine[j][n].type = "ack" => Answered(toEngine[j][n].uuid))'
      BY <1>3, <2>6, <3>1 DEF AcksTrue, StillAnswered
    <3> QED BY <3>2, <3>3 DEF AcksTrue
  <2> QED BY <1>4, <1>5, <2>5, <2>7
<1> QED BY <1>1, <1>6, <1>7

\* The rest of UpsertJob, Await and Close: the submission keeps to its own job,
\* and to what it has.
LEMMA ReturnHeld ==
    ASSUME ResultsInv, HeldInv, NEW s \in Submissions, Adopt(s) \/ Await(s) \/ CloseSubmission(s)
    PROVE  HeldInv'
<1> USE DEF ResultsInv, HeldInv
<1>0. /\ sub \in [Submissions -> SubmissionRecords] /\ sub[s].uuid = s /\ InstOf[s] \in Instances
      /\ waiters \in [Instances -> [UUIDs -> 0 .. MaxSubmission]] /\ s \in UUIDs /\ s # 0
  BY ConstantFacts DEF ResultsTypeOK, ClientType, SubmissionRecords, WaitersOwn
<1>u. UNCHANGED <<jobs, due, settled, capture, toClient, toEngine, results, outbox, reader, excused>>
  BY DEF Adopt, Await, CloseSubmission
<1>1. /\ \/ /\ sub[s].pc = "replied" /\ sub' = [sub EXCEPT ![s].pc = "awaiting"] /\ waiters' = waiters
         \/ /\ sub[s].pc = "awaiting" /\ sub[s].chan # 0
            /\ sub' = [sub EXCEPT ![s].pc = "done", ![s].got = sub[s].chan, ![s].chan = 0]
            /\ waiters' = Released(s, s)
         \/ /\ sub[s].pc \in {"sent", "replied", "awaiting"}
            /\ sub' = [sub EXCEPT ![s].pc = "closed", ![s].chan = 0]
            /\ waiters' = Released(s, s)
  <2>1. CASE Adopt(s)
    BY <1>0, <2>1 DEF Adopt
  <2>2. CASE Await(s)
    BY <1>0, <2>2 DEF Await
  <2>3. CASE CloseSubmission(s)
    <3>1. (IF sub[s].pc = "awaiting" THEN sub[s].uuid ELSE s) = s
      BY <1>0
    <3> QED BY <2>3, <3>1 DEF CloseSubmission
  <2> QED BY <2>1, <2>2, <2>3
<1>2. /\ \A w \in Submissions : w # s => sub'[w] = sub[w]
      /\ sub[s].pc # "new" /\ sub'[s].pc \in {"awaiting", "done", "closed"} /\ sub'[s].uuid = s
      /\ sub'[s].pc = "awaiting" =>
            waiters' = waiters /\ sub[s].pc = "replied" /\ sub'[s].chan = sub[s].chan /\ sub'[s].got = sub[s].got
      /\ sub'[s].pc = "done" => sub'[s].chan = 0 /\ sub'[s].got = sub[s].chan /\ sub[s].chan # 0
      /\ sub'[s].pc = "closed" => sub'[s].chan = 0 /\ sub'[s].got = sub[s].got
      /\ sub'[s].pc # "awaiting" => waiters' = Released(s, s)
  <2>1. CASE sub[s].pc = "replied" /\ sub' = [sub EXCEPT ![s].pc = "awaiting"] /\ waiters' = waiters
    BY <1>0, <2>1 DEF SubmissionRecords
  <2>2. CASE /\ sub[s].pc = "awaiting" /\ sub[s].chan # 0
             /\ sub' = [sub EXCEPT ![s].pc = "done", ![s].got = sub[s].chan, ![s].chan = 0]
             /\ waiters' = Released(s, s)
    BY <1>0, <2>2 DEF SubmissionRecords
  <2>3. CASE /\ sub[s].pc \in {"sent", "replied", "awaiting"}
             /\ sub' = [sub EXCEPT ![s].pc = "closed", ![s].chan = 0]
             /\ waiters' = Released(s, s)
    BY <1>0, <2>3 DEF SubmissionRecords
  <2> QED BY <1>1, <2>1, <2>2, <2>3
<1>3. Answered(s) => Answered(s)'
  BY <1>2 DEF Answered
<1>4. Ages /\ StillAnswered /\ \A u, e : ResultOf(u, e)' <=> ResultOf(u, e)
  <2>1. Ages /\ StillAnswered
    BY <1>2, <1>3 DEF Ages, StillAnswered, Answered
  <2> QED BY <1>u, <2>1, HandlersUntouched
<1>j. JobsOnce' /\ StillFresh
  BY <1>u, <1>4, JobsUntouched
<1>5. UpsertsOnce' /\ CapturesOnce' /\ CopiesTrue' /\ AcksTrue' /\ HeldOrAnswered'
  BY <1>j, <1>u, <1>4, JobsUntouched, UpsertsUntouched, CapturesUntouched, CopiesUntouched, AcksUntouched,
     HeldUntouched
<1>6. WaitersOwn'
  <2>1. \A j \in Instances, v \in UUIDs :
           waiters'[j][v] = waiters[j][v] \/ (waiters'[j][v] = 0 /\ v = s)
    <3>1. waiters' = waiters \/ waiters' = [waiters EXCEPT ![InstOf[s]][s] = 0]
      BY <1>1 DEF Released
    <3>2. CASE waiters' = [waiters EXCEPT ![InstOf[s]][s] = 0]
      BY <1>0, <3>2
    <3> QED BY <3>1, <3>2
  <2>2. \A j \in Instances, v \in UUIDs : waiters'[j][v] \in {0, v}
    <3>1. \A j \in Instances, v \in UUIDs : waiters[j][v] \in {0, v}
      BY DEF WaitersOwn
    <3> QED BY <2>1, <3>1
  <2>3. \A w \in Submissions : sub'[w].pc \in {"sent", "replied", "awaiting"} => waiters'[InstOf[w]][w] = w
    BY <1>2, <1>3, <2>1, ConstantFacts DEF WaitersOwn
  <2> QED BY <1>2, <1>3, <1>4, <2>2, <2>3 DEF WaitersOwn
<1> QED BY <1>j, <1>5, <1>6

\* ReadFrame: what is read off the wire is true, and a delivery is acknowledged
\* only when its submission has a result or waits no longer.
LEMMA ReadHeld ==
    ASSUME ResultsInv, HeldInv, NEW i \in Instances, ReadFrame(i)
    PROVE  HeldInv'
<1> USE DEF ResultsInv, HeldInv
<1> DEFINE m == Head(toClient[i])
<1>u. UNCHANGED <<jobs, due, settled, capture, results, outbox, reader, excused, waiters>>
  BY DEF ReadFrame
<1>0. /\ toClient[i] \in Seq(ToClient) /\ toClient[i] # <<>> /\ m \in ToClient
      /\ sub \in [Submissions -> SubmissionRecords] /\ toClient \in [Instances -> Seq(ToClient)]
      /\ toEngine \in [Instances -> Seq(ToEngine)]
  BY QueueTypes DEF ReadFrame, ResultsTypeOK, ClientType, WireType, SubmissionRecords
<1>1. /\ \A n \in 1 .. Len(Tail(toClient[i])) :
            n + 1 \in 1 .. Len(toClient[i]) /\ Tail(toClient[i])[n] = toClient[i][n + 1]
      /\ 1 \in 1 .. Len(toClient[i]) /\ m = toClient[i][1]
  BY <1>0, TailEntries
<1>2. MessageTrue(i, m)
  BY <1>1 DEF CopiesTrue, WireTrue
<1>3. toClient' = [toClient EXCEPT ![i] = Tail(toClient[i])]
  BY DEF ReadFrame
<1>4. \A u, e : ResultOf(u, e)' <=> ResultOf(u, e)
  BY <1>u, HandlersUntouched
<1>6. CapturesOnce' /\ CopiesTrue'
  <2>1. \A j \in Instances : \A n \in 1 .. Len(toClient'[j]) :
           \E k \in 1 .. Len(toClient[j]) : toClient'[j][n] = toClient[j][k]
    BY <1>0, <1>1, <1>3
  <2>2. WireTrue'
    BY <1>4, <2>1, WireThinned DEF CopiesTrue
  <2> QED BY <1>u, <1>4, <2>2, CapturesUntouched, TableUntouched, OutboxUntouched, RepliesUntouched DEF CopiesTrue
<1>7. CASE m.type = "reply"
  <2>1. /\ m.sub \in Submissions /\ m.uuid = m.sub /\ UNCHANGED toEngine
        /\ sub' = IF sub[m.sub].pc = "sent"
                  THEN [sub EXCEPT ![m.sub].pc = "replied", ![m.sub].uuid = m.uuid] ELSE sub
    BY <1>0, <1>2, <1>7, MessageFields DEF ReadFrame, MessageTrue
  <2> HIDE DEF m
  <2>2. \A w \in Submissions :
           /\ sub'[w].pc = sub[w].pc \/ (sub[w].pc = "sent" /\ sub'[w].pc = "replied")
           /\ sub'[w].uuid = w /\ sub'[w].chan = sub[w].chan /\ sub'[w].got = sub[w].got
    <3>1. \A w \in Submissions : sub[w].uuid = w
      BY DEF WaitersOwn
    <3>2. CASE sub' = sub
      BY <3>1, <3>2
    <3>3. CASE sub[m.sub].pc = "sent" /\ sub' = [sub EXCEPT ![m.sub].pc = "replied", ![m.sub].uuid = m.sub]
      BY <1>0, <2>1, <3>1, <3>3 DEF SubmissionRecords
    <3> QED BY <2>1, <3>2, <3>3
  <2>3. Ages /\ StillAnswered
    BY <2>2 DEF Ages, StillAnswered, Answered
  <2>4. WaitersOwn'
    BY <1>u, <1>4, <2>2 DEF WaitersOwn
  <2>5. JobsOnce' /\ StillFresh
    BY <1>u, <2>3, JobsUntouched
  <2> QED BY <1>u, <1>6, <2>1, <2>3, <2>4, <2>5, UpsertsUntouched, AcksUntouched, HeldUntouched
<1>8. CASE m.type # "reply"
  <2> DEFINE u == m.uuid
             e == m.exec
  <2>1. /\ u \in UUIDs /\ i = InstOf[u] /\ ResultOf(u, e) /\ e # 0
        /\ sub' = Offer(i, u, e)
        /\ toEngine' = [toEngine EXCEPT ![i] = Acknowledged(toEngine[i], u)]
    <3>1. ResultOf(u, e) /\ i = InstOf[u]
      BY <1>2, <1>8 DEF MessageTrue
    <3>2. e # 0
      BY <3>1, ConstantFacts DEF ResultOf
    <3> QED BY <1>0, <1>8, <3>1, <3>2, MessageFields DEF ReadFrame
  <2> HIDE DEF m, u, e
  <2>2. waiters[i][u] = u \/ waiters[i][u] = 0
    BY <2>1 DEF WaitersOwn
  <2>3. /\ \A w \in Submissions :
              /\ sub'[w].pc = sub[w].pc /\ sub'[w].uuid = sub[w].uuid /\ sub'[w].got = sub[w].got
              /\ sub'[w].chan = sub[w].chan \/ (w = u /\ sub[w].chan = 0 /\ sub'[w].chan = e)
        /\ waiters[i][u] = u => sub'[u].chan # 0
    <3>1. CASE waiters[i][u] # 0 /\ sub[u].chan = 0
      <4>1. waiters[i][u] = u /\ sub' = [sub EXCEPT ![u].chan = e]
        BY <2>1, <2>2, <3>1 DEF Offer
      <4> QED BY <1>0, <2>1, <3>1, <4>1 DEF SubmissionRecords
    <3>2. CASE waiters[i][u] = 0 \/ sub[u].chan # 0
      <4>1. sub' = sub
        BY <2>1, <2>2, <3>2 DEF Offer
      <4>2. u # 0
        BY <2>1, ConstantFacts
      <4> QED BY <3>2, <4>1, <4>2
    <3> QED BY <3>1, <3>2
  <2>4. Ages /\ StillAnswered
    BY <2>1, <2>3 DEF Ages, StillAnswered, Answered
  <2>5. WaitersOwn'
    <3>1. \A w \in Submissions :
             /\ sub'[w].chan # 0 => ResultOf(w, sub'[w].chan)
             /\ sub'[w].got # 0 => ResultOf(w, sub'[w].got)
      BY <2>1, <2>3 DEF WaitersOwn
    <3>2. \A w \in Submissions : sub'[w].uuid = w /\ (sub'[w].pc = "done" => sub'[w].got # 0)
      BY <2>3 DEF WaitersOwn
    <3>3. \A w \in Submissions : sub'[w].pc \in {"sent", "replied", "awaiting"} => waiters'[InstOf[w]][w] = w
      BY <1>u, <2>3 DEF WaitersOwn
    <3>4. \A j \in Instances, v \in UUIDs : waiters'[j][v] \in {0, v}
      BY <1>u DEF WaitersOwn
    <3> QED BY <1>4, <3>1, <3>2, <3>3, <3>4 DEF WaitersOwn
  <2>6. sub'[u].pc \in {"closed", "failed"} \/ sub'[u].chan # 0 \/ sub'[u].got # 0
    <3>1. sub[u].pc # "new"
      BY <2>1 DEF ResultOf, JobsOnce, Fresh
    <3>2. CASE sub[u].pc \in {"sent", "replied", "awaiting"}
      BY <2>1, <2>3, <3>2 DEF WaitersOwn
    <3>3. CASE sub[u].pc = "done"
      BY <2>1, <2>3, <3>3 DEF WaitersOwn
    <3>4. sub[u].pc \in SubmissionStates
      BY <1>0, <2>1 DEF SubmissionRecords
    <3> QED BY <2>1, <2>3, <3>1, <3>2, <3>3, <3>4 DEF SubmissionStates
  <2> DEFINE d == [j \in Instances |-> 0]
  <2>7. Joined(d)
    <3> SUFFICES ASSUME NEW j \in Instances, NEW n \in 1 .. Len(toEngine'[j])
                 PROVE  \/ n + 0 \in 1 .. Len(toEngine[j]) /\ toEngine'[j][n] = toEngine[j][n + 0]
                        \/ toEngine'[j][n].type = "ack" /\ (Answered(toEngine[j][n].uuid))'
      BY DEF Joined
    <3>1. n + 0 = n /\ toEngine[j] \in Seq(ToEngine)
      BY <1>0
    <3>2. CASE toEngine'[j] = toEngine[j]
      BY <3>1, <3>2
    <3>3. CASE j = i /\ toEngine'[i] = Append(toEngine[i], [type |-> "ack", uuid |-> u])
      <4>1. [type |-> "ack", uuid |-> u] \in ToEngine
        BY <2>1, MessageForms
      <4>2. \/ n \in 1 .. Len(toEngine[j]) /\ toEngine'[j][n] = toEngine[j][n]
            \/ toEngine'[j][n] = [type |-> "ack", uuid |-> u]
        BY <3>1, <3>3, <4>1, AppendEntries
      <4>3. CASE toEngine'[j][n] = [type |-> "ack", uuid |-> u]
        <5>1. toEngine'[j][n].type = "ack" /\ toEngine'[j][n].uuid = u
          BY <4>3
        <5> QED BY <2>6, <5>1 DEF Answered
      <4> QED BY <3>1, <4>2, <4>3
    <3> QED BY <1>0, <2>1, <3>2, <3>3 DEF Acknowledged
  <2>8. d \in [Instances -> Nat]
    OBVIOUS
  <2> HIDE DEF d
  <2>9. JobsOnce' /\ StillFresh
    BY <1>u, <2>4, JobsUntouched
  <2> QED BY <1>u, <2>9, <1>6, <2>4, <2>5, <2>7, <2>8, UpsertsJoined, AcksJoined, HeldUntouched
<1> QED BY <1>7, <1>8

\* A lost connection takes messages away and fails who waits for an answer.
LEMMA DropHeld ==
    ASSUME ResultsInv, HeldInv, NEW i \in Instances, Disconnect(i)
    PROVE  HeldInv'
<1> USE DEF ResultsInv, HeldInv
<1> DEFINE waiting == {s \in Submissions : InstOf[s] = i /\ sub[s].pc = "sent"}
<1>u. UNCHANGED <<jobs, due, settled, capture, results, outbox, reader, excused>>
  BY DEF Disconnect
<1>0. /\ waiters \in [Instances -> [UUIDs -> 0 .. MaxSubmission]]
      /\ sub \in [Submissions -> SubmissionRecords]
      /\ toClient \in [Instances -> Seq(ToClient)] /\ toEngine \in [Instances -> Seq(ToEngine)]
  BY DEF ResultsTypeOK, ClientType, WireType, SubmissionRecords
<1>1. /\ toClient' = [toClient EXCEPT ![i] = <<>>] /\ toEngine' = [toEngine EXCEPT ![i] = <<>>]
      /\ sub' = [s \in Submissions |-> IF s \in waiting THEN [sub[s] EXCEPT !.pc = "failed"] ELSE sub[s]]
      /\ waiters' = [waiters EXCEPT ![i] =
                       [u \in UUIDs |-> IF waiters[i][u] \in waiting THEN 0 ELSE waiters[i][u]]]
  BY DEF Disconnect
<1> HIDE DEF waiting
<1>2. \A w \in Submissions :
         /\ IF w \in waiting THEN sub'[w].pc = "failed" ELSE sub'[w].pc = sub[w].pc
         /\ sub'[w].uuid = sub[w].uuid /\ sub'[w].chan = sub[w].chan /\ sub'[w].got = sub[w].got
  BY <1>0, <1>1 DEF SubmissionRecords
<1>3. \A j \in Instances, v \in UUIDs :
         \/ waiters'[j][v] = waiters[j][v]
         \/ waiters'[j][v] = 0 /\ waiters[j][v] \in waiting
  BY <1>0, <1>1
<1>4. Ages /\ StillAnswered /\ \A u, e : ResultOf(u, e)' <=> ResultOf(u, e)
  <2>1. Ages /\ StillAnswered
    BY <1>2 DEF Ages, StillAnswered, Answered
  <2> QED BY <1>u, <2>1, HandlersUntouched
<1>5. WaitersOwn'
  <2>1. \A j \in Instances, v \in UUIDs : waiters'[j][v] \in {0, v}
    <3>1. \A j \in Instances, v \in UUIDs : waiters[j][v] \in {0, v}
      BY DEF WaitersOwn
    <3> QED BY <1>3, <3>1
  <2>2. ASSUME NEW w \in Submissions, sub'[w].pc \in {"sent", "replied", "awaiting"}
        PROVE  waiters'[InstOf[w]][w] = w
    <3>1. w \notin waiting /\ sub'[w].pc = sub[w].pc
      BY <1>2, <2>2
    <3>2. waiters[InstOf[w]][w] = w
      BY <2>2, <3>1 DEF WaitersOwn
    <3> QED BY <1>3, <3>1, <3>2, ConstantFacts
  <2>3. \A w \in Submissions : /\ sub'[w].uuid = w
                               /\ sub'[w].pc = "done" => sub'[w].got # 0
                               /\ sub'[w].chan # 0 => ResultOf(w, sub'[w].chan)
                               /\ sub'[w].got # 0 => ResultOf(w, sub'[w].got)
    BY <1>2 DEF WaitersOwn
  <2> QED BY <1>4, <2>1, <2>2, <2>3 DEF WaitersOwn
<1>6. Len(<<>>) = 0 /\ 1 .. 0 = {}
  OBVIOUS
<1>7. WireTrue'
  <2>1. \A j \in Instances : \A n \in 1 .. Len(toClient'[j]) :
           \E k \in 1 .. Len(toClient[j]) : toClient'[j][n] = toClient[j][k]
    BY <1>0, <1>1, <1>6
  <2> QED BY <1>4, <2>1, WireThinned DEF CopiesTrue
<1> DEFINE d == [j \in Instances |-> 0]
<1>8. Joined(d) /\ d \in [Instances -> Nat]
  <2> SUFFICES ASSUME NEW j \in Instances, NEW n \in 1 .. Len(toEngine'[j])
               PROVE  n + 0 \in 1 .. Len(toEngine[j]) /\ toEngine'[j][n] = toEngine[j][n + 0]
    BY DEF Joined
  <2>1. j # i /\ toEngine'[j] = toEngine[j]
    BY <1>0, <1>1, <1>6
  <2> QED BY <2>1
<1> HIDE DEF d
<1>9. JobsOnce' /\ StillFresh
  BY <1>u, <1>4, JobsUntouched
<1> QED BY <1>u, <1>4, <1>5, <1>7, <1>8, <1>9, UpsertsJoined, CapturesUntouched, TableUntouched,
           OutboxUntouched, RepliesUntouched, AcksJoined, HeldUntouched DEF CopiesTrue

-----------------------------------------------------------------------------
(* The engine's steps.                                                       *)

\* The first message to the engine, and where the others come from.
LEMMA ReceiveEntries ==
    ASSUME ResultsInv, NEW i \in Instances, toEngine[i] # <<>>,
           toEngine' = [toEngine EXCEPT ![i] = Tail(toEngine[i])]
    PROVE  /\ 1 \in 1 .. Len(toEngine[i]) /\ Head(toEngine[i]) = toEngine[i][1]
           /\ Head(toEngine[i]) \in ToEngine
           /\ LET d == [j \in Instances |-> IF j = i THEN 1 ELSE 0]
              IN  d \in [Instances -> Nat] /\ Joined(d)
           /\ \A j \in Instances : \A n \in 1 .. Len(toEngine'[j]) :
                 \/ j # i /\ toEngine'[j] = toEngine[j]
                 \/ j = i /\ n + 1 \in 1 .. Len(toEngine[j]) /\ toEngine'[j][n] = toEngine[j][n + 1]
<1>1. toEngine \in [Instances -> Seq(ToEngine)] /\ toEngine[i] \in Seq(ToEngine)
  BY DEF ResultsInv, ResultsTypeOK, WireType
<1>2. /\ \A n \in 1 .. Len(Tail(toEngine[i])) :
            n + 1 \in 1 .. Len(toEngine[i]) /\ Tail(toEngine[i])[n] = toEngine[i][n + 1]
      /\ 1 \in 1 .. Len(toEngine[i]) /\ Head(toEngine[i]) = toEngine[i][1]
  BY <1>1, TailEntries
<1>3. Head(toEngine[i]) \in ToEngine
  BY <1>1, HeadTailProperties
<1>4. \A j \in Instances : \A n \in 1 .. Len(toEngine'[j]) :
         \/ j # i /\ toEngine'[j] = toEngine[j]
         \/ j = i /\ n + 1 \in 1 .. Len(toEngine[j]) /\ toEngine'[j][n] = toEngine[j][n + 1]
  BY <1>1, <1>2
<1> DEFINE d == [j \in Instances |-> IF j = i THEN 1 ELSE 0]
<1>5. Joined(d)
  <2> SUFFICES ASSUME NEW j \in Instances, NEW n \in 1 .. Len(toEngine'[j])
               PROVE  n + d[j] \in 1 .. Len(toEngine[j]) /\ toEngine'[j][n] = toEngine[j][n + d[j]]
    BY DEF Joined
  <2> QED BY <1>4
<1>6. d \in [Instances -> Nat]
  OBVIOUS
<1> HIDE DEF d
<1> QED BY <1>2, <1>3, <1>4, <1>5, <1>6 DEF d

\* HandleJobUpsert: the only submission of its key, which no one knew before.
LEMMA UpsertHeld ==
    ASSUME SubmittedOnce, ResultsInv, HeldInv, NEW i \in Instances, HandleJobUpsert(i)
    PROVE  HeldInv'
<1> USE DEF ResultsInv, HeldInv
<1> DEFINE s == Head(toEngine[i]).sub
           k == KeyOf[s]
<1>u. /\ UNCHANGED <<settled, capture, toClient, results, outbox, excused, sub, waiters>>
      /\ toEngine' = [toEngine EXCEPT ![i] = Tail(toEngine[i])] /\ toEngine[i] # <<>>
  BY DEF HandleJobUpsert
<1>0. /\ s \in Submissions /\ k \in Keys /\ s # 0 /\ due[k] \in Nat /\ Runs \in Nat
      /\ jobs \in [Keys -> JobRecords] /\ due \in [Keys -> Nat] /\ reader \in [Instances -> ReaderRecords]
  <2>1. Head(toEngine[i]) \in ToEngine /\ Head(toEngine[i]).type = "upsert"
    BY <1>u, ReceiveEntries DEF HandleJobUpsert
  <2>2. s \in Submissions
    BY <2>1, MessageFields
  <2>3. jobs \in [Keys -> JobRecords] /\ due \in [Keys -> Nat] /\ reader \in [Instances -> ReaderRecords]
    BY DEF ResultsTypeOK, StoreType, EngineType, ReaderRecords
  <2> HIDE DEF s
  <2>4. k \in Keys /\ s # 0 /\ Runs \in Nat
    BY <2>2, ConstantFacts
  <2> QED BY <2>2, <2>3, <2>4
<1>1. /\ UpsertAt(i, 1, s) /\ 1 \in 1 .. Len(toEngine[i])
      /\ InstOf[s] = i /\ sub[s].pc # "new" /\ Fresh(s)
      /\ \A n \in 1 .. Len(toEngine[i]) : UpsertAt(i, n, s) => n = 1
  <2>1. UpsertAt(i, 1, s) /\ 1 \in 1 .. Len(toEngine[i])
    BY <1>u, ReceiveEntries DEF HandleJobUpsert, UpsertAt
  <2> HIDE DEF s, k
  <2> QED BY <1>0, <2>1 DEF UpsertsOnce
<1>2. /\ jobs' = [jobs EXCEPT ![k] = [uuid |-> s, inst |-> i]]
      /\ due' = [due EXCEPT ![k] = Runs]
      /\ reader' = [reader EXCEPT ![i] = [pc |-> "reply", uuid |-> s, sub |-> s]]
  <2>1. jobs[k].uuid = 0 /\ due[k] = 0
    BY <1>1 DEF Fresh
  <2>2. PICK running \in 0 .. due[k] : due' = [due EXCEPT ![k] = running + Runs]
    BY DEF HandleJobUpsert
  <2>3. running + Runs = Runs
    BY <1>0, <2>1, <2>2
  <2> QED BY <2>1, <2>2, <2>3 DEF HandleJobUpsert
<1> HIDE DEF s, k
<1>3. \A w \in Submissions : w # s => KeyOf[w] # k
  BY <1>0 DEF SubmittedOnce, k
<1>4. \A w \in Submissions : w # s => (Fresh(w)' <=> Fresh(w))
  BY <1>u, <1>0, <1>2, <1>3, ConstantFacts DEF Fresh
<1>5. JobsOnce'
  <2>1. \A j \in Keys : /\ jobs'[j] = IF j = k THEN [uuid |-> s, inst |-> i] ELSE jobs[j]
                        /\ due'[j] = IF j = k THEN Runs ELSE due[j]
    BY <1>0, <1>2
  <2>2. \A j \in Keys : /\ due'[j] <= 1
                        /\ jobs'[j].uuid # 0 => KeyOf[jobs'[j].uuid] = j /\ jobs'[j].inst = InstOf[jobs'[j].uuid]
    BY <1>1, <2>1 DEF JobsOnce, SubmittedOnce, k
  <2>3. \A w \in Submissions : sub'[w].pc = "new" => Fresh(w)'
    BY <1>u, <1>1, <1>4 DEF JobsOnce
  <2>4. \A w \in Submissions : due'[KeyOf[w]] # 0 => \A e \in Executions : capture'[e].uuid # w
    <3> SUFFICES ASSUME NEW w \in Submissions, due'[KeyOf[w]] # 0
                 PROVE  \A e \in Executions : capture[e].uuid # w
      BY <1>u
    <3>1. CASE w = s
      BY <1>1, <3>1 DEF Fresh
    <3>2. CASE w # s
      BY <1>3, <2>1, <3>2, ConstantFacts DEF JobsOnce
    <3> QED BY <3>1, <3>2
  <2> QED BY <2>2, <2>3, <2>4 DEF JobsOnce
<1>6. UpsertsOnce'
  <2>1. \A j \in Instances : \A n \in 1 .. Len(toEngine'[j]) :
           \/ j # i /\ toEngine'[j] = toEngine[j]
           \/ j = i /\ n + 1 \in 1 .. Len(toEngine[j]) /\ toEngine'[j][n] = toEngine[j][n + 1]
    BY <1>u, ReceiveEntries
  <2> SUFFICES ASSUME NEW j \in Instances, NEW w \in Submissions, NEW n \in 1 .. Len(toEngine'[j]),
                      UpsertAt(j, n, w)'
               PROVE  /\ InstOf[w] = j /\ sub'[w].pc # "new" /\ Fresh(w)'
                      /\ \A m \in 1 .. Len(toEngine'[j]) : UpsertAt(j, m, w)' => m = n
    BY DEF UpsertsOnce
  <2>2. CASE j # i
    <3>1. toEngine'[j] = toEngine[j]
      BY <2>1, <2>2
    <3>2. UpsertAt(j, n, w) /\ n \in 1 .. Len(toEngine[j])
      BY <3>1 DEF UpsertAt
    <3>3. w # s
      BY <1>1, <2>2, <3>2 DEF UpsertsOnce
    <3>4. \A m \in 1 .. Len(toEngine'[j]) : UpsertAt(j, m, w)' => UpsertAt(j, m, w)
      BY <3>1 DEF UpsertAt
    <3> QED BY <1>u, <1>4, <3>1, <3>2, <3>3, <3>4 DEF UpsertsOnce
  <2>3. CASE j = i
    <3>1. \A m \in 1 .. Len(toEngine'[j]) : m \in Nat /\ m + 1 \in 1 .. Len(toEngine[j])
                                            /\ toEngine'[j][m] = toEngine[j][m + 1] /\ m + 1 # 1
      BY <2>1, <2>3
    <3>2. \A m \in 1 .. Len(toEngine'[j]) : UpsertAt(j, m, w)' => UpsertAt(j, m + 1, w)
      BY <3>1 DEF UpsertAt
    <3>3. w # s
      BY <1>1, <2>3, <3>1, <3>2
    <3>4. \A m \in 1 .. Len(toEngine'[j]) : UpsertAt(j, m, w)' => m + 1 = n + 1
      BY <3>1, <3>2 DEF UpsertsOnce
    <3>5. \A m \in 1 .. Len(toEngine'[j]) : UpsertAt(j, m, w)' => m = n
      <4>1. n \in Nat
        BY <3>1
      <4>2. \A m \in Nat : m + 1 = n + 1 => m = n
        BY <4>1
      <4> QED BY <3>1, <3>4, <4>2
    <3> QED BY <1>u, <1>4, <3>1, <3>2, <3>3, <3>5 DEF UpsertsOnce
  <2> QED BY <2>2, <2>3
<1>7. \A j \in Instances : reader'[j] = reader[j] \/ reader'[j] = [pc |-> "reply", uuid |-> s, sub |-> s]
  BY <1>0, <1>2
<1>8. StillAnswered /\ \A u, e : ResultOf(u, e)' <=> ResultOf(u, e)
  BY <1>u, HandlersUntouched DEF StillAnswered, Answered
<1>9. RepliesTrue'
  BY <1>7 DEF CopiesTrue, RepliesTrue
<1>10. WireTrue'
  BY <1>u DEF CopiesTrue, WireTrue, MessageTrue, ResultOf
<1>11. AcksTrue'
  <2>1. PICK d \in [Instances -> Nat] : Joined(d)
    BY <1>u, ReceiveEntries
  <2> QED BY <1>7, <1>8, <2>1, AcksJoined
<1> QED BY <1>u, <1>5, <1>6, <1>8, <1>9, <1>10, <1>11, CapturesUntouched, TableUntouched, OutboxUntouched,
           OwnUntouched, HeldUntouched DEF CopiesTrue

\* Whatever leaves jobs, handlers and clients alone.
LEMMA EngineUntouched ==
    ASSUME HeldInv, UNCHANGED <<jobs, due, settled, capture, sub, waiters>>
    PROVE  /\ JobsOnce' /\ StillFresh /\ Ages /\ CapturesOnce' /\ WaitersOwn' /\ StillAnswered
           /\ \A u, e : ResultOf(u, e)' <=> ResultOf(u, e)
<1>1. Ages /\ StillAnswered
  BY DEF Ages, StillAnswered, Answered
<1> QED BY <1>1, HandlersUntouched, JobsUntouched, CapturesUntouched, OwnUntouched DEF HeldInv

\* The answer names the job of its submission.
LEMMA ReplyHeld ==
    ASSUME ResultsInv, HeldInv, NEW i \in Instances, ReplyUpsert(i)
    PROVE  HeldInv'
<1> USE DEF ResultsInv, HeldInv
<1> DEFINE m == [type |-> "reply", sub |-> reader[i].sub, uuid |-> reader[i].uuid]
<1>u. UNCHANGED <<jobs, due, settled, capture, sub, waiters, results, outbox, excused, toEngine>>
  BY DEF ReplyUpsert
<1>1. /\ reader[i].pc = "reply" /\ reader' = [reader EXCEPT ![i] = Idle]
      /\ toClient' = toClient \/ toClient' = [toClient EXCEPT ![i] = Append(toClient[i], m)]
  BY DEF ReplyUpsert
<1>2. /\ m \in ToClient /\ toClient \in [Instances -> Seq(ToClient)] /\ reader \in [Instances -> ReaderRecords]
  BY <1>1, MessageForms DEF NamesOK, ResultsTypeOK, WireType, EngineType, ReaderRecords
<1>3. m.type = "reply" /\ m.uuid = m.sub
  BY <1>1 DEF CopiesTrue, RepliesTrue
<1> HIDE DEF m
<1>4. /\ JobsOnce' /\ StillFresh /\ Ages /\ CapturesOnce' /\ WaitersOwn' /\ StillAnswered
      /\ \A u, e : ResultOf(u, e)' <=> ResultOf(u, e)
  BY <1>u, EngineUntouched
<1>5. \A j \in Instances : reader'[j] = reader[j] \/ reader'[j] = Idle
  BY <1>1, <1>2
<1>6. Idle.pc = "idle"
  BY DEF Idle
<1>7. WireTrue'
  <2>1. \A j \in Instances : \A n \in 1 .. Len(toClient'[j]) :
           \/ \E k \in 1 .. Len(toClient[j]) : toClient'[j][n] = toClient[j][k]
           \/ toClient'[j][n] = m
    <3>1. CASE toClient' = toClient
      BY <3>1
    <3>2. CASE toClient' = [toClient EXCEPT ![i] = Append(toClient[i], m)]
      <4>1. \A n \in 1 .. Len(Append(toClient[i], m)) :
               \/ n \in 1 .. Len(toClient[i]) /\ Append(toClient[i], m)[n] = toClient[i][n]
               \/ Append(toClient[i], m)[n] = m
        BY <1>2, AppendEntries
      <4> QED BY <1>2, <3>2, <4>1
    <3> QED BY <1>1, <3>1, <3>2
  <2>2. \A j \in Instances : \A n \in 1 .. Len(toClient'[j]) :
           toClient'[j][n] = m => MessageTrue(j, toClient[j][n])'
    BY <1>3 DEF MessageTrue
  <2> QED BY <1>4, <2>1, <2>2, WireThinned DEF CopiesTrue
<1>8. RepliesTrue' /\ AcksTrue'
  BY <1>u, <1>5, <1>6 DEF CopiesTrue, RepliesTrue, AcksTrue, Answered
<1> QED BY <1>u, <1>4, <1>7, <1>8, UpsertsUntouched, TableUntouched, OutboxUntouched, HeldUntouched DEF CopiesTrue

\* An acknowledgement is read, and acted on.
LEMMA AckHeld ==
    ASSUME ResultsInv, HeldInv, NEW i \in Instances, HandleResultAck(i)
    PROVE  HeldInv'
<1> USE DEF ResultsInv, HeldInv
<1> DEFINE m == Head(toEngine[i])
           r == [pc |-> "delete", uuid |-> m.uuid, sub |-> 0]
<1>u. /\ UNCHANGED <<jobs, due, settled, capture, sub, waiters, results, outbox, excused, toClient>>
      /\ toEngine' = [toEngine EXCEPT ![i] = Tail(toEngine[i])] /\ toEngine[i] # <<>> /\ m.type = "ack"
      /\ reader' = reader \/ reader' = [reader EXCEPT ![i] = r]
  BY DEF HandleResultAck
<1>1. 1 \in 1 .. Len(toEngine[i]) /\ m = toEngine[i][1] /\ m \in ToEngine /\ m.uuid \in UUIDs
  BY <1>u, ReceiveEntries, MessageFields
<1>2. Answered(m.uuid)
  BY <1>u, <1>1 DEF AcksTrue
<1>3. r.pc = "delete" /\ r.uuid = m.uuid /\ reader \in [Instances -> ReaderRecords]
  BY DEF ResultsTypeOK, EngineType, ReaderRecords
<1> HIDE DEF r
<1>4. \A j \in Instances : reader'[j] = reader[j] \/ reader'[j] = r
  BY <1>u, <1>3
<1>5. /\ JobsOnce' /\ StillFresh /\ Ages /\ CapturesOnce' /\ WaitersOwn' /\ StillAnswered
      /\ \A u, e : ResultOf(u, e)' <=> ResultOf(u, e)
  BY <1>u, EngineUntouched
<1>6. PICK d \in [Instances -> Nat] : Joined(d)
  BY <1>u, ReceiveEntries
<1>7. \A j \in Instances : \/ reader'[j] = reader[j]
                           \/ reader'[j].pc = "delete" => (Answered(reader[j].uuid))'
  BY <1>u, <1>2, <1>3, <1>4 DEF Answered
<1>8. AcksTrue'
  BY <1>5, <1>6, <1>7, AcksJoined
<1>9. RepliesTrue'
  BY <1>3, <1>4 DEF CopiesTrue, RepliesTrue
<1>10. WireTrue'
  BY <1>u DEF CopiesTrue, WireTrue, MessageTrue, ResultOf
<1> QED BY <1>u, <1>5, <1>6, <1>8, <1>9, <1>10, UpsertsJoined, TableUntouched, OutboxUntouched, HeldUntouched
           DEF CopiesTrue

\* ... what it deletes has arrived.
LEMMA AckedHeld ==
    ASSUME ResultsInv, HeldInv, NEW i \in Instances, DeleteAcked(i)
    PROVE  HeldInv'
<1> USE DEF ResultsInv, HeldInv
<1> DEFINE u == reader[i].uuid
<1>u. UNCHANGED <<jobs, due, settled, capture, sub, waiters, outbox, excused, toClient, toEngine>>
  BY DEF DeleteAcked
<1>1. /\ reader[i].pc = "delete" /\ reader' = [reader EXCEPT ![i] = Idle]
      /\ results' = [results EXCEPT ![u] = NoResult]
  BY DEF DeleteAcked, DeleteResult
<1>2. /\ u \in UUIDs /\ Answered(u) /\ reader \in [Instances -> ReaderRecords]
      /\ results \in [UUIDs -> [inst : Owners, exec : Marks]]
  BY <1>1 DEF NamesOK, AcksTrue, ResultsTypeOK, EngineType, ReaderRecords, StoreType
<1> HIDE DEF u
<1>3. /\ JobsOnce' /\ StillFresh /\ Ages /\ CapturesOnce' /\ WaitersOwn' /\ StillAnswered
      /\ \A v, e : ResultOf(v, e)' <=> ResultOf(v, e)
  BY <1>u, EngineUntouched
<1>4. /\ \A j \in Instances : reader'[j] = reader[j] \/ reader'[j] = Idle
      /\ \A v \in UUIDs : results'[v] = IF v = u THEN NoResult ELSE results[v]
  BY <1>1, <1>2
<1>5. Idle.pc = "idle" /\ NoResult.exec = 0
  BY DEF Idle, NoResult
<1>6. TableTrue'
  BY <1>3, <1>4, <1>5 DEF CopiesTrue, TableTrue
<1>7. RepliesTrue' /\ AcksTrue'
  BY <1>u, <1>4, <1>5 DEF CopiesTrue, RepliesTrue, AcksTrue, Answered
<1>8. HeldOrAnswered'
  <2> SUFFICES ASSUME NEW e \in Executions, capture[e].pc \in {"deliver", "done"}, e \notin excused
               PROVE  results'[capture[e].uuid].exec = e \/ Answered(capture[e].uuid)
    BY <1>u DEF HeldOrAnswered, Answered
  <2>1. capture[e].uuid \in UUIDs
    BY ConstantFacts DEF CapturesOnce, ResultsTypeOK, EngineType
  <2> QED BY <1>2, <1>4, <2>1 DEF HeldOrAnswered
<1>9. WireTrue'
  BY <1>u DEF CopiesTrue, WireTrue, MessageTrue, ResultOf
<1> QED BY <1>u, <1>3, <1>6, <1>7, <1>8, <1>9, UpsertsUntouched, OutboxUntouched DEF CopiesTrue

\* The sweep and the greeting list true copies.
LEMMA ListingHeld ==
    ASSUME ResultsInv, HeldInv, NEW i \in Instances, RedeliverStaleResults(i) \/ HandleRegistered(i)
    PROVE  HeldInv'
<1> USE DEF ResultsInv, HeldInv
<1>u. UNCHANGED <<jobs, due, settled, capture, sub, waiters, results, excused, toClient, toEngine, reader>>
  BY DEF RedeliverStaleResults, HandleRegistered
<1>1. outbox \in [Senders -> Seq(Listed)] /\ byInstance[i] \in Seq(UUIDs)
  BY DEF ResultsTypeOK, EngineType, StoreType
<1>2. \A p \in Senders : outbox'[p] = outbox[p] \/ outbox'[p] = ResultsForInstance(i)
  BY <1>1 DEF RedeliverStaleResults, HandleRegistered, Stale
<1>3. /\ JobsOnce' /\ StillFresh /\ Ages /\ CapturesOnce' /\ WaitersOwn' /\ StillAnswered
      /\ \A u, e : ResultOf(u, e)' <=> ResultOf(u, e)
  BY <1>u, EngineUntouched
<1>4. ASSUME NEW n \in 1 .. Len(ResultsForInstance(i))
      PROVE  LET l == ResultsForInstance(i)[n] IN ResultOf(l.uuid, l.exec) /\ l.inst = InstOf[l.uuid]
  <2> DEFINE u == byInstance[i][n]
  <2>1. Len(byInstance[i]) \in Nat /\ DOMAIN byInstance[i] = 1 .. Len(byInstance[i])
    BY <1>1, LenProperties
  <2>2. Len(ResultsForInstance(i)) = Len(byInstance[i])
    BY <2>1, <1>1, LenProperties, ListedFits DEF ResultsForInstance
  <2>3. n \in DOMAIN byInstance[i]
    BY <2>1, <2>2
  <2>4. ResultsForInstance(i)[n] = [uuid |-> u, inst |-> i, exec |-> results[u].exec]
    BY <2>3 DEF ResultsForInstance
  <2>5. u \in Range(byInstance[i])
    BY <2>3 DEF Range
  <2>6. u \in Held /\ results[u].inst = i
    BY <2>5 DEF ResultTablesAgree
  <2>7. ResultOf(u, results[u].exec) /\ i = InstOf[u]
    BY <2>6 DEF Held, CopiesTrue, TableTrue
  <2> QED BY <2>4, <2>7
<1>5. OutboxTrue'
  BY <1>2, <1>3, <1>4 DEF CopiesTrue, OutboxTrue
<1>6. WireTrue'
  BY <1>u DEF CopiesTrue, WireTrue, MessageTrue, ResultOf
<1> QED BY <1>u, <1>3, <1>5, <1>6, UpsertsUntouched, TableUntouched, RepliesUntouched, AcksUntouched,
           HeldUntouched DEF CopiesTrue

\* An execution settles: it is the only one of its job.
LEMMA CaptureHeld ==
    ASSUME SubmittedOnce, ResultsInv, HeldInv, NEW k \in Keys, CaptureResult(k)
    PROVE  HeldInv'
<1> USE DEF ResultsInv, HeldInv
<1> DEFINE e == settled + 1
           c == [uuid |-> jobs[k].uuid, inst |-> jobs[k].inst,
                 pc |-> IF jobs[k].uuid # 0 /\ ResultWithinCaps(jobs[k].inst) THEN "store" ELSE "dropped"]
<1>u. UNCHANGED <<jobs, sub, waiters, results, outbox, excused, toClient, toEngine, reader>>
  BY DEF CaptureResult
<1>1. /\ due[k] > 0 /\ e \in Executions /\ settled' = e
      /\ due' = [due EXCEPT ![k] = due[k] - 1] /\ capture' = [capture EXCEPT ![e] = c]
  BY DEF CaptureResult
<1>2. /\ c.uuid = jobs[k].uuid /\ c.inst = jobs[k].inst /\ c.pc \in {"store", "dropped"}
      /\ c.pc = "store" => c.uuid # 0
  OBVIOUS
<1>3. capture \in [Executions -> CaptureRecords] /\ due \in [Keys -> Nat] /\ settled \in Nat /\ due[k] = 1
  BY <1>1 DEF ResultsTypeOK, EngineType, CaptureRecords, StoreType, Marks, JobsOnce
<1> HIDE DEF c
<1>4. /\ \A f \in Executions : capture'[f] = IF f = e THEN c ELSE capture[f]
      /\ \A j \in Keys : due'[j] = IF j = k THEN 0 ELSE due[j]
  BY <1>1, <1>3
<1>5. capture[e].pc = "none" /\ capture[e].uuid = 0
  BY <1>1, <1>3 DEF CapturesOnce
<1>6. /\ jobs[k].uuid # 0 => KeyOf[jobs[k].uuid] = k /\ jobs[k].inst = InstOf[jobs[k].uuid]
                             /\ \A f \in Executions : capture[f].uuid # jobs[k].uuid
      /\ jobs[k].uuid \in 0 .. MaxSubmission
  <2>1. jobs[k].uuid \in 0 .. MaxSubmission
    BY DEF ResultsTypeOK, StoreType, JobRecords
  <2> QED BY <1>3, <2>1, ConstantFacts DEF JobsOnce
<1>7. \A w \in Submissions : due'[KeyOf[w]] # 0 \/ due[KeyOf[w]] = 0 => KeyOf[w] # k /\ jobs[k].uuid # w
  BY <1>3, <1>4, <1>6, ConstantFacts
<1>8. StillFresh
  BY <1>u, <1>4, <1>7, <1>2, ConstantFacts DEF StillFresh, Fresh
<1>9. Ages /\ StillAnswered
  BY <1>u DEF Ages, StillAnswered, Answered
<1>10. \A u, f : ResultOf(u, f)' <=> ResultOf(u, f)
  BY <1>2, <1>4, <1>5 DEF ResultOf
<1>11. JobsOnce'
  <2>1. \A j \in Keys : due'[j] <= 1
    BY <1>4 DEF JobsOnce
  <2>2. \A j \in Keys : jobs'[j].uuid # 0 => KeyOf[jobs'[j].uuid] = j /\ jobs'[j].inst = InstOf[jobs'[j].uuid]
    BY <1>u DEF JobsOnce
  <2>3. \A w \in Submissions : sub'[w].pc = "new" => Fresh(w)'
    BY <1>8, <1>9 DEF JobsOnce, Ages, StillFresh
  <2>4. \A w \in Submissions : due'[KeyOf[w]] # 0 => \A f \in Executions : capture'[f].uuid # w
    BY <1>2, <1>4, <1>7, ConstantFacts DEF JobsOnce
  <2> QED BY <2>1, <2>2, <2>3, <2>4 DEF JobsOnce
<1>12. CapturesOnce'
  <2>1. \A f \in Executions : f > settled' => f > settled /\ f # e
    BY <1>1, <1>3
  <2>2. \A f \in Executions :
           /\ f > settled' => capture'[f].uuid = 0 /\ capture'[f].pc = "none"
           /\ capture'[f].uuid # 0 => capture'[f].inst = InstOf[capture'[f].uuid]
           /\ capture'[f].pc \in {"store", "deliver", "done"} => capture'[f].uuid # 0
    BY <1>2, <1>4, <1>6, <2>1 DEF CapturesOnce
  <2>3. \A f, g \in Executions : capture'[f].uuid # 0 /\ capture'[f].uuid = capture'[g].uuid => f = g
    BY <1>2, <1>4, <1>6 DEF CapturesOnce
  <2> QED BY <2>2, <2>3 DEF CapturesOnce
<1>13. HeldOrAnswered'
  <2> SUFFICES ASSUME NEW f \in Executions, capture'[f].pc \in {"deliver", "done"}, f \notin excused
               PROVE  results[capture'[f].uuid].exec = f \/ Answered(capture'[f].uuid)
    BY <1>u DEF HeldOrAnswered, Answered
  <2> QED BY <1>2, <1>4 DEF HeldOrAnswered
<1>14. WireTrue'
  <2>1. \A i \in Instances : \A n \in 1 .. Len(toClient'[i]) :
           \E m \in 1 .. Len(toClient[i]) : toClient'[i][n] = toClient[i][m]
    BY <1>u
  <2> QED BY <1>10, <2>1, WireThinned DEF CopiesTrue
<1> QED BY <1>u, <1>8, <1>9, <1>10, <1>11, <1>12, <1>13, <1>14, UpsertsUntouched, TableUntouched, OutboxUntouched,
           RepliesUntouched, OwnUntouched, AcksUntouched DEF CopiesTrue

\* A deletion that excuses what it deletes.
LEMMA ExcusedHeld ==
    ASSUME ResultsInv, HeldInv, NEW u \in UUIDs, results' = [results EXCEPT ![u] = NoResult],
           excused' = excused \cup ({results[u].exec} \ {0}), UNCHANGED <<capture, sub>>
    PROVE  TableTrue' /\ HeldOrAnswered'
<1> USE DEF ResultsInv, HeldInv
<1>1. results \in [UUIDs -> [inst : Owners, exec : Marks]]
  BY DEF ResultsTypeOK, StoreType
<1>2. \A v \in UUIDs : results'[v] = IF v = u THEN NoResult ELSE results[v]
  BY <1>1
<1>3. NoResult.exec = 0
  BY DEF NoResult
<1>4. TableTrue'
  BY <1>2, <1>3, HandlersUntouched DEF CopiesTrue, TableTrue
<1>5. HeldOrAnswered'
  <2> SUFFICES ASSUME NEW e \in Executions, capture[e].pc \in {"deliver", "done"}, e \notin excused'
               PROVE  results'[capture[e].uuid].exec = e \/ Answered(capture[e].uuid)
    BY DEF HeldOrAnswered, Answered
  <2>1. capture[e].uuid \in UUIDs /\ e # 0
    BY ConstantFacts DEF CapturesOnce, ResultsTypeOK, EngineType
  <2> QED BY <1>2, <2>1 DEF HeldOrAnswered
<1> QED BY <1>4, <1>5

LEMMA EvictHeld ==
    ASSUME ResultsInv, HeldInv, NEW u \in UUIDs, Evict(u)
    PROVE  HeldInv'
<1>u. UNCHANGED <<jobs, due, settled, capture, sub, waiters, outbox, toClient, toEngine, reader>>
  BY DEF Evict
<1>1. /\ results' = [results EXCEPT ![u] = NoResult]
      /\ excused' = excused \cup ({results[u].exec} \ {0})
  BY DEF Evict, DeleteResult
<1>2. TableTrue' /\ HeldOrAnswered'
  BY <1>u, <1>1, ExcusedHeld
<1>3. /\ JobsOnce' /\ StillFresh /\ Ages /\ CapturesOnce' /\ WaitersOwn' /\ StillAnswered
      /\ \A v, e : ResultOf(v, e)' <=> ResultOf(v, e)
  BY <1>u, EngineUntouched
<1>4. WireTrue'
  BY <1>u DEF HeldInv, CopiesTrue, WireTrue, MessageTrue, ResultOf
<1> QED BY <1>u, <1>2, <1>3, <1>4, UpsertsUntouched, OutboxUntouched, RepliesUntouched, AcksUntouched
        DEF HeldInv, CopiesTrue, ResultsInv

LEMMA JobDeleteHeld ==
    ASSUME ResultsInv, HeldInv, NEW k \in Keys, HandleJobDelete(k)
    PROVE  HeldInv'
<1> USE DEF ResultsInv, HeldInv
<1> DEFINE u == jobs[k].uuid
<1>u. UNCHANGED <<jobs, settled, capture, sub, waiters, outbox, toClient, toEngine, reader>>
  BY DEF HandleJobDelete
<1>1. /\ results' = [results EXCEPT ![u] = NoResult] /\ u # 0
      /\ excused' = excused \cup ({results[u].exec} \ {0})
      /\ \E running \in 0 .. due[k] : due' = [due EXCEPT ![k] = running]
  BY DEF HandleJobDelete, DeleteResult
<1>2. u \in UUIDs
  BY <1>1, ConstantFacts DEF ResultsTypeOK, StoreType, JobRecords
<1>3. TableTrue' /\ HeldOrAnswered'
  BY <1>u, <1>1, <1>2, ExcusedHeld
<1>4. \A j \in Keys : due'[j] <= due[j] /\ due'[j] \in Nat /\ due[j] \in Nat
  <2>1. due \in [Keys -> Nat]
    BY DEF ResultsTypeOK, StoreType
  <2>2. PICK running \in 0 .. due[k] : due' = [due EXCEPT ![k] = running]
    BY <1>1
  <2> QED BY <2>1, <2>2
<1>5. Ages /\ StillAnswered /\ \A v, e : ResultOf(v, e)' <=> ResultOf(v, e)
  BY <1>u, HandlersUntouched DEF Ages, StillAnswered, Answered
<1>6. StillFresh
  <2>1. \A w \in Submissions : due[KeyOf[w]] = 0 => due'[KeyOf[w]] = 0
    BY <1>4, ConstantFacts
  <2> QED BY <1>u, <2>1 DEF StillFresh, Fresh
<1>7. JobsOnce'
  <2>1. \A j \in Keys : due'[j] <= 1
    BY <1>4 DEF JobsOnce
  <2>2. \A w \in Submissions : due'[KeyOf[w]] # 0 => due[KeyOf[w]] # 0
    BY <1>4, ConstantFacts
  <2>3. \A w \in Submissions : sub'[w].pc = "new" => Fresh(w)'
    BY <1>5, <1>6 DEF JobsOnce, Ages, StillFresh
  <2> QED BY <1>u, <2>1, <2>2, <2>3 DEF JobsOnce
<1>8. WireTrue'
  BY <1>u DEF CopiesTrue, WireTrue, MessageTrue, ResultOf
<1> QED BY <1>u, <1>3, <1>5, <1>6, <1>7, <1>8, CapturesUntouched, UpsertsUntouched, OutboxUntouched,
           RepliesUntouched, OwnUntouched, AcksUntouched DEF CopiesTrue

\* A job's key is freed: it stays submitted once.
LEMMA DeleteJobHeld ==
    ASSUME ResultsInv, HeldInv, DeleteJob
    PROVE  HeldInv'
<1> USE DEF ResultsInv, HeldInv
<1>u. /\ UNCHANGED <<results, due, settled, capture, sub, waiters, toClient, toEngine, reader, outbox, excused>>
      /\ \A k \in Keys : jobs'[k] = jobs[k] \/ jobs'[k] = NoJob
  BY DEF DeleteJob
<1>1. NoJob.uuid = 0
  BY DEF NoJob
<1>2. Ages /\ StillAnswered /\ \A v, e : ResultOf(v, e)' <=> ResultOf(v, e)
  BY <1>u, HandlersUntouched DEF Ages, StillAnswered, Answered
<1>3. StillFresh
  BY <1>u, <1>1, ConstantFacts DEF StillFresh, Fresh
<1>4. JobsOnce'
  <2>1. \A w \in Submissions : sub'[w].pc = "new" => Fresh(w)'
    BY <1>2, <1>3 DEF JobsOnce, Ages, StillFresh
  <2>2. \A k \in Keys : jobs'[k].uuid # 0 => KeyOf[jobs'[k].uuid] = k /\ jobs'[k].inst = InstOf[jobs'[k].uuid]
    BY <1>u, <1>1 DEF JobsOnce
  <2> QED BY <1>u, <2>1, <2>2 DEF JobsOnce
<1>5. WireTrue'
  BY <1>u DEF CopiesTrue, WireTrue, MessageTrue, ResultOf
<1> QED BY <1>u, <1>2, <1>3, <1>4, <1>5, CapturesUntouched, UpsertsUntouched, TableUntouched, OutboxUntouched,
           RepliesUntouched, OwnUntouched, AcksUntouched, HeldUntouched DEF CopiesTrue

\* The progress of a handler, which changes no job and no submitter.
LEMMA HandlerHeld ==
    ASSUME ResultsInv, HeldInv, NEW e \in Executions, capture[e].pc \in {"store", "deliver"},
           NEW c \in {"deliver", "done", "dropped"}, capture[e].pc = "deliver" => c = "done",
           capture' = [capture EXCEPT ![e].pc = c],
           UNCHANGED <<jobs, due, settled, sub, waiters>>
    PROVE  /\ JobsOnce' /\ StillFresh /\ Ages /\ CapturesOnce' /\ WaitersOwn' /\ StillAnswered
           /\ \A u, f : ResultOf(u, f) => ResultOf(u, f)'
           /\ \A f \in Executions :
                 /\ capture'[f].uuid = capture[f].uuid /\ capture'[f].inst = capture[f].inst
                 /\ capture'[f].pc = IF f = e THEN c ELSE capture[f].pc
<1> USE DEF ResultsInv, HeldInv
<1>1. \A f \in Executions :
         /\ capture'[f].uuid = capture[f].uuid /\ capture'[f].inst = capture[f].inst
         /\ capture'[f].pc = IF f = e THEN c ELSE capture[f].pc
  <2>1. capture \in [Executions -> CaptureRecords]
    BY DEF ResultsTypeOK, EngineType, CaptureRecords
  <2> QED BY <2>1 DEF CaptureRecords
<1>2. Ages /\ StillAnswered
  BY DEF Ages, StillAnswered, Answered
<1>3. JobsOnce' /\ StillFresh
  BY <1>1, <1>2, JobsUntouched
<1>4. \A u, f : ResultOf(u, f) => ResultOf(u, f)'
  BY <1>1 DEF ResultOf
<1>5. WaitersOwn'
  BY <1>4, OwnUntouched
<1>6. CapturesOnce'
  <2>1. \A f \in Executions :
           /\ f > settled => capture'[f].uuid = 0 /\ capture'[f].pc = "none"
           /\ capture'[f].uuid # 0 => capture'[f].inst = InstOf[capture'[f].uuid]
           /\ capture'[f].pc \in {"store", "deliver", "done"} => capture'[f].uuid # 0
    BY <1>1 DEF CapturesOnce
  <2>2. \A f, g \in Executions : capture'[f].uuid # 0 /\ capture'[f].uuid = capture'[g].uuid => f = g
    BY <1>1 DEF CapturesOnce
  <2> QED BY <2>1, <2>2 DEF CapturesOnce
<1> QED BY <1>1, <1>2, <1>3, <1>4, <1>5, <1>6

\* A result is stored: it replaces none, for no other execution is of its job.
LEMMA StoreHeld ==
    ASSUME ResultsInv, HeldInv, NEW e \in Executions, StoreCaptured(e)
    PROVE  HeldInv'
<1> USE DEF ResultsInv, HeldInv
<1> DEFINE u == capture[e].uuid
           r == [inst |-> capture[e].inst, exec |-> e]
<1>u. /\ UNCHANGED <<jobs, due, settled, sub, waiters, outbox, toClient, toEngine, reader>>
      /\ capture[e].pc = "store"
  BY DEF StoreCaptured
<1>1. \/ /\ capture' = [capture EXCEPT ![e].pc = "deliver"] /\ results' = [results EXCEPT ![u] = r]
         /\ excused \subseteq excused'
      \/ capture' = [capture EXCEPT ![e].pc = "dropped"] /\ UNCHANGED <<results, excused>>
  BY DEF StoreCaptured, StoreResult
<1>2. /\ u \in UUIDs /\ u # 0 /\ r.inst = InstOf[u] /\ r.exec = e
      /\ results \in [UUIDs -> [inst : Owners, exec : Marks]]
  BY <1>u, ConstantFacts DEF NamesOK, CapturesOnce, ResultsTypeOK, StoreType
<1> HIDE DEF u, r
<1>3. PICK c \in {"deliver", "dropped"} :
         /\ capture' = [capture EXCEPT ![e].pc = c]
         /\ c = "deliver" => results' = [results EXCEPT ![u] = r] /\ excused \subseteq excused'
         /\ c = "dropped" => UNCHANGED <<results, excused>>
  BY <1>1
<1>4. /\ JobsOnce' /\ StillFresh /\ Ages /\ CapturesOnce' /\ WaitersOwn' /\ StillAnswered
      /\ \A v, f : ResultOf(v, f) => ResultOf(v, f)'
      /\ \A f \in Executions :
            /\ capture'[f].uuid = capture[f].uuid /\ capture'[f].inst = capture[f].inst
            /\ capture'[f].pc = IF f = e THEN c ELSE capture[f].pc
  <2>1. /\ capture[e].pc \in {"store", "deliver"} /\ c \in {"deliver", "done", "dropped"}
        /\ capture[e].pc = "deliver" => c = "done"
        /\ UNCHANGED <<jobs, due, settled, sub, waiters>>
    BY <1>u
  <2>2. capture' = [capture EXCEPT ![e].pc = c]
    BY <1>3
  <2> QED BY <2>1, <2>2, HandlerHeld
<1>5. \A v \in UUIDs : results'[v] = IF c = "deliver" /\ v = u THEN r ELSE results[v]
  BY <1>2, <1>3
<1>6. TableTrue'
  <2> SUFFICES ASSUME NEW v \in UUIDs, results'[v].exec # 0
               PROVE  ResultOf(v, results[v].exec)' /\ results'[v].inst = InstOf[v]
    BY DEF TableTrue
  <2>1. CASE c = "deliver" /\ v = u
    <3>1. results'[v].exec = e /\ results'[v].inst = InstOf[v]
      BY <1>2, <1>5, <2>1
    <3>2. capture'[e].pc = "deliver" /\ capture'[e].uuid = v
      BY <1>4, <2>1 DEF u
    <3> QED BY <3>1, <3>2 DEF ResultOf
  <2>2. CASE ~(c = "deliver" /\ v = u)
    <3>1. results'[v] = results[v]
      BY <1>5, <2>2
    <3>2. ResultOf(v, results[v].exec) /\ results[v].inst = InstOf[v]
      BY <3>1 DEF CopiesTrue, TableTrue
    <3>3. \A f : f = results[v].exec => ResultOf(v, f)'
      BY <1>4, <3>2
    <3> QED BY <3>1, <3>2, <3>3 DEF ResultOf
  <2> QED BY <2>1, <2>2
<1>7. HeldOrAnswered'
  <2> SUFFICES ASSUME NEW f \in Executions, capture'[f].pc \in {"deliver", "done"}, f \notin excused'
               PROVE  results'[capture[f].uuid].exec = f \/ Answered(capture[f].uuid)
    BY <1>u, <1>4 DEF HeldOrAnswered, Answered
  <2>1. CASE f = e
    <3>1. c = "deliver"
      BY <1>4, <2>1
    <3> QED BY <1>2, <1>5, <2>1, <3>1 DEF u
  <2>2. CASE f # e
    <3>1. capture[f].pc \in {"deliver", "done"} /\ f \notin excused
      BY <1>3, <1>4, <2>2
    <3>2. capture[f].uuid # u /\ capture[f].uuid \in UUIDs
      BY <1>2, <2>2, <3>1, ConstantFacts DEF CapturesOnce, u, ResultsTypeOK, EngineType
    <3> QED BY <1>5, <3>1, <3>2 DEF HeldOrAnswered
  <2> QED BY <2>1, <2>2
<1>8. WireTrue'
  <2>1. \A i \in Instances : \A n \in 1 .. Len(toClient'[i]) :
           \E m \in 1 .. Len(toClient[i]) : toClient'[i][n] = toClient[i][m]
    BY <1>u
  <2> QED BY <1>4, <2>1, WireThinned DEF CopiesTrue
<1> QED BY <1>u, <1>4, <1>6, <1>7, <1>8, UpsertsUntouched, OutboxUntouched, RepliesUntouched, AcksUntouched
        DEF CopiesTrue

\* A true copy that is sent travels to its submitter, or nowhere.
LEMMA SentTrue ==
    ASSUME ResultsInv, HeldInv, NEW r \in Listed, ResultOf(r.uuid, r.exec), r.inst = InstOf[r.uuid],
           toClient' = Sent(r), \A u, e : ResultOf(u, e) => ResultOf(u, e)'
    PROVE  WireTrue'
<1> USE DEF ResultsInv, HeldInv
<1> DEFINE m == [type |-> "delivery", uuid |-> r.uuid, exec |-> r.exec]
<1>1. /\ r.inst \in Instances /\ m \in ToClient /\ m.type = "delivery" /\ m.uuid = r.uuid /\ m.exec = r.exec
      /\ toClient \in [Instances -> Seq(ToClient)]
  BY MessageForms DEF Listed, ResultsTypeOK, WireType
<1>2. toClient' = toClient \/ toClient' = [toClient EXCEPT ![r.inst] = Append(toClient[r.inst], m)]
  BY DEF Sent
<1> HIDE DEF m
<1>3. \A j \in Instances : \A n \in 1 .. Len(toClient'[j]) :
         \/ \E k \in 1 .. Len(toClient[j]) : toClient'[j][n] = toClient[j][k]
         \/ j = r.inst /\ toClient'[j][n] = m
  <2>1. CASE toClient' = toClient
    BY <2>1
  <2>2. CASE toClient' = [toClient EXCEPT ![r.inst] = Append(toClient[r.inst], m)]
    <3>1. \A n \in 1 .. Len(Append(toClient[r.inst], m)) :
             \/ n \in 1 .. Len(toClient[r.inst]) /\ Append(toClient[r.inst], m)[n] = toClient[r.inst][n]
             \/ Append(toClient[r.inst], m)[n] = m
      BY <1>1, AppendEntries
    <3> QED BY <1>1, <2>2, <3>1
  <2> QED BY <1>2, <2>1, <2>2
<1>4. \A u, e : u = r.uuid /\ e = r.exec => ResultOf(u, e)'
  BY <1>1
<1>5. \A j \in Instances : \A n \in 1 .. Len(toClient'[j]) :
         j = r.inst /\ toClient'[j][n] = m => MessageTrue(j, toClient[j][n])'
  BY <1>1, <1>4 DEF MessageTrue, ResultOf
<1> QED BY <1>3, <1>5, WireThinned DEF CopiesTrue

\* A captured result is delivered.
LEMMA DeliverHeld ==
    ASSUME ResultsInv, HeldInv, NEW e \in Executions, DeliverCaptured(e)
    PROVE  HeldInv'
<1> USE DEF ResultsInv, HeldInv
<1> DEFINE r == [uuid |-> capture[e].uuid, inst |-> capture[e].inst, exec |-> e]
<1>u. /\ UNCHANGED <<jobs, due, settled, sub, waiters, results, excused, outbox, toEngine, reader>>
      /\ capture[e].pc = "deliver" /\ capture' = [capture EXCEPT ![e].pc = "done"]
      /\ toClient' = Sent(r)
  BY DEF DeliverCaptured
<1>1. r \in Listed /\ ResultOf(r.uuid, r.exec) /\ r.inst = InstOf[r.uuid]
  BY <1>u, ConstantFacts DEF NamesOK, Listed, CapturesOnce, ResultOf
<1> HIDE DEF r
<1>2. /\ JobsOnce' /\ StillFresh /\ Ages /\ CapturesOnce' /\ WaitersOwn' /\ StillAnswered
      /\ \A v, f : ResultOf(v, f) => ResultOf(v, f)'
      /\ \A f \in Executions : /\ capture'[f].uuid = capture[f].uuid
                               /\ capture'[f].pc = IF f = e THEN "done" ELSE capture[f].pc
  BY <1>u, HandlerHeld
<1>3. WireTrue'
  BY <1>u, <1>1, <1>2, SentTrue
<1>4. HeldOrAnswered'
  BY <1>u, <1>2 DEF HeldOrAnswered, Answered
<1> QED BY <1>u, <1>2, <1>3, <1>4, UpsertsUntouched, TableUntouched, OutboxUntouched, RepliesUntouched,
           AcksUntouched DEF CopiesTrue

\* A listed copy is delivered.
LEMMA SenderHeld ==
    ASSUME ResultsInv, HeldInv, NEW p \in Senders, DeliverListed(p)
    PROVE  HeldInv'
<1> USE DEF ResultsInv, HeldInv
<1> DEFINE r == Head(outbox[p])
<1>u. /\ UNCHANGED <<jobs, due, settled, capture, sub, waiters, results, excused, toEngine, reader>>
      /\ outbox[p] # <<>> /\ outbox' = [outbox EXCEPT ![p] = Tail(outbox[p])] /\ toClient' = Sent(r)
  BY DEF DeliverListed
<1>1. outbox \in [Senders -> Seq(Listed)] /\ outbox[p] \in Seq(Listed)
  BY DEF ResultsTypeOK, EngineType
<1>2. /\ \A n \in 1 .. Len(Tail(outbox[p])) :
            n + 1 \in 1 .. Len(outbox[p]) /\ Tail(outbox[p])[n] = outbox[p][n + 1]
      /\ 1 \in 1 .. Len(outbox[p]) /\ r = outbox[p][1] /\ r \in Listed
  BY <1>u, <1>1, TailEntries, HeadTailProperties
<1>3. ResultOf(r.uuid, r.exec) /\ r.inst = InstOf[r.uuid]
  BY <1>2 DEF CopiesTrue, OutboxTrue
<1> HIDE DEF r
<1>4. /\ JobsOnce' /\ StillFresh /\ Ages /\ CapturesOnce' /\ WaitersOwn' /\ StillAnswered
      /\ \A u, e : ResultOf(u, e)' <=> ResultOf(u, e)
  BY <1>u, EngineUntouched
<1>5. WireTrue'
  BY <1>u, <1>2, <1>3, <1>4, SentTrue
<1>6. OutboxTrue'
  <2> SUFFICES ASSUME NEW q \in Senders, NEW n \in 1 .. Len(outbox'[q])
               PROVE  ResultOf(outbox[q][n].uuid, outbox[q][n].exec)' /\ outbox'[q][n].inst = InstOf[outbox'[q][n].uuid]
    BY DEF OutboxTrue
  <2>1. PICK k \in 1 .. Len(outbox[q]) : outbox'[q][n] = outbox[q][k]
    BY <1>u, <1>1, <1>2
  <2>2. ResultOf(outbox[q][k].uuid, outbox[q][k].exec) /\ outbox[q][k].inst = InstOf[outbox[q][k].uuid]
    BY DEF CopiesTrue, OutboxTrue
  <2> QED BY <1>u, <2>1, <2>2 DEF ResultOf
<1> QED BY <1>u, <1>4, <1>5, <1>6, UpsertsUntouched, TableUntouched, RepliesUntouched, AcksUntouched,
           HeldUntouched DEF CopiesTrue

-----------------------------------------------------------------------------
(* The invariant.                                                            *)

LEMMA HeldInitially == ResultsInit => HeldInv
<1> SUFFICES ASSUME ResultsInit PROVE HeldInv
  OBVIOUS
<1>1. /\ \A k \in Keys : jobs[k].uuid = 0 /\ due[k] = 0
      /\ \A e \in Executions : capture[e].uuid = 0 /\ capture[e].pc = "none"
      /\ \A u \in UUIDs : results[u].exec = 0
      /\ \A i \in Instances : toClient[i] = <<>> /\ toEngine[i] = <<>> /\ reader[i].pc = "idle"
      /\ \A p \in Senders : outbox[p] = <<>>
      /\ \A i \in Instances, u \in UUIDs : waiters[i][u] = 0
  BY DEF ResultsInit, NoJob, NoResult, Idle
<1>2. \A s \in Submissions : sub[s].pc \in {"new", "failed"} /\ sub[s].uuid = s /\ sub[s].chan = 0 /\ sub[s].got = 0
  BY DEF ResultsInit
<1>3. Len(<<>>) = 0 /\ 1 .. 0 = {}
  OBVIOUS
<1>4. JobsOnce
  BY <1>1, ConstantFacts DEF JobsOnce, Fresh
<1>5. UpsertsOnce /\ CapturesOnce /\ HeldOrAnswered
  BY <1>1, <1>3 DEF UpsertsOnce, CapturesOnce, HeldOrAnswered
<1>6. CopiesTrue
  BY <1>1, <1>3 DEF CopiesTrue, TableTrue, OutboxTrue, WireTrue, RepliesTrue
<1>7. WaitersOwn /\ AcksTrue
  BY <1>1, <1>2, <1>3 DEF WaitersOwn, AcksTrue
<1> QED BY <1>4, <1>5, <1>6, <1>7 DEF HeldInv

\* Nothing the invariant is about changes.
LEMMA HeldIdle ==
    ASSUME ResultsInv, HeldInv,
           UNCHANGED <<jobs, due, settled, capture, sub, waiters, results, outbox, excused, toClient, toEngine, reader>>
    PROVE  HeldInv'
<1>1. /\ JobsOnce' /\ StillFresh /\ Ages /\ CapturesOnce' /\ WaitersOwn' /\ StillAnswered
      /\ \A u, e : ResultOf(u, e)' <=> ResultOf(u, e)
  BY EngineUntouched
<1> QED BY <1>1, UpsertsUntouched, CopiesUntouched, AcksUntouched, HeldUntouched DEF HeldInv, ResultsInv

LEMMA HeldStep == SubmittedOnce /\ ResultsInv /\ HeldInv /\ [ResultsNext]_vars => HeldInv'
<1> SUFFICES ASSUME SubmittedOnce, ResultsInv, HeldInv, [ResultsNext]_vars PROVE HeldInv'
  OBVIOUS
<1>1. ASSUME NEW s \in Submissions, SubmitJob(s) \/ Adopt(s) \/ Await(s) \/ CloseSubmission(s)
      PROVE  HeldInv'
  BY <1>1, SubmitHeld, ReturnHeld
<1>2. ASSUME NEW i \in Instances, ReadFrame(i) \/ Disconnect(i)
      PROVE  HeldInv'
  BY <1>2, ReadHeld, DropHeld
<1>3. ASSUME NEW i \in Instances, HandleJobUpsert(i) \/ ReplyUpsert(i)
      PROVE  HeldInv'
  BY <1>3, UpsertHeld, ReplyHeld
<1>4. ASSUME NEW i \in Instances, HandleResultAck(i) \/ DeleteAcked(i)
      PROVE  HeldInv'
  BY <1>4, AckHeld, AckedHeld
<1>5. ASSUME NEW i \in Instances, RedeliverStaleResults(i) \/ HandleRegistered(i)
      PROVE  HeldInv'
  BY <1>5, ListingHeld
<1>6. ASSUME NEW k \in Keys, CaptureResult(k) \/ HandleJobDelete(k)
      PROVE  HeldInv'
  BY <1>6, CaptureHeld, JobDeleteHeld
<1>7. ASSUME NEW e \in Executions, StoreCaptured(e) \/ DeliverCaptured(e)
      PROVE  HeldInv'
  BY <1>7, StoreHeld, DeliverHeld
<1>8. ASSUME NEW p \in Senders, DeliverListed(p)
      PROVE  HeldInv'
  BY <1>8, SenderHeld
<1>9. ASSUME NEW u \in UUIDs, Evict(u)
      PROVE  HeldInv'
  BY <1>9, EvictHeld
<1>10. CASE ExpireResults \/ UNCHANGED vars
  <2>1. UNCHANGED <<jobs, due, settled, capture, sub, waiters, results, outbox, excused, toClient, toEngine, reader>>
    BY <1>10 DEF ExpireResults, vars
  <2> QED BY <2>1, HeldIdle
<1>11. CASE DeleteJob
  BY <1>11, DeleteJobHeld
<1> QED BY <1>1, <1>2, <1>3, <1>4, <1>5, <1>6, <1>7, <1>8, <1>9, <1>10, <1>11 DEF ResultsNext

\* Nothing is lost of a job submitted once: until its submission has the result
\* or gave up, the result is in the store, whatever connections drop, queues
\* fill up or acknowledgements come late.  An acknowledgement names the job and
\* not the result, so a job submitted again may lose one: the hypothesis is the
\* scope of the promise.
THEOREM ResultSafety == SubmittedOnce => (ResultsSpec => []AnsweredOrHeld)
<1> SUFFICES ASSUME SubmittedOnce PROVE ResultsSpec => []AnsweredOrHeld
  OBVIOUS
<1>1. ResultsInit => HeldInv
  BY HeldInitially
<1>2. ResultsInv /\ HeldInv /\ [ResultsNext]_vars => HeldInv'
  BY HeldStep
<1>3. ResultsInv /\ HeldInv => AnsweredOrHeld
  <2> SUFFICES ASSUME ResultsInv, HeldInv, NEW e \in Stored \ excused
               PROVE  LET u == capture[e].uuid
                      IN  \/ results[u].exec = e \/ sub[u].chan = e \/ sub[u].got = e
                          \/ sub[u].pc \in {"closed", "failed"}
    BY DEF AnsweredOrHeld
  <2> DEFINE u == capture[e].uuid
  <2>1. /\ e \in Executions /\ capture[e].pc \in {"deliver", "done"} /\ e \notin excused
        /\ u # 0 /\ u \in Submissions
    BY ConstantFacts DEF Stored, HeldInv, CapturesOnce, ResultsInv, ResultsTypeOK, EngineType
  <2>2. results[u].exec = e \/ Answered(u)
    BY <2>1 DEF HeldInv, HeldOrAnswered
  <2>3. \A f : ResultOf(u, f) => f = e
    BY <2>1 DEF ResultOf, HeldInv, CapturesOnce
  <2>4. (sub[u].chan # 0 => sub[u].chan = e) /\ (sub[u].got # 0 => sub[u].got = e)
    BY <2>1, <2>3 DEF HeldInv, WaitersOwn
  <2> QED BY <2>2, <2>4 DEF Answered
<1> QED BY <1>1, <1>2, <1>3, ResultsInvariant, PTL DEF ResultsSpec

=============================================================================
