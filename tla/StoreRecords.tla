---------------------------- MODULE StoreRecords ----------------------------
(***************************************************************************)
(* The records every scheduler store holds, the answers its calls give, and *)
(* the small helpers on partial functions and lists that the models of the  *)
(* memory store and of the Redis store share.  A job's definition other     *)
(* than its identity and switch is one opaque value, its body.              *)
(***************************************************************************)
EXTENDS Integers, Sequences, FiniteSets, SequencesExt, ExecutionStates

Nil == "nil"
Never == 0            \* the zero instant
ZeroID == 0           \* the zero job UUID, and no execution or attempt
Empty == [x \in {} |-> Nil]

\* A map with one entry set, and a map with one entry deleted.
Put(f, k, v) == [x \in DOMAIN f \cup {k} |-> IF x = k THEN v ELSE f[x]]
Drop(f, k) == [x \in DOMAIN f \ {k} |-> f[x]]

\* A list kept in a map of lists; a list that becomes empty is dropped.
ListAt(f, k) == IF k \in DOMAIN f THEN f[k] ELSE <<>>
Listed(f, k, id) == Put(f, k, Append(ListAt(f, k), id))
Unlisted(f, k, id) ==
    LET left == RemoveFirst(ListAt(f, k), id)
    IN  IF left = <<>> THEN Drop(f, k) ELSE Put(f, k, left)

NoRecord == [id |-> ZeroID]

\* What a call answers: an error, a flag, a record or a list of records.
Fails(err) == [err |-> err, ok |-> FALSE, rec |-> NoRecord, list |-> <<>>]
Says(ok) == [err |-> "none", ok |-> ok, rec |-> NoRecord, list |-> <<>>]
Gives(rec) == [err |-> "none", ok |-> TRUE, rec |-> rec, list |-> <<>>]
GivesOld(rec) == [err |-> "none", ok |-> FALSE, rec |-> rec, list |-> <<>>]
Lists(list) == [err |-> "none", ok |-> TRUE, rec |-> NoRecord, list |-> list]
Unanswered == Fails("unanswered")
Answer(store, reply) == [st |-> store, re |-> reply]

\* A job as its caller hands it to UpsertJob.
JobOf(id, type, key, enabled) ==
    [id |-> id, type |-> type, key |-> key, enabled |-> enabled, skipped |-> 0,
     version |-> 0, created |-> Never, updated |-> Never]

NewExecution(id, job, at, state, backfilled, now) ==
    [id |-> id, job |-> job, at |-> at, state |-> state, tries |-> 0,
     attempt |-> ZeroID, next |-> at, lease |-> Never, backfilled |-> backfilled,
     error |-> Nil, reason |-> Nil, version |-> 1, created |-> now, updated |-> now]

NewAttempt(id, execution, number, instance, now) ==
    [id |-> id, execution |-> execution, number |-> number, instance |-> instance,
     state |-> "Dispatched", error |-> Nil, created |-> now, updated |-> now]

\* A settled result as the engine hands it to StoreResult.
ResultOf(job, instance, success) ==
    [id |-> job, instance |-> instance, success |-> success, attempts |-> 0,
     created |-> Never, sent |-> Never]

\* The fields an ExecutionUpdate names, the state apart, laid over a record.
Updated(e, update) ==
    [f \in DOMAIN e |-> IF f \in DOMAIN update THEN update[f] ELSE e[f]]

\* The instant at which an execution becomes due, if its state has one.
executionWakes(e) == e.state \in DueStates
executionWakeTime(e) == IF e.state = "Scheduled" THEN e.at ELSE e.next
executionDue(e, now) == executionWakes(e) /\ executionWakeTime(e) <= now

Leased(e) == e.state \in LeasedStates
Settled(e) == e.state \in TerminalStates

\* A positive limit caps a list, any other leaves it whole.
Capped(list, limit) == IF limit > 0 THEN SubSeq(list, 1, IF Len(list) < limit
                                                         THEN Len(list) ELSE limit)
                                    ELSE list

ById(a, b) == a.id < b.id
BySchedule(a, b) == a.at < b.at \/ (a.at = b.at /\ a.id < b.id)
ByUpdate(a, b) == a.updated < b.updated \/ (a.updated = b.updated /\ a.id < b.id)
ByCreation(a, b) == a.created < b.created \/ (a.created = b.created /\ a.id < b.id)

\* Why a version-checked update of execution e is refused, or "none".
UpdateRefusal(e, version, update) ==
    CASE e.version # version -> "ErrVersionConflict"
      [] e.version = version /\ "state" \in DOMAIN update /\ update.state # e.state
           /\ Settled(e) -> "ErrTerminalState"
      [] e.version = version /\ "state" \in DOMAIN update /\ update.state # e.state
           /\ ~Settled(e) /\ ~CanTransition(e.state, update.state) -> "ErrIllegalTransition"
      [] OTHER -> "none"

=============================================================================
