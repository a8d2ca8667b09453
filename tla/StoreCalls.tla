----------------------------- MODULE StoreCalls -----------------------------
(***************************************************************************)
(* The calls of the store interface, as values, and what each store does    *)
(* with one.  The memory store serves a call in one step.  The Redis store  *)
(* serves it in at most three: what its first round trip finds, its script  *)
(* or its fetch, and, for an occurrence that existed already, the fetch of  *)
(* the execution that holds it.                                             *)
(***************************************************************************)
EXTENDS StoreRecords

CONSTANT NanosPerMicro

Mem == INSTANCE MemStore
Red == INSTANCE RedisStore

-----------------------------------------------------------------------------
(* Calls. *)

newJob(id) == JobOf(id, "worker", id, TRUE)
upsertJob(job) == [op |-> "UpsertJob", job |-> job]
createJob(id) == upsertJob(newJob(id))
getJob(id) == [op |-> "GetJob", id |-> id]
getJobByKey(type, key) == [op |-> "GetJobByKey", type |-> type, key |-> key]
deleteJob(id) == [op |-> "DeleteJob", id |-> id]
setJobEnabled(id, enabled) == [op |-> "SetJobEnabled", id |-> id, enabled |-> enabled]
addSkipped(id, count) == [op |-> "AddSkippedOccurrences", id |-> id, count |-> count]
listEnabledJobs == [op |-> "ListEnabledJobs"]

createExecution(job, at) == [op |-> "CreateExecution", job |-> job, at |-> at]
getExecution(id) == [op |-> "GetExecution", id |-> id]
updateExecution(id, version, update) ==
    [op |-> "UpdateExecution", id |-> id, version |-> version, update |-> update]
dueExecutions(now, limit) == [op |-> "DueExecutions", now |-> now, limit |-> limit]
nextWakeAt == [op |-> "NextWakeAt"]
executionsInStates(states) == [op |-> "ExecutionsInStates", states |-> states]
executionsForJob(job) == [op |-> "ExecutionsForJob", job |-> job]
hasActiveExecution(job, exclude) ==
    [op |-> "HasActiveExecution", job |-> job, exclude |-> exclude]
hasPendingOccurrence(job) == [op |-> "HasPendingOccurrence", job |-> job]
expiredLeases(now) == [op |-> "ExpiredLeases", now |-> now]
deleteExecution(id) == [op |-> "DeleteExecution", id |-> id]
expiredExecutions(before, limit) ==
    [op |-> "ExpiredExecutions", before |-> before, limit |-> limit]

createAttempt(execution, number, instance) ==
    [op |-> "CreateAttempt", execution |-> execution, number |-> number,
     instance |-> instance]
getAttempt(id) == [op |-> "GetAttempt", id |-> id]
updateAttemptState(id, from, to, error) ==
    [op |-> "UpdateAttemptState", id |-> id, from |-> from, to |-> to, error |-> error]
attemptsForExecution(execution) == [op |-> "AttemptsForExecution", execution |-> execution]
attemptsOnInstance(instance, states) ==
    [op |-> "AttemptsOnInstance", instance |-> instance, states |-> states]
deleteAttempt(id) == [op |-> "DeleteAttempt", id |-> id]

storeResult(result) == [op |-> "StoreResult", result |-> result]
deleteResult(id) == [op |-> "DeleteResult", id |-> id]
resultsForInstance(instance, limit) ==
    [op |-> "ResultsForInstance", instance |-> instance, limit |-> limit]
markResultSent(id, at) == [op |-> "MarkResultSent", id |-> id, at |-> at]
expiredResults(before, limit) ==
    [op |-> "ExpiredResults", before |-> before, limit |-> limit]
countResults == [op |-> "CountResults"]

-----------------------------------------------------------------------------
(* The memory store. *)

MemDo(m, now, c) ==
    CASE c.op = "UpsertJob" -> Mem!UpsertJob(m, now, c.job)
      [] c.op = "GetJob" -> Mem!GetJob(m, c.id)
      [] c.op = "GetJobByKey" -> Mem!GetJobByKey(m, c.type, c.key)
      [] c.op = "DeleteJob" -> Mem!DeleteJob(m, c.id)
      [] c.op = "SetJobEnabled" -> Mem!SetJobEnabled(m, now, c.id, c.enabled)
      [] c.op = "AddSkippedOccurrences" -> Mem!AddSkippedOccurrences(m, now, c.id, c.count)
      [] c.op = "ListEnabledJobs" -> Mem!ListEnabledJobs(m)
      [] c.op = "CreateExecution" ->
            Mem!CreateExecution(m, now, c.job, c.at, "Scheduled", FALSE)
      [] c.op = "GetExecution" -> Mem!GetExecution(m, c.id)
      [] c.op = "UpdateExecution" -> Mem!UpdateExecution(m, now, c.id, c.version, c.update)
      [] c.op = "DueExecutions" -> Mem!DueExecutions(m, c.now, c.limit)
      [] c.op = "NextWakeAt" -> Mem!NextWakeAt(m)
      [] c.op = "ExecutionsInStates" -> Mem!ExecutionsInStates(m, c.states)
      [] c.op = "ExecutionsForJob" -> Mem!ExecutionsForJob(m, c.job)
      [] c.op = "HasActiveExecution" -> Mem!HasActiveExecution(m, c.job, c.exclude)
      [] c.op = "HasPendingOccurrence" -> Mem!HasPendingOccurrence(m, c.job)
      [] c.op = "ExpiredLeases" -> Mem!ExpiredLeases(m, c.now)
      [] c.op = "DeleteExecution" -> Mem!DeleteExecution(m, c.id)
      [] c.op = "ExpiredExecutions" -> Mem!ExpiredExecutions(m, c.before, c.limit)
      [] c.op = "CreateAttempt" ->
            Mem!CreateAttempt(m, now, c.execution, c.number, c.instance)
      [] c.op = "GetAttempt" -> Mem!GetAttempt(m, c.id)
      [] c.op = "UpdateAttemptState" ->
            Mem!UpdateAttemptState(m, now, c.id, c.from, c.to, c.error)
      [] c.op = "AttemptsForExecution" -> Mem!AttemptsForExecution(m, c.execution)
      [] c.op = "AttemptsOnInstance" -> Mem!AttemptsOnInstance(m, c.instance, c.states)
      [] c.op = "DeleteAttempt" -> Mem!DeleteAttempt(m, c.id)
      [] c.op = "StoreResult" -> Mem!StoreResult(m, now, c.result)
      [] c.op = "DeleteResult" -> Mem!DeleteResult(m, c.id)
      [] c.op = "ResultsForInstance" -> Mem!ResultsForInstance(m, c.instance, c.limit)
      [] c.op = "MarkResultSent" -> Mem!MarkResultSent(m, c.id, c.at)
      [] c.op = "ExpiredResults" -> Mem!ExpiredResults(m, c.before, c.limit)
      [] c.op = "CountResults" -> Mem!CountResults(m)

-----------------------------------------------------------------------------
(* The Redis store.  A listing first reads the members of an index, then    *)
(* fetches their hashes one by one, then filters and sorts what it fetched. *)

ListingOps ==
    {"ListEnabledJobs", "DueExecutions", "NextWakeAt", "ExecutionsInStates",
     "ExecutionsForJob", "ExpiredLeases", "ExpiredExecutions", "AttemptsForExecution",
     "AttemptsOnInstance", "ResultsForInstance", "ExpiredResults"}

Members(r, c) ==
    CASE c.op = "ListEnabledJobs" -> r.enabled
      [] c.op = "DueExecutions" -> Red!ScoredUpTo(r.wake, c.now)
      [] c.op = "NextWakeAt" -> Red!NextWakeMembers(r)
      [] c.op = "ExecutionsInStates" -> Red!StateMembers(r, c.states)
      [] c.op = "ExecutionsForJob" -> Red!Related(r.ofJob, c.job)
      [] c.op = "ExpiredLeases" -> Red!ScoredUpTo(r.lease, c.now)
      [] c.op = "ExpiredExecutions" -> Red!ScoredUpTo(r.settled, c.before)
      [] c.op = "AttemptsForExecution" -> Red!Related(r.ofExecution, c.execution)
      [] c.op = "AttemptsOnInstance" -> Red!Related(r.onInstance, c.instance)
      [] c.op = "ResultsForInstance" -> ToSet(Red!ResultMembers(r, c.instance, c.limit))
      [] c.op = "ExpiredResults" -> Red!ScoredUpTo(r.created, c.before)

ByMembers(r, c, ids) ==
    CASE c.op = "ListEnabledJobs" -> Red!jobsByMembers(r, ids)
      [] c.op \in {"AttemptsForExecution", "AttemptsOnInstance"} ->
            Red!attemptsByMembers(r, ids)
      [] c.op \in {"ResultsForInstance", "ExpiredResults"} -> Red!resultsByMembers(r, ids)
      [] OTHER -> Red!executionsByMembers(r, ids)

\* The members of an instance's result list keep the order of the list.
ListOrder(r, c) ==
    IF c.op = "ResultsForInstance" THEN Red!ResultMembers(r, c.instance, c.limit) ELSE <<>>

InListOrder(order, fetched) ==
    LET present == SelectSeq(order, LAMBDA id : \E x \in fetched : x.id = id)
    IN  [i \in DOMAIN present |-> CHOOSE x \in fetched : x.id = present[i]]

Listing(c, order, fetched) ==
    CASE c.op = "ListEnabledJobs" -> Lists(Red!ListEnabledJobs(fetched))
      [] c.op = "DueExecutions" -> Lists(Red!DueExecutions(fetched, c.now, c.limit))
      [] c.op = "NextWakeAt" -> Red!NextWakeAt(fetched)
      [] c.op = "ExecutionsInStates" -> Lists(Red!ExecutionsInStates(fetched, c.states))
      [] c.op = "ExecutionsForJob" -> Lists(Red!ExecutionsForJob(fetched))
      [] c.op = "ExpiredLeases" -> Lists(Red!ExpiredLeases(fetched, c.now))
      [] c.op = "ExpiredExecutions" ->
            Lists(Red!ExpiredExecutions(fetched, c.before, c.limit))
      [] c.op = "AttemptsForExecution" -> Lists(Red!AttemptsForExecution(fetched))
      [] c.op = "AttemptsOnInstance" -> Lists(Red!AttemptsOnInstance(fetched, c.states))
      [] c.op = "ResultsForInstance" -> Lists(InListOrder(order, fetched))
      [] c.op = "ExpiredResults" -> Lists(Red!ExpiredResults(fetched, c.before, c.limit))

\* What the first round trip finds, for the calls whose script depends on one.
First(r, c) ==
    CASE c.op = "UpsertJob" -> Red!ReadJobKey(r, c.job)
      [] c.op = "CreateExecution" -> Red!MintExecution(r)
      [] c.op = "UpdateExecution" -> Red!ReadForUpdate(r, c.id, c.version, c.update)
      [] c.op = "DeleteExecution" -> Red!ReadForDelete(r, c.id)
      [] c.op = "CreateAttempt" -> Red!MintAttempt(r)
      [] c.op = "UpdateAttemptState" ->
            Red!ReadAttempt(r, c.id, Fails("ErrAttemptNotFound"))
      [] c.op = "DeleteAttempt" -> Red!ReadAttempt(r, c.id, Says(FALSE))
      [] c.op = "StoreResult" -> Red!ReadForStore(r, c.result)
      [] c.op = "DeleteResult" -> Red!ReadResultToDelete(r, c.id)
      [] c.op = "GetJobByKey" -> Red!ReadKeyedJob(r, c.type, c.key)
      [] OTHER -> Red!Seen(r, ZeroID, Red!Pending)

\* The script, or the one read, that decides the call.
Second(r, now, c, seen) ==
    CASE c.op = "UpsertJob" -> Red!upsertJobScript(r, now, c.job, seen)
      [] c.op = "GetJob" -> Red!GetJob(r, c.id)
      [] c.op = "GetJobByKey" -> Red!GetJob(r, seen)
      [] c.op = "DeleteJob" -> Red!deleteJobScript(r, c.id)
      [] c.op = "SetJobEnabled" -> Red!setJobEnabledScript(r, now, c.id, c.enabled)
      [] c.op = "AddSkippedOccurrences" ->
            Red!addSkippedOccurrencesScript(r, now, c.id, c.count)
      [] c.op = "CreateExecution" ->
            Red!createExecutionScript(r, now, seen, c.job, c.at, "Scheduled", FALSE)
      [] c.op = "GetExecution" -> Red!GetExecution(r, c.id)
      [] c.op = "UpdateExecution" -> Red!updateExecutionScript(r, now, seen, c.update)
      [] c.op = "HasActiveExecution" -> Red!HasActiveExecution(r, c.job, c.exclude)
      [] c.op = "HasPendingOccurrence" -> Red!HasPendingOccurrence(r, c.job)
      [] c.op = "DeleteExecution" -> Red!deleteExecutionScript(r, seen)
      [] c.op = "CreateAttempt" ->
            Red!createAttemptScript(r, now, seen, c.execution, c.number, c.instance)
      [] c.op = "GetAttempt" -> Red!GetAttempt(r, c.id)
      [] c.op = "UpdateAttemptState" ->
            Red!updateAttemptStateScript(r, now, c.id, c.from, c.to, c.error,
                                         seen.instance)
      [] c.op = "DeleteAttempt" -> Red!deleteAttemptScript(r, seen)
      [] c.op = "StoreResult" -> Red!storeResultScript(r, now, c.result, seen)
      [] c.op = "DeleteResult" -> Red!deleteResultScript(r, c.id, seen)
      [] c.op = "MarkResultSent" -> Red!markResultSentScript(r, c.id, c.at)
      [] c.op = "CountResults" -> Red!CountResults(r)

\* The occurrence existed: the execution that holds it is fetched in turn.
IsExisting(c, reply) == c.op = "CreateExecution" /\ reply.err = "none" /\ ~reply.ok

\* A call none comes between the steps of.
RedisDo(r, now, c) ==
    LET first   == First(r, c)
        decided == Second(first.st, now, c, first.seen)
    IN  IF c.op \in ListingOps
        THEN Answer(r, Listing(c, ListOrder(r, c), ByMembers(r, c, Members(r, c))))
        ELSE IF first.re # Red!Pending THEN Answer(first.st, first.re)
        ELSE IF IsExisting(c, decided.re)
        THEN Red!GetExisting(decided.st, decided.re.rec.id)
        ELSE decided

=============================================================================
