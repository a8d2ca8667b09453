----------------------------- MODULE RedisStore -----------------------------
(***************************************************************************)
(* The Redis store.  The server's keyspace is one record: hashes are        *)
(* functions, sets keyed by a job, a state, an execution or an instance are *)
(* relations, sorted sets map a member to its score, lists are sequences.   *)
(* A Lua script is one function of the keyspace; a Go method that needs     *)
(* more than one round trip is split where another client may come between: *)
(* its first round trip (named Read..., or minting an identifier) yields    *)
(* what the method has seen, its script is given that.  Scores hold whole   *)
(* microseconds while records hold nanoseconds.                             *)
(***************************************************************************)
EXTENDS StoreRecords

CONSTANT NanosPerMicro     \* a score counts units of this many record ticks

microScore(t) == t \div NanosPerMicro

NewStore(maxResults, maxPerInstance) ==
    [jobKeys |-> Empty, enabled |-> {}, jobs |-> Empty,
     occurrences |-> Empty, executions |-> Empty, wake |-> Empty, lease |-> Empty,
     settled |-> Empty, state |-> {}, ofJob |-> {}, active |-> {}, pending |-> {},
     executionCounter |-> 0, attemptCounter |-> 0,
     attempts |-> Empty, ofExecution |-> {}, onInstance |-> {},
     results |-> Empty, created |-> Empty, lists |-> Empty,
     maxResults |-> maxResults, maxPerInstance |-> maxPerInstance]

Pending == Fails("pending")       \* the method goes on to its script
Retry   == Fails("retry")         \* the script met a change since the first read
Seen(r, what, reply) == [st |-> r, seen |-> what, re |-> reply]

SetIf(cond, S, x) == IF cond THEN S \cup {x} ELSE S \ {x}
\* Broken variant: an execution that stops waiting keeps its score.
StickyScore(cond, z, id, t) == IF cond THEN Put(z, id, microScore(t)) ELSE z
ScoreIf(cond, z, id, t) == IF cond THEN Put(z, id, microScore(t)) ELSE Drop(z, id)
Lookup(f, k, none) == IF k \in DOMAIN f THEN f[k] ELSE none

-----------------------------------------------------------------------------
(* Jobs. *)

jobFromHash(id, h) ==
    [id |-> id, type |-> h.blob.type, key |-> h.blob.key, enabled |-> h.enabled,
     skipped |-> h.skipped, version |-> h.version, created |-> h.created,
     updated |-> h.updated]

jobWire(job) == [type |-> job.type, key |-> job.key]

ReadJobKey(r, job) ==
    IF job = NoRecord THEN Seen(r, ZeroID, Fails("ErrNilJob"))
    ELSE Seen(r, Lookup(r.jobKeys, <<job.type, job.key>>, ZeroID), Pending)

replacedJob(job, h, id, now) ==
    [job EXCEPT !.id = id, !.version = h.version, !.created = h.created,
                !.skipped = h.skipped, !.updated = now]

upsertJobScript(r, now, job, expected) ==
    LET field    == <<job.type, job.key>>
        existing == Lookup(r.jobKeys, field, ZeroID)
        old      == r.jobs[existing]
        replaced == [old EXCEPT !.version = @ + 1, !.blob = jobWire(job),
                                !.enabled = job.enabled, !.updated = now]
        new      == [blob |-> jobWire(job), version |-> 1, skipped |-> 0,
                     enabled |-> job.enabled, created |-> now, updated |-> now,
                     keyfield |-> field]
    IN  IF existing # expected THEN Answer(r, Retry)
        ELSE IF existing # ZeroID
             THEN Answer([r EXCEPT !.jobs[existing] = replaced,
                                   !.enabled = SetIf(job.enabled, @, existing)],
                         Gives(replacedJob(job, replaced, existing, now)))
        ELSE IF job.id = ZeroID THEN Answer(r, Fails("ErrZeroJobUUID"))
        ELSE Answer([r EXCEPT !.jobs = Put(@, job.id, new),
                              !.jobKeys = Put(@, field, job.id),
                              !.enabled = IF job.enabled THEN @ \cup {job.id} ELSE @],
                    Gives([job EXCEPT !.version = 1, !.created = now, !.updated = now,
                                      !.skipped = 0]))

GetJob(r, id) ==
    Answer(r, IF id \in DOMAIN r.jobs THEN Gives(jobFromHash(id, r.jobs[id]))
                                      ELSE Fails("ErrJobNotFound"))

\* GetJobByKey looks the identifier up, then fetches the job as GetJob does.
ReadKeyedJob(r, type, key) ==
    IF <<type, key>> \in DOMAIN r.jobKeys
    THEN Seen(r, r.jobKeys[<<type, key>>], Pending)
    ELSE Seen(r, ZeroID, Fails("ErrJobNotFound"))

deleteJobScript(r, id) ==
    IF id \notin DOMAIN r.jobs THEN Answer(r, Says(FALSE))
    ELSE Answer([r EXCEPT !.jobs = Drop(@, id),
                          !.jobKeys = Drop(@, r.jobs[id].keyfield),
                          !.enabled = @ \ {id}], Says(TRUE))

setJobEnabledScript(r, now, id, enabled) ==
    IF id \notin DOMAIN r.jobs THEN Answer(r, Fails("ErrJobNotFound"))
    ELSE Answer([r EXCEPT !.jobs[id].version = @ + 1, !.jobs[id].enabled = enabled,
                          !.jobs[id].updated = now, !.enabled = SetIf(enabled, @, id)],
                Says(TRUE))

addSkippedOccurrencesScript(r, now, id, count) ==
    IF id \notin DOMAIN r.jobs THEN Answer(r, Fails("ErrJobNotFound"))
    ELSE Answer([r EXCEPT !.jobs[id].skipped = @ + count, !.jobs[id].updated = now],
                Says(TRUE))

\* What the fetched hashes of the members of the enabled set become.
ListEnabledJobs(jobs) == SetToSortSeq({j \in jobs : j.enabled}, ById)

-----------------------------------------------------------------------------
(* Executions. *)

executionFromHash(id, h) ==
    [f \in DOMAIN h.blob \cup {"id", "version", "created", "updated"} |->
        CASE f = "id" -> id
          [] f \in {"version", "created", "updated"} -> h[f]
          [] OTHER -> h.blob[f]]

executionWire(e) == [f \in DOMAIN e \ {"id", "version", "created", "updated"} |-> e[f]]

\* The identifier is minted by its own INCR, before the script knows whether
\* the occurrence is new: a refused or repeated creation wastes one.
MintExecution(r) ==
    Seen([r EXCEPT !.executionCounter = @ + 1], r.executionCounter + 1, Pending)

createExecutionScript(r, now, id, job, at, state, backfilled) ==
    LET e == NewExecution(id, job, at, state, backfilled, now)
        h == [blob |-> executionWire(e), version |-> 1, created |-> now, updated |-> now]
    IN  IF job \notin DOMAIN r.jobs THEN Answer(r, Fails("ErrJobNotFound"))
        ELSE IF <<job, at>> \in DOMAIN r.occurrences
             THEN Answer(r, GivesOld([id |-> r.occurrences[<<job, at>>]]))
        ELSE Answer([r EXCEPT !.executions = Put(@, id, h),
                              !.occurrences = Put(@, <<job, at>>, id),
                              !.state = @ \cup {<<state, id>>},
                              !.ofJob = @ \cup {<<job, id>>},
                              !.wake = ScoreIf(executionWakes(e), @, id,
                                               executionWakeTime(e)),
                              !.lease = ScoreIf(Leased(e), @, id, Never),
                              !.active = SetIf(Leased(e), @, <<job, id>>),
                              !.pending = SetIf(~Settled(e), @, <<job, id>>),
                              !.settled = ScoreIf(Settled(e), @, id, now)],
                    Gives(e))

GetExecution(r, id) ==
    Answer(r, IF id \in DOMAIN r.executions
              THEN Gives(executionFromHash(id, r.executions[id]))
              ELSE Fails("ErrExecutionNotFound"))

\* A repeated creation fetches the execution that holds the occurrence, which
\* may be gone by then.
GetExisting(r, id) ==
    Answer(r, [GetExecution(r, id).re EXCEPT !.ok = FALSE])

\* UpdateExecution's first round trip, and the refusals it decides from it.
ReadForUpdate(r, id, version, update) ==
    LET current == executionFromHash(id, r.executions[id])
        refusal == UpdateRefusal(current, version, update)
    IN  IF id \notin DOMAIN r.executions
        THEN Seen(r, NoRecord, Fails("ErrExecutionNotFound"))
        ELSE Seen(r, current, IF refusal = "none" THEN Pending ELSE Fails(refusal))

\* Broken variant: the script writes what the method read, whatever came between.
UncheckedUpdate(r, now, current, update) ==
    LET id   == current.id
        next == [Updated(current, update) EXCEPT !.version = current.version + 1,
                                                 !.updated = now]
        h    == [r.executions[id] EXCEPT !.blob = executionWire(next), !.updated = now,
                                         !.version = @ + 1]
    IN  IF id \notin DOMAIN r.executions THEN Answer(r, Fails("ErrExecutionNotFound"))
        ELSE Answer([r EXCEPT !.executions[id] = h], Gives(next))

updateExecutionScript(r, now, current, update) ==
    LET id   == current.id
        next == [Updated(current, update) EXCEPT !.version = current.version + 1,
                                                 !.updated = now]
        h    == [r.executions[id] EXCEPT !.blob = executionWire(next), !.updated = now,
                                         !.version = @ + 1]
    IN  IF id \notin DOMAIN r.executions THEN Answer(r, Fails("ErrExecutionNotFound"))
        ELSE IF r.executions[id].version # current.version
             THEN Answer(r, Fails("ErrVersionConflict"))
        ELSE Answer([r EXCEPT !.executions[id] = h,
                              !.state = (@ \ {<<current.state, id>>})
                                          \cup {<<next.state, id>>},
                              !.wake = ScoreIf(executionWakes(next), @, id,
                                               executionWakeTime(next)),
                              !.lease = ScoreIf(Leased(next), @, id, next.lease),
                              !.active = SetIf(Leased(next), @, <<next.job, id>>),
                              !.pending = SetIf(~Settled(next), @, <<next.job, id>>),
                              !.settled = IF Settled(next) THEN Put(@, id, microScore(now))
                                                           ELSE @],
                    Gives(next))

\* Broken variant: a member scored for the very instant is left out.
ScoredBelow(z, t) == {id \in DOMAIN z : z[id] < microScore(t)}

\* The members of a sorted set whose score is not above that of instant t.
ScoredUpTo(z, t) == {id \in DOMAIN z : z[id] <= microScore(t)}

DueExecutions(executions, now, limit) ==
    Capped(SetToSortSeq({e \in executions : executionDue(e, now)}, BySchedule), limit)

\* The members tied at the lowest score of the wake set.
NextWakeMembers(r) ==
    {id \in DOMAIN r.wake : \A other \in DOMAIN r.wake : r.wake[id] <= r.wake[other]}

NextWakeAt(executions) ==
    LET wakes == {executionWakeTime(e) : e \in {f \in executions : executionWakes(f)}}
    IN  IF wakes = {} THEN Says(FALSE)
        ELSE Gives([at |-> CHOOSE t \in wakes : \A u \in wakes : t <= u])

StateMembers(r, states) == {m[2] : m \in {n \in r.state : n[1] \in states}}

ExecutionsInStates(executions, states) ==
    SetToSortSeq({e \in executions : e.state \in states}, ById)

Related(relation, key) == {m[2] : m \in {n \in relation : n[1] = key}}

ExecutionsForJob(executions) == SetToSortSeq(executions, ById)

HasActiveExecution(r, job, exclude) ==
    Answer(r, Says(Related(r.active, job) \ {exclude} # {}))

HasPendingOccurrence(r, job) == Answer(r, Says(Related(r.pending, job) # {}))

ExpiredLeases(executions, now) ==
    SetToSortSeq({e \in executions : Leased(e) /\ e.lease <= now}, ById)

ReadForDelete(r, id) ==
    IF id \in DOMAIN r.executions
    THEN Seen(r, executionFromHash(id, r.executions[id]), Pending)
    ELSE Seen(r, NoRecord, Says(FALSE))

deleteExecutionScript(r, current) ==
    LET id == current.id
    IN  IF id \notin DOMAIN r.executions THEN Answer(r, Says(FALSE))
        ELSE Answer([r EXCEPT !.executions = Drop(@, id),
                              !.state = @ \ {<<current.state, id>>},
                              !.ofJob = @ \ {<<current.job, id>>},
                              !.settled = Drop(@, id),
                              !.occurrences = Drop(@, <<current.job, current.at>>)],
                    Says(TRUE))

ExpiredExecutions(executions, before, limit) ==
    Capped(SetToSortSeq({e \in executions : e.updated < before}, ByUpdate), limit)

-----------------------------------------------------------------------------
(* Attempts. *)

attemptFromHash(id, h) ==
    [id |-> id, execution |-> h.blob.execution, number |-> h.blob.number,
     instance |-> h.blob.instance, state |-> h.state, error |-> h.error,
     created |-> h.created, updated |-> h.updated]

MintAttempt(r) == Seen([r EXCEPT !.attemptCounter = @ + 1], r.attemptCounter + 1, Pending)

createAttemptScript(r, now, id, execution, number, instance) ==
    LET h == [blob |-> [execution |-> execution, number |-> number, instance |-> instance],
              state |-> "Dispatched", error |-> Nil, created |-> now, updated |-> now]
    IN  IF execution \notin DOMAIN r.executions
        THEN Answer(r, Fails("ErrExecutionNotFound"))
        ELSE Answer([r EXCEPT !.attempts = Put(@, id, h),
                              !.ofExecution = @ \cup {<<execution, id>>},
                              !.onInstance = @ \cup {<<instance, id>>}],
                    Gives(NewAttempt(id, execution, number, instance, now)))

GetAttempt(r, id) ==
    Answer(r, IF id \in DOMAIN r.attempts THEN Gives(attemptFromHash(id, r.attempts[id]))
                                          ELSE Fails("ErrAttemptNotFound"))

ReadAttempt(r, id, missing) ==
    IF id \in DOMAIN r.attempts THEN Seen(r, attemptFromHash(id, r.attempts[id]), Pending)
                                ELSE Seen(r, NoRecord, missing)

\* Broken variant: a settled attempt stays on its host's list.
SettleOnHost(r, now, id, from, to, error, host) ==
    IF id \notin DOMAIN r.attempts THEN Answer(r, Fails("ErrAttemptNotFound"))
    ELSE IF from # {} /\ r.attempts[id].state \notin from THEN Answer(r, Says(FALSE))
    ELSE Answer([r EXCEPT !.attempts[id].state = to, !.attempts[id].updated = now,
                          !.attempts[id].error = IF error # Nil THEN error ELSE @],
                Says(TRUE))

updateAttemptStateScript(r, now, id, from, to, error, host) ==
    IF id \notin DOMAIN r.attempts THEN Answer(r, Fails("ErrAttemptNotFound"))
    ELSE IF from # {} /\ r.attempts[id].state \notin from THEN Answer(r, Says(FALSE))
    ELSE Answer([r EXCEPT !.attempts[id].state = to, !.attempts[id].updated = now,
                          !.attempts[id].error = IF error # Nil THEN error ELSE @,
                          !.onInstance = IF to \in AttemptTerminalStates
                                         THEN @ \ {<<host, id>>} ELSE @], Says(TRUE))

AttemptsForExecution(attempts) == SetToSortSeq(attempts, ById)

AttemptsOnInstance(attempts, states) ==
    SetToSortSeq({a \in attempts : states = {} \/ a.state \in states}, ById)

deleteAttemptScript(r, current) ==
    LET id == current.id
    IN  IF id \notin DOMAIN r.attempts THEN Answer(r, Says(FALSE))
        ELSE Answer([r EXCEPT !.attempts = Drop(@, id),
                              !.ofExecution = @ \ {<<current.execution, id>>},
                              !.onInstance = @ \ {<<current.instance, id>>}], Says(TRUE))

-----------------------------------------------------------------------------
(* Results. *)

resultFromHash(id, h) ==
    [id |-> id, instance |-> h.blob.instance, success |-> h.blob.success,
     attempts |-> h.attempts, created |-> h.created, sent |-> h.sent]

ReadResultList(r, id) == IF id \in DOMAIN r.results THEN r.results[id].list ELSE Nil

ReadForStore(r, result) ==
    IF result = NoRecord THEN Seen(r, Nil, Fails("ErrNilResult"))
    ELSE Seen(r, ReadResultList(r, result.id), Pending)

ReadResultToDelete(r, id) ==
    Seen(r, ReadResultList(r, id), IF id \in DOMAIN r.results THEN Pending ELSE Says(FALSE))

storeResultScript(r, now, result, expected) ==
    LET id   == result.id
        list == result.instance
        held == Len(ListAt(r.lists, list))
        wire == [instance |-> result.instance, success |-> result.success]
        cur  == ReadResultList(r, id)
    IN  IF cur # expected THEN Answer(r, Retry)
        ELSE IF cur = Nil /\ Cardinality(DOMAIN r.created) >= r.maxResults
             THEN Answer(r, Says(FALSE))
        ELSE IF cur # list /\ held >= r.maxPerInstance THEN Answer(r, Says(FALSE))
        ELSE IF cur = Nil
        THEN Answer([r EXCEPT !.results = Put(@, id, [blob |-> wire, list |-> list,
                                                      attempts |-> 0, created |-> now,
                                                      sent |-> Never]),
                              !.created = Put(@, id, microScore(now)),
                              !.lists = Listed(@, list, id)], Says(TRUE))
        ELSE Answer([r EXCEPT !.results[id].blob = wire, !.results[id].list = list,
                              !.lists = IF cur # list
                                        THEN Listed(Unlisted(@, cur, id), list, id)
                                        ELSE @], Says(TRUE))

deleteResultScript(r, id, expected) ==
    LET cur == ReadResultList(r, id)
    IN  IF cur = Nil THEN Answer(r, Says(FALSE))
        ELSE IF cur # expected THEN Answer(r, Retry)
        ELSE Answer([r EXCEPT !.results = Drop(@, id), !.created = Drop(@, id),
                              !.lists = Unlisted(@, cur, id)], Says(TRUE))

ResultMembers(r, instance, limit) == Capped(ListAt(r.lists, instance), limit)

markResultSentScript(r, id, at) ==
    IF id \notin DOMAIN r.results THEN Answer(r, Fails("ErrResultNotFound"))
    ELSE Answer([r EXCEPT !.results[id].attempts = @ + 1, !.results[id].sent = at],
                Says(TRUE))

ExpiredResults(results, before, limit) ==
    Capped(SetToSortSeq({x \in results : x.created < before}, ByCreation), limit)

CountResults(r) == Answer(r, Gives([count |-> Cardinality(DOMAIN r.created)]))

-----------------------------------------------------------------------------
(* The pipelined fetch of the hashes of the listed members: a member whose  *)
(* hash is gone is passed over.                                             *)

executionsByMembers(r, ids) ==
    {executionFromHash(id, r.executions[id]) : id \in ids \cap DOMAIN r.executions}

attemptsByMembers(r, ids) ==
    {attemptFromHash(id, r.attempts[id]) : id \in ids \cap DOMAIN r.attempts}

resultsByMembers(r, ids) ==
    {resultFromHash(id, r.results[id]) : id \in ids \cap DOMAIN r.results}

jobsByMembers(r, ids) == {jobFromHash(id, r.jobs[id]) : id \in ids \cap DOMAIN r.jobs}

=============================================================================
