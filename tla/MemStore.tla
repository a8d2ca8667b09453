------------------------------ MODULE MemStore ------------------------------
(***************************************************************************)
(* The in-memory store.  Every call holds the store's lock from its first   *)
(* read to its last write, so a call is one function from the store and the *)
(* clock to the store and the answer.  Beside the records the store keeps   *)
(* the indexes its lookups go through: executor-scoped job keys, occurrence *)
(* keys, the creation order of executions, attempts by execution and by     *)
(* host, results by submitting instance.                                    *)
(***************************************************************************)
EXTENDS StoreRecords

NewStore(maxResults, maxPerInstance) ==
    [jobs |-> Empty, jobKeys |-> Empty,
     executions |-> Empty, occurrences |-> Empty, ordered |-> <<>>, nextExecution |-> 0,
     attempts |-> Empty, byExec |-> Empty, byHost |-> Empty, nextAttempt |-> 0,
     results |-> Empty, byInstance |-> Empty,
     maxResults |-> maxResults, maxPerInstance |-> maxPerInstance]

UpsertJob(m, now, job) ==
    LET scoped == <<job.type, job.key>>
        old    == m.jobs[m.jobKeys[scoped]]
        new    == IF scoped \in DOMAIN m.jobKeys
                  THEN [job EXCEPT !.id = old.id, !.created = old.created,
                                   !.skipped = old.skipped, !.version = old.version + 1,
                                   !.updated = now]
                  ELSE [job EXCEPT !.version = 1, !.created = now, !.updated = now]
    IN  IF job = NoRecord THEN Answer(m, Fails("ErrNilJob"))
        ELSE IF scoped \notin DOMAIN m.jobKeys /\ job.id = ZeroID
             THEN Answer(m, Fails("ErrZeroJobUUID"))
        ELSE Answer([m EXCEPT !.jobs = Put(@, new.id, new),
                              !.jobKeys = Put(@, scoped, new.id)], Gives(new))

GetJob(m, id) ==
    Answer(m, IF id \in DOMAIN m.jobs THEN Gives(m.jobs[id]) ELSE Fails("ErrJobNotFound"))

GetJobByKey(m, type, key) ==
    Answer(m, IF <<type, key>> \in DOMAIN m.jobKeys
              THEN Gives(m.jobs[m.jobKeys[<<type, key>>]])
              ELSE Fails("ErrJobNotFound"))

DeleteJob(m, id) ==
    IF id \notin DOMAIN m.jobs THEN Answer(m, Says(FALSE))
    ELSE Answer([m EXCEPT !.jobs = Drop(@, id),
                          !.jobKeys = Drop(@, <<m.jobs[id].type, m.jobs[id].key>>)],
                Says(TRUE))

SetJobEnabled(m, now, id, enabled) ==
    IF id \notin DOMAIN m.jobs THEN Answer(m, Fails("ErrJobNotFound"))
    ELSE Answer([m EXCEPT !.jobs[id].enabled = enabled, !.jobs[id].version = @ + 1,
                          !.jobs[id].updated = now], Says(TRUE))

AddSkippedOccurrences(m, now, id, count) ==
    IF id \notin DOMAIN m.jobs THEN Answer(m, Fails("ErrJobNotFound"))
    ELSE Answer([m EXCEPT !.jobs[id].skipped = @ + count, !.jobs[id].updated = now],
                Says(TRUE))

ListEnabledJobs(m) ==
    Answer(m, Lists(SetToSortSeq({j \in {m.jobs[id] : id \in DOMAIN m.jobs} : j.enabled},
                                 ById)))

-----------------------------------------------------------------------------
CreateExecution(m, now, job, at, state, backfilled) ==
    LET key == <<job, at>>
        id  == m.nextExecution + 1
        new == NewExecution(id, job, at, state, backfilled, now)
    IN  IF job \notin DOMAIN m.jobs THEN Answer(m, Fails("ErrJobNotFound"))
        ELSE IF key \in DOMAIN m.occurrences
             THEN Answer(m, GivesOld(m.executions[m.occurrences[key]]))
        ELSE Answer([m EXCEPT !.nextExecution = id,
                              !.executions = Put(@, id, new),
                              !.occurrences = Put(@, key, id),
                              !.ordered = Append(@, id)], Gives(new))

GetExecution(m, id) ==
    Answer(m, IF id \in DOMAIN m.executions THEN Gives(m.executions[id])
                                            ELSE Fails("ErrExecutionNotFound"))

UpdateExecution(m, now, id, version, update) ==
    LET old     == m.executions[id]
        refusal == UpdateRefusal(old, version, update)
        new     == [Updated(old, update) EXCEPT !.version = old.version + 1, !.updated = now]
    IN  IF id \notin DOMAIN m.executions THEN Answer(m, Fails("ErrExecutionNotFound"))
        ELSE IF refusal # "none" THEN Answer(m, Fails(refusal))
        ELSE Answer([m EXCEPT !.executions[id] = new], Gives(new))

\* The stored executions in creation order.
InOrder(m) == [i \in DOMAIN m.ordered |-> m.executions[m.ordered[i]]]

DueExecutions(m, now, limit) ==
    LET due == SelectSeq(InOrder(m), LAMBDA e : executionDue(e, now))
    IN  Answer(m, Lists(Capped(SortSeq(due, BySchedule), limit)))

NextWakeAt(m) ==
    LET wakes == {executionWakeTime(e) :
                    e \in {f \in {m.executions[id] : id \in DOMAIN m.executions} :
                            executionWakes(f)}}
    IN  Answer(m, IF wakes = {} THEN Says(FALSE)
                  ELSE Gives([at |-> CHOOSE t \in wakes : \A u \in wakes : t <= u]))

ExecutionsInStates(m, states) ==
    Answer(m, Lists(SelectSeq(InOrder(m), LAMBDA e : e.state \in states)))

ExecutionsForJob(m, job) ==
    Answer(m, Lists(SelectSeq(InOrder(m), LAMBDA e : e.job = job)))

\* Broken variant: the asked execution counts as its own sibling.
CountsItself(m, job, exclude) ==
    Answer(m, Says(\E id \in DOMAIN m.executions :
                        m.executions[id].job = job /\ Leased(m.executions[id])))

HasActiveExecution(m, job, exclude) ==
    Answer(m, Says(\E id \in DOMAIN m.executions \ {exclude} :
                        m.executions[id].job = job /\ Leased(m.executions[id])))

HasPendingOccurrence(m, job) ==
    Answer(m, Says(\E id \in DOMAIN m.executions :
                        m.executions[id].job = job /\ ~Settled(m.executions[id])))

ExpiredLeases(m, now) ==
    Answer(m, Lists(SelectSeq(InOrder(m), LAMBDA e : Leased(e) /\ e.lease <= now)))

detachExecutionOrder(m, id) == RemoveFirst(m.ordered, id)

DeleteExecution(m, id) ==
    IF id \notin DOMAIN m.executions THEN Answer(m, Says(FALSE))
    ELSE Answer([m EXCEPT !.executions = Drop(@, id),
                          !.occurrences = Drop(@, <<m.executions[id].job,
                                                    m.executions[id].at>>),
                          !.ordered = detachExecutionOrder(m, id)], Says(TRUE))

ExpiredExecutions(m, before, limit) ==
    LET old == SelectSeq(InOrder(m), LAMBDA e : Settled(e) /\ e.updated < before)
    IN  Answer(m, Lists(Capped(SortSeq(old, ByUpdate), limit)))

-----------------------------------------------------------------------------
CreateAttempt(m, now, execution, number, instance) ==
    LET id  == m.nextAttempt + 1
        new == NewAttempt(id, execution, number, instance, now)
    IN  IF execution \notin DOMAIN m.executions
        THEN Answer(m, Fails("ErrExecutionNotFound"))
        ELSE Answer([m EXCEPT !.nextAttempt = id, !.attempts = Put(@, id, new),
                              !.byExec = Listed(@, execution, id),
                              !.byHost = Listed(@, instance, id)], Gives(new))

GetAttempt(m, id) ==
    Answer(m, IF id \in DOMAIN m.attempts THEN Gives(m.attempts[id])
                                          ELSE Fails("ErrAttemptNotFound"))

detachAttemptFromHost(m, id) == Unlisted(m.byHost, m.attempts[id].instance, id)
detachAttemptFromExec(m, id) == Unlisted(m.byExec, m.attempts[id].execution, id)

UpdateAttemptState(m, now, id, from, to, error) ==
    IF id \notin DOMAIN m.attempts THEN Answer(m, Fails("ErrAttemptNotFound"))
    ELSE IF from # {} /\ m.attempts[id].state \notin from THEN Answer(m, Says(FALSE))
    ELSE Answer([m EXCEPT !.attempts[id].state = to,
                          !.attempts[id].error = IF error # Nil THEN error ELSE @,
                          !.attempts[id].updated = now,
                          !.byHost = IF to \in AttemptTerminalStates
                                     THEN detachAttemptFromHost(m, id) ELSE @], Says(TRUE))

AttemptsIn(m, ids) == [i \in DOMAIN ids |-> m.attempts[ids[i]]]

AttemptsForExecution(m, execution) ==
    Answer(m, Lists(AttemptsIn(m, ListAt(m.byExec, execution))))

AttemptsOnInstance(m, instance, states) ==
    Answer(m, Lists(SelectSeq(AttemptsIn(m, ListAt(m.byHost, instance)),
                              LAMBDA a : states = {} \/ a.state \in states)))

DeleteAttempt(m, id) ==
    IF id \notin DOMAIN m.attempts THEN Answer(m, Says(FALSE))
    ELSE Answer([m EXCEPT !.attempts = Drop(@, id), !.byExec = detachAttemptFromExec(m, id),
                          !.byHost = detachAttemptFromHost(m, id)], Says(TRUE))

-----------------------------------------------------------------------------
detachResult(m, id) == Unlisted(m.byInstance, m.results[id].instance, id)

StoreResult(m, now, result) ==
    LET id    == result.id
        found == id \in DOMAIN m.results
        moved == found /\ m.results[id].instance # result.instance
        lists == IF moved THEN detachResult(m, id) ELSE m.byInstance
        kept  == IF found THEN [result EXCEPT !.attempts = m.results[id].attempts,
                                              !.created = m.results[id].created,
                                              !.sent = m.results[id].sent]
                          ELSE [result EXCEPT !.attempts = 0, !.created = now,
                                              !.sent = Never]
    IN  IF result = NoRecord THEN Answer(m, Fails("ErrNilResult"))
        ELSE IF ~found /\ Cardinality(DOMAIN m.results) >= m.maxResults
             THEN Answer(m, Says(FALSE))
        ELSE IF (~found \/ moved)
                 /\ Len(ListAt(m.byInstance, result.instance)) >= m.maxPerInstance
             THEN Answer(m, Says(FALSE))
        ELSE Answer([m EXCEPT !.results = Put(@, id, kept),
                              !.byInstance = IF ~found \/ moved
                                             THEN Listed(lists, result.instance, id)
                                             ELSE @], Says(TRUE))

DeleteResult(m, id) ==
    IF id \notin DOMAIN m.results THEN Answer(m, Says(FALSE))
    ELSE Answer([m EXCEPT !.results = Drop(@, id), !.byInstance = detachResult(m, id)],
                Says(TRUE))

ResultsForInstance(m, instance, limit) ==
    LET ids == Capped(ListAt(m.byInstance, instance), limit)
    IN  Answer(m, Lists([i \in DOMAIN ids |-> m.results[ids[i]]]))

MarkResultSent(m, id, at) ==
    IF id \notin DOMAIN m.results THEN Answer(m, Fails("ErrResultNotFound"))
    ELSE Answer([m EXCEPT !.results[id].attempts = @ + 1, !.results[id].sent = at],
                Says(TRUE))

ExpiredResults(m, before, limit) ==
    LET old == {r \in {m.results[id] : id \in DOMAIN m.results} : r.created < before}
    IN  Answer(m, Lists(Capped(SetToSortSeq(old, ByCreation), limit)))

CountResults(m) == Answer(m, Gives([count |-> Cardinality(DOMAIN m.results)]))

=============================================================================
