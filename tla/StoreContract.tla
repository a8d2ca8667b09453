--------------------------- MODULE StoreContract ---------------------------
(***************************************************************************)
(* What the store interface promises its callers, whichever store is        *)
(* behind it: the records alone, and calls that take effect at one instant  *)
(* between their invocation and their answer.  A call whose connection      *)
(* fails may take effect without its answer being seen, and the driver may  *)
(* then send it again.  A listing takes no effect; what it may contain is a *)
(* matter of the records met while it ran and is stated where they are.     *)
(***************************************************************************)
EXTENDS StoreRecords

CONSTANTS Clients,      \* the processes that call the store
          Ids,          \* the identifiers executions and attempts may be given
          ListingCalls  \* the names of the calls that only list

VARIABLES records,      \* jobs, executions, attempts and results by identifier
          minted,       \* the identifiers given out, per kind
          clock,
          asked         \* what each client waits for or was answered, and the
                        \* identifiers its call may still write: its own

contractVars == <<records, minted, clock, asked>>

NoCall == [call |-> [op |-> "none"], since |-> Never, reply |-> Unanswered, own |-> {}]

-----------------------------------------------------------------------------
Unchanged(reply) == [st |-> records, ids |-> {}, re |-> reply]
\* A call that keeps being overtaken gives up.
GivesUp == [st |-> records, ids |-> {}, re |-> Fails("ErrConcurrentUpdate")]
Becomes(store, reply) == [st |-> store, ids |-> {}, re |-> reply]

UpsertJob(job, now) ==
    LET same == {id \in DOMAIN records.jobs : /\ records.jobs[id].type = job.type
                                              /\ records.jobs[id].key = job.key}
        Kept(old) == [job EXCEPT !.id = old.id, !.created = old.created,
                                 !.skipped = old.skipped, !.version = old.version + 1,
                                 !.updated = now]
        fresh == [job EXCEPT !.version = 1, !.created = now, !.updated = now]
    IN  {GivesUp} \cup
        IF same = {} THEN {Becomes([records EXCEPT !.jobs = Put(@, job.id, fresh)],
                                   Gives(fresh))}
        ELSE {Becomes([records EXCEPT !.jobs[id] = Kept(records.jobs[id])],
                      Gives(Kept(records.jobs[id]))) : id \in same}

UpdateJob(id, Change(_)) ==
    {IF id \in DOMAIN records.jobs
     THEN Becomes([records EXCEPT !.jobs[id] = Change(@)], Says(TRUE))
     ELSE Unchanged(Fails("ErrJobNotFound"))}

\* A key lookup may miss a key that changed hands while it ran.
GetJobByKey(type, key) ==
    LET same == {j \in {records.jobs[id] : id \in DOMAIN records.jobs} :
                    j.type = type /\ j.key = key}
    IN  {Unchanged(Fails("ErrJobNotFound"))} \cup {Unchanged(Gives(j)) : j \in same}

\* A new occurrence gets an identifier never given out before.  A repeated one
\* answers its execution, or that the execution was deleted meanwhile.
CreateExecution(job, at, now) ==
    LET holds == {e \in {records.executions[id] : id \in DOMAIN records.executions} :
                    e.job = job /\ e.at = at}
        New(id) == NewExecution(id, job, at, "Scheduled", FALSE, now)
    IN  {Unchanged(Fails("ErrExecutionNotFound"))}
        \cup {Unchanged(GivesOld(e)) : e \in holds}
        \cup {Unchanged(Fails("ErrJobNotFound")) : j \in {job} \ DOMAIN records.jobs}
        \cup {[st |-> [records EXCEPT !.executions = Put(@, id, New(id))],
               ids |-> {<<"execution", id>>}, re |-> Gives(New(id))] :
                 id \in IF holds = {} /\ job \in DOMAIN records.jobs THEN Ids ELSE {}}

UpdateExecution(id, version, update, now) ==
    LET old     == records.executions[id]
        refusal == UpdateRefusal(old, version, update)
        new     == [Updated(old, update) EXCEPT !.version = version + 1, !.updated = now]
    IN  {IF id \notin DOMAIN records.executions
         THEN Unchanged(Fails("ErrExecutionNotFound"))
         ELSE IF refusal # "none" THEN Unchanged(Fails(refusal))
         ELSE Becomes([records EXCEPT !.executions[id] = new], Gives(new))}

CreateAttempt(execution, number, instance, now) ==
    LET New(id) == NewAttempt(id, execution, number, instance, now)
    IN  IF execution \notin DOMAIN records.executions
        THEN {Unchanged(Fails("ErrExecutionNotFound"))}
        ELSE {[st |-> [records EXCEPT !.attempts = Put(@, id, New(id))],
               ids |-> {<<"attempt", id>>}, re |-> Gives(New(id))] : id \in Ids}

UpdateAttemptState(id, from, to, error, now) ==
    {IF id \notin DOMAIN records.attempts THEN Unchanged(Fails("ErrAttemptNotFound"))
     ELSE IF from # {} /\ records.attempts[id].state \notin from THEN Unchanged(Says(FALSE))
     ELSE Becomes([records EXCEPT !.attempts[id].state = to, !.attempts[id].updated = now,
                                  !.attempts[id].error = IF error # Nil THEN error ELSE @],
                  Says(TRUE))}

\* A result replaces the one held for its job but keeps its counters; a new
\* one, or one that moves, may be refused by the caps.
StoreResult(result, now) ==
    LET held == result.id \in DOMAIN records.results
        old  == records.results[result.id]
        new  == IF held THEN [result EXCEPT !.attempts = old.attempts, !.sent = old.sent,
                                            !.created = old.created]
                        ELSE [result EXCEPT !.created = now]
    IN  {GivesUp, Becomes([records EXCEPT !.results = Put(@, result.id, new)], Says(TRUE))}
        \cup (IF held /\ old.instance = result.instance THEN {} ELSE {Unchanged(Says(FALSE))})

MarkResultSent(id, at) ==
    {IF id \in DOMAIN records.results
     THEN Becomes([records EXCEPT !.results[id].attempts = @ + 1, !.results[id].sent = at],
                  Says(TRUE))
     ELSE Unchanged(Fails("ErrResultNotFound"))}

Delete(kind, id) ==
    {IF id \in DOMAIN records[kind]
     THEN Becomes([records EXCEPT ![kind] = Drop(@, id)], Says(TRUE))
     ELSE Unchanged(Says(FALSE))}

\* Every effect and answer call c may have at instant now.
Outcomes(c, now) ==
    CASE c.op = "UpsertJob" -> UpsertJob(c.job, now)
      [] c.op = "SetJobEnabled" ->
            UpdateJob(c.id, LAMBDA j : [j EXCEPT !.enabled = c.enabled, !.updated = now,
                                                 !.version = @ + 1])
      [] c.op = "AddSkippedOccurrences" ->
            UpdateJob(c.id, LAMBDA j : [j EXCEPT !.skipped = @ + c.count, !.updated = now])
      [] c.op = "GetJobByKey" -> GetJobByKey(c.type, c.key)
      [] c.op = "DeleteJob" -> Delete("jobs", c.id)
      [] c.op = "CreateExecution" -> CreateExecution(c.job, c.at, now)
      [] c.op = "UpdateExecution" -> UpdateExecution(c.id, c.version, c.update, now)
      [] c.op = "DeleteExecution" -> Delete("executions", c.id)
      [] c.op = "CreateAttempt" -> CreateAttempt(c.execution, c.number, c.instance, now)
      [] c.op = "UpdateAttemptState" ->
            UpdateAttemptState(c.id, c.from, c.to, c.error, now)
      [] c.op = "DeleteAttempt" -> Delete("attempts", c.id)
      [] c.op = "StoreResult" -> StoreResult(c.result, now)
      [] c.op = "MarkResultSent" -> MarkResultSent(c.id, c.at)
      [] c.op = "DeleteResult" -> Delete("results", c.id) \cup {GivesUp}

-----------------------------------------------------------------------------
Waits(p) == asked[p].call.op # "none" /\ asked[p].reply = Unanswered

Ask(p) ==
    /\ asked[p].call.op = "none"
    /\ asked'[p].since = clock
    /\ asked'[p].reply = Unanswered
    /\ UNCHANGED <<records, minted, clock>>

\* The call takes effect, and its answer is known or lost on the way.
Perform(p) ==
    /\ Waits(p)
    /\ asked[p].call.op \notin ListingCalls
    /\ \E now \in asked[p].since .. clock :
        \E o \in Outcomes(asked[p].call, now) :
            /\ o.ids \cap minted \subseteq asked[p].own
            /\ asked'[p].own \subseteq asked[p].own \cup o.ids
            /\ records' = o.st
            /\ minted' = minted \cup o.ids
            /\ asked'[p].call = asked[p].call
            /\ asked'[p].reply \in {o.re, Unanswered, Fails("transport")}
    /\ UNCHANGED clock

Fail(p) ==
    /\ Waits(p)
    /\ asked' = [asked EXCEPT ![p].reply = Fails("transport")]
    /\ UNCHANGED <<records, minted, clock>>

List(p) ==
    /\ Waits(p)
    /\ asked[p].call.op \in ListingCalls
    /\ asked'[p].call = asked[p].call
    /\ asked'[p].reply # Unanswered
    /\ UNCHANGED <<records, minted, clock>>

Take(p) ==
    /\ asked[p].reply # Unanswered
    /\ asked' = [asked EXCEPT ![p] = NoCall]
    /\ UNCHANGED <<records, minted, clock>>

Others(p) == \A q \in Clients \ {p} : asked'[q] = asked[q]

ContractNext ==
    \/ \E p \in Clients : Others(p) /\ (Ask(p) \/ Perform(p) \/ Fail(p) \/ List(p) \/ Take(p))
    \/ clock' = clock + 1 /\ UNCHANGED <<records, minted, asked>>

ContractInit ==
    /\ minted = {<<"execution", id>> : id \in DOMAIN records.executions}
                \cup {<<"attempt", id>> : id \in DOMAIN records.attempts}
    /\ clock = 1
    /\ asked = [p \in Clients |-> NoCall]

Contract == ContractInit /\ [][ContractNext]_contractVars

=============================================================================
