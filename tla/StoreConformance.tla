-------------------------- MODULE StoreConformance --------------------------
(***************************************************************************)
(* The conformance suite of the store contract: every subtest as the calls  *)
(* it makes and what it demands of each answer, run against the models of   *)
(* both stores.  A subtest starts from an empty store; the store's clock    *)
(* is the number of the step.  Instants of the suite are counted from base. *)
(***************************************************************************)
EXTENDS StoreCalls

ASSUME ScaleAssumption == NanosPerMicro \in Nat \ {0}

VARIABLES suite,    \* the subtest that runs: its store, caps and calls
          at,       \* how many of its calls were made
          sut,      \* the store under test
          verdict   \* whether every answer so far was the one demanded

suiteVars == <<suite, at, sut, verdict>>

base == 20
second == 1
minute == 4
hour == 15
unlimited == 0
noExclusion == ZeroID
unknown == 404
worker == "worker"
mailer == "mailer"
exec1 == "exec-1"
exec2 == "exec-2"

-----------------------------------------------------------------------------
(* Demands.  A demand names only what its subtest looks at.                 *)

Meets(reply, want) ==
    /\ reply.err = (IF "err" \in DOMAIN want THEN want.err ELSE "none")
    /\ "ok" \in DOMAIN want => reply.ok = want.ok
    /\ "rec" \in DOMAIN want => \A f \in DOMAIN want.rec : reply.rec[f] = want.rec[f]
    /\ "ids" \in DOMAIN want =>
            [i \in DOMAIN reply.list |-> reply.list[i].id] = want.ids
    /\ "head" \in DOMAIN want => \A f \in DOMAIN want.head : reply.list[1][f] = want.head[f]

requireNoError(call) == <<call, Empty>>
requireSentinel(call, err) == <<call, [err |-> err]>>
Is(call, ok) == <<call, [ok |-> ok]>>
Has(call, rec) == <<call, [rec |-> rec]>>
Shows(call, ids) == <<call, [ids |-> ids]>>

AJob(id) == requireNoError(createJob(id))
AnExecution(job, time) == Is(createExecution(job, time), TRUE)
driveState(id, version, states) ==
    [i \in DOMAIN states |->
        requireNoError(updateExecution(id, version + i - 1, [state |-> states[i]]))]
Keeps(id, instance, ok) == Is(storeResult(ResultOf(id, instance, TRUE)), ok)

-----------------------------------------------------------------------------
(* Jobs. *)

JobUpsertCases == {
    << Has(createJob(7), [id |-> 7, version |-> 1, created |-> 1]) >>,
    << requireSentinel(upsertJob(NoRecord), "ErrNilJob") >>,
    << requireSentinel(upsertJob(newJob(ZeroID)), "ErrZeroJobUUID") >>,
    << AJob(7), requireNoError(addSkipped(7, 7)),
       Has(upsertJob([newJob(7) EXCEPT !.id = 8, !.enabled = FALSE]),
           [id |-> 7, version |-> 2, created |-> 1, skipped |-> 7, enabled |-> FALSE]) >> }

Foreign == JobOf(8, mailer, 7, TRUE)

JobLookupCases == {
    << AJob(7), Has(upsertJob(Foreign), [id |-> 8, version |-> 1]),
       Has(getJobByKey(worker, 7), [id |-> 7]), Has(getJobByKey(mailer, 7), [id |-> 8]) >>,
    << AJob(7), Has(getJob(7), [id |-> 7, key |-> 7]) >>,
    << requireSentinel(getJob(unknown), "ErrJobNotFound") >>,
    << AJob(7), Has(getJobByKey(worker, 7), [id |-> 7]) >>,
    << AJob(7), requireSentinel(getJobByKey(mailer, 7), "ErrJobNotFound") >> }

JobDeleteCases == {
    << AJob(7), Is(deleteJob(7), TRUE), requireSentinel(getJob(7), "ErrJobNotFound"),
       requireSentinel(getJobByKey(worker, 7), "ErrJobNotFound") >>,
    << AJob(7), Is(deleteJob(7), TRUE), Is(deleteJob(7), FALSE) >>,
    << AJob(7), requireNoError(upsertJob(Foreign)), Is(deleteJob(7), TRUE),
       Has(getJobByKey(mailer, 7), [id |-> 8]),
       requireSentinel(getJobByKey(worker, 7), "ErrJobNotFound") >>,
    << AJob(7), Is(deleteJob(7), TRUE),
       Has(upsertJob([newJob(7) EXCEPT !.id = 9]), [id |-> 9, version |-> 1]) >> }

JobFlagCases == {
    << AJob(7), requireNoError(setJobEnabled(7, FALSE)), Has(getJob(7), [enabled |-> FALSE]),
       requireNoError(setJobEnabled(7, TRUE)), Has(getJob(7), [enabled |-> TRUE]) >>,
    << requireSentinel(setJobEnabled(unknown, TRUE), "ErrJobNotFound") >>,
    << AJob(7), requireNoError(addSkipped(7, 2)), requireNoError(addSkipped(7, 3)),
       Has(getJob(7), [skipped |-> 5]) >>,
    << requireSentinel(addSkipped(unknown, 1), "ErrJobNotFound") >>,
    << AJob(8), AJob(7), requireNoError(upsertJob([newJob(9) EXCEPT !.enabled = FALSE])),
       Shows(listEnabledJobs, <<7, 8>>) >> }

-----------------------------------------------------------------------------
(* Executions. *)

ExecutionCreateCases == {
    << AJob(7), Has(createExecution(7, base + minute),
                    [job |-> 7, at |-> base + minute, state |-> "Scheduled", version |-> 1]),
       Has(getExecution(1), [job |-> 7]) >>,
    << AJob(7), AnExecution(7, base + minute),
       <<createExecution(7, base + minute), [ok |-> FALSE, rec |-> [id |-> 1]]>> >>,
    << requireSentinel(createExecution(unknown, base), "ErrJobNotFound") >>,
    << requireSentinel(getExecution(unknown), "ErrExecutionNotFound") >> }

ExecutionUpdateCases == {
    << AJob(7), AnExecution(7, base),
       requireSentinel(updateExecution(1, 2, [state |-> "Ready"]), "ErrVersionConflict") >>,
    << AJob(7), AnExecution(7, base) >> \o driveState(1, 1, <<"Cancelled">>)
    \o << requireSentinel(updateExecution(1, 2, [state |-> "Ready"]), "ErrTerminalState") >>,
    << AJob(7), AnExecution(7, base),
       requireSentinel(updateExecution(1, 1, [state |-> "Running"]),
                       "ErrIllegalTransition") >>,
    << AJob(7), AnExecution(7, base),
       requireNoError(updateExecution(1, 1, [next |-> base + minute])),
       Has(updateExecution(1, 2, [error |-> "boom"]),
           [next |-> base + minute, error |-> "boom", version |-> 3]) >> }

ToRunning == <<"Dispatching", "Running">>

\* One execution per sweep: created, then driven through the sweep's states.
Sweeps == << <<"WaitingExecutor">>, <<"WaitingCompatible">>, <<"WaitingLabel">>,
             <<"Dispatching">>, ToRunning, ToRunning \o <<"Succeeded">>,
             ToRunning \o <<"Failed">>, <<"Cancelled">>, <<"Skipped">> >>

DueCases == {
    << AJob(7), AnExecution(7, base - minute), AnExecution(7, base),
       AnExecution(7, base + minute), Shows(dueExecutions(base, unlimited), <<1, 2>>) >>,
    << AJob(7), AnExecution(7, base - 4 * minute),
       requireNoError(updateExecution(1, 1, [state |-> "Ready", next |-> base + hour])),
       AnExecution(7, base - 3 * minute),
       requireNoError(updateExecution(2, 1, [state |-> "Ready", next |-> base - second])),
       AnExecution(7, base - 2 * minute) >> \o driveState(3, 1, ToRunning)
    \o << requireNoError(updateExecution(3, 3, [state |-> "RetryWait",
                                                next |-> base + hour])),
          AnExecution(7, base - minute) >> \o driveState(4, 1, ToRunning)
    \o << requireNoError(updateExecution(4, 3, [state |-> "RetryWait",
                                                next |-> base - second])),
          Shows(dueExecutions(base, unlimited), <<2, 4>>) >>,
    << AJob(7) >>
    \o FlattenSeq([i \in DOMAIN Sweeps |->
                    << AnExecution(7, base - hour + (i - 1) * second) >>
                    \o driveState(i, 1, Sweeps[i])])
    \o << Shows(dueExecutions(base, unlimited), <<>>) >> }

WakeCases == {
    << AJob(7), AJob(8), AJob(9), AnExecution(7, base - 2 * minute),
       AnExecution(8, base - 3 * minute), AnExecution(9, base - 2 * minute),
       Shows(dueExecutions(base, unlimited), <<2, 1, 3>>),
       Shows(dueExecutions(base, 2), <<2, 1>>) >>,
    << Is(nextWakeAt, FALSE) >>,
    << AJob(7), AnExecution(7, base + 3 * minute), AnExecution(7, base - minute),
       requireNoError(updateExecution(2, 1, [state |-> "Ready", next |-> base + minute])),
       AnExecution(7, base - 2 * minute) >> \o driveState(3, 1, ToRunning)
    \o << requireNoError(updateExecution(3, 3, [state |-> "RetryWait",
                                                next |-> base + 2 * minute])),
          <<nextWakeAt, [ok |-> TRUE, rec |-> [at |-> base + minute]]>> >>,
    << AJob(7), AnExecution(7, base) >> \o driveState(1, 1, <<"Cancelled">>)
    \o << Is(nextWakeAt, FALSE) >> }

ParkedCases == {
    << AJob(7), AnExecution(7, base - hour),
       requireNoError(updateExecution(1, 1, [state |-> "WaitingLabel",
                                             next |-> base - minute])),
       Shows(dueExecutions(base, unlimited), <<>>), Is(nextWakeAt, FALSE) >>,
    << AJob(7), AnExecution(7, base - hour),
       requireNoError(updateExecution(1, 1, [state |-> "WaitingLabel"])),
       Has(updateExecution(1, 2, [state |-> "Ready"]), [state |-> "Ready"]),
       Shows(dueExecutions(base, unlimited), <<1>>) >>,
    << AJob(7), AnExecution(7, base), AnExecution(7, base + second) >>
    \o driveState(2, 1, <<"Ready">>) \o << AnExecution(7, base + 2 * second) >>
    \o driveState(3, 1, <<"Dispatching">>) \o << AnExecution(7, base + 3 * second) >>
    \o driveState(4, 1, ToRunning)
    \o << Shows(executionsInStates({"Ready", "Running"}), <<2, 4>>) >>,
    << AJob(7), AJob(8), AnExecution(7, base), AnExecution(8, base),
       AnExecution(7, base + second), Shows(executionsForJob(7), <<1, 3>>) >> }

ActivityCases == {
    << AJob(7), AJob(8), AnExecution(7, base - 2 * minute) >> \o driveState(1, 1, ToRunning)
    \o << AnExecution(7, base - minute), Is(hasActiveExecution(7, 1), FALSE),
          Is(hasActiveExecution(7, 2), TRUE), Is(hasActiveExecution(8, noExclusion), FALSE) >>,
    << AJob(7), AnExecution(7, base - minute) >> \o driveState(1, 1, <<"Cancelled">>)
    \o << Is(hasPendingOccurrence(7), FALSE), AnExecution(7, base + minute),
          Is(hasPendingOccurrence(7), TRUE) >>,
    << AJob(7), AnExecution(7, base - 4 * minute),
       requireNoError(updateExecution(1, 1, [state |-> "Dispatching",
                                             lease |-> base - second])),
       AnExecution(7, base - 3 * minute) >> \o driveState(2, 1, <<"Dispatching">>)
    \o << requireNoError(updateExecution(2, 2, [state |-> "Running", lease |-> base])),
          AnExecution(7, base - 2 * minute) >> \o driveState(3, 1, <<"Dispatching">>)
    \o << requireNoError(updateExecution(3, 2, [state |-> "Running",
                                                lease |-> base + minute])),
          AnExecution(7, base - minute), Shows(expiredLeases(base), <<1, 2>>) >> }

ACancelled == << AJob(7), AnExecution(7, base) >> \o driveState(1, 1, <<"Cancelled">>)

ExpiryCases == {
    ACancelled \o << Shows(expiredExecutions(3 + second, unlimited), <<1>>),
                     Shows(expiredExecutions(3, unlimited), <<>>) >>,
    << AJob(7), AnExecution(7, base), Shows(expiredExecutions(base + hour, unlimited), <<>>) >>,
    ACancelled \o << Is(deleteExecution(1), TRUE),
                     requireSentinel(getExecution(1), "ErrExecutionNotFound") >>,
    ACancelled \o << Is(deleteExecution(1), TRUE), Is(deleteExecution(1), FALSE) >>,
    << Is(deleteExecution(unknown), FALSE) >> }

RecreateCases == {
    << AJob(7), AnExecution(7, base), requireNoError(createAttempt(1, 1, exec1)) >>
    \o driveState(1, 1, ToRunning \o <<"Failed">>)
    \o << Is(deleteExecution(1), TRUE), Has(getAttempt(1), [execution |-> 1]) >>,
    ACancelled \o << Is(deleteExecution(1), TRUE),
                     <<createExecution(7, base), [ok |-> TRUE, rec |-> [id |-> 2]]>> >> }

-----------------------------------------------------------------------------
(* Attempts. *)

AnAttempt == << AJob(7), AnExecution(7, base), requireNoError(createAttempt(1, 1, exec1)) >>

AttemptCreateCases == {
    << AJob(7), AnExecution(7, base),
       Has(createAttempt(1, 1, exec1), [execution |-> 1, number |-> 1, instance |-> exec1,
                                        state |-> "Dispatched"]),
       Has(getAttempt(1), [execution |-> 1]) >>,
    << requireSentinel(createAttempt(unknown, 1, exec1), "ErrExecutionNotFound") >>,
    << requireSentinel(getAttempt(unknown), "ErrAttemptNotFound") >>,
    AnAttempt \o << Is(updateAttemptState(1, {"Accepted"}, "Succeeded", Nil), FALSE),
                    Has(getAttempt(1), [state |-> "Dispatched"]) >> }

AttemptUpdateCases == {
    AnAttempt \o << Is(updateAttemptState(1, {"Dispatched"}, "Accepted", Nil), TRUE),
                    Is(updateAttemptState(1, {}, "FunctionFailed", "exploded"), TRUE),
                    Has(getAttempt(1), [state |-> "FunctionFailed", error |-> "exploded"]) >>,
    << requireSentinel(updateAttemptState(unknown, {}, "Accepted", Nil),
                       "ErrAttemptNotFound") >>,
    << AJob(7), AnExecution(7, base), AnExecution(7, base + second),
       requireNoError(createAttempt(1, 1, exec1)), requireNoError(createAttempt(2, 1, exec2)),
       requireNoError(createAttempt(1, 2, exec1)),
       Shows(attemptsForExecution(1), <<1, 3>>), Shows(attemptsForExecution(2), <<2>>) >> }

Open == {"Dispatched", "Accepted"}
Terminals == <<"Succeeded", "FunctionFailed", "InfraFailed", "Lost", "Cancelled">>

AttemptInstanceCases == {
    AnAttempt \o << requireNoError(createAttempt(1, 2, exec1)),
                    requireNoError(createAttempt(1, 1, exec2)),
                    Is(updateAttemptState(2, {}, "Accepted", Nil), TRUE),
                    Shows(attemptsOnInstance(exec1, {}), <<1, 2>>),
                    Shows(attemptsOnInstance(exec1, {"Dispatched"}), <<1>>),
                    Shows(attemptsOnInstance(exec2, {"Accepted"}), <<>>) >>,
    << AJob(7) >>
    \o FlattenSeq([i \in DOMAIN Terminals |->
        << AnExecution(7, base + (i - 1) * second), requireNoError(createAttempt(i, 1, exec1)),
           Is(updateAttemptState(i, {}, Terminals[i], Nil), TRUE),
           Shows(attemptsOnInstance(exec1, {}), <<>>),
           Shows(attemptsOnInstance(exec1, Open), <<>>),
           Has(getAttempt(i), [state |-> Terminals[i]]) >>]) }

AttemptDeleteCases == {
    AnAttempt \o << Is(updateAttemptState(1, {"Dispatched"}, "Accepted", Nil), TRUE),
                    Shows(attemptsOnInstance(exec1, {}), <<1>>),
                    Shows(attemptsOnInstance(exec1, Open), <<1>>) >>,
    AnAttempt \o << Is(deleteAttempt(1), TRUE),
                    requireSentinel(getAttempt(1), "ErrAttemptNotFound") >>,
    AnAttempt \o << Is(deleteAttempt(1), TRUE), Is(deleteAttempt(1), FALSE) >>,
    << Is(deleteAttempt(unknown), FALSE) >>,
    AnAttempt \o << requireNoError(createAttempt(1, 2, exec1)), Is(deleteAttempt(1), TRUE),
                    Shows(attemptsForExecution(1), <<2>>),
                    Shows(attemptsOnInstance(exec1, {}), <<2>>) >> }

-----------------------------------------------------------------------------
(* Results. *)

HeldFor(instance) == resultsForInstance(instance, unlimited)

ResultStoreCases == {
    << Keeps(7, exec1, TRUE),
       <<HeldFor(exec1), [ids |-> <<7>>, head |-> [success |-> TRUE, attempts |-> 0]]>> >>,
    << requireSentinel(storeResult(NoRecord), "ErrNilResult") >>,
    << Keeps(7, exec1, TRUE), requireNoError(markResultSent(7, base + minute)),
       Shows(HeldFor(exec1), <<7>>), Is(storeResult(ResultOf(7, exec1, FALSE)), TRUE),
       <<HeldFor(exec1), [ids |-> <<7>>, head |-> [success |-> FALSE, attempts |-> 1,
                                                created |-> 1, sent |-> base + minute]]>> >> }

ResultListCases == {
    << Keeps(7, exec1, TRUE), Keeps(7, exec2, TRUE), Shows(HeldFor(exec1), <<>>),
       Shows(HeldFor(exec2), <<7>>) >>,
    << Keeps(7, exec1, TRUE), Keeps(8, exec1, TRUE), Keeps(9, exec1, TRUE),
       Is(deleteResult(8), TRUE), Is(deleteResult(8), FALSE), Shows(HeldFor(exec1), <<7, 9>>) >>,
    << Keeps(7, exec1, TRUE), Keeps(8, exec1, TRUE), Keeps(9, exec1, TRUE),
       Keeps(10, exec2, TRUE), Shows(HeldFor(exec1), <<7, 8, 9>>),
       Shows(resultsForInstance(exec1, 2), <<7, 8>>), Shows(HeldFor(exec2), <<10>>) >> }

ResultExpiryCases == {
    << Keeps(7, exec1, TRUE), requireNoError(markResultSent(7, base + minute)),
       <<HeldFor(exec1), [ids |-> <<7>>, head |-> [attempts |-> 1, sent |-> base + minute]]>>,
       requireSentinel(markResultSent(unknown, base + minute), "ErrResultNotFound") >>,
    << Keeps(7, exec1, TRUE), Keeps(8, exec2, TRUE), Shows(HeldFor(exec1), <<7>>),
       Shows(HeldFor(exec2), <<8>>), Shows(expiredResults(2 + second, unlimited), <<7, 8>>),
       Shows(expiredResults(2 + second, 1), <<7>>) >>,
    << Keeps(7, exec1, TRUE), Shows(HeldFor(exec1), <<7>>),
       Shows(expiredResults(1, unlimited), <<>>) >>,
    << Keeps(7, exec1, TRUE), Keeps(8, exec2, TRUE), Has(countResults, [count |-> 2]),
       Is(deleteResult(7), TRUE), Has(countResults, [count |-> 1]) >> }

PerInstanceCases == {
    [cap |-> 2, calls |-> << Keeps(7, exec1, TRUE), Keeps(8, exec1, TRUE),
                             Keeps(9, exec1, FALSE), Has(countResults, [count |-> 2]) >>],
    [cap |-> 1, calls |-> << Keeps(7, exec1, TRUE), Keeps(8, exec1, FALSE),
                             Keeps(9, exec2, TRUE), Has(countResults, [count |-> 2]) >>],
    [cap |-> 1, calls |-> << Keeps(7, exec1, TRUE), Keeps(7, exec1, TRUE),
                             Has(countResults, [count |-> 1]) >>] }

TotalCases == {
    << Keeps(7, exec1, TRUE), Keeps(8, exec2, FALSE), Has(countResults, [count |-> 1]) >> }

-----------------------------------------------------------------------------
(* Both stores run every subtest. *)

DefaultCap == 100

Uncapped ==
    UNION {JobUpsertCases, JobLookupCases, JobDeleteCases, JobFlagCases,
           ExecutionCreateCases, ExecutionUpdateCases, DueCases, WakeCases, ParkedCases,
           ActivityCases, ExpiryCases, RecreateCases, AttemptCreateCases,
           AttemptUpdateCases, AttemptInstanceCases, AttemptDeleteCases,
           ResultStoreCases, ResultListCases, ResultExpiryCases}

TestStore ==
    {[total |-> DefaultCap, each |-> DefaultCap, calls |-> calls] : calls \in Uncapped}
    \cup {[total |-> DefaultCap, each |-> c.cap, calls |-> c.calls] : c \in PerInstanceCases}
    \cup {[total |-> 1, each |-> DefaultCap, calls |-> calls] : calls \in TotalCases}

factory(kind, total, each) ==
    IF kind = "memory" THEN Mem!NewStore(total, each) ELSE Red!NewStore(total, each)

Do(kind, store, now, call) ==
    IF kind = "memory" THEN MemDo(store, now, call) ELSE RedisDo(store, now, call)

SuiteInit ==
    /\ \E test \in TestStore, kind \in {"memory", "redis"} :
            suite = [kind |-> kind, calls |-> test.calls, total |-> test.total,
                     each |-> test.each]
    /\ at = 0
    /\ sut = factory(suite.kind, suite.total, suite.each)
    /\ verdict = TRUE

Step ==
    /\ at < Len(suite.calls)
    /\ LET step == suite.calls[at + 1]
           done == Do(suite.kind, sut, at + 1, step[1])
       IN  /\ sut' = done.st
           /\ verdict' = (verdict /\ Meets(done.re, step[2]))
    /\ at' = at + 1
    /\ UNCHANGED suite

\* The subtest is over.
Over == at = Len(suite.calls) /\ UNCHANGED suiteVars

SuiteNext == Step \/ Over

\* Both stores give every answer the conformance suite of the store contract
\* demands, subtest by subtest: identity and counters that survive an upsert,
\* occurrences that deduplicate, refused transitions, the order and the caps
\* of every listing, and the instants a listing includes or leaves out.
SuitePasses == verdict

=============================================================================
