---------------------------- MODULE StoreClients ----------------------------
(***************************************************************************)
(* Several callers of one store: the goroutines of a scheduler, or several  *)
(* schedulers, whose calls overlap.  The memory store serves a call under   *)
(* its lock.  A call of the Redis store goes through round trips that other *)
(* calls come between, that may fail, and whose answer may be lost after    *)
(* the server has run the script.  Each client works on one repository at a *)
(* time, the focus.                                                         *)
(***************************************************************************)
EXTENDS StoreCalls

CONSTANTS Clients,
          Kinds,            \* the stores to check: memory, redis
          Foci,             \* the repositories to work on
          MaxCalls,         \* bound on the calls made
          MaxClock,         \* bound on the clock
          MaxLost,          \* bound on the answers and requests lost
          ResultCap,        \* results one instance may hold
          ConflictRetryLimit

ASSUME ClientsAssumption ==
    /\ NanosPerMicro \in Nat \ {0}
    /\ ConflictRetryLimit \in Nat \ {0}
    /\ Foci \subseteq {"jobs", "executions", "attempts", "results"}

VARIABLES kind,     \* which store this is
          focus,    \* which repository the clients work on
          st,       \* the store
          clock,
          flight,   \* each client's call and how far it has come
          calls,    \* how many calls were made
          lost,     \* how many messages were lost
          born      \* every execution and attempt identifier that named a record

vars == <<kind, focus, st, clock, flight, calls, lost, born>>

Idle == [stage |-> "idle", call |-> [op |-> "none"], since |-> Never, now |-> Never,
         seen |-> ZeroID, order |-> <<>>, left |-> {}, got |-> {}, tries |-> 0, reply |-> Unanswered,
         must |-> {}, may |-> {}]

-----------------------------------------------------------------------------
(* The records behind either store, and its indexes. *)

Decode(f, From(_, _)) == [id \in DOMAIN f |-> From(id, f[id])]

Records(s) ==
    IF kind = "memory"
    THEN [jobs |-> s.jobs, executions |-> s.executions, attempts |-> s.attempts,
          results |-> s.results]
    ELSE [jobs |-> Decode(s.jobs, Red!jobFromHash),
          executions |-> Decode(s.executions, Red!executionFromHash),
          attempts |-> Decode(s.attempts, Red!attemptFromHash),
          results |-> Decode(s.results, Red!resultFromHash)]

Values(f) == {f[x] : x \in DOMAIN f}
IdsOf(S) == {x.id : x \in S}

\* The identifiers of the records listing c is about.
Matching(s, c) ==
    LET r == Records(s)
        e == Values(r.executions)
    IN  IdsOf(
        CASE c.op = "ListEnabledJobs" -> {j \in Values(r.jobs) : j.enabled}
          [] c.op = "DueExecutions" -> {x \in e : executionDue(x, c.now)}
          [] c.op = "NextWakeAt" -> {x \in e : executionWakes(x)}
          [] c.op = "ExecutionsInStates" -> {x \in e : x.state \in c.states}
          [] c.op = "ExpiredLeases" -> {x \in e : Leased(x) /\ x.lease <= c.now}
          [] c.op = "ExpiredExecutions" -> {x \in e : Settled(x) /\ x.updated < c.before}
          [] c.op = "AttemptsOnInstance" ->
                {a \in Values(r.attempts) : /\ a.instance = c.instance
                                            /\ a.state \notin AttemptTerminalStates
                                            /\ c.states = {} \/ a.state \in c.states}
          [] c.op = "AttemptsForExecution" ->
                {a \in Values(r.attempts) : a.execution = c.execution}
          [] c.op = "ResultsForInstance" ->
                {x \in Values(r.results) : x.instance = c.instance}
          [] c.op = "ExpiredResults" -> {x \in Values(r.results) : x.created < c.before}
          [] OTHER -> {})

-----------------------------------------------------------------------------
(* What the clients ask for. *)

UpdatesOf(id) == {updateExecution(id, v, [state |-> s]) : v \in 1 .. 2,
                                                          s \in {"Dispatching", "Cancelled"}}

Asks ==
    CASE focus = "jobs" ->
            {createJob(2), upsertJob([newJob(1) EXCEPT !.id = 3, !.enabled = FALSE]),
             upsertJob([newJob(2) EXCEPT !.id = 4]), setJobEnabled(1, FALSE), addSkipped(1, 1),
             deleteJob(1), getJobByKey("worker", 1), listEnabledJobs}
      [] focus = "executions" ->
            UpdatesOf(1)
            \cup {createExecution(1, 2), createExecution(1, 3), dueExecutions(2, 0),
                  nextWakeAt, executionsInStates({"Scheduled", "Cancelled"}),
                  expiredExecutions(MaxClock, 0), expiredLeases(MaxClock)}
            \* retention deletes only what it found settled
            \cup {deleteExecution(id) :
                    id \in {i \in DOMAIN st.executions :
                              Settled(Records(st).executions[i])}}
      [] focus = "attempts" ->
            {createAttempt(1, 2, "exec-2"), updateAttemptState(1, {"Dispatched"}, "Accepted", Nil),
             updateAttemptState(1, {}, "Lost", "gone"), deleteAttempt(1),
             attemptsOnInstance("exec-1", {}), attemptsForExecution(1)}
      [] focus = "results" ->
            {storeResult(ResultOf(1, "exec-2", FALSE)), storeResult(ResultOf(1, "exec-1", TRUE)),
             storeResult(ResultOf(2, "exec-2", TRUE)), markResultSent(1, 1), deleteResult(1),
             resultsForInstance("exec-1", 0), expiredResults(MaxClock, 0)}

\* What the store holds when the clients begin.
Start(k, f) ==
    LET Given(s, c) == IF k = "memory" THEN MemDo(s, 1, c).st ELSE RedisDo(s, 1, c).st
        new == IF k = "memory" THEN Mem!NewStore(3, ResultCap)
                               ELSE Red!NewStore(3, ResultCap)
        withJob == Given(new, createJob(1))
        withOccurrence == Given(withJob, createExecution(1, 2))
    IN  CASE f = "jobs" -> withJob
          [] f = "executions" -> Given(withOccurrence, createExecution(1, 4))
          [] f = "attempts" -> Given(withOccurrence, createAttempt(1, 1, "exec-1"))
          [] f = "results" -> Given(new, storeResult(ResultOf(1, "exec-1", TRUE)))

Born(s) == {<<"execution", id>> : id \in DOMAIN s.executions}
           \cup {<<"attempt", id>> : id \in DOMAIN s.attempts}

Init ==
    /\ kind \in Kinds
    /\ focus \in Foci
    /\ st = Start(kind, focus)
    /\ clock = 1
    /\ flight = [p \in Clients |-> Idle]
    /\ calls = 0
    /\ lost = 0
    /\ born = Born(st)

-----------------------------------------------------------------------------
(* Steps.  Every listing under way meets the store its step leaves.         *)

Meet(f, s) ==
    IF f.call.op \in ListingOps /\ f.stage # "answered"
    THEN LET now == Matching(s, f.call)
         IN  [f EXCEPT !.must = @ \cap now, !.may = @ \cup now]
    ELSE f

Goes(p, to, s) ==
    /\ st' = s
    /\ flight' = [q \in Clients |-> Meet(IF q = p THEN to ELSE flight[q], s)]
    /\ born' = born \cup Born(s)

Answered(f, reply) == [f EXCEPT !.stage = "answered", !.reply = reply]

Invoke(p, c) ==
    /\ flight[p].stage = "idle"
    /\ calls < MaxCalls
    /\ calls' = calls + 1
    /\ LET now == Matching(st, c)
       IN  Goes(p, [Idle EXCEPT !.stage = "called", !.call = c, !.since = clock,
                                !.must = now, !.may = now], st)
    /\ UNCHANGED <<kind, focus, clock, lost>>

\* The memory store: the whole call under the lock.
MemServe(p) ==
    /\ kind = "memory"
    /\ flight[p].stage = "called"
    /\ LET done == MemDo(st, clock, flight[p].call)
       IN  Goes(p, Answered(flight[p], done.re), done.st)
    /\ UNCHANGED <<kind, focus, clock, calls, lost>>

\* The Redis store: the first round trip of a call that is not a listing.
RedisRead(p) ==
    /\ kind = "redis"
    /\ flight[p].stage = "called"
    /\ flight[p].call.op \notin ListingOps
    /\ LET first == First(st, flight[p].call)
       IN  Goes(p, IF first.re = Red!Pending
                   THEN [flight[p] EXCEPT !.stage = "script", !.seen = first.seen,
                                          !.now = clock]
                   ELSE Answered(flight[p], first.re), first.st)
    /\ UNCHANGED <<kind, focus, clock, calls, lost>>

\* The script.  Told to retry, the call starts over until its tries are used up.
RedisScript(p) ==
    /\ flight[p].stage = "script"
    /\ LET f    == flight[p]
           done == Second(st, f.now, f.call, f.seen)
           next == IF done.re # Red!Retry
                   THEN IF IsExisting(f.call, done.re)
                        THEN [f EXCEPT !.stage = "existing", !.seen = done.re.rec.id]
                        ELSE Answered(f, done.re)
                   ELSE IF f.tries + 1 < ConflictRetryLimit
                        THEN [f EXCEPT !.stage = "called", !.tries = @ + 1]
                        ELSE Answered(f, Fails("ErrConcurrentUpdate"))
       IN  Goes(p, next, done.st)
    /\ UNCHANGED <<kind, focus, clock, calls, lost>>

\* The occurrence existed: its execution is fetched.
RedisExisting(p) ==
    /\ flight[p].stage = "existing"
    /\ Goes(p, Answered(flight[p], Red!GetExisting(st, flight[p].seen).re), st)
    /\ UNCHANGED <<kind, focus, clock, calls, lost>>

\* A listing: the members of its index, then their hashes one by one.
RedisMembers(p) ==
    /\ kind = "redis"
    /\ flight[p].stage = "called"
    /\ flight[p].call.op \in ListingOps
    /\ LET c == flight[p].call
       IN  Goes(p, [flight[p] EXCEPT !.stage = "fetch", !.left = Members(st, c),
                                     !.order = ListOrder(st, c)], st)
    /\ UNCHANGED <<kind, focus, clock, calls, lost>>

RedisFetch(p, id) ==
    /\ flight[p].stage = "fetch"
    /\ id \in flight[p].left
    /\ Goes(p, [flight[p] EXCEPT !.left = @ \ {id},
                                 !.got = @ \cup ByMembers(st, flight[p].call, {id})], st)
    /\ UNCHANGED <<kind, focus, clock, calls, lost>>

RedisListed(p) ==
    /\ flight[p].stage = "fetch"
    /\ flight[p].left = {}
    /\ LET f == flight[p]
       IN  Goes(p, Answered(f, Listing(f.call, f.order, f.got)), st)
    /\ UNCHANGED <<kind, focus, clock, calls, lost>>

\* The server ran the script but its answer is lost: the driver sends it again
\* or the call fails.
LoseAnswer(p) ==
    /\ flight[p].stage = "script"
    /\ lost < MaxLost
    /\ lost' = lost + 1
    /\ LET done == Second(st, flight[p].now, flight[p].call, flight[p].seen)
       IN  \/ Goes(p, flight[p], done.st)
           \/ Goes(p, Answered(flight[p], Fails("transport")), done.st)
    /\ UNCHANGED <<kind, focus, clock, calls>>

\* A request never reaches the server.
LoseRequest(p) ==
    /\ kind = "redis"
    /\ flight[p].stage \in {"called", "script", "existing", "fetch"}
    /\ lost < MaxLost
    /\ lost' = lost + 1
    /\ Goes(p, Answered(flight[p], Fails("transport")), st)
    /\ UNCHANGED <<kind, focus, clock, calls>>

\* The caller takes the answer.
Return(p) ==
    /\ flight[p].stage = "answered"
    /\ Goes(p, Idle, st)
    /\ UNCHANGED <<kind, focus, clock, calls, lost>>

Tick ==
    /\ clock < MaxClock
    /\ clock' = clock + 1
    /\ UNCHANGED <<kind, focus, st, flight, calls, lost, born>>

Next ==
    \/ \E p \in Clients :
        \/ \E c \in Asks : Invoke(p, c)
        \/ MemServe(p)
        \/ RedisRead(p)
        \/ RedisScript(p)
        \/ RedisExisting(p)
        \/ RedisMembers(p)
        \/ \E id \in flight[p].left : RedisFetch(p, id)
        \/ RedisListed(p)
        \/ LoseAnswer(p)
        \/ LoseRequest(p)
        \/ Return(p)
    \/ Tick

Spec == Init /\ [][Next]_vars

-----------------------------------------------------------------------------
(* Properties. *)

\* A creation that is sent again writes under the identifier it minted.
AbstractFlight(f) ==
    [call |-> f.call, since |-> f.since, reply |-> f.reply,
     own |-> IF f.stage # "script" THEN {}
             ELSE born \cap (CASE f.call.op = "CreateExecution" -> {<<"execution", f.seen>>}
                               [] f.call.op = "CreateAttempt" -> {<<"attempt", f.seen>>}
                               [] OTHER -> {})]

C == INSTANCE StoreContract WITH
        records <- Records(st),
        minted <- born,
        asked <- [p \in Clients |-> AbstractFlight(flight[p])],
        Ids <- 1 .. 3 + MaxCalls,
        ListingCalls <- ListingOps

\* Either store keeps the contract of the interface however its callers'
\* calls overlap: every call that changes a record changes it as if at one
\* instant between its invocation and its answer, with no lost update, no
\* identifier given twice and no answer that no order of the calls explains,
\* even when answers are lost and scripts sent twice.
ImplementsContract == C!Contract

RelationOf(S, Key(_)) == {<<Key(x), x.id>> : x \in S}
ScoresOf(S, Time(_)) == [id \in IdsOf(S) |->
                            Red!microScore(Time(CHOOSE x \in S : x.id = id))]
IndexOf(f, Key(_)) == [k \in {Key(x) : x \in Values(f)} |->
                            CHOOSE id \in DOMAIN f : Key(f[id]) = k]
ScopedKey(j) == <<j.type, j.key>>
Occurrence(e) == <<e.job, e.at>>
OpenAttempts(a) == {y \in Values(a) : y.state \notin AttemptTerminalStates}

\* The lists of a map of lists, as a relation; no list names a record twice.
ListsAre(f, S, Key(_)) ==
    /\ UNION {{<<k, id>> : id \in ToSet(f[k])} : k \in DOMAIN f} = RelationOf(S, Key)
    /\ \A k \in DOMAIN f : IsInjective(f[k])

RedisIndexes(r) ==
    LET e == Values(r.executions)
    IN  /\ st.jobKeys = IndexOf(r.jobs, ScopedKey)
        /\ st.enabled = IdsOf({j \in Values(r.jobs) : j.enabled})
        /\ st.occurrences = IndexOf(r.executions, Occurrence)
        /\ st.state = RelationOf(e, LAMBDA y : y.state)
        /\ st.ofJob = RelationOf(e, LAMBDA y : y.job)
        /\ st.active = RelationOf({y \in e : Leased(y)}, LAMBDA y : y.job)
        /\ st.pending = RelationOf({y \in e : ~Settled(y)}, LAMBDA y : y.job)
        /\ st.wake = ScoresOf({y \in e : executionWakes(y)}, executionWakeTime)
        /\ st.lease = ScoresOf({y \in e : Leased(y)}, LAMBDA y : y.lease)
        /\ st.settled = ScoresOf({y \in e : Settled(y)}, LAMBDA y : y.updated)
        /\ st.ofExecution = RelationOf(Values(r.attempts), LAMBDA y : y.execution)
        /\ st.onInstance = RelationOf(OpenAttempts(r.attempts), LAMBDA y : y.instance)
        /\ st.created = ScoresOf(Values(r.results), LAMBDA y : y.created)
        /\ \A id \in DOMAIN r.results : st.results[id].list = r.results[id].instance
        /\ ListsAre(st.lists, Values(r.results), LAMBDA y : y.instance)

MemIndexes(r) ==
    /\ st.jobKeys = IndexOf(r.jobs, ScopedKey)
    /\ st.occurrences = IndexOf(r.executions, Occurrence)
    /\ ToSet(st.ordered) = DOMAIN r.executions
    /\ \A i, j \in DOMAIN st.ordered : i < j => st.ordered[i] < st.ordered[j]
    /\ ListsAre(st.byExec, Values(r.attempts), LAMBDA y : y.execution)
    /\ ListsAre(st.byHost, OpenAttempts(r.attempts), LAMBDA y : y.instance)
    /\ ListsAre(st.byInstance, Values(r.results), LAMBDA y : y.instance)

\* Every index of either store agrees with the records it leads to at all
\* times: no key, occurrence, wake, lease, state, job, activity, expiry, host
\* or instance entry is missing, left behind or scored for an instant its
\* record no longer has, whichever script of whichever caller ran last.
IndexesExact ==
    LET r == Records(st) IN IF kind = "redis" THEN RedisIndexes(r) ELSE MemIndexes(r)

\* A listing that was answered shows every record that matched it from the
\* call to the answer, and none that matched it at no instant in between,
\* though its index and its hashes are read at different instants.
ListingsHonest ==
    \A p \in Clients :
        LET f     == flight[p]
            shown == {f.reply.list[i].id : i \in DOMAIN f.reply.list}
        IN  f.stage = "answered" /\ f.call.op \in ListingOps \ {"NextWakeAt"}
            /\ f.reply.err = "none"
                => f.must \subseteq shown /\ shown \subseteq f.may

\* NextWakeAt says that nothing waits only when nothing did or when the
\* execution it was about to wake for left its waiting state during the call:
\* whoever moved that execution notifies the timing loop.
WakeMissedOnlyByRace ==
    \A p \in Clients :
        LET f == flight[p]
        IN  f.stage = "answered" /\ f.call.op = "NextWakeAt" /\ f.reply.err = "none"
            /\ ~f.reply.ok /\ f.must # {}
                => f.may # f.must

=============================================================================
