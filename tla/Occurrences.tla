----------------------------- MODULE Occurrences -----------------------------
(***************************************************************************)
(* The life of one job's occurrences in the engine: an upsert or a restart  *)
(* materializes them, the timing loop wakes for them and dispatches them,   *)
(* each dispatch materializes its successor, the reconcile pass fills in a  *)
(* missing successor, and retention purges what has settled.  The clock may *)
(* move between any two steps, or only while no goroutine is at work.       *)
(*                                                                          *)
(* The store's calls are atomic and may fail; the delivery of one execution *)
(* to an executor, its retries and its lease are in module Dispatch, and    *)
(* are here one delivery and one settlement.                                *)
(***************************************************************************)
EXTENDS Schedule, FiniteSets, SequencesExt, ExecutionStates

CONSTANTS
    Requests,    \* job definitions that may be upserted: schedule, switch, backfill
    DefaultBackfill, \* the engine's backfill mode
    RawConfig,   \* the engine configuration as given; 0 in a field that is not set
    Defaults,    \* the package defaults
    Prompt,      \* TRUE when the clock stands still while a goroutine is at work
    SkipOverlap, \* TRUE when the job's overlap policy is Skip
    MaxClock,    \* bound on the clock
    MaxTroubles  \* bound on failed store calls, stops, crashes and further job operations

ASSUME OccurrencesAssumption ==
    /\ MaxDuration \in Nat \ {0} /\ NanosPerMilli \in Nat \ {0} /\ MaxClock \in Nat
    /\ IsFiniteSet(Requests)
    /\ \A r \in Requests : /\ r.sched \in [kind : ScheduleKinds, start : Nat, interval : Nat]
                           /\ r.maxAge \in Nat
    /\ RawConfig \in [maxAge : Int, retention : Int, maxCount : Int, batch : Int]
    /\ Defaults \in [maxAge : Nat \ {0}, retention : Nat \ {0}, maxCount : Nat \ {0},
                     batch : Nat \ {0}]

\* Occurrences reach at most one interval beyond the last instant.
Horizon == MaxClock + Max({r.sched.interval : r \in Requests} \cup {1})

VARIABLES
    job,        \* store: the job record
    executions, \* store: the execution at each instant of the schedule
    lastID,     \* store: the execution counter
    attempts,   \* store: attempts, as execution id and number
    clock,
    running,    \* the loops' context is alive
    stopping,   \* the engine admits no new work
    notified,   \* a wakeup is buffered
    timer,      \* when the timing loop wakes by itself
    proc,       \* control and locals of each goroutine
    spent,      \* how much of the bound is used; -1 before the first job operation
    ran         \* ghost: the instants whose occurrence ran to its end

vars == <<job, executions, lastID, attempts, clock, running, stopping, notified, timer,
          proc, spent, ran>>
storeVars == <<job, executions, lastID, attempts>>
engineVars == <<clock, running, stopping>>

-----------------------------------------------------------------------------
(* Configuration. *)

\* Broken variant: retention may undercut the backfill window.
FilledIn(c) == [f \in DOMAIN c |-> IF c[f] <= 0 THEN Defaults[f] ELSE c[f]]

\* Every field that is not set takes its default, and settled executions are
\* kept at least as long as backfill looks back.
normalized(c) ==
    LET filled == [f \in DOMAIN c |-> IF c[f] <= 0 THEN Defaults[f] ELSE c[f]]
    IN  [filled EXCEPT !.retention = IF @ < filled.maxAge THEN filled.maxAge ELSE @]

cfg == normalized(RawConfig)

\* The backfill mode: the job's, else the engine's, else enabled.
resolveBackfill(mode) ==
    CASE mode # "inherit" -> mode
      [] mode = "inherit" /\ DefaultBackfill # "inherit" -> DefaultBackfill
      [] OTHER -> "enabled"

-----------------------------------------------------------------------------
(* The store. *)

Instants == 0 .. Horizon
NoExecution == [id |-> 0, at |-> 0, state |-> "Absent", version |-> 0, wake |-> 0, updated |-> 0]
NoJob == [present |-> FALSE, version |-> 0, skipped |-> 0,
          sched |-> [kind |-> "OneShot", start |-> 0, interval |-> 0],
          enabled |-> FALSE, mode |-> "enabled", maxCount |-> 0, maxAge |-> 0]

Stored == {executions[t] : t \in {u \in Instants : executions[u].id # 0}}
InStates(states) == {e \in Stored : e.state \in states}
Pending == Stored \ InStates(TerminalStates)

\* CreateExecution: one per job and instant, and none for a job that is gone.
CanCreate(t) == job.present /\ executions[t].id = 0
Create(t) ==
    IF CanCreate(t)
    THEN /\ lastID' = lastID + 1
         /\ executions' = [executions EXCEPT ![t] =
                [id |-> lastID + 1, at |-> t, state |-> "Scheduled", version |-> 1,
                 wake |-> t, updated |-> 0]]
    ELSE UNCHANGED <<lastID, executions>>

\* The version-checked update of the copy e the caller read.  The instant of
\* the update is kept where it is used: when the execution wakes or settled.
Accepts(e, state) ==
    LET now == executions[e.at]
    IN  now.id = e.id /\ now.version = e.version /\ CanTransition(now.state, state)
Update(e, state) ==
    LET now == executions[e.at]
        updated == [now EXCEPT !.state = state, !.version = @ + 1,
                               !.wake = IF state \in DueStates THEN clock ELSE 0,
                               !.updated = IF state \in TerminalStates THEN clock ELSE 0]
    IN  executions' = IF Accepts(e, state) THEN [executions EXCEPT ![e.at] = updated] ELSE executions

\* A call fails within the bound, and freely once its context is cancelled.
Spend == spent \in 0 .. MaxTroubles - 1 /\ spent' = spent + 1
Fault == IF running THEN Spend ELSE UNCHANGED spent

Earliest(S) == CHOOSE e \in S : \A o \in S : e.wake < o.wake \/ (e.wake = o.wake /\ e.id <= o.id)

-----------------------------------------------------------------------------
(* Control.  Every goroutine keeps its step, the instant and the job it     *)
(* read, the execution it handles, those it still has to visit, and the     *)
(* store calls it has decided on.                                           *)

Rest(pc) == [pc |-> pc, now |-> 0, job |-> NoJob, exec |-> NoExecution,
             todo |-> {}, plan |-> <<>>]
Goto(p, pc) == proc' = [proc EXCEPT ![p].pc = pc]
Become(p, l) == proc' = [proc EXCEPT ![p] = l]
notify == notified' = TRUE

Loops == {"timing", "reconcile"}
Goroutines == Loops \cup {"admin", "start"}

\* The timing loop goes on to the next execution of its batch.
VisitNext == Become("timing", [Rest("visit") EXCEPT !.todo = proc["timing"].todo])

\* The calls a loop makes one after the other.
Cancel(e) == [op |-> "cancel", exec |-> e]
Abandon(e) == [op |-> "abandon", exec |-> e]
Skip(n) == [op |-> "skip", count |-> n]
Make(t) == [op |-> "create", at |-> t]
DeleteAttempt(a) == [op |-> "deleteAttempt", attempt |-> a]
DeleteExecution(e) == [op |-> "deleteExecution", exec |-> e]

\* Executions of the job in the order of their instants.
InOrder(S) ==
    [n \in 1 .. Cardinality(S) |->
        CHOOSE e \in S : Cardinality({o \in S : o.at < e.at}) = n - 1]

\* materializeJob: what was missed within the caps, then the next occurrence.
Materialize(j, now) ==
    LET found == missedOccurrences(j.sched, now, MaxBackfillCount(j.maxCount, cfg.maxCount),
                                   MaxBackfillAge(j.maxAge, cfg.maxAge))
        off == resolveBackfill(j.mode) = "disabled"
        skipped == found.skipped + (IF off THEN Len(found.list) ELSE 0)
        missed == IF off THEN <<>> ELSE found.list
        next == nextOccurrence(j.sched, now)
    IN  (IF skipped > 0 THEN <<Skip(skipped)>> ELSE <<>>)
        \o [i \in DOMAIN missed |-> Make(missed[i])]
        \o (IF next.exists THEN <<Make(next.at)>> ELSE <<>>)

\* One call of a plan takes effect.  requeueReady reads the execution afresh.
Apply(c) ==
    CASE c.op = "cancel" -> Update(c.exec, "Cancelled") /\ UNCHANGED <<job, lastID, attempts>>
      [] c.op = "abandon" ->
            Update(executions[c.exec.at], "Ready") /\ UNCHANGED <<job, lastID, attempts>>
      [] c.op = "skip" ->
            /\ job' = IF job.present THEN [job EXCEPT !.skipped = @ + c.count] ELSE job
            /\ UNCHANGED <<executions, lastID, attempts>>
      [] c.op = "create" -> Create(c.at) /\ UNCHANGED <<job, attempts>>
      [] c.op = "deleteAttempt" ->
            /\ attempts' = attempts \ {c.attempt}
            /\ UNCHANGED <<job, executions, lastID>>
      [] c.op = "deleteExecution" ->
            /\ executions' = IF executions[c.exec.at].id = c.exec.id
                             THEN [executions EXCEPT ![c.exec.at] = NoExecution]
                             ELSE executions
            /\ UNCHANGED <<job, lastID, attempts>>

Finished(p) == proc[p].plan = <<>>

\* The next call of a loop that goes on when a call fails.
Perform(p, pc) ==
    /\ proc[p].pc = pc
    /\ ~Finished(p)
    /\ \/ Apply(Head(proc[p].plan)) /\ UNCHANGED spent
       \/ Fault /\ UNCHANGED storeVars
    /\ proc' = [proc EXCEPT ![p].plan = Tail(@)]
    /\ UNCHANGED <<engineVars, notified, timer, ran>>

Quiet == UNCHANGED <<storeVars, ran>>

-----------------------------------------------------------------------------
(* Job operations, one after the other on a connection.                     *)

\* HandleJobUpsert: the record is written.
HandleJobUpsert(r) ==
    /\ proc["admin"].pc = "idle"
    /\ running
    /\ (spent = -1 /\ spent' = 0) \/ Spend
    /\ job' = [present |-> TRUE, version |-> job.version + 1, skipped |-> job.skipped,
               sched |-> r.sched, enabled |-> r.enabled, mode |-> r.mode,
               maxCount |-> r.maxCount, maxAge |-> r.maxAge]
    /\ Become("admin", [Rest(IF job'.version > 1 THEN "replace" ELSE "cancelled")
                          EXCEPT !.job = job'])
    /\ UNCHANGED <<executions, lastID, attempts, engineVars, notified, timer, ran>>

\* Which executions a new definition replaces.
Replaced(e, j) ==
    /\ e.state \notin TerminalStates \cup LeasedStates
    /\ ~(j.enabled /\ scheduleContains(j.sched, e.at))

\* cancelReplacedExecutions: the executions are listed; a failure gives up.
CancelReplaced ==
    LET j == proc["admin"].job
    IN  /\ proc["admin"].pc = "replace"
        /\ \/ /\ proc' = [proc EXCEPT !["admin"].pc = "cancelled",
                              !["admin"].plan =
                                 LET gone == InOrder({e \in Stored : Replaced(e, j)})
                                 IN  [i \in DOMAIN gone |-> Cancel(gone[i])]]
              /\ UNCHANGED spent
           \/ Fault /\ Goto("admin", "cancelled")
        /\ Quiet /\ UNCHANGED <<engineVars, notified, timer>>

\* materializeJob on the definition just stored, from the clock read now.
MaterializeUpserted ==
    LET j == proc["admin"].job
    IN  /\ proc["admin"].pc = "cancelled"
        /\ Finished("admin")
        /\ IF j.enabled
           THEN proc' = [proc EXCEPT !["admin"].pc = "materialize",
                                     !["admin"].plan = Materialize(j, clock)]
           ELSE Goto("admin", "materialize")
        /\ Quiet /\ UNCHANGED <<engineVars, notified, timer, spent>>

\* HandleJobDelete of a job that exists.
HandleJobDelete ==
    /\ proc["admin"].pc = "idle"
    /\ running
    /\ job.present
    /\ Spend
    /\ Become("admin", Rest("deleted"))
    /\ Quiet /\ UNCHANGED <<engineVars, notified, timer>>

\* cancelDeletedExecutions: what is pending is listed; a failure gives up.
CancelDeleted ==
    /\ proc["admin"].pc = "deleted"
    /\ \/ /\ proc' = [proc EXCEPT !["admin"].pc = "delete",
                          !["admin"].plan =
                             LET gone == InOrder(Pending \ InStates(LeasedStates))
                             IN  [i \in DOMAIN gone |-> Cancel(gone[i])]]
          /\ UNCHANGED spent
       \/ Fault /\ Goto("admin", "delete")
    /\ Quiet /\ UNCHANGED <<engineVars, notified, timer>>

\* The job goes and the timing loop is told, or the deletion fails.
DeleteJob ==
    /\ proc["admin"].pc = "delete"
    /\ Finished("admin")
    /\ \/ job' = NoJob /\ notify /\ UNCHANGED spent
       \/ Fault /\ UNCHANGED <<job, notified>>
    /\ Become("admin", Rest("idle"))
    /\ UNCHANGED <<executions, lastID, attempts, ran, engineVars, timer>>

\* The upsert is over: the timing loop is told.
Upserted ==
    /\ proc["admin"].pc = "materialize"
    /\ Finished("admin")
    /\ notify
    /\ Become("admin", Rest("idle"))
    /\ Quiet /\ UNCHANGED <<engineVars, timer, spent>>

AdminCall == \E pc \in {"cancelled", "materialize", "delete"} : Perform("admin", pc)

-----------------------------------------------------------------------------
(* The timing loop. *)

\* The first executions due, up to one batch.
DueBatch(now) ==
    LET due == {e \in InStates(DueStates) : e.wake <= now}
        ahead(e) == {o \in due : o.wake < e.wake \/ (o.wake = e.wake /\ o.id < e.id)}
    IN  {e \in due : Cardinality(ahead(e)) < cfg.batch}

\* The head of run: leave when the context is cancelled; processDue looks for
\* work unless the engine is stopping.
ProcessDue ==
    /\ proc["timing"].pc = "top"
    /\ \/ ~running /\ Goto("timing", "off") /\ UNCHANGED spent
       \/ running /\ stopping /\ Goto("timing", "lookup") /\ UNCHANGED spent
       \/ /\ running /\ ~stopping
          /\ proc' = [proc EXCEPT !["timing"].pc = "visit", !["timing"].todo = DueBatch(clock)]
          /\ UNCHANGED spent
       \/ running /\ ~stopping /\ Fault /\ Goto("timing", "lookup")
    /\ Quiet /\ UNCHANGED <<engineVars, notified, timer>>

Overlapping(e) == \E o \in InStates(LeasedStates) : o.id # e.id

\* dispatchExecution up to its first write: the job is read.  An overlap that
\* cannot be looked up does not hold the execution back.
Consider ==
    LET l == proc["timing"]
        e == Earliest(l.todo)
        goes(pc) == proc' = [proc EXCEPT !["timing"].pc = pc, !["timing"].exec = e,
                                         !["timing"].job = job, !["timing"].todo = @ \ {e}]
    IN  /\ l.pc = "visit"
        /\ \/ /\ l.todo # {} /\ (~running \/ stopping)
              /\ Become("timing", Rest("lookup")) /\ UNCHANGED spent
           \/ /\ l.todo # {} /\ running /\ ~stopping
              /\ \/ (~job.present \/ ~job.enabled) /\ goes("cancel") /\ UNCHANGED spent
                 \/ /\ job.present /\ job.enabled
                    /\ goes(IF SkipOverlap /\ Overlapping(e) THEN "skip" ELSE "claim")
                    /\ UNCHANGED spent
                 \/ job.present /\ job.enabled /\ SkipOverlap /\ Fault /\ goes("claim")
                 \/ /\ Fault
                    /\ proc' = [proc EXCEPT !["timing"].todo = @ \ {e}]
        /\ Quiet /\ UNCHANGED <<engineVars, notified, timer>>

\* The transition of an execution that is not dispatched; a lost race or a
\* failure is only logged.
Transition ==
    LET l == proc["timing"]
    IN  /\ l.pc \in {"cancel", "skip"}
        /\ \/ /\ Update(l.exec, IF l.pc = "cancel" THEN "Cancelled" ELSE "Skipped")
              /\ UNCHANGED spent
           \/ Fault /\ UNCHANGED executions
        /\ IF l.pc = "cancel" THEN VisitNext ELSE Goto("timing", "next")
        /\ UNCHANGED <<job, lastID, attempts, ran, engineVars, notified, timer>>

Claim ==
    LET e == proc["timing"].exec
    IN  /\ proc["timing"].pc = "claim"
        /\ \/ /\ Accepts(e, "Dispatching")
              /\ Update(e, "Dispatching")
              /\ proc' = [proc EXCEPT !["timing"].pc = "attempt",
                                      !["timing"].exec = executions'[e.at]]
              /\ UNCHANGED spent
           \/ ~Accepts(e, "Dispatching") /\ VisitNext /\ UNCHANGED <<executions, spent>>
           \/ Fault /\ VisitNext /\ UNCHANGED executions
        /\ UNCHANGED <<job, lastID, attempts, ran, engineVars, notified, timer>>

CreateAttempt ==
    LET e == proc["timing"].exec
        prior == {a \in attempts : a.of = e.id}
    IN  /\ proc["timing"].pc = "attempt"
        /\ \/ /\ attempts' = attempts \cup {[of |-> e.id, number |-> Cardinality(prior) + 1]}
              /\ Goto("timing", "deliver")
              /\ UNCHANGED spent
           \/ Fault /\ VisitNext /\ UNCHANGED attempts
        /\ UNCHANGED <<job, executions, lastID, ran, engineVars, notified, timer>>

\* Fencing and delivery: the executor has the execution.
Deliver ==
    LET e == proc["timing"].exec
    IN  /\ proc["timing"].pc = "deliver"
        /\ Update(e, "Running")
        /\ IF Accepts(e, "Running") THEN Goto("timing", "next") ELSE VisitNext
        /\ UNCHANGED <<job, lastID, attempts, ran, engineVars, notified, timer, spent>>

\* materializeNext, on the job as it was read before the dispatch.
MaterializeNext ==
    LET l == proc["timing"]
        next == nextOccurrence(l.job.sched, l.exec.at)
    IN  /\ l.pc = "next"
        /\ \/ /\ next.exists
              /\ Create(next.at)
              /\ notified' = (notified \/ CanCreate(next.at))
              /\ UNCHANGED spent
           \/ ~next.exists /\ UNCHANGED <<executions, lastID, notified, spent>>
           \/ next.exists /\ Fault /\ UNCHANGED <<executions, lastID, notified>>
        /\ VisitNext
        /\ UNCHANGED <<job, attempts, engineVars, timer, ran>>

\* NextWakeAt sets the timer; when the lookup fails there is none.
NextWakeAt ==
    LET waiting == InStates(DueStates)
    IN  /\ \/ proc["timing"].pc = "lookup"
           \/ proc["timing"].pc = "visit" /\ proc["timing"].todo = {}
        /\ \/ /\ timer' = IF waiting = {} THEN None ELSE Some(Earliest(waiting).wake)
              /\ UNCHANGED spent
           \/ Fault /\ timer' = None
        /\ Become("timing", Rest("wait"))
        /\ Quiet /\ UNCHANGED <<engineVars, notified>>

\* Broken variant: only the timer ends the wait.
WaitDeaf ==
    /\ proc["timing"].pc = "wait"
    /\ \/ ~running /\ UNCHANGED notified
       \/ timer.exists /\ timer.at <= clock /\ UNCHANGED notified
    /\ timer' = None
    /\ Goto("timing", "top")
    /\ Quiet /\ UNCHANGED <<engineVars, spent>>

\* The wait ends with the context, a notification or the timer.
Wait ==
    /\ proc["timing"].pc = "wait"
    /\ \/ ~running /\ UNCHANGED notified
       \/ notified /\ notified' = FALSE
       \/ timer.exists /\ timer.at <= clock /\ UNCHANGED notified
    /\ timer' = None
    /\ Goto("timing", "top")
    /\ Quiet /\ UNCHANGED <<engineVars, spent>>

-----------------------------------------------------------------------------
(* The reconcile loop. *)

\* The leases that ran out: of executions claimed and delivered by nobody.
ExpiredLeases == {e \in InStates({"Dispatching"}) : proc["timing"].exec.id # e.id}

\* The settled executions whose retention ran out, up to one batch.
ExpiredExecutions(before) ==
    LET old == {e \in InStates(TerminalStates) : e.updated < before}
        ahead(e) == {o \in old : o.updated < e.updated \/ (o.updated = e.updated /\ o.id < e.id)}
    IN  {e \in old : Cardinality(ahead(e)) < cfg.batch}

\* A pass that found neither expired leases nor a job without an occurrence
\* goes on to sweep what has settled.
Sweep(now) ==
    LET expired == ExpiredExecutions(now - cfg.retention)
    IN  IF expired = {} THEN Rest("rest") ELSE [Rest("purge") EXCEPT !.todo = expired]

\* ensurePendingOccurrences up to its write: an enabled job without a pending
\* occurrence is to be given its next one.
Ensure(now) ==
    IF /\ job.present /\ job.enabled /\ Pending = {}
       /\ nextOccurrence(job.sched, now).exists
    THEN [Rest("ensure") EXCEPT !.now = now, !.job = job]
    ELSE Sweep(now)

\* A pass starts, up to its first write.  A look-up that fails leaves its part
\* of the pass out.
Reconcile ==
    /\ proc["reconcile"].pc = "rest"
    /\ running /\ ~stopping
    /\ \/ /\ ExpiredLeases # {}
          /\ LET lost == InOrder(ExpiredLeases)
             IN  Become("reconcile", [Rest("reap") EXCEPT
                        !.now = clock, !.plan = [i \in DOMAIN lost |-> Abandon(lost[i])]])
          /\ UNCHANGED spent
       \/ ExpiredLeases = {} /\ Become("reconcile", Ensure(clock)) /\ UNCHANGED spent
       \/ Fault /\ Become("reconcile", Ensure(clock))
       \/ Fault /\ Become("reconcile", Sweep(clock))
       \/ ExpiredLeases = {} /\ Fault /\ UNCHANGED proc
    /\ Quiet /\ UNCHANGED <<engineVars, notified, timer>>

\* The leases are reaped: the timing loop is told.
Reaped ==
    /\ proc["reconcile"].pc = "reap"
    /\ Finished("reconcile")
    /\ notify
    /\ Become("reconcile", Ensure(proc["reconcile"].now))
    /\ Quiet /\ UNCHANGED <<engineVars, timer, spent>>

\* Broken variant: the missing occurrence is not created.
EnsureNothing ==
    /\ proc["reconcile"].pc = "ensure"
    /\ Become("reconcile", Sweep(proc["reconcile"].now))
    /\ UNCHANGED <<storeVars, ran, engineVars, notified, timer, spent>>

\* The write of ensurePendingOccurrences, and the sweep after it.
EnsurePending ==
    LET l == proc["reconcile"]
        next == nextOccurrence(l.job.sched, l.now)
    IN  /\ l.pc = "ensure"
        /\ \/ Create(next.at) /\ notified' = (notified \/ CanCreate(next.at)) /\ UNCHANGED spent
           \/ Fault /\ UNCHANGED <<executions, lastID, notified>>
        /\ Become("reconcile", Sweep(l.now))
        /\ UNCHANGED <<job, attempts, ran, engineVars, timer>>

\* purgeExecution: the attempts, then their execution.
Purge(e, owned) ==
    SetToSeq({DeleteAttempt(a) : a \in owned}) \o <<DeleteExecution(e)>>

PurgeExecution ==
    LET l == proc["reconcile"]
        e == CHOOSE x \in l.todo : \A o \in l.todo : x.updated <= o.updated
    IN  /\ l.pc = "purge"
        /\ Finished("reconcile")
        /\ \/ l.todo = {} /\ Become("reconcile", Rest("rest")) /\ UNCHANGED spent
           \/ /\ l.todo # {}
              /\ \/ /\ proc' = [proc EXCEPT !["reconcile"].todo = @ \ {e},
                              !["reconcile"].plan = Purge(e, {a \in attempts : a.of = e.id})]
                    /\ UNCHANGED spent
                 \/ Fault /\ proc' = [proc EXCEPT !["reconcile"].todo = @ \ {e}]
        /\ Quiet /\ UNCHANGED <<engineVars, notified, timer>>

\* Broken variant: the purge goes on after a failed deletion.
PurgeOn == Perform("reconcile", "purge")

\* A failed deletion aborts the purge of this execution.
PurgeCall ==
    /\ proc["reconcile"].pc = "purge"
    /\ ~Finished("reconcile")
    /\ \/ /\ Apply(Head(proc["reconcile"].plan)) /\ UNCHANGED spent
          /\ proc' = [proc EXCEPT !["reconcile"].plan = Tail(@)]
       \/ /\ Fault /\ UNCHANGED storeVars
          /\ proc' = [proc EXCEPT !["reconcile"].plan = <<>>]
    /\ UNCHANGED <<engineVars, notified, timer, ran>>

\* The ticker's loop leaves with the context, between two passes.
ReconcileLeaves ==
    /\ proc["reconcile"].pc = "rest" /\ ~running
    /\ Goto("reconcile", "off")
    /\ Quiet /\ UNCHANGED <<engineVars, notified, timer, spent>>

-----------------------------------------------------------------------------
(* Start, stop and crash. *)

\* Start: recovery begins with the enabled jobs.
StartEngine ==
    /\ proc["start"].pc = "idle" /\ ~running
    /\ proc["timing"].pc = "off" /\ proc["reconcile"].pc = "off"
    /\ proc["admin"].pc = "idle"
    /\ running' = TRUE /\ stopping' = FALSE
    /\ \/ /\ Become("start", [Rest("recover") EXCEPT
                 !.plan = IF job.present /\ job.enabled THEN Materialize(job, clock) ELSE <<>>])
          /\ UNCHANGED spent
       \/ /\ Spend
          /\ Become("start", Rest("recover"))
    /\ Quiet /\ UNCHANGED <<clock, notified, timer>>

\* recoverOnStartup: what was being dispatched or ran is listed, ...
RecoverInterrupted ==
    /\ proc["start"].pc = "recover" /\ Finished("start")
    /\ \/ /\ LET lost == InOrder(InStates(LeasedStates))
             IN  Become("start", [Rest("abandon") EXCEPT
                        !.plan = [i \in DOMAIN lost |-> Abandon(lost[i])]])
          /\ UNCHANGED <<spent, notified>>
       \/ Fault /\ UNCHANGED notified
          /\ proc' = [proc EXCEPT !["start"] = Rest("idle"), !["timing"] = Rest("top"),
                                  !["reconcile"] = Rest("rest")]
    /\ Quiet /\ UNCHANGED <<engineVars, timer>>

\* ... and the loops are started.
StartLoops ==
    /\ proc["start"].pc = "abandon" /\ Finished("start")
    /\ notify
    /\ proc' = [proc EXCEPT !["start"] = Rest("idle"), !["timing"] = Rest("top"),
                            !["reconcile"] = Rest("rest")]
    /\ Quiet /\ UNCHANGED <<engineVars, timer, spent>>

StartCall == \E pc \in {"recover", "abandon"} : Perform("start", pc)

\* Stop: the flag, then the context; the loops leave by themselves.
StopEngine ==
    /\ running /\ proc["start"].pc = "idle"
    /\ Spend
    /\ stopping' = TRUE /\ running' = FALSE
    /\ Quiet /\ UNCHANGED <<clock, notified, timer, proc>>

\* The process dies; the store is all that is left.
Crash ==
    /\ running
    /\ Spend
    /\ running' = FALSE /\ stopping' = FALSE
    /\ notified' = FALSE /\ timer' = None
    /\ proc' = [p \in Goroutines |-> Rest(IF p \in Loops THEN "off" ELSE "idle")]
    /\ Quiet /\ UNCHANGED clock

\* The executor's result settles its execution (HandleExecResult).
Settle(t) ==
    /\ running
    /\ executions[t].state = "Running"
    /\ Update(executions[t], "Succeeded")
    /\ ran' = ran \cup {t}
    /\ UNCHANGED <<job, lastID, attempts, engineVars, notified, timer, proc, spent>>

\* A goroutine is in the middle of what it does at the instant it read.
AtWork == \E p \in Goroutines : proc[p].pc \notin {"idle", "wait", "rest", "off"}

Tick ==
    /\ clock < MaxClock
    /\ Prompt => ~AtWork
    /\ clock' = clock + 1
    /\ UNCHANGED <<storeVars, running, stopping, notified, timer, proc, spent, ran>>

-----------------------------------------------------------------------------
\* The engine has just started on an empty store.
Init ==
    /\ job = NoJob
    /\ executions = [t \in Instants |-> NoExecution]
    /\ lastID = 0 /\ attempts = {} /\ clock = 0
    /\ running = TRUE /\ stopping = FALSE /\ notified = TRUE /\ timer = None
    /\ proc = [p \in Goroutines |-> Rest(IF p \in Loops THEN IF p = "timing" THEN "top" ELSE "rest"
                                                      ELSE "idle")]
    /\ spent = -1
    /\ ran = {}

AdminStep == CancelReplaced \/ MaterializeUpserted \/ Upserted \/ CancelDeleted \/ DeleteJob
             \/ AdminCall
TimingStep == ProcessDue \/ Consider \/ Transition \/ Claim \/ CreateAttempt \/ Deliver
              \/ MaterializeNext \/ NextWakeAt \/ Wait
ReconcileStep == Reconcile \/ Perform("reconcile", "reap") \/ Reaped
                 \/ EnsurePending \/ PurgeExecution \/ PurgeCall \/ ReconcileLeaves
StartStep == StartEngine \/ RecoverInterrupted \/ StartLoops \/ StartCall

Next ==
    \/ \E r \in Requests : HandleJobUpsert(r)
    \/ HandleJobDelete
    \/ AdminStep \/ TimingStep \/ ReconcileStep \/ StartStep
    \/ StopEngine \/ Crash
    \/ \E t \in Instants : Settle(t)
    \/ Tick

Spec == Init /\ [][Next]_vars

\* The loops and handlers run on, executors answer and time passes.
Fairness ==
    /\ WF_vars(AdminStep) /\ WF_vars(TimingStep) /\ WF_vars(ReconcileStep)
    /\ WF_vars(StartStep) /\ WF_vars(Tick)
    /\ WF_vars(\E t \in Instants : Settle(t))

FairSpec == Spec /\ Fairness

-----------------------------------------------------------------------------
(* Properties. *)

\* The occurrence of an instant is created though it has run before.
Recreated(t) == t \in ran /\ executions[t].id = 0 /\ executions'[t].id # 0

\* What ran and was purged has aged out of the backfill window: no upsert, no
\* restart and no reconcile pass materializes it again.  Only a predecessor that
\* is dispatched after retention forgot its successor creates that one anew.
NeverRematerialized == [][\A t \in Instants : Recreated(t) => MaterializeNext]_vars

\* No attempt outlives the execution it belongs to, whatever call of a purge
\* fails and whenever the process dies.
AttemptsOwned == \A a \in attempts : \E e \in Stored : e.id = a.of

\* A deleted job starts nothing: from the deletion on no execution of it is
\* claimed for dispatch.
NothingAfterDelete ==
    [][~job.present => \A t \in Instants : executions'[t].state = "Dispatching"
                                            => executions[t].state = "Dispatching"]_vars

\* The timing loop sleeps with no timer though something waits to run.
Blind == proc["timing"].pc = "wait" /\ ~timer.exists /\ ~notified

Overdue == \E e \in Stored : e.at <= clock /\ e.state \notin TerminalStates

\* Every occurrence that comes due is run or cancelled, across lost wakeups,
\* failed store calls, stops and crashes: again and again nothing is overdue.
\* Only a failed lookup of the next wakeup may leave the loop asleep, until
\* somebody notifies it.
DueSettles == []<>(~Overdue \/ Blind)

Recurring == job.present /\ job.enabled /\ job.sched.kind = "FixedInterval"

\* A recurring job never runs dry: whichever creation of a next occurrence
\* fails, is skipped by a crash or is lost to a race, one is pending again.
NeverDry == []<>(Recurring => Pending # {})

=============================================================================
