---------------------------- MODULE LocalRuntime ----------------------------
(***************************************************************************)
(* The executor runtime behind the in-process loopback, and the shutdown    *)
(* of a local scheduler: admission against the capacity slots, the shutdown *)
(* latch and the drain accounting, the table of cancel functions, the two   *)
(* bounded queues with their drain goroutines, and Run's way down.          *)
(*                                                                          *)
(* Every critical section of the runtime's mutex is one step, and so is      *)
(* every channel operation; checking that the loopback is open and sending  *)
(* on it are two.  The engine is external: it may dispatch or cancel until  *)
(* the loopback refuses it, and handles what it is handed.                  *)
(***************************************************************************)
EXTENDS Naturals, Sequences, FiniteSets

CONSTANTS
    MaxRequest,   \* bound on execution requests; each request is one invocation
    ExecOf,       \* the execution a request belongs to
    Unknown,      \* requests whose function is not registered, or incompatible
    MaxCancels,   \* bound on cancel messages
    Capacity,     \* execution slots
    QueueSize     \* capacity of each loopback queue

Requests == 1 .. MaxRequest
ExecutionIDs == {ExecOf[r] : r \in Requests}

ASSUME RuntimeAssumption ==
    /\ MaxRequest \in Nat /\ MaxCancels \in Nat /\ Capacity \in Nat /\ QueueSize \in Nat
    /\ Unknown \subseteq Requests

VARIABLES
    sent,         \* engine: requests dispatched so far
    cancelsLeft,  \* bound: cancel messages left
    toExecutor, toEngine, \* the loopback's queues
    closed,       \* loopback: refuses new messages
    stopCh,       \* loopback: the stop channel is closed
    reader,       \* the executor-bound drain goroutine, inside handleExecRequest
    flusher,      \* the engine-bound drain goroutine: "run", "flush" or "done"
    inv,          \* the invocation of each request
    cancelled,    \* running invocations whose context was cancelled
    cancels,      \* runtime: the tracked invocations of each execution
    slots,        \* runtime: execution slots taken
    execCount,    \* runtime: executions in the drain accounting
    stopping,     \* runtime: the shutdown latch
    execIdle,     \* runtime: the idle channel exists
    woken,        \* the idle channel Run waits on is closed
    main,         \* control of Run
    drained,      \* Run's local: the drain completed
    settled       \* engine: requests whose result it was handed

loopVars == <<toExecutor, toEngine, closed, stopCh, flusher>>
runtimeVars == <<cancels, slots, execCount, stopping, execIdle>>
mainVars == <<woken, main, drained>>
envVars == <<sent, cancelsLeft, settled>>
vars == <<loopVars, runtimeVars, mainVars, envVars, reader, inv, cancelled>>

Idle == [pc |-> "idle", req |-> 0]

RuntimeInit ==
    /\ sent = 0 /\ cancelsLeft = MaxCancels /\ settled = {}
    /\ toExecutor = <<>> /\ toEngine = <<>> /\ closed = FALSE /\ stopCh = FALSE /\ flusher = "run"
    /\ reader = Idle /\ inv = [r \in Requests |-> "none"] /\ cancelled = {}
    /\ cancels = [x \in ExecutionIDs |-> {}] /\ slots = 0 /\ execCount = 0
    /\ stopping = FALSE /\ execIdle = FALSE
    /\ woken = FALSE /\ main = "serving" /\ drained = FALSE

-----------------------------------------------------------------------------
(***************************************************************************)
(* The loopback.                                                            *)
(***************************************************************************)
\* A full queue refuses the message.
Offered(queue, m) == IF Len(queue) < QueueSize THEN Append(queue, m) ELSE queue

EngineDispatch ==
    /\ ~closed /\ sent < MaxRequest
    /\ sent' = sent + 1
    /\ toExecutor' = Offered(toExecutor, [type |-> "request", req |-> sent + 1, exec |-> ExecOf[sent + 1]])
    /\ UNCHANGED <<toEngine, closed, stopCh, flusher, runtimeVars, mainVars, cancelsLeft, settled,
                   reader, inv, cancelled>>

EngineCancel(x) ==
    /\ ~closed /\ cancelsLeft > 0
    /\ cancelsLeft' = cancelsLeft - 1
    /\ toExecutor' = Offered(toExecutor, [type |-> "cancel", req |-> 0, exec |-> x])
    /\ UNCHANGED <<toEngine, closed, stopCh, flusher, runtimeVars, mainVars, sent, settled,
                   reader, inv, cancelled>>

\* The engine-bound drain hands one message over, before and during its flush.
HandleEngineBound ==
    /\ flusher \in {"run", "flush"} /\ toEngine # <<>>
    /\ toEngine' = Tail(toEngine)
    /\ settled' = IF Head(toEngine).type = "result" THEN settled \cup {Head(toEngine).req} ELSE settled
    /\ UNCHANGED <<toExecutor, closed, stopCh, flusher, runtimeVars, mainVars, sent, cancelsLeft,
                   reader, inv, cancelled>>

\* Broken variant: the queue is abandoned on stop, as the other one is.
StopWithoutFlush == "done"

AfterStop == "flush"

FlusherStops ==
    /\ \/ flusher = "run" /\ stopCh /\ flusher' = AfterStop
       \/ flusher = "flush" /\ toEngine = <<>> /\ flusher' = "done"
    /\ UNCHANGED <<toExecutor, toEngine, closed, stopCh, runtimeVars, mainVars, envVars,
                   reader, inv, cancelled>>

ReaderStops ==
    /\ reader.pc = "idle" /\ stopCh
    /\ reader' = [reader EXCEPT !.pc = "exited"]
    /\ UNCHANGED <<loopVars, runtimeVars, mainVars, envVars, inv, cancelled>>

-----------------------------------------------------------------------------
(***************************************************************************)
(* The runtime: admission.                                                  *)
(***************************************************************************)
\* rejectExecution; whether or not the message fits, the request is over.
Reject(r) ==
    /\ toEngine' = IF closed THEN toEngine ELSE Offered(toEngine, [type |-> "reject", req |-> r])
    /\ reader' = Idle

\* handleExecRequest up to the slot: unknown functions and full slots are refused.
HandleExecRequest ==
    LET m == Head(toExecutor) IN
    /\ reader.pc = "idle" /\ toExecutor # <<>> /\ m.type = "request"
    /\ toExecutor' = Tail(toExecutor)
    /\ IF m.req \in Unknown \/ slots = Capacity
       THEN /\ Reject(m.req)
            /\ UNCHANGED slots
       ELSE /\ slots' = slots + 1
            /\ reader' = [pc |-> "admit", req |-> m.req]
            /\ UNCHANGED toEngine
    /\ UNCHANGED <<closed, stopCh, flusher, cancels, execCount, stopping, execIdle, mainVars, envVars,
                   inv, cancelled>>

\* beginExecution's verdict, under the mutex the latch is set under.
Admits == ~stopping

\* Broken variant: the refused request keeps its slot.
SlotKept == slots

SlotReturned == slots - 1

BeginExecution ==
    /\ reader.pc = "admit"
    /\ IF Admits
       THEN /\ execCount' = execCount + 1
            /\ reader' = [reader EXCEPT !.pc = "accept"]
            /\ UNCHANGED <<slots, toEngine>>
       ELSE /\ slots' = SlotReturned
            /\ Reject(reader.req)
            /\ UNCHANGED execCount
    /\ UNCHANGED <<toExecutor, closed, stopCh, flusher, cancels, stopping, execIdle, mainVars, envVars,
                   inv, cancelled>>

\* Broken variant: the count is compared before this execution has left it.
EndUnnoticed ==
    /\ execCount' = execCount - 1
    /\ UNCHANGED <<execIdle, woken>>

\* endExecution: the last one closes the idle channel a drain waits on.
EndExecution ==
    /\ execCount' = execCount - 1
    /\ execIdle' = (execIdle /\ execCount # 1)
    /\ woken' = (woken \/ (execIdle /\ execCount = 1))

\* The accept: the loopback is found open, or the admission is taken back ...
CheckAccept ==
    /\ reader.pc = "accept"
    /\ IF closed
       THEN /\ EndExecution /\ slots' = slots - 1 /\ reader' = Idle
       ELSE /\ reader' = [reader EXCEPT !.pc = "send"]
            /\ UNCHANGED <<execCount, execIdle, woken, slots>>
    /\ UNCHANGED <<loopVars, cancels, stopping, main, drained, envVars, inv, cancelled>>

\* ... and the message is sent, or refused by a full queue.
SendAccept ==
    /\ reader.pc = "send"
    /\ IF Len(toEngine) < QueueSize
       THEN /\ toEngine' = Append(toEngine, [type |-> "accept", req |-> reader.req])
            /\ reader' = [reader EXCEPT !.pc = "track"]
            /\ UNCHANGED <<execCount, execIdle, woken, slots>>
       ELSE /\ EndExecution /\ slots' = slots - 1 /\ reader' = Idle
            /\ UNCHANGED toEngine
    /\ UNCHANGED <<toExecutor, closed, stopCh, flusher, cancels, stopping, main, drained, envVars,
                   inv, cancelled>>

\* trackCancel, and the goroutine that runs the function is started.
TrackCancel ==
    LET r == reader.req IN
    /\ reader.pc = "track"
    /\ cancels' = [cancels EXCEPT ![ExecOf[r]] = @ \cup {r}]
    /\ inv' = [inv EXCEPT ![r] = "run"]
    /\ cancelled' = IF main \in {"redrain", "again", "stop", "close", "wait", "returned"}
                    THEN cancelled \cup {r} ELSE cancelled
    /\ reader' = Idle
    /\ UNCHANGED <<loopVars, slots, execCount, stopping, execIdle, mainVars, envVars>>

\* cancelExecution: every tracked invocation of the execution.
CancelExecution ==
    LET m == Head(toExecutor) IN
    /\ reader.pc = "idle" /\ toExecutor # <<>> /\ m.type = "cancel"
    /\ toExecutor' = Tail(toExecutor)
    /\ cancelled' = cancelled \cup cancels[m.exec]
    /\ UNCHANGED <<toEngine, closed, stopCh, flusher, runtimeVars, mainVars, envVars, reader, inv>>

-----------------------------------------------------------------------------
(***************************************************************************)
(* The runtime: one goroutine per admitted request.                         *)
(***************************************************************************)
Moves(r, from, to) == inv[r] = from /\ inv' = [inv EXCEPT ![r] = to]

FunctionReturns(r) ==
    /\ Moves(r, "run", "report")
    /\ UNCHANGED <<loopVars, runtimeVars, mainVars, envVars, reader, cancelled>>

\* The result: refused by a stopped loopback, or sent unless the queue is full.
CheckResult(r) ==
    /\ Moves(r, "report", IF closed THEN "untrack" ELSE "send")
    /\ UNCHANGED <<loopVars, runtimeVars, mainVars, envVars, reader, cancelled>>

SendResult(r) ==
    /\ Moves(r, "send", "untrack")
    /\ toEngine' = Offered(toEngine, [type |-> "result", req |-> r])
    /\ UNCHANGED <<toExecutor, closed, stopCh, flusher, runtimeVars, mainVars, envVars, reader, cancelled>>

\* Broken variant: the whole entry of the execution goes with its first invocation.
Forgotten(r) == [cancels EXCEPT ![ExecOf[r]] = {}]

Untracked(r) == [cancels EXCEPT ![ExecOf[r]] = @ \ {r}]

\* The deferred calls, last one first: untrack, cancel the context, ...
UntrackCancel(r) ==
    /\ Moves(r, "untrack", "slot")
    /\ cancels' = Untracked(r)
    /\ cancelled' = cancelled \ {r}
    /\ UNCHANGED <<loopVars, slots, execCount, stopping, execIdle, mainVars, envVars, reader>>

\* ... give the slot back, ...
FreeSlot(r) ==
    /\ Moves(r, "slot", "end")
    /\ slots' = slots - 1
    /\ UNCHANGED <<loopVars, cancels, execCount, stopping, execIdle, mainVars, envVars, reader, cancelled>>

\* ... and leave the drain accounting.
Retire(r) ==
    /\ Moves(r, "end", "over")
    /\ EndExecution
    /\ UNCHANGED <<loopVars, cancels, slots, stopping, main, drained, envVars, reader, cancelled>>

-----------------------------------------------------------------------------
(***************************************************************************)
(* Run, once its context ended or its heartbeat pump died.                  *)
(***************************************************************************)
BeginShutdown ==
    /\ main = "serving" /\ main' = "drain"
    /\ stopping' = TRUE
    /\ UNCHANGED <<loopVars, cancels, slots, execCount, execIdle, woken, drained, envVars,
                   reader, inv, cancelled>>

\* awaitExecutions, its critical section: done at once, or wait on the idle channel.
AwaitExecutions(from, waiting) ==
    /\ main = from
    /\ IF execCount = 0
       THEN /\ main' = "stop" /\ drained' = TRUE
            /\ UNCHANGED <<execIdle, woken>>
       ELSE /\ main' = waiting
            /\ execIdle' = TRUE
            /\ woken' = (woken /\ execIdle)
            /\ UNCHANGED drained
    /\ UNCHANGED <<loopVars, cancels, slots, execCount, stopping, envVars, reader, inv, cancelled>>

Drain == AwaitExecutions("drain", "waiting") \/ AwaitExecutions("redrain", "again")

Drained ==
    /\ main \in {"waiting", "again"} /\ woken
    /\ main' = "stop" /\ drained' = TRUE
    /\ UNCHANGED <<loopVars, runtimeVars, woken, envVars, reader, inv, cancelled>>

\* Broken variant: a drain that ran out of time waits for the idle channel after all.
NoTimeout == FALSE

MayTimeOut == main \in {"waiting", "again"}

\* The drain times out: cancel what is left and wait once more, then give up.
DrainTimeout ==
    /\ MayTimeOut
    /\ IF main = "waiting"
       THEN /\ main' = "redrain"
            /\ cancelled' = cancelled \cup {r \in Requests : inv[r] \in {"run", "report", "send", "untrack"}}
       ELSE /\ main' = "stop" /\ UNCHANGED cancelled
    /\ UNCHANGED <<loopVars, runtimeVars, woken, drained, envVars, reader, inv>>

\* The engine is stopped, then the loopback: refuse, close the stop channel, wait.
StopLoopback ==
    /\ \/ main = "stop" /\ main' = "close" /\ closed' = TRUE /\ UNCHANGED stopCh
       \/ main = "close" /\ main' = "wait" /\ stopCh' = TRUE /\ UNCHANGED closed
       \/ main = "wait" /\ reader.pc = "exited" /\ flusher = "done" /\ main' = "returned"
          /\ UNCHANGED <<closed, stopCh>>
    /\ UNCHANGED <<toExecutor, toEngine, flusher, runtimeVars, woken, drained, envVars,
                   reader, inv, cancelled>>

RunInvocation(r) == CheckResult(r) \/ SendResult(r) \/ UntrackCancel(r) \/ FreeSlot(r) \/ Retire(r)

ReaderStep ==
    HandleExecRequest \/ BeginExecution \/ CheckAccept \/ SendAccept \/ TrackCancel \/ CancelExecution

MainStep == Drain \/ Drained \/ DrainTimeout \/ StopLoopback

RuntimeNext ==
    \/ EngineDispatch \/ (\E x \in ExecutionIDs : EngineCancel(x))
    \/ HandleEngineBound \/ FlusherStops \/ ReaderStops \/ ReaderStep
    \/ \E r \in Requests : FunctionReturns(r) \/ RunInvocation(r)
    \/ BeginShutdown \/ MainStep

RuntimeSpec == RuntimeInit /\ [][RuntimeNext]_vars

\* Goroutines run; nothing obliges a function to return.
RuntimeFairness ==
    /\ WF_vars(HandleEngineBound) /\ WF_vars(FlusherStops)
    /\ WF_vars(ReaderStops) /\ WF_vars(ReaderStep)
    /\ \A r \in Requests : WF_vars(RunInvocation(r))
    /\ WF_vars(MainStep)

FairRuntime == RuntimeSpec /\ RuntimeFairness

-----------------------------------------------------------------------------
\* The requests that hold a slot, and those in the drain accounting.
Admitting(states) == IF reader.pc \in states THEN {reader.req} ELSE {}
Holding == {r \in Requests : inv[r] \in {"run", "report", "send", "untrack", "slot"}}
Counted == Holding \cup {r \in Requests : inv[r] = "end"}

\* No early return leaks: a slot is taken exactly for every request between its
\* admission and its end, and the drain accounting counts exactly those.
SlotsBalanced ==
    /\ slots = Cardinality(Holding \cup Admitting({"admit", "accept", "send", "track"}))
    /\ execCount = Cardinality(Counted \cup Admitting({"accept", "send", "track"}))

\* Once Run believes the drain complete nothing runs and nothing is admitted any
\* more, so no function outlives Run and no request slips in behind the latch.
DrainedMeansQuiet ==
    drained => Counted = {} /\ reader.pc \notin {"accept", "send", "track"}

\* A drain that waits is woken when the last execution ends, the second drain
\* included, which may find the first one's idle channel still there.
LastOneWakesDrain == main \in {"waiting", "again"} /\ execCount = 0 => woken

\* The drain Run waits for is sound: it is over only when nothing runs, and it is
\* over as soon as nothing does.
DrainSound == DrainedMeansQuiet /\ LastOneWakesDrain

\* Results of functions that finished during the drain still reach the engine:
\* when Run returns after a complete drain no result is left in the loopback.
DrainedResultsSettle ==
    main = "returned" /\ drained => \A n \in DOMAIN toEngine : toEngine[n].type # "result"

\* A cancellation stops every invocation of its execution: as long as one runs
\* it is in the table, also when another one of the same execution has finished.
CancelFindsAll ==
    \A r \in Requests : inv[r] \in {"run", "report", "send", "untrack"} => r \in cancels[ExecOf[r]]

\* Run returns once its context ended, even when a function never does.
RunReturns == (main # "serving") ~> (main = "returned")

=============================================================================
