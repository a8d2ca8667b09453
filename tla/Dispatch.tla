------------------------------ MODULE Dispatch ------------------------------
(***************************************************************************)
(* The dispatch core of the scheduling engine: the timing loop, the         *)
(* reconcile loop, the per-connection message handlers, the heartbeat pump  *)
(* and the job operations, all sharing one store through optimistic,        *)
(* version-checked updates.  Every store write is one atomic step, because   *)
(* the store locks (or runs one script) per call; between two writes of a   *)
(* handler every other goroutine may run.  Look-ups that follow each other   *)
(* with no write between them are one step, and so is the release of a      *)
(* capacity slot with the store call before it.                             *)
(*                                                                          *)
(* Time is abstracted: a due time or a lease may pass at any moment.        *)
(* The transport and the executor process are external: a connection may    *)
(* drop at any moment and loses what it carried.                            *)
(***************************************************************************)
EXTENDS Naturals, Sequences, FiniteSets, ExecutionStates

CONSTANTS
    MaxExecution,        \* occurrences of the one job: 1..MaxExecution
    MaxAttempt,          \* bound on attempt identifiers
    MaxVersion,          \* bound: an execution at this version is no longer scanned as due
    MaxEvents,           \* bound on environment events (see Spend)
    EventKinds,          \* the kinds of environment event that may happen
    LossCost,            \* what an event that costs a connection counts for
    Instances,           \* executor processes
    Conns,               \* connections; each is one registration (generation)
    Capacity,            \* concurrent executions per executor, 0 = unbounded
    MaxFunctionAttempts, \* function attempts the job's retry policy allows
    SkipOverlap,         \* TRUE when the job's overlap policy is Skip
    Pin,                 \* "none", "required" or "preferred"
    Labeled,             \* instances announcing the pinned label
    Compatible,          \* instances that registered the job's function
    Connected,           \* the instance that is connected from the start, or NoInstance
    JobOps,              \* job operations that may arrive: subset of {"disable", "delete"}
    NoConn, NoInstance

Executions == 1 .. MaxExecution
Attempts == 1 .. MaxAttempt
Background == {"dispatcher", "reaper", "pump", "admin"}
Procs == Background \cup Conns

ASSUME BoundsAssumption ==
    /\ MaxExecution \in Nat \ {0} /\ MaxAttempt \in Nat /\ MaxVersion \in Nat
    /\ MaxEvents \in Nat /\ LossCost \in Nat \ {0} /\ Capacity \in Nat /\ MaxFunctionAttempts \in Nat
ASSUME NamesAssumption ==
    /\ Conns \cap Background = {}
    /\ NoConn \notin Conns /\ NoInstance \notin Instances
    /\ Connected \in Instances \cup {NoInstance} /\ Conns # {}
ASSUME JobAssumption ==
    /\ SkipOverlap \in BOOLEAN
    /\ Pin \in {"none", "required", "preferred"}
    /\ Labeled \subseteq Instances /\ Compatible \subseteq Instances
    /\ JobOps \subseteq {"disable", "delete"}
    /\ EventKinds \subseteq {"queue", "expiry", "heartbeat", "reject", "failure",
                              "drop", "crash", "restart"}

VARIABLES
    executions,  \* store: the execution records
    attempts,    \* store: the attempt records
    lastAttempt, \* store: the attempt counter
    job,         \* store: "enabled", "disabled" or "deleted"
    registered,  \* registry: the live connection of each instance
    host,        \* registry: the instance of each connection
    inFlight,    \* registry: the attempts booked against each entry
    up,          \* transport: the connections that still carry messages
    toExecutor,  \* transport: requests queued towards the executor
    toEngine,    \* transport: messages queued towards the engine
    work,        \* executor: what became of each attempt there
    pc, loop,    \* control of each process, and the loop it returns to
    exec, att, goal, \* the handler's locals: execution read, attempt, target state
    todo, open,  \* the executions, or attempts, a loop still has to visit
    entry,       \* the timing loop's local: the executor entry it selected
    jobOps,      \* job operations that may still arrive
    events       \* environment events left

storeVars == <<executions, attempts, lastAttempt, job>>
registryVars == <<registered, host, inFlight>>
wireVars == <<up, toExecutor, toEngine, work>>
localVars == <<exec, att, goal>>
listVars == <<todo, open>>
controlVars == <<pc, loop>>
boundVars == <<jobOps, events>>
vars == <<storeVars, registryVars, wireVars, localVars, listVars, controlVars, entry, boundVars>>

NoExecution == [id |-> 0, state |-> "Absent", fa |-> 0, cur |-> 0, version |-> 0]

ExecutionRecords ==
    [id : Executions, state : ExecutionStateSet \cup {"Absent"},
     fa : Nat, cur : 0 .. MaxAttempt, version : Nat]

AttemptRecords ==
    [exec : 0 .. MaxExecution, inst : Instances \cup {NoInstance},
     state : AttemptStateSet \cup {"Absent"}]

Messages == [type : {"accept", "reject", "incompatible", "ok", "retryable", "fatal"}, att : Attempts]

Labels == {"unborn", "idle", "closed", "due", "recover", "claim", "create", "fence", "send",
           "sendFailed", "materialize", "transition", "requeue",
           "abandon", "reap", "rewait", "reconsider", "acceptRun", "acceptMark",
           "rejectMark", "succeed", "succeedMark", "failMark", "disconnectList",
           "disconnect", "beat", "cancelList", "cancel", "drop"}

-----------------------------------------------------------------------------
(***************************************************************************)
(* The store's optimistic update.  s is the copy the caller read earlier;   *)
(* the update is refused when the version moved on, or when the change of   *)
(* state is not in the table (no state leaves a terminal one).              *)
(***************************************************************************)
Accepts(s, state) ==
    LET now == executions[s.id] IN
    /\ now.version = s.version
    /\ now.state = state \/ CanTransition(now.state, state)

\* Broken variant: the version is not advanced by a write.
UpdatedSameVersion(s, state, fa, cur) ==
    [executions EXCEPT ![s.id] =
        [id |-> s.id, state |-> state, fa |-> fa, cur |-> cur, version |-> s.version]]

Updated(s, state, fa, cur) ==
    [executions EXCEPT ![s.id] =
        [id |-> s.id, state |-> state, fa |-> fa, cur |-> cur, version |-> s.version + 1]]

\* A pure change of state leaves the other fields as they are stored.
UpdateState(s, state) ==
    executions' = IF Accepts(s, state)
                  THEN Updated(s, state, executions[s.id].fa, executions[s.id].cur)
                  ELSE executions

\* UpdateAttemptState: guarded by the states it may come from.
UpdateAttemptState(a, from, to) ==
    attempts' = IF a # 0 /\ attempts[a].state \in from
                THEN [attempts EXCEPT ![a].state = to]
                ELSE attempts

\* ReleaseInFlight on whatever entry the registry now holds for the instance.
Release(i, a) ==
    inFlight' = IF i \in Instances /\ registered[i] # NoConn
                THEN [inFlight EXCEPT ![registered[i]] = @ \ {a}]
                ELSE inFlight

InStates(states) == {executions[e] : e \in {x \in Executions : executions[x].state \in states}}

OpenOn(i) == {a \in Attempts : attempts[a].inst = i /\ attempts[a].state \in OpenAttemptStates}

IsFirst(s, S) == s \in S /\ \A t \in S : s.id <= t.id

IsLeast(a, S) == a \in S /\ \A b \in S : a <= b

(***************************************************************************)
(* Control of a process: Goto moves it, Hold sets its locals, and Finish    *)
(* returns to the loop (or to "idle") the handler was called from.          *)
(***************************************************************************)
Goto(p, label) == pc' = [pc EXCEPT ![p] = label]

Hold(p, s, a, g) ==
    /\ exec' = [exec EXCEPT ![p] = s]
    /\ att' = [att EXCEPT ![p] = a]
    /\ goal' = [goal EXCEPT ![p] = g]

\* Where a process is once the list of its loop is used up.
Rest(label) ==
    CASE label = "disconnect" -> "closed"
      [] label \in {"reap", "drop"} -> label
      [] OTHER -> "idle"

Return(p, executionsLeft, attemptsLeft) ==
    Goto(p, IF executionsLeft = {} /\ attemptsLeft = {} THEN Rest(loop[p]) ELSE loop[p])

Finish(p) == Return(p, todo[p], open[p]) /\ Hold(p, NoExecution, 0, "None")

Enter(p, label, list) ==
    /\ loop' = [loop EXCEPT ![p] = label]
    /\ Goto(p, IF list = {} THEN Rest(label) ELSE label)

\* Environment events of the kinds an instance allows, counted so that every
\* behaviour stays finite.
Spend(kind, n) ==
    /\ n <= events /\ events' = events - n
    /\ n # 0 => kind \in EventKinds

-----------------------------------------------------------------------------
(* Choosing an executor.  The round-robin cursor is in module RingBuffer;    *)
(* here any eligible entry may be the next one.                              *)

Pool == {registered[i] : i \in Instances} \ {NoConn}

\* Broken variant: off by one.
HasCapacityOffByOne(c) == Capacity = 0 \/ Cardinality(inFlight[c]) <= Capacity

HasCapacity(c) == Capacity = 0 \/ Cardinality(inFlight[c]) < Capacity

Eligible(S) == {c \in S : host[c] \in Compatible /\ HasCapacity(c)}

LabelPool == {c \in Pool : host[c] \in Labeled}

SelectExecutor ==
    CASE Pin = "none" -> Eligible(Pool)
      [] Pin # "none" /\ Eligible(LabelPool) # {} -> Eligible(LabelPool)
      [] Pin = "preferred" /\ Eligible(LabelPool) = {} -> Eligible(Pool)
      [] OTHER -> {}

\* Broken variant: a delivery not yet accepted does not count as active.
OverlappingRunningOnly(s) ==
    \E e \in Executions \ {s.id} : executions[e].state = "Running"

\* HasActiveExecution, excluding the execution itself.
Overlapping(s) ==
    \E e \in Executions \ {s.id} : executions[e].state \in LeasedStates

\* parkUndispatchable: where an execution without an executor goes.
Park(s) ==
    LET park(state) == Goto("dispatcher", "transition") /\ Hold("dispatcher", s, 0, state) IN
    IF Pin = "required" /\ LabelPool = {} THEN park("WaitingLabel")
    ELSE IF Pool = {} THEN park("WaitingExecutor")
    ELSE IF \E c \in Pool : host[c] \in Compatible
         THEN Goto("dispatcher", "requeue") /\ Hold("dispatcher", s, 0, "None")
         ELSE park("WaitingCompatible")

-----------------------------------------------------------------------------
(* The timing loop: processDue and dispatchExecution.                        *)

DueScan ==
    /\ pc["dispatcher"] = "idle"
    /\ \E S \in SUBSET {s \in InStates(DueStates) : s.version < MaxVersion} :
          S # {} /\ todo' = [todo EXCEPT !["dispatcher"] = S]
    /\ Enter("dispatcher", "due", todo'["dispatcher"])
    /\ UNCHANGED <<storeVars, registryVars, wireVars, localVars, open, entry, boundVars>>

Consider ==
    /\ pc["dispatcher"] = "due"
    /\ \E s \in todo["dispatcher"] :
        /\ IsFirst(s, todo["dispatcher"])
        /\ todo' = [todo EXCEPT !["dispatcher"] = @ \ {s}]
        /\ \/ /\ job # "enabled"
              /\ Goto("dispatcher", "transition") /\ Hold("dispatcher", s, 0, "Cancelled")
              /\ UNCHANGED entry
           \/ /\ job = "enabled" /\ SkipOverlap /\ Overlapping(s)
              /\ Goto("dispatcher", "transition") /\ Hold("dispatcher", s, 0, "Skipped")
              /\ UNCHANGED entry
           \/ /\ job = "enabled" /\ ~(SkipOverlap /\ Overlapping(s))
              /\ SelectExecutor = {} /\ Park(s)
              /\ UNCHANGED entry
           \/ /\ job = "enabled" /\ ~(SkipOverlap /\ Overlapping(s))
              /\ lastAttempt < MaxAttempt
              /\ entry' \in SelectExecutor
              /\ Goto("dispatcher", "claim") /\ Hold("dispatcher", s, 0, "None")
    /\ UNCHANGED <<storeVars, registryVars, wireVars, open, loop, boundVars>>

\* Broken variant: the retry budget is charged at dispatch.
ClaimCharges ==
    LET s == exec["dispatcher"] IN
    /\ pc["dispatcher"] = "claim"
    /\ \/ /\ Accepts(s, "Dispatching")
          /\ executions' = Updated(s, "Dispatching", executions[s.id].fa + 1, executions[s.id].cur)
          /\ Goto("dispatcher", "create") /\ Hold("dispatcher", executions'[s.id], 0, "None")
       \/ ~Accepts(s, "Dispatching") /\ Finish("dispatcher") /\ UNCHANGED executions
    /\ UNCHANGED <<attempts, lastAttempt, job, registryVars, wireVars, listVars, loop, entry, boundVars>>

Claim ==
    LET s == exec["dispatcher"] IN
    /\ pc["dispatcher"] = "claim"
    /\ \/ /\ Accepts(s, "Dispatching")
          /\ executions' = Updated(s, "Dispatching", executions[s.id].fa, executions[s.id].cur)
          /\ Goto("dispatcher", "create") /\ Hold("dispatcher", executions'[s.id], 0, "None")
       \/ ~Accepts(s, "Dispatching") /\ Finish("dispatcher") /\ UNCHANGED executions
    /\ UNCHANGED <<attempts, lastAttempt, job, registryVars, wireVars, listVars, loop, entry, boundVars>>

CreateAttempt ==
    LET s == exec["dispatcher"]  a == lastAttempt + 1 IN
    /\ pc["dispatcher"] = "create" /\ a \in Attempts
    /\ lastAttempt' = a
    /\ attempts' = [attempts EXCEPT ![a] = [exec |-> s.id, inst |-> host[entry], state |-> "Dispatched"]]
    /\ Goto("dispatcher", "fence") /\ Hold("dispatcher", s, a, "None")
    /\ UNCHANGED <<executions, job, registryVars, wireVars, listVars, loop, entry, boundVars>>

\* Broken variant: the fence ignores that the execution moved on.
FenceUnchecked ==
    LET s == exec["dispatcher"]  now == executions[s.id] IN
    /\ pc["dispatcher"] = "fence"
    /\ executions' = [executions EXCEPT ![s.id].cur = att["dispatcher"], ![s.id].version = @ + 1]
    /\ Goto("dispatcher", "send")
    /\ Hold("dispatcher", executions'[s.id], att["dispatcher"], "None")
    /\ UNCHANGED <<attempts, lastAttempt, job, registryVars, wireVars, listVars, loop, entry, boundVars>>

\* The fence names the attempt whose messages count from now on.
Fence ==
    LET s == exec["dispatcher"]  now == executions[s.id] IN
    /\ pc["dispatcher"] = "fence"
    /\ \/ /\ now.version = s.version
          /\ executions' = Updated(s, now.state, now.fa, att["dispatcher"])
          /\ Goto("dispatcher", "send")
          /\ Hold("dispatcher", executions'[s.id], att["dispatcher"], "None")
       \/ now.version # s.version /\ Finish("dispatcher") /\ UNCHANGED executions
    /\ UNCHANGED <<attempts, lastAttempt, job, registryVars, wireVars, listVars, loop, entry, boundVars>>

\* AddInFlight and Enqueue.  A dead link may swallow the request or refuse it;
\* a full queue refuses it, and the booking is undone.
Send ==
    LET a == att["dispatcher"] IN
    /\ pc["dispatcher"] = "send"
    /\ \/ /\ inFlight' = [inFlight EXCEPT ![entry] = @ \cup {a}]
          /\ toExecutor' = IF entry \in up THEN [toExecutor EXCEPT ![entry] = Append(@, a)]
                           ELSE toExecutor
          /\ Goto("dispatcher", "materialize")
          /\ UNCHANGED events
       \/ /\ Spend("queue", IF entry \in up THEN 1 ELSE 0)
          /\ Goto("dispatcher", "sendFailed")
          /\ UNCHANGED <<inFlight, toExecutor>>
    /\ UNCHANGED <<storeVars, registered, host, up, toEngine, work, localVars, listVars, loop, entry, jobOps>>

SendFailed ==
    /\ pc["dispatcher"] = "sendFailed"
    /\ UpdateAttemptState(att["dispatcher"], {"Dispatched"}, "InfraFailed")
    /\ Goto("dispatcher", "requeue")
    /\ UNCHANGED <<executions, lastAttempt, job, registryVars, wireVars, localVars, listVars, loop, entry, boundVars>>

\* materializeNext: create the following occurrence unless it exists already.
Materialize ==
    LET n == exec["dispatcher"].id + 1 IN
    /\ pc["dispatcher"] = "materialize"
    /\ executions' = IF n \in Executions /\ job # "deleted" /\ executions[n].state = "Absent"
                     THEN [executions EXCEPT ![n] =
                            [id |-> n, state |-> "Scheduled", fa |-> 0, cur |-> 0, version |-> 1]]
                     ELSE executions
    /\ Finish("dispatcher")
    /\ UNCHANGED <<attempts, lastAttempt, job, registryVars, wireVars, listVars, loop, entry, boundVars>>

-----------------------------------------------------------------------------
(* Helpers that every process calls: transition, requeueReady and            *)
(* abandonAttempt.                                                           *)

\* The version-checked write of a new state; a lost race is only logged.  The
\* timing loop materializes the next occurrence after skipping this one.
Transition(p) ==
    /\ pc[p] = "transition"
    /\ UpdateState(exec[p], goal[p])
    /\ IF p = "dispatcher" /\ goal[p] = "Skipped"
       THEN Goto(p, "materialize") /\ UNCHANGED localVars
       ELSE Finish(p)
    /\ UNCHANGED <<attempts, lastAttempt, job, registryVars, wireVars, listVars, loop, entry, boundVars>>

\* requeueReady re-reads the execution and requeues whatever it finds.
Requeue(p) ==
    LET fresh == executions[exec[p].id] IN
    /\ pc[p] = "requeue"
    /\ IF fresh.state \in TerminalStates THEN Finish(p)
       ELSE Goto(p, "transition") /\ Hold(p, fresh, att[p], "Ready")
    /\ UNCHANGED <<storeVars, registryVars, wireVars, listVars, loop, entry, boundVars>>

\* Broken variant: the abandoned execution is not requeued.
AbandonForgets(p) ==
    /\ pc[p] = "abandon"
    /\ UpdateAttemptState(att[p], OpenAttemptStates, "Lost")
    /\ Finish(p)
    /\ UNCHANGED <<executions, lastAttempt, job, registryVars, wireVars, listVars, loop, entry, boundVars>>

\* abandonAttempt up to its requeueReady: mark the attempt Lost, free its slot.
Abandon(p) ==
    LET a == att[p] IN
    /\ pc[p] = "abandon"
    /\ UpdateAttemptState(a, OpenAttemptStates, "Lost")
    /\ Release(IF a = 0 THEN NoInstance ELSE attempts[a].inst, a)
    /\ Goto(p, "requeue")
    /\ UNCHANGED <<executions, lastAttempt, job, registered, host, wireVars, localVars, listVars, loop, entry, boundVars>>

-----------------------------------------------------------------------------
(* The reconcile loop: reapExpiredLeases, then requeueWaitingWithPools.      *)

\* Somebody may still settle the current attempt of e.
Busy(e) ==
    LET a == executions[e].cur IN
    \/ \E p \in Procs : exec[p].id = e
    \/ a # 0 /\ work[a] = "running"
    \/ \E c \in Conns : \E n \in DOMAIN toExecutor[c] : toExecutor[c][n] = a
    \/ \E c \in Conns : \E n \in DOMAIN toEngine[c] : toEngine[c][n].att = a

\* The loops start only once recoverOnStartup is done.
Recovering == loop["dispatcher"] = "recover" /\ pc["dispatcher"] # "idle"

Leased == {e \in Executions : executions[e].state \in LeasedStates}

Orphaned == {e \in Leased : ~Busy(e)}

\* A lease may run out under a live attempt too (an environment event).
ReapScan(S) ==
    /\ pc["reaper"] = "idle" /\ ~Recovering
    /\ S # {} \/ InStates(WaitingStates) # {}
    /\ Spend("expiry", Cardinality(S \ Orphaned))
    /\ todo' = [todo EXCEPT !["reaper"] = {executions[e] : e \in S}]
    /\ Enter("reaper", "reap", S)
    /\ UNCHANGED <<storeVars, registryVars, wireVars, localVars, open, entry, jobOps>>

\* One abandonAttempt call of reapExpiredLeases or recoverOnStartup.
AbandonNext(p) ==
    /\ pc[p] \in {"reap", "recover"}
    /\ \E s \in todo[p] :
        /\ IsFirst(s, todo[p])
        /\ todo' = [todo EXCEPT ![p] = @ \ {s}]
        /\ Hold(p, s, s.cur, "None")
    /\ Goto(p, "abandon")
    /\ UNCHANGED <<storeVars, registryVars, wireVars, open, loop, entry, boundVars>>

WaitingScan ==
    /\ pc["reaper"] = "reap" /\ todo["reaper"] = {}
    /\ todo' = [todo EXCEPT !["reaper"] = InStates(WaitingStates)]
    /\ Enter("reaper", "rewait", InStates(WaitingStates))
    /\ UNCHANGED <<storeVars, registryVars, wireVars, localVars, open, entry, boundVars>>

\* The reconcile pass requeues while the pool has anyone; a registration only
\* requeues label waits for a label it announced.
Reconsiders(p, s) ==
    /\ job # "deleted"
    /\ IF p = "reaper" THEN Pool # {}
       ELSE s.state = "WaitingLabel" => host[p] \in Labeled

RewaitNext(p) ==
    /\ pc[p] = "rewait"
    /\ \E s \in todo[p] :
        /\ IsFirst(s, todo[p])
        /\ todo' = [todo EXCEPT ![p] = @ \ {s}]
        /\ IF Reconsiders(p, s) THEN Hold(p, s, 0, "None") /\ Goto(p, "requeue")
           ELSE Return(p, todo'[p], open[p]) /\ UNCHANGED localVars
    /\ UNCHANGED <<storeVars, registryVars, wireVars, open, loop, entry, boundVars>>

-----------------------------------------------------------------------------
(* Registrations and the messages of one connection.                         *)

Register(i, c) ==
    /\ pc[c] = "unborn" /\ c = (CHOOSE d \in Conns : pc[d] = "unborn")
    /\ \A d \in up : host[d] # i
    /\ host' = [host EXCEPT ![c] = i]
    /\ registered' = [registered EXCEPT ![i] = c]
    /\ up' = up \cup {c}
    /\ Goto(c, "reconsider")
    /\ UNCHANGED <<storeVars, inFlight, toExecutor, toEngine, work, localVars, listVars, loop, entry, boundVars>>

\* reconsiderWaiting lists the waiting executions once the entry is in place.
Reconsider(c) ==
    /\ pc[c] = "reconsider"
    /\ todo' = [todo EXCEPT ![c] = InStates(WaitingStates)]
    /\ Enter(c, "rewait", InStates(WaitingStates))
    /\ UNCHANGED <<storeVars, registryVars, wireVars, localVars, open, entry, boundVars>>

\* The connection's reader takes the next message off the wire.
Receive(c, types) ==
    /\ pc[c] = "idle" /\ toEngine[c] # <<>>
    /\ Head(toEngine[c]).type \in types
    /\ toEngine' = [toEngine EXCEPT ![c] = Tail(@)]

\* Broken variant: any attempt of the execution counts.
CurrentUnfenced(c, a) == attempts[a].inst = host[c]

\* A message counts only for the fenced attempt and from the instance it went to.
Current(c, a) ==
    executions[attempts[a].exec].cur = a /\ attempts[a].inst = host[c]

HandleExecAccept(c) ==
    LET a == Head(toEngine[c]).att  e == executions[attempts[a].exec] IN
    /\ Receive(c, {"accept"})
    /\ IF Current(c, a) /\ e.state = "Dispatching"
       THEN Goto(c, "acceptRun") /\ Hold(c, e, a, "None")
       ELSE UNCHANGED <<pc, localVars>>
    /\ UNCHANGED <<storeVars, registryVars, up, toExecutor, work, listVars, loop, entry, boundVars>>

AcceptRun(c) ==
    LET s == exec[c] IN
    /\ pc[c] = "acceptRun"
    /\ \/ /\ Accepts(s, "Running")
          /\ executions' = Updated(s, "Running", s.fa + 1, executions[s.id].cur)
          /\ Goto(c, "acceptMark") /\ UNCHANGED localVars
       \/ ~Accepts(s, "Running") /\ Finish(c) /\ UNCHANGED executions
    /\ UNCHANGED <<attempts, lastAttempt, job, registryVars, wireVars, listVars, loop, entry, boundVars>>

AcceptMark(c) ==
    /\ pc[c] = "acceptMark"
    /\ UpdateAttemptState(att[c], {"Dispatched"}, "Accepted")
    /\ Finish(c)
    /\ UNCHANGED <<executions, lastAttempt, job, registryVars, wireVars, listVars, loop, entry, boundVars>>

HandleExecReject(c) ==
    LET m == Head(toEngine[c]) IN
    /\ Receive(c, {"reject", "incompatible"})
    /\ IF Current(c, m.att)
       THEN /\ Goto(c, "rejectMark")
            /\ Hold(c, executions[attempts[m.att].exec], m.att,
                    IF m.type = "incompatible" THEN "WaitingCompatible" ELSE "Ready")
       ELSE UNCHANGED <<pc, localVars>>
    /\ UNCHANGED <<storeVars, registryVars, up, toExecutor, work, listVars, loop, entry, boundVars>>

\* Broken variant: the rejection is recorded on whatever attempt is current.
RejectMarkCurrent(c) ==
    LET a == executions[exec[c].id].cur IN
    /\ pc[c] = "rejectMark"
    /\ UpdateAttemptState(a, {"Dispatched"}, "InfraFailed")
    /\ IF attempts[a].state = "Dispatched"
       THEN /\ Release(host[c], a)
            /\ Goto(c, IF goal[c] = "Ready" THEN "requeue" ELSE "transition")
            /\ UNCHANGED localVars
       ELSE Finish(c) /\ UNCHANGED inFlight
    /\ UNCHANGED <<executions, lastAttempt, job, registered, host, wireVars, listVars, loop, entry, boundVars>>

\* settleRejectedAttempt: an incompatible function parks the execution it read,
\* any other refusal requeues whatever it finds.
RejectMark(c) ==
    /\ pc[c] = "rejectMark"
    /\ UpdateAttemptState(att[c], {"Dispatched"}, "InfraFailed")
    /\ IF attempts[att[c]].state = "Dispatched"
       THEN /\ Release(host[c], att[c])
            /\ Goto(c, IF goal[c] = "Ready" THEN "requeue" ELSE "transition")
            /\ UNCHANGED localVars
       ELSE Finish(c) /\ UNCHANGED inFlight
    /\ UNCHANGED <<executions, lastAttempt, job, registered, host, wireVars, listVars, loop, entry, boundVars>>

HandleExecResult(c) ==
    LET m == Head(toEngine[c])  e == executions[attempts[m.att].exec] IN
    /\ Receive(c, {"ok", "retryable", "fatal"})
    /\ IF Current(c, m.att) /\ e.state = "Running"
       THEN /\ Release(host[c], m.att)
            /\ Goto(c, IF m.type = "ok" THEN "succeed" ELSE "failMark")
            /\ Hold(c, e, m.att, IF m.type = "retryable" THEN "RetryWait" ELSE "Failed")
       ELSE UNCHANGED <<pc, localVars, inFlight>>
    /\ UNCHANGED <<storeVars, registered, host, up, toExecutor, work, listVars, loop, entry, boundVars>>

\* settleSuccess: the execution first, then its attempt.
Succeed(c) ==
    LET s == exec[c] IN
    /\ pc[c] = "succeed"
    /\ \/ /\ Accepts(s, "Succeeded")
          /\ executions' = Updated(s, "Succeeded", executions[s.id].fa, executions[s.id].cur)
          /\ Goto(c, "succeedMark") /\ UNCHANGED localVars
       \/ ~Accepts(s, "Succeeded") /\ Finish(c) /\ UNCHANGED executions
    /\ UNCHANGED <<attempts, lastAttempt, job, registryVars, wireVars, listVars, loop, entry, boundVars>>

SucceedMark(c) ==
    /\ pc[c] = "succeedMark"
    /\ UpdateAttemptState(att[c], {"Accepted"}, "Succeeded")
    /\ Finish(c)
    /\ UNCHANGED <<executions, lastAttempt, job, registryVars, wireVars, listVars, loop, entry, boundVars>>

\* Broken variant: the execution is given the attempt's state name.
FailMarkWrongEnum(c) ==
    /\ pc[c] = "failMark"
    /\ UpdateAttemptState(att[c], {"Accepted"}, "FunctionFailed")
    /\ Goto(c, "transition")
    /\ Hold(c, exec[c], att[c], "FunctionFailed")
    /\ UNCHANGED <<executions, lastAttempt, job, registryVars, wireVars, listVars, loop, entry, boundVars>>

\* settleFailure: the attempt first; then retry, or fail for good.
FailMark(c) ==
    LET retry == goal[c] = "RetryWait" /\ job # "deleted" /\ exec[c].fa < MaxFunctionAttempts IN
    /\ pc[c] = "failMark"
    /\ UpdateAttemptState(att[c], {"Accepted"}, "FunctionFailed")
    /\ Goto(c, "transition")
    /\ Hold(c, exec[c], att[c], IF retry THEN "RetryWait" ELSE "Failed")
    /\ UNCHANGED <<executions, lastAttempt, job, registryVars, wireVars, listVars, loop, entry, boundVars>>

\* The transport notices a dead connection: Deregister refuses a connection
\* that was replaced meanwhile, and only then is HandleDisconnect called.
Deregister(c) ==
    /\ pc[c] = "idle" /\ c \notin up
    /\ IF registered[host[c]] = c
       THEN registered' = [registered EXCEPT ![host[c]] = NoConn] /\ Goto(c, "disconnectList")
       ELSE Goto(c, "closed") /\ UNCHANGED registered
    /\ UNCHANGED <<storeVars, host, inFlight, wireVars, localVars, listVars, loop, entry, boundVars>>

DisconnectList(c) ==
    /\ pc[c] = "disconnectList"
    /\ open' = [open EXCEPT ![c] = OpenOn(host[c])]
    /\ Enter(c, "disconnect", OpenOn(host[c]))
    /\ UNCHANGED <<storeVars, registryVars, wireVars, localVars, todo, entry, boundVars>>

\* The next open attempt of a HandleDisconnect or HandleHeartbeat loop, which
\* skips attempts that are no longer the fenced one of a leased execution.
NextOpen(p, label) ==
    \E a \in open[p] :
        LET e == executions[attempts[a].exec] IN
        /\ IsLeast(a, open[p])
        /\ open' = [open EXCEPT ![p] = @ \ {a}]
        /\ IF e.cur = a /\ e.state \in LeasedStates
           THEN Goto(p, label) /\ Hold(p, e, a, IF label = "transition" THEN e.state ELSE "None")
           ELSE Return(p, todo[p], open'[p]) /\ UNCHANGED localVars

DisconnectNext(c) ==
    /\ pc[c] = "disconnect"
    /\ NextOpen(c, "abandon")
    /\ UNCHANGED <<storeVars, registryVars, wireVars, todo, loop, entry, boundVars>>

-----------------------------------------------------------------------------
(* The heartbeat pump.  A renewal writes only the lease, so it is a write of *)
(* the state it read.  Attempts older than the configured maximum execution  *)
(* time are left out: any subset of the open ones may be renewed.            *)

HandleHeartbeat(i) ==
    /\ pc["pump"] = "idle" /\ Spend("heartbeat", 1)
    /\ \E S \in SUBSET OpenOn(i) : S # {} /\ open' = [open EXCEPT !["pump"] = S]
    /\ Enter("pump", "beat", open'["pump"])
    /\ UNCHANGED <<storeVars, registryVars, wireVars, localVars, todo, entry, jobOps>>

HeartbeatNext ==
    /\ pc["pump"] = "beat"
    /\ NextOpen("pump", "transition")
    /\ UNCHANGED <<storeVars, registryVars, wireVars, todo, loop, entry, boundVars>>

-----------------------------------------------------------------------------
(* Job operations: an upsert that disables the job, and a delete.            *)

\* Broken variant: leased work is cancelled too.
CancellableAll == InStates(ExecutionStateSet \ TerminalStates)

Cancellable == InStates(DueStates \cup WaitingStates)

HandleJobUpsert ==
    /\ pc["admin"] = "idle" /\ "disable" \in jobOps /\ job = "enabled"
    /\ jobOps' = jobOps \ {"disable"}
    /\ job' = "disabled"
    /\ Goto("admin", "cancelList")
    /\ UNCHANGED <<executions, attempts, lastAttempt, registryVars, wireVars, localVars, listVars, loop, entry, events>>

CancelReplaced ==
    /\ pc["admin"] = "cancelList"
    /\ todo' = [todo EXCEPT !["admin"] = Cancellable]
    /\ Enter("admin", "cancel", Cancellable)
    /\ UNCHANGED <<storeVars, registryVars, wireVars, localVars, open, entry, boundVars>>

HandleJobDelete ==
    /\ pc["admin"] = "idle" /\ "delete" \in jobOps
    /\ jobOps' = jobOps \ {"delete"}
    /\ todo' = [todo EXCEPT !["admin"] = Cancellable]
    /\ Enter("admin", "drop", Cancellable)
    /\ UNCHANGED <<storeVars, registryVars, wireVars, localVars, open, entry, events>>

CancelNext ==
    /\ pc["admin"] \in {"cancel", "drop"}
    /\ \E s \in todo["admin"] :
        /\ IsFirst(s, todo["admin"])
        /\ todo' = [todo EXCEPT !["admin"] = @ \ {s}]
        /\ Hold("admin", s, 0, "Cancelled")
    /\ Goto("admin", "transition")
    /\ UNCHANGED <<storeVars, registryVars, wireVars, open, loop, entry, boundVars>>

DeleteJob ==
    /\ pc["admin"] = "drop" /\ todo["admin"] = {}
    /\ job' = "deleted"
    /\ Goto("admin", "idle")
    /\ UNCHANGED <<executions, attempts, lastAttempt, registryVars, wireVars, localVars, listVars, loop, entry, boundVars>>

-----------------------------------------------------------------------------
(* The executor process (handleExecRequest, runExecution) and the transport. *)

RunningOn(i) == {a \in Attempts : work[a] = "running" /\ attempts[a].inst = i}

Sink(c, m) == toEngine' = [toEngine EXCEPT ![c] = Append(@, m)]

HandleExecRequest(c) ==
    LET a == Head(toExecutor[c])
        free == Capacity = 0 \/ Cardinality(RunningOn(host[c])) < Capacity IN
    /\ c \in up /\ toExecutor[c] # <<>>
    /\ toExecutor' = [toExecutor EXCEPT ![c] = Tail(@)]
    /\ \/ /\ free
          /\ work' = [work EXCEPT ![a] = "running"]
          /\ Sink(c, [type |-> "accept", att |-> a])
          /\ UNCHANGED events
       \/ /\ ~free                          \* capacity exhausted
          /\ Sink(c, [type |-> "reject", att |-> a])
          /\ UNCHANGED <<work, events>>
       \/ /\ Spend("reject", 1)             \* shutting down, or unknown function
          /\ \E t \in {"reject", "incompatible"} : Sink(c, [type |-> t, att |-> a])
          /\ UNCHANGED work
       \/ Spend("queue", 1) /\ UNCHANGED <<toEngine, work>>   \* the answer did not fit its queue
    /\ UNCHANGED <<storeVars, registryVars, up, controlVars, localVars, listVars, entry, jobOps>>

\* The function returns; its result goes out on whatever connection is up.
RunExecution(a) ==
    LET live == {c \in up : host[c] = attempts[a].inst} IN
    /\ work[a] = "running"
    /\ \E t \in {"ok", "retryable", "fatal"} :
        /\ work' = [work EXCEPT ![a] = t]
        /\ \/ /\ \E c \in live : Sink(c, [type |-> t, att |-> a])
              /\ Spend("failure", IF t = "ok" THEN 0 ELSE 1)
           \/ /\ UNCHANGED toEngine          \* not connected, or its queue is full
              /\ Spend("queue", IF live = {} THEN 0 ELSE 1)
    /\ UNCHANGED <<storeVars, registryVars, up, toExecutor, controlVars, localVars, listVars, entry, jobOps>>

Drop(c) ==
    /\ c \in up /\ Spend("drop", LossCost)
    /\ up' = up \ {c}
    /\ toExecutor' = [toExecutor EXCEPT ![c] = <<>>]
    /\ toEngine' = [toEngine EXCEPT ![c] = <<>>]
    /\ UNCHANGED <<storeVars, registryVars, work, controlVars, localVars, listVars, entry, jobOps>>

\* An executor process dies with everything it was running.
ExecutorCrash(i) ==
    /\ RunningOn(i) # {} /\ Spend("crash", LossCost)
    /\ work' = [a \in Attempts |-> IF a \in RunningOn(i) THEN "gone" ELSE work[a]]
    /\ up' = {c \in up : host[c] # i}
    /\ toExecutor' = [c \in Conns |-> IF host[c] = i THEN <<>> ELSE toExecutor[c]]
    /\ toEngine' = [c \in Conns |-> IF host[c] = i THEN <<>> ELSE toEngine[c]]
    /\ UNCHANGED <<storeVars, registryVars, controlVars, localVars, listVars, entry, jobOps>>

\* The scheduler process dies and a new one starts over the same store:
\* recoverOnStartup abandons what was leased before the loops start.
Restart ==
    /\ Spend("restart", LossCost)
    /\ registered' = [i \in Instances |-> NoConn]
    /\ inFlight' = [c \in Conns |-> {}]
    /\ up' = {}
    /\ toExecutor' = [c \in Conns |-> <<>>]
    /\ toEngine' = [c \in Conns |-> <<>>]
    /\ pc' = [p \in Procs |-> IF p = "dispatcher"
                              THEN IF Leased = {} THEN "idle" ELSE "recover"
                              ELSE IF pc[p] = "unborn" THEN "unborn"
                              ELSE IF p \in Conns THEN "closed" ELSE "idle"]
    /\ loop' = [p \in Procs |-> IF p = "dispatcher" THEN "recover" ELSE "idle"]
    /\ exec' = [p \in Procs |-> NoExecution]
    /\ att' = [p \in Procs |-> 0]
    /\ goal' = [p \in Procs |-> "None"]
    /\ todo' = [p \in Procs |-> IF p = "dispatcher" THEN InStates(LeasedStates) ELSE {}]
    /\ open' = [p \in Procs |-> {}]
    /\ entry' = NoConn
    /\ UNCHANGED <<storeVars, host, work, jobOps>>

-----------------------------------------------------------------------------
\* One executor may have registered before the job was upserted.
FirstConn == CHOOSE c \in Conns : TRUE

Init ==
    /\ executions = [e \in Executions |->
          [id |-> e, state |-> IF e = 1 THEN "Scheduled" ELSE "Absent",
           fa |-> 0, cur |-> 0, version |-> IF e = 1 THEN 1 ELSE 0]]
    /\ attempts = [a \in Attempts |-> [exec |-> 0, inst |-> NoInstance, state |-> "Absent"]]
    /\ lastAttempt = 0 /\ job = "enabled"
    /\ registered = [i \in Instances |-> IF i = Connected THEN FirstConn ELSE NoConn]
    /\ host = [c \in Conns |-> IF c = FirstConn THEN Connected ELSE NoInstance]
    /\ inFlight = [c \in Conns |-> {}]
    /\ up = IF Connected \in Instances THEN {FirstConn} ELSE {}
    /\ toExecutor = [c \in Conns |-> <<>>] /\ toEngine = [c \in Conns |-> <<>>]
    /\ work = [a \in Attempts |-> "none"]
    /\ pc = [p \in Procs |-> IF p \in Conns /\ (p = FirstConn => Connected = NoInstance)
                             THEN "unborn" ELSE "idle"]
    /\ loop = [p \in Procs |-> "idle"]
    /\ exec = [p \in Procs |-> NoExecution]
    /\ att = [p \in Procs |-> 0] /\ goal = [p \in Procs |-> "None"]
    /\ todo = [p \in Procs |-> {}] /\ open = [p \in Procs |-> {}]
    /\ entry = NoConn
    /\ jobOps = JobOps /\ events = MaxEvents

DispatcherStep ==
    DueScan \/ Consider \/ Claim \/ CreateAttempt \/ Fence \/ Send \/ SendFailed \/ Materialize

ReaperStep == WaitingScan \/ \E S \in SUBSET Leased : ReapScan(S)

CallStep(p) ==
    Transition(p) \/ Requeue(p) \/ Abandon(p) \/ AbandonNext(p) \/ RewaitNext(p)

ReaderStep(c) ==
    \/ Reconsider(c) \/ HandleExecAccept(c) \/ AcceptRun(c) \/ AcceptMark(c)
    \/ HandleExecReject(c) \/ RejectMark(c) \/ HandleExecResult(c)
    \/ Succeed(c) \/ SucceedMark(c) \/ FailMark(c)
    \/ Deregister(c) \/ DisconnectList(c) \/ DisconnectNext(c)

AdminStep == HandleJobUpsert \/ CancelReplaced \/ HandleJobDelete \/ CancelNext \/ DeleteJob

ExecutorStep == (\E c \in Conns : HandleExecRequest(c)) \/ (\E a \in Attempts : RunExecution(a))

Connect == \E i \in Instances, c \in Conns : Register(i, c)

Next ==
    \/ DispatcherStep
    \/ ReaperStep
    \/ \E p \in Procs : CallStep(p)
    \/ \E c \in Conns : ReaderStep(c)
    \/ \E i \in Instances : HandleHeartbeat(i)
    \/ HeartbeatNext
    \/ AdminStep
    \/ ExecutorStep
    \/ Connect
    \/ \E c \in Conns : Drop(c)
    \/ \E i \in Instances : ExecutorCrash(i)
    \/ Restart

Spec == Init /\ [][Next]_vars

\* Goroutines keep running, connected executors keep working and reconnect, and
\* a lease nobody can renew runs out before some reconcile pass.
Fairness ==
    /\ WF_vars(DispatcherStep) /\ WF_vars(WaitingScan) /\ WF_vars(HeartbeatNext)
    /\ SF_vars(ReapScan(Orphaned))
    /\ \A p \in Procs : WF_vars(CallStep(p))
    /\ \A c \in Conns : WF_vars(ReaderStep(c)) /\ WF_vars(HandleExecRequest(c))
    /\ \A a \in Attempts : WF_vars(RunExecution(a))
    /\ WF_vars(CancelReplaced) /\ WF_vars(CancelNext) /\ WF_vars(DeleteJob)
    /\ WF_vars(Connect)

FairSpec == Spec /\ Fairness

-----------------------------------------------------------------------------
(* Properties.                                                               *)

StoreType ==
    /\ executions \in [Executions -> ExecutionRecords]
    /\ attempts \in [Attempts -> AttemptRecords]
    /\ lastAttempt \in 0 .. MaxAttempt
    /\ job \in {"enabled", "disabled", "deleted"}

RegistryType ==
    /\ registered \in [Instances -> Conns \cup {NoConn}]
    /\ host \in [Conns -> Instances \cup {NoInstance}]
    /\ inFlight \in [Conns -> SUBSET Attempts]

WireType ==
    /\ up \subseteq Conns
    /\ toExecutor \in [Conns -> Seq(Attempts)]
    /\ toEngine \in [Conns -> Seq(Messages)]
    /\ work \in [Attempts -> {"none", "running", "ok", "retryable", "fatal", "gone"}]

ControlType ==
    /\ pc \in [Procs -> Labels] /\ loop \in [Procs -> Labels]
    /\ exec \in [Procs -> ExecutionRecords \cup {NoExecution}]
    /\ att \in [Procs -> 0 .. MaxAttempt]
    /\ goal \in [Procs -> ExecutionStateSet \cup {"None"}]
    /\ todo \in [Procs -> SUBSET ExecutionRecords]
    /\ open \in [Procs -> SUBSET Attempts]
    /\ entry \in Conns \cup {NoConn}

BoundType == jobOps \subseteq JobOps /\ events \in 0 .. MaxEvents

\* The shape of every variable.
TypeOK == StoreType /\ RegistryType /\ WireType /\ ControlType /\ BoundType

\* A copy of an execution some goroutine still holds is never ahead of the
\* store, and while its version is the stored one it is the stored record:
\* what makes UpdateExecution's version check enough to detect every race.
SnapshotsFaithful ==
    \A p \in Procs : \A s \in todo[p] \cup {exec[p]} :
        s.id \in Executions =>
            /\ s.version <= executions[s.id].version
            /\ s.version = executions[s.id].version => s = executions[s.id]

\* An execution is Succeeded only if the executor really returned success for
\* the very attempt the execution names as current, and Failed only if that
\* attempt returned an error - whatever was redispatched, reaped or lost on
\* the way (HandleExecResult's fence).
SettledByCurrentAttempt ==
    \A e \in Executions :
        LET x == executions[e] IN
        /\ x.state = "Succeeded" =>
              x.cur # 0 /\ attempts[x.cur].exec = e /\ work[x.cur] = "ok"
        /\ x.state = "Failed" =>
              x.cur # 0 /\ attempts[x.cur].exec = e /\ work[x.cur] \in {"retryable", "fatal"}

\* The retry budget is charged at most once per attempt an executor admitted:
\* FunctionAttempts never exceeds the attempts that really started.
RetryBudgetHonest ==
    \A e \in Executions :
        executions[e].fa <=
            Cardinality({a \in Attempts : attempts[a].exec = e /\ work[a] # "none"})

\* Under OverlapPolicySkip two occurrences of a job are never leased at once.
NoOverlap ==
    SkipOverlap => \A e, f \in Leased : e = f

\* HasCapacity is checked long before AddInFlight, yet no entry is overbooked.
CapacityRespected ==
    Capacity # 0 => \A c \in Conns : Cardinality(inFlight[c]) <= Capacity

\* Nothing settles or admits an attempt before its request was handed over:
\* between the fence and Enqueue the execution can only have been taken back
\* or cancelled.
NothingBeforeSend ==
    pc["dispatcher"] = "send" =>
        executions[exec["dispatcher"].id].state \in {"Dispatching", "Ready", "Cancelled"}

\* The attempt history never contradicts a success: the attempt a Succeeded
\* execution names was not recorded as rejected, undelivered or failed.
HistoryAgrees ==
    \A e \in Executions :
        executions[e].state = "Succeeded" =>
            attempts[executions[e].cur].state \notin {"InfraFailed", "FunctionFailed"}

\* The refinement mapping: an execution's phase, and the outcomes its attempts had.
Phase(state) ==
    CASE state = "Absent" -> "absent"
      [] state \in LeasedStates -> "leased"
      [] state \in TerminalStates -> state
      [] OTHER -> "pending"

ReportedFor(e) ==
    LET mine == {a \in Attempts : attempts[a].exec = e} IN
    {o \in {"value", "error"} :
        \E a \in mine : \/ o = "value" /\ work[a] = "ok"
                        \/ o = "error" /\ work[a] \in {"retryable", "fatal"}}

Lifecycle == INSTANCE ExecutionLifecycle WITH
    phase <- [e \in Executions |-> Phase(executions[e].state)],
    reported <- [e \in Executions |-> ReportedFor(e)]

\* The engine implements the lifecycle promised for an occurrence: whatever the
\* handlers do to the record, it is leased, given back and settled once, and
\* settled only with an outcome an executor reported.
ImplementsLifecycle == Lifecycle!LifecycleSpec

\* With finitely many faults every materialized occurrence settles: no message
\* loss, dead executor, restart or lost race leaves work behind.
EverySettles ==
    \A e \in Executions :
        executions[e].state # "Absent" ~> executions[e].state \in TerminalStates

\* Everything settled: nothing on the wire, nothing running, nobody mid-handler.
Quiet ==
    /\ \A e \in Executions : executions[e].state \in TerminalStates \cup {"Absent"}
    /\ \A c \in Conns : toExecutor[c] = <<>> /\ toEngine[c] = <<>>
    /\ \A a \in Attempts : work[a] # "running"
    /\ \A p \in Procs : pc[p] \in {"idle", "unborn", "closed"}

\* An entry's in-flight set is what is in flight: once nothing is on the wire,
\* nothing runs and nobody is mid-handler, a settled system holds no slot.
SlotsReturned == Quiet => \A c \in Pool : inFlight[c] = {}

=============================================================================
