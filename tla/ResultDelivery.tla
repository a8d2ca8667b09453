--------------------------- MODULE ResultDelivery ---------------------------
(***************************************************************************)
(* Delivery of results to submitters: the client's submissions and result   *)
(* waiters, the engine's capture, delivery, acknowledgement, redelivery and  *)
(* eviction of held results, and the result tables of the store.             *)
(*                                                                          *)
(* Every store call and every operation of the waiter registry is one step; *)
(* look-ups that follow each other are one step.  The connection of an       *)
(* instance is external: two bounded queues that lose what they hold when   *)
(* the connection drops.  Time is abstracted: a held result may be stale,   *)
(* or past its retention, at any moment, so the times and the counter of    *)
(* sends (MarkResultSent) are not kept.                                     *)
(***************************************************************************)
EXTENDS Naturals, Sequences, FiniteSets, SequencesExt

CONSTANTS
    Instances,        \* submitters
    Keys,             \* job keys
    MaxSubmission,    \* bound: submissions 1..MaxSubmission, each minting its own job UUID
    InstOf, KeyOf,    \* the instance that makes a submission, and the key it names
    MaxExecution,     \* bound on settled executions
    Runs,             \* executions one upsert brings about
    MaxResults, MaxPerInstance, \* the store's and the engine's caps
    QueueLimit,       \* capacity of an outgoing queue
    Courses,          \* who submits, with bounds on lost connections and retention passes
    MayCancel,        \* the submissions whose context may end early
    MayDelete,        \* the keys that may be deleted
    NoInstance

Submissions == 1 .. MaxSubmission
UUIDs == Submissions
Executions == 1 .. MaxExecution
Senders == Instances \cup {"sweeper"}

ASSUME ResultsAssumption ==
    /\ MaxSubmission \in Nat /\ MaxExecution \in Nat /\ Runs \in Nat
    /\ InstOf \in [Submissions -> Instances] /\ KeyOf \in [Submissions -> Keys]
    /\ MaxResults \in Nat /\ MaxPerInstance \in Nat /\ QueueLimit \in Nat
    /\ Courses \subseteq [who : SUBSET Submissions, drops : Nat, evictions : Nat]
    /\ MayCancel \subseteq Submissions /\ MayDelete \subseteq Keys
    /\ NoInstance \notin Instances /\ "sweeper" \notin Instances

VARIABLES
    jobs,        \* store: UUID and submitter of the job of each key, UUID 0 = none
    due,         \* executions of each key that may still settle
    results,     \* store: the held result of each job UUID, exec 0 = none
    byInstance,  \* store: the job UUIDs held for each instance, in storage order
    settled,     \* number of executions settled so far
    capture,     \* the result handler of each settled execution
    sub,         \* client: the submissions
    waiters,     \* each client: the submission waiting under each job UUID, 0 = none
    up,          \* the instances with a registered connection
    toClient, toEngine, \* the queues of each connection
    reader,      \* engine: what each connection's reader has still to do
    outbox,      \* engine: listed results a sender still has to deliver
    evict,       \* engine: listed UUIDs the retention pass still has to delete
    deleting,    \* engine: the job deletion under way
    drops, evictions,   \* bounds
    excused,     \* ghost: executions whose result was replaced, evicted or dropped with its job
    missed,      \* ghost: open submissions whose job's delivery was refused
    latest       \* ghost: the submission each client last registered under each UUID

storeVars == <<jobs, results, byInstance>>
clientVars == <<sub, waiters>>
wireVars == <<up, toClient, toEngine>>
engineVars == <<reader, outbox, evict, deleting>>
boundVars == <<drops, evictions>>
ghostVars == <<excused, missed, latest>>
vars == <<storeVars, due, settled, capture, clientVars, wireVars, engineVars, boundVars, ghostVars>>

NoResult == [inst |-> NoInstance, exec |-> 0]
NoJob == [uuid |-> 0, inst |-> NoInstance]
Idle == [pc |-> "idle", uuid |-> 0, sub |-> 0]

ResultsInit ==
    /\ jobs = [k \in Keys |-> NoJob] /\ due = [k \in Keys |-> 0]
    /\ results = [u \in UUIDs |-> NoResult] /\ byInstance = [i \in Instances |-> <<>>]
    /\ settled = 0
    /\ capture = [e \in Executions |-> [pc |-> "none", uuid |-> 0, inst |-> NoInstance]]
    /\ waiters = [i \in Instances |-> [u \in UUIDs |-> 0]]
    /\ up = Instances
    /\ toClient = [i \in Instances |-> <<>>] /\ toEngine = [i \in Instances |-> <<>>]
    /\ reader = [i \in Instances |-> Idle]
    /\ outbox = [p \in Senders |-> <<>>] /\ evict = {} /\ deleting = NoJob
    /\ \E c \in Courses :
          /\ drops = c.drops /\ evictions = c.evictions
          /\ sub = [s \in Submissions |-> [pc |-> IF s \in c.who THEN "new" ELSE "failed",
                                           uuid |-> s, chan |-> 0, got |-> 0]]
    /\ excused = {} /\ missed = {} /\ latest = [i \in Instances |-> [u \in UUIDs |-> 0]]

-----------------------------------------------------------------------------
(***************************************************************************)
(* The result tables of the store.                                          *)
(***************************************************************************)
Held == {u \in UUIDs : results[u].exec # 0}

\* Broken variant: the job stays listed under the submitter it moved away from.
KeptWithOld(u) == byInstance

\* detachResult: take the job off the list of the instance it is held for.
Detached(u) ==
    IF results[u].exec = 0 THEN byInstance
    ELSE [byInstance EXCEPT ![results[u].inst] = RemoveFirst(@, u)]

\* The store's caps: a new job against both, a moved one against its new instance's.
Fits(u, i) ==
    /\ results[u].exec # 0 \/ Cardinality(Held) < MaxResults
    /\ results[u].inst = i \/ Len(byInstance[i]) < MaxPerInstance

StoreResult(u, i, e) ==
    /\ results' = [results EXCEPT ![u] = [inst |-> i, exec |-> e]]
    /\ byInstance' = IF results[u].inst = i THEN byInstance
                     ELSE [Detached(u) EXCEPT ![i] = Append(@, u)]

DeleteResult(u) ==
    /\ results' = [results EXCEPT ![u] = NoResult]
    /\ byInstance' = Detached(u)

ResultsForInstance(i) ==
    [n \in DOMAIN byInstance[i] |->
        [uuid |-> byInstance[i][n], inst |-> i, exec |-> results[byInstance[i][n]].exec]]

-----------------------------------------------------------------------------
(***************************************************************************)
(* The client: submissions and waiters.                                     *)
(***************************************************************************)
\* Broken variant: whoever waits under the job is dropped.
ReleasedAny(u, s) == [waiters EXCEPT ![InstOf[s]][u] = 0]

\* release: only the submission's own waiter is dropped.
Released(u, s) ==
    IF waiters[InstOf[s]][u] = s THEN [waiters EXCEPT ![InstOf[s]][u] = 0] ELSE waiters

\* UpsertJob, up to its wait: the waiter is open before the upsert is sent.
SubmitJob(s) ==
    LET i == InstOf[s] IN
    /\ sub[s].pc = "new" /\ i \in up
    /\ IF Len(toEngine[i]) < QueueLimit
       THEN /\ waiters' = [waiters EXCEPT ![i][s] = s]
            /\ latest' = [latest EXCEPT ![i][s] = s]
            /\ sub' = [sub EXCEPT ![s].pc = "sent"]
            /\ toEngine' = [toEngine EXCEPT ![i] = Append(@, [type |-> "upsert", sub |-> s])]
       ELSE /\ sub' = [sub EXCEPT ![s].pc = "failed"]
            /\ UNCHANGED <<waiters, latest, toEngine>>
    /\ UNCHANGED <<storeVars, due, settled, capture, up, toClient, engineVars, boundVars,
                   excused, missed>>

\* The caller wakes with the answer and adopts the identity it carries.
Adopt(s) ==
    LET u == sub[s].uuid
        i == InstOf[s] IN
    /\ sub[s].pc = "replied"
    /\ sub' = [sub EXCEPT ![s].pc = "awaiting"]
    /\ IF u # s /\ waiters[i][s] = s
       THEN /\ waiters' = [waiters EXCEPT ![i][s] = 0, ![i][u] = s]
            /\ latest' = [latest EXCEPT ![i][u] = s]
       ELSE UNCHANGED <<waiters, latest>>
    /\ UNCHANGED <<storeVars, due, settled, capture, wireVars, engineVars, boundVars,
                   excused, missed>>

\* Await returns the buffered result and closes the submission.
Await(s) ==
    /\ sub[s].pc = "awaiting" /\ sub[s].chan # 0
    /\ sub' = [sub EXCEPT ![s].pc = "done", ![s].got = sub[s].chan, ![s].chan = 0]
    /\ waiters' = Released(sub[s].uuid, s)
    /\ UNCHANGED <<storeVars, due, settled, capture, wireVars, engineVars, boundVars, ghostVars>>

\* The caller's context ends, or the caller closes the submission.
CloseSubmission(s) ==
    /\ s \in MayCancel /\ sub[s].pc \in {"sent", "replied", "awaiting"}
    /\ sub' = [sub EXCEPT ![s].pc = "closed", ![s].chan = 0]
    /\ waiters' = Released(IF sub[s].pc = "awaiting" THEN sub[s].uuid ELSE s, s)
    /\ UNCHANGED <<storeVars, due, settled, capture, wireVars, engineVars, boundVars, ghostVars>>

\* Ghost: the submissions of instance i that are answered with job u and open,
\* and that no later submission took the job over from.
OpenFor(i, u) ==
    {s \in Submissions : /\ InstOf[s] = i /\ sub[s].uuid = u
                         /\ sub[s].pc = "replied" \/ (sub[s].pc = "awaiting" /\ latest[i][u] = s)}

\* Broken variant: only a caller that is already in Await is handed the result.
OfferAwaiting(i, u, e) ==
    LET s == waiters[i][u] IN
    IF s # 0 /\ sub[s].chan = 0 /\ sub[s].pc = "awaiting" THEN [sub EXCEPT ![s].chan = e] ELSE sub

\* deliver: the waiter's one-slot buffer takes the result or discards a duplicate.
Offer(i, u, e) ==
    LET s == waiters[i][u] IN
    IF s # 0 /\ sub[s].chan = 0 THEN [sub EXCEPT ![s].chan = e] ELSE sub

\* The acknowledgement is lost when the client's own queue is full.
Acknowledged(queue, u) ==
    IF Len(queue) < QueueLimit THEN Append(queue, [type |-> "ack", uuid |-> u]) ELSE queue

\* The client's read loop, one frame: a reply, or a delivery to acknowledge.
ReadFrame(i) ==
    LET m == Head(toClient[i]) IN
    /\ i \in up /\ toClient[i] # <<>>
    /\ toClient' = [toClient EXCEPT ![i] = Tail(@)]
    /\ IF m.type = "reply"
       THEN /\ sub' = IF sub[m.sub].pc = "sent"
                      THEN [sub EXCEPT ![m.sub].pc = "replied", ![m.sub].uuid = m.uuid] ELSE sub
            /\ UNCHANGED <<toEngine, missed>>
       ELSE /\ sub' = Offer(i, m.uuid, m.exec)
            /\ missed' = IF waiters[i][m.uuid] = 0 THEN missed \cup OpenFor(i, m.uuid) ELSE missed
            /\ toEngine' = [toEngine EXCEPT ![i] = Acknowledged(@, m.uuid)]
    /\ UNCHANGED <<storeVars, due, settled, capture, waiters, up, engineVars, boundVars,
                   excused, latest>>

-----------------------------------------------------------------------------
(***************************************************************************)
(* The engine: one reader per connection, the result handlers, the senders. *)
(***************************************************************************)
\* HandleJobUpsert: a known key keeps its UUID and changes its submitter.
\* Occurrences of the replaced version may be cancelled or still be running.
HandleJobUpsert(i) ==
    LET m == Head(toEngine[i])
        k == KeyOf[m.sub]
        u == IF jobs[k].uuid = 0 THEN m.sub ELSE jobs[k].uuid IN
    /\ reader[i].pc = "idle" /\ toEngine[i] # <<>> /\ m.type = "upsert"
    /\ toEngine' = [toEngine EXCEPT ![i] = Tail(@)]
    /\ jobs' = [jobs EXCEPT ![k] = [uuid |-> u, inst |-> i]]
    /\ \E running \in 0 .. due[k] : due' = [due EXCEPT ![k] = running + Runs]
    /\ reader' = [reader EXCEPT ![i] = [pc |-> "reply", uuid |-> u, sub |-> m.sub]]
    /\ UNCHANGED <<results, byInstance, settled, capture, clientVars, up, toClient,
                   outbox, evict, deleting, boundVars, ghostVars>>

\* The answer is put on the connection only after the job is stored and armed.
ReplyUpsert(i) ==
    /\ reader[i].pc = "reply"
    /\ reader' = [reader EXCEPT ![i] = Idle]
    /\ toClient' = IF i \notin up THEN toClient
                   ELSE [toClient EXCEPT ![i] =
                           Append(@, [type |-> "reply", sub |-> reader[i].sub, uuid |-> reader[i].uuid])]
    /\ UNCHANGED <<storeVars, due, settled, capture, clientVars, up, toEngine,
                   outbox, evict, deleting, boundVars, ghostVars>>

\* resultOwnedBy: the result is held for the acknowledging instance.
ResultOwnedBy(i, u) == u \in Range(byInstance[i])

\* HandleResultAck, the ownership check; accepted and refused both delete.
HandleResultAck(i) ==
    LET m == Head(toEngine[i]) IN
    /\ reader[i].pc = "idle" /\ toEngine[i] # <<>> /\ m.type = "ack"
    /\ toEngine' = [toEngine EXCEPT ![i] = Tail(@)]
    /\ reader' = IF ResultOwnedBy(i, m.uuid)
                 THEN [reader EXCEPT ![i] = [pc |-> "delete", uuid |-> m.uuid, sub |-> 0]]
                 ELSE reader
    /\ UNCHANGED <<storeVars, due, settled, capture, clientVars, up, toClient,
                   outbox, evict, deleting, boundVars, ghostVars>>

\* ... and the deletion, which names the job only.
DeleteAcked(i) ==
    /\ reader[i].pc = "delete"
    /\ reader' = [reader EXCEPT ![i] = Idle]
    /\ DeleteResult(reader[i].uuid)
    /\ UNCHANGED <<jobs, due, settled, capture, clientVars, wireVars,
                   outbox, evict, deleting, boundVars, ghostVars>>

\* resultWithinCaps: the engine's own check, before the store's.
ResultWithinCaps(i) ==
    Cardinality(Held) < MaxResults /\ Len(byInstance[i]) < MaxPerInstance

\* An execution settles: its handler reads the job and checks the caps.
CaptureResult(k) ==
    LET e == settled + 1 IN
    /\ due[k] > 0 /\ e \in Executions
    /\ due' = [due EXCEPT ![k] = @ - 1]
    /\ settled' = e
    /\ capture' = [capture EXCEPT ![e] =
                     [uuid |-> jobs[k].uuid, inst |-> jobs[k].inst,
                      pc |-> IF jobs[k].uuid # 0 /\ ResultWithinCaps(jobs[k].inst)
                             THEN "store" ELSE "dropped"]]
    /\ UNCHANGED <<storeVars, clientVars, wireVars, engineVars, boundVars, ghostVars>>

StoreCaptured(e) ==
    LET u == capture[e].uuid IN
    /\ capture[e].pc = "store"
    /\ IF Fits(u, capture[e].inst)
       THEN /\ StoreResult(u, capture[e].inst, e)
            /\ capture' = [capture EXCEPT ![e].pc = "deliver"]
            /\ excused' = excused \cup ({results[u].exec} \ {0})
       ELSE /\ capture' = [capture EXCEPT ![e].pc = "dropped"]
            /\ UNCHANGED <<results, byInstance, excused>>
    /\ UNCHANGED <<jobs, due, settled, clientVars, wireVars, engineVars, boundVars,
                   missed, latest>>

\* deliverResult: to a registered submitter whose queue has room.
Sent(r) ==
    IF r.inst \in up /\ Len(toClient[r.inst]) < QueueLimit
    THEN [toClient EXCEPT ![r.inst] =
            Append(@, [type |-> "delivery", uuid |-> r.uuid, exec |-> r.exec])]
    ELSE toClient

DeliverCaptured(e) ==
    /\ capture[e].pc = "deliver"
    /\ capture' = [capture EXCEPT ![e].pc = "done"]
    /\ toClient' = Sent([uuid |-> capture[e].uuid, inst |-> capture[e].inst, exec |-> e])
    /\ UNCHANGED <<storeVars, due, settled, clientVars, up, toEngine, engineVars, boundVars, ghostVars>>

\* A sender delivers the copies it listed, one by one.
DeliverListed(p) ==
    /\ outbox[p] # <<>>
    /\ outbox' = [outbox EXCEPT ![p] = Tail(@)]
    /\ toClient' = Sent(Head(outbox[p]))
    /\ UNCHANGED <<storeVars, due, settled, capture, clientVars, up, toEngine,
                   reader, evict, deleting, boundVars, ghostVars>>

\* Broken variant: the sweep only looks at its evictions.
NothingStale(i) == <<>>

\* redeliverStaleResults, one connected instance: what it never acknowledged.
Stale(i) == ResultsForInstance(i)

RedeliverStaleResults(i) ==
    /\ i \in up /\ evict = {} /\ outbox["sweeper"] = <<>> /\ Stale(i) # <<>>
    /\ outbox' = [outbox EXCEPT !["sweeper"] = Stale(i)]
    /\ UNCHANGED <<storeVars, due, settled, capture, clientVars, wireVars,
                   reader, evict, deleting, boundVars, ghostVars>>

\* expireResults: the list of the evicted, then one deletion each.
ExpireResults ==
    /\ evictions > 0 /\ evict = {} /\ outbox["sweeper"] = <<>> /\ Held # {}
    /\ evictions' = evictions - 1
    /\ evict' \in SUBSET Held \ {{}}
    /\ UNCHANGED <<storeVars, due, settled, capture, clientVars, wireVars,
                   reader, outbox, deleting, drops, ghostVars>>

Evict(u) ==
    /\ u \in evict
    /\ evict' = evict \ {u}
    /\ excused' = excused \cup ({results[u].exec} \ {0})
    /\ DeleteResult(u)
    /\ UNCHANGED <<jobs, due, settled, capture, clientVars, wireVars,
                   reader, outbox, deleting, boundVars, missed, latest>>

-----------------------------------------------------------------------------
\* HandleJobDelete: cancel what is pending, drop the held result ...
HandleJobDelete(k) ==
    LET u == jobs[k].uuid IN
    /\ k \in MayDelete /\ deleting = NoJob /\ u # 0
    /\ deleting' = jobs[k]
    /\ \E running \in 0 .. due[k] : due' = [due EXCEPT ![k] = running]
    /\ excused' = excused \cup ({results[u].exec} \ {0})
    /\ DeleteResult(u)
    /\ UNCHANGED <<jobs, settled, capture, clientVars, wireVars, reader, outbox, evict, boundVars,
                   missed, latest>>

\* ... then delete the job and free its key.
DeleteJob ==
    /\ deleting # NoJob
    /\ deleting' = NoJob
    /\ jobs' = [k \in Keys |-> IF jobs[k].uuid = deleting.uuid THEN NoJob ELSE jobs[k]]
    /\ UNCHANGED <<results, byInstance, due, settled, capture, clientVars, wireVars,
                   reader, outbox, evict, boundVars, ghostVars>>

-----------------------------------------------------------------------------
\* The connection drops: its queues are lost and calls that wait on it fail.
Disconnect(i) ==
    LET waiting == {s \in Submissions : InstOf[s] = i /\ sub[s].pc = "sent"} IN
    /\ i \in up /\ drops > 0
    /\ drops' = drops - 1
    /\ up' = up \ {i}
    /\ toClient' = [toClient EXCEPT ![i] = <<>>] /\ toEngine' = [toEngine EXCEPT ![i] = <<>>]
    /\ sub' = [s \in Submissions |-> IF s \in waiting THEN [sub[s] EXCEPT !.pc = "failed"] ELSE sub[s]]
    /\ waiters' = [waiters EXCEPT ![i] = [u \in UUIDs |-> IF @[u] \in waiting THEN 0 ELSE @[u]]]
    /\ UNCHANGED <<storeVars, due, settled, capture, engineVars, evictions, ghostVars>>

\* The instance registers again and is greeted with what is held for it.
HandleRegistered(i) ==
    /\ i \notin up /\ outbox[i] = <<>>
    /\ up' = up \cup {i}
    /\ outbox' = [outbox EXCEPT ![i] = ResultsForInstance(i)]
    /\ UNCHANGED <<storeVars, due, settled, capture, clientVars, toClient, toEngine,
                   reader, evict, deleting, boundVars, ghostVars>>

ResultsNext ==
    \/ \E s \in Submissions : SubmitJob(s) \/ Adopt(s) \/ Await(s) \/ CloseSubmission(s)
    \/ \E i \in Instances :
          \/ ReadFrame(i) \/ HandleJobUpsert(i) \/ ReplyUpsert(i) \/ HandleResultAck(i)
          \/ DeleteAcked(i) \/ RedeliverStaleResults(i) \/ Disconnect(i) \/ HandleRegistered(i)
    \/ \E k \in Keys : CaptureResult(k) \/ HandleJobDelete(k)
    \/ \E e \in Executions : StoreCaptured(e) \/ DeliverCaptured(e)
    \/ \E p \in Senders : DeliverListed(p)
    \/ ExpireResults \/ (\E u \in UUIDs : Evict(u)) \/ DeleteJob

ResultsSpec == ResultsInit /\ [][ResultsNext]_vars

\* Goroutines run, executions settle, a client reconnects and the reconcile
\* ticker comes round; nothing obliges callers to submit, cancel or delete.
ResultsFairness ==
    /\ \A s \in Submissions : WF_vars(Adopt(s)) /\ WF_vars(Await(s))
    /\ \A i \in Instances :
          /\ WF_vars(ReadFrame(i)) /\ WF_vars(HandleJobUpsert(i)) /\ WF_vars(ReplyUpsert(i))
          /\ WF_vars(HandleResultAck(i)) /\ WF_vars(DeleteAcked(i)) /\ WF_vars(HandleRegistered(i))
          /\ SF_vars(RedeliverStaleResults(i))
    /\ \A k \in Keys : WF_vars(CaptureResult(k))
    /\ \A e \in Executions : WF_vars(StoreCaptured(e)) /\ WF_vars(DeliverCaptured(e))
    /\ \A p \in Senders : WF_vars(DeliverListed(p))
    /\ \A u \in UUIDs : WF_vars(Evict(u))

FairResults == ResultsSpec /\ ResultsFairness

-----------------------------------------------------------------------------
\* Each result handler that stored its result.
Stored == {e \in Executions : capture[e].pc \in {"deliver", "done"}}

\* The two result tables agree and stay within the caps: every held job is
\* listed exactly once, under the instance it is held for, and nothing else is
\* listed, also when a result moves to another submitter.
ResultTablesAgree ==
    /\ Cardinality(Held) <= MaxResults
    /\ \A i \in Instances :
          /\ Len(byInstance[i]) <= MaxPerInstance
          /\ IsInjective(byInstance[i])
          /\ Range(byInstance[i]) = {u \in Held : results[u].inst = i}

\* Closing or finishing an old submission never evicts a newer one: the
\* submission last registered under a job stays its waiter until it returns.
LatestWaiterKept ==
    \A i \in Instances, u \in UUIDs :
        LET s == latest[i][u] IN
        s # 0 /\ sub[s].pc = "awaiting" /\ sub[s].uuid = u => waiters[i][u] = s

\* Nothing is lost: the result of a job submitted once is held until its
\* submission has it, through dropped connections, full queues, duplicate
\* deliveries and late acknowledgements; a submission that gave up is excused.
AnsweredOrHeld ==
    \A e \in Stored \ excused :
        LET u == capture[e].uuid IN
        \/ results[u].exec = e
        \/ sub[u].chan = e \/ sub[u].got = e
        \/ sub[u].pc \in {"closed", "failed"}

\* A caller that waits for its job's result gets it, unless it gives up itself
\* or the result outlived its retention first.
EventuallyAnswered ==
    \A s \in Submissions :
        sub[s].pc = "awaiting" ~> \/ sub[s].pc \in {"done", "closed"}
                                  \/ \E e \in excused : capture[e].uuid = s

\* A result that settles before UpsertJob returns is never missed: no delivery
\* is refused while the submission of its job is answered and open.
NeverMissed == missed = {}

=============================================================================
