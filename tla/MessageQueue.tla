---------------------------- MODULE MessageQueue ----------------------------
(***************************************************************************)
(* The queue in front of the Telegram client: callers add requests, one     *)
(* goroutine takes the most urgent from the heap, and a few workers send    *)
(* what it hands over, one request a second each.  A request that counts    *)
(* for several messages pushes placeholders, which cost a worker its turn.  *)
(*                                                                          *)
(* The heap is guarded by the lock of a condition variable, except when a   *)
(* worker pushes placeholders: that push reads the heap and writes it back. *)
(***************************************************************************)
EXTENDS Naturals, Sequences, FiniteSets

CONSTANTS
    MessageJobs,  \* identifiers of the jobs, in the order they would be created
    Urgency,      \* the Priority of each job; the lowest goes first
    TaskCount,    \* how many messages each job counts for
    Hands         \* the workers

ASSUME MessageJobsAssumption ==
    /\ MessageJobs \subseteq Nat \ {0}
    /\ Urgency \in [MessageJobs -> Nat] /\ TaskCount \in [MessageJobs -> Nat]

VARIABLES
    heap,     \* the jobs in the heap's order; the last is popped first
    born,     \* the jobs that were created, in that order
    taker,    \* the goroutine that empties the heap: its step and its job
    hand,     \* each worker: its step, its job, placeholders left, heap it read
    outcome,  \* what is in each job's result channel
    stopped,  \* the dispatcher's context has ended
    raced     \* ghost: a push of a placeholder overwrote another change

queueVars == <<heap, born, taker, hand, outcome, stopped, raced>>

Placeholder == 0
Entries == MessageJobs \cup {Placeholder}
AtRest == [pc |-> "idle", job |-> Placeholder, left |-> 0, read |-> <<>>]

Age(j) == CHOOSE i \in DOMAIN born' : born'[i] = j

\* Placeholders last, urgent jobs behind the others and older ones behind
\* newer ones, so that the last entry is the next to go.
Before(a, b) ==
    /\ a # Placeholder
    /\ \/ b = Placeholder
       \/ Urgency[a] > Urgency[b]
       \/ Urgency[a] = Urgency[b] /\ Age(a) > Age(b)

\* Entry n comes before entry k; only placeholders are equal, and keep their order.
Ahead(jobs, n, k) == Before(jobs[n], jobs[k]) \/ (n < k /\ ~Before(jobs[k], jobs[n]))

\* How many entries come before entry k.
Rank(jobs, k) == Cardinality({n \in DOMAIN jobs : Ahead(jobs, n, k)})

sort(jobs) == [r \in DOMAIN jobs |-> jobs[CHOOSE k \in DOMAIN jobs : Rank(jobs, k) = r - 1]]

Push(jobs, j) == sort(Append(jobs, j))

-----------------------------------------------------------------------------
(* Callers. *)

\* Broken variant: the goroutine that waits is not told.
AddRawJobQuietly(j) ==
    /\ heap' = Push(heap, j)
    /\ UNCHANGED <<outcome, taker>>

\* The job goes on the heap and the goroutine that waits for one is signalled.
AddRawJob(j) ==
    /\ heap' = Push(heap, j)
    /\ taker' = IF taker.pc = "wait" THEN [taker EXCEPT !.pc = "pop"] ELSE taker
    /\ UNCHANGED outcome

\* The access hash of the peer cannot be found: the request is answered at
\* once and never queued.
returnErrorJobResult(j) ==
    /\ outcome' = [outcome EXCEPT ![j] = "failed"]
    /\ UNCHANGED <<heap, taker>>

\* A message, media or forward request.
AddJob(j) ==
    /\ j \notin {born[i] : i \in DOMAIN born}
    /\ born' = Append(born, j)
    /\ AddRawJob(j) \/ returnErrorJobResult(j)
    /\ UNCHANGED <<hand, stopped, raced>>

\* cancel: a channel that is still full holds the caller up.
Cancelled(S) ==
    /\ \A j \in S \ {Placeholder} : outcome[j] = "none"
    /\ outcome' = [j \in MessageJobs |-> IF j \in S THEN "cancelled" ELSE outcome[j]]

\* The first entry with the identifier; refused requests and placeholders
\* share the identifier 0.
DeleteQueued(id) ==
    LET at == {i \in DOMAIN heap : heap[i] = id}
        first == CHOOSE i \in at : \A k \in at : i <= k
    IN  /\ at # {}
        /\ heap' = [i \in 1 .. Len(heap) - 1 |-> IF i < first THEN heap[i] ELSE heap[i + 1]]
        /\ Cancelled({id})
        /\ UNCHANGED <<born, taker, hand, stopped, raced>>

\* The entries at the given positions, in their order.
Kept(jobs, at) ==
    [r \in 1 .. Cardinality(at) |->
        jobs[CHOOSE k \in at : Cardinality({n \in at : n < k}) = r - 1]]

DeleteJobFunc(S) ==
    /\ \A id \in S : \E i \in DOMAIN heap : heap[i] = id
    /\ heap' = Kept(heap, {n \in DOMAIN heap : heap[n] \notin S})
    /\ Cancelled(S)
    /\ UNCHANGED <<born, taker, hand, stopped, raced>>

StopDispatcher ==
    /\ ~stopped
    /\ stopped' = TRUE
    /\ UNCHANGED <<heap, born, taker, hand, outcome, raced>>

-----------------------------------------------------------------------------
(* proccessMessagesQueue. *)

\* The head of the loop, under the lock: wait while there is nothing, once;
\* then pop, and start over when the job is gone.
proccessMessagesQueue ==
    /\ taker.pc \in {"top", "pop"}
    /\ \/ heap = <<>> /\ taker.pc = "top" /\ taker' = [taker EXCEPT !.pc = "wait"] /\ UNCHANGED heap
       \/ heap = <<>> /\ taker.pc = "pop" /\ taker' = [taker EXCEPT !.pc = "top"] /\ UNCHANGED heap
       \/ /\ heap # <<>>
          /\ taker' = [pc |-> "send", job |-> heap[Len(heap)]]
          /\ heap' = SubSeq(heap, 1, Len(heap) - 1)
    /\ UNCHANGED <<born, hand, outcome, stopped, raced>>

\* The channel is unbuffered: a worker takes the job as it is sent.
HandOver(w) ==
    /\ taker.pc = "send" /\ hand[w].pc = "idle"
    /\ taker' = [pc |-> "top", job |-> Placeholder]
    /\ hand' = [hand EXCEPT ![w] = [AtRest EXCEPT !.pc = "execute", !.job = taker.job]]
    /\ UNCHANGED <<heap, born, outcome, stopped, raced>>

-----------------------------------------------------------------------------
(* Workers. *)

\* Execute: a placeholder needs nothing; a job of several tasks pushes one
\* placeholder for each further one before it is sent.
Execute(w) ==
    LET j == hand[w].job
    IN  /\ hand[w].pc = "execute"
        /\ hand' = [hand EXCEPT ![w].pc = IF j = Placeholder THEN "reply"
                                          ELSE IF TaskCount[j] > 1 THEN "read" ELSE "invoke",
                                ![w].left = IF j = Placeholder THEN 0 ELSE TaskCount[j] - 1]
        /\ UNCHANGED <<heap, born, taker, outcome, stopped, raced>>

\* AddEmptyJob takes no lock and signals nobody: what happens to the heap
\* between its read and its write is undone.
ReadHeap(w) ==
    /\ hand[w].pc = "read"
    /\ hand' = [hand EXCEPT ![w].pc = "write", ![w].read = heap]
    /\ UNCHANGED <<heap, born, taker, outcome, stopped, raced>>

AddEmptyJob(w) ==
    /\ hand[w].pc = "write"
    /\ UNCHANGED born
    /\ heap' = Push(hand[w].read, Placeholder)
    /\ raced' = (raced \/ heap # hand[w].read)
    /\ hand' = [hand EXCEPT ![w].pc = IF hand[w].left > 1 THEN "read" ELSE "invoke",
                            ![w].left = @ - 1, ![w].read = <<>>]
    /\ UNCHANGED <<taker, outcome, stopped>>

\* The client's call returns, with updates or an error.
Invoke(w) ==
    /\ hand[w].pc = "invoke"
    /\ hand' = [hand EXCEPT ![w].pc = "reply"]
    /\ UNCHANGED <<heap, born, taker, outcome, stopped, raced>>

\* The result goes to the job's channel unless the context has ended.  A
\* placeholder has no channel: its worker waits for the context.
Reply(w) ==
    /\ hand[w].pc = "reply"
    /\ \/ /\ hand[w].job # Placeholder
          /\ outcome[hand[w].job] = "none"
          /\ outcome' = [outcome EXCEPT ![hand[w].job] = "sent"]
          /\ hand' = [hand EXCEPT ![w] = AtRest]
       \/ stopped /\ hand' = [hand EXCEPT ![w] = [AtRest EXCEPT !.pc = "off"]] /\ UNCHANGED outcome
    /\ UNCHANGED <<heap, born, taker, stopped, raced>>

WorkerLeaves(w) ==
    /\ stopped /\ hand[w].pc = "idle"
    /\ hand' = [hand EXCEPT ![w].pc = "off"]
    /\ UNCHANGED <<heap, born, taker, outcome, stopped, raced>>

-----------------------------------------------------------------------------
QueueInit ==
    /\ heap = <<>> /\ born = <<>>
    /\ taker = [pc |-> "top", job |-> Placeholder]
    /\ hand = [w \in Hands |-> AtRest]
    /\ outcome = [j \in MessageJobs |-> "none"]
    /\ stopped = FALSE /\ raced = FALSE

WorkerStep(w) == HandOver(w) \/ Execute(w) \/ ReadHeap(w) \/ AddEmptyJob(w) \/ Invoke(w)
                 \/ Reply(w) \/ WorkerLeaves(w)

QueueNext ==
    \/ \E j \in MessageJobs : AddJob(j)
    \/ \E id \in Entries : DeleteQueued(id)
    \/ \E S \in SUBSET Entries : Cardinality(S) > 1 /\ DeleteJobFunc(S)
    \/ StopDispatcher
    \/ proccessMessagesQueue
    \/ \E w \in Hands : WorkerStep(w)

-----------------------------------------------------------------------------
(* Properties. *)

\* Where a job is: on the heap, with the goroutine that hands it over, or with
\* a worker.
Places(j) ==
    {<<"heap", i>> : i \in {k \in DOMAIN heap : heap[k] = j}}
    \cup (IF taker.job = j THEN {<<"taker", 0>>} ELSE {})
    \cup {<<"worker", w>> : w \in {v \in Hands : hand[v].job = j}}

\* Whoever waits for a result will get it, and once: a job without a result is
\* in exactly one place, one with a result in none, and the goroutine that
\* empties the heap never sleeps on a job.  Two things excuse it: the context
\* has ended, or the push of a placeholder overwrote the heap.
NeverForgotten ==
    \/ stopped \/ raced
    \/ /\ \A i \in DOMAIN born :
            Cardinality(Places(born[i])) = IF outcome[born[i]] = "none" THEN 1 ELSE 0
       /\ taker.pc = "wait" => \A i \in DOMAIN heap : heap[i] = Placeholder

=============================================================================
