-------------------------- MODULE ClientConnection --------------------------
(***************************************************************************)
(* The client's side of its connection: Run dials, registers and serves     *)
(* with a writer, a reader and a heartbeat loop, and reconnects until its   *)
(* context ends; callers send correlated requests (job upserts, job         *)
(* deletions, label revisions) and wait for the answers.                    *)
(*                                                                          *)
(* Every caller makes one call, so its name stands for its correlation.     *)
(* The scheduler answers requests in the order they arrive; the link loses  *)
(* whatever is on the way when it breaks.                                   *)
(***************************************************************************)
EXTENDS Naturals, Sequences, FiniteSets

CONSTANTS
    Jobs,              \* callers of UpsertJob and DeleteJob
    Revisions,         \* callers of AnnounceLabels, all of the same label
    Calling,           \* the sets of callers that may make their call
    OutgoingQueueSize, \* frames a connection's queue holds
    MaxConnections,    \* bound on the connections made
    MaxOwnFrames,      \* bound on the heartbeats and results sent
    Breaks             \* TRUE when the link may break or the scheduler end it

Callers == Jobs \cup Revisions
NoCaller == "nobody"

ASSUME ClientAssumption ==
    /\ Jobs \cap Revisions = {} /\ NoCaller \notin Callers /\ Calling \subseteq SUBSET Callers
    /\ OutgoingQueueSize \in Nat /\ MaxConnections \in Nat /\ MaxOwnFrames \in Nat
    /\ Breaks \in BOOLEAN

VARIABLES
    run,       \* the step of Run and of serve
    done,      \* Run's context has ended
    graceful,  \* serve left for that reason
    conn,      \* number of the connection, 0 before the first
    link,      \* "up", "broken" or "closed"
    toServer,  \* frames written and not yet handled
    replies,  \* frames answered and not yet read
    outgoing,  \* the connection calls are sent on, 0 when there is none
    queue,     \* the queued frames of the current connection
    cancelled, \* its context has ended
    loop,      \* its loops: running, flushing, ended or failed
    own,       \* heartbeats and results left to send
    pending,   \* calls that wait for a correlated reply
    waiter,    \* the reply channel of each call
    call,      \* the step of each call
    sentOn,    \* the connection whose queue the call found
    answer,    \* what the call returned
    labelled,  \* the label is in the client's set
    handled,   \* ghost: requests the scheduler carried out
    owed       \* ghost: frames queued before the loops were cancelled and not yet written

connectionVars == <<run, done, graceful, conn, link, toServer, replies, outgoing, queue, cancelled,
                loop, own, pending, waiter, call, sentOn, answer, labelled, handled, owed>>
callVars == <<call, sentOn, answer, waiter>>
connVars == <<conn, link, toServer, replies>>
serveVars == <<run, done, graceful, conn>>

Loops == {"write", "read", "heartbeat"}
Frame(kind, from) == [kind |-> kind, from |-> from]

-----------------------------------------------------------------------------
(* The queue and the pending replies, each step under the client's lock.    *)

\* enqueueFrame on the connection that was found: never blocks.
Room == Len(queue) < OutgoingQueueSize
Enqueue(kind) == queue' = IF outgoing # 0 /\ Room THEN Append(queue, Frame(kind, NoCaller)) ELSE queue

completePending(c, reply) ==
    /\ waiter' = IF c \in pending THEN [waiter EXCEPT ![c] = reply] ELSE waiter
    /\ pending' = pending \ {c}

\* Broken variant: the calls of the connection keep waiting.
detachConnectionQuiet == outgoing' = 0 /\ pending' = {} /\ UNCHANGED waiter

detachConnection ==
    /\ outgoing' = 0
    /\ pending' = {}
    /\ waiter' = [c \in Callers |-> IF c \in pending THEN "closed" ELSE waiter[c]]

applyLabelRevision == labelled' = TRUE

-----------------------------------------------------------------------------
(* Run and serve. *)

\* One dial; the link is up and the registration goes out with the label set.
Dial ==
    /\ run = "dial" /\ ~done
    /\ conn < MaxConnections
    /\ conn' = conn + 1 /\ link' = "up"
    /\ toServer' = <<Frame("register", NoCaller)>>
    /\ replies' = <<>>
    /\ run' = "register"
    /\ UNCHANGED <<done, graceful, outgoing, queue, cancelled, loop, own, pending, callVars,
                   labelled, handled, owed>>

\* register: accepted, refused, or the deadline or the link ends it.
Registered ==
    /\ run = "register"
    /\ \/ replies # <<>> /\ run' = (IF Head(replies).kind = "accepted" THEN "attach" ELSE "backoff")
       \/ link = "broken" /\ run' = "backoff"
    /\ link' = IF run' = "attach" THEN link ELSE "closed"
    /\ replies' = <<>>
    /\ UNCHANGED <<done, graceful, conn, toServer, outgoing, queue, cancelled, loop, own,
                   pending, callVars, labelled, handled, owed>>

\* attachConnection, and the loops start.
Attach ==
    /\ run = "attach"
    /\ run' = "serve"
    /\ outgoing' = conn /\ queue' = <<>> /\ cancelled' = FALSE
    /\ loop' = [l \in Loops |-> "running"]
    /\ UNCHANGED <<done, graceful, connVars, own, pending, callVars, labelled, handled, owed>>

\* The first loop to fail ends the connection, or the context does, and then
\* the shutdown is announced and running functions are waited for.
ServeEnds ==
    /\ run = "serve"
    /\ \/ /\ \E l \in Loops : loop[l] \in {"failed", "ended"}
          /\ run' = "cancel" /\ graceful' = FALSE /\ UNCHANGED queue
       \/ done /\ run' = "drain" /\ graceful' = TRUE /\ Enqueue("shutdown")
    /\ UNCHANGED <<done, connVars, outgoing, cancelled, loop, own, pending, callVars,
                   labelled, handled, owed>>

\* awaitExecutions: the function has reported, or the drain timed out.
Drained ==
    /\ run = "drain"
    /\ run' = "cancel"
    /\ UNCHANGED <<done, graceful, connVars, outgoing, queue, cancelled, loop, own, pending,
                   callVars, labelled, handled, owed>>

CancelLoops ==
    /\ run = "cancel"
    /\ cancelled' = TRUE
    /\ owed' = Len(queue)
    /\ run' = IF graceful THEN "flush" ELSE "close"
    /\ UNCHANGED <<done, graceful, connVars, outgoing, queue, loop, own, pending, callVars,
                   labelled, handled>>

\* The writer has flushed what was queued.  (A write that hangs until the
\* flush timer is a broken link: the writer fails.)
Flushed ==
    /\ run = "flush"
    /\ loop["write"] \in {"ended", "failed"}
    /\ run' = "close"
    /\ UNCHANGED <<done, graceful, connVars, outgoing, queue, cancelled, loop, own, pending,
                   callVars, labelled, handled, owed>>

\* The link is closed; what was written stays on its way.
CloseLink ==
    /\ run = "close"
    /\ run' = "join" /\ link' = IF link = "up" THEN "closed" ELSE link
    /\ UNCHANGED <<done, graceful, conn, toServer, replies, outgoing, queue, cancelled, loop, own,
                    pending, callVars, labelled, handled, owed>>

\* Every loop has returned: detachConnection.
Detach ==
    /\ run = "join"
    /\ \A l \in Loops : loop[l] \in {"ended", "failed"}
    /\ detachConnection
    /\ run' = "backoff" /\ queue' = <<>> /\ owed' = 0
    /\ cancelled' = FALSE /\ graceful' = FALSE /\ loop' = [l \in Loops |-> "ended"]
    /\ replies' = <<>>
    /\ UNCHANGED <<done, conn, link, toServer, own, call, sentOn, answer, labelled, handled>>

\* sleepWithJitter, and the head of the loop; the last drain comes after it.
Backoff ==
    /\ run \in {"backoff", "dial"}
    /\ \/ done /\ run' = "returned"
       \/ run = "backoff" /\ ~done /\ run' = "dial"
    /\ UNCHANGED <<done, graceful, connVars, outgoing, queue, cancelled, loop, own, pending,
                   callVars, labelled, handled, owed>>

StopRun ==
    /\ ~done
    /\ done' = TRUE
    /\ UNCHANGED <<run, graceful, connVars, outgoing, queue, cancelled, loop, own, pending,
                   callVars, labelled, handled, owed>>

-----------------------------------------------------------------------------
(* The loops. *)

Paid(n) == IF n = 0 THEN 0 ELSE n - 1

\* Only a request is answered: the other frames leave the model once written.
Written(f) == IF f.kind = "request" THEN Append(toServer, f) ELSE toServer

Serving == run \in {"serve", "drain", "cancel", "flush", "close", "join"}

\* Broken variant: a cancelled writer leaves at once.
WriteLoopDrops ==
    /\ Serving /\ loop["write"] = "running"
    /\ \/ /\ queue # <<>> /\ queue' = Tail(queue) /\ owed' = Paid(owed)
          /\ IF link = "up" THEN toServer' = Written(Head(queue)) /\ UNCHANGED loop
             ELSE loop' = [loop EXCEPT !["write"] = "failed"] /\ UNCHANGED toServer
       \/ cancelled /\ loop' = [loop EXCEPT !["write"] = "ended"] /\ UNCHANGED <<queue, toServer, owed>>
    /\ UNCHANGED <<serveVars, link, replies, outgoing, cancelled, own, pending, callVars,
                   labelled, handled>>

\* writeLoop and flushOutgoing: frame by frame, and once the context has
\* ended only until the queue is empty.
WriteLoop ==
    /\ Serving /\ loop["write"] \in {"running", "flushing"}
    /\ \/ /\ queue # <<>>
          /\ queue' = Tail(queue) /\ owed' = Paid(owed)
          /\ IF link = "up"
             THEN toServer' = Written(Head(queue)) /\ UNCHANGED loop
             ELSE loop' = [loop EXCEPT !["write"] = "failed"] /\ UNCHANGED toServer
       \/ /\ cancelled /\ loop["write"] = "running"
          /\ loop' = [loop EXCEPT !["write"] = "flushing"]
          /\ UNCHANGED <<queue, toServer, owed>>
       \/ /\ loop["write"] = "flushing" /\ queue = <<>>
          /\ loop' = [loop EXCEPT !["write"] = "ended"]
          /\ UNCHANGED <<queue, toServer, owed>>
    /\ UNCHANGED <<serveVars, link, replies, outgoing, cancelled, own, pending, callVars,
                   labelled, handled>>

\* readLoop: the next message, or the end of the link; a healthy scheduler is
\* never silent beyond the read deadline.
ReadLoop ==
    /\ Serving /\ loop["read"] = "running"
    /\ \/ /\ replies # <<>> /\ link = "up"
          /\ completePending(Head(replies).from, Head(replies).kind)
          /\ replies' = Tail(replies) /\ UNCHANGED loop
       \/ /\ link # "up" \/ cancelled
          /\ loop' = [loop EXCEPT !["read"] = IF cancelled THEN "ended" ELSE "failed"]
          /\ UNCHANGED <<replies, pending, waiter>>
    /\ UNCHANGED <<serveVars, link, toServer, outgoing, queue, cancelled, own,
                   call, sentOn, answer, labelled, handled, owed>>

\* The scheduler announces its shutdown, or sends a fault or a message nobody
\* expects: the reader ends the connection.
SchedulerStops ==
    /\ Breaks /\ Serving /\ link = "up" /\ loop["read"] = "running"
    /\ loop' = [loop EXCEPT !["read"] = "failed"]
    /\ UNCHANGED <<serveVars, link, toServer, replies, outgoing, queue, cancelled, own, pending,
                   callVars, labelled, handled, owed>>

\* heartbeatLoop: a heartbeat that finds the queue full is only logged.
HeartbeatLoop ==
    /\ Serving /\ loop["heartbeat"] = "running"
    /\ \/ own > 0 /\ own' = own - 1 /\ Enqueue("heartbeat") /\ UNCHANGED loop
       \/ cancelled /\ loop' = [loop EXCEPT !["heartbeat"] = "ended"] /\ UNCHANGED <<own, queue>>
    /\ UNCHANGED <<serveVars, link, toServer, replies, outgoing, cancelled, pending, callVars,
                   labelled, handled, owed>>

\* A function reports its result.
Report ==
    /\ own > 0 /\ own' = own - 1
    /\ Enqueue("result")
    /\ UNCHANGED <<serveVars, link, toServer, replies, outgoing, cancelled, loop, pending, callVars,
                   labelled, handled, owed>>

-----------------------------------------------------------------------------
(* Calls. *)

\* The call returns, and with it go its reply channel and the queue it found.
Return(c, what) ==
    /\ call' = [call EXCEPT ![c] = "returned"]
    /\ answer' = [answer EXCEPT ![c] = what]
    /\ sentOn' = [sentOn EXCEPT ![c] = 0]
    /\ waiter' = [waiter EXCEPT ![c] = "none"]

\* Without a connection a label revision is applied at once, and any other
\* call fails.
NotConnected(c) ==
    /\ Return(c, IF c \in Revisions THEN "ok" ELSE "refused")
    /\ IF c \in Revisions THEN applyLabelRevision ELSE UNCHANGED labelled

\* registerPending; a call with an argument nobody could accept, an empty
\* label or job function, does not get that far.
RegisterPending(c) ==
    /\ call[c] = "idle"
    /\ \/ Return(c, "refused") /\ UNCHANGED <<pending, labelled>>
       \/ /\ outgoing # 0
          /\ pending' = pending \cup {c}
          /\ waiter' = [waiter EXCEPT ![c] = "open"]
          /\ call' = [call EXCEPT ![c] = "enqueue"]
          /\ UNCHANGED <<answer, sentOn, labelled>>
       \/ outgoing = 0 /\ NotConnected(c) /\ UNCHANGED pending
    /\ UNCHANGED <<serveVars, link, toServer, replies, outgoing, queue, cancelled, loop, own,
                   handled, owed>>

\* enqueueFrame encodes the frame, if it is not too large, and finds the
\* connection's queue, ...
FindQueue(c) ==
    /\ call[c] = "enqueue"
    /\ \/ pending' = pending \ {c} /\ Return(c, "refused") /\ UNCHANGED labelled
       \/ /\ outgoing # 0
          /\ sentOn' = [sentOn EXCEPT ![c] = outgoing]
          /\ call' = [call EXCEPT ![c] = "send"]
          /\ UNCHANGED <<pending, answer, waiter, labelled>>
       \/ /\ outgoing = 0
          /\ pending' = pending \ {c}
          /\ NotConnected(c)
    /\ UNCHANGED <<serveVars, link, toServer, replies, outgoing, queue, cancelled, loop, own,
                   handled, owed>>

\* ... and places the frame on it, though the connection, and its queue,
\* may be gone by now.
Send(c) ==
    /\ call[c] = "send"
    /\ \/ /\ sentOn[c] # outgoing \/ Room
          /\ queue' = IF sentOn[c] = outgoing THEN Append(queue, Frame("request", c)) ELSE queue
          /\ call' = [call EXCEPT ![c] = "wait"]
          /\ UNCHANGED <<pending, answer, sentOn, waiter>>
       \/ /\ sentOn[c] # outgoing \/ ~Room
          /\ pending' = pending \ {c}
          /\ Return(c, "refused") /\ UNCHANGED queue
    /\ UNCHANGED <<serveVars, link, toServer, replies, outgoing, cancelled, loop, own,
                   labelled, handled, owed>>

\* Broken variant: a closed reply channel passes for an acceptance.
AwaitReplyHopeful(c) ==
    /\ call[c] = "wait"
    /\ waiter[c] \in {"accepted", "rejected", "closed"}
    /\ Return(c, IF waiter[c] = "rejected" THEN "rejected" ELSE "ok")
    /\ IF c \in Revisions /\ waiter[c] # "rejected" THEN applyLabelRevision ELSE UNCHANGED labelled
    /\ UNCHANGED <<serveVars, link, toServer, replies, outgoing, queue, cancelled, loop, own,
                   pending, handled, owed>>

\* The reply, or the end of the connection it could have come on.
AwaitReply(c) ==
    /\ call[c] = "wait"
    /\ waiter[c] \in {"accepted", "rejected", "closed"}
    /\ CASE waiter[c] = "accepted" -> Return(c, "ok")
         [] waiter[c] = "rejected" -> Return(c, "rejected")
         [] OTHER -> Return(c, IF c \in Revisions THEN "ok" ELSE "unknown")
    /\ IF c \in Revisions /\ waiter[c] # "rejected" THEN applyLabelRevision ELSE UNCHANGED labelled
    /\ UNCHANGED <<serveVars, link, toServer, replies, outgoing, queue, cancelled, loop, own,
                   pending, handled, owed>>

\* The caller's context ends while it waits.
GiveUp(c) ==
    /\ call[c] = "wait"
    /\ pending' = pending \ {c}
    /\ Return(c, "unknown")
    /\ UNCHANGED <<serveVars, link, toServer, replies, outgoing, queue, cancelled, loop, own,
                   labelled, handled, owed>>

-----------------------------------------------------------------------------
(* The scheduler and the link. *)

\* The scheduler handles the next frame, and answers while the link stands.
Handle ==
    /\ toServer # <<>>
    /\ LET f == Head(toServer)
       IN  \E reply \in {"accepted", "rejected"} :
             /\ replies' = IF link = "up" THEN Append(replies, Frame(reply, f.from)) ELSE replies
             /\ handled' = IF f.kind = "request" /\ reply = "accepted" THEN handled \cup {f.from}
                           ELSE handled
    /\ toServer' = Tail(toServer)
    /\ UNCHANGED <<serveVars, link, outgoing, queue, cancelled, loop, own, pending, callVars,
                   labelled, owed>>

BreakLink ==
    /\ Breaks /\ link = "up"
    /\ link' = "broken" /\ replies' = <<>>
    /\ toServer' \in {<<>>, toServer}
    /\ UNCHANGED <<serveVars, outgoing, queue, cancelled, loop, own, pending, callVars,
                   labelled, handled, owed>>

-----------------------------------------------------------------------------
ClientInit ==
    /\ run = "dial" /\ done = FALSE /\ graceful = FALSE
    /\ conn = 0 /\ link = "closed" /\ toServer = <<>> /\ replies = <<>>
    /\ outgoing = 0 /\ queue = <<>> /\ cancelled = FALSE
    /\ loop = [l \in Loops |-> "ended"] /\ own = MaxOwnFrames
    /\ pending = {} /\ waiter = [c \in Callers |-> "none"]
    /\ \E who \in Calling : call = [c \in Callers |-> IF c \in who THEN "idle" ELSE "returned"]
    /\ sentOn = [c \in Callers |-> 0]
    /\ answer = [c \in Callers |-> "none"]
    /\ labelled = FALSE /\ handled = {} /\ owed = 0

RunStep == Dial \/ Registered \/ Attach \/ ServeEnds \/ Drained \/ CancelLoops \/ Flushed \/ CloseLink
           \/ Detach \/ Backoff
CallStep(c) == RegisterPending(c) \/ FindQueue(c) \/ Send(c) \/ AwaitReply(c)

ClientNext ==
    \/ RunStep \/ StopRun
    \/ WriteLoop \/ ReadLoop \/ HeartbeatLoop \/ Report
    \/ \E c \in Callers : CallStep(c) \/ GiveUp(c)
    \/ Handle \/ SchedulerStops \/ BreakLink

\* Goroutines run on and the scheduler answers; nothing obliges a caller to
\* start, a context to end or a link to break.
ClientFairness ==
    /\ WF_connectionVars(RunStep) /\ WF_connectionVars(WriteLoop) /\ WF_connectionVars(ReadLoop)
    /\ WF_connectionVars(HeartbeatLoop) /\ WF_connectionVars(Handle)
    /\ \A c \in Callers : WF_connectionVars(call[c] # "idle" /\ CallStep(c))

ClientSpec == ClientInit /\ [][ClientNext]_connectionVars /\ ClientFairness

-----------------------------------------------------------------------------
(* Properties. *)

\* What a call returns is true, whichever connection its frame went out on and
\* whatever it raced: a job call that reports success was carried out; a call
\* that reports a refusal never is, neither before nor after it returned; and
\* the label set holds exactly what the revisions that succeeded put there.
HonestAnswers ==
    /\ \A c \in Jobs : answer[c] = "ok" => c \in handled
    /\ \A c \in Callers : answer[c] \in {"refused", "rejected"} =>
          /\ c \notin handled
          /\ \A i \in DOMAIN queue : queue[i] # Frame("request", c)
          /\ \A i \in DOMAIN toServer : toServer[i] # Frame("request", c)
    /\ labelled <=> \E c \in Revisions : answer[c] = "ok"

\* A graceful close writes every frame queued before it: the shutdown notice
\* and the results of functions that finished in time.
FlushedBeforeClose == run = "join" /\ graceful /\ link = "closed" => owed = 0

\* No call waits for ever, even when its context never ends: a reply comes or
\* the connection that could have brought it is torn down.
EveryCallReturns == \A c \in Callers : (call[c] # "idle") ~> (call[c] = "returned")

=============================================================================
