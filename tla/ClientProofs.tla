---------------------------- MODULE ClientProofs ----------------------------
(***************************************************************************)
(* Proofs about module ClientConnection, for any number of callers, any     *)
(* queue size and any number of connections, links that break at any        *)
(* moment and callers that give up.                                         *)
(*                                                                          *)
(* That an answer is true is not inductive by itself: one must follow the   *)
(* one request frame of a call from the caller through the queue and the    *)
(* link to the scheduler and its reply back to the caller.  That a graceful *)
(* close loses nothing needs what each step of the close knows about the    *)
(* writer and the link.                                                     *)
(***************************************************************************)
EXTENDS ClientConnection, TLAPS, SequenceTheorems

-----------------------------------------------------------------------------
(* The inductive invariant.                                                  *)

Frames == [kind : {"request"}, from : Callers]
            \cup [kind : {"register", "shutdown", "heartbeat", "result"}, from : {NoCaller}]
Replies == [kind : {"accepted", "rejected"}, from : Callers \cup {NoCaller}]

ConnectionType ==
    /\ run \in {"dial", "register", "attach", "serve", "drain", "cancel", "flush", "close", "join",
                "backoff", "returned"}
    /\ done \in BOOLEAN /\ graceful \in BOOLEAN /\ cancelled \in BOOLEAN
    /\ conn \in Nat /\ outgoing \in Nat /\ own \in Nat /\ owed \in Nat
    /\ link \in {"up", "broken", "closed"}
    /\ loop \in [Loops -> {"running", "flushing", "ended", "failed"}]
    /\ queue \in Seq(Frames) /\ toServer \in Seq(Frames) /\ replies \in Seq(Replies)

CallsType ==
    /\ pending \subseteq Callers /\ handled \subseteq Callers /\ labelled \in BOOLEAN
    /\ waiter \in [Callers -> {"none", "open", "accepted", "rejected", "closed"}]
    /\ call \in [Callers -> {"idle", "enqueue", "send", "wait", "returned"}]
    /\ sentOn \in [Callers -> Nat]
    /\ answer \in [Callers -> {"none", "ok", "refused", "rejected", "unknown"}]

\* Every variable of the client keeps its type.
ClientTypeOK == ConnectionType /\ CallsType

\* Where the one request frame of a call is, and what became of it.
In(s, c) == \E n \in DOMAIN s : s[n] = Frame("request", c)
Once(s) == \A m, n \in DOMAIN s : s[m] = s[n] /\ s[m].kind = "request" => m = n
Carried(c) == In(queue, c) \/ In(toServer, c)
Replied(c, what) == \E n \in DOMAIN replies : replies[n] = Frame(what, c)
Silent(c) == /\ c \notin handled /\ waiter[c] \notin {"accepted", "rejected"}
             /\ ~Replied(c, "accepted") /\ ~Replied(c, "rejected")
Unsent(c) == call[c] \in {"idle", "enqueue", "send"}

\* A request is on its way at most once, and not before its call sent it;
\* until it arrives nothing is known of it, and afterwards only the truth.
CallerOK(c) ==
    /\ ~(In(queue, c) /\ In(toServer, c))
    /\ Unsent(c) => ~Carried(c)
    /\ Unsent(c) \/ Carried(c) => Silent(c)
    /\ Replied(c, "accepted") \/ waiter[c] = "accepted" => c \in handled
    /\ Replied(c, "rejected") \/ waiter[c] = "rejected" => c \notin handled
    /\ answer[c] \in {"refused", "rejected"} => c \notin handled /\ ~Carried(c)
    /\ c \in Jobs /\ answer[c] = "ok" => c \in handled
    /\ call[c] # "returned" => answer[c] = "none"

RequestsOK == Once(queue) /\ Once(toServer) /\ \A c \in Callers : CallerOK(c)

LabelsOK == labelled <=> \E c \in Revisions : answer[c] = "ok"

AnswersInv == ClientTypeOK /\ RequestsOK /\ LabelsOK

\* A link that serves is not closed, a writer leaves only a cancelled
\* connection or a broken link, and it leaves nothing of what was owed.
FlushOK ==
    /\ run \in {"register", "attach", "serve", "drain", "cancel", "flush", "close"} => link # "closed"
    /\ cancelled => run \in {"flush", "close", "join"}
    /\ owed <= Len(queue) /\ (owed # 0 => run \in {"flush", "close", "join"})
    /\ graceful => run \in {"drain", "cancel", "flush", "close", "join"}
    /\ Serving => /\ loop["write"] \in {"flushing", "ended"} => cancelled
                  /\ loop["write"] = "ended" => owed = 0
                  /\ loop["write"] = "failed" /\ (graceful \/ run # "join") => link = "broken"
    /\ graceful /\ run \in {"close", "join"} => loop["write"] \in {"ended", "failed"}

FlushInv == ClientTypeOK /\ FlushOK

-----------------------------------------------------------------------------
(* Frames on their way.                                                      *)

\* A frame is taken from the front of a queue ...
LEMMA TailShape ==
    ASSUME NEW T, NEW s \in Seq(T), s # <<>>
    PROVE  /\ Tail(s) \in Seq(T) /\ Head(s) \in T /\ Head(s) = s[1]
           /\ Len(s) \in Nat \ {0} /\ Len(Tail(s)) = Len(s) - 1
           /\ DOMAIN s = 1 .. Len(s) /\ DOMAIN Tail(s) = 1 .. Len(s) - 1
           /\ \A n \in 1 .. Len(s) - 1 : Tail(s)[n] = s[n + 1]
BY EmptySeq, HeadTailProperties, LenProperties, ElementOfSeq

\* ... and with a request goes its only frame.
LEMMA TailCarries ==
    ASSUME NEW s \in Seq(Frames), s # <<>>
    PROVE  /\ \A c : In(Tail(s), c) => In(s, c)
           /\ \A c : Head(s) = Frame("request", c) => In(s, c)
           /\ Once(s) => Once(Tail(s))
           /\ Once(s) => \A c : Head(s) = Frame("request", c) => ~In(Tail(s), c)
<1>1. /\ Head(s) = s[1] /\ Len(s) \in Nat \ {0}
      /\ DOMAIN s = 1 .. Len(s) /\ DOMAIN Tail(s) = 1 .. Len(s) - 1
      /\ \A n \in 1 .. Len(s) - 1 : Tail(s)[n] = s[n + 1]
  BY TailShape
<1>2. 1 \in DOMAIN s /\ \A n \in DOMAIN Tail(s) : n + 1 \in DOMAIN s /\ n + 1 # 1 /\ Tail(s)[n] = s[n + 1]
  BY <1>1
<1>3. \A c : In(Tail(s), c) => In(s, c)
  BY <1>2 DEF In
<1>4. \A c : Head(s) = Frame("request", c) => In(s, c)
  BY <1>1, <1>2 DEF In
<1>5. ASSUME Once(s) PROVE Once(Tail(s))
  <2> SUFFICES ASSUME NEW m \in DOMAIN Tail(s), NEW n \in DOMAIN Tail(s),
                      Tail(s)[m] = Tail(s)[n], Tail(s)[m].kind = "request"
               PROVE  m = n
    BY DEF Once
  <2>1. m + 1 = n + 1
    BY <1>2, <1>5 DEF Once
  <2> QED BY <1>1, <2>1
<1>6. ASSUME Once(s), NEW c, Head(s) = Frame("request", c) PROVE ~In(Tail(s), c)
  BY <1>1, <1>2, <1>6 DEF In, Once, Frame
<1> QED BY <1>3, <1>4, <1>5, <1>6

\* A frame is put at the end of a queue.
LEMMA AppendCarries ==
    ASSUME NEW s \in Seq(Frames), NEW f \in Frames
    PROVE  /\ Append(s, f) \in Seq(Frames) /\ Len(Append(s, f)) = Len(s) + 1
           /\ \A c : In(Append(s, f), c) <=> In(s, c) \/ f = Frame("request", c)
           /\ Once(s) /\ (\A c : f = Frame("request", c) => ~In(s, c)) => Once(Append(s, f))
<1> DEFINE t == Append(s, f)
<1>1. /\ t \in Seq(Frames) /\ Len(t) = Len(s) + 1 /\ Len(s) \in Nat
      /\ DOMAIN s = 1 .. Len(s) /\ DOMAIN t = 1 .. Len(s) + 1
      /\ \A n \in 1 .. Len(s) : t[n] = s[n]
      /\ t[Len(s) + 1] = f
  BY AppendProperties, LenProperties
<1> HIDE DEF t
<1>2. /\ \A n \in DOMAIN s : n \in DOMAIN t /\ t[n] = s[n] /\ n # Len(s) + 1
      /\ \A n \in DOMAIN t : n \in DOMAIN s \/ n = Len(s) + 1
      /\ Len(s) + 1 \in DOMAIN t
  BY <1>1
<1>3. \A c : In(t, c) <=> In(s, c) \/ f = Frame("request", c)
  BY <1>1, <1>2 DEF In
<1>4. ASSUME Once(s), \A c : f = Frame("request", c) => ~In(s, c) PROVE Once(t)
  <2>1. \A n \in DOMAIN s : s[n] = f => f.kind # "request"
    <3> SUFFICES ASSUME NEW n \in DOMAIN s, s[n] = f, f.kind = "request" PROVE FALSE
      OBVIOUS
    <3>1. f = Frame("request", f.from)
      BY DEF Frames, Frame
    <3> QED BY <1>4, <3>1 DEF In
  <2>2. \A m, n \in DOMAIN s : s[m] = s[n] /\ s[m].kind = "request" => m = n
    BY <1>4 DEF Once
  <2>3. ASSUME NEW m \in DOMAIN t, NEW n \in DOMAIN t, t[m] = t[n], t[m].kind = "request"
        PROVE  m = n
    BY <1>1, <1>2, <2>1, <2>2, <2>3
  <2> QED BY <2>3 DEF Once
<1> QED BY <1>1, <1>3, <1>4 DEF t

LEMMA NothingCarried == <<>> \in Seq(Frames) /\ Len(<<>>) = 0 /\ Once(<<>>) /\ \A c : ~In(<<>>, c)
<1>1. DOMAIN <<>> = {}
  OBVIOUS
<1> QED BY <1>1 DEF Once, In

\* One frame that is no request.
LEMMA Greeting ==
    ASSUME NEW kind \in {"register", "shutdown", "heartbeat", "result"}
    PROVE  /\ Frame(kind, NoCaller) \in Frames /\ \A c : Frame(kind, NoCaller) # Frame("request", c)
           /\ <<Frame(kind, NoCaller)>> \in Seq(Frames) /\ Once(<<Frame(kind, NoCaller)>>)
           /\ \A c : ~In(<<Frame(kind, NoCaller)>>, c)
<1>1. Frame(kind, NoCaller) \in Frames /\ \A c : Frame(kind, NoCaller) # Frame("request", c)
  BY DEF Frame, Frames
<1>2. PICK f \in Frames : f = Frame(kind, NoCaller) /\ \A c : f # Frame("request", c)
  BY <1>1
<1>3. <<f>> \in Seq(Frames) /\ DOMAIN <<f>> = {1} /\ <<f>>[1] = f
  OBVIOUS
<1>4. Once(<<f>>) /\ \A c : ~In(<<f>>, c)
  BY <1>2, <1>3 DEF Once, In
<1> QED BY <1>1, <1>2, <1>3, <1>4

-----------------------------------------------------------------------------
(* A caller that a step leaves alone.                                        *)

\* Frames and replies only disappear, and no reply reaches the caller.
LEMMA CallerKept ==
    ASSUME NEW c \in Callers, CallerOK(c),
           call'[c] = call[c], answer'[c] = answer[c], c \in handled' <=> c \in handled,
           waiter'[c] = waiter[c] \/ waiter'[c] \notin {"accepted", "rejected"},
           In(queue', c) => In(queue, c),
           In(toServer', c) => Carried(c),
           ~(In(queue', c) /\ In(toServer', c)),
           \A what : Replied(c, what)' => Replied(c, what)
    PROVE  CallerOK(c)'
<1>1. Carried(c)' => Carried(c)
  BY DEF Carried, In
<1>2. ~(In(queue, c) /\ In(toServer, c))'
  BY DEF In
<1>3. Unsent(c)' <=> Unsent(c)
  BY DEF Unsent
<1>4. Silent(c) => Silent(c)'
  BY DEF Silent
<1> QED BY <1>1, <1>2, <1>3, <1>4 DEF CallerOK

-----------------------------------------------------------------------------
(* Types.                                                                    *)

\* What every step of Run, of the loops and of the link keeps.
LEMMA QueuedFrame ==
    ASSUME ClientTypeOK, NEW kind \in {"shutdown", "heartbeat", "result"}, Enqueue(kind)
    PROVE  /\ queue' \in Seq(Frames) /\ Len(queue') \in Nat /\ Len(queue') >= Len(queue)
           /\ Once(queue) => Once(queue')
           /\ \A c : In(queue', c) => In(queue, c)
<1>0. queue \in Seq(Frames) /\ Len(queue) \in Nat
  BY LenProperties DEF ClientTypeOK, ConnectionType
<1>1. PICK f \in Frames : f = Frame(kind, NoCaller) /\ \A c : f # Frame("request", c)
  BY Greeting
<1>2. queue' = Append(queue, f) \/ queue' = queue
  BY <1>1 DEF Enqueue
<1>3. CASE queue' = queue
  BY <1>0, <1>3
<1>4. CASE queue' = Append(queue, f)
  BY <1>0, <1>1, <1>4, AppendCarries
<1> QED BY <1>2, <1>3, <1>4

LEMMA RunTypes == ASSUME ClientTypeOK, RunStep \/ StopRun PROVE ClientTypeOK'
<1> USE DEF ClientTypeOK, ConnectionType, CallsType, connVars, callVars
<1>1. CASE Dial
  BY <1>1, Greeting DEF Dial
<1>2. CASE Registered
  BY <1>2, EmptySeq DEF Registered
<1>3. CASE Attach
  BY <1>3, EmptySeq DEF Attach
<1>4. CASE ServeEnds
  <2>1. queue' \in Seq(Frames)
    BY <1>4, QueuedFrame DEF ServeEnds
  <2> QED BY <1>4, <2>1 DEF ServeEnds
<1>5. CASE Drained \/ Flushed \/ CloseLink \/ Backoff \/ StopRun
  BY ZenonT(60), <1>5 DEF Drained, Flushed, CloseLink, Backoff, StopRun
<1>6. CASE CancelLoops
  BY <1>6, LenProperties DEF CancelLoops
<1>7. CASE Detach
  BY <1>7, EmptySeq DEF Detach, detachConnection
<1> QED BY <1>1, <1>2, <1>3, <1>4, <1>5, <1>6, <1>7 DEF RunStep

LEMMA LoopTypes ==
    ASSUME ClientTypeOK, WriteLoop \/ ReadLoop \/ HeartbeatLoop \/ Report \/ SchedulerStops
    PROVE  ClientTypeOK'
<1> USE DEF ClientTypeOK, ConnectionType, CallsType, serveVars, callVars
<1>1. CASE WriteLoop
  <2>1. queue # <<>> => Tail(queue) \in Seq(Frames) /\ Head(queue) \in Frames
    BY TailShape
  <2>2. Paid(owed) \in Nat
    BY DEF Paid
  <2>3. queue # <<>> => Written(Head(queue)) \in Seq(Frames)
    BY <2>1, AppendCarries DEF Written
  <2>4. queue' \in Seq(Frames) /\ toServer' \in Seq(Frames) /\ owed' \in Nat
    BY <1>1, <2>1, <2>2, <2>3 DEF WriteLoop
  <2>5. loop' = loop \/ \E step \in {"flushing", "ended", "failed"} : loop' = [loop EXCEPT !["write"] = step]
    BY <1>1, Zenon DEF WriteLoop
  <2>6. loop' \in [Loops -> {"running", "flushing", "ended", "failed"}]
    BY <2>5
  <2> QED BY <1>1, <2>4, <2>6 DEF WriteLoop
<1>2. CASE ReadLoop
  <2>1. replies # <<>> => Tail(replies) \in Seq(Replies) /\ Head(replies) \in Replies
    BY TailShape
  <2>2. replies' \in Seq(Replies) /\ loop' \in [Loops -> {"running", "flushing", "ended", "failed"}]
    BY <1>2, <2>1 DEF ReadLoop
  <2>3. pending' \subseteq Callers /\ waiter' \in [Callers -> {"none", "open", "accepted", "rejected", "closed"}]
    <3>1. CASE UNCHANGED <<pending, waiter>>
      BY <3>1
    <3>2. CASE replies # <<>> /\ completePending(Head(replies).from, Head(replies).kind)
      <4>1. PICK c, what : c = Head(replies).from /\ what = Head(replies).kind /\ what \in {"accepted", "rejected"}
        BY <2>1, <3>2 DEF Replies
      <4> QED BY <3>2, <4>1 DEF completePending
    <3> QED BY <1>2, <3>1, <3>2 DEF ReadLoop
  <2> QED BY <1>2, <2>2, <2>3 DEF ReadLoop
<1>3. CASE HeartbeatLoop
  <2>1. queue' \in Seq(Frames)
    BY <1>3, QueuedFrame DEF HeartbeatLoop
  <2> QED BY <1>3, <2>1 DEF HeartbeatLoop
<1>4. CASE Report
  <2>1. queue' \in Seq(Frames)
    BY <1>4, QueuedFrame DEF Report
  <2> QED BY <1>4, <2>1 DEF Report
<1>5. CASE SchedulerStops
  BY <1>5 DEF SchedulerStops
<1> QED BY <1>1, <1>2, <1>3, <1>4, <1>5

LEMMA WireTypes == ASSUME ClientTypeOK, Handle \/ BreakLink PROVE ClientTypeOK'
<1> USE DEF ClientTypeOK, ConnectionType, CallsType, serveVars, callVars
<1>1. CASE Handle
  <2>1. PICK f \in Frames, reply \in {"accepted", "rejected"} :
           /\ f = Head(toServer) /\ toServer # <<>> /\ toServer' = Tail(toServer)
           /\ replies' = IF link = "up" THEN Append(replies, Frame(reply, f.from)) ELSE replies
           /\ handled' = IF f.kind = "request" /\ reply = "accepted" THEN handled \cup {f.from} ELSE handled
    BY <1>1, TailShape DEF Handle
  <2>2. f.from \in Callers \cup {NoCaller} /\ (f.kind = "request" => f.from \in Callers)
    BY DEF Frames
  <2>3. Frame(reply, f.from) \in Replies
    BY <2>2 DEF Frame, Replies
  <2>4. replies' \in Seq(Replies) /\ handled' \subseteq Callers
    BY <2>1, <2>2, <2>3, AppendProperties
  <2>5. toServer' \in Seq(Frames)
    BY <2>1, TailShape
  <2> QED BY <1>1, <2>4, <2>5 DEF Handle
<1>2. CASE BreakLink
  BY <1>2, EmptySeq DEF BreakLink
<1> QED BY <1>1, <1>2

LEMMA CallTypes ==
    ASSUME ClientTypeOK, NEW c \in Callers, CallStep(c) \/ GiveUp(c)
    PROVE  ClientTypeOK'
<1> USE DEF ClientTypeOK, ConnectionType, CallsType, serveVars
<1>0. ASSUME NEW what \in {"ok", "refused", "rejected", "unknown"}, Return(c, what)
      PROVE  /\ call' \in [Callers -> {"idle", "enqueue", "send", "wait", "returned"}]
             /\ answer' \in [Callers -> {"none", "ok", "refused", "rejected", "unknown"}]
             /\ sentOn' \in [Callers -> Nat]
             /\ waiter' \in [Callers -> {"none", "open", "accepted", "rejected", "closed"}]
  BY <1>0 DEF Return
<1>1. CASE RegisterPending(c)
  BY ZenonT(60), <1>0, <1>1 DEF RegisterPending, NotConnected, applyLabelRevision
<1>2. CASE FindQueue(c)
  <2>1. CASE \E what \in {"ok", "refused", "rejected", "unknown"} : Return(c, what)
    <3>1. pending' \subseteq Callers /\ labelled' \in BOOLEAN
      BY <1>2 DEF FindQueue, NotConnected, applyLabelRevision
    <3> QED BY <1>0, <1>2, <2>1, <3>1 DEF FindQueue
  <2>2. CASE outgoing # 0 /\ UNCHANGED <<pending, answer, waiter, labelled>>
             /\ sentOn' = [sentOn EXCEPT ![c] = outgoing] /\ call' = [call EXCEPT ![c] = "send"]
    BY <1>2, <2>2 DEF FindQueue
  <2> QED BY <1>2, <2>1, <2>2 DEF FindQueue, NotConnected
<1>3. CASE Send(c)
  <2>1. PICK f \in Frames : f = Frame("request", c)
    BY DEF Frame, Frames
  <2>2. queue' = queue \/ queue' = Append(queue, f)
    BY <1>3, <2>1 DEF Send
  <2>3. queue' \in Seq(Frames)
    <3>1. queue \in Seq(Frames)
      OBVIOUS
    <3>2. Append(queue, f) \in Seq(Frames)
      BY <3>1, AppendCarries
    <3> QED BY <2>2, <3>1, <3>2
  <2>4. CASE Return(c, "refused") /\ pending' = pending \ {c}
    BY SMTT(30), <1>0, <1>3, <2>3, <2>4 DEF Send
  <2>5. CASE call' = [call EXCEPT ![c] = "wait"] /\ UNCHANGED <<pending, answer, sentOn, waiter>>
    BY <1>3, <2>3, <2>5 DEF Send
  <2> QED BY <1>3, <2>4, <2>5 DEF Send
<1>4. CASE AwaitReply(c)
  <2>1. \E what \in {"ok", "refused", "rejected", "unknown"} : Return(c, what)
    BY <1>4 DEF AwaitReply
  <2>2. labelled' \in BOOLEAN
    BY <1>4 DEF AwaitReply, applyLabelRevision
  <2> QED BY <1>0, <1>4, <2>1, <2>2 DEF AwaitReply
<1>5. CASE GiveUp(c)
  BY <1>0, <1>5 DEF GiveUp
<1> QED BY <1>1, <1>2, <1>3, <1>4, <1>5 DEF CallStep

LEMMA TypesKept == ASSUME ClientTypeOK, [ClientNext]_connectionVars PROVE ClientTypeOK'
<1>1. CASE UNCHANGED connectionVars
  BY <1>1 DEF connectionVars, ClientTypeOK, ConnectionType, CallsType
<1> QED BY <1>1, RunTypes, LoopTypes, WireTypes, CallTypes DEF ClientNext

LEMMA FirstTypes == ASSUME ClientInit PROVE ClientTypeOK
<1>1. /\ conn \in Nat /\ own \in Nat /\ owed \in Nat /\ outgoing \in Nat
      /\ queue \in Seq(Frames) /\ toServer \in Seq(Frames) /\ replies \in Seq(Replies)
      /\ loop \in [Loops -> {"running", "flushing", "ended", "failed"}]
  BY ClientAssumption, EmptySeq DEF ClientInit
<1>2. call \in [Callers -> {"idle", "enqueue", "send", "wait", "returned"}]
  BY DEF ClientInit
<1> QED BY <1>1, <1>2 DEF ClientInit, ClientTypeOK, ConnectionType, CallsType

-----------------------------------------------------------------------------
(* Answers.                                                                  *)

\* A step that is no caller's and delivers nothing to one.
LEMMA CallersKept ==
    ASSUME RequestsOK, LabelsOK, UNCHANGED <<call, answer, handled, labelled>>,
           Once(queue'), Once(toServer'),
           \A c \in Callers : /\ waiter'[c] = waiter[c] \/ waiter'[c] \notin {"accepted", "rejected"}
                              /\ In(queue', c) => In(queue, c)
                              /\ In(toServer', c) => Carried(c)
                              /\ ~(In(queue', c) /\ In(toServer', c)),
           replies' = replies \/ replies' = <<>>
    PROVE  RequestsOK' /\ LabelsOK'
<1>1. \A c, what : Replied(c, what)' => Replied(c, what)
  BY DEF Replied
<1>2. \A c \in Callers : CallerOK(c)'
  BY <1>1, CallerKept DEF RequestsOK
<1>3. Once(queue)' /\ Once(toServer)'
  BY DEF Once
<1> QED BY <1>2, <1>3 DEF RequestsOK, LabelsOK

LEMMA RunAnswers ==
    ASSUME AnswersInv, RunStep \/ StopRun \/ HeartbeatLoop \/ Report \/ SchedulerStops \/ BreakLink
    PROVE  RequestsOK' /\ LabelsOK'
<1> USE DEF connVars, callVars, serveVars
<1>0. /\ ClientTypeOK /\ RequestsOK /\ LabelsOK /\ Once(queue) /\ Once(toServer)
      /\ \A c \in Callers : CallerOK(c)
      /\ \A c \in Callers : ~(In(queue, c) /\ In(toServer, c))
  BY DEF AnswersInv, RequestsOK, CallerOK
<1>1. UNCHANGED <<call, answer, handled, labelled>> /\ (replies' = replies \/ replies' = <<>>)
  BY DEF RunStep, Dial, Registered, Attach, ServeEnds, Drained, CancelLoops, Flushed, CloseLink, Detach,
         Backoff, StopRun, HeartbeatLoop, Report, SchedulerStops, BreakLink
<1>2. \A c \in Callers : waiter'[c] = waiter[c] \/ waiter'[c] \notin {"accepted", "rejected"}
  BY DEF RunStep, Dial, Registered, Attach, ServeEnds, Drained, CancelLoops, Flushed, CloseLink, Detach,
         Backoff, StopRun, HeartbeatLoop, Report, SchedulerStops, BreakLink, detachConnection
<1>3. Once(queue') /\ \A c : In(queue', c) => In(queue, c)
  <2>1. \/ queue' = queue \/ queue' = <<>>
        \/ \E kind \in {"shutdown", "heartbeat", "result"} : Enqueue(kind)
    BY DEF RunStep, Dial, Registered, Attach, ServeEnds, Drained, CancelLoops, Flushed, CloseLink, Detach,
           Backoff, StopRun, HeartbeatLoop, Report, SchedulerStops, BreakLink
  <2> QED BY <1>0, <2>1, NothingCarried, QueuedFrame
<1>4. Once(toServer') /\ \A c : In(toServer', c) => In(toServer, c)
  <2>1. toServer' \in {toServer, <<>>, <<Frame("register", NoCaller)>>}
    BY DEF RunStep, Dial, Registered, Attach, ServeEnds, Drained, CancelLoops, Flushed, CloseLink, Detach,
           Backoff, StopRun, HeartbeatLoop, Report, SchedulerStops, BreakLink
  <2> QED BY <1>0, <2>1, NothingCarried, Greeting
<1> QED BY <1>0, <1>1, <1>2, <1>3, <1>4, CallersKept DEF Carried

\* The writer moves a request from the queue to the link, or loses it.
LEMMA WriterAnswers == ASSUME AnswersInv, WriteLoop PROVE RequestsOK' /\ LabelsOK'
<1>0. /\ RequestsOK /\ LabelsOK /\ Once(queue) /\ Once(toServer)
      /\ queue \in Seq(Frames) /\ toServer \in Seq(Frames)
      /\ \A c \in Callers : ~(In(queue, c) /\ In(toServer, c))
  BY DEF AnswersInv, RequestsOK, CallerOK, ClientTypeOK, ConnectionType
<1>1. UNCHANGED <<call, answer, handled, labelled, replies, waiter>>
  BY DEF WriteLoop, callVars
<1>2. CASE UNCHANGED <<queue, toServer>>
  BY <1>0, <1>1, <1>2, CallersKept DEF Carried
<1>3. CASE queue # <<>> /\ queue' = Tail(queue) /\ UNCHANGED toServer
  <2>1. Once(queue') /\ \A c : In(queue', c) => In(queue, c)
    BY <1>0, <1>3, TailCarries
  <2> QED BY <1>0, <1>1, <1>3, <2>1, CallersKept DEF Carried
<1>4. CASE queue # <<>> /\ queue' = Tail(queue) /\ toServer' = Written(Head(queue)) /\ UNCHANGED loop
  <2>1. PICK f \in Frames : f = Head(queue)
    BY <1>0, <1>4, TailShape
  <2>2. /\ Once(queue') /\ \A c : In(queue', c) => In(queue, c)
        /\ \A c : f = Frame("request", c) => In(queue, c) /\ ~In(queue', c)
    BY <1>0, <1>4, <2>1, TailCarries
  <2>3. \A c : f = Frame("request", c) => c \in Callers
    BY DEF Frames, Frame
  <2>4. \A c : In(toServer', c) => In(toServer, c) \/ f = Frame("request", c)
    BY <1>0, <1>4, <2>1, AppendCarries DEF Written
  <2>5. Once(toServer')
    <3>1. \A c : f = Frame("request", c) => ~In(toServer, c)
      BY <1>0, <2>2, <2>3
    <3>2. Once(Append(toServer, f))
      BY <1>0, <3>1, AppendCarries
    <3> QED BY <1>0, <1>4, <2>1, <3>2 DEF Written
  <2>6. \A c \in Callers : ~(In(queue', c) /\ In(toServer', c))
    BY <1>0, <2>2, <2>4
  <2> QED BY <1>0, <1>1, <2>2, <2>4, <2>5, <2>6, CallersKept DEF Carried
<1> QED BY <1>2, <1>3, <1>4 DEF WriteLoop

\* A reply reaches whoever still waits for it, and says what happened.
LEMMA ReaderAnswers == ASSUME AnswersInv, ReadLoop PROVE RequestsOK' /\ LabelsOK'
<1>0. /\ RequestsOK /\ LabelsOK /\ replies \in Seq(Replies)
      /\ waiter \in [Callers -> {"none", "open", "accepted", "rejected", "closed"}]
      /\ \A c \in Callers : CallerOK(c)
  BY DEF AnswersInv, RequestsOK, ClientTypeOK, ConnectionType, CallsType
<1>1. UNCHANGED <<call, answer, handled, labelled, queue, toServer>>
  BY DEF ReadLoop, serveVars
<1>2. CASE UNCHANGED <<replies, waiter>>
  BY <1>0, <1>1, <1>2, CallersKept DEF Carried, RequestsOK, CallerOK
<1>3. CASE /\ replies # <<>> /\ replies' = Tail(replies)
           /\ completePending(Head(replies).from, Head(replies).kind)
  <2>1. PICK k, what : k = Head(replies).from /\ what = Head(replies).kind
    OBVIOUS
  <2>2. /\ Head(replies) \in Replies /\ Head(replies) = replies[1] /\ 1 \in DOMAIN replies
        /\ \A n \in DOMAIN replies' : n + 1 \in DOMAIN replies /\ replies'[n] = replies[n + 1]
    BY <1>0, <1>3, TailShape
  <2>3. replies[1] = Frame(what, k) /\ what \in {"accepted", "rejected"}
    BY <2>1, <2>2 DEF Replies, Frame
  <2>4. \A c, x : Replied(c, x)' => Replied(c, x)
    BY <2>2 DEF Replied
  <2>5. Replied(k, what)
    BY <2>2, <2>3 DEF Replied
  <2>6. waiter' = IF k \in pending THEN [waiter EXCEPT ![k] = what] ELSE waiter
    BY <1>3, <2>1 DEF completePending
  <2>7. ASSUME NEW c \in Callers PROVE CallerOK(c)'
    <3>1. CASE waiter'[c] = waiter[c]
      BY <1>0, <1>1, <2>4, <3>1, CallerKept DEF Carried, CallerOK
    <3>2. CASE waiter'[c] # waiter[c]
      <4>1. c = k /\ waiter'[c] = what
        BY <1>0, <2>6, <3>2
      <4>2. ~Silent(c) /\ ~Unsent(c) /\ ~Carried(c)
        BY <1>0, <2>3, <2>5, <4>1 DEF CallerOK, Silent
      <4>3. ~Unsent(c)' /\ ~Carried(c)'
        BY <1>1, <4>2 DEF Unsent, Carried, In
      <4>4. (what = "accepted" => c \in handled) /\ (what = "rejected" => c \notin handled)
        BY <1>0, <2>5, <4>1 DEF CallerOK
      <4>5. ~(In(queue, c) /\ In(toServer, c))'
        BY <4>3 DEF Carried
      <4> QED BY <1>0, <1>1, <2>3, <2>4, <4>1, <4>3, <4>4, <4>5 DEF CallerOK
    <3> QED BY <3>1, <3>2
  <2>8. Once(queue)' /\ Once(toServer)'
    BY <1>0, <1>1 DEF RequestsOK, Once
  <2> QED BY <1>0, <1>1, <2>7, <2>8 DEF RequestsOK, LabelsOK
<1> QED BY <1>2, <1>3 DEF ReadLoop

\* The scheduler handles the one request of a caller: it is carried out when,
\* and only when, the reply accepts it.
LEMMA HandlerAnswers == ASSUME AnswersInv, Handle PROVE RequestsOK' /\ LabelsOK'
<1>0. /\ RequestsOK /\ LabelsOK /\ Once(toServer) /\ Once(queue)
      /\ toServer \in Seq(Frames) /\ replies \in Seq(Replies)
      /\ \A c \in Callers : CallerOK(c)
  BY DEF AnswersInv, RequestsOK, ClientTypeOK, ConnectionType
<1>1. UNCHANGED <<call, answer, labelled, queue, waiter>>
  BY DEF Handle, callVars
<1>2. PICK f \in Frames, reply \in {"accepted", "rejected"} :
         /\ f = Head(toServer) /\ toServer # <<>> /\ toServer' = Tail(toServer)
         /\ replies' = IF link = "up" THEN Append(replies, Frame(reply, f.from)) ELSE replies
         /\ handled' = IF f.kind = "request" /\ reply = "accepted" THEN handled \cup {f.from} ELSE handled
  BY <1>0, TailShape DEF Handle
<1>3. /\ Once(toServer') /\ \A c : In(toServer', c) => In(toServer, c)
      /\ \A c : f = Frame("request", c) => In(toServer, c) /\ ~In(toServer', c)
  BY <1>0, <1>2, TailCarries
<1>4. \A c \in Callers : c = f.from => f = Frame("request", c)
  BY ClientAssumption DEF Frames, Frame
<1>5. f.kind = "request" => f = Frame("request", f.from)
  BY DEF Frames, Frame
<1>6. \A c, what : Replied(c, what)' => Replied(c, what) \/ (c = f.from /\ what = reply)
  <2> SUFFICES ASSUME NEW c, NEW what, NEW n \in DOMAIN replies', replies'[n] = Frame(what, c)
               PROVE  Replied(c, what) \/ (c = f.from /\ what = reply)
    BY DEF Replied
  <2>1. CASE replies' = replies
    BY <2>1 DEF Replied
  <2>2. CASE replies' = Append(replies, Frame(reply, f.from))
    <3>1. \/ n \in DOMAIN replies /\ replies'[n] = replies[n]
          \/ replies'[n] = Frame(reply, f.from)
      BY <1>0, <2>2, LenProperties, AppendProperties
    <3> QED BY <3>1 DEF Replied, Frame
  <2> QED BY <1>2, <2>1, <2>2
<1>7. ASSUME NEW c \in Callers, f # Frame("request", c) PROVE CallerOK(c)'
  <2>1. c # f.from
    BY <1>4, <1>7
  <2>2. c \in handled' <=> c \in handled
    BY <1>2, <2>1
  <2>3. \A what : Replied(c, what)' => Replied(c, what)
    BY <1>6, <2>1
  <2> QED BY <1>0, <1>1, <1>3, <2>2, <2>3, CallerKept DEF Carried, CallerOK
<1>8. ASSUME NEW c \in Callers, f = Frame("request", c) PROVE CallerOK(c)'
  <2>1. f.kind = "request" /\ f.from = c
    BY <1>8 DEF Frame
  <2>2. In(toServer, c) /\ ~In(toServer', c)
    BY <1>3, <1>8
  <2>3. Silent(c) /\ ~Unsent(c) /\ ~In(queue, c) /\ answer[c] \notin {"refused", "rejected"}
    BY <1>0, <2>2 DEF CallerOK, Carried
  <2>4. ~Unsent(c)' /\ ~Carried(c)' /\ ~(In(queue, c) /\ In(toServer, c))'
    BY <1>1, <2>2, <2>3 DEF Unsent, Carried, In
  <2>5. c \in handled' <=> reply = "accepted"
    BY <1>2, <2>1, <2>3 DEF Silent
  <2>6. \A what \in {"accepted", "rejected"} : Replied(c, what)' => what = reply
    BY <1>6, <2>3 DEF Silent
  <2>7. waiter'[c] \notin {"accepted", "rejected"} /\ answer'[c] = answer[c] /\ call'[c] = call[c]
    BY <1>1, <2>3 DEF Silent
  <2>8. c \in Jobs => answer[c] # "ok"
    BY <1>0, <2>3 DEF CallerOK, Silent
  <2> QED BY <1>0, <2>3, <2>4, <2>5, <2>6, <2>7, <2>8 DEF CallerOK
<1>9. Once(queue)' /\ Once(toServer)'
  BY <1>0, <1>1, <1>3 DEF Once
<1> QED BY <1>1, <1>0, <1>7, <1>8, <1>9 DEF RequestsOK, LabelsOK

\* A call returns what is true.
LEMMA ReturnHonest ==
    ASSUME NEW c \in Callers, CallerOK(c), ClientTypeOK, NEW what, Return(c, what),
           UNCHANGED <<queue, toServer, replies, handled>>,
           what \in {"refused", "rejected"} => c \notin handled /\ ~Carried(c),
           c \in Jobs /\ what = "ok" => c \in handled
    PROVE  CallerOK(c)'
<1>1. call'[c] = "returned" /\ answer'[c] = what /\ waiter'[c] = "none"
  BY DEF Return, ClientTypeOK, CallsType
<1>2. (Carried(c)' <=> Carried(c)) /\ ((In(queue, c) /\ In(toServer, c))' <=> (In(queue, c) /\ In(toServer, c)))
  BY DEF Carried, In
<1>3. \A x : Replied(c, x)' <=> Replied(c, x)
  BY DEF Replied
<1>4. Silent(c) => Silent(c)'
  BY <1>1, <1>3 DEF Silent
<1>5. ~Unsent(c)'
  BY <1>1 DEF Unsent
<1> QED BY <1>1, <1>2, <1>3, <1>4, <1>5 DEF CallerOK

\* The label set follows the answers.
LEMMA ReturnLabels ==
    ASSUME ClientTypeOK, LabelsOK, NEW c \in Callers, NEW what, Return(c, what), CallerOK(c),
           call[c] # "returned",
           labelled' <=> labelled \/ (c \in Revisions /\ what = "ok")
    PROVE  LabelsOK'
<1>1. answer[c] = "none" /\ answer' = [answer EXCEPT ![c] = what] /\ answer \in [Callers -> {"none", "ok", "refused", "rejected", "unknown"}]
  BY DEF Return, CallerOK, ClientTypeOK, CallsType
<1>2. Revisions \subseteq Callers /\ labelled \in BOOLEAN
  BY DEF Callers, ClientTypeOK, CallsType
<1>3. \A d \in Revisions : answer'[d] = "ok" <=> answer[d] = "ok" \/ (d = c /\ what = "ok")
  BY <1>1, <1>2
<1>4. (\E d \in Revisions : answer'[d] = "ok") <=> (\E d \in Revisions : answer[d] = "ok") \/ (c \in Revisions /\ what = "ok")
  BY <1>3
<1> QED BY <1>4 DEF LabelsOK

\* What a caller does leaves the other callers alone.
LEMMA OtherCallers ==
    ASSUME ClientTypeOK, RequestsOK, NEW c \in Callers, CallStep(c) \/ GiveUp(c), NEW d \in Callers, d # c
    PROVE  CallerOK(d)'
<1> USE DEF serveVars
<1>0. /\ CallerOK(d) /\ queue \in Seq(Frames)
      /\ call \in [Callers -> {"idle", "enqueue", "send", "wait", "returned"}]
      /\ answer \in [Callers -> {"none", "ok", "refused", "rejected", "unknown"}]
      /\ waiter \in [Callers -> {"none", "open", "accepted", "rejected", "closed"}]
  BY DEF RequestsOK, ClientTypeOK, ConnectionType, CallsType
<1>1. ASSUME NEW what, Return(c, what)
      PROVE  call'[d] = call[d] /\ answer'[d] = answer[d] /\ waiter'[d] = waiter[d]
  BY <1>0, <1>1 DEF Return
<1>2. UNCHANGED <<toServer, replies, handled>>
  BY DEF CallStep, RegisterPending, FindQueue, Send, AwaitReply, GiveUp
<1>3. In(queue', d) => In(queue, d)
  <2>1. PICK f \in Frames : f = Frame("request", c)
    BY DEF Frames, Frame
  <2>2. f # Frame("request", d)
    BY <2>1 DEF Frame
  <2>3. queue' = queue \/ queue' = Append(queue, f)
    BY <2>1 DEF CallStep, RegisterPending, FindQueue, Send, AwaitReply, GiveUp
  <2> QED BY <1>0, <2>2, <2>3, AppendCarries
<1>4. call'[d] = call[d] /\ answer'[d] = answer[d] /\ waiter'[d] = waiter[d]
  <2>1. CASE \E what : Return(c, what)
    BY <1>1, <2>1
  <2>2. CASE RegisterPending(c)
    BY <1>0, <1>1, <2>2 DEF RegisterPending, NotConnected
  <2>3. CASE FindQueue(c)
    BY <1>0, <1>1, <2>3 DEF FindQueue, NotConnected
  <2>4. CASE Send(c)
    BY <1>0, <1>1, <2>4 DEF Send
  <2>5. CASE AwaitReply(c) \/ GiveUp(c)
    BY <2>1, <2>5 DEF AwaitReply, GiveUp
  <2> QED BY <2>1, <2>2, <2>3, <2>4, <2>5 DEF CallStep
<1>5. \A what : Replied(d, what)' => Replied(d, what)
  BY <1>2 DEF Replied
<1>6. ~(In(queue', d) /\ In(toServer', d)) /\ (In(toServer', d) => Carried(d))
  BY <1>0, <1>2, <1>3 DEF CallerOK, Carried
<1> QED BY <1>0, <1>2, <1>3, <1>4, <1>5, <1>6, CallerKept

\* What a caller does leaves its own call honest: it has sent nothing when it
\* reports a refusal of its own, and otherwise reports the reply.
LEMMA OwnCall ==
    ASSUME AnswersInv, NEW c \in Callers, CallStep(c) \/ GiveUp(c)
    PROVE  CallerOK(c)' /\ LabelsOK' /\ Once(queue)' /\ Once(toServer)'
<1> USE DEF serveVars
<1>0. /\ ClientTypeOK /\ RequestsOK /\ LabelsOK /\ CallerOK(c) /\ queue \in Seq(Frames)
      /\ Once(queue) /\ Once(toServer) /\ labelled \in BOOLEAN
      /\ call \in [Callers -> {"idle", "enqueue", "send", "wait", "returned"}]
      /\ waiter \in [Callers -> {"none", "open", "accepted", "rejected", "closed"}]
  BY DEF AnswersInv, RequestsOK, ClientTypeOK, ConnectionType, CallsType
<1>1. UNCHANGED <<toServer, replies, handled>>
  BY DEF CallStep, RegisterPending, FindQueue, Send, AwaitReply, GiveUp
<1>2. c \in Jobs => c \notin Revisions
  BY ClientAssumption
<1>3. Unsent(c) => c \notin handled /\ ~Carried(c)
  BY <1>0 DEF CallerOK, Silent
<1>4. ASSUME UNCHANGED queue PROVE Once(queue)' /\ Once(toServer)'
  BY <1>0, <1>1, <1>4 DEF Once
<1>5. ASSUME UNCHANGED queue, NEW what, Return(c, what), call[c] # "returned",
             what \in {"refused", "rejected"} => c \notin handled /\ ~Carried(c),
             c \in Jobs /\ what = "ok" => c \in handled,
             labelled' <=> labelled \/ (c \in Revisions /\ what = "ok")
      PROVE  CallerOK(c)' /\ LabelsOK' /\ Once(queue)' /\ Once(toServer)'
  BY <1>0, <1>1, <1>4, <1>5, ReturnHonest, ReturnLabels
<1>6. ASSUME Unsent(c), UNCHANGED queue, NotConnected(c)
      PROVE  CallerOK(c)' /\ LabelsOK' /\ Once(queue)' /\ Once(toServer)'
  <2>1. CASE c \in Revisions
    <3>1. Return(c, "ok") /\ labelled' = TRUE /\ c \notin Jobs
      BY <1>2, <1>6, <2>1 DEF NotConnected, applyLabelRevision
    <3> QED BY <1>5, <1>6, <2>1, <3>1 DEF Unsent
  <2>2. CASE c \notin Revisions
    <3>1. Return(c, "refused") /\ labelled' = labelled
      BY <1>6, <2>2 DEF NotConnected
    <3> QED BY <1>0, <1>3, <1>5, <1>6, <2>2, <3>1 DEF Unsent
  <2> QED BY <2>1, <2>2
<1>7. ASSUME Unsent(c), UNCHANGED <<queue, labelled>>, Return(c, "refused")
      PROVE  CallerOK(c)' /\ LabelsOK' /\ Once(queue)' /\ Once(toServer)'
  BY <1>0, <1>3, <1>5, <1>7 DEF Unsent
<1>8. ASSUME UNCHANGED <<queue, answer, labelled>>, Unsent(c),
             call'[c] \in {"enqueue", "send"}, waiter'[c] \in {waiter[c], "open"}
      PROVE  CallerOK(c)' /\ LabelsOK' /\ Once(queue)' /\ Once(toServer)'
  <2>1. Unsent(c)' /\ ~Carried(c)' /\ ~(In(queue, c) /\ In(toServer, c))'
    BY <1>1, <1>3, <1>8 DEF Unsent, Carried, In
  <2>2. Silent(c)
    BY <1>0, <1>8 DEF CallerOK
  <2>3. Silent(c)'
    BY <1>1, <1>8, <2>2 DEF Silent, Replied
  <2>4. answer'[c] = "none"
    BY <1>0, <1>8 DEF CallerOK, Unsent
  <2>5. CallerOK(c)'
    BY <2>1, <2>3, <2>4 DEF CallerOK, Silent
  <2> QED BY <1>0, <1>4, <1>8, <2>5 DEF LabelsOK
<1>9. CASE RegisterPending(c)
  <2>1. Unsent(c) /\ UNCHANGED queue
    BY <1>9 DEF RegisterPending, Unsent
  <2>2. CASE Return(c, "refused") /\ UNCHANGED <<pending, labelled>>
    BY <1>7, <2>1, <2>2
  <2>3. CASE /\ waiter' = [waiter EXCEPT ![c] = "open"] /\ call' = [call EXCEPT ![c] = "enqueue"]
             /\ UNCHANGED <<answer, sentOn, labelled>>
    BY <1>0, <1>8, <2>1, <2>3
  <2>4. CASE NotConnected(c)
    BY <1>6, <2>1, <2>4
  <2> QED BY <1>9, <2>2, <2>3, <2>4 DEF RegisterPending
<1>10. CASE FindQueue(c)
  <2>1. Unsent(c) /\ UNCHANGED queue
    BY <1>10 DEF FindQueue, Unsent
  <2>2. CASE Return(c, "refused") /\ UNCHANGED labelled
    BY <1>7, <2>1, <2>2
  <2>3. CASE call' = [call EXCEPT ![c] = "send"] /\ UNCHANGED <<pending, answer, waiter, labelled>>
    BY <1>0, <1>8, <2>1, <2>3
  <2>4. CASE NotConnected(c)
    BY <1>6, <2>1, <2>4
  <2> QED BY <1>10, <2>2, <2>3, <2>4 DEF FindQueue
<1>11. CASE Send(c)
  <2>1. Unsent(c) /\ UNCHANGED labelled
    BY <1>11 DEF Send, Unsent
  <2>2. CASE Return(c, "refused") /\ UNCHANGED queue
    BY <1>7, <2>1, <2>2
  <2>3. CASE /\ queue' = IF sentOn[c] = outgoing THEN Append(queue, Frame("request", c)) ELSE queue
             /\ call' = [call EXCEPT ![c] = "wait"] /\ UNCHANGED <<pending, answer, sentOn, waiter>>
    <3>1. PICK f \in Frames : f = Frame("request", c)
      BY DEF Frames, Frame
    <3>2. \A d : f = Frame("request", d) => d = c
      BY <3>1 DEF Frame
    <3>3. ~In(queue, c) /\ ~In(toServer, c)
      BY <1>3, <2>1 DEF Carried
    <3>4. queue' = queue \/ queue' = Append(queue, f)
      BY <2>3, <3>1
    <3>5. Once(queue')
      <4>1. \A d : f = Frame("request", d) => ~In(queue, d)
        BY <3>2, <3>3
      <4>2. Once(Append(queue, f))
        BY <1>0, <4>1, AppendCarries
      <4> QED BY <1>0, <3>4, <4>2
    <3>6. Silent(c) /\ answer[c] = "none"
      BY <1>0, <2>1 DEF CallerOK, Unsent
    <3>7. Silent(c)' /\ answer'[c] = "none" /\ ~In(toServer', c) /\ ~Unsent(c)'
      BY <1>0, <1>1, <2>3, <3>3, <3>6 DEF Silent, Replied, Unsent
    <3>8. ~(In(queue, c) /\ In(toServer, c))'
      BY <3>7 DEF In
    <3>9. CallerOK(c)'
      BY <3>7, <3>8 DEF CallerOK, Silent
    <3>10. Once(queue)' /\ Once(toServer)'
      BY <1>0, <1>1, <3>5 DEF Once
    <3> QED BY <1>0, <2>1, <2>3, <3>9, <3>10 DEF LabelsOK
  <2> QED BY <1>11, <2>2, <2>3 DEF Send
<1>12. CASE AwaitReply(c)
  <2>1. call[c] = "wait" /\ UNCHANGED queue
    BY <1>12 DEF AwaitReply
  <2>2. CASE waiter[c] = "accepted"
    <3>1. Return(c, "ok") /\ c \in handled /\ (labelled' <=> labelled \/ c \in Revisions)
      BY <1>0, <1>12, <2>2 DEF AwaitReply, CallerOK, applyLabelRevision
    <3> QED BY <1>5, <2>1, <3>1
  <2>3. CASE waiter[c] = "rejected"
    <3>1. Return(c, "rejected") /\ labelled' = labelled
      BY <1>12, <2>3 DEF AwaitReply
    <3>2. c \notin handled /\ ~Carried(c)
      BY <1>0, <2>3 DEF CallerOK, Silent
    <3> QED BY <1>0, <1>5, <2>1, <3>1, <3>2
  <2>4. CASE waiter[c] = "closed"
    <3>1. /\ c \in Revisions => Return(c, "ok") /\ labelled' = TRUE
          /\ c \notin Revisions => Return(c, "unknown") /\ labelled' = labelled
      BY <1>12, <2>4 DEF AwaitReply, applyLabelRevision
    <3> QED BY <1>0, <1>2, <1>5, <2>1, <3>1
  <2> QED BY <1>12, <2>2, <2>3, <2>4 DEF AwaitReply
<1>13. CASE GiveUp(c)
  <2>1. call[c] = "wait" /\ Return(c, "unknown") /\ UNCHANGED <<queue, labelled>>
    BY <1>13 DEF GiveUp
  <2> QED BY <1>0, <1>5, <2>1
<1> QED BY <1>9, <1>10, <1>11, <1>12, <1>13 DEF CallStep

LEMMA AnswersKept == ASSUME AnswersInv, [ClientNext]_connectionVars PROVE AnswersInv'
<1>0. ClientTypeOK /\ RequestsOK /\ LabelsOK
  BY DEF AnswersInv
<1>1. ClientTypeOK'
  BY <1>0, TypesKept
<1>2. CASE RunStep \/ StopRun \/ HeartbeatLoop \/ Report \/ SchedulerStops \/ BreakLink
  BY <1>1, <1>2, RunAnswers DEF AnswersInv
<1>3. CASE WriteLoop \/ ReadLoop \/ Handle
  BY <1>1, <1>3, WriterAnswers, ReaderAnswers, HandlerAnswers DEF AnswersInv
<1>4. ASSUME NEW c \in Callers, CallStep(c) \/ GiveUp(c) PROVE AnswersInv'
  <2>1. CallerOK(c)' /\ LabelsOK' /\ Once(queue)' /\ Once(toServer)'
    BY <1>4, OwnCall
  <2>2. \A d \in Callers : d # c => CallerOK(d)'
    BY <1>0, <1>4, OtherCallers
  <2>3. \A d \in Callers : CallerOK(d)'
    <3> TAKE d \in Callers
    <3>1. CASE d = c
      BY <2>1, <3>1
    <3>2. CASE d # c
      BY <2>2, <3>2
    <3> QED BY <3>1, <3>2
  <2> QED BY <1>1, <2>1, <2>3 DEF AnswersInv, RequestsOK
<1>5. CASE UNCHANGED connectionVars
  <2>1. UNCHANGED <<queue, toServer, replies, call, waiter, answer, handled, labelled>>
    BY <1>5 DEF connectionVars
  <2>2. RequestsOK' /\ LabelsOK'
    BY <1>0, <2>1, CallersKept DEF RequestsOK, CallerOK, Carried
  <2> QED BY <1>1, <2>2 DEF AnswersInv
<1> QED BY <1>2, <1>3, <1>4, <1>5 DEF ClientNext

\* What a call returns is true, whichever connection its frame went out on: a
\* job call that succeeded was carried out, a call that was refused never is,
\* and the label set holds what the revisions that succeeded put there.
THEOREM AnswerSafety == ClientSpec => []HonestAnswers
<1>1. ASSUME ClientInit PROVE AnswersInv
  <2>1. /\ queue = <<>> /\ toServer = <<>> /\ replies = <<>> /\ handled = {} /\ labelled = FALSE
        /\ waiter = [c \in Callers |-> "none"] /\ answer = [c \in Callers |-> "none"]
    BY <1>1 DEF ClientInit
  <2>2. DOMAIN replies = {}
    BY <2>1
  <2>3. \A c \in Callers : CallerOK(c)
    BY <2>1, <2>2, NothingCarried DEF CallerOK, Carried, Silent, Replied
  <2>4. Revisions \subseteq Callers
    BY DEF Callers
  <2> QED BY <1>1, <2>1, <2>3, <2>4, NothingCarried, FirstTypes DEF AnswersInv, RequestsOK, LabelsOK
<1>2. AnswersInv /\ [ClientNext]_connectionVars => AnswersInv'
  BY AnswersKept
<1>3. ASSUME AnswersInv PROVE HonestAnswers
  <2>1. \A c \in Callers : CallerOK(c)
    BY <1>3 DEF AnswersInv, RequestsOK
  <2>2. \A c \in Jobs : answer[c] = "ok" => c \in handled
    BY <2>1 DEF CallerOK, Callers
  <2>3. ASSUME NEW c \in Callers, answer[c] \in {"refused", "rejected"}
        PROVE  /\ c \notin handled
               /\ \A i \in DOMAIN queue : queue[i] # Frame("request", c)
               /\ \A i \in DOMAIN toServer : toServer[i] # Frame("request", c)
    <3>1. c \notin handled /\ ~In(queue, c) /\ ~In(toServer, c)
      BY <2>1, <2>3 DEF CallerOK, Carried
    <3> QED BY <3>1 DEF In
  <2> QED BY <1>3, <2>2, <2>3 DEF HonestAnswers, AnswersInv, LabelsOK
<1> QED BY <1>1, <1>2, <1>3, PTL DEF ClientSpec

-----------------------------------------------------------------------------
(* The graceful close.                                                       *)

LEMMA RunFlushes == ASSUME FlushInv, RunStep \/ StopRun PROVE FlushOK'
<1> USE DEF connVars
<1>0. /\ FlushOK /\ Len(queue) \in Nat /\ owed \in Nat /\ cancelled \in BOOLEAN /\ graceful \in BOOLEAN
      /\ loop \in [Loops -> {"running", "flushing", "ended", "failed"}] /\ "write" \in Loops
  BY LenProperties DEF FlushInv, ClientTypeOK, ConnectionType, Loops
<1>1. CASE Dial \/ Registered
  <2>1. /\ run \in {"dial", "register"} /\ run' \in {"register", "attach", "backoff"}
        /\ run' # "backoff" => link' # "closed"
        /\ UNCHANGED <<cancelled, graceful, owed, queue>>
    BY <1>0, <1>1 DEF Dial, Registered, FlushOK
  <2> QED BY <1>0, <2>1 DEF FlushOK, Serving
<1>2. CASE Attach
  <2>1. /\ run = "attach" /\ run' = "serve" /\ queue' = <<>> /\ cancelled' = FALSE
        /\ loop'["write"] = "running" /\ UNCHANGED <<link, owed, graceful>>
    BY <1>0, <1>2 DEF Attach
  <2>2. Len(queue') = 0
    BY <2>1
  <2> QED BY <1>0, <2>1, <2>2 DEF FlushOK, Serving
<1>3. CASE ServeEnds
  <2>1. /\ run = "serve" /\ run' \in {"cancel", "drain"} /\ graceful' \in BOOLEAN
        /\ UNCHANGED <<cancelled, loop, link, owed>>
    BY <1>3 DEF ServeEnds
  <2>2. Len(queue') \in Nat /\ Len(queue') >= Len(queue)
    BY <1>0, <1>3, QueuedFrame DEF ServeEnds, FlushInv
  <2> QED BY <1>0, <2>1, <2>2 DEF FlushOK, Serving
<1>4. CASE Drained
  BY <1>0, <1>4 DEF Drained, FlushOK, Serving
<1>5. CASE CancelLoops
  BY <1>0, <1>5 DEF CancelLoops, FlushOK, Serving
<1>6. CASE Flushed
  BY <1>0, <1>6 DEF Flushed, FlushOK, Serving
<1>7. CASE CloseLink
  BY <1>0, <1>7 DEF CloseLink, FlushOK, Serving
<1>8. CASE Detach
  <2>1. /\ run' = "backoff" /\ owed' = 0 /\ cancelled' = FALSE /\ graceful' = FALSE /\ queue' = <<>>
    BY <1>8 DEF Detach
  <2>2. Len(queue') = 0
    BY <2>1
  <2> QED BY <2>1, <2>2 DEF FlushOK, Serving
<1>9. CASE Backoff
  BY <1>0, <1>9 DEF Backoff, FlushOK, Serving
<1>10. CASE StopRun
  BY <1>0, <1>10 DEF StopRun, FlushOK, Serving
<1> QED BY <1>1, <1>2, <1>3, <1>4, <1>5, <1>6, <1>7, <1>8, <1>9, <1>10 DEF RunStep

\* The writer pays what is owed frame by frame and leaves only an empty queue.
LEMMA WriterFlushes == ASSUME FlushInv, WriteLoop PROVE FlushOK'
<1>0. /\ FlushOK /\ Len(queue) \in Nat /\ owed \in Nat /\ cancelled \in BOOLEAN /\ queue \in Seq(Frames)
      /\ link \in {"up", "broken", "closed"} /\ graceful \in BOOLEAN
      /\ loop \in [Loops -> {"running", "flushing", "ended", "failed"}] /\ "write" \in Loops
  BY LenProperties DEF FlushInv, ClientTypeOK, ConnectionType, Loops
<1>1. /\ Serving /\ loop["write"] \in {"running", "flushing"}
      /\ UNCHANGED <<run, graceful, link, cancelled>>
  BY DEF WriteLoop, serveVars
<1>2. CASE queue # <<>> /\ queue' = Tail(queue) /\ owed' = Paid(owed)
           /\ (loop' = loop \/ (link # "up" /\ loop' = [loop EXCEPT !["write"] = "failed"]))
  <2>1. Len(queue') = Len(queue) - 1 /\ Len(queue) # 0
    BY <1>0, <1>2, TailShape
  <2>2. owed' \in Nat /\ owed' <= owed /\ owed' <= Len(queue')
    BY <1>0, <1>2, <2>1 DEF Paid, FlushOK
  <2>3. loop'["write"] = loop["write"] \/ (loop'["write"] = "failed" /\ link # "up")
    BY <1>0, <1>2
  <2> QED BY <1>0, <1>1, <2>2, <2>3 DEF FlushOK, Serving
<1>3. CASE cancelled /\ loop["write"] = "running" /\ loop' = [loop EXCEPT !["write"] = "flushing"]
           /\ UNCHANGED <<queue, owed>>
  BY <1>0, <1>1, <1>3 DEF FlushOK, Serving
<1>4. CASE loop["write"] = "flushing" /\ queue = <<>> /\ loop' = [loop EXCEPT !["write"] = "ended"]
           /\ UNCHANGED <<queue, owed>>
  <2>1. owed = 0
    BY <1>0, <1>4 DEF FlushOK
  <2> QED BY <1>0, <1>1, <1>4, <2>1 DEF FlushOK, Serving
<1> QED BY <1>2, <1>3, <1>4 DEF WriteLoop

\* Nobody else removes a frame, nor touches the writer.
LEMMA OthersFlush ==
    ASSUME FlushInv, UNCHANGED <<run, graceful, cancelled, owed>>, loop'["write"] = loop["write"],
           Len(queue') \in Nat, Len(queue') >= Len(queue), link' = link \/ (link = "up" /\ link' = "broken")
    PROVE  FlushOK'
<1>1. Len(queue) \in Nat /\ owed \in Nat
  BY LenProperties DEF FlushInv, ClientTypeOK, ConnectionType
<1> QED BY <1>1 DEF FlushInv, FlushOK, Serving

LEMMA FlushKept == ASSUME FlushInv, [ClientNext]_connectionVars PROVE FlushInv'
<1> USE DEF serveVars, callVars
<1>0. /\ ClientTypeOK /\ queue \in Seq(Frames) /\ Len(queue) \in Nat /\ Len(queue) >= Len(queue)
      /\ loop \in [Loops -> {"running", "flushing", "ended", "failed"}] /\ "write" \in Loops
  BY LenProperties DEF FlushInv, ClientTypeOK, ConnectionType, Loops
<1>1. ClientTypeOK'
  BY <1>0, TypesKept
<1>2. CASE RunStep \/ StopRun
  BY <1>1, <1>2, RunFlushes DEF FlushInv
<1>3. CASE WriteLoop
  BY <1>1, <1>3, WriterFlushes DEF FlushInv
<1>4. CASE HeartbeatLoop \/ Report
  <2>1. /\ UNCHANGED <<run, graceful, cancelled, owed, link>> /\ loop'["write"] = loop["write"]
        /\ queue' = queue \/ \E kind \in {"heartbeat", "result"} : Enqueue(kind)
    BY <1>0, <1>4 DEF HeartbeatLoop, Report
  <2>2. Len(queue') \in Nat /\ Len(queue') >= Len(queue)
    BY <1>0, <2>1, QueuedFrame
  <2> QED BY <1>1, <2>1, <2>2, OthersFlush DEF FlushInv
<1>5. CASE ReadLoop \/ SchedulerStops \/ Handle \/ BreakLink
  <2>1. /\ UNCHANGED <<run, graceful, cancelled, owed, queue>>
        /\ link' = link \/ (link = "up" /\ link' = "broken")
    BY <1>5 DEF ReadLoop, SchedulerStops, Handle, BreakLink
  <2>2. loop' = loop \/ \E step \in {"ended", "failed"} : loop' = [loop EXCEPT !["read"] = step]
    BY <1>5 DEF ReadLoop, SchedulerStops, Handle, BreakLink
  <2>3. loop'["write"] = loop["write"]
    BY <1>0, <2>2
  <2> QED BY <1>0, <1>1, <2>1, <2>3, OthersFlush DEF FlushInv
<1>6. ASSUME NEW c \in Callers, CallStep(c) \/ GiveUp(c) PROVE FlushInv'
  <2>1. UNCHANGED <<run, graceful, cancelled, owed, link, loop>>
    BY <1>6 DEF CallStep, RegisterPending, FindQueue, Send, AwaitReply, GiveUp
  <2>2. PICK f \in Frames : f = Frame("request", c)
    BY DEF Frames, Frame
  <2>3. queue' = queue \/ queue' = Append(queue, f)
    BY <1>6, <2>2 DEF CallStep, RegisterPending, FindQueue, Send, AwaitReply, GiveUp
  <2>4. Len(queue') \in Nat /\ Len(queue') >= Len(queue)
    BY <1>0, <2>3, AppendCarries
  <2> QED BY <1>1, <2>1, <2>4, OthersFlush DEF FlushInv
<1>7. CASE UNCHANGED connectionVars
  <2>1. UNCHANGED <<run, graceful, cancelled, owed, link, loop, queue>>
    BY <1>7 DEF connectionVars
  <2> QED BY <1>0, <1>1, <2>1, OthersFlush DEF FlushInv
<1> QED BY <1>2, <1>3, <1>4, <1>5, <1>6, <1>7 DEF ClientNext

\* A graceful close over a link that holds has written every frame that was
\* queued when the loops were cancelled, the shutdown notice and the results of
\* functions that finished in time among them.
THEOREM CloseSafety == ClientSpec => []FlushedBeforeClose
<1>1. ASSUME ClientInit PROVE FlushInv
  <2>1. /\ run = "dial" /\ cancelled = FALSE /\ graceful = FALSE /\ owed = 0 /\ queue = <<>>
    BY <1>1 DEF ClientInit
  <2>2. Len(queue) = 0
    BY <2>1
  <2> QED BY <1>1, <2>1, <2>2, FirstTypes DEF FlushInv, FlushOK, Serving
<1>2. FlushInv /\ [ClientNext]_connectionVars => FlushInv'
  BY FlushKept
<1>3. FlushInv => FlushedBeforeClose
  BY DEF FlushInv, FlushOK, FlushedBeforeClose, Serving
<1> QED BY <1>1, <1>2, <1>3, PTL DEF ClientSpec

=============================================================================
