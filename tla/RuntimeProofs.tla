---------------------------- MODULE RuntimeProofs ----------------------------
(***************************************************************************)
(* Proofs about module LocalRuntime, for any number of requests, executions *)
(* and cancel messages, any capacity and any size of the loopback's queues. *)
(*                                                                          *)
(* The accounting invariants are not inductive: that a request gives back   *)
(* one slot needs that it holds one, so a request must be in one place only *)
(* (the queue, the reader, its goroutine), and a request that is queued or  *)
(* with the reader must not have been started.  The drain needs what each   *)
(* stage of Run implies for the latch, the idle channel and the loopback.   *)
(***************************************************************************)
EXTENDS LocalRuntime, TLAPS, FiniteSetTheorems, SequenceTheorems

-----------------------------------------------------------------------------
(* The inductive invariant.                                                  *)

InvocationStates == {"none", "run", "report", "send", "untrack", "slot", "end", "over"}
BusyLabels == {"admit", "accept", "send", "track"}
CountedLabels == {"accept", "send", "track"}
Stages == {"serving", "drain", "waiting", "redrain", "again", "stop", "close", "wait", "returned"}

ExecutorBound == [type : {"request", "cancel"}, req : 0 .. MaxRequest, exec : ExecutionIDs]
EngineBound == [type : {"reject", "accept", "result"}, req : Requests]

\* Every variable of the runtime keeps its type; the counters never go below
\* zero, which an unmatched release of a slot or an execution would make them.
RuntimeTypeOK ==
    /\ sent \in 0 .. MaxRequest /\ cancelsLeft \in 0 .. MaxCancels /\ settled \subseteq Requests
    /\ toExecutor \in Seq(ExecutorBound) /\ toEngine \in Seq(EngineBound)
    /\ closed \in BOOLEAN /\ stopCh \in BOOLEAN /\ flusher \in {"run", "flush", "done"}
    /\ reader \in [pc : {"idle", "exited"} \cup BusyLabels, req : 0 .. MaxRequest]
    /\ inv \in [Requests -> InvocationStates] /\ cancelled \subseteq Requests
    /\ cancels \in [ExecutionIDs -> SUBSET Requests]
    /\ slots \in Nat /\ execCount \in Nat
    /\ stopping \in BOOLEAN /\ execIdle \in BOOLEAN
    /\ woken \in BOOLEAN /\ main \in Stages /\ drained \in BOOLEAN

\* A request is in one place: not dispatched yet, queued once, with the reader,
\* or started.
OnePlace ==
    /\ \A r \in Requests : r > sent => inv[r] = "none"
    /\ reader.pc \in BusyLabels => reader.req \in 1 .. sent /\ inv[reader.req] = "none"
    /\ \A n \in DOMAIN toExecutor : toExecutor[n].type = "request" =>
          /\ toExecutor[n].req \in 1 .. sent /\ inv[toExecutor[n].req] = "none"
          /\ reader.pc \in BusyLabels => toExecutor[n].req # reader.req
    /\ \A m, n \in DOMAIN toExecutor :
          /\ m # n /\ toExecutor[m].type = "request" /\ toExecutor[n].type = "request"
          => toExecutor[m].req # toExecutor[n].req

\* What the stage Run has reached says of the latch and of the idle channel.
\* Behind the latch the count only falls, so a channel once closed stays true.
DrainOK ==
    /\ stopping <=> main # "serving"
    /\ execIdle \/ woken \/ drained => stopping
    /\ woken \/ drained => execCount = 0
    /\ main \in {"waiting", "again"} => woken \/ (execIdle /\ execCount # 0)

\* ... and of the loopback.  Behind a complete drain nobody sends a result, so
\* what the flush left empty stays free of results.
LoopbackOK ==
    /\ closed <=> main \in {"close", "wait", "returned"}
    /\ stopCh <=> main \in {"wait", "returned"}
    /\ flusher # "run" => stopCh
    /\ drained => main \in {"stop", "close", "wait", "returned"}
    /\ main = "returned" => flusher = "done"
    /\ flusher = "done" /\ drained => \A n \in DOMAIN toEngine : toEngine[n].type # "result"

RuntimeInv == RuntimeTypeOK /\ OnePlace /\ SlotsBalanced /\ DrainOK /\ LoopbackOK /\ CancelFindsAll

-----------------------------------------------------------------------------
(* The operators.                                                            *)

USE RuntimeAssumption DEF Requests

\* A set of requests is finite; one more or one less counts one more or one less.
LEMMA Counting ==
    ASSUME NEW S \in SUBSET Requests
    PROVE  /\ IsFiniteSet(S) /\ Cardinality(S) \in Nat
           /\ Cardinality(S) = 0 <=> S = {}
           /\ \A r : r \notin S => Cardinality(S \cup {r}) = Cardinality(S) + 1
           /\ \A r \in S : Cardinality(S \ {r}) = Cardinality(S) - 1 /\ Cardinality(S) > 0
<1>0. IsFiniteSet(1 .. MaxRequest)
  BY FS_Interval
<1>1. IsFiniteSet(S)
  BY <1>0, FS_Subset
<1>2. Cardinality(S) \in Nat
  BY <1>1, FS_CardinalityType
<1>3. Cardinality(S) = 0 <=> S = {}
  BY <1>1, FS_EmptySet
<1>4. \A r : r \notin S => Cardinality(S \cup {r}) = Cardinality(S) + 1
  BY <1>1, FS_AddElement
<1>5. \A r \in S : Cardinality(S \ {r}) = Cardinality(S) - 1 /\ Cardinality(S) > 0
  <2> SUFFICES ASSUME NEW r \in S PROVE Cardinality(S \ {r}) = Cardinality(S) - 1 /\ Cardinality(S) > 0
    OBVIOUS
  <2>1. Cardinality(S \ {r}) = Cardinality(S) - 1
    BY <1>1, FS_RemoveElement
  <2>2. S # {}
    OBVIOUS
  <2> QED BY <1>2, <1>3, <2>1, <2>2
<1> QED BY <1>1, <1>2, <1>3, <1>4, <1>5

\* A bounded queue takes the message at its end, or is unchanged.
LEMMA OfferedProperties ==
    ASSUME NEW S, NEW q \in Seq(S), NEW m \in S
    PROVE  /\ Offered(q, m) \in Seq(S)
           /\ \/ Offered(q, m) = q
              \/ /\ DOMAIN Offered(q, m) = 1 .. Len(q) + 1 /\ DOMAIN q = 1 .. Len(q) /\ Len(q) \in Nat
                 /\ \A n \in 1 .. Len(q) : Offered(q, m)[n] = q[n]
                 /\ Offered(q, m)[Len(q) + 1] = m
  BY AppendProperties, LenProperties DEF Offered

\* What is left of a queue are its elements, one place further on.
LEMMA TailProperties ==
    ASSUME NEW S, NEW q \in Seq(S), q # <<>>
    PROVE  /\ Head(q) \in S /\ Tail(q) \in Seq(S) /\ 1 \in DOMAIN q /\ Head(q) = q[1]
           /\ \A n \in DOMAIN Tail(q) : n + 1 \in DOMAIN q /\ n + 1 # 1 /\ n \in Nat /\ Tail(q)[n] = q[n + 1]
<1>1. Head(q) \in S /\ Tail(q) \in Seq(S) /\ Len(Tail(q)) = Len(q) - 1
      /\ \A i \in 1 .. Len(Tail(q)) : Tail(q)[i] = q[i + 1]
  BY HeadTailProperties
<1>2. Len(q) \in Nat /\ Len(q) # 0 /\ DOMAIN q = 1 .. Len(q) /\ DOMAIN Tail(q) = 1 .. Len(Tail(q))
  BY <1>1, EmptySeq, LenProperties
<1>3. Head(q) = q[1]
  OBVIOUS
<1> QED BY <1>1, <1>2, <1>3

-----------------------------------------------------------------------------
(* Types.                                                                    *)

\* The message a drain goroutine takes is well formed.
LEMMA HeadMessage ==
    ASSUME RuntimeTypeOK
    PROVE  /\ toExecutor # <<>> => Head(toExecutor) \in ExecutorBound /\ Tail(toExecutor) \in Seq(ExecutorBound)
           /\ toEngine # <<>> => Head(toEngine) \in EngineBound /\ Tail(toEngine) \in Seq(EngineBound)
           /\ \A m \in EngineBound : Offered(toEngine, m) \in Seq(EngineBound)
           /\ \A m \in ExecutorBound : Offered(toExecutor, m) \in Seq(ExecutorBound)
           /\ \A m \in EngineBound : Append(toEngine, m) \in Seq(EngineBound)
  BY HeadTailProperties, OfferedProperties, AppendProperties DEF RuntimeTypeOK

\* The request the reader is about to admit is one.
LEMMA HeadRequest ==
    ASSUME RuntimeTypeOK, OnePlace, toExecutor # <<>>, Head(toExecutor).type = "request"
    PROVE  /\ Head(toExecutor).req \in Requests /\ Head(toExecutor).req \in 1 .. sent
           /\ inv[Head(toExecutor).req] = "none"
<1>1. 1 \in DOMAIN toExecutor /\ Head(toExecutor) = toExecutor[1]
  BY TailProperties DEF RuntimeTypeOK
<1> QED BY <1>1 DEF OnePlace, RuntimeTypeOK

LEMMA RuntimeInitType == RuntimeInit => RuntimeTypeOK
<1> SUFFICES ASSUME RuntimeInit PROVE RuntimeTypeOK
  OBVIOUS
<1>1. toExecutor \in Seq(ExecutorBound) /\ toEngine \in Seq(EngineBound)
  BY EmptySeq DEF RuntimeInit
<1>2. reader \in [pc : {"idle", "exited"} \cup BusyLabels, req : 0 .. MaxRequest]
  BY DEF RuntimeInit, Idle
<1>3. inv \in [Requests -> InvocationStates] /\ cancels \in [ExecutionIDs -> SUBSET Requests]
  BY DEF RuntimeInit, InvocationStates
<1>4. main \in Stages /\ flusher \in {"run", "flush", "done"}
  BY DEF RuntimeInit, Stages
<1>5. /\ closed \in BOOLEAN /\ stopCh \in BOOLEAN /\ stopping \in BOOLEAN /\ execIdle \in BOOLEAN
      /\ woken \in BOOLEAN /\ drained \in BOOLEAN
  BY DEF RuntimeInit
<1>6. sent \in 0 .. MaxRequest /\ cancelsLeft \in 0 .. MaxCancels /\ slots \in Nat /\ execCount \in Nat
  BY DEF RuntimeInit
<1>7. settled \subseteq Requests /\ cancelled \subseteq Requests
  BY DEF RuntimeInit
<1> QED BY <1>1, <1>2, <1>3, <1>4, <1>5, <1>6, <1>7 DEF RuntimeTypeOK

\* The steps of the loopback keep the types.
LEMMA LoopbackType ==
    ASSUME RuntimeTypeOK, OnePlace,
           \/ EngineDispatch \/ (\E x \in ExecutionIDs : EngineCancel(x))
           \/ HandleEngineBound \/ FlusherStops \/ ReaderStops
    PROVE  RuntimeTypeOK'
<1> USE DEF loopVars, runtimeVars, mainVars, envVars
<1>1. CASE EngineDispatch
  <2>1. sent + 1 \in Requests /\ sent' \in 0 .. MaxRequest /\ ExecOf[sent + 1] \in ExecutionIDs
    BY <1>1 DEF EngineDispatch, RuntimeTypeOK, ExecutionIDs
  <2>2. toExecutor' \in Seq(ExecutorBound)
    BY <1>1, <2>1, HeadMessage DEF EngineDispatch, ExecutorBound
  <2> QED BY <1>1, <2>1, <2>2 DEF EngineDispatch, RuntimeTypeOK
<1>2. ASSUME NEW x \in ExecutionIDs, EngineCancel(x) PROVE RuntimeTypeOK'
  <2>1. [type |-> "cancel", req |-> 0, exec |-> x] \in ExecutorBound
    BY DEF ExecutorBound
  <2>2. toExecutor' \in Seq(ExecutorBound)
    BY <1>2, <2>1, HeadMessage DEF EngineCancel
  <2> QED BY <1>2, <2>2 DEF EngineCancel, RuntimeTypeOK
<1>3. CASE HandleEngineBound
  <2>1. Head(toEngine).req \in Requests
    BY <1>3, HeadMessage DEF HandleEngineBound, EngineBound
  <2> QED BY ZenonT(60), <1>3, <2>1, HeadMessage DEF HandleEngineBound, RuntimeTypeOK
<1>4. CASE FlusherStops
  BY <1>4 DEF FlusherStops, RuntimeTypeOK, AfterStop
<1>5. CASE ReaderStops
  BY <1>5 DEF ReaderStops, RuntimeTypeOK
<1> QED BY <1>1, <1>2, <1>3, <1>4, <1>5

\* A slot is only given back, and an execution only ended, by one that was counted.
LEMMA CountersPositive ==
    ASSUME RuntimeTypeOK, OnePlace, SlotsBalanced
    PROVE  /\ reader.pc \in BusyLabels => slots > 0
           /\ reader.pc \in CountedLabels => execCount > 0
           /\ \A r \in Requests : inv[r] = "slot" => slots > 0
           /\ \A r \in Requests : inv[r] = "end" => execCount > 0
<1> DEFINE A == Holding \cup Admitting({"admit", "accept", "send", "track"})
           B == Counted \cup Admitting({"accept", "send", "track"})
<1>1. A \subseteq Requests /\ B \subseteq Requests
  BY DEF Holding, Counted, Admitting, OnePlace, RuntimeTypeOK, BusyLabels
<1>2. /\ reader.pc \in BusyLabels => A # {}
      /\ reader.pc \in CountedLabels => B # {}
      /\ \A r \in Requests : inv[r] = "slot" => A # {}
      /\ \A r \in Requests : inv[r] = "end" => B # {}
  BY DEF Holding, Counted, Admitting, BusyLabels, CountedLabels
<1>3. slots = Cardinality(A) /\ execCount = Cardinality(B)
  BY DEF SlotsBalanced
<1> HIDE DEF A, B
<1> QED BY <1>1, <1>2, <1>3, Counting

\* An execution that ends leaves a count and two flags.
LEMMA EndExecutionType ==
    ASSUME RuntimeTypeOK, EndExecution, execCount > 0
    PROVE  execCount' \in Nat /\ execIdle' \in BOOLEAN /\ woken' \in BOOLEAN
<1>1. execCount' \in Nat
  BY DEF EndExecution, RuntimeTypeOK
<1>2. execIdle' \in BOOLEAN /\ woken' \in BOOLEAN
  BY Zenon DEF EndExecution
<1> QED BY <1>1, <1>2

\* The steps of the reader keep the types.
LEMMA ReaderType ==
    ASSUME RuntimeTypeOK, OnePlace, SlotsBalanced, ReaderStep
    PROVE  RuntimeTypeOK'
<1> USE DEF loopVars, runtimeVars, mainVars, envVars
<1>1. CASE HandleExecRequest
  <2> DEFINE m == Head(toExecutor)
  <2>1. m.req \in Requests /\ toExecutor' \in Seq(ExecutorBound)
    BY <1>1, HeadMessage, HeadRequest DEF HandleExecRequest
  <2>2. CASE m.req \in Unknown \/ slots = Capacity
    <3>1. toEngine' \in Seq(EngineBound) /\ reader' = Idle
      BY <1>1, <2>1, <2>2, HeadMessage DEF HandleExecRequest, Reject, EngineBound, RuntimeTypeOK
    <3> QED BY <1>1, <2>1, <2>2, <3>1 DEF HandleExecRequest, RuntimeTypeOK, Idle
  <2>3. CASE ~(m.req \in Unknown \/ slots = Capacity)
    BY <1>1, <2>1, <2>3 DEF HandleExecRequest, RuntimeTypeOK, BusyLabels
  <2> QED BY <2>2, <2>3
<1>2. CASE BeginExecution
  <2>1. reader.req \in Requests /\ slots > 0
    BY <1>2, CountersPositive DEF BeginExecution, OnePlace, RuntimeTypeOK, BusyLabels
  <2>2. CASE Admits
    BY SMTT(30), <1>2, <2>2 DEF BeginExecution, RuntimeTypeOK, BusyLabels
  <2>3. CASE ~Admits
    <3>1. toEngine' \in Seq(EngineBound) /\ reader' = Idle
      BY <1>2, <2>1, <2>3, HeadMessage DEF BeginExecution, Reject, EngineBound, RuntimeTypeOK
    <3>2. slots' \in Nat
      BY <1>2, <2>1, <2>3 DEF BeginExecution, SlotReturned, RuntimeTypeOK
    <3> QED BY <1>2, <2>3, <3>1, <3>2 DEF BeginExecution, RuntimeTypeOK, Idle
  <2> QED BY <2>2, <2>3
<1>3. CASE CheckAccept
  <2>1. slots > 0 /\ execCount > 0
    BY <1>3, CountersPositive DEF CheckAccept, BusyLabels, CountedLabels
  <2>2. slots' \in Nat /\ execCount' \in Nat /\ execIdle' \in BOOLEAN /\ woken' \in BOOLEAN
    BY SMTT(30), <1>3, <2>1, EndExecutionType DEF CheckAccept, RuntimeTypeOK
  <2>3. reader' \in [pc : {"idle", "exited"} \cup BusyLabels, req : 0 .. MaxRequest]
    BY <1>3 DEF CheckAccept, RuntimeTypeOK, BusyLabels, Idle
  <2> QED BY <1>3, <2>2, <2>3 DEF CheckAccept, RuntimeTypeOK
<1>4. CASE SendAccept
  <2>1. reader.req \in Requests /\ slots > 0 /\ execCount > 0
    BY <1>4, CountersPositive DEF SendAccept, OnePlace, RuntimeTypeOK, BusyLabels, CountedLabels
  <2>2. slots' \in Nat /\ execCount' \in Nat /\ execIdle' \in BOOLEAN /\ woken' \in BOOLEAN
    BY SMTT(30), <1>4, <2>1, EndExecutionType DEF SendAccept, RuntimeTypeOK
  <2>3. reader' = [reader EXCEPT !.pc = "track"] \/ reader' = Idle
    BY <1>4 DEF SendAccept
  <2>4. [type |-> "accept", req |-> reader.req] \in EngineBound
    BY <2>1 DEF EngineBound
  <2>5. toEngine' \in Seq(EngineBound)
    BY <1>4, <2>4, HeadMessage DEF SendAccept, RuntimeTypeOK
  <2>6. reader' \in [pc : {"idle", "exited"} \cup BusyLabels, req : 0 .. MaxRequest]
    <3>1. CASE reader' = Idle
      BY <3>1 DEF Idle
    <3>2. CASE reader' = [reader EXCEPT !.pc = "track"]
      BY <3>2 DEF RuntimeTypeOK, BusyLabels
    <3> QED BY <2>3, <3>1, <3>2
  <2> QED BY <1>4, <2>2, <2>5, <2>6 DEF SendAccept, RuntimeTypeOK
<1>5. CASE TrackCancel
  <2>1. reader.req \in Requests /\ ExecOf[reader.req] \in ExecutionIDs
    BY <1>5 DEF TrackCancel, OnePlace, RuntimeTypeOK, BusyLabels, ExecutionIDs
  <2>2. inv' \in [Requests -> InvocationStates] /\ cancels' \in [ExecutionIDs -> SUBSET Requests]
    BY <1>5, <2>1 DEF TrackCancel, RuntimeTypeOK, InvocationStates
  <2>3. cancelled' \subseteq Requests
    BY <1>5, <2>1 DEF TrackCancel, RuntimeTypeOK
  <2>4. reader' \in [pc : {"idle", "exited"} \cup BusyLabels, req : 0 .. MaxRequest]
    BY <1>5 DEF TrackCancel, Idle
  <2> QED BY <1>5, <2>2, <2>3, <2>4 DEF TrackCancel, RuntimeTypeOK
<1>6. CASE CancelExecution
  <2>1. Head(toExecutor).exec \in ExecutionIDs /\ toExecutor' \in Seq(ExecutorBound)
    BY <1>6, HeadMessage DEF CancelExecution, ExecutorBound
  <2> QED BY <1>6, <2>1 DEF CancelExecution, RuntimeTypeOK
<1> QED BY <1>1, <1>2, <1>3, <1>4, <1>5, <1>6 DEF ReaderStep

\* The steps of the goroutine of a request keep the types.
LEMMA InvocationType ==
    ASSUME RuntimeTypeOK, OnePlace, SlotsBalanced,
           NEW r \in Requests, FunctionReturns(r) \/ RunInvocation(r)
    PROVE  RuntimeTypeOK'
<1> USE DEF loopVars, runtimeVars, mainVars, envVars
<1>1. CASE FunctionReturns(r)
  BY <1>1 DEF FunctionReturns, Moves, RuntimeTypeOK, InvocationStates
<1>2. CASE CheckResult(r)
  BY <1>2 DEF CheckResult, Moves, RuntimeTypeOK, InvocationStates
<1>3. CASE SendResult(r)
  <2>1. toEngine' \in Seq(EngineBound)
    BY <1>3, HeadMessage DEF SendResult, EngineBound
  <2> QED BY <1>3, <2>1 DEF SendResult, Moves, RuntimeTypeOK, InvocationStates
<1>4. CASE UntrackCancel(r)
  <2>1. cancels' \in [ExecutionIDs -> SUBSET Requests]
    BY <1>4 DEF UntrackCancel, Untracked, RuntimeTypeOK
  <2> QED BY <1>4, <2>1 DEF UntrackCancel, Moves, RuntimeTypeOK, InvocationStates
<1>5. CASE FreeSlot(r)
  BY <1>5, CountersPositive DEF FreeSlot, Moves, RuntimeTypeOK, InvocationStates
<1>6. CASE Retire(r)
  <2>1. execCount' \in Nat /\ execIdle' \in BOOLEAN /\ woken' \in BOOLEAN
    BY <1>6, CountersPositive, EndExecutionType DEF Retire, Moves
  <2> QED BY <1>6, <2>1 DEF Retire, Moves, RuntimeTypeOK, InvocationStates
<1> QED BY <1>1, <1>2, <1>3, <1>4, <1>5, <1>6 DEF RunInvocation

\* The steps of Run keep the types.
LEMMA MainType ==
    ASSUME RuntimeTypeOK, BeginShutdown \/ MainStep
    PROVE  RuntimeTypeOK'
<1> USE DEF loopVars, runtimeVars, mainVars, envVars, Stages
<1>1. CASE BeginShutdown
  BY <1>1 DEF BeginShutdown, RuntimeTypeOK
<1>2. ASSUME NEW from, NEW waiting \in {"waiting", "again"}, AwaitExecutions(from, waiting) PROVE RuntimeTypeOK'
  BY ZenonT(60), <1>2 DEF AwaitExecutions, RuntimeTypeOK
<1>3. CASE Drained
  BY <1>3 DEF Drained, RuntimeTypeOK
<1>4. CASE DrainTimeout
  BY ZenonT(60), <1>4 DEF DrainTimeout, RuntimeTypeOK
<1>5. CASE StopLoopback
  BY ZenonT(60), <1>5 DEF StopLoopback, RuntimeTypeOK
<1> QED BY <1>1, <1>2, <1>3, <1>4, <1>5 DEF MainStep, Drain

-----------------------------------------------------------------------------
(* One place for every request.                                              *)

\* A dispatched request is new: it is behind every request already in the queue.
LEMMA DispatchOnePlace ==
    ASSUME RuntimeTypeOK, OnePlace, EngineDispatch
    PROVE  OnePlace'
<1> DEFINE m == [type |-> "request", req |-> sent + 1, exec |-> ExecOf[sent + 1]]
<1>1. /\ sent' = sent + 1 /\ toExecutor' = Offered(toExecutor, m) /\ sent + 1 \in Requests
      /\ UNCHANGED <<reader, inv>> /\ ExecOf[sent + 1] \in ExecutionIDs
  BY DEF EngineDispatch, RuntimeTypeOK, ExecutionIDs
<1>2. m \in ExecutorBound /\ m.req = sent + 1 /\ m.type = "request"
  BY <1>1 DEF ExecutorBound
<1> HIDE DEF m
<1>3. \/ toExecutor' = toExecutor
      \/ /\ DOMAIN toExecutor' = 1 .. Len(toExecutor) + 1 /\ DOMAIN toExecutor = 1 .. Len(toExecutor)
         /\ Len(toExecutor) \in Nat
         /\ \A n \in 1 .. Len(toExecutor) : toExecutor'[n] = toExecutor[n]
         /\ toExecutor'[Len(toExecutor) + 1] = m
  <2>1. toExecutor \in Seq(ExecutorBound)
    BY DEF RuntimeTypeOK
  <2>2. \/ Offered(toExecutor, m) = toExecutor
        \/ /\ DOMAIN Offered(toExecutor, m) = 1 .. Len(toExecutor) + 1 /\ DOMAIN toExecutor = 1 .. Len(toExecutor)
           /\ Len(toExecutor) \in Nat
           /\ \A n \in 1 .. Len(toExecutor) : Offered(toExecutor, m)[n] = toExecutor[n]
           /\ Offered(toExecutor, m)[Len(toExecutor) + 1] = m
    BY <1>2, <2>1, OfferedProperties
  <2> QED BY <1>1, <2>2
<1>4. \A n \in DOMAIN toExecutor' : toExecutor'[n] = m \/ (n \in DOMAIN toExecutor /\ toExecutor'[n] = toExecutor[n])
  BY <1>3
<1>5. \A k, n \in DOMAIN toExecutor' : k # n => toExecutor'[k] # m \/ toExecutor'[n] # m
  <2>1. \A n \in DOMAIN toExecutor : toExecutor[n] # m
    BY <1>2 DEF OnePlace, RuntimeTypeOK
  <2> QED BY <1>3, <2>1
<1>6. inv[sent + 1] = "none"
  BY <1>1 DEF OnePlace, RuntimeTypeOK
<1>7. sent \in Nat /\ m.req = sent + 1 /\ m.type = "request"
  BY <1>2 DEF RuntimeTypeOK
<1>8. \A r \in Requests : r > sent' => inv'[r] = "none"
  BY <1>1, <1>7 DEF OnePlace
<1>9. reader'.pc \in BusyLabels => reader'.req \in 1 .. sent' /\ inv'[reader'.req] = "none"
  BY <1>1, <1>7 DEF OnePlace
<1>10. \A n \in DOMAIN toExecutor' : toExecutor'[n].type = "request" =>
          /\ toExecutor'[n].req \in 1 .. sent' /\ inv'[toExecutor'[n].req] = "none"
          /\ reader'.pc \in BusyLabels => toExecutor'[n].req # reader'.req
  BY <1>1, <1>4, <1>6, <1>7 DEF OnePlace
<1>11. \A k, n \in DOMAIN toExecutor' :
          /\ k # n /\ toExecutor'[k].type = "request" /\ toExecutor'[n].type = "request"
          => toExecutor'[k].req # toExecutor'[n].req
  BY <1>1, <1>4, <1>5, <1>7 DEF OnePlace
<1> QED BY <1>8, <1>9, <1>10, <1>11 DEF OnePlace

\* A cancel message is no request.
LEMMA CancelOnePlace ==
    ASSUME RuntimeTypeOK, OnePlace, NEW x \in ExecutionIDs, EngineCancel(x)
    PROVE  OnePlace'
<1> DEFINE m == [type |-> "cancel", req |-> 0, exec |-> x]
<1>1. toExecutor' = Offered(toExecutor, m) /\ UNCHANGED <<reader, inv, sent>> /\ m \in ExecutorBound
  BY DEF EngineCancel, ExecutorBound
<1>2. m.type = "cancel"
  OBVIOUS
<1> HIDE DEF m
<1>3. \A n \in DOMAIN toExecutor' : toExecutor'[n] = m \/ (n \in DOMAIN toExecutor /\ toExecutor'[n] = toExecutor[n])
  <2>1. toExecutor \in Seq(ExecutorBound)
    BY DEF RuntimeTypeOK
  <2>2. \A n \in DOMAIN Offered(toExecutor, m) :
          Offered(toExecutor, m)[n] = m \/ (n \in DOMAIN toExecutor /\ Offered(toExecutor, m)[n] = toExecutor[n])
    <3>1. m \in ExecutorBound
      BY <1>1
    <3>2. \/ Offered(toExecutor, m) = toExecutor
          \/ /\ DOMAIN Offered(toExecutor, m) = 1 .. Len(toExecutor) + 1 /\ DOMAIN toExecutor = 1 .. Len(toExecutor)
             /\ Len(toExecutor) \in Nat
             /\ \A n \in 1 .. Len(toExecutor) : Offered(toExecutor, m)[n] = toExecutor[n]
             /\ Offered(toExecutor, m)[Len(toExecutor) + 1] = m
      BY <2>1, <3>1, OfferedProperties
    <3> QED BY <3>2
  <2> QED BY <1>1, <2>2
<1> QED BY <1>1, <1>2, <1>3 DEF OnePlace

\* Taking a message off the queue: the request goes to the reader or is over.
LEMMA TakeOnePlace ==
    ASSUME RuntimeTypeOK, OnePlace, toExecutor # <<>>, toExecutor' = Tail(toExecutor),
           UNCHANGED <<inv, sent>>, reader.pc = "idle",
           \/ reader' = Idle \/ reader' = reader
           \/ Head(toExecutor).type = "request" /\ reader' = [pc |-> "admit", req |-> Head(toExecutor).req]
    PROVE  OnePlace'
<1>1. /\ 1 \in DOMAIN toExecutor /\ Head(toExecutor) = toExecutor[1]
      /\ \A n \in DOMAIN toExecutor' : n + 1 \in DOMAIN toExecutor /\ n + 1 # 1 /\ n \in Nat
                                       /\ toExecutor'[n] = toExecutor[n + 1]
  BY TailProperties DEF RuntimeTypeOK
<1>2. reader'.pc \in BusyLabels =>
         reader'.req = Head(toExecutor).req /\ Head(toExecutor).type = "request"
  BY DEF Idle, BusyLabels
<1>3. reader'.pc \in BusyLabels => reader'.req \in 1 .. sent' /\ inv'[reader'.req] = "none"
  BY <1>2, HeadRequest
<1>4. \A n \in DOMAIN toExecutor' : toExecutor'[n].type = "request" =>
          /\ toExecutor'[n].req \in 1 .. sent' /\ inv'[toExecutor'[n].req] = "none"
          /\ reader'.pc \in BusyLabels => toExecutor'[n].req # reader'.req
  BY <1>1, <1>2 DEF OnePlace
<1>5. \A k, n \in DOMAIN toExecutor' :
          /\ k # n /\ toExecutor'[k].type = "request" /\ toExecutor'[n].type = "request"
          => toExecutor'[k].req # toExecutor'[n].req
  BY <1>1 DEF OnePlace
<1> QED BY <1>3, <1>4, <1>5 DEF OnePlace

\* The reader keeps its request, drops it, or starts it.
LEMMA ReaderOnePlace ==
    ASSUME RuntimeTypeOK, OnePlace, UNCHANGED <<toExecutor, sent>>,
           \/ UNCHANGED inv /\ (reader'.pc \in BusyLabels => reader.pc \in BusyLabels /\ reader'.req = reader.req)
           \/ /\ reader.pc \in BusyLabels /\ reader' = Idle
              /\ inv' = [inv EXCEPT ![reader.req] = "run"]
    PROVE  OnePlace'
<1>1. CASE UNCHANGED inv /\ (reader'.pc \in BusyLabels => reader.pc \in BusyLabels /\ reader'.req = reader.req)
  BY <1>1 DEF OnePlace
<1>2. CASE reader.pc \in BusyLabels /\ reader' = Idle /\ inv' = [inv EXCEPT ![reader.req] = "run"]
  <2>1. reader'.pc \notin BusyLabels /\ reader.req \in 1 .. sent /\ sent \in Nat
    BY <1>2 DEF Idle, BusyLabels, OnePlace, RuntimeTypeOK
  <2>2. \A r \in Requests : r # reader.req => inv'[r] = inv[r]
    BY <1>2 DEF RuntimeTypeOK
  <2>3. \A r \in 1 .. sent : r \in Requests
    BY DEF RuntimeTypeOK
  <2>4. \A r \in Requests : r > sent => inv'[r] = "none"
    BY <2>1, <2>2 DEF OnePlace
  <2>5. \A n \in DOMAIN toExecutor : toExecutor[n].type = "request" =>
          toExecutor[n].req \in 1 .. sent /\ inv'[toExecutor[n].req] = "none"
    BY <1>2, <2>2, <2>3 DEF OnePlace
  <2> QED BY <2>1, <2>4, <2>5 DEF OnePlace
<1> QED BY <1>1, <1>2

\* A goroutine only moves a request that was started.
LEMMA InvocationOnePlace ==
    ASSUME RuntimeTypeOK, OnePlace, UNCHANGED <<toExecutor, sent, reader>>,
           NEW r \in Requests, NEW from \in InvocationStates \ {"none"}, NEW to, Moves(r, from, to)
    PROVE  OnePlace'
<1>1. inv[r] # "none" /\ \A q \in Requests : q # r => inv'[q] = inv[q]
  BY DEF Moves, RuntimeTypeOK
<1>2. \A q \in Requests : inv[q] = "none" => inv'[q] = "none"
  BY <1>1
<1>3. \A q \in 1 .. sent : q \in Requests
  BY DEF RuntimeTypeOK
<1> QED BY <1>2, <1>3 DEF OnePlace

\* Every step keeps each request in one place.
LEMMA StepOnePlace ==
    ASSUME RuntimeTypeOK, OnePlace, RuntimeNext
    PROVE  OnePlace'
<1> USE DEF loopVars, runtimeVars, mainVars, envVars
<1>1. CASE EngineDispatch
  BY <1>1, DispatchOnePlace
<1>2. CASE \E x \in ExecutionIDs : EngineCancel(x)
  BY <1>2, CancelOnePlace
<1>3. CASE HandleEngineBound \/ FlusherStops \/ BeginShutdown \/ MainStep
  <2>1. UNCHANGED <<toExecutor, sent, reader, inv>>
    BY <1>3 DEF HandleEngineBound, FlusherStops, BeginShutdown, MainStep, Drain, AwaitExecutions,
       Drained, DrainTimeout, StopLoopback
  <2> QED BY <2>1, ReaderOnePlace
<1>4. CASE ReaderStops
  <2>1. UNCHANGED <<toExecutor, sent, inv>> /\ reader'.pc \notin BusyLabels
    BY <1>4 DEF ReaderStops, BusyLabels, RuntimeTypeOK
  <2> QED BY <2>1, ReaderOnePlace
<1>5. CASE HandleExecRequest
  BY <1>5, TakeOnePlace DEF HandleExecRequest, Reject
<1>6. CASE CancelExecution
  BY <1>6, TakeOnePlace DEF CancelExecution
<1>7. CASE BeginExecution \/ CheckAccept \/ SendAccept
  <2>1. UNCHANGED <<toExecutor, sent, inv>> /\ reader.pc \in BusyLabels
    BY <1>7 DEF BeginExecution, CheckAccept, SendAccept, BusyLabels
  <2>2. reader' = Idle \/ \E l \in BusyLabels : reader' = [reader EXCEPT !.pc = l]
    BY <1>7 DEF BeginExecution, CheckAccept, SendAccept, BusyLabels, Reject
  <2>3. reader'.pc \in BusyLabels => reader'.req = reader.req
    BY <2>2 DEF Idle, BusyLabels, RuntimeTypeOK
  <2> QED BY <2>1, <2>3, ReaderOnePlace
<1>8. CASE TrackCancel
  <2>1. UNCHANGED <<toExecutor, sent>> /\ reader.pc \in BusyLabels /\ reader' = Idle
        /\ inv' = [inv EXCEPT ![reader.req] = "run"]
    BY <1>8 DEF TrackCancel, BusyLabels
  <2> QED BY <2>1, ReaderOnePlace
<1>9. ASSUME NEW r \in Requests, FunctionReturns(r) \/ RunInvocation(r) PROVE OnePlace'
  <2>1. UNCHANGED <<toExecutor, sent, reader>>
    BY <1>9 DEF FunctionReturns, RunInvocation, CheckResult, SendResult, UntrackCancel, FreeSlot, Retire
  <2>2. \E from \in InvocationStates \ {"none"} : \E to \in InvocationStates : Moves(r, from, to)
    BY <1>9 DEF FunctionReturns, RunInvocation, CheckResult, SendResult, UntrackCancel, FreeSlot, Retire,
       InvocationStates
  <2> QED BY <2>1, <2>2, InvocationOnePlace
<1> QED BY <1>1, <1>2, <1>3, <1>4, <1>5, <1>6, <1>7, <1>8, <1>9 DEF RuntimeNext, ReaderStep

-----------------------------------------------------------------------------
(* The slots and the drain accounting.                                       *)

\* The requests that hold a slot, and those the drain waits for.
SlotHolders == Holding \cup Admitting({"admit", "accept", "send", "track"})
Draining == Counted \cup Admitting({"accept", "send", "track"})

\* The balance is kept by a step that changes a counter by what joins or leaves
\* the set it counts.
Follows(n, m, S, T) ==
    \/ n = m /\ S = T
    \/ n = m + 1 /\ \E r : r \notin S /\ T = S \cup {r}
    \/ n = m - 1 /\ \E r \in S : T = S \ {r}

LEMMA BalanceKept ==
    ASSUME RuntimeTypeOK, RuntimeTypeOK', OnePlace, OnePlace', SlotsBalanced,
           Follows(slots', slots, SlotHolders, SlotHolders'),
           Follows(execCount', execCount, Draining, Draining')
    PROVE  SlotsBalanced'
<1>1. SlotHolders \subseteq Requests /\ Draining \subseteq Requests
  BY DEF SlotHolders, Draining, Holding, Counted, Admitting, OnePlace, RuntimeTypeOK, BusyLabels
<1>2. slots = Cardinality(SlotHolders) /\ execCount = Cardinality(Draining)
  BY DEF SlotsBalanced, SlotHolders, Draining
<1>3. slots' = Cardinality(SlotHolders') /\ execCount' = Cardinality(Draining')
  BY <1>1, <1>2, Counting DEF Follows
<1> QED BY <1>3 DEF SlotsBalanced, SlotHolders, Draining

\* A step that leaves the reader's place, the goroutines and the counters alone.
LEMMA BalanceFrame ==
    ASSUME UNCHANGED <<slots, execCount, inv>>,
           reader' = reader \/ (reader.pc \notin BusyLabels /\ reader'.pc \notin BusyLabels)
    PROVE  /\ Follows(slots', slots, SlotHolders, SlotHolders')
           /\ Follows(execCount', execCount, Draining, Draining')
  BY DEF Follows, SlotHolders, Draining, Holding, Counted, Admitting, BusyLabels

\* The reader's steps.
LEMMA ReaderBalance ==
    ASSUME RuntimeTypeOK, OnePlace, ReaderStep
    PROVE  /\ Follows(slots', slots, SlotHolders, SlotHolders')
           /\ Follows(execCount', execCount, Draining, Draining')
<1> USE DEF Follows, SlotHolders, Draining, Holding, Counted, Admitting
<1>1. CASE HandleExecRequest
  <2>1. /\ Head(toExecutor).req \in Requests /\ inv[Head(toExecutor).req] = "none"
        /\ reader.pc = "idle" /\ UNCHANGED <<execCount, inv>>
    BY <1>1, HeadRequest DEF HandleExecRequest
  <2>2. \/ reader' = Idle /\ slots' = slots
        \/ reader' = [pc |-> "admit", req |-> Head(toExecutor).req] /\ slots' = slots + 1
    BY <1>1 DEF HandleExecRequest, Reject
  <2> QED BY <2>1, <2>2 DEF Idle
<1>2. CASE BeginExecution
  <2>1. reader.pc = "admit" /\ reader.req \in Requests /\ inv[reader.req] = "none" /\ UNCHANGED inv
    BY <1>2 DEF BeginExecution, OnePlace, RuntimeTypeOK, BusyLabels
  <2>2. \/ execCount' = execCount + 1 /\ reader' = [reader EXCEPT !.pc = "accept"] /\ slots' = slots
        \/ slots' = slots - 1 /\ reader' = Idle /\ execCount' = execCount
    BY <1>2 DEF BeginExecution, Reject, SlotReturned
  <2>3. \/ execCount' = execCount + 1 /\ reader'.pc = "accept" /\ reader'.req = reader.req /\ slots' = slots
        \/ slots' = slots - 1 /\ reader'.pc = "idle" /\ execCount' = execCount
    BY <2>2 DEF Idle, RuntimeTypeOK
  <2> QED BY <2>1, <2>3
<1>3. CASE CheckAccept \/ SendAccept
  <2>1. reader.pc \in {"accept", "send"} /\ reader.req \in Requests /\ inv[reader.req] = "none" /\ UNCHANGED inv
    BY <1>3 DEF CheckAccept, SendAccept, OnePlace, RuntimeTypeOK, BusyLabels
  <2>2. \/ execCount' = execCount - 1 /\ slots' = slots - 1 /\ reader'.pc = "idle"
        \/ /\ UNCHANGED <<execCount, slots>> /\ reader'.pc \in {"send", "track"}
           /\ reader'.req = reader.req
    BY <1>3 DEF CheckAccept, SendAccept, EndExecution, Idle, RuntimeTypeOK
  <2> QED BY <2>1, <2>2
<1>4. CASE TrackCancel
  <2>1. /\ reader.pc = "track" /\ reader.req \in Requests /\ inv' = [inv EXCEPT ![reader.req] = "run"]
        /\ reader'.pc = "idle" /\ UNCHANGED <<slots, execCount>>
    BY <1>4 DEF TrackCancel, OnePlace, RuntimeTypeOK, BusyLabels, Idle
  <2>2. \A r \in Requests : inv'[r] = IF r = reader.req THEN "run" ELSE inv[r]
    BY <2>1 DEF RuntimeTypeOK
  <2>3. inv[reader.req] = "none"
    BY <2>1 DEF OnePlace, BusyLabels
  <2>4. SlotHolders' = SlotHolders
    BY <2>1, <2>2, <2>3
  <2>5. Draining' = Draining
    BY <2>1, <2>2, <2>3
  <2> QED BY <2>1, <2>4, <2>5
<1>5. CASE CancelExecution
  BY <1>5 DEF CancelExecution, runtimeVars
<1> QED BY <1>1, <1>2, <1>3, <1>4, <1>5 DEF ReaderStep

\* The steps of the goroutine of a request: one slot, then one execution less.
LEMMA InvocationBalance ==
    ASSUME RuntimeTypeOK, OnePlace, NEW r \in Requests, FunctionReturns(r) \/ RunInvocation(r)
    PROVE  /\ Follows(slots', slots, SlotHolders, SlotHolders')
           /\ Follows(execCount', execCount, Draining, Draining')
<1> USE DEF Holding, Counted, Admitting
<1>1. reader' = reader /\ (reader.pc \in BusyLabels => reader.req # r)
  <2>1. inv[r] # "none" /\ reader' = reader
    BY DEF FunctionReturns, RunInvocation, CheckResult, SendResult, UntrackCancel, FreeSlot, Retire, Moves
  <2> QED BY <2>1 DEF OnePlace
<1>2. ASSUME NEW from, NEW to, Moves(r, from, to)
      PROVE  inv[r] = from /\ \A q \in Requests : inv'[q] = IF q = r THEN to ELSE inv[q]
  BY <1>2 DEF Moves, RuntimeTypeOK
<1>3. CASE FunctionReturns(r) \/ CheckResult(r) \/ SendResult(r) \/ UntrackCancel(r)
  <2>1. \E from, to \in {"run", "report", "send", "untrack", "slot"} : Moves(r, from, to)
    BY <1>3 DEF FunctionReturns, CheckResult, SendResult, UntrackCancel
  <2>2. UNCHANGED <<slots, execCount>>
    BY <1>3 DEF FunctionReturns, CheckResult, SendResult, UntrackCancel, runtimeVars
  <2>3. SlotHolders' = SlotHolders /\ Draining' = Draining
    BY <1>1, <1>2, <2>1 DEF SlotHolders, Draining
  <2> QED BY <2>2, <2>3 DEF Follows
<1>4. CASE FreeSlot(r)
  <2>1. slots' = slots - 1 /\ execCount' = execCount /\ Moves(r, "slot", "end")
    BY <1>4 DEF FreeSlot
  <2>2. inv[r] = "slot" /\ \A q \in Requests : inv'[q] = IF q = r THEN "end" ELSE inv[q]
    BY <1>2, <2>1
  <2>3. SlotHolders' = SlotHolders \ {r} /\ r \in SlotHolders /\ Draining' = Draining
    BY <1>1, <2>2 DEF SlotHolders, Draining, BusyLabels
  <2> QED BY <2>1, <2>3 DEF Follows
<1>5. CASE Retire(r)
  <2>1. slots' = slots /\ execCount' = execCount - 1 /\ Moves(r, "end", "over")
    BY <1>5 DEF Retire, EndExecution
  <2>2. inv[r] = "end" /\ \A q \in Requests : inv'[q] = IF q = r THEN "over" ELSE inv[q]
    BY <1>2, <2>1
  <2>3. SlotHolders' = SlotHolders /\ Draining' = Draining \ {r} /\ r \in Draining
    BY <1>1, <2>2 DEF SlotHolders, Draining, BusyLabels
  <2> QED BY <2>1, <2>3 DEF Follows
<1> QED BY <1>3, <1>4, <1>5 DEF RunInvocation

-----------------------------------------------------------------------------
(* The drain.                                                                *)

\* Nothing is counted exactly when nothing runs and nothing is being admitted.
LEMMA QuietWhenZero ==
    ASSUME RuntimeTypeOK, OnePlace, SlotsBalanced
    PROVE  execCount = 0 <=> (Counted = {} /\ reader.pc \notin CountedLabels)
<1>1. Draining \subseteq Requests /\ execCount = Cardinality(Draining)
  BY DEF Draining, Counted, Holding, Admitting, OnePlace, RuntimeTypeOK, SlotsBalanced, BusyLabels
<1>2. execCount = 0 <=> Draining = {}
  BY <1>1, Counting
<1>3. Draining = {} <=> (Counted = {} /\ reader.pc \notin CountedLabels)
  BY DEF Draining, Admitting, CountedLabels
<1> QED BY <1>2, <1>3

\* Ending an execution closes the idle channel exactly when it was the last one.
LEMMA EndKeepsDrain ==
    ASSUME RuntimeTypeOK, DrainOK, execCount > 0, EndExecution, UNCHANGED <<stopping, main, drained>>
    PROVE  DrainOK'
<1>1. execCount \in Nat /\ execCount' = execCount - 1
  BY DEF EndExecution, RuntimeTypeOK
<1>2. ~woken /\ ~drained
  BY <1>1 DEF DrainOK
<1>3. execIdle' <=> (execIdle /\ execCount # 1)
  BY Zenon DEF EndExecution
<1>4. woken' <=> (execIdle /\ execCount = 1)
  BY <1>2, Zenon DEF EndExecution
<1>5. (stopping <=> main # "serving")'
  BY DEF DrainOK
<1>6. (execIdle \/ woken \/ drained => stopping)'
  BY <1>2, <1>3, <1>4 DEF DrainOK
<1>7. (woken \/ drained => execCount = 0)'
  BY <1>1, <1>2, <1>4
<1>8. (main \in {"waiting", "again"} => woken \/ (execIdle /\ execCount # 0))'
  BY <1>1, <1>2, <1>3, <1>4 DEF DrainOK
<1> QED BY <1>5, <1>6, <1>7, <1>8 DEF DrainOK

\* A step that leaves Run and the counter alone.
LEMMA DrainFrame ==
    ASSUME DrainOK, UNCHANGED <<stopping, execIdle, execCount, mainVars>>
    PROVE  DrainOK'
  BY DEF DrainOK, mainVars

\* Every step keeps the drain sound: behind the latch nothing is admitted.
LEMMA StepDrain ==
    ASSUME RuntimeTypeOK, OnePlace, SlotsBalanced, DrainOK, RuntimeNext
    PROVE  DrainOK'
<1> USE DEF loopVars, runtimeVars, mainVars, envVars
<1>1. CASE EngineDispatch \/ (\E x \in ExecutionIDs : EngineCancel(x))
           \/ HandleEngineBound \/ FlusherStops \/ ReaderStops
  BY <1>1, DrainFrame DEF EngineDispatch, EngineCancel, HandleEngineBound, FlusherStops, ReaderStops
<1>2. CASE HandleExecRequest \/ TrackCancel \/ CancelExecution
  BY <1>2, DrainFrame DEF HandleExecRequest, TrackCancel, CancelExecution
<1>3. CASE BeginExecution
  <2>1. CASE stopping
    BY <1>3, <2>1, DrainFrame DEF BeginExecution, Admits
  <2>2. CASE ~stopping
    <3>1. UNCHANGED <<stopping, execIdle, woken, main, drained>>
      BY <1>3 DEF BeginExecution
    <3>2. ~execIdle /\ ~woken /\ ~drained /\ main = "serving"
      BY <2>2 DEF DrainOK
    <3> QED BY <2>2, <3>1, <3>2 DEF DrainOK
  <2> QED BY <2>1, <2>2
<1>4. CASE CheckAccept \/ SendAccept
  <2>1. execCount > 0 /\ UNCHANGED <<stopping, main, drained>>
    BY <1>4, CountersPositive DEF CheckAccept, SendAccept, CountedLabels
  <2>2. EndExecution \/ UNCHANGED <<execCount, execIdle, woken>>
    BY <1>4 DEF CheckAccept, SendAccept
  <2> QED BY <2>1, <2>2, EndKeepsDrain, DrainFrame
<1>5. ASSUME NEW r \in Requests, FunctionReturns(r) \/ RunInvocation(r) PROVE DrainOK'
  <2>1. CASE Retire(r)
    BY <2>1, EndKeepsDrain, CountersPositive DEF Retire, Moves
  <2>2. CASE FunctionReturns(r) \/ CheckResult(r) \/ SendResult(r) \/ UntrackCancel(r) \/ FreeSlot(r)
    BY <2>2, DrainFrame DEF FunctionReturns, CheckResult, SendResult, UntrackCancel, FreeSlot
  <2> QED BY <1>5, <2>1, <2>2 DEF RunInvocation
<1>6. CASE BeginShutdown
  BY <1>6 DEF BeginShutdown, DrainOK
<1>7. ASSUME NEW from \in {"drain", "redrain"}, NEW waiting \in {"waiting", "again"},
             AwaitExecutions(from, waiting)
      PROVE  DrainOK'
  <2>1. stopping /\ stopping' = stopping /\ execCount' = execCount /\ main = from
    BY <1>7 DEF AwaitExecutions, DrainOK
  <2>2. CASE execCount = 0
    BY <1>7, <2>1, <2>2 DEF AwaitExecutions, DrainOK
  <2>3. CASE execCount # 0
    <3>1. main' = waiting /\ execIdle' = TRUE /\ drained' = drained
      BY <1>7, <2>3 DEF AwaitExecutions
    <3>2. ~woken /\ ~drained
      BY <2>3 DEF DrainOK
    <3>3. ~woken'
      BY <1>7, <2>3, <3>2, Zenon DEF AwaitExecutions
    <3> QED BY <2>1, <2>3, <3>1, <3>2, <3>3 DEF DrainOK
  <2> QED BY <2>2, <2>3
<1>8. CASE Drained
  BY <1>8 DEF Drained, DrainOK
<1>9. CASE DrainTimeout
  BY <1>9 DEF DrainTimeout, DrainOK, MayTimeOut
<1>10. CASE StopLoopback
  BY <1>10 DEF StopLoopback, DrainOK
<1> QED BY <1>1, <1>2, <1>3, <1>4, <1>5, <1>6, <1>7, <1>8, <1>9, <1>10
        DEF RuntimeNext, ReaderStep, MainStep, Drain

-----------------------------------------------------------------------------
(* The loopback on its way down.                                             *)

\* A step that leaves Run and the loopback's switches alone, and behind a
\* complete drain adds no result.
LEMMA LoopbackFrame ==
    ASSUME LoopbackOK, UNCHANGED <<closed, stopCh, flusher, main, drained>>,
           drained => \A n \in DOMAIN toEngine' : toEngine'[n].type = "result" =>
                         \E k \in DOMAIN toEngine : toEngine[k].type = "result"
    PROVE  LoopbackOK'
  BY DEF LoopbackOK

\* A message that is no result adds none.
LEMMA NoResultAdded ==
    ASSUME RuntimeTypeOK, NEW m \in EngineBound, m.type # "result",
           toEngine' = Offered(toEngine, m) \/ toEngine' = Append(toEngine, m) \/ toEngine' = toEngine
    PROVE  \A n \in DOMAIN toEngine' : toEngine'[n].type = "result" =>
               \E k \in DOMAIN toEngine : toEngine[k].type = "result"
<1>1. toEngine \in Seq(EngineBound)
  BY DEF RuntimeTypeOK
<1>2. toEngine' = toEngine \/ toEngine' = Append(toEngine, m)
  BY DEF Offered
<1>3. /\ DOMAIN Append(toEngine, m) = 1 .. Len(toEngine) + 1 /\ DOMAIN toEngine = 1 .. Len(toEngine)
      /\ Len(toEngine) \in Nat
      /\ \A n \in 1 .. Len(toEngine) : Append(toEngine, m)[n] = toEngine[n]
      /\ Append(toEngine, m)[Len(toEngine) + 1] = m
  BY <1>1, AppendProperties, LenProperties
<1> QED BY <1>2, <1>3

\* Every step keeps the order in which the loopback is taken down.
LEMMA StepLoopback ==
    ASSUME RuntimeTypeOK, OnePlace, SlotsBalanced, DrainOK, LoopbackOK, RuntimeNext
    PROVE  LoopbackOK'
<1> USE DEF loopVars, runtimeVars, mainVars, envVars
<1>1. CASE EngineDispatch \/ (\E x \in ExecutionIDs : EngineCancel(x)) \/ ReaderStops \/ TrackCancel
           \/ CancelExecution \/ CheckAccept
  BY <1>1, LoopbackFrame DEF EngineDispatch, EngineCancel, ReaderStops, TrackCancel, CancelExecution, CheckAccept
<1>2. CASE HandleEngineBound
  <2>1. \A n \in DOMAIN toEngine' : n + 1 \in DOMAIN toEngine /\ toEngine'[n] = toEngine[n + 1]
    BY <1>2, TailProperties DEF HandleEngineBound, RuntimeTypeOK
  <2> QED BY <1>2, <2>1, LoopbackFrame DEF HandleEngineBound
<1>3. CASE FlusherStops
  <2>1. CASE flusher = "run" /\ stopCh /\ flusher' = AfterStop
    BY <1>3, <2>1 DEF FlusherStops, LoopbackOK, AfterStop
  <2>2. CASE flusher = "flush" /\ toEngine = <<>> /\ flusher' = "done"
    <3>1. DOMAIN toEngine' = {}
      BY <1>3, <2>2 DEF FlusherStops
    <3> QED BY <1>3, <2>2, <3>1 DEF FlusherStops, LoopbackOK
  <2> QED BY <1>3, <2>1, <2>2 DEF FlusherStops
<1>4. CASE HandleExecRequest
  <2> DEFINE m == [type |-> "reject", req |-> Head(toExecutor).req]
  <2>1. m \in EngineBound /\ m.type # "result"
    BY <1>4, HeadRequest DEF HandleExecRequest, EngineBound
  <2>2. toEngine' = Offered(toEngine, m) \/ toEngine' = toEngine
    BY <1>4 DEF HandleExecRequest, Reject
  <2>3. UNCHANGED <<closed, stopCh, flusher, main, drained>>
    BY <1>4 DEF HandleExecRequest
  <2> HIDE DEF m
  <2> QED BY <2>1, <2>2, <2>3, NoResultAdded, LoopbackFrame
<1>5. CASE BeginExecution
  <2> DEFINE m == [type |-> "reject", req |-> reader.req]
  <2>1. m \in EngineBound /\ m.type # "result"
    BY <1>5 DEF BeginExecution, EngineBound, OnePlace, RuntimeTypeOK, BusyLabels
  <2>2. toEngine' = Offered(toEngine, m) \/ toEngine' = toEngine
    BY <1>5 DEF BeginExecution, Reject
  <2>3. UNCHANGED <<closed, stopCh, flusher, main, drained>>
    BY <1>5 DEF BeginExecution
  <2> HIDE DEF m
  <2> QED BY <2>1, <2>2, <2>3, NoResultAdded, LoopbackFrame
<1>6. CASE SendAccept
  <2> DEFINE m == [type |-> "accept", req |-> reader.req]
  <2>1. m \in EngineBound /\ m.type # "result"
    BY <1>6 DEF SendAccept, EngineBound, OnePlace, RuntimeTypeOK, BusyLabels
  <2>2. toEngine' = Append(toEngine, m) \/ toEngine' = toEngine
    BY <1>6 DEF SendAccept
  <2>3. UNCHANGED <<closed, stopCh, flusher, main, drained>>
    BY <1>6 DEF SendAccept
  <2> HIDE DEF m
  <2> QED BY <2>1, <2>2, <2>3, NoResultAdded, LoopbackFrame
<1>7. ASSUME NEW r \in Requests, FunctionReturns(r) \/ RunInvocation(r) PROVE LoopbackOK'
  <2>1. CASE SendResult(r)
    <3>1. r \in Counted
      BY <2>1 DEF SendResult, Moves, Counted, Holding
    <3>2. ~drained
      BY <3>1, QuietWhenZero DEF DrainOK
    <3> QED BY <2>1, <3>2, LoopbackFrame DEF SendResult
  <2>2. CASE FunctionReturns(r) \/ CheckResult(r) \/ UntrackCancel(r) \/ FreeSlot(r) \/ Retire(r)
    BY <2>2, LoopbackFrame DEF FunctionReturns, CheckResult, UntrackCancel, FreeSlot, Retire
  <2> QED BY <1>7, <2>1, <2>2 DEF RunInvocation
<1>8. CASE BeginShutdown
  BY <1>8 DEF BeginShutdown, LoopbackOK
<1>9. ASSUME NEW from \in {"drain", "redrain"}, NEW waiting \in {"waiting", "again"},
             AwaitExecutions(from, waiting)
      PROVE  LoopbackOK'
  BY <1>9 DEF AwaitExecutions, LoopbackOK
<1>10. CASE Drained
  BY <1>10 DEF Drained, LoopbackOK
<1>11. CASE DrainTimeout
  BY <1>11 DEF DrainTimeout, LoopbackOK, MayTimeOut
<1>12. CASE StopLoopback
  BY <1>12 DEF StopLoopback, LoopbackOK
<1> QED BY <1>1, <1>2, <1>3, <1>4, <1>5, <1>6, <1>7, <1>8, <1>9, <1>10, <1>11, <1>12
        DEF RuntimeNext, ReaderStep, MainStep, Drain

-----------------------------------------------------------------------------
(* The cancel table.                                                         *)

\* A tracked invocation stays in the table until it leaves it itself.
LEMMA StepCancels ==
    ASSUME RuntimeTypeOK, OnePlace, CancelFindsAll, RuntimeNext
    PROVE  CancelFindsAll'
<1> USE DEF loopVars, runtimeVars, mainVars, envVars
<1>1. ASSUME UNCHANGED <<inv, cancels>> PROVE CancelFindsAll'
  BY <1>1 DEF CancelFindsAll
<1>2. CASE TrackCancel
  <2>1. reader.req \in Requests /\ ExecOf[reader.req] \in ExecutionIDs
    BY <1>2 DEF TrackCancel, OnePlace, RuntimeTypeOK, BusyLabels, ExecutionIDs
  <2>2. \A q \in Requests : q # reader.req => inv'[q] = inv[q]
    BY <1>2 DEF TrackCancel, RuntimeTypeOK
  <2>3. /\ reader.req \in cancels'[ExecOf[reader.req]]
        /\ \A x \in ExecutionIDs : cancels[x] \subseteq cancels'[x]
    BY <1>2, <2>1 DEF TrackCancel, RuntimeTypeOK
  <2>4. \A q \in Requests : ExecOf[q] \in ExecutionIDs
    BY DEF ExecutionIDs
  <2> QED BY <2>2, <2>3, <2>4 DEF CancelFindsAll
<1>3. ASSUME NEW r \in Requests, FunctionReturns(r) \/ RunInvocation(r) PROVE CancelFindsAll'
  <2>1. ASSUME NEW from, NEW to, Moves(r, from, to)
        PROVE  inv[r] = from /\ \A q \in Requests : inv'[q] = IF q = r THEN to ELSE inv[q]
    BY <2>1 DEF Moves, RuntimeTypeOK
  <2>2. CASE UntrackCancel(r)
    <3>1. \A q \in Requests : ExecOf[q] \in ExecutionIDs
      BY DEF ExecutionIDs
    <3>2. \A x \in ExecutionIDs, q \in Requests : q # r /\ q \in cancels[x] => q \in cancels'[x]
      BY <2>2, <3>1 DEF UntrackCancel, Untracked, RuntimeTypeOK
    <3>3. \A q \in Requests : inv'[q] = IF q = r THEN "slot" ELSE inv[q]
      BY <2>1, <2>2 DEF UntrackCancel
    <3> QED BY <3>1, <3>2, <3>3 DEF CancelFindsAll
  <2>3. CASE FunctionReturns(r) \/ CheckResult(r) \/ SendResult(r)
    <3>1. \E from, to \in {"run", "report", "send", "untrack"} : Moves(r, from, to)
      BY <2>3 DEF FunctionReturns, CheckResult, SendResult
    <3>2. cancels' = cancels
      BY <2>3 DEF FunctionReturns, CheckResult, SendResult
    <3> QED BY <2>1, <3>1, <3>2 DEF CancelFindsAll
  <2>4. CASE FreeSlot(r) \/ Retire(r)
    <3>1. \E from, to \in {"slot", "end", "over"} : Moves(r, from, to)
      BY <2>4 DEF FreeSlot, Retire
    <3>2. cancels' = cancels
      BY <2>4 DEF FreeSlot, Retire
    <3> QED BY <2>1, <3>1, <3>2 DEF CancelFindsAll
  <2> QED BY <1>3, <2>2, <2>3, <2>4 DEF RunInvocation
<1>4. CASE EngineDispatch \/ (\E x \in ExecutionIDs : EngineCancel(x))
           \/ HandleEngineBound \/ FlusherStops \/ ReaderStops \/ BeginShutdown
  BY <1>1, <1>4 DEF EngineDispatch, EngineCancel, HandleEngineBound, FlusherStops, ReaderStops, BeginShutdown
<1>5. CASE HandleExecRequest \/ BeginExecution \/ CheckAccept \/ SendAccept \/ CancelExecution
  BY <1>1, <1>5 DEF HandleExecRequest, BeginExecution, CheckAccept, SendAccept, CancelExecution
<1>6. CASE MainStep
  BY <1>1, <1>6 DEF MainStep, Drain, AwaitExecutions, Drained, DrainTimeout, StopLoopback
<1> QED BY <1>2, <1>3, <1>4, <1>5, <1>6 DEF RuntimeNext, ReaderStep

-----------------------------------------------------------------------------
(* The theorems.                                                             *)

LEMMA RuntimeInvInit == RuntimeInit => RuntimeInv
<1> SUFFICES ASSUME RuntimeInit PROVE RuntimeInv
  OBVIOUS
<1>1. RuntimeTypeOK
  BY RuntimeInitType
<1>2. DOMAIN toExecutor = {} /\ DOMAIN toEngine = {}
  BY DEF RuntimeInit
<1>3. OnePlace
  BY <1>2 DEF RuntimeInit, OnePlace, Idle, BusyLabels
<1>4. SlotsBalanced
  <2>1. Holding = {} /\ Counted = {} /\ \A states : "idle" \notin states => Admitting(states) = {}
    BY DEF RuntimeInit, Holding, Counted, Admitting, Idle
  <2>2. /\ Holding \cup Admitting({"admit", "accept", "send", "track"}) = {}
        /\ Counted \cup Admitting({"accept", "send", "track"}) = {}
    BY <2>1
  <2>3. slots = 0 /\ execCount = 0
    BY DEF RuntimeInit
  <2> QED BY <2>2, <2>3, FS_EmptySet DEF SlotsBalanced
<1>5. DrainOK /\ LoopbackOK
  BY DEF RuntimeInit, DrainOK, LoopbackOK
<1>6. CancelFindsAll
  BY DEF RuntimeInit, CancelFindsAll
<1> QED BY <1>1, <1>3, <1>4, <1>5, <1>6 DEF RuntimeInv

LEMMA RuntimeInvStep == RuntimeInv /\ [RuntimeNext]_vars => RuntimeInv'
<1> SUFFICES ASSUME RuntimeInv, [RuntimeNext]_vars PROVE RuntimeInv'
  OBVIOUS
<1> USE DEF RuntimeInv
<1>1. CASE RuntimeNext
  <2>1. RuntimeTypeOK'
    BY <1>1, LoopbackType, ReaderType, InvocationType, MainType DEF RuntimeNext
  <2>2. OnePlace'
    BY <1>1, StepOnePlace
  <2>3. /\ Follows(slots', slots, SlotHolders, SlotHolders')
        /\ Follows(execCount', execCount, Draining, Draining')
    <3>1. CASE ReaderStep
      BY <3>1, ReaderBalance
    <3>2. CASE \E r \in Requests : FunctionReturns(r) \/ RunInvocation(r)
      BY <3>2, InvocationBalance
    <3>3. CASE \/ EngineDispatch \/ (\E x \in ExecutionIDs : EngineCancel(x))
               \/ HandleEngineBound \/ FlusherStops \/ BeginShutdown \/ MainStep
      <4>1. UNCHANGED <<slots, execCount, inv, reader>>
        BY <3>3 DEF EngineDispatch, EngineCancel, HandleEngineBound, FlusherStops, BeginShutdown, MainStep,
           Drain, AwaitExecutions, Drained, DrainTimeout, StopLoopback, runtimeVars
      <4> QED BY <4>1, BalanceFrame
    <3>4. CASE ReaderStops
      <4>1. UNCHANGED <<slots, execCount, inv>> /\ reader.pc \notin BusyLabels /\ reader'.pc \notin BusyLabels
        BY <3>4 DEF ReaderStops, runtimeVars, BusyLabels, RuntimeTypeOK
      <4> QED BY <4>1, BalanceFrame
    <3> QED BY <1>1, <3>1, <3>2, <3>3, <3>4 DEF RuntimeNext
  <2>4. SlotsBalanced'
    BY <2>1, <2>2, <2>3, BalanceKept
  <2>5. DrainOK' /\ LoopbackOK' /\ CancelFindsAll'
    BY <1>1, StepDrain, StepLoopback, StepCancels
  <2> QED BY <2>1, <2>2, <2>4, <2>5
<1>2. CASE UNCHANGED vars
  BY <1>2 DEF vars, loopVars, runtimeVars, mainVars, envVars, RuntimeTypeOK, OnePlace, SlotsBalanced, Holding,
     Counted, Admitting, DrainOK, LoopbackOK, CancelFindsAll
<1> QED BY <1>1, <1>2

\* The inductive invariant holds in every state the runtime can reach.
THEOREM RuntimeInvariant == RuntimeSpec => []RuntimeInv
  BY RuntimeInvInit, RuntimeInvStep, PTL DEF RuntimeSpec

\* No early return of the admission leaks a slot or an execution, and none is
\* given back twice, for any capacity and any number of requests.
THEOREM SlotSafety == RuntimeSpec => []SlotsBalanced
<1>1. RuntimeInv => SlotsBalanced
  BY DEF RuntimeInv
<1> QED BY <1>1, RuntimeInvariant, PTL

\* The drain is over only when nothing runs, and a drain that waits is woken as
\* soon as nothing does.
THEOREM DrainSafety == RuntimeSpec => []DrainSound
<1>1. RuntimeInv => DrainSound
  <2> SUFFICES ASSUME RuntimeInv PROVE DrainSound
    OBVIOUS
  <2>1. drained => Counted = {} /\ reader.pc \notin CountedLabels
    BY QuietWhenZero DEF RuntimeInv, DrainOK
  <2>2. main \in {"waiting", "again"} /\ execCount = 0 => woken
    BY DEF RuntimeInv, DrainOK
  <2> QED BY <2>1, <2>2 DEF DrainSound, DrainedMeansQuiet, LastOneWakesDrain, CountedLabels
<1> QED BY <1>1, RuntimeInvariant, PTL

\* When Run returns after a complete drain no result is left in the loopback.
THEOREM FlushSafety == RuntimeSpec => []DrainedResultsSettle
<1>1. RuntimeInv => DrainedResultsSettle
  BY DEF RuntimeInv, LoopbackOK, DrainedResultsSettle
<1> QED BY <1>1, RuntimeInvariant, PTL

\* A running invocation is always in the table a cancellation looks it up in.
THEOREM CancelSafety == RuntimeSpec => []CancelFindsAll
<1>1. RuntimeInv => CancelFindsAll
  BY DEF RuntimeInv
<1> QED BY <1>1, RuntimeInvariant, PTL

=============================================================================
