---------------------- MODULE DispatchRefinementProofs ----------------------
(***************************************************************************)
(* Proofs about module Dispatch, on top of SettleInv: that the engine        *)
(* implements the lifecycle promised for an occurrence (ExecutionLifecycle), *)
(* that a Skip job is never leased twice at once, and that no executor entry *)
(* is overbooked; then what the messages of the executors and the attempt    *)
(* history can say.                                                          *)
(*                                                                          *)
(* The first three ask what a goroutine still knows when it writes: which    *)
(* states the executions it listed were in, that nobody else leased one      *)
(* since it looked, that nobody else booked a slot since it selected the     *)
(* entry.  The others follow one attempt from its creation: until it is sent *)
(* nobody speaks of it, a refusal means that it never runs, and it is        *)
(* accepted by at most one message, which at most one handler acts on.       *)
(***************************************************************************)
EXTENDS DispatchSafetyProofs

-----------------------------------------------------------------------------
(* Who moves.                                                                *)

\* Only the control, the locals and the lists of p change.
Only(p) ==
    \A q \in Procs \ {p} :
        /\ pc'[q] = pc[q] /\ loop'[q] = loop[q] /\ todo'[q] = todo[q]
        /\ exec'[q] = exec[q] /\ att'[q] = att[q] /\ goal'[q] = goal[q]

\* The parts of Only.
LEMMA OnlyParts ==
    ASSUME TypeInv, NEW p \in Procs,
           UNCHANGED pc \/ (\E label : Goto(p, label)) \/ Finish(p) \/ (\E S, T : Return(p, S, T))
             \/ (\E label, list : Enter(p, label, list)),
           UNCHANGED loop \/ (\E label, list : Enter(p, label, list)),
           UNCHANGED todo \/ (\E S : todo' = [todo EXCEPT ![p] = S]),
           UNCHANGED localVars \/ Finish(p) \/ (\E s, a, g : Hold(p, s, a, g))
    PROVE  Only(p)
<1>1. \A q \in Procs \ {p} : pc'[q] = pc[q] /\ loop'[q] = loop[q]
  BY DEF Goto, Finish, Return, Enter, TypeInv, TypeOK, ControlType
<1>2. \A q \in Procs \ {p} : todo'[q] = todo[q]
  BY DEF TypeInv, TypeOK, ControlType
<1>3. \A q \in Procs \ {p} : exec'[q] = exec[q] /\ att'[q] = att[q] /\ goal'[q] = goal[q]
  BY DEF Finish, Hold, localVars, TypeInv, TypeOK, ControlType
<1> QED BY <1>1, <1>2, <1>3 DEF Only

\* The timing loop moves alone.
LEMMA DispatcherAlone == ASSUME TypeInv, DispatcherStep PROVE Only("dispatcher")
<1> DEFINE d == "dispatcher"
<1>0. d \in Procs
  BY ProcNames
<1>1. CASE DueScan
  BY <1>0, <1>1, OnlyParts DEF DueScan
<1>2. CASE Consider
  <2>1. \E s \in todo[d] : todo' = [todo EXCEPT ![d] = @ \ {s}]
    BY <1>2 DEF Consider
  <2>2. (\E label : Goto(d, label)) /\ (\E s, a, g : Hold(d, s, a, g)) /\ UNCHANGED loop
    BY <1>2 DEF Consider, Park
  <2> QED BY <1>0, <2>1, <2>2, OnlyParts
<1>3. CASE Claim
  <2>1. UNCHANGED <<loop, todo>> /\ (Finish(d) \/ (Goto(d, "create") /\ \E s, a, g : Hold(d, s, a, g)))
    BY <1>3 DEF Claim, listVars
  <2> QED BY <1>0, <2>1, OnlyParts
<1>4. CASE CreateAttempt
  BY <1>0, <1>4, OnlyParts DEF CreateAttempt, listVars
<1>5. CASE Fence
  <2>1. UNCHANGED <<loop, todo>> /\ (Finish(d) \/ (Goto(d, "send") /\ \E s, a, g : Hold(d, s, a, g)))
    BY <1>5 DEF Fence, listVars
  <2> QED BY <1>0, <2>1, OnlyParts
<1>6. CASE Send \/ SendFailed
  BY <1>0, <1>6, OnlyParts DEF Send, SendFailed, listVars
<1>7. CASE Materialize
  BY <1>0, <1>7, OnlyParts DEF Materialize, listVars
<1> QED BY <1>1, <1>2, <1>3, <1>4, <1>5, <1>6, <1>7 DEF DispatcherStep

\* So does the reconcile loop.
LEMMA ReaperAlone == ASSUME TypeInv, ReaperStep PROVE Only("reaper")
  BY OnlyParts, ProcNames DEF ReaperStep, WaitingScan, ReapScan

\* So does whoever makes one of the shared calls.
LEMMA CallAlone == ASSUME TypeInv, NEW p \in Procs, CallStep(p) PROVE Only(p)
<1>1. CASE Transition(p)
  BY <1>1, OnlyParts DEF Transition, listVars
<1>2. CASE Requeue(p)
  BY <1>2, OnlyParts DEF Requeue, listVars
<1>3. CASE Abandon(p)
  BY <1>3, OnlyParts DEF Abandon, listVars
<1>4. CASE AbandonNext(p)
  <2>1. \E s \in todo[p] : todo' = [todo EXCEPT ![p] = @ \ {s}] /\ Hold(p, s, s.cur, "None")
    BY <1>4 DEF AbandonNext
  <2> QED BY <1>4, <2>1, OnlyParts DEF AbandonNext
<1>5. CASE RewaitNext(p)
  <2>1. PICK s \in todo[p] : /\ todo' = [todo EXCEPT ![p] = @ \ {s}]
                             /\ \/ Hold(p, s, 0, "None") /\ Goto(p, "requeue")
                                \/ Return(p, todo'[p], open[p]) /\ UNCHANGED localVars
    BY <1>5 DEF RewaitNext
  <2> QED BY <1>5, <2>1, OnlyParts DEF RewaitNext
<1> QED BY <1>1, <1>2, <1>3, <1>4, <1>5 DEF CallStep

\* The loops over open attempts move alone.
LEMMA NextOpenAlone ==
    ASSUME TypeInv, NEW p \in Procs, NEW label, NextOpen(p, label), UNCHANGED <<todo, loop>>
    PROVE  Only(p)
<1>1. \/ Goto(p, label) /\ \E s, a, g : Hold(p, s, a, g)
      \/ (\E S, T : Return(p, S, T)) /\ UNCHANGED localVars
  BY DEF NextOpen
<1> QED BY <1>1, OnlyParts

\* So does the reader of a connection.
LEMMA ReaderAlone == ASSUME TypeInv, NEW c \in Conns, ReaderStep(c) PROVE Only(c)
<1>0. c \in Procs
  BY ProcNames
<1>1. CASE Reconsider(c) \/ DisconnectList(c)
  BY <1>0, <1>1, OnlyParts DEF Reconsider, DisconnectList
<1>2. CASE HandleExecAccept(c) \/ HandleExecReject(c) \/ HandleExecResult(c)
  <2>1. UNCHANGED <<loop, todo>>
    BY <1>2 DEF HandleExecAccept, HandleExecReject, HandleExecResult, listVars
  <2>2. \/ UNCHANGED <<pc, localVars>>
        \/ (\E label : Goto(c, label)) /\ \E s, a, g : Hold(c, s, a, g)
    BY <1>2 DEF HandleExecAccept, HandleExecReject, HandleExecResult
  <2> QED BY <1>0, <2>1, <2>2, OnlyParts
<1>3. CASE AcceptRun(c) \/ Succeed(c) \/ AcceptMark(c) \/ SucceedMark(c) \/ RejectMark(c)
  <2>1. UNCHANGED <<loop, todo>> /\ (Finish(c) \/ ((\E label : Goto(c, label)) /\ UNCHANGED localVars))
    BY <1>3 DEF AcceptRun, Succeed, AcceptMark, SucceedMark, RejectMark, listVars
  <2> QED BY <1>0, <2>1, OnlyParts
<1>4. CASE FailMark(c)
  <2>1. UNCHANGED <<loop, todo>> /\ Goto(c, "transition") /\ \E s, a, g : Hold(c, s, a, g)
    BY <1>4 DEF FailMark, listVars
  <2> QED BY <1>0, <2>1, OnlyParts
<1>5. CASE Deregister(c)
  BY <1>0, <1>5, OnlyParts DEF Deregister, listVars
<1>6. CASE DisconnectNext(c)
  BY <1>0, <1>6, NextOpenAlone DEF DisconnectNext
<1> QED BY <1>1, <1>2, <1>3, <1>4, <1>5, <1>6 DEF ReaderStep

\* So does the heartbeat handler.
LEMMA PumpAlone ==
    ASSUME TypeInv, HeartbeatNext \/ \E i \in Instances : HandleHeartbeat(i) PROVE Only("pump")
<1>1. CASE HeartbeatNext
  BY <1>1, ProcNames, NextOpenAlone DEF HeartbeatNext
<1>2. CASE \E i \in Instances : HandleHeartbeat(i)
  BY <1>2, ProcNames, OnlyParts DEF HandleHeartbeat
<1> QED BY <1>1, <1>2

\* So do the job operations.
LEMMA AdminAlone == ASSUME TypeInv, AdminStep PROVE Only("admin")
<1>0. "admin" \in Procs
  BY ProcNames
<1>1. CASE HandleJobUpsert \/ DeleteJob
  BY <1>0, <1>1, OnlyParts DEF HandleJobUpsert, DeleteJob, listVars
<1>2. CASE CancelReplaced \/ HandleJobDelete
  BY <1>0, <1>2, OnlyParts DEF CancelReplaced, HandleJobDelete
<1>3. CASE CancelNext
  <2>1. \E s \in todo["admin"] : todo' = [todo EXCEPT !["admin"] = @ \ {s}] /\ Hold("admin", s, 0, "Cancelled")
    BY <1>3 DEF CancelNext
  <2> QED BY <1>0, <1>3, <2>1, OnlyParts DEF CancelNext
<1> QED BY <1>1, <1>2, <1>3 DEF AdminStep

\* A registration starts its own reader.
LEMMA RegisterAlone ==
    ASSUME TypeInv, NEW i \in Instances, NEW c \in Conns, Register(i, c) PROVE Only(c)
  BY ProcNames, OnlyParts DEF Register, listVars

\* Executors and the transport move no goroutine of the engine.
LEMMA OutsideAlone ==
    ASSUME TypeInv, \/ ExecutorStep \/ (\E c \in Conns : Drop(c))
                    \/ (\E i \in Instances : ExecutorCrash(i)) \/ UNCHANGED vars
    PROVE  UNCHANGED <<storeVars, registryVars, pc, loop, todo, exec, att, goal, entry>>
  BY DEF ExecutorStep, HandleExecRequest, RunExecution, Drop, ExecutorCrash, vars, controlVars, localVars, listVars

-----------------------------------------------------------------------------
(* No entry is overbooked.                                                   *)
(*                                                                          *)
(* HasCapacity is asked when the entry is selected, AddInFlight comes three  *)
(* store calls later.  In between a slot can only be returned: only the      *)
(* timing loop books slots, one execution at a time.                         *)

BookingLabels == {"claim", "create", "fence", "send"}

\* From selection to AddInFlight the entry keeps a free slot.
SlotFree ==
    Capacity # 0 /\ pc["dispatcher"] \in BookingLabels => Cardinality(inFlight[entry]) < Capacity

SlotInv == CapacityRespected /\ SlotFree

\* Booked sets are finite, and a set that loses attempts is no larger.
LEMMA BookedFinite ==
    ASSUME TypeInv, NEW c \in Conns
    PROVE  /\ IsFiniteSet(inFlight[c]) /\ Cardinality(inFlight[c]) \in Nat
           /\ \A S \in SUBSET inFlight[c] : Cardinality(S) \in Nat /\ Cardinality(S) <= Cardinality(inFlight[c])
<1>1. IsFiniteSet(Attempts)
  BY BoundsAssumption, FS_Interval DEF Attempts
<1>2. inFlight[c] \subseteq Attempts
  BY DEF TypeInv, TypeOK, RegistryType
<1>3. IsFiniteSet(inFlight[c])
  BY <1>1, <1>2, FS_Subset
<1> QED BY <1>3, FS_Subset, FS_CardinalityType

\* Slots are only returned, and the timing loop selects nothing.
LEMMA FewerSlots ==
    ASSUME TypeInv, TypeInv', SlotInv, \A c \in Conns : inFlight'[c] \subseteq inFlight[c],
           pc'["dispatcher"] \in BookingLabels => pc["dispatcher"] \in BookingLabels /\ entry' = entry
    PROVE  SlotInv'
<1>1. \A c \in Conns : /\ Cardinality(inFlight[c]) \in Nat /\ Cardinality(inFlight'[c]) \in Nat
                       /\ Cardinality(inFlight'[c]) <= Cardinality(inFlight[c])
  BY BookedFinite
<1>2. CapacityRespected'
  BY <1>1, BoundsAssumption DEF SlotInv, CapacityRespected
<1>3. pc["dispatcher"] \in BookingLabels => entry \in Conns
  BY ProcNames DEF TypeInv, LocalOK, BookingLabels
<1>4. SlotFree'
  BY <1>1, <1>3, BoundsAssumption DEF SlotInv, SlotFree
<1> QED BY <1>2, <1>4 DEF SlotInv

\* ReleaseInFlight only returns slots.
LEMMA ReleaseFewer ==
    ASSUME TypeInv, NEW i, NEW a, Release(i, a) PROVE \A c \in Conns : inFlight'[c] \subseteq inFlight[c]
  BY DEF Release, TypeInv, TypeOK, RegistryType

\* A step of another process that books nothing.
LEMMA OtherSlots ==
    ASSUME TypeInv, TypeInv', SlotInv, NEW p \in Procs \ {"dispatcher"}, Only(p), UNCHANGED entry,
           UNCHANGED inFlight \/ \E i, a : Release(i, a)
    PROVE  SlotInv'
<1>1. \A c \in Conns : inFlight'[c] \subseteq inFlight[c]
  BY ReleaseFewer
<1>2. pc'["dispatcher"] = pc["dispatcher"]
  BY ProcNames DEF Only
<1> QED BY <1>1, <1>2, FewerSlots

\* A step of the timing loop to a label at which nothing is booked.
LEMMA LeaveSlots ==
    ASSUME TypeInv, TypeInv', SlotInv, UNCHANGED inFlight \/ (\E i, a : Release(i, a)),
           pc'["dispatcher"] \notin BookingLabels
    PROVE  SlotInv'
<1>1. \A c \in Conns : inFlight'[c] \subseteq inFlight[c]
  BY ReleaseFewer
<1> QED BY <1>1, FewerSlots

\* A handler that returns, or a loop that moves on, has nothing to book.
LEMMA ReturnLabels ==
    ASSUME TypeInv, NEW p \in Procs, Finish(p) \/ \E S, T : Return(p, S, T)
    PROVE  pc'[p] \in {Rest(loop[p]), loop[p]} /\ pc'[p] \in LoopLabels \cup {"closed"}
<1>1. PICK S, T : Return(p, S, T)
  BY DEF Finish
<1>2. pc'[p] \in {Rest(loop[p]), loop[p]}
  BY <1>1 DEF Return, Goto, TypeInv, TypeOK, ControlType
<1>3. loop[p] \in LoopLabels /\ Rest(loop[p]) \in LoopLabels \cup {"closed"}
  BY DEF TypeInv, LocalOK, Rest, LoopLabels
<1> QED BY <1>2, <1>3

\* An entry the timing loop selects has a free slot.
LEMMA SelectedFree ==
    ASSUME TypeInv, NEW c \in SelectExecutor, Capacity # 0
    PROVE  c \in Conns /\ Cardinality(inFlight[c]) < Capacity
<1>1. c \in Conns
  BY SelectType DEF TypeInv, TypeOK
<1>2. c \in Eligible(Pool) \/ c \in Eligible(LabelPool)
  BY DEF SelectExecutor
<1> QED BY <1>1, <1>2 DEF Eligible, HasCapacity

\* The timing loop keeps SlotInv.
LEMMA DispatcherSlots ==
    ASSUME TypeInv, TypeInv', SlotInv, DispatcherStep PROVE SlotInv'
<1> DEFINE d == "dispatcher"
<1>0. d \in Procs /\ pc \in [Procs -> Labels]
  BY ProcNames DEF TypeInv, TypeOK, ControlType
<1>1. CASE DueScan
  <2>1. pc'[d] \in LoopLabels \cup {"closed"} /\ UNCHANGED inFlight
    BY <1>0, <1>1, EnterOK DEF DueScan, LoopLabels, registryVars
  <2> QED BY <2>1, LeaveSlots DEF LoopLabels, BookingLabels
<1>2. CASE Consider
  <2>1. UNCHANGED inFlight
    BY <1>2 DEF Consider, registryVars
  <2>2. \/ \E label \in {"transition", "requeue"} : Goto(d, label)
        \/ Goto(d, "claim") /\ entry' \in SelectExecutor
    BY <1>2 DEF Consider, Park
  <2>3. CASE \E label \in {"transition", "requeue"} : Goto(d, label)
    BY <1>0, <2>1, <2>3, LeaveSlots DEF Goto, BookingLabels
  <2>4. CASE entry' \in SelectExecutor
    <3>1. Capacity # 0 => Cardinality(inFlight[entry']) < Capacity
      BY <2>4, SelectedFree
    <3> QED BY <2>1, <3>1 DEF SlotInv, SlotFree, CapacityRespected
  <2> QED BY <2>2, <2>3, <2>4
<1>3. CASE Claim \/ CreateAttempt \/ Fence
  <2>1. UNCHANGED <<inFlight, entry>> /\ pc[d] \in BookingLabels
    BY <1>3 DEF Claim, CreateAttempt, Fence, registryVars, BookingLabels
  <2> QED BY <2>1, FewerSlots
<1>4. CASE Send
  <2>1. pc[d] = "send" /\ entry \in Conns
    BY <1>0, <1>4 DEF Send, TypeInv, LocalOK
  <2>2. CASE Goto(d, "sendFailed") /\ UNCHANGED inFlight
    BY <1>0, <2>2, LeaveSlots DEF Goto, BookingLabels
  <2>3. CASE Goto(d, "materialize") /\ inFlight' = [inFlight EXCEPT ![entry] = @ \cup {att[d]}]
    <3>1. pc'[d] \notin BookingLabels
      BY <1>0, <2>3 DEF Goto, BookingLabels
    <3>2. /\ inFlight'[entry] = inFlight[entry] \cup {att[d]}
          /\ \A c \in Conns \ {entry} : inFlight'[c] = inFlight[c]
      BY <2>1, <2>3 DEF TypeInv, TypeOK, RegistryType
    <3>3. /\ IsFiniteSet(inFlight[entry]) /\ Cardinality(inFlight[entry]) \in Nat
          /\ Cardinality(inFlight[entry] \cup {att[d]}) <= Cardinality(inFlight[entry]) + 1
      BY <2>1, BookedFinite, FS_AddElement
    <3>4. Cardinality(inFlight[entry] \cup {att[d]}) \in Nat
      BY <3>3, FS_AddElement, FS_CardinalityType
    <3>5. Capacity # 0 => Cardinality(inFlight'[entry]) <= Capacity
      BY <2>1, <3>2, <3>3, <3>4, BoundsAssumption DEF SlotInv, SlotFree, BookingLabels
    <3> QED BY <3>1, <3>2, <3>5 DEF SlotInv, SlotFree, CapacityRespected
  <2> QED BY <1>4, <2>2, <2>3 DEF Send
<1>5. CASE SendFailed
  BY <1>0, <1>5, LeaveSlots DEF SendFailed, Goto, BookingLabels, registryVars
<1>6. CASE Materialize
  <2>1. pc'[d] \in LoopLabels \cup {"closed"} /\ UNCHANGED inFlight
    BY <1>0, <1>6, ReturnLabels DEF Materialize, registryVars
  <2> QED BY <2>1, LeaveSlots DEF LoopLabels, BookingLabels
<1> QED BY <1>1, <1>2, <1>3, <1>4, <1>5, <1>6 DEF DispatcherStep

\* The shared calls keep SlotInv.
LEMMA CallSlots ==
    ASSUME TypeInv, TypeInv', SlotInv, NEW p \in Procs, CallStep(p) PROVE SlotInv'
<1>1. UNCHANGED entry /\ (UNCHANGED inFlight \/ \E i, a : Release(i, a))
  BY DEF CallStep, Transition, Requeue, Abandon, AbandonNext, RewaitNext, registryVars
<1>2. CASE p # "dispatcher"
  BY <1>1, <1>2, CallAlone, OtherSlots
<1>3. CASE p = "dispatcher"
  <2>1. \/ \E label \in {"materialize", "transition", "requeue", "abandon"} : Goto(p, label)
        \/ Finish(p) \/ \E S, T : Return(p, S, T)
    BY DEF CallStep, Transition, Requeue, Abandon, AbandonNext, RewaitNext
  <2>2. pc'[p] \notin BookingLabels
    <3>1. CASE \E label \in {"materialize", "transition", "requeue", "abandon"} : Goto(p, label)
      BY <3>1 DEF Goto, BookingLabels, TypeInv, TypeOK, ControlType
    <3>2. CASE Finish(p) \/ \E S, T : Return(p, S, T)
      BY <3>2, ReturnLabels DEF LoopLabels, BookingLabels
    <3> QED BY <2>1, <3>1, <3>2
  <2> QED BY <1>1, <1>3, <2>2, LeaveSlots
<1> QED BY <1>2, <1>3

\* Every step of the system keeps SlotInv.
LEMMA NextSlots == TypeInv /\ TypeInv' /\ SlotInv /\ [Next]_vars => SlotInv'
<1> SUFFICES ASSUME TypeInv, TypeInv', SlotInv, [Next]_vars PROVE SlotInv'
  OBVIOUS
<1>1. ASSUME NEW c \in Conns, ReaderStep(c) PROVE SlotInv'
  <2>1. UNCHANGED entry /\ (UNCHANGED inFlight \/ \E i, a : Release(i, a))
    BY <1>1 DEF ReaderStep, Reconsider, HandleExecAccept, AcceptRun, AcceptMark, HandleExecReject, RejectMark,
       HandleExecResult, Succeed, SucceedMark, FailMark, Deregister, DisconnectList, DisconnectNext, registryVars
  <2> QED BY <1>1, <2>1, ReaderAlone, OtherSlots, ProcNames
<1>2. CASE ReaperStep
  BY <1>2, ReaperAlone, OtherSlots, ProcNames DEF ReaperStep, WaitingScan, ReapScan, registryVars
<1>3. CASE HeartbeatNext \/ \E i \in Instances : HandleHeartbeat(i)
  BY <1>3, PumpAlone, OtherSlots, ProcNames DEF HeartbeatNext, HandleHeartbeat, registryVars
<1>4. CASE AdminStep
  <2>1. UNCHANGED <<inFlight, entry>>
    BY <1>4 DEF AdminStep, HandleJobUpsert, CancelReplaced, HandleJobDelete, CancelNext, DeleteJob, registryVars
  <2> QED BY <1>4, <2>1, AdminAlone, OtherSlots, ProcNames
<1>5. CASE Connect
  <2>1. PICK i \in Instances, c \in Conns : Register(i, c)
    BY <1>5 DEF Connect
  <2> QED BY <2>1, RegisterAlone, OtherSlots, ProcNames DEF Register
<1>6. CASE \/ ExecutorStep \/ (\E c \in Conns : Drop(c))
           \/ (\E i \in Instances : ExecutorCrash(i)) \/ UNCHANGED vars
  BY <1>6, OutsideAlone, FewerSlots DEF registryVars
<1>7. CASE Restart
  <2>1. /\ \A c \in Conns : inFlight'[c] = {}
        /\ pc'["dispatcher"] \notin BookingLabels
    BY <1>7, ProcNames DEF Restart, BookingLabels
  <2> QED BY <2>1, FewerSlots
<1> QED BY <1>1, <1>2, <1>3, <1>4, <1>5, <1>6, <1>7, DispatcherSlots, CallSlots DEF Next

\* No executor entry ever holds more in-flight attempts than its capacity,
\* although capacity is checked at selection and booked after three store calls.
THEOREM CapacitySafety == Spec => []CapacityRespected
<1>1. Init => SlotInv
  <2> SUFFICES ASSUME Init PROVE SlotInv
    OBVIOUS
  <2>1. /\ \A c \in Conns : Cardinality(inFlight[c]) = 0
        /\ pc["dispatcher"] \notin BookingLabels
    BY ProcNames, FS_EmptySet DEF Init, BookingLabels
  <2> QED BY <2>1, BoundsAssumption DEF SlotInv, SlotFree, CapacityRespected
<1>2. TypeInv /\ TypeInv' /\ SlotInv /\ [Next]_vars => SlotInv'
  BY NextSlots
<1>3. SlotInv => CapacityRespected
  BY DEF SlotInv
<1> QED BY <1>1, <1>2, <1>3, TypeCorrect, PTL DEF Spec

-----------------------------------------------------------------------------
(* How an execution moves through its lifecycle.                             *)
(*                                                                          *)
(* The transition table alone would allow a leased execution to be cancelled *)
(* and a pending one to be leased by the heartbeat handler.  What rules both *)
(* out is what the writer listed: the timing loop and the job operations     *)
(* list due or waiting executions, a heartbeat writes back the state it      *)
(* read, and a write is accepted only while the copy is the stored record.   *)

PendingStates == DueStates \cup WaitingStates

WithdrawLocal(p) ==
    /\ pc[p] = "transition" =>
          /\ goal[p] \in {"Cancelled", "Skipped"} => exec[p].state \in PendingStates
          /\ goal[p] \in LeasedStates => goal[p] = exec[p].state
    /\ p = "dispatcher" =>
          /\ pc[p] = "due" => loop[p] = "due"
          /\ loop[p] = "due" => \A s \in todo[p] : s.state \in DueStates
    /\ p = "admin" => \A s \in todo[p] : s.state \in PendingStates

\* Nobody else is leased while the timing loop is about to lease.
ClaimOK == SkipOverlap /\ pc["dispatcher"] = "claim" => ~Overlapping(exec["dispatcher"])

LifeInv == (\A p \in Procs : WithdrawLocal(p)) /\ ClaimOK /\ NoOverlap

\* The phase of every state.
LEMMA Phases ==
    /\ Phase("Absent") = "absent"
    /\ \A s \in PendingStates : Phase(s) = "pending"
    /\ \A s \in LeasedStates : Phase(s) = "leased"
    /\ \A s \in TerminalStates : Phase(s) = s
    /\ ExecutionStateSet = PendingStates \cup LeasedStates \cup TerminalStates
<1>1. Phase("Absent") = "absent"
  BY DEF Phase, LeasedStates, TerminalStates
<1>2. \A s \in PendingStates : Phase(s) = "pending"
  BY DEF Phase, PendingStates, DueStates, WaitingStates, LeasedStates, TerminalStates
<1>3. \A s \in LeasedStates : Phase(s) = "leased"
  BY DEF Phase, LeasedStates, TerminalStates
<1>4. \A s \in TerminalStates : Phase(s) = s
  BY DEF Phase, LeasedStates, TerminalStates
<1> QED BY <1>1, <1>2, <1>3, <1>4 DEF ExecutionStateSet, PendingStates

\* The entries of the transition table the lifecycle depends on.
LEMMA TableEntries ==
    ASSUME NEW from, NEW to, CanTransition(from, to)
    PROVE  /\ from \in PendingStates \cup LeasedStates
           /\ to \in {"Succeeded", "Failed"} => from = "Running"
           /\ to = "Running" => from = "Dispatching"
<1>1. from \in {"Scheduled", "Ready", "WaitingExecutor", "WaitingCompatible", "WaitingLabel",
                "Dispatching", "Running", "RetryWait"}
  <2> SUFFICES ASSUME from \notin {"Scheduled", "Ready", "WaitingExecutor", "WaitingCompatible",
                                   "WaitingLabel", "Dispatching", "Running", "RetryWait"}
               PROVE  Targets(from) = {}
    BY DEF CanTransition
  <2> QED BY DEF Targets, WaitingStates
<1>2. CASE from = "Scheduled"
  BY <1>2 DEF CanTransition, Targets, WaitingStates, PendingStates, DueStates
<1>3. CASE from = "Ready"
  BY <1>3 DEF CanTransition, Targets, WaitingStates, PendingStates, DueStates
<1>4. CASE from \in WaitingStates
  <2>1. Targets(from) = {"Ready", "Dispatching", "Cancelled", "Skipped"} \cup (WaitingStates \ {from})
    BY <1>4 DEF Targets, WaitingStates
  <2> QED BY <1>4, <2>1 DEF CanTransition, WaitingStates, PendingStates
<1>5. CASE from = "Dispatching"
  BY <1>5 DEF CanTransition, Targets, WaitingStates, LeasedStates
<1>6. CASE from = "Running"
  BY <1>6 DEF CanTransition, Targets, WaitingStates, LeasedStates
<1>7. CASE from = "RetryWait"
  BY <1>7 DEF CanTransition, Targets, WaitingStates, PendingStates, DueStates
<1> QED BY <1>1, <1>2, <1>3, <1>4, <1>5, <1>6, <1>7 DEF WaitingStates

\* How a step that leases nothing may move e.
Follows(e) ==
    LET from == Phase(executions[e].state)  to == Phase(executions'[e].state) IN
    \/ to = from
    \/ from \in {"absent", "leased"} /\ to = "pending"
    \/ from = "pending" /\ to \in {"Cancelled", "Skipped"}
    \/ from = "leased" /\ to = "Succeeded" /\ "value" \in ReportedFor(e)
    \/ from = "leased" /\ to = "Failed" /\ "error" \in ReportedFor(e)

\* Such a step writes at most one execution.
Lawful ==
    \/ UNCHANGED executions
    \/ \E e \in Executions :
          Follows(e) /\ \A f \in Executions \ {e} : executions'[f].state = executions[f].state

\* What an accepted write does.
LEMMA WriteLawful ==
    ASSUME TypeInv, NEW s \in Known, NEW st, NEW f, NEW c, executions' = Updated(s, st, f, c),
           executions'[s.id].state = st => Follows(s.id)
    PROVE  Lawful
<1>1. s.id \in Executions
  BY DEF Known, Existing
<1>2. /\ executions'[s.id].state = st
      /\ \A e \in Executions \ {s.id} : executions'[e] = executions[e]
  BY <1>1 DEF Updated, TypeInv, TypeOK, StoreType
<1> QED BY <1>1, <1>2 DEF Lawful

\* The outcome of the current attempt is one reported for the execution.
LEMMA CurrentReported ==
    ASSUME TypeInv, SettleInv, NEW e \in Executions, executions[e].cur \in Attempts
    PROVE  /\ work[executions[e].cur] = "ok" => "value" \in ReportedFor(e)
           /\ work[executions[e].cur] \in Errors => "error" \in ReportedFor(e)
<1>1. attempts[executions[e].cur].exec = e
  BY BoundsAssumption DEF SettleInv, NamedOK, Attempts
<1> QED BY <1>1 DEF ReportedFor, Errors

\* transition writes only lawful changes.
LEMMA TransitionLawful ==
    ASSUME TypeInv, SnapshotsFaithful, SettleInv, LifeInv, NEW p \in Procs, Transition(p) PROVE Lawful
<1> DEFINE s == exec[p]  st == goal[p]
<1>1. s \in Known /\ s.id \in Executions /\ pc[p] = "transition" /\ st \in ExecutionStateSet
  BY DEF Transition, TypeInv, LocalOK, HandlerLabels, Known, Existing
<1>2. CASE ~Accepts(s, st)
  BY <1>2 DEF Transition, UpdateState, Lawful
<1>3. CASE Accepts(s, st)
  <2>1. executions[s.id] = s
    BY <1>1, <1>3, AcceptedCopy DEF Accepts
  <2>2. st # "Succeeded" /\ (st = "Failed" => att[p] \in Attempts /\ s.cur = att[p] /\ work[att[p]] \in Errors)
    BY <1>1 DEF SettleInv, SettleLocal
  <2>3. /\ st \in {"Cancelled", "Skipped"} => s.state \in PendingStates
        /\ st \in LeasedStates => st = s.state
    BY <1>1 DEF LifeInv, WithdrawLocal
  <2>4. s.state = st \/ CanTransition(s.state, st)
    BY <1>3, <2>1 DEF Accepts
  <2>5. ASSUME executions'[s.id].state = st PROVE Follows(s.id)
    <3>1. CASE s.state = st
      BY <2>1, <2>5, <3>1 DEF Follows
    <3>2. CASE CanTransition(s.state, st) /\ st \in PendingStates
      BY <2>1, <2>5, <3>2, TableEntries, Phases DEF Follows
    <3>3. CASE st \in {"Cancelled", "Skipped"}
      <4>1. Phase(st) = st
        BY <3>3, Phases DEF TerminalStates
      <4> QED BY <2>1, <2>3, <2>5, <3>3, <4>1, Phases DEF Follows
    <3>4. CASE CanTransition(s.state, st) /\ st = "Failed"
      <4>1. s.state = "Running" /\ Phase("Running") = "leased" /\ Phase("Failed") = "Failed"
        BY <3>4, TableEntries, Phases DEF LeasedStates, TerminalStates
      <4>2. "error" \in ReportedFor(s.id)
        BY <1>1, <2>1, <2>2, <3>4, CurrentReported
      <4> QED BY <2>1, <2>5, <3>4, <4>1, <4>2 DEF Follows
    <3> QED BY <1>1, <2>2, <2>3, <2>4, <3>1, <3>2, <3>3, <3>4, Phases DEF TerminalStates
  <2>6. executions' = Updated(s, st, executions[s.id].fa, executions[s.id].cur)
    BY <1>3 DEF Transition, UpdateState
  <2> HIDE DEF s, st
  <2> QED BY <1>1, <2>5, <2>6, WriteLawful
<1> QED BY <1>2, <1>3

\* So do HandleExecAccept and settleSuccess.
LEMMA ReaderLawful ==
    ASSUME TypeInv, SnapshotsFaithful, SettleInv, NEW c \in Conns, ReaderStep(c) PROVE Lawful
<1>0. c \in Procs
  BY ProcNames
<1> DEFINE s == exec[c]
<1>1. CASE AcceptRun(c)
  <2>1. s \in Known
    BY <1>0, <1>1 DEF AcceptRun, TypeInv, LocalOK, HandlerLabels
  <2>2. CASE UNCHANGED executions
    BY <2>2 DEF Lawful
  <2>3. CASE Accepts(s, "Running") /\ executions' = Updated(s, "Running", s.fa + 1, executions[s.id].cur)
    <3>1. executions[s.id].state \in LeasedStates
      BY <2>3, TableEntries DEF Accepts, LeasedStates
    <3>2. executions'[s.id].state = "Running" => Follows(s.id)
      BY <3>1, Phases DEF Follows, LeasedStates
    <3> QED BY <2>1, <2>3, <3>2, WriteLawful
  <2> QED BY <1>1, <2>2, <2>3 DEF AcceptRun
<1>2. CASE Succeed(c)
  <2>1. s \in Known /\ s.id \in Executions /\ pc[c] = "succeed" /\ att[c] \in Attempts
    BY <1>0, <1>2 DEF Succeed, TypeInv, LocalOK, HandlerLabels, AttemptLabels, Known, Existing, Issued
  <2>2. CASE UNCHANGED executions
    BY <2>2 DEF Lawful
  <2>3. CASE Accepts(s, "Succeeded") /\ executions' = Updated(s, "Succeeded", executions[s.id].fa, executions[s.id].cur)
    <3>1. executions[s.id] = s
      BY <1>0, <2>1, <2>3, AcceptedCopy DEF Accepts
    <3>2. s.cur = att[c] /\ work[att[c]] = "ok"
      BY <1>0, <2>1 DEF SettleInv, SettleLocal
    <3>3. "value" \in ReportedFor(s.id)
      BY <2>1, <3>1, <3>2, CurrentReported
    <3>4. s.state \in {"Succeeded", "Running"}
      BY <2>3, <3>1, TableEntries DEF Accepts
    <3>5. Phase("Running") = "leased" /\ Phase("Succeeded") = "Succeeded"
      BY Phases DEF LeasedStates, TerminalStates
    <3>6. executions'[s.id].state = "Succeeded" => Follows(s.id)
      BY <3>1, <3>3, <3>4, <3>5 DEF Follows
    <3> QED BY <2>1, <2>3, <3>6, WriteLawful
  <2> QED BY <1>2, <2>2, <2>3 DEF Succeed
<1>3. CASE ~AcceptRun(c) /\ ~Succeed(c)
  BY <1>3 DEF ReaderStep, Reconsider, HandleExecAccept, AcceptMark, HandleExecReject, RejectMark, HandleExecResult,
     SucceedMark, FailMark, Deregister, DisconnectList, DisconnectNext, storeVars, Lawful
<1> QED BY <1>1, <1>2, <1>3

\* So does the timing loop, except when it leases.
LEMMA DispatcherLawful ==
    ASSUME TypeInv, DispatcherStep, ~Claim PROVE Lawful
<1> DEFINE d == "dispatcher"
<1>0. d \in Procs
  BY ProcNames
<1>1. CASE Fence
  <2> DEFINE s == exec[d]
  <2>1. s \in Known
    BY <1>0, <1>1 DEF Fence, TypeInv, LocalOK, HandlerLabels
  <2>2. CASE executions' = Updated(s, executions[s.id].state, executions[s.id].fa, att[d])
    BY <2>1, <2>2, WriteLawful DEF Follows
  <2> QED BY <1>1, <2>2 DEF Fence, Lawful
<1>2. CASE Materialize
  <2> DEFINE n == exec[d].id + 1
  <2>1. CASE UNCHANGED executions
    BY <2>1 DEF Lawful
  <2>2. CASE /\ n \in Executions /\ executions[n].state = "Absent"
             /\ executions' = [executions EXCEPT ![n] =
                                [id |-> n, state |-> "Scheduled", fa |-> 0, cur |-> 0, version |-> 1]]
    <3> HIDE DEF n
    <3>1. /\ executions'[n].state = "Scheduled"
          /\ \A e \in Executions \ {n} : executions'[e] = executions[e]
      BY <2>2 DEF TypeInv, TypeOK, StoreType
    <3>2. Phase("Scheduled") = "pending" /\ Phase("Absent") = "absent"
      BY Phases DEF PendingStates, DueStates
    <3> QED BY <2>2, <3>1, <3>2 DEF Follows, Lawful
  <2> QED BY <1>2, <2>1, <2>2 DEF Materialize
<1>3. CASE ~Fence /\ ~Materialize
  BY <1>3 DEF DispatcherStep, DueScan, Consider, CreateAttempt, Send, SendFailed, storeVars, Lawful
<1> QED BY <1>1, <1>2, <1>3

\* Every step but Claim is lawful.
LEMMA NextLawful ==
    ASSUME TypeInv, SnapshotsFaithful, SettleInv, LifeInv, [Next]_vars, ~Claim PROVE Lawful
<1>1. ASSUME NEW p \in Procs, CallStep(p) PROVE Lawful
  BY <1>1, TransitionLawful DEF CallStep, Requeue, Abandon, AbandonNext, RewaitNext, storeVars, Lawful
<1>2. CASE \/ ReaperStep \/ HeartbeatNext \/ AdminStep \/ (\E i \in Instances : HandleHeartbeat(i))
  BY <1>2 DEF ReaperStep, WaitingScan, ReapScan, HeartbeatNext, HandleHeartbeat, AdminStep, HandleJobUpsert,
     CancelReplaced, HandleJobDelete, CancelNext, DeleteJob, storeVars, Lawful
<1>3. CASE \/ ExecutorStep \/ (\E c \in Conns : Drop(c))
           \/ (\E i \in Instances : ExecutorCrash(i)) \/ UNCHANGED vars
  BY <1>3, OutsideAlone DEF storeVars, Lawful
<1>4. CASE Connect \/ Restart
  BY <1>4 DEF Connect, Register, Restart, storeVars, Lawful
<1> QED BY <1>1, <1>2, <1>3, <1>4, ReaderLawful, DispatcherLawful DEF Next

-----------------------------------------------------------------------------
(* What the writer listed: every step keeps LifeInv.                         *)

\* The list of p is unchanged or loses entries.
Shrinks(p) == todo'[p] \subseteq todo[p] /\ loop' = loop

\* A step to a label that writes no state.
LEMMA GotoWithdraw ==
    ASSUME TypeInv, NEW p \in Procs, WithdrawLocal(p), Shrinks(p), NEW label, Goto(p, label),
           label \notin {"transition", "due"}
    PROVE  WithdrawLocal(p)'
<1>1. pc'[p] = label
  BY DEF Goto, TypeInv, TypeOK, ControlType
<1> QED BY <1>1 DEF Shrinks, WithdrawLocal

\* A handler that returns, or a loop that moves on.
LEMMA ReturnWithdraw ==
    ASSUME TypeInv, NEW p \in Procs, WithdrawLocal(p), Shrinks(p), Finish(p) \/ \E S, T : Return(p, S, T)
    PROVE  WithdrawLocal(p)'
<1>1. pc'[p] \in {Rest(loop[p]), loop[p]} /\ pc'[p] # "transition"
  BY ReturnLabels DEF LoopLabels
<1>2. Rest(loop[p]) # "due"
  BY DEF Rest
<1> QED BY <1>1, <1>2 DEF Shrinks, WithdrawLocal

\* A step to the write of a state.
LEMMA TransitionWithdraw ==
    ASSUME TypeInv, NEW p \in Procs, WithdrawLocal(p), Shrinks(p), Goto(p, "transition"),
           NEW s, NEW a, NEW g, Hold(p, s, a, g),
           g \in {"Cancelled", "Skipped"} => s.state \in PendingStates,
           g \in LeasedStates => g = s.state
    PROVE  WithdrawLocal(p)'
<1>1. pc'[p] = "transition" /\ exec'[p] = s /\ goal'[p] = g
  BY DEF Goto, Hold, TypeInv, TypeOK, ControlType
<1> QED BY <1>1 DEF Shrinks, WithdrawLocal

\* A loop that starts.
LEMMA EnterWithdraw ==
    ASSUME TypeInv, NEW p \in Procs, NEW label \in LoopLabels, NEW list, Enter(p, label, list),
           p = "dispatcher" /\ label = "due" => \A s \in todo'[p] : s.state \in DueStates,
           p = "admin" => \A s \in todo'[p] : s.state \in PendingStates
    PROVE  WithdrawLocal(p)'
<1>1. loop'[p] = label /\ pc'[p] \in {label, Rest(label)}
  BY DEF Enter, Goto, TypeInv, TypeOK, ControlType
<1>2. Rest(label) \notin {"due", "transition"} /\ label # "transition"
  BY DEF Rest, LoopLabels
<1> QED BY <1>1, <1>2 DEF WithdrawLocal

\* What ExecutionsInStates lists is in those states.
LEMMA ListedStates == \A S : \A s \in InStates(S) : s.state \in S
  BY DEF InStates

\* The timing loop keeps its part.
LEMMA DispatcherWithdraw ==
    ASSUME TypeInv, LifeInv, DispatcherStep PROVE WithdrawLocal("dispatcher")'
<1> DEFINE d == "dispatcher"
<1>0. d \in Procs /\ WithdrawLocal(d)
  BY ProcNames DEF LifeInv
<1>1. CASE DueScan
  <2>1. PICK S : S \subseteq InStates(DueStates) /\ todo' = [todo EXCEPT ![d] = S]
    BY <1>1 DEF DueScan
  <2>2. todo'[d] = S
    BY <1>0, <2>1 DEF TypeInv, TypeOK, ControlType
  <2>3. \A s \in todo'[d] : s.state \in DueStates
    BY <2>1, <2>2, ListedStates
  <2>4. Enter(d, "due", todo'[d]) /\ "due" \in LoopLabels /\ d # "admin"
    BY <1>1 DEF DueScan, LoopLabels
  <2> QED BY <1>0, <2>3, <2>4, EnterWithdraw
<1>2. CASE Consider
  <2>1. PICK s \in todo[d] :
          /\ todo' = [todo EXCEPT ![d] = @ \ {s}]
          /\ \/ Goto(d, "transition") /\ Hold(d, s, 0, "Cancelled")
             \/ Goto(d, "transition") /\ Hold(d, s, 0, "Skipped")
             \/ Park(s)
             \/ Goto(d, "claim")
    BY <1>2 DEF Consider
  <2>2. Shrinks(d)
    BY <1>0, <1>2, <2>1 DEF Consider, Shrinks, TypeInv, TypeOK, ControlType
  <2>3. s.state \in PendingStates
    BY <1>0, <1>2, <2>1 DEF Consider, WithdrawLocal, PendingStates
  <2>4. \/ \E g \in {"Cancelled", "Skipped"} \cup WaitingStates : Goto(d, "transition") /\ Hold(d, s, 0, g)
        \/ \E label \in {"requeue", "claim"} : Goto(d, label)
    BY <2>1 DEF Park, WaitingStates
  <2>5. \A g \in {"Cancelled", "Skipped"} \cup WaitingStates : g \notin LeasedStates
    BY DEF WaitingStates, LeasedStates
  <2> QED BY <1>0, <2>2, <2>3, <2>4, <2>5, TransitionWithdraw, GotoWithdraw
<1>3. CASE Claim \/ Fence \/ Materialize
  <2>1. Shrinks(d)
    BY <1>3 DEF Claim, Fence, Materialize, listVars, Shrinks
  <2>2. Finish(d) \/ Goto(d, "create") \/ Goto(d, "send")
    BY <1>3 DEF Claim, Fence, Materialize
  <2> QED BY <1>0, <2>1, <2>2, ReturnWithdraw, GotoWithdraw
<1>4. CASE CreateAttempt \/ Send \/ SendFailed
  <2>1. Shrinks(d)
    BY <1>4 DEF CreateAttempt, Send, SendFailed, listVars, Shrinks
  <2>2. \E label \in {"fence", "materialize", "sendFailed", "requeue"} : Goto(d, label)
    BY <1>4 DEF CreateAttempt, Send, SendFailed
  <2> QED BY <1>0, <2>1, <2>2, GotoWithdraw
<1> QED BY <1>1, <1>2, <1>3, <1>4 DEF DispatcherStep

\* So does whoever makes one of the shared calls.
LEMMA CallWithdraw ==
    ASSUME TypeInv, LifeInv, NEW p \in Procs, CallStep(p) PROVE WithdrawLocal(p)'
<1>0. WithdrawLocal(p)
  BY DEF LifeInv
<1>1. CASE Transition(p) \/ Abandon(p)
  <2>1. Shrinks(p)
    BY <1>1 DEF Transition, Abandon, listVars, Shrinks
  <2>2. Finish(p) \/ Goto(p, "materialize") \/ Goto(p, "requeue")
    BY <1>1 DEF Transition, Abandon
  <2> QED BY <1>0, <2>1, <2>2, ReturnWithdraw, GotoWithdraw
<1>2. CASE Requeue(p)
  <2>1. Shrinks(p)
    BY <1>2 DEF Requeue, listVars, Shrinks
  <2>2. Finish(p) \/ (Goto(p, "transition") /\ \E s, a : Hold(p, s, a, "Ready"))
    BY <1>2 DEF Requeue
  <2>3. "Ready" \notin LeasedStates
    BY DEF LeasedStates
  <2> QED BY <1>0, <2>1, <2>2, <2>3, ReturnWithdraw, TransitionWithdraw
<1>3. CASE AbandonNext(p) \/ RewaitNext(p)
  <2>1. \E s \in todo[p] : todo' = [todo EXCEPT ![p] = @ \ {s}]
    BY <1>3 DEF AbandonNext, RewaitNext
  <2>2. Shrinks(p)
    BY <1>3, <2>1 DEF AbandonNext, RewaitNext, Shrinks, TypeInv, TypeOK, ControlType
  <2>3. Goto(p, "abandon") \/ Goto(p, "requeue") \/ \E S, T : Return(p, S, T)
    BY <1>3 DEF AbandonNext, RewaitNext
  <2> QED BY <1>0, <2>2, <2>3, ReturnWithdraw, GotoWithdraw
<1> QED BY <1>1, <1>2, <1>3 DEF CallStep

\* So do the loops over open attempts, which write back the state they read.
LEMMA NextOpenWithdraw ==
    ASSUME TypeInv, NEW p \in Procs, WithdrawLocal(p), NEW label \in {"abandon", "transition"},
           NextOpen(p, label), UNCHANGED <<todo, loop>>
    PROVE  WithdrawLocal(p)'
<1>1. Shrinks(p)
  BY DEF Shrinks
<1>2. \/ Goto(p, "abandon")
      \/ Goto(p, "transition") /\ \E s, a : s.state \in LeasedStates /\ Hold(p, s, a, s.state)
      \/ \E S, T : Return(p, S, T)
  BY DEF NextOpen
<1>3. \A g \in LeasedStates : g \notin {"Cancelled", "Skipped"}
  BY DEF LeasedStates
<1> QED BY <1>1, <1>2, <1>3, GotoWithdraw, TransitionWithdraw, ReturnWithdraw

\* So do the handlers of a connection.
LEMMA ReaderWithdraw ==
    ASSUME TypeInv, LifeInv, NEW c \in Conns, ReaderStep(c) PROVE WithdrawLocal(c)'
<1>0. c \in Procs /\ WithdrawLocal(c) /\ c # "dispatcher" /\ c # "admin"
  BY ProcNames DEF LifeInv
<1>1. CASE Reconsider(c) \/ DisconnectList(c)
  <2>1. \E label \in LoopLabels : \E list : Enter(c, label, list)
    BY <1>1 DEF Reconsider, DisconnectList, LoopLabels
  <2> QED BY <1>0, <2>1, EnterWithdraw
<1>2. CASE DisconnectNext(c)
  BY <1>0, <1>2, NextOpenWithdraw DEF DisconnectNext
<1>3. CASE FailMark(c)
  <2>1. Shrinks(c)
    BY <1>3 DEF FailMark, listVars, Shrinks
  <2>2. Goto(c, "transition") /\ \E g \in {"RetryWait", "Failed"} : Hold(c, exec[c], att[c], g)
    BY <1>3 DEF FailMark
  <2> QED BY <1>0, <2>1, <2>2, TransitionWithdraw DEF LeasedStates
<1>4. CASE RejectMark(c)
  <2>1. Shrinks(c) /\ goal[c] \in {"Ready", "WaitingCompatible"}
    BY <1>0, <1>4 DEF RejectMark, listVars, Shrinks, TypeInv, LocalOK
  <2>2. Finish(c) \/ Goto(c, "requeue") \/ (Goto(c, "transition") /\ UNCHANGED localVars)
    BY <1>4 DEF RejectMark
  <2>3. CASE Goto(c, "transition") /\ UNCHANGED localVars
    <3>1. pc'[c] = "transition" /\ goal'[c] = goal[c]
      BY <1>0, <2>3 DEF Goto, localVars, TypeInv, TypeOK, ControlType
    <3> QED BY <1>0, <2>1, <3>1 DEF WithdrawLocal, LeasedStates
  <2> QED BY <1>0, <2>1, <2>2, <2>3, ReturnWithdraw, GotoWithdraw
<1>5. CASE AcceptRun(c) \/ Succeed(c) \/ AcceptMark(c) \/ SucceedMark(c) \/ Deregister(c)
  <2>1. Shrinks(c)
    BY <1>5 DEF AcceptRun, Succeed, AcceptMark, SucceedMark, Deregister, listVars, Shrinks
  <2>2. Finish(c) \/ \E label \in {"acceptMark", "succeedMark", "disconnectList", "closed"} : Goto(c, label)
    BY <1>5 DEF AcceptRun, Succeed, AcceptMark, SucceedMark, Deregister
  <2> QED BY <1>0, <2>1, <2>2, ReturnWithdraw, GotoWithdraw
<1>6. CASE HandleExecAccept(c) \/ HandleExecReject(c) \/ HandleExecResult(c)
  <2>1. Shrinks(c)
    BY <1>6 DEF HandleExecAccept, HandleExecReject, HandleExecResult, listVars, Shrinks
  <2>2. \/ UNCHANGED <<pc, localVars>>
        \/ \E label \in {"acceptRun", "rejectMark", "succeed", "failMark"} : Goto(c, label)
    BY <1>6 DEF HandleExecAccept, HandleExecReject, HandleExecResult
  <2>3. CASE UNCHANGED <<pc, localVars>>
    BY <1>0, <2>1, <2>3 DEF Shrinks, WithdrawLocal, localVars
  <2> QED BY <1>0, <2>1, <2>2, <2>3, GotoWithdraw
<1> QED BY <1>1, <1>2, <1>3, <1>4, <1>5, <1>6 DEF ReaderStep

\* So do the job operations, which cancel what they listed as due or waiting.
LEMMA AdminWithdraw ==
    ASSUME TypeInv, LifeInv, AdminStep PROVE WithdrawLocal("admin")'
<1> DEFINE p == "admin"
<1>0. p \in Procs /\ WithdrawLocal(p) /\ p # "dispatcher"
  BY ProcNames DEF LifeInv
<1>1. CASE HandleJobUpsert \/ DeleteJob
  BY <1>0, <1>1, GotoWithdraw DEF HandleJobUpsert, DeleteJob, listVars, Shrinks
<1>2. CASE CancelReplaced \/ HandleJobDelete
  <2>1. todo' = [todo EXCEPT ![p] = Cancellable]
    BY <1>2 DEF CancelReplaced, HandleJobDelete
  <2>2. todo'[p] = Cancellable
    BY <1>0, <2>1 DEF TypeInv, TypeOK, ControlType
  <2>3. \A s \in todo'[p] : s.state \in PendingStates
    BY <2>2, ListedStates DEF Cancellable, PendingStates
  <2>4. \E label \in {"cancel", "drop"} : Enter(p, label, Cancellable)
    BY <1>2 DEF CancelReplaced, HandleJobDelete
  <2> QED BY <1>0, <2>3, <2>4, EnterWithdraw DEF LoopLabels
<1>3. CASE CancelNext
  <2>1. PICK s \in todo[p] : todo' = [todo EXCEPT ![p] = @ \ {s}] /\ Hold(p, s, 0, "Cancelled")
    BY <1>3 DEF CancelNext
  <2>2. Shrinks(p) /\ Goto(p, "transition")
    BY <1>0, <1>3, <2>1 DEF CancelNext, Shrinks, TypeInv, TypeOK, ControlType
  <2>3. s.state \in PendingStates /\ "Cancelled" \notin LeasedStates
    BY <1>0, <2>1 DEF WithdrawLocal, LeasedStates
  <2> QED BY <1>0, <2>1, <2>2, <2>3, TransitionWithdraw
<1> QED BY <1>1, <1>2, <1>3 DEF AdminStep

\* Leased is a phase of its own.
LEMMA LeasedPhase ==
    \A s : Phase(s) = "leased" <=> s \in LeasedStates
<1> SUFFICES ASSUME NEW s, s \notin LeasedStates PROVE Phase(s) # "leased"
  BY Phases
<1>1. CASE s \in TerminalStates
  BY <1>1, Phases DEF TerminalStates
<1>2. CASE s \notin TerminalStates
  BY <1>2 DEF Phase
<1> QED BY <1>1, <1>2

\* A lawful step leases nothing.
LEMMA LawfulLeases ==
    ASSUME Lawful, NEW e \in Executions, executions'[e].state \in LeasedStates
    PROVE  executions[e].state \in LeasedStates
<1>1. CASE UNCHANGED executions
  BY <1>1
<1>2. CASE \E x \in Executions :
              Follows(x) /\ \A f \in Executions \ {x} : executions'[f].state = executions[f].state
  <2>1. PICK x \in Executions :
              Follows(x) /\ \A f \in Executions \ {x} : executions'[f].state = executions[f].state
    BY <1>2
  <2>2. CASE e # x
    BY <2>1, <2>2
  <2>3. CASE e = x
    <3>1. Phase(executions'[e].state) = "leased"
      BY LeasedPhase
    <3>2. Phase(executions[e].state) = "leased"
      BY <2>1, <2>3, <3>1 DEF Follows
    <3> QED BY <3>2, LeasedPhase
  <2> QED BY <2>2, <2>3
<1> QED BY <1>1, <1>2 DEF Lawful

\* So it keeps the overlap policy.
LEMMA LawfulOverlap ==
    ASSUME LifeInv, Lawful,
           SkipOverlap /\ pc'["dispatcher"] = "claim" => ~Overlapping(exec'["dispatcher"])
    PROVE  ClaimOK' /\ NoOverlap'
<1>1. \A e \in Executions : executions'[e].state \in LeasedStates => executions[e].state \in LeasedStates
  BY LawfulLeases
<1>2. NoOverlap'
  BY <1>1 DEF LifeInv, NoOverlap, Leased
<1>3. ClaimOK'
  BY <1>1 DEF ClaimOK, Overlapping
<1> QED BY <1>2, <1>3

\* A step of p that leases nothing.
LEMMA LifeTogether ==
    ASSUME TypeInv, LifeInv, NEW p \in Procs, Lawful, Only(p), WithdrawLocal(p)',
           p = "dispatcher" => pc'[p] # "claim"
    PROVE  LifeInv'
<1>1. \A q \in Procs \ {p} : WithdrawLocal(q)'
  BY DEF LifeInv, Only, WithdrawLocal
<1>2. SkipOverlap /\ pc'["dispatcher"] = "claim" => ~Overlapping(exec'["dispatcher"])
  BY ProcNames DEF LifeInv, ClaimOK, Only, Overlapping
<1>3. ClaimOK' /\ NoOverlap'
  BY <1>2, LawfulOverlap
<1> QED BY <1>1, <1>3 DEF LifeInv

\* The timing loop keeps LifeInv.
LEMMA DispatcherLife ==
    ASSUME TypeInv, LifeInv, DispatcherStep PROVE LifeInv'
<1> DEFINE d == "dispatcher"
<1>0. d \in Procs /\ Only(d) /\ WithdrawLocal(d)' /\ pc \in [Procs -> Labels]
  BY ProcNames, DispatcherAlone, DispatcherWithdraw DEF TypeInv, TypeOK, ControlType
<1>1. CASE Consider
  <2>1. Lawful
    BY <1>1 DEF Consider, storeVars, Lawful
  <2>2. SkipOverlap /\ pc'[d] = "claim" => ~Overlapping(exec'[d])
    <3>1. PICK s : \/ \E label \in {"transition", "requeue"} : Goto(d, label)
                   \/ ~(SkipOverlap /\ Overlapping(s)) /\ Goto(d, "claim") /\ Hold(d, s, 0, "None")
      BY <1>1 DEF Consider, Park
    <3>2. CASE \E label \in {"transition", "requeue"} : Goto(d, label)
      BY <1>0, <3>2 DEF Goto
    <3>3. CASE ~(SkipOverlap /\ Overlapping(s)) /\ Hold(d, s, 0, "None")
      <4>1. exec'[d] = s
        BY <1>0, <3>3 DEF Hold, TypeInv, TypeOK, ControlType
      <4> QED BY <3>3, <4>1
    <3> QED BY <3>1, <3>2, <3>3
  <2>3. ClaimOK' /\ NoOverlap'
    BY <2>1, <2>2, LawfulOverlap
  <2>4. \A q \in Procs \ {d} : WithdrawLocal(q)'
    BY <1>0 DEF LifeInv, Only, WithdrawLocal
  <2> QED BY <1>0, <2>3, <2>4 DEF LifeInv
<1>2. CASE Claim
  <2> DEFINE s == exec[d]
  <2>1. CASE Finish(d) /\ UNCHANGED executions
    <3>1. pc'[d] # "claim"
      BY <1>0, <2>1, ReturnLabels DEF LoopLabels
    <3> QED BY <1>0, <2>1, <3>1, LifeTogether DEF Lawful
  <2>2. CASE /\ executions' = Updated(s, "Dispatching", executions[s.id].fa, executions[s.id].cur)
             /\ Goto(d, "create")
    <3>1. s \in Known /\ s.id \in Executions
      BY <1>0, <1>2 DEF Claim, TypeInv, LocalOK, HandlerLabels, Known, Existing
    <3>2. \A e \in Executions \ {s.id} : executions'[e] = executions[e]
      BY <2>2, <3>1 DEF Updated, TypeInv, TypeOK, StoreType
    <3>3. SkipOverlap => \A e \in Executions \ {s.id} : executions[e].state \notin LeasedStates
      BY <1>2 DEF Claim, LifeInv, ClaimOK, Overlapping
    <3>4. NoOverlap'
      BY <3>2, <3>3 DEF NoOverlap, Leased
    <3>5. ClaimOK'
      BY <1>0, <2>2 DEF ClaimOK, Goto
    <3>6. \A q \in Procs \ {d} : WithdrawLocal(q)'
      BY <1>0 DEF LifeInv, Only, WithdrawLocal
    <3> QED BY <1>0, <3>4, <3>5, <3>6 DEF LifeInv
  <2> QED BY <1>2, <2>1, <2>2 DEF Claim
<1>3. CASE ~Consider /\ ~Claim
  <2>1. pc'[d] # "claim"
    <3>1. CASE DueScan
      BY <1>0, <3>1, EnterOK DEF DueScan, LoopLabels
    <3>2. CASE CreateAttempt \/ Send \/ SendFailed
      BY <1>0, <3>2 DEF CreateAttempt, Send, SendFailed, Goto
    <3>3. CASE Fence \/ Materialize
      <4>1. Finish(d) \/ Goto(d, "send")
        BY <3>3 DEF Fence, Materialize
      <4> QED BY <1>0, <4>1, ReturnLabels DEF Goto, LoopLabels
    <3> QED BY <1>3, <3>1, <3>2, <3>3 DEF DispatcherStep
  <2> QED BY <1>0, <1>3, <2>1, DispatcherLawful, LifeTogether
<1> QED BY <1>1, <1>2, <1>3

\* The shared calls keep LifeInv.
LEMMA CallLife ==
    ASSUME TypeInv, SnapshotsFaithful, SettleInv, LifeInv, NEW p \in Procs, CallStep(p) PROVE LifeInv'
<1>1. Lawful
  BY TransitionLawful DEF CallStep, Requeue, Abandon, AbandonNext, RewaitNext, storeVars, Lawful
<1>2. pc'[p] # "claim"
  <2>1. \/ \E label \in {"materialize", "transition", "requeue", "abandon"} : Goto(p, label)
        \/ Finish(p) \/ \E S, T : Return(p, S, T)
    BY DEF CallStep, Transition, Requeue, Abandon, AbandonNext, RewaitNext
  <2>2. CASE \E label \in {"materialize", "transition", "requeue", "abandon"} : Goto(p, label)
    BY <2>2 DEF Goto, TypeInv, TypeOK, ControlType
  <2>3. CASE Finish(p) \/ \E S, T : Return(p, S, T)
    BY <2>3, ReturnLabels DEF LoopLabels
  <2> QED BY <2>1, <2>2, <2>3
<1> QED BY <1>1, <1>2, CallAlone, CallWithdraw, LifeTogether

\* Every step of the system keeps LifeInv.
LEMMA NextLife == TypeInv /\ SnapshotsFaithful /\ SettleInv /\ LifeInv /\ [Next]_vars => LifeInv'
<1> SUFFICES ASSUME TypeInv, SnapshotsFaithful, SettleInv, LifeInv, [Next]_vars PROVE LifeInv'
  OBVIOUS
<1>1. ASSUME NEW c \in Conns, ReaderStep(c) PROVE LifeInv'
  BY <1>1, ReaderLawful, ReaderAlone, ReaderWithdraw, LifeTogether, ProcNames
<1>2. CASE ReaperStep
  <2>1. Lawful /\ \E label \in LoopLabels : \E list : Enter("reaper", label, list)
    BY <1>2 DEF ReaperStep, WaitingScan, ReapScan, storeVars, Lawful, LoopLabels
  <2> QED BY <1>2, <2>1, ReaperAlone, EnterWithdraw, LifeTogether, ProcNames
<1>3. CASE HeartbeatNext \/ \E i \in Instances : HandleHeartbeat(i)
  <2>1. Lawful
    BY <1>3 DEF HeartbeatNext, HandleHeartbeat, storeVars, Lawful
  <2>2. WithdrawLocal("pump")'
    <3>1. CASE HeartbeatNext
      BY <3>1, NextOpenWithdraw, ProcNames DEF HeartbeatNext, LifeInv
    <3>2. CASE \E i \in Instances : HandleHeartbeat(i)
      <4>1. \E list : Enter("pump", "beat", list)
        BY <3>2 DEF HandleHeartbeat
      <4> QED BY <4>1, EnterWithdraw, ProcNames DEF LoopLabels
    <3> QED BY <1>3, <3>1, <3>2
  <2> QED BY <1>3, <2>1, <2>2, PumpAlone, LifeTogether, ProcNames
<1>4. CASE AdminStep
  <2>1. Lawful
    BY <1>4 DEF AdminStep, HandleJobUpsert, CancelReplaced, HandleJobDelete, CancelNext, DeleteJob, storeVars, Lawful
  <2> QED BY <1>4, <2>1, AdminAlone, AdminWithdraw, LifeTogether, ProcNames
<1>5. CASE Connect
  <2>1. PICK i \in Instances, c \in Conns : Register(i, c)
    BY <1>5 DEF Connect
  <2>2. Lawful /\ Shrinks(c) /\ Goto(c, "reconsider")
    BY <2>1 DEF Register, storeVars, listVars, Lawful, Shrinks
  <2>3. WithdrawLocal(c)'
    BY <2>2, GotoWithdraw, ProcNames DEF LifeInv
  <2> QED BY <2>1, <2>2, <2>3, RegisterAlone, LifeTogether, ProcNames
<1>6. CASE \/ ExecutorStep \/ (\E c \in Conns : Drop(c))
           \/ (\E i \in Instances : ExecutorCrash(i)) \/ UNCHANGED vars
  <2>1. UNCHANGED <<executions, pc, loop, todo, exec, goal>>
    BY <1>6, OutsideAlone DEF storeVars
  <2> QED BY <2>1 DEF LifeInv, WithdrawLocal, ClaimOK, NoOverlap, Leased, Overlapping
<1>7. CASE Restart
  <2>1. UNCHANGED executions /\ \A p \in Procs : WithdrawLocal(p)' /\ pc'[p] # "claim"
    <3>1. UNCHANGED executions
      BY <1>7 DEF Restart, storeVars
    <3>2. ASSUME NEW p \in Procs PROVE /\ pc'[p] \notin {"transition", "due", "claim"}
                                       /\ loop'[p] # "due" /\ (p = "admin" => todo'[p] = {})
      BY <1>7 DEF Restart
    <3> QED BY <3>1, <3>2 DEF WithdrawLocal
  <2> QED BY <2>1, ProcNames DEF LifeInv, ClaimOK, NoOverlap, Leased
<1> QED BY <1>1, <1>2, <1>3, <1>4, <1>5, <1>6, <1>7, DispatcherLife, CallLife DEF Next

\* LifeInv holds initially.
LEMMA InitLife == Init => LifeInv
<1> SUFFICES ASSUME Init PROVE LifeInv
  OBVIOUS
<1>1. ASSUME NEW p \in Procs PROVE /\ pc[p] \notin {"transition", "due", "claim"}
                                   /\ loop[p] # "due" /\ todo[p] = {}
  BY DEF Init
<1>2. \A e \in Executions : executions[e].state \notin LeasedStates
  BY DEF Init, LeasedStates
<1> QED BY <1>1, <1>2, ProcNames DEF LifeInv, WithdrawLocal, ClaimOK, NoOverlap, Leased

\* SettleInv, with the faithful copies it rests on, holds throughout.
THEOREM SettleCorrect == Spec => [](SnapshotsFaithful /\ SettleInv)
<1>1. Init => SettleInv
  BY InitSettle
<1>2. TypeInv /\ TypeInv' /\ SnapshotsFaithful /\ SettleInv /\ [Next]_vars => SettleInv'
  BY NextSettle
<1> QED BY <1>1, <1>2, TypeCorrect, SnapshotSafety, PTL DEF Spec

\* So does LifeInv.
THEOREM LifeCorrect == Spec => []LifeInv
<1>1. Init => LifeInv
  BY InitLife
<1>2. TypeInv /\ SnapshotsFaithful /\ SettleInv /\ LifeInv /\ [Next]_vars => LifeInv'
  BY NextLife
<1> QED BY <1>1, <1>2, TypeCorrect, SettleCorrect, PTL DEF Spec

\* Under OverlapPolicySkip two occurrences of a job are never leased at once,
\* although HasActiveExecution and the claim are separate store calls.
THEOREM OverlapSafety == Spec => []NoOverlap
<1>1. LifeInv => NoOverlap
  BY DEF LifeInv
<1> QED BY <1>1, LifeCorrect, PTL

-----------------------------------------------------------------------------
(* The engine implements the lifecycle.                                      *)

\* No outcome appears or disappears.
SameOutcomes ==
    \A a \in Attempts :
        work[a] \in Results \/ work'[a] \in Results =>
            work'[a] = work[a] /\ attempts'[a].exec = attempts[a].exec

\* Then the same outcomes are reported.
LEMMA SameReported ==
    ASSUME SameOutcomes PROVE \A e \in Executions : ReportedFor(e)' = ReportedFor(e)
  BY DEF SameOutcomes, ReportedFor, Results

\* A guarded change of an attempt's state keeps the execution it belongs to.
LEMMA MarkOutcomes ==
    ASSUME TypeInv, NEW a \in 0 .. MaxAttempt, NEW from, NEW to, UpdateAttemptState(a, from, to), UNCHANGED work
    PROVE  SameOutcomes
  BY NotAbsent DEF SameOutcomes, UpdateAttemptState, TypeInv, TypeOK, StoreType, AttemptRecords

\* The timing loop reports nothing: the attempt it creates has not run.
LEMMA DispatcherOutcomes == ASSUME TypeInv, SettleInv, DispatcherStep PROVE SameOutcomes
<1>1. CASE CreateAttempt
  <2> DEFINE d == "dispatcher"  a == lastAttempt + 1
  <2>1. a \in Attempts /\ attempts[a].exec = 0 /\ 0 \notin Executions
    BY <1>1, BoundsAssumption DEF CreateAttempt, SettleInv, FreshOK, TypeInv, TypeOK, StoreType, Executions
  <2>2. work[a] = "none"
    BY <2>1 DEF TypeInv, WireOK, Issued, Existing
  <2>3. UNCHANGED work /\ \A b \in Attempts \ {a} : attempts'[b] = attempts[b]
    BY <1>1, <2>1 DEF CreateAttempt, wireVars, TypeInv, TypeOK, StoreType
  <2> HIDE DEF a
  <2> QED BY <2>2, <2>3 DEF SameOutcomes, Results
<1>2. CASE SendFailed
  <2>1. att["dispatcher"] \in 0 .. MaxAttempt /\ UNCHANGED work
    BY <1>2, ProcNames DEF SendFailed, wireVars, TypeInv, TypeOK, ControlType
  <2> QED BY <1>2, <2>1, MarkOutcomes DEF SendFailed
<1>3. CASE ~CreateAttempt /\ ~SendFailed
  BY <1>3 DEF DispatcherStep, DueScan, Consider, Claim, Fence, Send, Materialize, storeVars, wireVars, SameOutcomes
<1> QED BY <1>1, <1>2, <1>3

\* Neither do the calls every goroutine makes.
LEMMA CallOutcomes == ASSUME TypeInv, NEW p \in Procs, CallStep(p) PROVE SameOutcomes
<1>1. CASE Abandon(p)
  <2>1. att[p] \in 0 .. MaxAttempt /\ UNCHANGED work
    BY <1>1 DEF Abandon, wireVars, TypeInv, TypeOK, ControlType
  <2> QED BY <1>1, <2>1, MarkOutcomes DEF Abandon
<1>2. CASE ~Abandon(p)
  BY <1>2 DEF CallStep, Transition, Requeue, AbandonNext, RewaitNext, storeVars, wireVars, SameOutcomes
<1> QED BY <1>1, <1>2

\* Neither do the handlers of a connection.
LEMMA ReaderOutcomes == ASSUME TypeInv, NEW c \in Conns, ReaderStep(c) PROVE SameOutcomes
<1>1. CASE AcceptMark(c) \/ RejectMark(c) \/ SucceedMark(c) \/ FailMark(c)
  <2>1. att[c] \in 0 .. MaxAttempt /\ UNCHANGED work
    BY <1>1, ProcNames DEF AcceptMark, RejectMark, SucceedMark, FailMark, wireVars, TypeInv, TypeOK, ControlType
  <2>2. \E from, to : UpdateAttemptState(att[c], from, to)
    BY <1>1 DEF AcceptMark, RejectMark, SucceedMark, FailMark
  <2> QED BY <2>1, <2>2, MarkOutcomes
<1>2. CASE ~(AcceptMark(c) \/ RejectMark(c) \/ SucceedMark(c) \/ FailMark(c))
  BY <1>2 DEF ReaderStep, Reconsider, HandleExecAccept, AcceptRun, HandleExecReject, HandleExecResult,
     Succeed, Deregister, DisconnectList, DisconnectNext, storeVars, wireVars, SameOutcomes
<1> QED BY <1>1, <1>2

\* An executor that starts an attempt, or dies, reports nothing.
LEMMA OutsideOutcomes ==
    ASSUME TypeInv, SettleInv,
           \/ \E c \in Conns : HandleExecRequest(c) \/ Drop(c)
           \/ \E i \in Instances : ExecutorCrash(i)
           \/ UNCHANGED vars
    PROVE  SameOutcomes
<1>1. ASSUME NEW c \in Conns, HandleExecRequest(c) PROVE SameOutcomes
  <2> DEFINE s == toExecutor[c]  a == Head(s)
  <2>1. s \in Seq(Issued) /\ s # <<>>
    BY <1>1 DEF HandleExecRequest, TypeInv, WireOK
  <2>2. Len(s) \in Nat /\ Len(s) # 0
    BY <2>1, EmptySeq, LenProperties
  <2>3. a = s[1] /\ a \in Issued /\ 1 \in 1 .. Len(s)
    BY <2>1, <2>2, HeadTailProperties
  <2>4. work[a] = "none"
    BY <2>3 DEF SettleInv, QueueOK
  <2>5. work' = work \/ work' = [work EXCEPT ![a] = "running"]
    BY <1>1 DEF HandleExecRequest
  <2>6. UNCHANGED attempts
    BY <1>1 DEF HandleExecRequest, storeVars
  <2> HIDE DEF a, s
  <2> QED BY <2>4, <2>5, <2>6 DEF SameOutcomes, Results, TypeInv, TypeOK, WireType
<1>2. CASE \E i \in Instances : ExecutorCrash(i)
  <2>1. /\ UNCHANGED attempts
        /\ \A a \in Attempts : work'[a] = work[a] \/ (work[a] = "running" /\ work'[a] = "gone")
    BY <1>2 DEF ExecutorCrash, RunningOn, storeVars
  <2> QED BY <2>1 DEF SameOutcomes, Results
<1>3. CASE (\E c \in Conns : Drop(c)) \/ UNCHANGED vars
  BY <1>3 DEF Drop, vars, storeVars, wireVars, SameOutcomes
<1> QED BY <1>1, <1>2, <1>3

\* Only an executor that finishes an attempt reports an outcome.
LEMMA NextOutcomes ==
    ASSUME TypeInv, SettleInv, [Next]_vars, ~\E a \in Attempts : RunExecution(a) PROVE SameOutcomes
<1>1. CASE ReaperStep \/ HeartbeatNext \/ AdminStep \/ (\E i \in Instances : HandleHeartbeat(i)) \/ Connect \/ Restart
  BY <1>1 DEF ReaperStep, WaitingScan, ReapScan, HeartbeatNext, HandleHeartbeat, AdminStep, HandleJobUpsert,
     CancelReplaced, HandleJobDelete, CancelNext, DeleteJob, Connect, Register, Restart, storeVars, wireVars,
     SameOutcomes
<1> QED BY <1>1, DispatcherOutcomes, CallOutcomes, ReaderOutcomes, OutsideOutcomes DEF Next, ExecutorStep

\* The refinement mapping's two components.
Mapped == <<[e \in Executions |-> Phase(executions[e].state)], [e \in Executions |-> ReportedFor(e)]>>

\* A step that maps to a move of one execution, or to nothing.
LEMMA MoveRefines ==
    ASSUME SameOutcomes, NEW x \in Executions,
           \A f \in Executions \ {x} : executions'[f].state = executions[f].state,
           \/ Follows(x)
           \/ Phase(executions[x].state) = "pending" /\ Phase(executions'[x].state) = "leased"
    PROVE  [Lifecycle!LifecycleNext]_Mapped
<1> DEFINE P == [e \in Executions |-> Phase(executions[e].state)]
           R == [e \in Executions |-> ReportedFor(e)]
           from == Phase(executions[x].state)
           to == Phase(executions'[x].state)
<1>1. R' = R
  BY SameReported
<1>2. P' = [P EXCEPT ![x] = to] /\ P[x] = from /\ R[x] = ReportedFor(x)
  <2>1. P' = [e \in Executions |-> Phase(executions'[e].state)]
    OBVIOUS
  <2>2. \A e \in Executions \ {x} : Phase(executions'[e].state) = Phase(executions[e].state)
    OBVIOUS
  <2> QED BY <2>1, <2>2
<1>3. CASE to = from
  <2>1. P' = P
    BY <1>2, <1>3
  <2> QED BY <1>1, <2>1 DEF Mapped
<1>4. ASSUME to # from PROVE Lifecycle!LifecycleNext
  <2>1. Lifecycle!Move(x, from, to)
    BY <1>1, <1>2 DEF Lifecycle!Move
  <2>2. CASE from = "absent" /\ to = "pending"
    <3>1. Lifecycle!Create(x)
      BY <2>1, <2>2 DEF Lifecycle!Create
    <3> QED BY <3>1 DEF Lifecycle!LifecycleNext
  <2>3. CASE from = "leased" /\ to = "pending"
    <3>1. Lifecycle!GiveBack(x)
      BY <2>1, <2>3 DEF Lifecycle!GiveBack
    <3> QED BY <3>1 DEF Lifecycle!LifecycleNext
  <2>4. CASE from = "pending" /\ to = "leased"
    <3>1. Lifecycle!Lease(x)
      BY <2>1, <2>4 DEF Lifecycle!Lease
    <3> QED BY <3>1 DEF Lifecycle!LifecycleNext
  <2>5. CASE from = "pending" /\ to \in {"Cancelled", "Skipped"}
    <3>1. Lifecycle!Withdraw(x)
      BY <2>1, <2>5 DEF Lifecycle!Withdraw
    <3> QED BY <3>1 DEF Lifecycle!LifecycleNext
  <2>6. CASE from = "leased" /\ to = "Succeeded" /\ "value" \in ReportedFor(x)
    <3>1. Lifecycle!Complete(x)
      BY <1>2, <2>1, <2>6 DEF Lifecycle!Complete
    <3> QED BY <3>1 DEF Lifecycle!LifecycleNext
  <2>7. CASE from = "leased" /\ to = "Failed" /\ "error" \in ReportedFor(x)
    <3>1. Lifecycle!Fail(x)
      BY <1>2, <2>1, <2>7 DEF Lifecycle!Fail
    <3> QED BY <3>1 DEF Lifecycle!LifecycleNext
  <2> QED BY <1>4, <2>2, <2>3, <2>4, <2>5, <2>6, <2>7 DEF Follows
<1> QED BY <1>3, <1>4

\* An executor that finishes an attempt reports one outcome for its execution.
LEMMA ReportRefines ==
    ASSUME TypeInv, NEW a \in Attempts, RunExecution(a) PROVE [Lifecycle!LifecycleNext]_Mapped
<1> DEFINE P == [e \in Executions |-> Phase(executions[e].state)]
           R == [e \in Executions |-> ReportedFor(e)]
<1>1. work[a] = "running" /\ UNCHANGED <<executions, attempts>>
  BY DEF RunExecution, storeVars
<1>2. PICK x \in Executions : attempts[a].exec = x
  BY <1>1 DEF TypeInv, WireOK, Issued, Existing
<1>3. PICK t \in Results : work' = [work EXCEPT ![a] = t]
  BY DEF RunExecution, Results
<1>4. work'[a] = t /\ \A b \in Attempts \ {a} : work'[b] = work[b]
  BY <1>3 DEF TypeInv, TypeOK, WireType
<1>5. P' = P
  BY <1>1
<1> DEFINE o == IF t = "ok" THEN "value" ELSE "error"
<1>6. \A e \in Executions : ReportedFor(e)' = IF e = x THEN ReportedFor(e) \cup {o} ELSE ReportedFor(e)
  <2>1. ASSUME NEW e \in Executions, e # x PROVE ReportedFor(e)' = ReportedFor(e)
    BY <1>1, <1>2, <1>4, <2>1 DEF ReportedFor
  <2>2. ReportedFor(x)' = ReportedFor(x) \cup {o}
    <3>1. CASE t = "ok"
      <4>1. "value" \in ReportedFor(x)'
        BY <1>1, <1>2, <1>4, <3>1 DEF ReportedFor
      <4>2. \A q \in {"value", "error"} : q \in ReportedFor(x) => q \in ReportedFor(x)'
        BY <1>1, <1>2, <1>4 DEF ReportedFor
      <4>3. "error" \in ReportedFor(x)' => "error" \in ReportedFor(x)
        BY <1>1, <1>2, <1>4, <3>1 DEF ReportedFor
      <4>4. ReportedFor(x) \subseteq {"value", "error"} /\ ReportedFor(x)' \subseteq {"value", "error"}
        BY DEF ReportedFor
      <4> QED BY <3>1, <4>1, <4>2, <4>3, <4>4
    <3>2. CASE t \in {"retryable", "fatal"}
      <4>1. "error" \in ReportedFor(x)'
        BY <1>1, <1>2, <1>4, <3>2 DEF ReportedFor
      <4>2. \A q \in {"value", "error"} : q \in ReportedFor(x) => q \in ReportedFor(x)'
        BY <1>1, <1>2, <1>4 DEF ReportedFor
      <4>3. "value" \in ReportedFor(x)' => "value" \in ReportedFor(x)
        BY <1>1, <1>2, <1>4, <3>2 DEF ReportedFor
      <4>4. ReportedFor(x) \subseteq {"value", "error"} /\ ReportedFor(x)' \subseteq {"value", "error"}
        BY DEF ReportedFor
      <4> QED BY <3>2, <4>1, <4>2, <4>3, <4>4
    <3> QED BY <1>3, <3>1, <3>2 DEF Results
  <2> QED BY <2>1, <2>2
<1>7. R' = [R EXCEPT ![x] = @ \cup {o}] /\ o \in Lifecycle!Outcomes
  BY <1>2, <1>6 DEF Lifecycle!Outcomes
<1>8. Lifecycle!Report(x)
  BY <1>5, <1>7 DEF Lifecycle!Report
<1> QED BY <1>2, <1>8 DEF Lifecycle!LifecycleNext

\* Every step of the system maps to a step of the lifecycle, or to none.
LEMMA NextRefines ==
    TypeInv /\ SnapshotsFaithful /\ SettleInv /\ LifeInv /\ [Next]_vars => [Lifecycle!LifecycleNext]_Mapped
<1> SUFFICES ASSUME TypeInv, SnapshotsFaithful, SettleInv, LifeInv, [Next]_vars
             PROVE  [Lifecycle!LifecycleNext]_Mapped
  OBVIOUS
<1>1. ASSUME UNCHANGED executions, SameOutcomes PROVE [Lifecycle!LifecycleNext]_Mapped
  <2>1. \A e \in Executions : ReportedFor(e)' = ReportedFor(e)
    BY <1>1, SameReported
  <2> QED BY <1>1, <2>1 DEF Mapped
<1>2. CASE Claim
  <2> DEFINE d == "dispatcher"  s == exec[d]
  <2>1. s \in Known /\ s.id \in Executions
    BY <1>2, ProcNames DEF Claim, TypeInv, LocalOK, HandlerLabels, Known, Existing
  <2>2. SameOutcomes
    BY <1>2, DispatcherOutcomes DEF DispatcherStep
  <2>3. CASE Accepts(s, "Dispatching") /\ executions' = Updated(s, "Dispatching", executions[s.id].fa, executions[s.id].cur)
    <3>1. /\ executions'[s.id].state = "Dispatching"
          /\ \A f \in Executions \ {s.id} : executions'[f].state = executions[f].state
      BY <2>1, <2>3 DEF Updated, TypeInv, TypeOK, StoreType
    <3>2. executions[s.id].state \in PendingStates \cup LeasedStates
      BY <2>3, TableEntries DEF Accepts, LeasedStates
    <3>3. Phase("Dispatching") = "leased" /\ Phase(executions[s.id].state) \in {"pending", "leased"}
      BY <3>2, Phases DEF LeasedStates
    <3> HIDE DEF s
    <3> QED BY <2>1, <2>2, <3>1, <3>3, MoveRefines DEF Follows
  <2> QED BY <1>1, <1>2, <2>2, <2>3 DEF Claim
<1>3. CASE ~Claim /\ ~\E a \in Attempts : RunExecution(a)
  <2>1. Lawful /\ SameOutcomes
    BY <1>3, NextLawful, NextOutcomes
  <2> QED BY <1>1, <2>1, MoveRefines DEF Lawful
<1> QED BY <1>2, <1>3, ReportRefines

\* The engine implements ExecutionLifecycle: whatever the handlers, faults and
\* restarts do, an occurrence is leased, given back and settled once, it is
\* withdrawn only while it waits, and settled only with a reported outcome.
THEOREM Refinement == Spec => ImplementsLifecycle
<1>1. Init => Lifecycle!LifecycleInit
  <2> SUFFICES ASSUME Init PROVE Lifecycle!LifecycleInit
    OBVIOUS
  <2>1. \A e \in Executions : Phase(executions[e].state) \in {"absent", "pending"}
    BY Phases DEF Init, PendingStates, DueStates
  <2>2. \A e \in Executions : ReportedFor(e) = {}
    BY DEF Init, ReportedFor
  <2> QED BY <2>1, <2>2 DEF Lifecycle!LifecycleInit
<1>2. TypeInv /\ SnapshotsFaithful /\ SettleInv /\ LifeInv /\ [Next]_vars => [Lifecycle!LifecycleNext]_Mapped
  BY NextRefines
<1> QED BY <1>1, <1>2, TypeCorrect, SettleCorrect, LifeCorrect, PTL
        DEF Spec, ImplementsLifecycle, Lifecycle!LifecycleSpec, Mapped

-----------------------------------------------------------------------------
(* Messages on the wire.                                                     *)

\* m is on its way to the engine.
Told(m) == \E c \in Conns : \E n \in 1 .. Len(toEngine[c]) : toEngine[c][n] = m

\* Everything told is about an attempt that exists.
LEMMA ToldIssued ==
    ASSUME TypeInv, NEW m, Told(m) PROVE m \in Messages /\ m.att \in Issued
<1>1. PICK c \in Conns : \E n \in 1 .. Len(toEngine[c]) : toEngine[c][n] = m
  BY DEF Told
<1>2. PICK n \in 1 .. Len(toEngine[c]) : toEngine[c][n] = m
  BY <1>1
<1>3. toEngine[c][n] \in IssuedMessages
  BY ElementOfSeq DEF TypeInv, WireOK
<1> QED BY <1>2, <1>3 DEF IssuedMessages

\* A reader that takes a message was told it, and is told nothing new.
LEMMA ReceiveTold ==
    ASSUME TypeInv, NEW c \in Conns, NEW types, Receive(c, types)
    PROVE  /\ Told(Head(toEngine[c]))
           /\ \A m : Told(m)' => Told(m)
           /\ \A e \in Conns \ {c} : toEngine'[e] = toEngine[e]
           /\ \A n \in 1 .. Len(toEngine'[c]) :
                 n + 1 \in 1 .. Len(toEngine[c]) /\ toEngine'[c][n] = toEngine[c][n + 1]
           /\ Head(toEngine[c]) = toEngine[c][1] /\ 1 \in 1 .. Len(toEngine[c])
<1> DEFINE s == toEngine[c]
<1>1. s \in Seq(IssuedMessages) /\ s # <<>> /\ toEngine' = [toEngine EXCEPT ![c] = Tail(@)]
  BY DEF Receive, TypeInv, WireOK
<1>2. toEngine'[c] = Tail(s) /\ \A e \in Conns \ {c} : toEngine'[e] = toEngine[e]
  BY <1>1 DEF TypeInv, WireOK
<1>3. Len(s) \in Nat /\ Len(s) # 0
  BY <1>1, EmptySeq, LenProperties
<1>4. /\ Head(s) = s[1] /\ 1 \in 1 .. Len(s) /\ Len(Tail(s)) = Len(s) - 1
      /\ \A n \in 1 .. Len(Tail(s)) : Tail(s)[n] = s[n + 1]
  BY <1>1, <1>3, HeadTailProperties
<1>5. \A n \in 1 .. Len(toEngine'[c]) : n + 1 \in 1 .. Len(s) /\ toEngine'[c][n] = s[n + 1]
  BY <1>2, <1>3, <1>4
<1>6. Told(Head(s))
  BY <1>4 DEF Told
<1>7. ASSUME NEW m, Told(m)' PROVE Told(m)
  <2>1. PICK e \in Conns : \E n \in 1 .. Len(toEngine'[e]) : toEngine'[e][n] = m
    BY <1>7 DEF Told
  <2>2. CASE e = c
    BY <1>5, <2>1, <2>2 DEF Told
  <2>3. CASE e # c
    BY <1>2, <2>1, <2>3 DEF Told
  <2> QED BY <2>2, <2>3
<1> HIDE DEF s
<1> QED BY <1>2, <1>4, <1>5, <1>6, <1>7 DEF s

\* A message handed to the transport.
LEMMA SinkTold ==
    ASSUME TypeInv, NEW c \in Conns, NEW m, Sink(c, m)
    PROVE  /\ \A k : Told(k)' => Told(k) \/ k = m
           /\ \A e \in Conns \ {c} : toEngine'[e] = toEngine[e]
           /\ \A n \in 1 .. Len(toEngine'[c]) :
                 \/ n \in 1 .. Len(toEngine[c]) /\ toEngine'[c][n] = toEngine[c][n]
                 \/ n = Len(toEngine[c]) + 1 /\ toEngine'[c][n] = m
<1> DEFINE s == toEngine[c]
<1>1. s \in Seq(IssuedMessages \cup {m}) /\ toEngine' = [toEngine EXCEPT ![c] = Append(s, m)]
  <2>1. s \in Seq(IssuedMessages)
    BY DEF TypeInv, WireOK
  <2> QED BY <2>1, SeqMonotonic DEF Sink
<1>2. toEngine'[c] = Append(s, m) /\ \A e \in Conns \ {c} : toEngine'[e] = toEngine[e]
  BY <1>1 DEF TypeInv, WireOK
<1>3. /\ Len(s) \in Nat /\ Len(Append(s, m)) = Len(s) + 1
      /\ \A n \in 1 .. Len(s) : Append(s, m)[n] = s[n]
      /\ Append(s, m)[Len(s) + 1] = m
  BY <1>1, AppendProperties, LenProperties
<1>4. \A n \in 1 .. Len(toEngine'[c]) :
         \/ n \in 1 .. Len(s) /\ toEngine'[c][n] = s[n]
         \/ n = Len(s) + 1 /\ toEngine'[c][n] = m
  BY <1>2, <1>3
<1>5. ASSUME NEW k, Told(k)' PROVE Told(k) \/ k = m
  <2>1. PICK e \in Conns : \E n \in 1 .. Len(toEngine'[e]) : toEngine'[e][n] = k
    BY <1>5 DEF Told
  <2>2. CASE e = c
    BY <1>4, <2>1, <2>2 DEF Told
  <2>3. CASE e # c
    BY <1>2, <2>1, <2>3 DEF Told
  <2> QED BY <2>2, <2>3
<1> HIDE DEF s
<1> QED BY <1>2, <1>4, <1>5 DEF s

\* Connections that lose what they carried tell nothing new.
LEMMA LossTold ==
    ASSUME \A c \in Conns : toEngine'[c] = toEngine[c] \/ toEngine'[c] = <<>>
    PROVE  /\ \A m : Told(m)' => Told(m)
           /\ \A c \in Conns : \A n \in 1 .. Len(toEngine'[c]) :
                 n \in 1 .. Len(toEngine[c]) /\ toEngine'[c][n] = toEngine[c][n]
<1>1. Len(<<>>) = 0
  BY EmptySeq
<1>2. \A c \in Conns : \A n \in 1 .. Len(toEngine'[c]) :
         n \in 1 .. Len(toEngine[c]) /\ toEngine'[c][n] = toEngine[c][n]
  BY <1>1
<1> QED BY <1>2 DEF Told

-----------------------------------------------------------------------------
(* Nothing is answered before it is sent.                                    *)
(*                                                                          *)
(* Between the fence and Enqueue the attempt exists in the store only: no    *)
(* message names it, and no handler acts for it.  A handler that acts on a   *)
(* message holds a copy whose current attempt is the one the message named,  *)
(* so its write of the fenced execution would be refused.                    *)

\* a is an attempt of some execution.
Belongs(a) == a \in Attempts /\ attempts[a].exec \in Executions

\* The reader of c acts on an answer about its attempt.
Answering(c) ==
    \/ pc[c] \in {"acceptRun", "rejectMark", "succeed", "failMark"}
    \/ pc[c] = "transition" /\ goal[c] \in {"WaitingCompatible", "RetryWait", "Failed"}

AnswersCurrent(c) == Answering(c) => Belongs(att[c]) /\ exec[c].cur = att[c]

\* The states anybody but the timing loop writes without an answer.
GoalOwner(p) ==
    p # "dispatcher" /\ pc[p] = "transition" =>
        \/ goal[p] \in {"Ready", "Cancelled"} \cup LeasedStates
        \/ p \in Conns /\ goal[p] \in {"WaitingCompatible", "RetryWait", "Failed"}

Unanswered ==
    pc["dispatcher"] \in {"fence", "send"} =>
        /\ \A m : Told(m) => m.att # att["dispatcher"]
        /\ \A c \in Conns : Answering(c) => att[c] # att["dispatcher"]

\* The fenced execution, until its request is handed over.
FencedOK ==
    pc["dispatcher"] = "send" =>
        LET x == executions[exec["dispatcher"].id] IN
        x.cur = att["dispatcher"] /\ x.state \in {"Dispatching", "Ready", "Cancelled"}

AnswerInv ==
    /\ \A c \in Conns : AnswersCurrent(c)
    /\ \A p \in Procs : GoalOwner(p)
    /\ Unanswered /\ FencedOK

\* What a step of the reader of c may act on: what it acted on, or a message.
FromMessage(c) ==
    Answering(c)' =>
        \/ Answering(c) /\ att'[c] = att[c] /\ exec'[c] = exec[c]
        \/ \E m : Told(m) /\ att'[c] = m.att /\ exec'[c].cur = m.att

\* A step to a label that acts on no answer.
LEMMA GotoAnswers ==
    ASSUME TypeInv, NEW p \in Procs, NEW label, Goto(p, label),
           label \notin {"acceptRun", "rejectMark", "succeed", "failMark", "transition"}
    PROVE  FromMessage(p) /\ GoalOwner(p)'
<1>1. pc'[p] = label
  BY DEF Goto, TypeInv, TypeOK, ControlType
<1> QED BY <1>1 DEF FromMessage, Answering, GoalOwner

\* A handler that returns, or a loop that starts or moves on.
LEMMA ReturnAnswers ==
    ASSUME TypeInv, NEW p \in Procs,
           \/ Finish(p) \/ (\E S, T : Return(p, S, T))
           \/ \E label \in LoopLabels : \E list : Enter(p, label, list)
    PROVE  FromMessage(p) /\ GoalOwner(p)'
<1>1. pc'[p] \in LoopLabels \cup {"closed"}
  BY ReturnLabels, EnterOK
<1> QED BY <1>1 DEF FromMessage, Answering, GoalOwner, LoopLabels

\* A step to a write that needs no answer.
LEMMA TransitionAnswers ==
    ASSUME TypeInv, NEW p \in Procs, Goto(p, "transition"), NEW s, NEW a, NEW g, Hold(p, s, a, g),
           g \in {"Ready", "Cancelled"} \cup LeasedStates
    PROVE  FromMessage(p) /\ GoalOwner(p)'
<1>1. pc'[p] = "transition" /\ goal'[p] = g
  BY DEF Goto, Hold, TypeInv, TypeOK, ControlType
<1> QED BY <1>1 DEF FromMessage, Answering, GoalOwner, LeasedStates

\* The shared calls act on no answer.
LEMMA CallAnswers ==
    ASSUME TypeInv, NEW p \in Procs, CallStep(p) PROVE FromMessage(p) /\ GoalOwner(p)'
<1>1. CASE Transition(p) \/ Abandon(p) \/ AbandonNext(p) \/ RewaitNext(p)
  <2>1. \/ \E label \in {"materialize", "requeue", "abandon"} : Goto(p, label)
        \/ Finish(p) \/ \E S, T : Return(p, S, T)
    BY <1>1 DEF Transition, Abandon, AbandonNext, RewaitNext
  <2> QED BY <2>1, GotoAnswers, ReturnAnswers
<1>2. CASE Requeue(p)
  <2>1. Finish(p) \/ (Goto(p, "transition") /\ \E s, a : Hold(p, s, a, "Ready"))
    BY <1>2 DEF Requeue
  <2> QED BY <2>1, ReturnAnswers, TransitionAnswers
<1> QED BY <1>1, <1>2 DEF CallStep

\* The readers act on the message they took.
LEMMA ReaderAnswers ==
    ASSUME TypeInv, AnswerInv, NEW c \in Conns, ReaderStep(c) PROVE FromMessage(c) /\ GoalOwner(c)'
<1>0. c \in Procs
  BY ProcNames
<1>1. CASE Reconsider(c) \/ DisconnectList(c)
  <2>1. \E label \in LoopLabels : \E list : Enter(c, label, list)
    BY <1>1 DEF Reconsider, DisconnectList, LoopLabels
  <2> QED BY <1>0, <2>1, ReturnAnswers
<1>2. CASE AcceptRun(c) \/ Succeed(c) \/ AcceptMark(c) \/ SucceedMark(c) \/ Deregister(c) \/ DisconnectNext(c)
  <2>1. \/ Finish(c) \/ (\E S, T : Return(c, S, T))
        \/ \E label \in {"acceptMark", "succeedMark", "disconnectList", "closed", "abandon"} : Goto(c, label)
    BY <1>2 DEF AcceptRun, Succeed, AcceptMark, SucceedMark, Deregister, DisconnectNext, NextOpen
  <2> QED BY <1>0, <2>1, ReturnAnswers, GotoAnswers
<1>3. CASE RejectMark(c)
  <2>1. goal[c] \in {"Ready", "WaitingCompatible"} /\ Answering(c)
    BY <1>0, <1>3 DEF RejectMark, TypeInv, LocalOK, Answering
  <2>2. Finish(c) \/ Goto(c, "requeue") \/ (Goto(c, "transition") /\ UNCHANGED localVars)
    BY <1>3 DEF RejectMark
  <2>3. CASE Goto(c, "transition") /\ UNCHANGED localVars
    BY <1>0, <2>1, <2>3 DEF Goto, localVars, FromMessage, GoalOwner, TypeInv, TypeOK, ControlType
  <2> QED BY <1>0, <2>2, <2>3, ReturnAnswers, GotoAnswers
<1>4. CASE FailMark(c)
  <2>1. Goto(c, "transition") /\ \E g \in {"RetryWait", "Failed"} : Hold(c, exec[c], att[c], g)
    BY <1>4 DEF FailMark
  <2>2. Answering(c)
    BY <1>4 DEF FailMark, Answering
  <2>3. /\ pc'[c] = "transition" /\ goal'[c] \in {"RetryWait", "Failed"}
        /\ exec'[c] = exec[c] /\ att'[c] = att[c]
    BY <1>0, <2>1 DEF Goto, Hold, TypeInv, TypeOK, ControlType
  <2> QED BY <1>0, <2>2, <2>3 DEF FromMessage, GoalOwner
<1>5. CASE HandleExecAccept(c) \/ HandleExecReject(c) \/ HandleExecResult(c)
  <2> DEFINE m == Head(toEngine[c])  e == executions[attempts[m.att].exec]
  <2>1. Told(m)
    BY <1>5, ReceiveTold DEF HandleExecAccept, HandleExecReject, HandleExecResult
  <2>2. \/ UNCHANGED <<pc, localVars>>
        \/ /\ \E label \in {"acceptRun", "rejectMark", "succeed", "failMark"} : Goto(c, label)
           /\ \E g : Hold(c, e, m.att, g)
           /\ e.cur = m.att
    BY <1>5 DEF HandleExecAccept, HandleExecReject, HandleExecResult, Current
  <2>3. CASE UNCHANGED <<pc, localVars>>
    BY <1>0, <2>3 DEF localVars, FromMessage, Answering, GoalOwner, AnswerInv
  <2> HIDE DEF m, e
  <2>4. CASE /\ \E label \in {"acceptRun", "rejectMark", "succeed", "failMark"} : Goto(c, label)
             /\ \E g : Hold(c, e, m.att, g)
             /\ e.cur = m.att
    <3>1. /\ pc'[c] \in {"acceptRun", "rejectMark", "succeed", "failMark"}
          /\ exec'[c] = e /\ att'[c] = m.att
      BY <1>0, <2>4 DEF Goto, Hold, TypeInv, TypeOK, ControlType
    <3>2. GoalOwner(c)'
      BY <3>1 DEF GoalOwner
    <3>3. FromMessage(c)
      BY <2>1, <2>4, <3>1 DEF FromMessage
    <3> QED BY <3>2, <3>3
  <2> QED BY <2>2, <2>3, <2>4
<1> QED BY <1>1, <1>2, <1>3, <1>4, <1>5 DEF ReaderStep

\* The execution an attempt belongs to never changes.
Stays == \A a \in Attempts : attempts[a].exec \in Executions => attempts'[a].exec = attempts[a].exec

\* What a step does to the attempts: nothing, a guarded change of one state, or
\* the creation of the next one.
LEMMA NextAttempts ==
    ASSUME TypeInv, [Next]_vars
    PROVE  \/ UNCHANGED attempts
           \/ \E a \in 0 .. MaxAttempt : \E from, to : UpdateAttemptState(a, from, to)
           \/ CreateAttempt
<1>1. \A p \in Procs : att[p] \in 0 .. MaxAttempt
  BY DEF TypeInv, TypeOK, ControlType
<1>2. CASE DispatcherStep
  BY <1>1, <1>2, ProcNames DEF DispatcherStep, DueScan, Consider, Claim, Fence, Send, SendFailed, Materialize, storeVars
<1>3. ASSUME NEW p \in Procs, CallStep(p)
      PROVE  \/ UNCHANGED attempts
             \/ \E a \in 0 .. MaxAttempt : \E from, to : UpdateAttemptState(a, from, to)
  BY <1>1, <1>3 DEF CallStep, Transition, Requeue, Abandon, AbandonNext, RewaitNext, storeVars
<1>4. ASSUME NEW c \in Conns, ReaderStep(c)
      PROVE  \/ UNCHANGED attempts
             \/ \E a \in 0 .. MaxAttempt : \E from, to : UpdateAttemptState(a, from, to)
  <2>1. CASE AcceptMark(c) \/ RejectMark(c) \/ SucceedMark(c) \/ FailMark(c)
    BY <1>1, <2>1, ProcNames DEF AcceptMark, RejectMark, SucceedMark, FailMark
  <2>2. CASE ~(AcceptMark(c) \/ RejectMark(c) \/ SucceedMark(c) \/ FailMark(c))
    BY <1>4, <2>2 DEF ReaderStep, Reconsider, HandleExecAccept, AcceptRun, HandleExecReject, HandleExecResult,
       Succeed, Deregister, DisconnectList, DisconnectNext, storeVars
  <2> QED BY <2>1, <2>2
<1>5. CASE \/ ReaperStep \/ HeartbeatNext \/ AdminStep \/ (\E i \in Instances : HandleHeartbeat(i))
           \/ Connect \/ Restart
  BY <1>5 DEF ReaperStep, WaitingScan, ReapScan, HeartbeatNext, HandleHeartbeat, AdminStep, HandleJobUpsert,
     CancelReplaced, HandleJobDelete, CancelNext, DeleteJob, Connect, Register, Restart, storeVars
<1>6. CASE \/ ExecutorStep \/ (\E c \in Conns : Drop(c))
           \/ (\E i \in Instances : ExecutorCrash(i)) \/ UNCHANGED vars
  BY <1>6, OutsideAlone DEF storeVars
<1> QED BY <1>2, <1>3, <1>4, <1>5, <1>6 DEF Next

\* So every attempt stays with its execution.
LEMMA NextStays == ASSUME TypeInv, SettleInv, [Next]_vars PROVE Stays
<1>1. ASSUME NEW a \in 0 .. MaxAttempt, NEW from, NEW to, UpdateAttemptState(a, from, to) PROVE Stays
  BY <1>1, NotAbsent DEF Stays, UpdateAttemptState, TypeInv, TypeOK, StoreType, AttemptRecords
<1>2. CASE CreateAttempt
  <2> DEFINE a == lastAttempt + 1
  <2>1. a \in Attempts /\ attempts[a].exec = 0 /\ 0 \notin Executions
    BY <1>2, BoundsAssumption DEF CreateAttempt, SettleInv, FreshOK, TypeInv, TypeOK, StoreType, Executions
  <2>2. \A b \in Attempts \ {a} : attempts'[b] = attempts[b]
    BY <1>2, <2>1 DEF CreateAttempt, TypeInv, TypeOK, StoreType
  <2> HIDE DEF a
  <2> QED BY <2>1, <2>2 DEF Stays
<1> QED BY <1>1, <1>2, NextAttempts DEF Stays

\* A step of another process than the timing loop.
LEMMA AnswerTogether ==
    ASSUME TypeInv, AnswerInv, Stays, NEW p \in Procs \ {"dispatcher"}, Only(p), FromMessage(p), GoalOwner(p)',
           \A m : Told(m)' => Told(m), FencedOK'
    PROVE  AnswerInv'
<1>1. pc'["dispatcher"] = pc["dispatcher"] /\ att'["dispatcher"] = att["dispatcher"]
  BY ProcNames DEF Only
<1>2. ASSUME NEW c \in Conns, Answering(c)'
      PROVE  /\ Belongs(att'[c]) /\ exec'[c].cur = att'[c]
             /\ pc["dispatcher"] \in {"fence", "send"} => att'[c] # att["dispatcher"]
  <2>1. CASE c # p
    BY <1>2, <2>1, ProcNames DEF Only, Answering, AnswerInv, AnswersCurrent, Unanswered
  <2>2. CASE c = p /\ Answering(c) /\ att'[c] = att[c] /\ exec'[c] = exec[c]
    BY <2>2 DEF AnswerInv, AnswersCurrent, Unanswered
  <2>3. CASE c = p /\ \E m : Told(m) /\ att'[c] = m.att /\ exec'[c].cur = m.att
    BY <2>3, ToldIssued DEF AnswerInv, Unanswered, Belongs, Issued, Existing
  <2> QED BY <1>2, <2>1, <2>2, <2>3 DEF FromMessage
<1>3. \A c \in Conns : AnswersCurrent(c)'
  BY <1>2 DEF AnswersCurrent, Belongs, Stays
<1>4. \A q \in Procs : GoalOwner(q)'
  BY DEF AnswerInv, Only, GoalOwner
<1>5. Unanswered'
  BY <1>1, <1>2 DEF AnswerInv, Unanswered
<1> QED BY <1>3, <1>4, <1>5 DEF AnswerInv

\* A step that writes no execution keeps the fenced one.
LEMMA QuietFence ==
    ASSUME AnswerInv, UNCHANGED executions, NEW p \in Procs \ {"dispatcher"}, Only(p) PROVE FencedOK'
  BY ProcNames DEF AnswerInv, FencedOK, Only

\* So does a write of a copy, unless it is an answer about the fenced attempt.
LEMMA WriteFence ==
    ASSUME TypeInv, AnswerInv, NEW p \in Procs \ {"dispatcher"}, Only(p), NEW s \in Known,
           executions[s.id] = s, NEW st, NEW f, executions' = Updated(s, st, f, executions[s.id].cur),
           \/ st \in {s.state, "Ready", "Cancelled"}
           \/ pc["dispatcher"] = "send" => s.cur # att["dispatcher"]
    PROVE  FencedOK'
<1> DEFINE d == "dispatcher"
<1>1. s.id \in Executions
  BY DEF Known, Existing
<1>2. /\ executions'[s.id].state = st /\ executions'[s.id].cur = s.cur
      /\ \A e \in Executions \ {s.id} : executions'[e] = executions[e]
  BY <1>1 DEF Updated, TypeInv, TypeOK, StoreType
<1>3. pc'[d] = pc[d] /\ exec'[d] = exec[d] /\ att'[d] = att[d] /\ d \in Procs
  BY ProcNames DEF Only
<1> SUFFICES ASSUME pc[d] = "send"
             PROVE  LET x == executions'[exec[d].id] IN x.cur = att[d] /\ x.state \in {"Dispatching", "Ready", "Cancelled"}
  BY <1>3 DEF FencedOK
<1>4. exec[d].id \in Executions
  BY <1>3 DEF TypeInv, LocalOK, HandlerLabels, Known, Existing
<1>5. /\ executions[exec[d].id].cur = att[d]
      /\ executions[exec[d].id].state \in {"Dispatching", "Ready", "Cancelled"}
  BY DEF AnswerInv, FencedOK
<1>6. CASE exec[d].id = s.id
  BY <1>2, <1>5, <1>6
<1>7. CASE exec[d].id # s.id
  BY <1>2, <1>4, <1>5, <1>7
<1> QED BY <1>6, <1>7

\* A step of the timing loop: only the creation of an attempt and the fence
\* bring it to a request that is not sent yet.
LEMMA DispatcherTogether ==
    ASSUME TypeInv, AnswerInv, Stays, Only("dispatcher"), UNCHANGED toEngine,
           pc'["dispatcher"] \in {"fence", "send"} =>
               \/ pc["dispatcher"] \in {"fence", "send"} /\ att'["dispatcher"] = att["dispatcher"]
               \/ ~Belongs(att'["dispatcher"]),
           FencedOK'
    PROVE  AnswerInv'
<1> DEFINE d == "dispatcher"
<1>1. \A c \in Conns : (Answering(c)' <=> Answering(c)) /\ att'[c] = att[c] /\ exec'[c] = exec[c]
  BY ProcNames DEF Only, Answering
<1>2. \A c \in Conns : AnswersCurrent(c)'
  BY <1>1 DEF AnswerInv, AnswersCurrent, Belongs, Stays
<1>3. \A q \in Procs : GoalOwner(q)'
  BY DEF AnswerInv, Only, GoalOwner
<1>4. \A m : Told(m)' <=> Told(m)
  BY DEF Told
<1>5. ASSUME pc'[d] \in {"fence", "send"}
      PROVE  /\ \A m : Told(m) => m.att # att'[d]
             /\ \A c \in Conns : Answering(c) => att[c] # att'[d]
  <2>1. CASE pc[d] \in {"fence", "send"} /\ att'[d] = att[d]
    BY <2>1 DEF AnswerInv, Unanswered
  <2>2. CASE ~Belongs(att'[d])
    <3>1. \A m : Told(m) => Belongs(m.att)
      BY ToldIssued DEF Belongs, Issued, Existing
    <3> QED BY <2>2, <3>1 DEF AnswerInv, AnswersCurrent
  <2> QED BY <1>5, <2>1, <2>2
<1>6. Unanswered'
  BY <1>1, <1>4, <1>5 DEF Unanswered
<1> QED BY <1>2, <1>3, <1>6 DEF AnswerInv

\* Only the creation of an attempt and its fence lead to a request that is not
\* sent yet; the first names an attempt no execution had.
LEMMA DispatcherSends ==
    ASSUME TypeInv, SettleInv, DispatcherStep \/ CallStep("dispatcher"), pc'["dispatcher"] \in {"fence", "send"}
    PROVE  \/ CreateAttempt /\ pc'["dispatcher"] = "fence" /\ ~Belongs(att'["dispatcher"])
           \/ /\ Fence /\ pc["dispatcher"] = "fence" /\ pc'["dispatcher"] = "send"
              /\ att'["dispatcher"] = att["dispatcher"]
<1> DEFINE d == "dispatcher"
<1>0. d \in Procs
  BY ProcNames
<1>1. ASSUME NEW label, Goto(d, label) PROVE label = pc'[d]
  BY <1>0, <1>1 DEF Goto, TypeInv, TypeOK, ControlType
<1>2. ~Finish(d) /\ ~(\E S, T : Return(d, S, T))
  BY <1>0, ReturnLabels DEF LoopLabels
<1>3. ~DueScan
  <2>1. "due" \in LoopLabels
    BY DEF LoopLabels
  <2> QED BY <1>0, <2>1, EnterOK DEF LoopLabels, DueScan
<1>4. ~Consider
  BY <1>1 DEF Consider, Park
<1>5. ~Claim /\ ~Send /\ ~SendFailed /\ ~Materialize
  BY <1>1, <1>2 DEF Claim, Send, SendFailed, Materialize
<1>6. ~CallStep(d)
  BY <1>1, <1>2 DEF CallStep, Transition, Requeue, Abandon, AbandonNext, RewaitNext
<1>7. CASE CreateAttempt
  <2> DEFINE a == lastAttempt + 1
  <2>1. attempts[a].exec = 0 /\ 0 \notin Executions
    BY <1>7, BoundsAssumption DEF CreateAttempt, SettleInv, FreshOK, TypeInv, TypeOK, StoreType, Executions
  <2>2. pc'[d] = "fence" /\ att'[d] = a
    BY <1>0, <1>7 DEF CreateAttempt, Goto, Hold, TypeInv, TypeOK, ControlType
  <2> HIDE DEF a
  <2> QED BY <1>7, <2>1, <2>2 DEF Belongs
<1>8. CASE Fence
  <2>1. Goto(d, "send") /\ Hold(d, executions'[exec[d].id], att[d], "None") /\ pc[d] = "fence"
    BY <1>2, <1>8 DEF Fence
  <2> QED BY <1>0, <1>1, <1>8, <2>1 DEF Hold, TypeInv, TypeOK, ControlType
<1> QED BY <1>3, <1>4, <1>5, <1>6, <1>7, <1>8 DEF DispatcherStep

LEMMA DispatcherAnswer ==
    ASSUME TypeInv, SnapshotsFaithful, SettleInv, AnswerInv, Stays,
           DispatcherStep \/ CallStep("dispatcher")
    PROVE  AnswerInv'
<1> DEFINE d == "dispatcher"
<1>0. d \in Procs /\ Only(d)
  BY ProcNames, DispatcherAlone, CallAlone
<1>1. UNCHANGED toEngine
  BY DEF DispatcherStep, DueScan, Consider, Claim, CreateAttempt, Fence, Send, SendFailed, Materialize, wireVars,
     CallStep, Transition, Requeue, Abandon, AbandonNext, RewaitNext
<1>2. CASE pc'[d] \notin {"fence", "send"}
  BY <1>0, <1>1, <1>2, DispatcherTogether DEF FencedOK
<1>3. CASE pc'[d] = "fence" /\ ~Belongs(att'[d])
  BY <1>0, <1>1, <1>3, DispatcherTogether DEF FencedOK
<1>4. CASE Fence /\ pc[d] = "fence" /\ pc'[d] = "send" /\ att'[d] = att[d]
  <2> DEFINE s == exec[d]  now == executions[s.id]
  <2>0. s \in Known
    BY <1>0, <1>4 DEF TypeInv, LocalOK, HandlerLabels
  <2>1. /\ now.version = s.version /\ executions' = Updated(s, now.state, now.fa, att[d])
        /\ Hold(d, executions'[s.id], att[d], "None")
    <3>1. ~Finish(d)
      BY <1>0, <1>4, ReturnLabels DEF LoopLabels
    <3> QED BY <1>4, <3>1 DEF Fence
  <2>2. now = s /\ s.id \in Executions /\ s.state = "Dispatching"
    BY <1>0, <1>4, <2>0, <2>1, AcceptedCopy DEF SettleInv, SettleLocal
  <2>3. executions'[s.id] = [id |-> s.id, state |-> now.state, fa |-> now.fa, cur |-> att[d], version |-> s.version + 1]
    BY <2>1, <2>2 DEF Updated, TypeInv, TypeOK, StoreType
  <2>4. exec'[d] = executions'[s.id]
    BY <1>0, <2>1 DEF Hold, TypeInv, TypeOK, ControlType
  <2>5. FencedOK'
    BY <1>4, <2>2, <2>3, <2>4 DEF FencedOK
  <2> QED BY <1>0, <1>1, <1>4, <2>5, DispatcherTogether
<1> QED BY <1>2, <1>3, <1>4, DispatcherSends

\* The state a handler writes is no answer, or the copy is not the fenced one.
LEMMA GoalFence ==
    ASSUME TypeInv, LifeInv, AnswerInv, NEW p \in Procs \ {"dispatcher"}, pc[p] = "transition"
    PROVE  \/ goal[p] \in {exec[p].state, "Ready", "Cancelled"}
           \/ pc["dispatcher"] = "send" => exec[p].cur # att["dispatcher"]
<1>1. CASE goal[p] \in {"Ready", "Cancelled"} \cup LeasedStates
  BY <1>1 DEF LifeInv, WithdrawLocal
<1>2. CASE p \in Conns /\ goal[p] \in {"WaitingCompatible", "RetryWait", "Failed"}
  BY <1>2 DEF AnswerInv, AnswersCurrent, Unanswered, Answering
<1> QED BY <1>1, <1>2 DEF AnswerInv, GoalOwner

LEMMA CallAnswer ==
    ASSUME TypeInv, SnapshotsFaithful, LifeInv, AnswerInv, Stays, NEW p \in Procs \ {"dispatcher"}, CallStep(p)
    PROVE  AnswerInv'
<1>0. Only(p) /\ FromMessage(p) /\ GoalOwner(p)'
  BY CallAlone, CallAnswers
<1>1. UNCHANGED toEngine
  BY DEF CallStep, Transition, Requeue, Abandon, AbandonNext, RewaitNext, wireVars
<1>2. \A m : Told(m)' => Told(m)
  BY <1>1 DEF Told
<1>3. CASE UNCHANGED executions
  BY <1>0, <1>2, <1>3, QuietFence, AnswerTogether
<1>4. CASE Transition(p) /\ Accepts(exec[p], goal[p])
  <2> DEFINE s == exec[p]
  <2>1. s \in Known /\ pc[p] = "transition"
    BY <1>4 DEF Transition, TypeInv, LocalOK, HandlerLabels
  <2>2. executions[s.id] = s
    BY <1>4, <2>1, AcceptedCopy DEF Accepts
  <2>3. executions' = Updated(s, goal[p], executions[s.id].fa, executions[s.id].cur)
    BY <1>4 DEF Transition, UpdateState
  <2>4. \/ goal[p] \in {s.state, "Ready", "Cancelled"}
        \/ pc["dispatcher"] = "send" => s.cur # att["dispatcher"]
    BY <2>1, GoalFence
  <2> HIDE DEF s
  <2>5. FencedOK'
    BY <1>0, <2>1, <2>2, <2>3, <2>4, WriteFence
  <2> QED BY <1>0, <1>2, <2>5, AnswerTogether
<1>5. UNCHANGED executions \/ (Transition(p) /\ Accepts(exec[p], goal[p]))
  <2>1. CASE Transition(p)
    BY <2>1 DEF Transition, UpdateState
  <2>2. CASE ~Transition(p)
    BY <2>2 DEF CallStep, Requeue, Abandon, AbandonNext, RewaitNext, storeVars
  <2> QED BY <2>1, <2>2
<1> QED BY <1>3, <1>4, <1>5

LEMMA ReaderAnswer ==
    ASSUME TypeInv, SnapshotsFaithful, AnswerInv, Stays, NEW c \in Conns, ReaderStep(c) PROVE AnswerInv'
<1>0. c \in Procs \ {"dispatcher"} /\ Only(c) /\ FromMessage(c) /\ GoalOwner(c)'
  BY ProcNames, ReaderAlone, ReaderAnswers
<1>1. \A m : Told(m)' => Told(m)
  <2>1. CASE HandleExecAccept(c) \/ HandleExecReject(c) \/ HandleExecResult(c)
    BY <2>1, ReceiveTold DEF HandleExecAccept, HandleExecReject, HandleExecResult
  <2>2. CASE ~(HandleExecAccept(c) \/ HandleExecReject(c) \/ HandleExecResult(c))
    <3>1. UNCHANGED toEngine
      BY <2>2 DEF ReaderStep, Reconsider, AcceptRun, AcceptMark, RejectMark, Succeed, SucceedMark, FailMark,
         Deregister, DisconnectList, DisconnectNext, wireVars
    <3> QED BY <3>1 DEF Told
  <2> QED BY <2>1, <2>2
<1>2. CASE UNCHANGED executions
  BY <1>0, <1>1, <1>2, QuietFence, AnswerTogether
<1>3. ASSUME NEW st, NEW f, pc[c] \in {"acceptRun", "succeed"}, exec[c].version = executions[exec[c].id].version,
             executions' = Updated(exec[c], st, f, executions[exec[c].id].cur)
      PROVE  AnswerInv'
  <2> DEFINE s == exec[c]
  <2>1. s \in Known
    BY <1>0, <1>3 DEF TypeInv, LocalOK, HandlerLabels
  <2>2. executions[s.id] = s
    BY <1>0, <1>3, <2>1, AcceptedCopy
  <2>3. pc["dispatcher"] = "send" => s.cur # att["dispatcher"]
    BY <1>3 DEF AnswerInv, AnswersCurrent, Unanswered, Answering
  <2>4. executions' = Updated(s, st, f, executions[s.id].cur)
    BY <1>3
  <2> HIDE DEF s
  <2>5. FencedOK'
    BY <1>0, <2>1, <2>2, <2>3, <2>4, WriteFence
  <2> QED BY <1>0, <1>1, <2>5, AnswerTogether
<1>4. CASE AcceptRun(c)
  BY <1>2, <1>3, <1>4 DEF AcceptRun, Accepts
<1>5. CASE Succeed(c)
  BY <1>2, <1>3, <1>5 DEF Succeed, Accepts
<1>6. AcceptRun(c) \/ Succeed(c) \/ UNCHANGED executions
  BY DEF ReaderStep, Reconsider, HandleExecAccept, AcceptMark, HandleExecReject, RejectMark, HandleExecResult,
     SucceedMark, FailMark, Deregister, DisconnectList, DisconnectNext, storeVars
<1> QED BY <1>2, <1>4, <1>5, <1>6

\* The reconcile loop, the heartbeat pump, the job operations and a new
\* registration write no execution and act on no answer.
LEMMA QuietAnswer ==
    ASSUME TypeInv, AnswerInv, Stays,
           \/ ReaperStep \/ HeartbeatNext \/ AdminStep \/ Connect
           \/ \E i \in Instances : HandleHeartbeat(i)
    PROVE  AnswerInv'
<1>1. ASSUME NEW p \in Procs \ {"dispatcher"}, Only(p), FromMessage(p), GoalOwner(p)', UNCHANGED <<executions, toEngine>>
      PROVE  AnswerInv'
  <2>1. \A m : Told(m)' => Told(m)
    BY <1>1 DEF Told
  <2> QED BY <1>1, <2>1, QuietFence, AnswerTogether
<1>2. CASE ReaperStep
  <2>1. \E label \in LoopLabels : \E list : Enter("reaper", label, list)
    BY <1>2 DEF ReaperStep, WaitingScan, ReapScan, LoopLabels
  <2>2. UNCHANGED <<executions, toEngine>>
    BY <1>2 DEF ReaperStep, WaitingScan, ReapScan, storeVars, wireVars
  <2> QED BY <1>1, <1>2, <2>1, <2>2, ProcNames, ReaperAlone, ReturnAnswers
<1>3. CASE \E i \in Instances : HandleHeartbeat(i)
  <2>1. \E label \in LoopLabels : \E list : Enter("pump", label, list)
    BY <1>3 DEF HandleHeartbeat, LoopLabels
  <2>2. UNCHANGED <<executions, toEngine>>
    BY <1>3 DEF HandleHeartbeat, storeVars, wireVars
  <2> QED BY <1>1, <1>3, <2>1, <2>2, ProcNames, PumpAlone, ReturnAnswers
<1>4. CASE HeartbeatNext
  <2>1. \/ \E S, T : Return("pump", S, T)
        \/ Goto("pump", "transition") /\ \E s, a, g : Hold("pump", s, a, g) /\ g \in LeasedStates
    BY <1>4 DEF HeartbeatNext, NextOpen
  <2>2. UNCHANGED <<executions, toEngine>>
    BY <1>4 DEF HeartbeatNext, storeVars, wireVars
  <2>3. FromMessage("pump") /\ GoalOwner("pump")'
    BY <2>1, ProcNames, ReturnAnswers, TransitionAnswers
  <2> QED BY <1>1, <1>4, <2>2, <2>3, ProcNames, PumpAlone
<1>5. CASE AdminStep
  <2>1. \/ \E label \in LoopLabels : \E list : Enter("admin", label, list)
        \/ \E label \in {"cancelList", "idle"} : Goto("admin", label)
        \/ Goto("admin", "transition") /\ \E s, a : Hold("admin", s, a, "Cancelled")
    BY <1>5 DEF AdminStep, HandleJobUpsert, CancelReplaced, HandleJobDelete, CancelNext, DeleteJob, LoopLabels
  <2>2. UNCHANGED <<executions, toEngine>>
    BY <1>5 DEF AdminStep, HandleJobUpsert, CancelReplaced, HandleJobDelete, CancelNext, DeleteJob, storeVars, wireVars
  <2>3. FromMessage("admin") /\ GoalOwner("admin")'
    BY <2>1, ProcNames, ReturnAnswers, GotoAnswers, TransitionAnswers
  <2> QED BY <1>1, <1>5, <2>2, <2>3, ProcNames, AdminAlone
<1>6. CASE Connect
  <2>1. PICK i \in Instances, c \in Conns : Register(i, c)
    BY <1>6 DEF Connect
  <2>2. Goto(c, "reconsider") /\ UNCHANGED <<executions, toEngine>>
    BY <2>1 DEF Register, storeVars
  <2> QED BY <1>1, <2>1, <2>2, ProcNames, RegisterAlone, GotoAnswers
<1> QED BY <1>2, <1>3, <1>4, <1>5, <1>6

\* The executor answers requests it was handed, and runs what it admitted: an
\* attempt that is not sent yet is neither.
LEMMA OutsideAnswer ==
    ASSUME TypeInv, SettleInv, AnswerInv,
           \/ ExecutorStep \/ (\E c \in Conns : Drop(c))
           \/ (\E i \in Instances : ExecutorCrash(i)) \/ UNCHANGED vars
    PROVE  AnswerInv'
<1> DEFINE d == "dispatcher"
<1>0. UNCHANGED <<executions, attempts, pc, exec, att, goal>>
  BY OutsideAlone DEF storeVars
<1>1. ASSUME \A m : Told(m)' => Told(m) \/ (pc[d] \in {"fence", "send"} => m.att # att[d]) PROVE AnswerInv'
  <2>1. (\A c \in Conns : AnswersCurrent(c)') /\ (\A q \in Procs : GoalOwner(q)') /\ FencedOK'
    BY <1>0 DEF AnswerInv, AnswersCurrent, Answering, Belongs, GoalOwner, FencedOK
  <2>2. Unanswered'
    BY <1>0, <1>1 DEF AnswerInv, Unanswered, Answering
  <2> QED BY <2>1, <2>2 DEF AnswerInv
<1>2. ASSUME NEW c \in Conns, HandleExecRequest(c) PROVE AnswerInv'
  <2> DEFINE a == Head(toExecutor[c])
  <2>1. pc[d] \in {"fence", "send"} => a # att[d]
    <3>1. toExecutor[c] \in Seq(Attempts) /\ toExecutor[c] # <<>>
      BY <1>2 DEF HandleExecRequest, TypeInv, TypeOK, WireType
    <3>2. a = toExecutor[c][1] /\ 1 \in 1 .. Len(toExecutor[c])
      BY <3>1, EmptySeq, LenProperties, HeadTailProperties
    <3> QED BY <3>2 DEF SettleInv, UnsentOK, Unsent
  <2>2. UNCHANGED toEngine \/ \E t : Sink(c, [type |-> t, att |-> a])
    BY <1>2 DEF HandleExecRequest
  <2> HIDE DEF a
  <2>3. CASE UNCHANGED toEngine
    <3>1. \A m : Told(m)' => Told(m)
      BY <2>3 DEF Told
    <3> QED BY <1>1, <3>1
  <2>4. ASSUME NEW t, Sink(c, [type |-> t, att |-> a]) PROVE AnswerInv'
    <3>1. \A m : Told(m)' => Told(m) \/ m = [type |-> t, att |-> a]
      BY <2>4, SinkTold
    <3> QED BY <1>1, <2>1, <3>1
  <2> QED BY <2>2, <2>3, <2>4
<1>3. ASSUME NEW a \in Attempts, RunExecution(a) PROVE AnswerInv'
  <2>1. pc[d] \in {"fence", "send"} => a # att[d]
    BY <1>3 DEF RunExecution, SettleInv, UnsentOK, Unsent
  <2>2. CASE UNCHANGED toEngine
    <3>1. \A m : Told(m)' => Told(m)
      BY <2>2 DEF Told
    <3> QED BY <1>1, <3>1
  <2>3. ASSUME NEW c \in up, NEW t, Sink(c, [type |-> t, att |-> a]) PROVE AnswerInv'
    <3>1. c \in Conns
      BY DEF TypeInv, TypeOK, WireType
    <3>2. \A m : Told(m)' => Told(m) \/ m = [type |-> t, att |-> a]
      BY <2>3, <3>1, SinkTold
    <3> QED BY <1>1, <2>1, <3>2
  <2> QED BY <1>3, <2>2, <2>3 DEF RunExecution
<1>4. ASSUME (\E c \in Conns : Drop(c)) \/ (\E i \in Instances : ExecutorCrash(i)) PROVE AnswerInv'
  <2>1. \A c \in Conns : toEngine'[c] = toEngine[c] \/ toEngine'[c] = <<>>
    BY <1>4 DEF Drop, ExecutorCrash, TypeInv, TypeOK, WireType
  <2>2. \A m : Told(m)' => Told(m)
    BY <2>1, LossTold
  <2> QED BY <1>1, <2>2
<1>5. CASE UNCHANGED vars
  <2>1. \A m : Told(m)' => Told(m)
    BY <1>5 DEF Told, vars, wireVars
  <2> QED BY <1>1, <2>1
<1> QED BY <1>2, <1>3, <1>4, <1>5 DEF ExecutorStep

LEMMA RestartAnswer == ASSUME TypeInv, Restart PROVE AnswerInv'
<1>1. \A p \in Procs : pc'[p] \in {"idle", "recover", "unborn", "closed"}
  BY DEF Restart
<1>2. \A c \in Conns : ~Answering(c)'
  BY <1>1, ProcNames DEF Answering
<1>3. pc'["dispatcher"] \notin {"fence", "send"}
  BY <1>1, ProcNames
<1> QED BY <1>1, <1>2, <1>3 DEF AnswerInv, AnswersCurrent, GoalOwner, Unanswered, FencedOK

LEMMA NextAnswer ==
    TypeInv /\ SnapshotsFaithful /\ SettleInv /\ LifeInv /\ AnswerInv /\ [Next]_vars => AnswerInv'
<1> SUFFICES ASSUME TypeInv, SnapshotsFaithful, SettleInv, LifeInv, AnswerInv, [Next]_vars PROVE AnswerInv'
  OBVIOUS
<1>0. Stays
  BY NextStays
<1>1. CASE DispatcherStep
  BY <1>0, <1>1, DispatcherAnswer
<1>2. ASSUME NEW p \in Procs, CallStep(p) PROVE AnswerInv'
  <2>1. CASE p = "dispatcher"
    BY <1>0, <1>2, <2>1, DispatcherAnswer
  <2>2. CASE p # "dispatcher"
    BY <1>0, <1>2, <2>2, CallAnswer
  <2> QED BY <2>1, <2>2
<1>3. ASSUME NEW c \in Conns, ReaderStep(c) PROVE AnswerInv'
  BY <1>0, <1>3, ReaderAnswer
<1>4. CASE ReaperStep \/ HeartbeatNext \/ AdminStep \/ Connect \/ \E i \in Instances : HandleHeartbeat(i)
  BY <1>0, <1>4, QuietAnswer
<1>5. CASE ExecutorStep \/ (\E c \in Conns : Drop(c)) \/ (\E i \in Instances : ExecutorCrash(i)) \/ UNCHANGED vars
  BY <1>5, OutsideAnswer
<1>6. CASE Restart
  BY <1>6, RestartAnswer
<1> QED BY <1>1, <1>2, <1>3, <1>4, <1>5, <1>6 DEF Next

LEMMA InitAnswer == Init => AnswerInv
<1> SUFFICES ASSUME Init PROVE AnswerInv
  OBVIOUS
<1>1. \A p \in Procs : pc[p] \in {"unborn", "idle"}
  BY DEF Init
<1> QED BY <1>1, ProcNames DEF AnswerInv, AnswersCurrent, Answering, GoalOwner, Unanswered, FencedOK

\* Nobody admits, settles or parks an attempt between its fence and Enqueue:
\* the execution dispatchExecution is about to send stays Dispatching unless it
\* was taken back by a reaper or cancelled.
THEOREM SendSafety == Spec => []NothingBeforeSend
<1>1. AnswerInv => NothingBeforeSend
  BY DEF AnswerInv, FencedOK, NothingBeforeSend
<1>2. Spec => []AnswerInv
  BY InitAnswer, NextAnswer, TypeCorrect, SettleCorrect, LifeCorrect, PTL DEF Spec
<1> QED BY <1>1, <1>2, PTL

-----------------------------------------------------------------------------
(* The attempt history.                                                      *)
(*                                                                          *)
(* An attempt recorded as InfraFailed was refused or never delivered, so     *)
(* nobody runs it and nobody will: it is dead.  Its being dead is stable,    *)
(* because a request is on the wire at most once and is sent only once.      *)

\* a is on its way to an executor.
Carried(a) == \E c \in Conns : \E n \in 1 .. Len(toExecutor[c]) : toExecutor[c][n] = a

\* a was not run and never will be.
Dead(a) ==
    /\ work[a] = "none" /\ ~Carried(a)
    /\ pc["dispatcher"] \in {"fence", "send"} => att["dispatcher"] # a

DeadAttempt(a) == Belongs(a) /\ Dead(a)

Refusals == {"reject", "incompatible"}

HistoryInv ==
    /\ \A a \in Attempts : attempts[a].state = "InfraFailed" => DeadAttempt(a)
    /\ \A a \in Attempts : attempts[a].state = "FunctionFailed" => work[a] \in Errors
    /\ \A m : Told(m) /\ m.type \in Refusals => DeadAttempt(m.att)
    /\ \A c \in Conns : pc[c] = "rejectMark" => DeadAttempt(att[c])
    /\ pc["dispatcher"] = "sendFailed" => DeadAttempt(att["dispatcher"])

\* An executor takes the first request of its connection.
LEMMA TakeRequest ==
    ASSUME TypeInv, SettleInv, NEW c \in Conns, HandleExecRequest(c)
    PROVE  /\ Head(toExecutor[c]) \in Issued /\ Carried(Head(toExecutor[c]))
           /\ work[Head(toExecutor[c])] = "none"
           /\ \A a : Carried(a)' => Carried(a) /\ a # Head(toExecutor[c])
<1> DEFINE s == toExecutor[c]
<1>1. s \in Seq(Issued) /\ s # <<>> /\ toExecutor' = [toExecutor EXCEPT ![c] = Tail(@)]
  BY DEF HandleExecRequest, TypeInv, WireOK
<1>2. Len(s) \in Nat /\ Len(s) # 0
  BY <1>1, EmptySeq, LenProperties
<1>3. /\ Head(s) = s[1] /\ 1 \in 1 .. Len(s) /\ Len(Tail(s)) = Len(s) - 1 /\ s[1] \in Issued
      /\ \A n \in 1 .. Len(Tail(s)) : Tail(s)[n] = s[n + 1]
  BY <1>1, <1>2, HeadTailProperties, ElementOfSeq
<1>4. toExecutor'[c] = Tail(s) /\ \A e \in Conns \ {c} : toExecutor'[e] = toExecutor[e]
  BY <1>1 DEF TypeInv, TypeOK, WireType
<1>5. \A n \in 1 .. Len(toExecutor'[c]) : n + 1 \in 2 .. Len(s) /\ toExecutor'[c][n] = s[n + 1]
  BY <1>2, <1>3, <1>4
<1>6. /\ \A n \in 1 .. Len(s) : work[s[n]] = "none"
      /\ \A e \in Conns : \A n \in 1 .. Len(s), m \in 1 .. Len(toExecutor[e]) :
            s[n] = toExecutor[e][m] => e = c /\ n = m
  BY DEF SettleInv, QueueOK
<1> HIDE DEF s
<1>7. ASSUME NEW a, Carried(a)' PROVE Carried(a) /\ a # Head(s)
  <2>1. PICK e \in Conns : \E n \in 1 .. Len(toExecutor'[e]) : toExecutor'[e][n] = a
    BY <1>7 DEF Carried
  <2>2. PICK n \in 1 .. Len(toExecutor'[e]) : toExecutor'[e][n] = a
    BY <2>1
  <2>3. CASE e = c
    <3>1. n + 1 \in 2 .. Len(s) /\ s[n + 1] = a
      BY <1>5, <2>2, <2>3
    <3>2. n + 1 \in 1 .. Len(s) /\ n + 1 # 1
      BY <3>1
    <3>3. Carried(a)
      BY <3>1, <3>2 DEF Carried, s
    <3>4. s[n + 1] # s[1]
      <4>1. s = toExecutor[c]
        BY DEF s
      <4> QED BY <1>3, <1>6, <3>2, <4>1
    <3> QED BY <1>3, <3>1, <3>3, <3>4
  <2>4. CASE e # c
    <3>1. n \in 1 .. Len(toExecutor[e]) /\ toExecutor[e][n] = a
      BY <1>4, <2>2, <2>4
    <3> QED BY <1>3, <1>6, <2>4, <3>1 DEF Carried
  <2> QED BY <2>3, <2>4
<1>8. Carried(Head(s))
  BY <1>3 DEF Carried, s
<1> QED BY <1>3, <1>6, <1>7, <1>8 DEF s

\* What a step does to the requests: the timing loop may send one, everybody
\* else only takes them off the wire.
LEMMA NextCarried ==
    ASSUME TypeInv, SettleInv, [Next]_vars, NEW a, Carried(a)'
    PROVE  Carried(a) \/ (pc["dispatcher"] = "send" /\ a = att["dispatcher"])
<1>1. CASE UNCHANGED toExecutor
  BY <1>1 DEF Carried
<1>2. CASE Send
  <2> DEFINE s == toExecutor[entry]  x == att["dispatcher"]
  <2>1. CASE UNCHANGED toExecutor
    BY <2>1 DEF Carried
  <2>2. CASE entry \in up /\ toExecutor' = [toExecutor EXCEPT ![entry] = Append(@, x)]
    <3>1. entry \in Conns /\ s \in Seq(Attempts \cup {x})
      <4>1. entry \in Conns /\ s \in Seq(Attempts)
        BY <2>2 DEF TypeInv, TypeOK, WireType
      <4> QED BY <4>1, SeqMonotonic
    <3>2. toExecutor'[entry] = Append(s, x) /\ \A e \in Conns \ {entry} : toExecutor'[e] = toExecutor[e]
      BY <2>2, <3>1 DEF TypeInv, TypeOK, WireType
    <3>3. /\ Len(s) \in Nat /\ Len(Append(s, x)) = Len(s) + 1
          /\ \A n \in 1 .. Len(s) : Append(s, x)[n] = s[n]
          /\ Append(s, x)[Len(s) + 1] = x
      BY <3>1, AppendProperties, LenProperties
    <3>4. \A n \in 1 .. Len(toExecutor'[entry]) :
             toExecutor'[entry][n] = x \/ (n \in 1 .. Len(s) /\ toExecutor'[entry][n] = s[n])
      BY <3>2, <3>3
    <3>5. PICK e \in Conns : \E n \in 1 .. Len(toExecutor'[e]) : toExecutor'[e][n] = a
      BY DEF Carried
    <3>6. CASE e = entry
      <4>1. Carried(a) \/ a = x
        BY <3>4, <3>5, <3>6 DEF Carried
      <4> QED BY <1>2, <4>1 DEF Send
    <3>7. CASE e # entry
      BY <3>2, <3>5, <3>7 DEF Carried
    <3> QED BY <3>6, <3>7
  <2> QED BY <1>2, <2>1, <2>2 DEF Send
<1>3. ASSUME NEW c \in Conns, HandleExecRequest(c) PROVE Carried(a)
  BY <1>3, TakeRequest
<1>4. CASE (\E c \in Conns : Drop(c)) \/ (\E i \in Instances : ExecutorCrash(i)) \/ Restart
  <2>1. \A c \in Conns : toExecutor'[c] = toExecutor[c] \/ toExecutor'[c] = <<>>
    BY <1>4 DEF Drop, ExecutorCrash, Restart, TypeInv, TypeOK, WireType
  <2>2. Len(<<>>) = 0
    BY EmptySeq
  <2> QED BY <2>1, <2>2 DEF Carried
<1>5. CASE DispatcherStep /\ ~Send
  BY <1>1, <1>5 DEF DispatcherStep, DueScan, Consider, Claim, CreateAttempt, Fence, SendFailed, Materialize, wireVars
<1>6. CASE (\E p \in Procs : CallStep(p)) \/ ReaperStep
  BY <1>1, <1>6 DEF CallStep, Transition, Requeue, Abandon, AbandonNext, RewaitNext, ReaperStep, WaitingScan, ReapScan,
     wireVars
<1>7. CASE \E c \in Conns : ReaderStep(c)
  BY <1>1, <1>7 DEF ReaderStep, Reconsider, HandleExecAccept, AcceptRun, AcceptMark, HandleExecReject, RejectMark,
     HandleExecResult, Succeed, SucceedMark, FailMark, Deregister, DisconnectList, DisconnectNext, wireVars
<1>8. CASE HeartbeatNext \/ AdminStep \/ Connect \/ (\E i \in Instances : HandleHeartbeat(i))
           \/ (\E b \in Attempts : RunExecution(b)) \/ UNCHANGED vars
  BY <1>1, <1>8 DEF HeartbeatNext, HandleHeartbeat, AdminStep, HandleJobUpsert, CancelReplaced, HandleJobDelete,
     CancelNext, DeleteJob, Connect, Register, RunExecution, vars, wireVars
<1> QED BY <1>2, <1>3, <1>4, <1>5, <1>6, <1>7, <1>8 DEF Next, ExecutorStep

\* Who touches the answers on the wire, and the work of the executors.
LEMMA WireMoves ==
    ASSUME [Next]_vars
    PROVE  \/ UNCHANGED <<toEngine, work>>
           \/ \E c \in Conns : ReaderStep(c) /\ UNCHANGED work /\ \E types : Receive(c, types)
           \/ (\E c \in Conns : HandleExecRequest(c)) \/ (\E a \in Attempts : RunExecution(a))
           \/ (\E c \in Conns : Drop(c)) \/ (\E i \in Instances : ExecutorCrash(i)) \/ Restart
<1>1. CASE DispatcherStep \/ (\E p \in Procs : CallStep(p)) \/ ReaperStep
  BY <1>1 DEF DispatcherStep, DueScan, Consider, Claim, CreateAttempt, Fence, Send, SendFailed, Materialize,
     CallStep, Transition, Requeue, Abandon, AbandonNext, RewaitNext, ReaperStep, WaitingScan, ReapScan, wireVars
<1>2. ASSUME NEW c \in Conns, ReaderStep(c)
      PROVE  UNCHANGED <<toEngine, work>> \/ (UNCHANGED work /\ \E types : Receive(c, types))
  BY <1>2 DEF ReaderStep, Reconsider, HandleExecAccept, AcceptRun, AcceptMark, HandleExecReject, RejectMark,
     HandleExecResult, Succeed, SucceedMark, FailMark, Deregister, DisconnectList, DisconnectNext, wireVars
<1>3. CASE HeartbeatNext \/ AdminStep \/ Connect \/ (\E i \in Instances : HandleHeartbeat(i)) \/ UNCHANGED vars
  BY <1>3 DEF HeartbeatNext, HandleHeartbeat, AdminStep, HandleJobUpsert, CancelReplaced, HandleJobDelete,
     CancelNext, DeleteJob, Connect, Register, vars, wireVars
<1> QED BY <1>1, <1>2, <1>3 DEF Next, ExecutorStep

\* Which attempts are at an executor that may run them.
LEMMA NextWork ==
    ASSUME TypeInv, SettleInv, [Next]_vars, NEW a \in Attempts
    PROVE  /\ work[a] # "none" => work'[a] # "none"
           /\ work[a] = "none" /\ work'[a] # "none" => Carried(a)
<1>1. ASSUME NEW c \in Conns, HandleExecRequest(c)
      PROVE  work'[a] = work[a] \/ (Carried(a) /\ work'[a] = "running" /\ work[a] = "none")
  BY <1>1, TakeRequest DEF HandleExecRequest, TypeInv, TypeOK, WireType
<1>2. ASSUME NEW b \in Attempts, RunExecution(b) PROVE work'[a] = work[a] \/ (work[a] # "none" /\ work'[a] # "none")
  BY <1>2 DEF RunExecution, TypeInv, TypeOK, WireType
<1>3. ASSUME NEW i \in Instances, ExecutorCrash(i) PROVE work'[a] = work[a] \/ (work[a] # "none" /\ work'[a] # "none")
  BY <1>3 DEF ExecutorCrash, RunningOn
<1>4. (\E c \in Conns : Drop(c)) \/ Restart => UNCHANGED work
  BY DEF Drop, Restart
<1> QED BY <1>1, <1>2, <1>3, <1>4, WireMoves

\* A step leaves the timing loop alone, or is one of its own.
LEMMA NextTiming ==
    ASSUME TypeInv, [Next]_vars
    PROVE  \/ DispatcherStep \/ CallStep("dispatcher")
           \/ pc'["dispatcher"] = pc["dispatcher"] /\ att'["dispatcher"] = att["dispatcher"]
           \/ pc'["dispatcher"] \in {"idle", "recover"}
<1> DEFINE d == "dispatcher"
<1>1. ASSUME NEW p \in Procs \ {d}, Only(p) PROVE pc'[d] = pc[d] /\ att'[d] = att[d]
  BY <1>1, ProcNames DEF Only
<1>2. CASE ReaperStep \/ (\E p \in Procs \ {d} : CallStep(p)) \/ (\E c \in Conns : ReaderStep(c))
  BY <1>1, <1>2, ProcNames, ReaperAlone, CallAlone, ReaderAlone
<1>3. CASE HeartbeatNext \/ AdminStep \/ Connect \/ \E i \in Instances : HandleHeartbeat(i)
  BY <1>1, <1>3, ProcNames, PumpAlone, AdminAlone, RegisterAlone DEF Connect
<1>4. CASE ExecutorStep \/ (\E c \in Conns : Drop(c)) \/ (\E i \in Instances : ExecutorCrash(i)) \/ UNCHANGED vars
  BY <1>4, OutsideAlone
<1>5. CASE Restart
  BY <1>5, ProcNames DEF Restart
<1> QED BY <1>2, <1>3, <1>4, <1>5 DEF Next

\* A step leaves the handler of a connection alone, or is one of its own, or
\* has it act on no message.
LEMMA NextHandler ==
    ASSUME TypeInv, [Next]_vars, NEW c \in Conns
    PROVE  \/ ReaderStep(c)
           \/ pc'[c] = pc[c] /\ att'[c] = att[c] /\ exec'[c] = exec[c]
           \/ pc'[c] \notin {"acceptRun", "rejectMark"}
<1> DEFINE Same == pc'[c] = pc[c] /\ att'[c] = att[c] /\ exec'[c] = exec[c]
<1>0. c \in Procs
  BY ProcNames
<1>1. ASSUME NEW p \in Procs \ {c}, Only(p) PROVE Same
  BY <1>0, <1>1 DEF Only
<1>2. CASE DispatcherStep \/ ReaperStep \/ HeartbeatNext \/ AdminStep \/ \E i \in Instances : HandleHeartbeat(i)
  BY <1>1, <1>2, ProcNames, DispatcherAlone, ReaperAlone, PumpAlone, AdminAlone
<1>3. ASSUME NEW p \in Procs \ {c}, CallStep(p) PROVE Same
  BY <1>1, <1>3, CallAlone
<1>4. ASSUME CallStep(c) PROVE pc'[c] \notin {"acceptRun", "rejectMark"}
  <2>1. ASSUME NEW label, Goto(c, label) PROVE label = pc'[c]
    BY <1>0, <2>1 DEF Goto, TypeInv, TypeOK, ControlType
  <2>2. Finish(c) \/ (\E S, T : Return(c, S, T)) => pc'[c] \notin {"acceptRun", "rejectMark"}
    BY <1>0, ReturnLabels DEF LoopLabels
  <2> QED BY <1>4, <2>1, <2>2 DEF CallStep, Transition, Requeue, Abandon, AbandonNext, RewaitNext
<1>5. ASSUME NEW b \in Conns \ {c}, ReaderStep(b) PROVE Same
  BY <1>1, <1>5, ProcNames, ReaderAlone
<1>6. ASSUME NEW i \in Instances, NEW b \in Conns, Register(i, b) PROVE Same \/ pc'[c] = "reconsider"
  <2>1. CASE b = c
    BY <1>0, <1>6, <2>1 DEF Register, Goto, TypeInv, TypeOK, ControlType
  <2>2. CASE b # c
    BY <1>1, <1>6, <2>2, ProcNames, RegisterAlone
  <2> QED BY <2>1, <2>2
<1>7. CASE ExecutorStep \/ (\E b \in Conns : Drop(b)) \/ (\E i \in Instances : ExecutorCrash(i)) \/ UNCHANGED vars
  BY <1>7, OutsideAlone
<1>8. CASE Restart
  BY <1>0, <1>8 DEF Restart
<1> HIDE DEF Same
<1>9. ReaderStep(c) \/ Same \/ pc'[c] \notin {"acceptRun", "rejectMark"}
  BY <1>2, <1>3, <1>4, <1>5, <1>6, <1>7, <1>8 DEF Next, Connect, Same
<1> QED BY <1>9 DEF Same

\* What a step may make the timing loop about to send: what it was about to
\* send, or an attempt no execution had.
LEMMA NextSending ==
    ASSUME TypeInv, SettleInv, [Next]_vars, pc'["dispatcher"] \in {"fence", "send"}
    PROVE  \/ pc["dispatcher"] \in {"fence", "send"} /\ att'["dispatcher"] = att["dispatcher"]
           \/ ~Belongs(att'["dispatcher"])
  BY NextTiming, DispatcherSends

\* The dead stay dead.
LEMMA NextDead ==
    ASSUME TypeInv, SettleInv, [Next]_vars, NEW a, DeadAttempt(a) PROVE DeadAttempt(a)'
<1>1. Belongs(a) /\ Stays
  BY NextStays DEF DeadAttempt
<1>2. Belongs(a)'
  BY <1>1 DEF Belongs, Stays
<1>3. work'[a] = "none"
  BY <1>1, NextWork DEF DeadAttempt, Dead, Belongs
<1>4. ~Carried(a)'
  BY NextCarried DEF DeadAttempt, Dead
<1>5. pc'["dispatcher"] \in {"fence", "send"} => att'["dispatcher"] # a
  BY <1>1, NextSending DEF DeadAttempt, Dead
<1> QED BY <1>2, <1>3, <1>4, <1>5 DEF DeadAttempt, Dead

\* Who records an attempt as failed, and on whose word.
LEMMA NextFailed ==
    ASSUME TypeInv, [Next]_vars, NEW a \in Attempts
    PROVE  /\ attempts'[a].state = "InfraFailed" =>
                 \/ attempts[a].state = "InfraFailed"
                 \/ pc["dispatcher"] = "sendFailed" /\ a = att["dispatcher"]
                 \/ \E c \in Conns : pc[c] = "rejectMark" /\ a = att[c]
           /\ attempts'[a].state = "FunctionFailed" =>
                 \/ attempts[a].state = "FunctionFailed"
                 \/ \E c \in Conns : pc[c] = "failMark" /\ a = att[c]
<1> DEFINE Kept == attempts'[a].state \in {"InfraFailed", "FunctionFailed"} => attempts'[a].state = attempts[a].state
<1>1. ASSUME NEW b, NEW from, NEW to, UpdateAttemptState(b, from, to)
      PROVE  attempts'[a].state = attempts[a].state \/ (a = b /\ attempts'[a].state = to)
  BY <1>1 DEF UpdateAttemptState, TypeInv, TypeOK, StoreType, AttemptRecords
<1>2. CASE UNCHANGED attempts
  BY <1>2
<1>3. CASE CreateAttempt
  BY <1>3 DEF CreateAttempt, TypeInv, TypeOK, StoreType
<1>4. CASE SendFailed
  BY <1>1, <1>4 DEF SendFailed
<1>5. CASE DispatcherStep /\ ~CreateAttempt /\ ~SendFailed
  BY <1>2, <1>5 DEF DispatcherStep, DueScan, Consider, Claim, Fence, Send, Materialize, storeVars
<1>6. ASSUME NEW p \in Procs, CallStep(p) PROVE Kept
  <2>1. CASE Abandon(p)
    BY <1>1, <2>1 DEF Abandon
  <2>2. CASE ~Abandon(p)
    BY <1>2, <1>6, <2>2 DEF CallStep, Transition, Requeue, AbandonNext, RewaitNext, storeVars
  <2> QED BY <2>1, <2>2
<1>7. ASSUME NEW c \in Conns, AcceptMark(c) \/ SucceedMark(c) PROVE Kept
  BY <1>1, <1>7 DEF AcceptMark, SucceedMark
<1>8. ASSUME NEW c \in Conns, RejectMark(c) \/ FailMark(c)
      PROVE  \/ attempts'[a].state = attempts[a].state
             \/ pc[c] = "rejectMark" /\ a = att[c] /\ attempts'[a].state = "InfraFailed"
             \/ pc[c] = "failMark" /\ a = att[c] /\ attempts'[a].state = "FunctionFailed"
  BY <1>1, <1>8 DEF RejectMark, FailMark
<1>9. ASSUME NEW c \in Conns, ReaderStep(c), ~AcceptMark(c), ~SucceedMark(c), ~RejectMark(c), ~FailMark(c)
      PROVE  UNCHANGED attempts
  BY <1>9 DEF ReaderStep, Reconsider, HandleExecAccept, AcceptRun, HandleExecReject, HandleExecResult, Succeed,
     Deregister, DisconnectList, DisconnectNext, storeVars
<1>10. CASE \/ ReaperStep \/ HeartbeatNext \/ AdminStep \/ (\E i \in Instances : HandleHeartbeat(i)) \/ Connect \/ Restart
            \/ ExecutorStep \/ (\E c \in Conns : Drop(c)) \/ (\E i \in Instances : ExecutorCrash(i)) \/ UNCHANGED vars
  <2>1. CASE ExecutorStep \/ (\E c \in Conns : Drop(c)) \/ (\E i \in Instances : ExecutorCrash(i)) \/ UNCHANGED vars
    BY <1>2, <2>1, OutsideAlone DEF storeVars
  <2>2. CASE ReaperStep \/ HeartbeatNext \/ AdminStep \/ (\E i \in Instances : HandleHeartbeat(i)) \/ Connect \/ Restart
    BY <1>2, <2>2 DEF ReaperStep, WaitingScan, ReapScan, HeartbeatNext, HandleHeartbeat, AdminStep, HandleJobUpsert,
       CancelReplaced, HandleJobDelete, CancelNext, DeleteJob, Connect, Register, Restart, storeVars
  <2> QED BY <1>10, <2>1, <2>2
<1> QED BY <1>2, <1>3, <1>4, <1>5, <1>6, <1>7, <1>8, <1>9, <1>10 DEF Next

\* What is told anew: the answer to the request just taken off the wire, or the
\* result of a run.
LEMMA NextTold ==
    ASSUME TypeInv, [Next]_vars, NEW m, Told(m)'
    PROVE  \/ Told(m)
           \/ \E c \in Conns : HandleExecRequest(c) /\ m.att = Head(toExecutor[c])
           \/ m.type \in Results
<1>1. ASSUME UNCHANGED toEngine PROVE Told(m)
  BY <1>1 DEF Told
<1>2. ASSUME NEW c \in Conns, HandleExecRequest(c), ~Told(m) PROVE m.att = Head(toExecutor[c])
  <2>0. UNCHANGED toEngine \/ \E t : Sink(c, [type |-> t, att |-> Head(toExecutor[c])])
    BY <1>2 DEF HandleExecRequest
  <2>1. PICK t : Sink(c, [type |-> t, att |-> Head(toExecutor[c])])
    BY <1>1, <1>2, <2>0
  <2>2. m = [type |-> t, att |-> Head(toExecutor[c])]
    BY <1>2, <2>1, SinkTold
  <2> QED BY <2>2
<1>3. ASSUME NEW a \in Attempts, RunExecution(a), ~Told(m) PROVE m.type \in Results
  <2>0. UNCHANGED toEngine \/ \E t \in Results : \E c \in up : Sink(c, [type |-> t, att |-> a])
    BY <1>3 DEF RunExecution, Results
  <2>1. PICK t \in Results : \E c \in up : Sink(c, [type |-> t, att |-> a])
    BY <1>1, <1>3, <2>0
  <2>2. PICK c \in Conns : Sink(c, [type |-> t, att |-> a])
    BY <2>1 DEF TypeInv, TypeOK, WireType
  <2>3. m = [type |-> t, att |-> a]
    BY <1>3, <2>2, SinkTold
  <2> QED BY <2>1, <2>3
<1>4. ASSUME (\E c \in Conns : Drop(c)) \/ (\E i \in Instances : ExecutorCrash(i)) \/ Restart PROVE Told(m)
  <2>1. \A c \in Conns : toEngine'[c] = toEngine[c] \/ toEngine'[c] = <<>>
    BY <1>4 DEF Drop, ExecutorCrash, Restart, TypeInv, TypeOK, WireType
  <2> QED BY <2>1, LossTold
<1>5. ASSUME NEW c \in Conns, NEW types, Receive(c, types) PROVE Told(m)
  BY <1>5, ReceiveTold
<1> QED BY <1>1, <1>2, <1>3, <1>4, <1>5, WireMoves

\* A reader starts to act on a refusal only when it takes one off the wire.
LEMMA ReaderRefuses ==
    ASSUME TypeInv, NEW c \in Conns, ReaderStep(c), pc'[c] = "rejectMark"
    PROVE  \E m : Told(m) /\ m.type \in Refusals /\ att'[c] = m.att
<1>0. c \in Procs
  BY ProcNames
<1>1. ASSUME NEW label, Goto(c, label) PROVE label = "rejectMark"
  BY <1>0, <1>1 DEF Goto, TypeInv, TypeOK, ControlType
<1>2. ~Finish(c) /\ ~(\E S, T : Return(c, S, T))
  BY <1>0, ReturnLabels DEF LoopLabels
<1>3. \A label \in LoopLabels : \A list : ~Enter(c, label, list)
  BY <1>0, EnterOK DEF LoopLabels
<1>4. CASE HandleExecReject(c)
  <2> DEFINE m == Head(toEngine[c])
  <2>1. Receive(c, Refusals)
    BY <1>4 DEF HandleExecReject, Refusals
  <2>2. Told(m) /\ m.type \in Refusals
    BY <2>1, ReceiveTold DEF Receive
  <2>3. pc[c] # "rejectMark"
    BY <2>1 DEF Receive
  <2>4. \E s, g : Hold(c, s, m.att, g)
    BY <1>4, <2>3 DEF HandleExecReject
  <2>5. att'[c] = m.att
    BY <1>0, <2>4 DEF Hold, TypeInv, TypeOK, ControlType
  <2> QED BY <2>2, <2>5
<1>5. ~Reconsider(c) /\ ~DisconnectList(c)
  BY <1>3 DEF Reconsider, DisconnectList, LoopLabels
<1>6. ~HandleExecAccept(c) /\ ~HandleExecResult(c)
  BY <1>1 DEF HandleExecAccept, HandleExecResult, Receive
<1>7. ~AcceptRun(c) /\ ~AcceptMark(c) /\ ~RejectMark(c) /\ ~Succeed(c) /\ ~SucceedMark(c) /\ ~FailMark(c)
  BY <1>1, <1>2 DEF AcceptRun, AcceptMark, RejectMark, Succeed, SucceedMark, FailMark
<1>8. ~Deregister(c) /\ ~DisconnectNext(c)
  BY <1>1, <1>2 DEF Deregister, DisconnectNext, NextOpen
<1> QED BY <1>4, <1>5, <1>6, <1>7, <1>8 DEF ReaderStep

\* Only Enqueue fails a delivery.
LEMMA DispatcherFails ==
    ASSUME TypeInv, DispatcherStep \/ CallStep("dispatcher"), pc'["dispatcher"] = "sendFailed"
    PROVE  pc["dispatcher"] = "send" /\ att'["dispatcher"] = att["dispatcher"] /\ UNCHANGED <<toExecutor, work, attempts>>
<1> DEFINE d == "dispatcher"
<1>0. d \in Procs
  BY ProcNames
<1>1. ASSUME NEW label, Goto(d, label) PROVE label = "sendFailed"
  BY <1>0, <1>1 DEF Goto, TypeInv, TypeOK, ControlType
<1>2. ~Finish(d) /\ ~(\E S, T : Return(d, S, T))
  BY <1>0, ReturnLabels DEF LoopLabels
<1>3. ~DueScan
  <2>1. "due" \in LoopLabels
    BY DEF LoopLabels
  <2> QED BY <1>0, <2>1, EnterOK DEF LoopLabels, DueScan
<1>4. ~Consider
  BY <1>1 DEF Consider, Park
<1>5. ~Claim /\ ~CreateAttempt /\ ~Fence /\ ~SendFailed /\ ~Materialize
  BY <1>1, <1>2 DEF Claim, CreateAttempt, Fence, SendFailed, Materialize
<1>6. ~CallStep(d)
  BY <1>1, <1>2 DEF CallStep, Transition, Requeue, Abandon, AbandonNext, RewaitNext
<1>7. CASE Send
  BY <1>1, <1>7 DEF Send, localVars, storeVars
<1> QED BY <1>3, <1>4, <1>5, <1>6, <1>7 DEF DispatcherStep

\* Who acts on a refusal, or on a failed delivery, after a step.
LEMMA NextRefusing ==
    ASSUME TypeInv, [Next]_vars
    PROVE  /\ \A c \in Conns : pc'[c] = "rejectMark" =>
                 \/ pc[c] = "rejectMark" /\ att'[c] = att[c]
                 \/ \E m : Told(m) /\ m.type \in Refusals /\ att'[c] = m.att
           /\ pc'["dispatcher"] = "sendFailed" =>
                 \/ pc["dispatcher"] = "sendFailed" /\ att'["dispatcher"] = att["dispatcher"]
                 \/ /\ pc["dispatcher"] = "send" /\ att'["dispatcher"] = att["dispatcher"]
                    /\ UNCHANGED <<toExecutor, work, attempts>>
<1>1. ASSUME NEW c \in Conns, pc'[c] = "rejectMark"
      PROVE  \/ pc[c] = "rejectMark" /\ att'[c] = att[c]
             \/ \E m : Told(m) /\ m.type \in Refusals /\ att'[c] = m.att
  BY <1>1, NextHandler, ReaderRefuses
<1>2. ASSUME pc'["dispatcher"] = "sendFailed"
      PROVE  \/ pc["dispatcher"] = "sendFailed" /\ att'["dispatcher"] = att["dispatcher"]
             \/ /\ pc["dispatcher"] = "send" /\ att'["dispatcher"] = att["dispatcher"]
                /\ UNCHANGED <<toExecutor, work, attempts>>
  BY <1>2, NextTiming, DispatcherFails
<1> QED BY <1>1, <1>2

\* The history is only ever written on the word of a handler, and that on the
\* word of an executor.
LEMMA NextHistory == TypeInv /\ SettleInv /\ HistoryInv /\ [Next]_vars => HistoryInv'
<1> SUFFICES ASSUME TypeInv, SettleInv, HistoryInv, [Next]_vars PROVE HistoryInv'
  OBVIOUS
<1>1. \A a : DeadAttempt(a) => DeadAttempt(a)'
  BY NextDead
<1>2. \A a \in Attempts : (attempts[a].state = "InfraFailed")' => DeadAttempt(a)'
  BY <1>1, NextFailed DEF HistoryInv
<1>3. \A a \in Attempts : work[a] \in Errors => work'[a] \in Errors
  <2>1. CASE \E b \in Attempts : RunExecution(b)
    BY <2>1 DEF RunExecution, Errors, TypeInv, TypeOK, WireType
  <2>2. CASE ~\E b \in Attempts : RunExecution(b)
    BY <2>2, NextOutcomes DEF SameOutcomes, Errors, Results
  <2> QED BY <2>1, <2>2
<1>4. \A a \in Attempts : (attempts[a].state = "FunctionFailed")' => work'[a] \in Errors
  <2>1. \A c \in Conns : pc[c] = "failMark" => work[att[c]] \in Errors
    BY ProcNames DEF SettleInv, SettleLocal
  <2> QED BY <1>3, <2>1, NextFailed DEF HistoryInv
<1>5. ASSUME NEW m, Told(m)', m.type \in Refusals PROVE DeadAttempt(m.att)'
  <2>1. CASE Told(m)
    BY <1>1, <1>5, <2>1 DEF HistoryInv
  <2>2. ASSUME NEW c \in Conns, HandleExecRequest(c), m.att = Head(toExecutor[c]), ~Told(m) PROVE DeadAttempt(m.att)'
    <3>1. Belongs(m.att) /\ UNCHANGED <<pc, att, attempts>>
      <4>1. m.att \in Issued
        BY <2>2, TakeRequest
      <4> QED BY <2>2, <4>1, OutsideAlone DEF Belongs, Issued, Existing, ExecutorStep, storeVars
    <3>2. work[m.att] = "none" /\ ~Carried(m.att)'
      BY <2>2, TakeRequest
    <3>3. pc["dispatcher"] \in {"fence", "send"} => att["dispatcher"] # m.att
      BY <2>2, TakeRequest DEF SettleInv, UnsentOK, Unsent, Carried
    <3>4. work'[m.att] = "none"
      <4>1. ASSUME Sink(c, [type |-> "accept", att |-> Head(toExecutor[c])]) PROVE FALSE
        <5>1. m = [type |-> "accept", att |-> Head(toExecutor[c])]
          BY <1>5, <2>2, <4>1, SinkTold
        <5> QED BY <1>5, <5>1 DEF Refusals
      <4>2. UNCHANGED work
        BY <2>2, <4>1 DEF HandleExecRequest
      <4> QED BY <3>2, <4>2
    <3> QED BY <3>1, <3>2, <3>3, <3>4 DEF DeadAttempt, Dead, Belongs
  <2>3. m.type \notin Results
    BY <1>5 DEF Refusals, Results
  <2> QED BY <1>5, <2>1, <2>2, <2>3, NextTold
<1>6. ASSUME NEW c \in Conns, (pc[c] = "rejectMark")' PROVE DeadAttempt(att[c])'
  <2>1. PICK a : a = att'[c] /\ DeadAttempt(a)
    BY <1>6, NextRefusing DEF HistoryInv
  <2>2. DeadAttempt(a)'
    BY <1>1, <2>1
  <2> QED BY <2>1, <2>2
<1>7. (pc["dispatcher"] = "sendFailed")' => DeadAttempt(att["dispatcher"])'
  <2>1. ASSUME pc["dispatcher"] = "send", pc'["dispatcher"] = "sendFailed", att'["dispatcher"] = att["dispatcher"],
               UNCHANGED <<toExecutor, work, attempts>>
        PROVE  DeadAttempt(att["dispatcher"])'
    <3>1. Belongs(att["dispatcher"]) /\ Unsent(att["dispatcher"])
      BY <2>1, ProcNames DEF TypeInv, LocalOK, AttemptLabels, Issued, Existing, Belongs, SettleInv, UnsentOK
    <3> QED BY <2>1, <3>1 DEF DeadAttempt, Dead, Belongs, Unsent, Carried
  <2>2. ASSUME pc["dispatcher"] = "sendFailed", att'["dispatcher"] = att["dispatcher"]
        PROVE  DeadAttempt(att["dispatcher"])'
    <3>1. PICK a : a = att'["dispatcher"] /\ DeadAttempt(a)
      BY <2>2 DEF HistoryInv
    <3>2. DeadAttempt(a)'
      BY <1>1, <3>1
    <3> QED BY <3>1, <3>2
  <2> QED BY <2>1, <2>2, NextRefusing
<1> QED BY <1>2, <1>4, <1>5, <1>6, <1>7 DEF HistoryInv

LEMMA InitHistory == Init => HistoryInv
<1> SUFFICES ASSUME Init PROVE HistoryInv
  OBVIOUS
<1>1. \A c \in Conns : pc[c] \in {"unborn", "idle"} /\ toEngine[c] = <<>>
  BY ProcNames DEF Init
<1>2. \A m : ~Told(m)
  BY <1>1, EmptySeq DEF Told
<1>3. pc["dispatcher"] \in {"unborn", "idle"}
  BY ProcNames DEF Init
<1>4. \A a \in Attempts : attempts[a].state = "Absent"
  BY DEF Init
<1> QED BY <1>1, <1>2, <1>3, <1>4 DEF HistoryInv

\* The attempt a Succeeded execution names ran and returned a value, so it was
\* not recorded as rejected, undelivered or failed: the order in which the
\* handlers write the execution and its attempt never makes the two disagree.
THEOREM HistorySafety == Spec => []HistoryAgrees
<1>1. TypeInv /\ SettleInv /\ HistoryInv => HistoryAgrees
  <2> SUFFICES ASSUME TypeInv, SettleInv, HistoryInv, NEW e \in Executions, executions[e].state = "Succeeded"
               PROVE  attempts[executions[e].cur].state \notin {"InfraFailed", "FunctionFailed"}
    BY DEF HistoryAgrees
  <2>1. executions[e].cur \in Attempts /\ work[executions[e].cur] = "ok"
    BY NotAbsent DEF SettleInv, SettledByCurrentAttempt, TypeInv, TypeOK, StoreType, ExecutionRecords
  <2> QED BY <2>1 DEF HistoryInv, DeadAttempt, Dead, Errors
<1>2. Spec => []HistoryInv
  BY InitHistory, NextHistory, TypeCorrect, SettleCorrect, PTL DEF Spec
<1> QED BY <1>1, <1>2, TypeCorrect, SettleCorrect, PTL

-----------------------------------------------------------------------------
(* The retry budget.                                                         *)
(*                                                                          *)
(* FunctionAttempts is charged when an acceptance is acted on.  It counts    *)
(* real starts because the executor admits an attempt once, so at any time   *)
(* at most one message or one handler stands for its acceptance: the charge  *)
(* uses it up.                                                               *)

Acceptance(a) == [type |-> "accept", att |-> a]

\* The reader of c is about to act on the acceptance of a.
Admitting(c, a) == pc[c] = "acceptRun" /\ att[c] = a

\* The acceptance of a is still to be acted on.
Accepting(a) == Told(Acceptance(a)) \/ \E c \in Conns : Admitting(c, a)

\* An acceptance is on the wire at most once.
ToldOnce ==
    \A a \in Attempts : \A b, c \in Conns : \A m \in 1 .. Len(toEngine[b]), n \in 1 .. Len(toEngine[c]) :
        toEngine[b][m] = Acceptance(a) /\ toEngine[c][n] = Acceptance(a) => b = c /\ m = n

\* Nobody acts on an acceptance that is still on the wire, or that another acts on.
AdmittedOnce ==
    \A a \in Attempts : \A c \in Conns : Admitting(c, a) =>
        ~Told(Acceptance(a)) /\ \A b \in Conns : Admitting(b, a) => b = c

\* What is accepted was started, and for the execution the reader holds.
AcceptedStarted ==
    /\ \A a \in Attempts : Accepting(a) => work[a] # "none"
    /\ \A c \in Conns : pc[c] = "acceptRun" => attempts[att[c]].exec = exec[c].id

\* The started attempts of e whose acceptance was acted on or lost.
Charged(e) == {a \in Attempts : attempts[a].exec = e /\ work[a] # "none" /\ ~Accepting(a)}

BudgetOK == \A e \in Executions : executions[e].fa <= Cardinality(Charged(e))

BudgetInv == ToldOnce /\ AdmittedOnce /\ AcceptedStarted /\ BudgetOK

\* What a step does to the answers on the wire, told by their places: it takes
\* the first of a connection, adds one at the end of a connection, or loses some.
LEMMA NextPlaces ==
    ASSUME TypeInv, SettleInv, [Next]_vars
    PROVE  \/ \A c \in Conns : \A n \in 1 .. Len(toEngine'[c]) :
                 n \in 1 .. Len(toEngine[c]) /\ toEngine'[c][n] = toEngine[c][n]
           \/ \E d \in Conns :
                 /\ ReaderStep(d) /\ UNCHANGED work /\ \E types : Receive(d, types)
                 /\ \A c \in Conns \ {d} : toEngine'[c] = toEngine[c]
                 /\ 1 \in 1 .. Len(toEngine[d]) /\ Head(toEngine[d]) = toEngine[d][1]
                 /\ \A n \in 1 .. Len(toEngine'[d]) :
                       n + 1 \in 1 .. Len(toEngine[d]) /\ toEngine'[d][n] = toEngine[d][n + 1]
           \/ \E d \in Conns : \E x :
                 /\ \A c \in Conns \ {d} : toEngine'[c] = toEngine[c]
                 /\ \A n \in 1 .. Len(toEngine'[d]) :
                       \/ n \in 1 .. Len(toEngine[d]) /\ toEngine'[d][n] = toEngine[d][n]
                       \/ n = Len(toEngine[d]) + 1 /\ toEngine'[d][n] = x
                 /\ \A a \in Attempts : x = Acceptance(a) => work[a] = "none" /\ work'[a] = "running"
<1> DEFINE Lost == \A c \in Conns : \A n \in 1 .. Len(toEngine'[c]) :
                       n \in 1 .. Len(toEngine[c]) /\ toEngine'[c][n] = toEngine[c][n]
           Taken(d) == /\ ReaderStep(d) /\ UNCHANGED work /\ \E types : Receive(d, types)
                       /\ \A c \in Conns \ {d} : toEngine'[c] = toEngine[c]
                       /\ 1 \in 1 .. Len(toEngine[d]) /\ Head(toEngine[d]) = toEngine[d][1]
                       /\ \A n \in 1 .. Len(toEngine'[d]) :
                             n + 1 \in 1 .. Len(toEngine[d]) /\ toEngine'[d][n] = toEngine[d][n + 1]
           Added(d, x) == /\ \A c \in Conns \ {d} : toEngine'[c] = toEngine[c]
                          /\ \A n \in 1 .. Len(toEngine'[d]) :
                                \/ n \in 1 .. Len(toEngine[d]) /\ toEngine'[d][n] = toEngine[d][n]
                                \/ n = Len(toEngine[d]) + 1 /\ toEngine'[d][n] = x
                          /\ \A a \in Attempts : x = Acceptance(a) => work[a] = "none" /\ work'[a] = "running"
<1>1. ASSUME UNCHANGED toEngine PROVE Lost
  BY <1>1
<1>2. ASSUME (\E c \in Conns : Drop(c)) \/ (\E i \in Instances : ExecutorCrash(i)) \/ Restart PROVE Lost
  <2>1. \A c \in Conns : toEngine'[c] = toEngine[c] \/ toEngine'[c] = <<>>
    BY <1>2 DEF Drop, ExecutorCrash, Restart, TypeInv, TypeOK, WireType
  <2> QED BY <2>1, LossTold
<1>3. ASSUME NEW d \in Conns, ReaderStep(d), UNCHANGED work, NEW types, Receive(d, types) PROVE Taken(d)
  BY <1>3, ReceiveTold
<1>4. ASSUME NEW d \in Conns, HandleExecRequest(d) PROVE Lost \/ \E x : Added(d, x)
  <2> DEFINE b == Head(toExecutor[d])
  <2>1. b \in Attempts /\ work[b] = "none"
    BY <1>4, TakeRequest DEF Issued
  <2>2. \/ UNCHANGED toEngine
        \/ \E t \in Refusals : Sink(d, [type |-> t, att |-> b])
        \/ Sink(d, Acceptance(b)) /\ work' = [work EXCEPT ![b] = "running"]
    BY <1>4 DEF HandleExecRequest, Refusals, Acceptance
  <2> HIDE DEF b
  <2>3. ASSUME NEW t \in Refusals, Sink(d, [type |-> t, att |-> b]) PROVE Added(d, [type |-> t, att |-> b])
    <3>1. \A a \in Attempts : [type |-> t, att |-> b] # Acceptance(a)
      BY DEF Acceptance, Refusals
    <3> QED BY <2>3, <3>1, SinkTold
  <2>4. ASSUME Sink(d, Acceptance(b)), work' = [work EXCEPT ![b] = "running"] PROVE Added(d, Acceptance(b))
    <3>1. \A a \in Attempts : Acceptance(b) = Acceptance(a) => work[a] = "none" /\ work'[a] = "running"
      BY <2>1, <2>4 DEF Acceptance, TypeInv, TypeOK, WireType
    <3> QED BY <2>4, <3>1, SinkTold
  <2> HIDE DEF Added, Lost
  <2> QED BY <1>1, <2>2, <2>3, <2>4
<1>5. ASSUME NEW b \in Attempts, RunExecution(b) PROVE Lost \/ \E d \in Conns : \E x : Added(d, x)
  <2>1. UNCHANGED toEngine \/ \E t \in Results : \E d \in up : Sink(d, [type |-> t, att |-> b])
    BY <1>5 DEF RunExecution, Results
  <2>2. ASSUME NEW t \in Results, NEW d \in Conns, Sink(d, [type |-> t, att |-> b])
        PROVE  Added(d, [type |-> t, att |-> b])
    <3>1. \A a \in Attempts : [type |-> t, att |-> b] # Acceptance(a)
      BY DEF Acceptance, Results
    <3> QED BY <2>2, <3>1, SinkTold
  <2>3. up \subseteq Conns
    BY DEF TypeInv, TypeOK, WireType
  <2> HIDE DEF Added, Lost
  <2> QED BY <1>1, <2>1, <2>2, <2>3
<1> HIDE DEF Added, Taken, Lost
<1>6. Lost \/ (\E d \in Conns : Taken(d)) \/ (\E d \in Conns : \E x : Added(d, x))
  BY <1>1, <1>2, <1>3, <1>4, <1>5, WireMoves
<1> QED BY <1>6 DEF Lost, Taken, Added

\* So an acceptance stays unique on the wire.
LEMMA NextToldOnce ==
    ASSUME TypeInv, TypeInv', SettleInv, ToldOnce, AcceptedStarted, [Next]_vars PROVE ToldOnce'
<1> SUFFICES ASSUME NEW a \in Attempts, NEW b \in Conns, NEW c \in Conns,
                    NEW m \in 1 .. Len(toEngine'[b]), NEW n \in 1 .. Len(toEngine'[c]),
                    toEngine'[b][m] = Acceptance(a), toEngine'[c][n] = Acceptance(a)
             PROVE  b = c /\ m = n
  BY DEF ToldOnce, Acceptance
<1>0. m \in Nat /\ n \in Nat
  <2>1. \A e \in Conns : Len(toEngine'[e]) \in Nat
    BY LenProperties DEF TypeInv, TypeOK, WireType
  <2> QED BY <2>1
<1>1. \A e \in Conns : \A k \in 1 .. Len(toEngine[e]) : toEngine[e][k] = Acceptance(a) => work[a] # "none"
  BY DEF AcceptedStarted, Accepting, Told
<1>2. CASE \A e \in Conns : \A k \in 1 .. Len(toEngine'[e]) :
              k \in 1 .. Len(toEngine[e]) /\ toEngine'[e][k] = toEngine[e][k]
  BY <1>2 DEF ToldOnce
<1>3. ASSUME NEW d \in Conns, \A e \in Conns \ {d} : toEngine'[e] = toEngine[e],
             \A k \in 1 .. Len(toEngine'[d]) :
                 k + 1 \in 1 .. Len(toEngine[d]) /\ toEngine'[d][k] = toEngine[d][k + 1]
      PROVE  b = c /\ m = n
  <2>1. PICK k \in 1 .. Len(toEngine[b]) : toEngine[b][k] = Acceptance(a) /\ k = IF b = d THEN m + 1 ELSE m
    BY <1>3
  <2>2. PICK l \in 1 .. Len(toEngine[c]) : toEngine[c][l] = Acceptance(a) /\ l = IF c = d THEN n + 1 ELSE n
    BY <1>3
  <2>3. b = c /\ k = l
    BY <2>1, <2>2 DEF ToldOnce
  <2> QED BY <1>0, <2>1, <2>2, <2>3
<1>4. ASSUME NEW d \in Conns, NEW x, \A e \in Conns \ {d} : toEngine'[e] = toEngine[e],
             \A k \in 1 .. Len(toEngine'[d]) :
                 \/ k \in 1 .. Len(toEngine[d]) /\ toEngine'[d][k] = toEngine[d][k]
                 \/ k = Len(toEngine[d]) + 1 /\ toEngine'[d][k] = x,
             x = Acceptance(a) => work[a] = "none"
      PROVE  b = c /\ m = n
  <2>1. \/ m \in 1 .. Len(toEngine[b]) /\ toEngine[b][m] = Acceptance(a)
        \/ b = d /\ m = Len(toEngine[d]) + 1 /\ x = Acceptance(a)
    BY <1>4
  <2>2. \/ n \in 1 .. Len(toEngine[c]) /\ toEngine[c][n] = Acceptance(a)
        \/ c = d /\ n = Len(toEngine[d]) + 1 /\ x = Acceptance(a)
    BY <1>4
  <2> QED BY <1>1, <1>4, <2>1, <2>2 DEF ToldOnce
<1> QED BY <1>2, <1>3, <1>4, NextPlaces

\* A reader starts to act on an acceptance only when it takes one off the wire.
LEMMA ReaderAdmits ==
    ASSUME TypeInv, NEW c \in Conns, ReaderStep(c), pc'[c] = "acceptRun"
    PROVE  /\ \E types : Receive(c, types)
           /\ att'[c] \in Attempts /\ Head(toEngine[c]) = Acceptance(att'[c])
           /\ attempts'[att'[c]].exec = exec'[c].id
<1>0. c \in Procs
  BY ProcNames
<1>1. ASSUME NEW label, Goto(c, label) PROVE label = "acceptRun"
  BY <1>0, <1>1 DEF Goto, TypeInv, TypeOK, ControlType
<1>2. ~Finish(c) /\ ~(\E S, T : Return(c, S, T))
  BY <1>0, ReturnLabels DEF LoopLabels
<1>3. \A label \in LoopLabels : \A list : ~Enter(c, label, list)
  BY <1>0, EnterOK DEF LoopLabels
<1>4. CASE HandleExecAccept(c)
  <2> DEFINE m == Head(toEngine[c])
  <2>1. Receive(c, {"accept"}) /\ UNCHANGED attempts
    BY <1>4 DEF HandleExecAccept, storeVars
  <2>2. m \in IssuedMessages /\ m.type = "accept"
    <3>1. toEngine[c] \in Seq(IssuedMessages) /\ toEngine[c] # <<>>
      BY <2>1 DEF Receive, TypeInv, WireOK
    <3>2. m \in IssuedMessages
      BY <3>1, HeadTailProperties
    <3> QED BY <2>1, <3>2 DEF Receive
  <2>3. m.att \in Issued /\ m = Acceptance(m.att)
    BY <2>2 DEF IssuedMessages, Messages, Acceptance
  <2>4. pc[c] # "acceptRun"
    BY <2>1 DEF Receive
  <2>5. Hold(c, executions[attempts[m.att].exec], m.att, "None")
    BY <1>4, <2>4 DEF HandleExecAccept
  <2>6. att'[c] = m.att /\ exec'[c] = executions[attempts[m.att].exec]
    BY <1>0, <2>5 DEF Hold, TypeInv, TypeOK, ControlType
  <2>7. executions[attempts[m.att].exec].id = attempts[m.att].exec
    BY <2>3 DEF Issued, Existing, TypeInv, StoreOK
  <2> HIDE DEF m
  <2>8. att'[c] \in Attempts /\ m = Acceptance(att'[c]) /\ attempts'[att'[c]].exec = exec'[c].id
    BY <2>1, <2>3, <2>6, <2>7 DEF Issued
  <2> QED BY <2>1, <2>8 DEF m
<1>5. ~Reconsider(c) /\ ~DisconnectList(c)
  BY <1>3 DEF Reconsider, DisconnectList, LoopLabels
<1>6. ~HandleExecReject(c) /\ ~HandleExecResult(c)
  BY <1>1 DEF HandleExecReject, HandleExecResult, Receive
<1>7. ~AcceptRun(c) /\ ~AcceptMark(c) /\ ~RejectMark(c) /\ ~Succeed(c) /\ ~SucceedMark(c) /\ ~FailMark(c)
  BY <1>1, <1>2 DEF AcceptRun, AcceptMark, RejectMark, Succeed, SucceedMark, FailMark
<1>8. ~Deregister(c) /\ ~DisconnectNext(c)
  BY <1>1, <1>2 DEF Deregister, DisconnectNext, NextOpen
<1> QED BY <1>4, <1>5, <1>6, <1>7, <1>8 DEF ReaderStep

\* Who acts on an acceptance after a step: who did before, or the reader that
\* just took the only message that carried it.
LEMMA NextAdmitting ==
    ASSUME TypeInv, TypeInv', ToldOnce, [Next]_vars, NEW c \in Conns, NEW a \in Attempts, Admitting(c, a)'
    PROVE  \/ Admitting(c, a) /\ exec'[c] = exec[c]
           \/ /\ ReaderStep(c) /\ UNCHANGED work /\ Told(Acceptance(a)) /\ ~Told(Acceptance(a))'
              /\ attempts'[a].exec = exec'[c].id
<1>1. CASE pc'[c] = pc[c] /\ att'[c] = att[c] /\ exec'[c] = exec[c]
  BY <1>1 DEF Admitting
<1>2. CASE ReaderStep(c)
  <2>1. PICK types : Receive(c, types)
    BY <1>2, ReaderAdmits DEF Admitting
  <2>2. Head(toEngine[c]) = Acceptance(a) /\ attempts'[a].exec = exec'[c].id
    BY <1>2, ReaderAdmits DEF Admitting
  <2>3. /\ Told(Acceptance(a)) /\ 1 \in 1 .. Len(toEngine[c]) /\ toEngine[c][1] = Acceptance(a)
        /\ \A e \in Conns \ {c} : toEngine'[e] = toEngine[e]
        /\ \A n \in 1 .. Len(toEngine'[c]) :
              n + 1 \in 1 .. Len(toEngine[c]) /\ toEngine'[c][n] = toEngine[c][n + 1]
    <3>1. /\ Told(Head(toEngine[c])) /\ 1 \in 1 .. Len(toEngine[c]) /\ Head(toEngine[c]) = toEngine[c][1]
          /\ \A e \in Conns \ {c} : toEngine'[e] = toEngine[e]
          /\ \A n \in 1 .. Len(toEngine'[c]) :
                n + 1 \in 1 .. Len(toEngine[c]) /\ toEngine'[c][n] = toEngine[c][n + 1]
      BY <2>1, ReceiveTold
    <3> QED BY <2>2, <3>1
  <2>4. ASSUME Told(Acceptance(a))' PROVE FALSE
    <3>1. PICK e \in Conns : \E n \in 1 .. Len(toEngine'[e]) : toEngine'[e][n] = Acceptance(a)
      BY <2>4 DEF Told, Acceptance
    <3>2. PICK n \in 1 .. Len(toEngine'[e]) : toEngine'[e][n] = Acceptance(a)
      BY <3>1
    <3>3. CASE e = c
      <4>1. n + 1 \in 1 .. Len(toEngine[c]) /\ toEngine[c][n + 1] = Acceptance(a)
        BY <2>3, <3>2, <3>3
      <4>2. n + 1 = 1
        BY <2>3, <4>1 DEF ToldOnce
      <4>3. Len(toEngine'[c]) \in Nat
        BY LenProperties DEF TypeInv, TypeOK, WireType
      <4> QED BY <3>2, <3>3, <4>2, <4>3
    <3>4. CASE e # c
      BY <2>3, <3>2, <3>4 DEF ToldOnce
    <3> QED BY <3>3, <3>4
  <2>5. UNCHANGED work
    BY <1>2 DEF ReaderStep, Reconsider, HandleExecAccept, AcceptRun, AcceptMark, HandleExecReject, RejectMark,
       HandleExecResult, Succeed, SucceedMark, FailMark, Deregister, DisconnectList, DisconnectNext, wireVars
  <2> QED BY <1>2, <2>2, <2>3, <2>4, <2>5
<1> QED BY <1>1, <1>2, NextHandler DEF Admitting

\* An acceptance told anew is of an attempt that starts with this very step.
LEMMA NextFresh ==
    ASSUME TypeInv, SettleInv, [Next]_vars, NEW a \in Attempts, Told(Acceptance(a))', ~Told(Acceptance(a))
    PROVE  work[a] = "none" /\ work'[a] = "running"
<1>1. PICK e \in Conns : \E n \in 1 .. Len(toEngine'[e]) : toEngine'[e][n] = Acceptance(a)
  BY DEF Told, Acceptance
<1>2. PICK n \in 1 .. Len(toEngine'[e]) : toEngine'[e][n] = Acceptance(a)
  BY <1>1
<1>3. \A c \in Conns : \A k \in 1 .. Len(toEngine[c]) : toEngine[c][k] # Acceptance(a)
  BY DEF Told
<1>4. ASSUME NEW d \in Conns, \A c \in Conns \ {d} : toEngine'[c] = toEngine[c],
             \A k \in 1 .. Len(toEngine'[d]) :
                 k + 1 \in 1 .. Len(toEngine[d]) /\ toEngine'[d][k] = toEngine[d][k + 1]
      PROVE  FALSE
  BY <1>2, <1>3, <1>4
<1>5. ASSUME NEW d \in Conns, NEW x, \A c \in Conns \ {d} : toEngine'[c] = toEngine[c],
             \A k \in 1 .. Len(toEngine'[d]) :
                 \/ k \in 1 .. Len(toEngine[d]) /\ toEngine'[d][k] = toEngine[d][k]
                 \/ k = Len(toEngine[d]) + 1 /\ toEngine'[d][k] = x
      PROVE  x = Acceptance(a)
  BY <1>2, <1>3, <1>5
<1>6. ASSUME \A c \in Conns : \A k \in 1 .. Len(toEngine'[c]) :
                 k \in 1 .. Len(toEngine[c]) /\ toEngine'[c][k] = toEngine[c][k]
      PROVE  FALSE
  BY <1>2, <1>3, <1>6
<1> QED BY ZenonT(60), <1>4, <1>5, <1>6, NextPlaces

LEMMA NextAdmittedOnce ==
    ASSUME TypeInv, TypeInv', SettleInv, ToldOnce, AdmittedOnce, AcceptedStarted, [Next]_vars PROVE AdmittedOnce'
<1> SUFFICES ASSUME NEW a \in Attempts, NEW c \in Conns, Admitting(c, a)'
             PROVE  ~Told(Acceptance(a))' /\ \A b \in Conns : Admitting(b, a)' => b = c
  BY DEF AdmittedOnce, Admitting, Told, Acceptance
<1>1. ASSUME NEW b \in Conns, Admitting(b, a) PROVE work[a] # "none" /\ ~Told(Acceptance(a))
  BY <1>1 DEF AdmittedOnce, AcceptedStarted, Accepting
<1>2. ~Told(Acceptance(a))'
  <2>1. CASE Admitting(c, a)
    BY <1>1, <2>1, NextFresh
  <2>2. CASE ~Admitting(c, a)
    BY <2>2, NextAdmitting
  <2> QED BY <2>1, <2>2
<1>3. ASSUME NEW b \in Conns, Admitting(b, a)', b # c PROVE FALSE
  <2>1. CASE Admitting(b, a) /\ Admitting(c, a)
    BY <1>3, <2>1 DEF AdmittedOnce
  <2>2. CASE Admitting(b, a) /\ ~Admitting(c, a)
    BY <1>1, <2>2, NextAdmitting
  <2>3. CASE ~Admitting(b, a) /\ Admitting(c, a)
    BY <1>1, <1>3, <2>3, NextAdmitting
  <2>4. CASE ~Admitting(b, a) /\ ~Admitting(c, a)
    <3>1. ReaderStep(c)
      BY <2>4, NextAdmitting
    <3>2. pc'[b] = pc[b] /\ att'[b] = att[b]
      BY <1>3, <3>1, ReaderAlone, ProcNames DEF Only
    <3> QED BY <1>3, <2>4, <3>2 DEF Admitting
  <2> QED BY <2>1, <2>2, <2>3, <2>4
<1> QED BY <1>2, <1>3

LEMMA NextAcceptedStarted ==
    ASSUME TypeInv, TypeInv', SettleInv, ToldOnce, AcceptedStarted, [Next]_vars
    PROVE  /\ AcceptedStarted'
           /\ \A a \in Attempts : work[a] # "none" /\ ~Accepting(a) => ~Accepting(a)'
<1>1. ASSUME NEW a \in Attempts, Accepting(a)'
      PROVE  work'[a] # "none" /\ (Accepting(a) \/ work[a] = "none")
  <2>1. CASE Accepting(a)
    BY <2>1, NextWork DEF AcceptedStarted
  <2>2. CASE ~Accepting(a)
    <3>1. ~Told(Acceptance(a)) /\ \A c \in Conns : ~Admitting(c, a)
      BY <2>2 DEF Accepting
    <3>2. \A c \in Conns : ~Admitting(c, a)'
      BY <3>1, NextAdmitting
    <3>3. Told(Acceptance(a))'
      BY <1>1, <3>2 DEF Accepting, Admitting, Told, Acceptance
    <3> QED BY <3>1, <3>3, NextFresh
  <2> QED BY <2>1, <2>2
<1>2. ASSUME NEW c \in Conns, pc'[c] = "acceptRun" PROVE attempts'[att'[c]].exec = exec'[c].id
  <2>1. PICK a \in Attempts : a = att'[c]
    BY <1>2, ProcNames DEF TypeInv, LocalOK, AttemptLabels, Issued
  <2>2. CASE Admitting(c, a) /\ exec'[c] = exec[c]
    <3>1. attempts[a].exec = exec[c].id /\ a \in Issued
      BY <2>2, ProcNames DEF Admitting, AcceptedStarted, TypeInv, LocalOK, AttemptLabels
    <3>2. attempts'[a].exec = attempts[a].exec
      BY <3>1, NextStays DEF Stays, Issued, Existing
    <3> QED BY <2>1, <2>2, <3>1, <3>2
  <2>3. CASE attempts'[a].exec = exec'[c].id
    BY <2>1, <2>3
  <2>4. Admitting(c, a)'
    BY <1>2, <2>1 DEF Admitting
  <2> QED BY <2>2, <2>3, <2>4, NextAdmitting
<1>3. \A a \in Attempts : Accepting(a)' => work'[a] # "none"
  BY <1>1
<1>4. AcceptedStarted'
  BY <1>2, <1>3 DEF AcceptedStarted
<1> QED BY <1>1, <1>4

\* The budget is charged by acceptRunning alone.
LEMMA NextCharge ==
    ASSUME TypeInv, SnapshotsFaithful, [Next]_vars, NEW e \in Executions
    PROVE  \/ executions'[e].fa = executions[e].fa
           \/ executions'[e].fa = 0
           \/ \E c \in Conns :
                 /\ AcceptRun(c) /\ e = exec[c].id /\ executions'[e].fa = executions[e].fa + 1
                 /\ Goto(c, "acceptMark") /\ UNCHANGED <<localVars, attempts, toEngine, work>>
<1> DEFINE Free == executions'[e].fa = executions[e].fa \/ executions'[e].fa = 0
<1>1. ASSUME NEW p \in Procs, pc[p] \in HandlerLabels, NEW st, NEW c,
             executions' = Updated(exec[p], st, executions[exec[p].id].fa, c)
      PROVE  Free
  BY <1>1 DEF Updated, TypeInv, TypeOK, StoreType
<1>2. CASE UNCHANGED executions
  BY <1>2
<1>3. CASE DispatcherStep
  <2>1. CASE Claim \/ Fence
    BY <1>1, <1>2, <2>1, ProcNames DEF Claim, Fence, HandlerLabels
  <2>2. CASE Materialize
    BY <2>2 DEF Materialize, TypeInv, TypeOK, StoreType
  <2>3. CASE ~Claim /\ ~Fence /\ ~Materialize
    BY <1>2, <1>3, <2>3 DEF DispatcherStep, DueScan, Consider, CreateAttempt, Send, SendFailed, storeVars
  <2> QED BY <2>1, <2>2, <2>3
<1>4. ASSUME NEW p \in Procs, CallStep(p) PROVE Free
  <2>1. CASE Transition(p)
    BY <1>1, <1>2, <2>1 DEF Transition, UpdateState, HandlerLabels
  <2>2. CASE ~Transition(p)
    BY <1>2, <1>4, <2>2 DEF CallStep, Requeue, Abandon, AbandonNext, RewaitNext, storeVars
  <2> QED BY <2>1, <2>2
<1>5. ASSUME NEW c \in Conns, Succeed(c) PROVE Free
  BY <1>1, <1>2, <1>5, ProcNames DEF Succeed, HandlerLabels
<1>6. ASSUME NEW c \in Conns, AcceptRun(c)
      PROVE  \/ Free
             \/ /\ e = exec[c].id /\ executions'[e].fa = executions[e].fa + 1
                /\ Goto(c, "acceptMark") /\ UNCHANGED <<localVars, attempts, toEngine, work>>
  <2> DEFINE s == exec[c]
  <2>1. CASE UNCHANGED executions
    BY <2>1
  <2>2. CASE Accepts(s, "Running") /\ executions' = Updated(s, "Running", s.fa + 1, executions[s.id].cur)
             /\ Goto(c, "acceptMark") /\ UNCHANGED localVars
    <3>1. s \in Known /\ c \in Procs
      BY <1>6, ProcNames DEF AcceptRun, TypeInv, LocalOK, HandlerLabels
    <3>2. executions[s.id] = s
      BY <2>2, <3>1, AcceptedCopy DEF Accepts
    <3> QED BY <1>6, <2>2, <3>2 DEF AcceptRun, Updated, TypeInv, TypeOK, StoreType, wireVars
  <2> QED BY <1>6, <2>1, <2>2 DEF AcceptRun
<1>7. ASSUME NEW c \in Conns, ReaderStep(c), ~AcceptRun(c), ~Succeed(c) PROVE Free
  BY <1>2, <1>7 DEF ReaderStep, Reconsider, HandleExecAccept, AcceptMark, HandleExecReject, RejectMark,
     HandleExecResult, SucceedMark, FailMark, Deregister, DisconnectList, DisconnectNext, storeVars
<1>8. CASE ReaperStep \/ HeartbeatNext \/ AdminStep \/ (\E i \in Instances : HandleHeartbeat(i)) \/ Connect \/ Restart
  BY <1>2, <1>8 DEF ReaperStep, WaitingScan, ReapScan, HeartbeatNext, HandleHeartbeat, AdminStep, HandleJobUpsert,
     CancelReplaced, HandleJobDelete, CancelNext, DeleteJob, Connect, Register, Restart, storeVars
<1>9. CASE ExecutorStep \/ (\E c \in Conns : Drop(c)) \/ (\E i \in Instances : ExecutorCrash(i)) \/ UNCHANGED vars
  BY <1>2, <1>9, OutsideAlone DEF storeVars
<1> QED BY <1>3, <1>4, <1>5, <1>6, <1>7, <1>8, <1>9 DEF Next

\* Charging the budget uses up the one acceptance it is charged for.
LEMMA NextBudget ==
    TypeInv /\ TypeInv' /\ SnapshotsFaithful /\ SettleInv /\ BudgetInv /\ [Next]_vars => BudgetInv'
<1> SUFFICES ASSUME TypeInv, TypeInv', SnapshotsFaithful, SettleInv, BudgetInv, [Next]_vars PROVE BudgetInv'
  OBVIOUS
<1>1. ToldOnce /\ AdmittedOnce /\ AcceptedStarted /\ BudgetOK
  BY DEF BudgetInv
<1>2. ToldOnce' /\ AdmittedOnce' /\ AcceptedStarted'
  BY <1>1, NextToldOnce, NextAdmittedOnce, NextAcceptedStarted
<1>3. ASSUME NEW e \in Executions PROVE executions'[e].fa <= Cardinality(Charged(e)')
  <2>1. Charged(e) \subseteq Charged(e)'
    <3> SUFFICES ASSUME NEW a \in Attempts, attempts[a].exec = e, work[a] # "none", ~Accepting(a)
                 PROVE  attempts'[a].exec = e /\ work'[a] # "none" /\ ~Accepting(a)'
      BY DEF Charged
    <3> QED BY <1>1, NextStays, NextWork, NextAcceptedStarted DEF Stays
  <2>2. /\ IsFiniteSet(Charged(e)') /\ IsFiniteSet(Charged(e))
        /\ Cardinality(Charged(e)') \in Nat /\ Cardinality(Charged(e)) \in Nat
    <3>1. IsFiniteSet(Attempts)
      BY BoundsAssumption, FS_Interval DEF Attempts
    <3>2. Charged(e)' \subseteq Attempts /\ Charged(e) \subseteq Attempts
      BY DEF Charged
    <3> HIDE DEF Charged
    <3> QED BY <3>1, <3>2, FS_Subset, FS_CardinalityType
  <2>3. executions[e].fa \in Nat /\ executions[e].fa <= Cardinality(Charged(e))
    BY <1>1 DEF BudgetOK, TypeInv, TypeOK, StoreType, ExecutionRecords
  <2>4. Cardinality(Charged(e)) <= Cardinality(Charged(e)')
    BY <2>1, <2>2, FS_Subset
  <2>5. ASSUME NEW c \in Conns, AcceptRun(c), e = exec[c].id, executions'[e].fa = executions[e].fa + 1,
               Goto(c, "acceptMark"), UNCHANGED <<localVars, attempts, toEngine, work>>
        PROVE  executions'[e].fa <= Cardinality(Charged(e)')
    <3>0. c \in Procs
      BY ProcNames
    <3>1. PICK a \in Attempts : a = att[c] /\ Admitting(c, a)
      BY <2>5, <3>0 DEF AcceptRun, TypeInv, LocalOK, AttemptLabels, Issued, Admitting
    <3>2. attempts[a].exec = e /\ work[a] # "none" /\ Accepting(a)
      BY <1>1, <2>5, <3>1 DEF AcceptedStarted, Accepting, Admitting
    <3>3. ~Accepting(a)'
      <4>1. pc' = [pc EXCEPT ![c] = "acceptMark"] /\ UNCHANGED <<att, toEngine>>
        BY <2>5 DEF Goto, localVars
      <4>2. \A b \in Conns : ~Admitting(b, a)'
        BY <1>1, <3>0, <3>1, <4>1, ProcNames DEF AdmittedOnce, Admitting, TypeInv, TypeOK, ControlType
      <4>3. ~Told(Acceptance(a))'
        BY <1>1, <3>1, <4>1 DEF AdmittedOnce, Told, Acceptance
      <4> QED BY <4>2, <4>3 DEF Accepting, Admitting, Told, Acceptance
    <3>4. a \notin Charged(e) /\ a \in Charged(e)'
      BY <2>5, <3>2, <3>3 DEF Charged
    <3> HIDE DEF Charged
    <3>5. Cardinality(Charged(e) \cup {a}) = Cardinality(Charged(e)) + 1
      BY <2>2, <3>4, FS_AddElement
    <3>6. Cardinality(Charged(e) \cup {a}) <= Cardinality(Charged(e)')
      BY <2>1, <2>2, <3>4, FS_Subset
    <3> QED BY <2>2, <2>3, <2>5, <3>5, <3>6
  <2>6. CASE executions'[e].fa = executions[e].fa \/ executions'[e].fa = 0
    BY <2>2, <2>3, <2>4, <2>6
  <2> QED BY <2>5, <2>6, NextCharge
<1>4. BudgetOK'
  BY <1>3 DEF BudgetOK
<1> QED BY <1>2, <1>4 DEF BudgetInv

LEMMA InitBudget == Init => BudgetInv
<1> SUFFICES ASSUME Init PROVE BudgetInv
  OBVIOUS
<1>1. \A c \in Conns : pc[c] \in {"unborn", "idle"} /\ toEngine[c] = <<>> /\ Len(<<>>) = 0
  BY ProcNames, EmptySeq DEF Init
<1>2. \A m : ~Told(m)
  BY <1>1 DEF Told
<1>3. ToldOnce /\ AdmittedOnce /\ AcceptedStarted
  BY <1>1, <1>2 DEF ToldOnce, AdmittedOnce, AcceptedStarted, Accepting, Admitting
<1>4. ASSUME NEW e \in Executions PROVE executions[e].fa <= Cardinality(Charged(e))
  <2>1. executions[e].fa = 0
    BY DEF Init
  <2>2. Charged(e) = {}
    BY DEF Init, Charged
  <2> QED BY <2>1, <2>2, FS_EmptySet
<1> QED BY <1>3, <1>4 DEF BudgetInv, BudgetOK

\* FunctionAttempts never exceeds the attempts of the execution that an executor
\* really started: no lost, late or repeated message, restart or lost race makes
\* acceptRunning charge the retry budget twice for one start.
THEOREM BudgetSafety == Spec => []RetryBudgetHonest
<1>1. TypeInv /\ BudgetInv => RetryBudgetHonest
  <2> SUFFICES ASSUME TypeInv, BudgetInv, NEW e \in Executions
               PROVE  executions[e].fa <= Cardinality({a \in Attempts : attempts[a].exec = e /\ work[a] # "none"})
    BY DEF RetryBudgetHonest
  <2> DEFINE Started == {a \in Attempts : attempts[a].exec = e /\ work[a] # "none"}
  <2>1. IsFiniteSet(Started) /\ Cardinality(Started) \in Nat
    <3>1. IsFiniteSet(Attempts)
      BY BoundsAssumption, FS_Interval DEF Attempts
    <3>2. Started \subseteq Attempts
      OBVIOUS
    <3> HIDE DEF Started
    <3> QED BY <3>1, <3>2, FS_Subset, FS_CardinalityType
  <2>2. Charged(e) \subseteq Started
    BY DEF Charged
  <2>3. executions[e].fa \in Nat /\ executions[e].fa <= Cardinality(Charged(e))
    BY DEF BudgetInv, BudgetOK, TypeInv, TypeOK, StoreType, ExecutionRecords
  <2> HIDE DEF Started
  <2>4. Cardinality(Charged(e)) \in Nat /\ Cardinality(Charged(e)) <= Cardinality(Started)
    BY <2>1, <2>2, FS_Subset, FS_CardinalityType
  <2>5. executions[e].fa <= Cardinality(Started)
    BY <2>1, <2>3, <2>4
  <2> QED BY <2>5 DEF Started
<1>2. Spec => []BudgetInv
  BY InitBudget, NextBudget, TypeCorrect, SettleCorrect, PTL DEF Spec
<1> QED BY <1>1, <1>2, TypeCorrect, PTL

=============================================================================
