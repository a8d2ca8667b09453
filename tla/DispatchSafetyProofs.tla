------------------------ MODULE DispatchSafetyProofs ------------------------
(***************************************************************************)
(* Proofs about module Dispatch, for any number of occurrences, attempts,   *)
(* executors and connections: its types, that the store's version check     *)
(* detects every race, and that an execution is settled only by the outcome *)
(* of the attempt it names.                                                 *)
(*                                                                          *)
(* TypeOK is not inductive: a handler writes back the record it holds, so    *)
(* the record must name an execution that exists; a message is looked up by *)
(* its attempt, so the attempt must have been created.  TypeInv adds what   *)
(* each label of a goroutine says about its locals and about the store.     *)
(***************************************************************************)
EXTENDS Dispatch, TLAPS, FiniteSetTheorems, SequenceTheorems

-----------------------------------------------------------------------------
(* The inductive invariant behind TypeOK.                                    *)

\* The labels a loop returns to.
LoopLabels == {"idle", "due", "recover", "reap", "rewait", "disconnect", "beat", "cancel", "drop"}

\* The labels at which a process works on the execution it holds.
HandlerLabels ==
    {"claim", "create", "fence", "send", "sendFailed", "materialize", "transition", "requeue",
     "abandon", "acceptRun", "acceptMark", "rejectMark", "succeed", "succeedMark", "failMark"}

\* The labels at which it also works on an attempt.
AttemptLabels ==
    {"fence", "send", "acceptRun", "acceptMark", "rejectMark", "succeed", "succeedMark", "failMark"}

Existing == {e \in Executions : executions[e].state # "Absent"}

Known == {s \in ExecutionRecords : s.state # "Absent" /\ s.version # 0 /\ s.id \in Existing}

Issued == {a \in Attempts : attempts[a].exec \in Existing}

IssuedMessages == {m \in Messages : m.att \in Issued}

StoreOK ==
    /\ \A e \in Executions : executions[e].id = e
    /\ \A e \in Executions : executions[e].state = "Absent" <=> executions[e].version = 0
    /\ \A a \in Attempts : attempts[a].state # "Absent" => a \in Issued

WireOK ==
    /\ toExecutor \in [Conns -> Seq(Issued)]
    /\ toEngine \in [Conns -> Seq(IssuedMessages)]
    /\ \A a \in Attempts : work[a] # "none" => a \in Issued

LocalOK(p) ==
    /\ loop[p] \in LoopLabels
    /\ exec[p] \in Known \cup {NoExecution}
    /\ todo[p] \subseteq Known
    /\ open[p] \subseteq Issued
    /\ pc[p] \in HandlerLabels => exec[p] \in Known
    /\ pc[p] \in AttemptLabels => att[p] \in Issued
    /\ pc[p] = "transition" => goal[p] \in ExecutionStateSet
    /\ pc[p] = "rejectMark" => goal[p] \in {"Ready", "WaitingCompatible"}
    /\ pc[p] \in {"claim", "create", "fence", "send"} => entry \in Conns

TypeInv == TypeOK /\ StoreOK /\ WireOK /\ \A p \in Procs : LocalOK(p)

-----------------------------------------------------------------------------
(* What a step of one process leaves alone.                                  *)

\* Only the locals of p change, and they keep their types.
Framed(p) ==
    /\ ControlType'
    /\ \A q \in Procs \ {p} :
          /\ pc'[q] = pc[q] /\ loop'[q] = loop[q] /\ exec'[q] = exec[q]
          /\ att'[q] = att[q] /\ goal'[q] = goal[q]
          /\ todo'[q] = todo[q] /\ open'[q] = open[q]
    /\ entry' = entry \/ entry' \in Conns

\* Executions and attempts, once created, stay.
StoreGrows == Existing \subseteq Existing' /\ Issued \subseteq Issued'

\* The background processes and the readers are different processes.
LEMMA ProcNames ==
    /\ "dispatcher" \in Procs /\ "reaper" \in Procs /\ "pump" \in Procs /\ "admin" \in Procs
    /\ Conns \subseteq Procs
    /\ \A c \in Conns : c # "dispatcher" /\ c # "reaper" /\ c # "pump" /\ c # "admin"
  BY NamesAssumption DEF Procs, Background

\* The state names do not contain the mark of an absent record.
LEMMA NotAbsent ==
    /\ "Absent" \notin ExecutionStateSet /\ "Absent" \notin AttemptStateSet
    /\ "None" \notin ExecutionStateSet
    /\ DueStates \subseteq ExecutionStateSet /\ WaitingStates \subseteq ExecutionStateSet
    /\ LeasedStates \subseteq ExecutionStateSet /\ TerminalStates \subseteq ExecutionStateSet
    /\ OpenAttemptStates \subseteq AttemptStateSet
    /\ 0 \in 0 .. MaxAttempt /\ Attempts \subseteq 0 .. MaxAttempt
    /\ \A a \in 0 .. MaxAttempt : a # 0 => a \in Attempts
  BY BoundsAssumption DEF ExecutionStateSet, AttemptStateSet, DueStates, WaitingStates, LeasedStates,
     TerminalStates, OpenAttemptStates, AttemptTerminalStates, Attempts

\* The invariants of the other processes survive a step of p.
LEMMA LocalFrame ==
    ASSUME NEW p \in Procs, \A q \in Procs : LocalOK(q), Framed(p), StoreGrows, LocalOK(p)'
    PROVE  \A q \in Procs : LocalOK(q)'
<1>1. Known \subseteq Known'
  BY DEF StoreGrows, Known
<1> SUFFICES ASSUME NEW q \in Procs, q # p PROVE LocalOK(q)'
  OBVIOUS
<1> QED BY <1>1 DEF Framed, LocalOK, StoreGrows

\* Messages on the wire keep naming attempts that were created.
LEMMA WireFrame ==
    ASSUME WireOK, UNCHANGED <<toExecutor, toEngine, work>>, StoreGrows
    PROVE  WireOK'
<1>1. IssuedMessages \subseteq IssuedMessages'
  BY DEF IssuedMessages, StoreGrows
<1>2. \A c \in Conns : toExecutor'[c] \in Seq(Issued') /\ toEngine'[c] \in Seq(IssuedMessages')
  BY <1>1, SeqMonotonic DEF WireOK, StoreGrows
<1> QED BY <1>2 DEF WireOK, StoreGrows

\* The parts of TypeInv that a step does not touch.
LEMMA Unchanged ==
    ASSUME TypeInv
    PROVE  /\ UNCHANGED storeVars => StoreType' /\ StoreOK' /\ StoreGrows /\ Known' = Known /\ Issued' = Issued
           /\ UNCHANGED registryVars => RegistryType'
           /\ UNCHANGED wireVars /\ StoreGrows => WireType' /\ WireOK'
           /\ UNCHANGED boundVars => BoundType'
<1>1. ASSUME UNCHANGED storeVars PROVE StoreType' /\ StoreOK' /\ StoreGrows /\ Known' = Known /\ Issued' = Issued
  BY <1>1 DEF TypeInv, TypeOK, storeVars, StoreType, StoreOK, StoreGrows, Existing, Issued, Known
<1>2. ASSUME UNCHANGED wireVars, StoreGrows PROVE WireType' /\ WireOK'
  BY <1>2, WireFrame DEF TypeInv, TypeOK, wireVars, WireType
<1> QED BY <1>1, <1>2 DEF TypeInv, TypeOK, registryVars, boundVars, RegistryType, BoundType

\* The parts of TypeInv put together after a step of p.
LEMMA Together ==
    ASSUME TypeInv, NEW p \in Procs, StoreType', StoreOK', StoreGrows, RegistryType', WireType',
           WireOK', BoundType', Framed(p), LocalOK(p)'
    PROVE  TypeInv'
<1>1. \A q \in Procs : LocalOK(q)'
  BY LocalFrame DEF TypeInv
<1> QED BY <1>1 DEF TypeInv, TypeOK, Framed

\* A handler that returns drops its locals and is back in its loop.
LEMMA FinishOK ==
    ASSUME NEW p \in Procs, TypeInv, Finish(p)
    PROVE  /\ pc' = [pc EXCEPT ![p] = pc'[p]]
           /\ pc'[p] \in LoopLabels \cup {"closed"}
           /\ exec' = [exec EXCEPT ![p] = NoExecution]
           /\ att' = [att EXCEPT ![p] = 0]
           /\ goal' = [goal EXCEPT ![p] = "None"]
<1>1. \A label \in LoopLabels : Rest(label) \in {"closed", "reap", "drop", "idle"}
  BY DEF Rest, LoopLabels
<1> QED BY <1>1 DEF Finish, Return, Goto, Hold, LocalOK, TypeInv, TypeOK, ControlType, LoopLabels, Labels

\* A step that only returns.
LEMMA FinishFrame ==
    ASSUME NEW p \in Procs, TypeInv, Finish(p), UNCHANGED <<listVars, loop, entry>>, StoreGrows
    PROVE  Framed(p) /\ LocalOK(p)'
<1>1. Known \subseteq Known'
  BY DEF StoreGrows, Known
<1>2. Framed(p)
  BY FinishOK, NotAbsent DEF TypeInv, TypeOK, ControlType, Framed, listVars, Labels, LoopLabels
<1>3. LocalOK(p)'
  BY <1>1, FinishOK DEF TypeInv, TypeOK, ControlType, LocalOK, StoreGrows, listVars, LoopLabels, HandlerLabels, AttemptLabels
<1> QED BY <1>2, <1>3

\* A loop that starts, or finds nothing to do.
LEMMA EnterOK ==
    ASSUME NEW p \in Procs, NEW label \in LoopLabels, NEW list, TypeInv, Enter(p, label, list)
    PROVE  /\ pc' = [pc EXCEPT ![p] = pc'[p]]
           /\ pc'[p] \in LoopLabels \cup {"closed"}
           /\ loop' = [loop EXCEPT ![p] = label]
<1>1. Rest(label) \in {"closed", "reap", "drop", "idle"}
  BY DEF Rest, LoopLabels
<1> QED BY <1>1 DEF Enter, Goto, TypeInv, TypeOK, ControlType, LoopLabels

-----------------------------------------------------------------------------
(* What the store's operations return and preserve.                          *)

\* A version-checked write.
LEMMA WriteOK ==
    ASSUME StoreType, StoreOK, NEW s \in Known, NEW st \in ExecutionStateSet,
           NEW f \in Nat, NEW c \in 0 .. MaxAttempt, executions' = Updated(s, st, f, c),
           UNCHANGED <<attempts, lastAttempt, job>>
    PROVE  StoreType' /\ StoreOK' /\ StoreGrows /\ executions'[s.id] \in Known'
<1>1. st # "Absent"
  BY NotAbsent
<1>2. /\ executions' \in [Executions -> ExecutionRecords]
      /\ \A e \in Executions : executions'[e].id = e
      /\ \A e \in Executions : executions'[e].state = "Absent" <=> executions'[e].version = 0
      /\ \A e \in Executions : executions'[e] = executions[e] \/ (e = s.id /\ executions'[e].state # "Absent")
      /\ s.id \in Existing /\ executions'[s.id].state # "Absent"
  BY <1>1 DEF StoreType, StoreOK, Updated, Known, ExecutionRecords, Existing
<1>3. Existing' = Existing
  BY <1>2 DEF Existing
<1>4. Issued' = Issued
  BY <1>3 DEF Issued
<1>5. executions'[s.id] \in Known'
  BY <1>2, <1>3 DEF Known, Existing, ExecutionRecords
<1> QED BY <1>2, <1>3, <1>4, <1>5 DEF StoreType, StoreOK, StoreGrows

\* The write of a state, which may be refused.
LEMMA UpdateStateOK ==
    ASSUME StoreType, StoreOK, NEW s \in Known, NEW st \in ExecutionStateSet, UpdateState(s, st),
           UNCHANGED <<attempts, lastAttempt, job>>
    PROVE  StoreType' /\ StoreOK' /\ StoreGrows
<1>1. executions[s.id].fa \in Nat /\ executions[s.id].cur \in 0 .. MaxAttempt
  BY DEF StoreType, Known, ExecutionRecords
<1>2. CASE Accepts(s, st)
  BY <1>1, <1>2, WriteOK DEF UpdateState
<1>3. CASE ~Accepts(s, st)
  BY <1>3 DEF UpdateState, StoreType, StoreOK, StoreGrows, Existing, Issued
<1> QED BY <1>2, <1>3

\* The guarded change of an attempt's state.
LEMMA MarkOK ==
    ASSUME StoreType, StoreOK, NEW a \in 0 .. MaxAttempt, NEW from, NEW to \in AttemptStateSet,
           "Absent" \notin from, UpdateAttemptState(a, from, to), UNCHANGED <<executions, lastAttempt, job>>
    PROVE  StoreType' /\ StoreOK' /\ StoreGrows
<1>1. /\ attempts' \in [Attempts -> AttemptRecords]
      /\ \A b \in Attempts : attempts'[b].exec = attempts[b].exec
      /\ \A b \in Attempts : attempts'[b].state = attempts[b].state \/ attempts[b].state \in from
  BY NotAbsent DEF UpdateAttemptState, StoreType, AttemptRecords
<1>2. Existing' = Existing
  BY DEF Existing
<1>3. Issued' = Issued
  BY <1>1, <1>2 DEF Issued
<1> QED BY <1>1, <1>2, <1>3 DEF StoreOK, StoreType, StoreGrows

\* A slot given back.
LEMMA ReleaseOK ==
    ASSUME RegistryType, NEW i, NEW a, Release(i, a), UNCHANGED <<registered, host>>
    PROVE  RegistryType'
  BY DEF Release, RegistryType

\* What is read from the store is known to exist.
LEMMA StoreReads ==
    ASSUME StoreType, StoreOK
    PROVE  /\ \A e \in Existing : executions[e] \in Known
           /\ \A S \in SUBSET ExecutionStateSet : InStates(S) \subseteq Known
           /\ \A e \in Executions : executions[e].state # "Absent" <=> e \in Existing
           /\ \A i \in Instances : OpenOn(i) \subseteq Issued
<1>1. \A e \in Existing : executions[e] \in Known
  BY DEF StoreType, StoreOK, Existing, Known, ExecutionRecords
<1>2. \A S \in SUBSET ExecutionStateSet : InStates(S) \subseteq Known
  BY <1>1, NotAbsent DEF InStates, Existing
<1>3. \A i \in Instances : OpenOn(i) \subseteq Issued
  BY NotAbsent DEF OpenOn, StoreOK
<1> QED BY <1>1, <1>2, <1>3 DEF Existing

-----------------------------------------------------------------------------
(* The timing loop.                                                          *)

\* DueScan keeps TypeInv.
LEMMA DueScanType == TypeInv /\ DueScan => TypeInv'
<1> SUFFICES ASSUME TypeInv, DueScan PROVE TypeInv'
  OBVIOUS
<1>1. PICK S : /\ S \subseteq InStates(DueStates)
               /\ todo' = [todo EXCEPT !["dispatcher"] = S]
  BY DEF DueScan
<1>2. S \subseteq Known /\ S \subseteq ExecutionRecords
  BY <1>1, StoreReads, NotAbsent DEF TypeInv, TypeOK, Known
<1>3. UNCHANGED <<storeVars, registryVars, wireVars, localVars, open, entry, boundVars>>
  BY DEF DueScan
<1>4. Enter("dispatcher", "due", todo'["dispatcher"]) /\ "due" \in LoopLabels
  BY DEF DueScan, LoopLabels
<1>5. Framed("dispatcher")
  BY <1>1, <1>2, <1>3, <1>4, EnterOK, ProcNames DEF TypeInv, TypeOK, ControlType, Framed, localVars, Labels, LoopLabels
<1>6. LocalOK("dispatcher")'
  BY <1>1, <1>2, <1>3, <1>4, EnterOK, ProcNames, Unchanged DEF TypeInv, TypeOK, ControlType, LocalOK, localVars, LoopLabels, HandlerLabels, AttemptLabels
<1> QED BY <1>3, <1>5, <1>6, Unchanged, Together, ProcNames

\* Claim keeps TypeInv.
LEMMA ClaimType == TypeInv /\ Claim => TypeInv'
<1> SUFFICES ASSUME TypeInv, Claim PROVE TypeInv'
  OBVIOUS
<1> DEFINE s == exec["dispatcher"]
<1>1. s \in Known /\ s.id \in Executions /\ entry \in Conns /\ LocalOK("dispatcher")
  BY ProcNames DEF Claim, TypeInv, LocalOK, HandlerLabels, Known, Existing
<1>2. UNCHANGED <<attempts, lastAttempt, job, registryVars, wireVars, listVars, loop, entry, boundVars>>
  BY DEF Claim
<1>3. CASE /\ Accepts(s, "Dispatching")
           /\ executions' = Updated(s, "Dispatching", executions[s.id].fa, executions[s.id].cur)
           /\ Goto("dispatcher", "create") /\ Hold("dispatcher", executions'[s.id], 0, "None")
  <2>1. StoreType' /\ StoreOK' /\ StoreGrows /\ executions'[s.id] \in Known'
    <3>1. /\ executions[s.id].fa \in Nat /\ executions[s.id].cur \in 0 .. MaxAttempt
          /\ "Dispatching" \in ExecutionStateSet
      BY <1>1 DEF TypeInv, TypeOK, StoreType, ExecutionRecords, ExecutionStateSet, LeasedStates
    <3> QED BY <1>1, <1>2, <1>3, <3>1, WriteOK DEF TypeInv, TypeOK
  <2>2. Framed("dispatcher")
    BY <1>2, <1>3, <2>1, ProcNames, NotAbsent DEF TypeInv, TypeOK, ControlType, Framed, Goto, Hold, listVars, Labels, Known
  <2>3. LocalOK("dispatcher")'
    BY <1>1, <1>2, <1>3, <2>1, ProcNames DEF TypeInv, TypeOK, ControlType, LocalOK, Goto, Hold, listVars, HandlerLabels, AttemptLabels, StoreGrows, Known
  <2> QED BY <1>2, <2>1, <2>2, <2>3, Unchanged, Together, ProcNames
<1>4. CASE ~Accepts(s, "Dispatching") /\ Finish("dispatcher") /\ UNCHANGED executions
  BY <1>2, <1>4, FinishFrame, Unchanged, Together, ProcNames DEF storeVars
<1> QED BY <1>3, <1>4 DEF Claim

\* selectExecutor returns registered entries.
LEMMA SelectType == RegistryType => SelectExecutor \subseteq Conns
<1> SUFFICES ASSUME RegistryType PROVE SelectExecutor \subseteq Conns
  OBVIOUS
<1>1. Pool \subseteq Conns
  BY DEF Pool, RegistryType
<1>2. Eligible(Pool) \subseteq Conns /\ Eligible(LabelPool) \subseteq Conns
  BY <1>1 DEF Eligible, LabelPool
<1> QED BY <1>2 DEF SelectExecutor

\* A step to a handler label that keeps or takes an execution known to exist.
LEMMA HoldFrame ==
    ASSUME NEW p \in Procs, TypeInv, NEW label \in HandlerLabels, NEW s \in Known,
           NEW a \in 0 .. MaxAttempt, NEW g \in ExecutionStateSet \cup {"None"},
           label \in AttemptLabels => a \in Issued,
           label = "transition" => g # "None",
           label = "rejectMark" => g \in {"Ready", "WaitingCompatible"},
           label \in {"claim", "create", "fence", "send"} => entry' \in Conns,
           Goto(p, label), Hold(p, s, a, g), UNCHANGED loop, entry' = entry \/ entry' \in Conns,
           \/ UNCHANGED todo
           \/ \E t \in SUBSET todo[p] : todo' = [todo EXCEPT ![p] = t],
           \/ UNCHANGED open
           \/ \E t \in SUBSET open[p] : open' = [open EXCEPT ![p] = t],
           StoreGrows
    PROVE  Framed(p) /\ LocalOK(p)'
<1>1. Known \subseteq Known' /\ s \in ExecutionRecords
  BY DEF StoreGrows, Known
<1>2. todo' \in [Procs -> SUBSET ExecutionRecords] /\ todo'[p] \subseteq todo[p]
      /\ \A q \in Procs \ {p} : todo'[q] = todo[q]
  BY DEF TypeInv, TypeOK, ControlType
<1>3. open' \in [Procs -> SUBSET Attempts] /\ open'[p] \subseteq open[p]
      /\ \A q \in Procs \ {p} : open'[q] = open[q]
  BY DEF TypeInv, TypeOK, ControlType
<1>4. Framed(p)
  BY ZenonT(60), <1>1, <1>2, <1>3 DEF TypeInv, TypeOK, ControlType, Framed, Goto, Hold, Labels, HandlerLabels
<1>5. LocalOK(p)'
  BY <1>1, <1>2, <1>3 DEF TypeInv, TypeOK, ControlType, LocalOK, Goto, Hold, StoreGrows
<1> QED BY <1>4, <1>5

\* Consider keeps TypeInv.
LEMMA ConsiderType == TypeInv /\ Consider => TypeInv'
<1> SUFFICES ASSUME TypeInv, Consider PROVE TypeInv'
  OBVIOUS
<1> DEFINE d == "dispatcher"
<1>1. UNCHANGED <<storeVars, registryVars, wireVars, open, loop, boundVars>>
  BY DEF Consider
<1>2. PICK s \in todo[d] :
        /\ todo' = [todo EXCEPT ![d] = @ \ {s}]
        /\ \/ Goto(d, "transition") /\ Hold(d, s, 0, "Cancelled") /\ UNCHANGED entry
           \/ Goto(d, "transition") /\ Hold(d, s, 0, "Skipped") /\ UNCHANGED entry
           \/ Park(s) /\ UNCHANGED entry
           \/ entry' \in SelectExecutor /\ Goto(d, "claim") /\ Hold(d, s, 0, "None")
  BY DEF Consider
<1>3. s \in Known /\ todo[d] \ {s} \in SUBSET todo[d] /\ StoreGrows
  BY <1>1, Unchanged, ProcNames DEF TypeInv, LocalOK
<1>4. \E t \in SUBSET todo[d] : todo' = [todo EXCEPT ![d] = t]
  BY <1>2, <1>3
<1>5. \/ \E g \in {"Cancelled", "Skipped", "WaitingLabel", "WaitingExecutor", "WaitingCompatible"} :
            Goto(d, "transition") /\ Hold(d, s, 0, g) /\ UNCHANGED entry
      \/ Goto(d, "requeue") /\ Hold(d, s, 0, "None") /\ UNCHANGED entry
      \/ entry' \in Conns /\ Goto(d, "claim") /\ Hold(d, s, 0, "None")
  BY <1>2, SelectType DEF Park, TypeInv, TypeOK
<1>6. Framed(d) /\ LocalOK(d)'
  <2>1. {"Cancelled", "Skipped", "WaitingLabel", "WaitingExecutor", "WaitingCompatible"} \subseteq ExecutionStateSet
    BY DEF ExecutionStateSet, WaitingStates, TerminalStates
  <2> QED BY <1>1, <1>3, <1>4, <1>5, <2>1, HoldFrame, ProcNames, NotAbsent DEF HandlerLabels, AttemptLabels
<1> QED BY <1>1, <1>6, Unchanged, Together, ProcNames

\* CreateAttempt keeps TypeInv.
LEMMA CreateAttemptType == TypeInv /\ CreateAttempt => TypeInv'
<1> SUFFICES ASSUME TypeInv, CreateAttempt PROVE TypeInv'
  OBVIOUS
<1> DEFINE d == "dispatcher"  s == exec[d]  a == lastAttempt + 1
<1>1. UNCHANGED <<executions, job, registryVars, wireVars, listVars, loop, entry, boundVars>>
  BY DEF CreateAttempt
<1>2. s \in Known /\ s.id \in Existing /\ s.id \in Executions /\ entry \in Conns /\ a \in Attempts
  BY ProcNames DEF CreateAttempt, TypeInv, LocalOK, HandlerLabels, Known, Existing
<1>3. attempts' = [attempts EXCEPT ![a] = [exec |-> s.id, inst |-> host[entry], state |-> "Dispatched"]]
  BY DEF CreateAttempt
<1>4. attempts' \in [Attempts -> AttemptRecords] /\ lastAttempt' \in 0 .. MaxAttempt
  <2>1. host[entry] \in Instances \cup {NoInstance} /\ s.id \in 0 .. MaxExecution
    BY <1>2, BoundsAssumption DEF TypeInv, TypeOK, RegistryType, Executions
  <2>2. "Dispatched" \in AttemptStateSet
    BY DEF AttemptStateSet, OpenAttemptStates
  <2> QED BY <1>2, <1>3, <2>1, <2>2, NotAbsent DEF CreateAttempt, TypeInv, TypeOK, StoreType, AttemptRecords
<1>5. Existing' = Existing /\ Issued \subseteq Issued' /\ a \in Issued'
  BY <1>1, <1>2, <1>3 DEF Existing, Issued, TypeInv, TypeOK, StoreType
<1>6. StoreType' /\ StoreOK' /\ StoreGrows
  <2>1. \A b \in Attempts : attempts'[b].state # "Absent" => b \in Issued'
    BY <1>2, <1>3, <1>5 DEF TypeInv, TypeOK, StoreType, StoreOK
  <2> QED BY <1>1, <1>4, <1>5, <2>1 DEF TypeInv, TypeOK, StoreType, StoreOK, StoreGrows
<1>7. Framed(d)
  BY <1>1, <1>2, ProcNames, NotAbsent DEF CreateAttempt, TypeInv, TypeOK, ControlType, Framed, Goto, Hold, listVars, Labels
<1>8. LocalOK(d)'
  <2>1. Known \subseteq Known'
    BY <1>6 DEF Known, StoreGrows
  <2> QED BY <1>1, <1>2, <1>5, <2>1, ProcNames DEF CreateAttempt, TypeInv, TypeOK, ControlType, LocalOK, Goto, Hold, listVars, Labels
<1> QED BY <1>1, <1>6, <1>7, <1>8, Unchanged, Together, ProcNames

\* Fence keeps TypeInv.
LEMMA FenceType == TypeInv /\ Fence => TypeInv'
<1> SUFFICES ASSUME TypeInv, Fence PROVE TypeInv'
  OBVIOUS
<1> DEFINE d == "dispatcher"  s == exec[d]  now == executions[s.id]
<1>1. s \in Known /\ s.id \in Executions /\ entry \in Conns /\ att[d] \in Issued /\ s.version # 0
  BY ProcNames DEF Fence, TypeInv, LocalOK, HandlerLabels, AttemptLabels, Known, Existing
<1>2. UNCHANGED <<attempts, lastAttempt, job, registryVars, wireVars, listVars, loop, entry, boundVars>>
  BY DEF Fence
<1>3. CASE /\ now.version = s.version
           /\ executions' = Updated(s, now.state, now.fa, att[d])
           /\ Goto(d, "send") /\ Hold(d, executions'[s.id], att[d], "None")
  <2>1. StoreType' /\ StoreOK' /\ StoreGrows /\ executions'[s.id] \in Known'
    <3>1. now.fa \in Nat /\ att[d] \in 0 .. MaxAttempt /\ now.state \in ExecutionStateSet
      BY <1>1, <1>3, NotAbsent DEF TypeInv, TypeOK, StoreType, StoreOK, ExecutionRecords, Issued
    <3> QED BY <1>1, <1>2, <1>3, <3>1, WriteOK DEF TypeInv, TypeOK
  <2>2. Framed(d)
    BY <1>1, <1>2, <1>3, <2>1, ProcNames, NotAbsent DEF TypeInv, TypeOK, ControlType, Framed, Goto, Hold, listVars, Labels, Known
  <2>3. LocalOK(d)'
    BY <1>1, <1>2, <1>3, <2>1, ProcNames DEF TypeInv, TypeOK, ControlType, LocalOK, Goto, Hold, listVars, StoreGrows, Known
  <2> QED BY <1>2, <2>1, <2>2, <2>3, Unchanged, Together, ProcNames
<1>4. CASE Finish(d) /\ UNCHANGED executions
  BY <1>2, <1>4, FinishFrame, Unchanged, Together, ProcNames DEF storeVars
<1> QED BY <1>3, <1>4 DEF Fence

\* Send keeps TypeInv.
LEMMA SendType == TypeInv /\ Send => TypeInv'
<1> SUFFICES ASSUME TypeInv, Send PROVE TypeInv'
  OBVIOUS
<1> DEFINE d == "dispatcher"  a == att[d]
<1>1. UNCHANGED <<storeVars, registered, host, up, toEngine, work, localVars, listVars, loop, entry, jobOps>>
  BY DEF Send
<1>2. entry \in Conns /\ a \in Issued /\ a \in Attempts /\ exec[d] \in Known
  BY ProcNames DEF Send, TypeInv, LocalOK, HandlerLabels, AttemptLabels, Issued
<1>3. StoreType' /\ StoreOK' /\ StoreGrows /\ Issued' = Issued /\ Known' = Known
  BY <1>1, Unchanged
<1>4. RegistryType'
  BY <1>1, <1>2 DEF Send, TypeInv, TypeOK, RegistryType
<1>5. toExecutor' \in [Conns -> Seq(Issued)]
  <2>1. toExecutor[entry] \in Seq(Issued)
    BY <1>2 DEF TypeInv, WireOK
  <2>2. Append(toExecutor[entry], a) \in Seq(Issued)
    BY <2>1, <1>2, AppendProperties
  <2>3. CASE toExecutor' = [toExecutor EXCEPT ![entry] = Append(@, a)]
    BY <1>2, <2>2, <2>3 DEF TypeInv, WireOK
  <2>4. CASE toExecutor' = toExecutor
    BY <2>4 DEF TypeInv, WireOK
  <2> QED BY <2>3, <2>4 DEF Send
<1>6. WireType' /\ WireOK'
  <2>1. toExecutor' \in [Conns -> Seq(Attempts)]
    BY <1>5, SeqMonotonic DEF Issued
  <2>2. IssuedMessages' = IssuedMessages
    BY <1>3 DEF IssuedMessages
  <2> QED BY <1>1, <1>3, <1>5, <2>1, <2>2 DEF TypeInv, TypeOK, WireType, WireOK
<1>7. BoundType'
  BY <1>1, BoundsAssumption DEF Send, Spend, TypeInv, TypeOK, BoundType
<1>8. Framed(d)
  BY <1>1, ProcNames DEF Send, TypeInv, TypeOK, ControlType, Framed, Goto, localVars, listVars, Labels
<1>9. LocalOK(d)'
  BY <1>1, <1>2, <1>3, ProcNames DEF Send, TypeInv, TypeOK, ControlType, LocalOK, Goto, localVars, listVars, AttemptLabels
<1> QED BY <1>3, <1>4, <1>6, <1>7, <1>8, <1>9, Together, ProcNames

\* A step to another handler label that keeps the locals.
LEMMA MoveFrame ==
    ASSUME NEW p \in Procs, TypeInv, NEW label \in HandlerLabels, pc[p] \in HandlerLabels,
           label \in AttemptLabels => pc[p] \in AttemptLabels,
           label = "transition" => goal[p] # "None",
           label \notin {"rejectMark", "claim", "create", "fence", "send"},
           Goto(p, label), UNCHANGED <<localVars, listVars, loop, entry>>, StoreGrows
    PROVE  Framed(p) /\ LocalOK(p)'
<1>1. Known \subseteq Known'
  BY DEF StoreGrows, Known
<1>2. Framed(p)
  BY DEF TypeInv, TypeOK, ControlType, Framed, Goto, localVars, listVars, Labels, HandlerLabels
<1>3. LocalOK(p)'
  BY <1>1 DEF TypeInv, TypeOK, ControlType, LocalOK, Goto, localVars, listVars, StoreGrows
<1> QED BY <1>2, <1>3

\* SendFailed keeps TypeInv.
LEMMA SendFailedType == TypeInv /\ SendFailed => TypeInv'
<1> SUFFICES ASSUME TypeInv, SendFailed PROVE TypeInv'
  OBVIOUS
<1> DEFINE d == "dispatcher"
<1>1. UNCHANGED <<executions, lastAttempt, job, registryVars, wireVars, localVars, listVars, loop, entry, boundVars>>
  BY DEF SendFailed
<1>2. StoreType' /\ StoreOK' /\ StoreGrows
  <2>1. att[d] \in 0 .. MaxAttempt /\ "InfraFailed" \in AttemptStateSet /\ "Absent" \notin {"Dispatched"}
    BY ProcNames DEF TypeInv, TypeOK, ControlType, AttemptStateSet, AttemptTerminalStates
  <2> QED BY <1>1, <2>1, MarkOK DEF SendFailed, TypeInv, TypeOK
<1>3. Framed(d) /\ LocalOK(d)'
  BY <1>1, <1>2, MoveFrame, ProcNames DEF SendFailed, HandlerLabels, AttemptLabels
<1> QED BY <1>1, <1>2, <1>3, Unchanged, Together, ProcNames

\* Materialize keeps TypeInv.
LEMMA MaterializeType == TypeInv /\ Materialize => TypeInv'
<1> SUFFICES ASSUME TypeInv, Materialize PROVE TypeInv'
  OBVIOUS
<1> DEFINE d == "dispatcher"  n == exec[d].id + 1
           new == [id |-> n, state |-> "Scheduled", fa |-> 0, cur |-> 0, version |-> 1]
<1>1. UNCHANGED <<attempts, lastAttempt, job, registryVars, wireVars, listVars, loop, entry, boundVars>>
  BY DEF Materialize
<1>2. CASE n \in Executions /\ executions' = [executions EXCEPT ![n] = new]
  <2>1. new \in ExecutionRecords
    BY <1>2, NotAbsent DEF ExecutionRecords, ExecutionStateSet, DueStates
  <2>2. executions' \in [Executions -> ExecutionRecords]
    BY <1>2, <2>1 DEF TypeInv, TypeOK, StoreType
  <2>3. \A e \in Executions : executions'[e].id = e /\ (executions'[e].state = "Absent" <=> executions'[e].version = 0)
    BY <1>2 DEF TypeInv, TypeOK, StoreType, StoreOK
  <2>4. StoreGrows
    <3>1. Existing \subseteq Existing'
      BY <1>2 DEF TypeInv, TypeOK, StoreType, Existing
    <3> QED BY <1>1, <3>1 DEF StoreGrows, Issued
  <2>5. StoreType' /\ StoreOK'
    BY <1>1, <2>2, <2>3, <2>4 DEF TypeInv, TypeOK, StoreType, StoreOK, StoreGrows
  <2> QED BY <1>1, <2>4, <2>5, FinishFrame, Unchanged, Together, ProcNames DEF Materialize
<1>3. CASE UNCHANGED executions
  BY <1>1, <1>3, FinishFrame, Unchanged, Together, ProcNames DEF Materialize, storeVars
<1> QED BY <1>2, <1>3 DEF Materialize

-----------------------------------------------------------------------------
(* The helpers every process calls.                                          *)

\* Transition keeps TypeInv.
LEMMA TransitionType == ASSUME NEW p \in Procs PROVE TypeInv /\ Transition(p) => TypeInv'
<1> SUFFICES ASSUME TypeInv, Transition(p) PROVE TypeInv'
  OBVIOUS
<1>1. UNCHANGED <<attempts, lastAttempt, job, registryVars, wireVars, listVars, loop, entry, boundVars>>
  BY DEF Transition
<1>2. exec[p] \in Known /\ goal[p] \in ExecutionStateSet /\ pc[p] = "transition"
  BY DEF Transition, TypeInv, LocalOK, HandlerLabels
<1>3. StoreType' /\ StoreOK' /\ StoreGrows
  BY <1>1, <1>2, UpdateStateOK DEF Transition, TypeInv, TypeOK
<1>4. CASE Goto(p, "materialize") /\ UNCHANGED localVars
  BY <1>1, <1>2, <1>3, <1>4, MoveFrame, Unchanged, Together DEF HandlerLabels, AttemptLabels
<1>5. CASE Finish(p)
  BY <1>1, <1>3, <1>5, FinishFrame, Unchanged, Together
<1> QED BY <1>4, <1>5 DEF Transition

\* Requeue keeps TypeInv.
LEMMA RequeueType == ASSUME NEW p \in Procs PROVE TypeInv /\ Requeue(p) => TypeInv'
<1> SUFFICES ASSUME TypeInv, Requeue(p) PROVE TypeInv'
  OBVIOUS
<1> DEFINE fresh == executions[exec[p].id]
<1>1. UNCHANGED <<storeVars, registryVars, wireVars, listVars, loop, entry, boundVars>>
  BY DEF Requeue
<1>2. fresh \in Known /\ att[p] \in 0 .. MaxAttempt /\ StoreGrows
  BY <1>1, StoreReads, Unchanged DEF Requeue, TypeInv, TypeOK, ControlType, LocalOK, HandlerLabels, Known
<1>3. CASE Finish(p)
  BY <1>1, <1>2, <1>3, FinishFrame, Unchanged, Together
<1>4. CASE Goto(p, "transition") /\ Hold(p, fresh, att[p], "Ready")
  <2>1. "Ready" \in ExecutionStateSet /\ "Ready" # "None" /\ "transition" \in HandlerLabels
        /\ "transition" \notin AttemptLabels
    BY DEF ExecutionStateSet, DueStates, HandlerLabels, AttemptLabels
  <2>2. Framed(p) /\ LocalOK(p)'
    BY <1>1, <1>2, <1>4, <2>1, HoldFrame DEF listVars
  <2> QED BY <1>1, <2>2, Unchanged, Together
<1> QED BY <1>3, <1>4 DEF Requeue

\* Abandon keeps TypeInv.
LEMMA AbandonType == ASSUME NEW p \in Procs PROVE TypeInv /\ Abandon(p) => TypeInv'
<1> SUFFICES ASSUME TypeInv, Abandon(p) PROVE TypeInv'
  OBVIOUS
<1>1. UNCHANGED <<executions, lastAttempt, job, registered, host, wireVars, localVars, listVars, loop, entry, boundVars>>
  BY DEF Abandon
<1>2. StoreType' /\ StoreOK' /\ StoreGrows
  <2>1. att[p] \in 0 .. MaxAttempt /\ "Lost" \in AttemptStateSet /\ "Absent" \notin OpenAttemptStates
    BY NotAbsent DEF TypeInv, TypeOK, ControlType, AttemptStateSet, AttemptTerminalStates
  <2> QED BY <1>1, <2>1, MarkOK DEF Abandon, TypeInv, TypeOK
<1>3. RegistryType'
  BY <1>1, ReleaseOK DEF Abandon, TypeInv, TypeOK
<1>4. Framed(p) /\ LocalOK(p)'
  BY <1>1, <1>2, MoveFrame DEF Abandon, HandlerLabels, AttemptLabels
<1> QED BY <1>1, <1>2, <1>3, <1>4, Unchanged, Together

-----------------------------------------------------------------------------
(* The loops that list executions or attempts.                               *)

\* A loop starts over a list of executions.
LEMMA ListFrame ==
    ASSUME NEW p \in Procs, TypeInv, NEW label \in LoopLabels, NEW list, NEW S \in SUBSET Known,
           Enter(p, label, list), todo' = [todo EXCEPT ![p] = S],
           UNCHANGED <<storeVars, localVars, open, entry>>
    PROVE  Framed(p) /\ LocalOK(p)'
<1>1. S \subseteq ExecutionRecords /\ Known' = Known /\ Issued' = Issued
  BY Unchanged DEF Known
<1>2. Framed(p)
  BY SMTT(30), <1>1, EnterOK DEF TypeInv, TypeOK, ControlType, Framed, localVars, Labels, LoopLabels
<1>3. LocalOK(p)'
  BY <1>1, EnterOK DEF TypeInv, TypeOK, ControlType, LocalOK, localVars, LoopLabels, HandlerLabels, AttemptLabels
<1> QED BY <1>2, <1>3

\* A loop starts over a list of attempts.
LEMMA OpenFrame ==
    ASSUME NEW p \in Procs, TypeInv, NEW label \in LoopLabels, NEW list, NEW S \in SUBSET Issued,
           Enter(p, label, list), open' = [open EXCEPT ![p] = S],
           UNCHANGED <<storeVars, localVars, todo, entry>>
    PROVE  Framed(p) /\ LocalOK(p)'
<1>1. S \subseteq Attempts /\ Known' = Known /\ Issued' = Issued
  BY Unchanged DEF Issued
<1>2. Framed(p)
  BY SMTT(30), <1>1, EnterOK DEF TypeInv, TypeOK, ControlType, Framed, localVars, Labels, LoopLabels
<1>3. LocalOK(p)'
  BY <1>1, EnterOK DEF TypeInv, TypeOK, ControlType, LocalOK, localVars, LoopLabels, HandlerLabels, AttemptLabels
<1> QED BY <1>2, <1>3

\* A loop skips an element.
LEMMA SkipFrame ==
    ASSUME NEW p \in Procs, TypeInv, NEW S, NEW T, Return(p, S, T),
           UNCHANGED <<storeVars, localVars, loop, entry>>,
           \/ UNCHANGED todo
           \/ \E t \in SUBSET todo[p] : todo' = [todo EXCEPT ![p] = t],
           \/ UNCHANGED open
           \/ \E t \in SUBSET open[p] : open' = [open EXCEPT ![p] = t]
    PROVE  Framed(p) /\ LocalOK(p)'
<1>1. Known' = Known /\ Issued' = Issued
  BY Unchanged
<1>2. todo' \in [Procs -> SUBSET ExecutionRecords] /\ todo'[p] \subseteq todo[p]
      /\ \A q \in Procs \ {p} : todo'[q] = todo[q]
  BY DEF TypeInv, TypeOK, ControlType
<1>3. open' \in [Procs -> SUBSET Attempts] /\ open'[p] \subseteq open[p]
      /\ \A q \in Procs \ {p} : open'[q] = open[q]
  BY DEF TypeInv, TypeOK, ControlType
<1>4. pc' = [pc EXCEPT ![p] = pc'[p]] /\ pc'[p] \in LoopLabels \cup {"closed"}
  <2>1. \A label \in LoopLabels : Rest(label) \in {"closed", "reap", "drop", "idle"}
    BY DEF Rest, LoopLabels
  <2> QED BY <2>1 DEF Return, Goto, LocalOK, TypeInv, TypeOK, ControlType, LoopLabels, Labels
<1>5. Framed(p)
  BY <1>2, <1>3, <1>4 DEF TypeInv, TypeOK, ControlType, Framed, localVars, Labels, LoopLabels
<1>6. LocalOK(p)'
  BY <1>1, <1>2, <1>3, <1>4 DEF TypeInv, LocalOK, localVars, LoopLabels, HandlerLabels, AttemptLabels
<1> QED BY <1>5, <1>6

\* ReapScan keeps TypeInv.
LEMMA ReapScanType == ASSUME NEW S \in SUBSET Leased PROVE TypeInv /\ ReapScan(S) => TypeInv'
<1> SUFFICES ASSUME TypeInv, ReapScan(S) PROVE TypeInv'
  OBVIOUS
<1>1. UNCHANGED <<storeVars, registryVars, wireVars, localVars, open, entry, jobOps>>
  BY DEF ReapScan
<1>2. {executions[e] : e \in S} \subseteq Known
  BY StoreReads, NotAbsent DEF Leased, TypeInv, TypeOK
<1>3. Cardinality(S \ Orphaned) \in Nat
  <2>1. IsFiniteSet(Executions)
    BY BoundsAssumption, FS_Interval DEF Executions
  <2>2. S \ Orphaned \in SUBSET Executions
    BY DEF Leased
  <2> QED BY <2>1, <2>2, FS_Subset, FS_CardinalityType
<1>4. BoundType'
  BY <1>1, <1>3, BoundsAssumption DEF ReapScan, Spend, TypeInv, TypeOK, BoundType
<1>5. Framed("reaper") /\ LocalOK("reaper")'
  BY <1>1, <1>2, ListFrame, ProcNames DEF ReapScan, LoopLabels
<1> QED BY <1>1, <1>4, <1>5, Unchanged, Together, ProcNames

\* WaitingScan keeps TypeInv.
LEMMA WaitingScanType == TypeInv /\ WaitingScan => TypeInv'
<1> SUFFICES ASSUME TypeInv, WaitingScan PROVE TypeInv'
  OBVIOUS
<1>1. UNCHANGED <<storeVars, registryVars, wireVars, localVars, open, entry, boundVars>>
  BY DEF WaitingScan
<1>2. InStates(WaitingStates) \in SUBSET Known
  BY StoreReads, NotAbsent DEF TypeInv, TypeOK
<1>3. Framed("reaper") /\ LocalOK("reaper")'
  BY <1>1, <1>2, ListFrame, ProcNames DEF WaitingScan, LoopLabels
<1> QED BY <1>1, <1>3, Unchanged, Together, ProcNames

\* AbandonNext keeps TypeInv.
LEMMA AbandonNextType == ASSUME NEW p \in Procs PROVE TypeInv /\ AbandonNext(p) => TypeInv'
<1> SUFFICES ASSUME TypeInv, AbandonNext(p) PROVE TypeInv'
  OBVIOUS
<1>1. UNCHANGED <<storeVars, registryVars, wireVars, open, loop, entry, boundVars>>
  BY DEF AbandonNext
<1>2. PICK s \in todo[p] : todo' = [todo EXCEPT ![p] = @ \ {s}] /\ Hold(p, s, s.cur, "None")
  BY DEF AbandonNext
<1>3. s \in Known /\ s.cur \in 0 .. MaxAttempt /\ StoreGrows
      /\ \E t \in SUBSET todo[p] : todo' = [todo EXCEPT ![p] = t]
  BY <1>1, <1>2, Unchanged DEF TypeInv, LocalOK, Known, ExecutionRecords
<1>4. Framed(p) /\ LocalOK(p)'
  BY <1>1, <1>2, <1>3, HoldFrame DEF AbandonNext, HandlerLabels, AttemptLabels
<1> QED BY <1>1, <1>4, Unchanged, Together

\* RewaitNext keeps TypeInv.
LEMMA RewaitNextType == ASSUME NEW p \in Procs PROVE TypeInv /\ RewaitNext(p) => TypeInv'
<1> SUFFICES ASSUME TypeInv, RewaitNext(p) PROVE TypeInv'
  OBVIOUS
<1>1. UNCHANGED <<storeVars, registryVars, wireVars, open, loop, entry, boundVars>>
  BY DEF RewaitNext
<1>2. PICK s \in todo[p] :
        /\ todo' = [todo EXCEPT ![p] = @ \ {s}]
        /\ \/ Hold(p, s, 0, "None") /\ Goto(p, "requeue")
           \/ Return(p, todo'[p], open[p]) /\ UNCHANGED localVars
  BY DEF RewaitNext
<1>3. s \in Known /\ StoreGrows /\ \E t \in SUBSET todo[p] : todo' = [todo EXCEPT ![p] = t]
  BY <1>1, <1>2, Unchanged DEF TypeInv, LocalOK
<1>4. CASE Hold(p, s, 0, "None") /\ Goto(p, "requeue")
  <2>1. Framed(p) /\ LocalOK(p)'
    BY <1>1, <1>3, <1>4, HoldFrame, NotAbsent DEF HandlerLabels, AttemptLabels
  <2> QED BY <1>1, <2>1, Unchanged, Together
<1>5. CASE Return(p, todo'[p], open[p]) /\ UNCHANGED localVars
  <2>1. Framed(p) /\ LocalOK(p)'
    BY <1>1, <1>3, <1>5, SkipFrame
  <2> QED BY <1>1, <2>1, Unchanged, Together
<1> QED BY <1>2, <1>4, <1>5

-----------------------------------------------------------------------------
(* The readers of the connections.                                           *)

\* Register keeps TypeInv.
LEMMA RegisterType ==
    ASSUME NEW i \in Instances, NEW c \in Conns PROVE TypeInv /\ Register(i, c) => TypeInv'
<1> SUFFICES ASSUME TypeInv, Register(i, c) PROVE TypeInv'
  OBVIOUS
<1>1. UNCHANGED <<storeVars, inFlight, toExecutor, toEngine, work, localVars, listVars, loop, entry, boundVars>>
  BY DEF Register
<1>2. StoreType' /\ StoreOK' /\ StoreGrows /\ Known' = Known /\ Issued' = Issued
  BY <1>1, Unchanged
<1>3. RegistryType' /\ WireType' /\ WireOK'
  BY <1>1, <1>2, WireFrame DEF Register, TypeInv, TypeOK, RegistryType, WireType
<1>4. Framed(c)
  BY <1>1, ProcNames DEF Register, Goto, TypeInv, TypeOK, ControlType, Framed, localVars, listVars, Labels
<1>5. LocalOK(c)'
  BY <1>1, <1>2, ProcNames DEF Register, Goto, TypeInv, TypeOK, ControlType, LocalOK, localVars, listVars, HandlerLabels, AttemptLabels
<1> QED BY <1>1, <1>2, <1>3, <1>4, <1>5, Unchanged, Together, ProcNames

\* Reconsider keeps TypeInv.
LEMMA ReconsiderType == ASSUME NEW c \in Conns PROVE TypeInv /\ Reconsider(c) => TypeInv'
<1> SUFFICES ASSUME TypeInv, Reconsider(c) PROVE TypeInv'
  OBVIOUS
<1>1. UNCHANGED <<storeVars, registryVars, wireVars, localVars, open, entry, boundVars>>
  BY DEF Reconsider
<1>2. InStates(WaitingStates) \in SUBSET Known
  BY StoreReads, NotAbsent DEF TypeInv, TypeOK
<1>3. Framed(c) /\ LocalOK(c)'
  BY <1>1, <1>2, ListFrame, ProcNames DEF Reconsider, LoopLabels
<1> QED BY <1>1, <1>3, Unchanged, Together, ProcNames

\* The head of a queue is a message about an attempt that exists, and taking it
\* off leaves a queue of such messages.
LEMMA ReceiveOK ==
    ASSUME TypeInv, NEW c \in Conns, NEW types, Receive(c, types), UNCHANGED <<storeVars, up, toExecutor, work>>
    PROVE  /\ Head(toEngine[c]) \in IssuedMessages /\ Head(toEngine[c]).att \in Issued
           /\ Head(toEngine[c]).type \in types
           /\ WireType' /\ WireOK'
           /\ executions[attempts[Head(toEngine[c]).att].exec] \in Known
<1>1. toEngine[c] \in Seq(IssuedMessages) /\ toEngine[c] # <<>>
  BY DEF Receive, TypeInv, WireOK
<1>2. Head(toEngine[c]) \in IssuedMessages /\ Tail(toEngine[c]) \in Seq(IssuedMessages)
  BY <1>1, HeadTailProperties
<1>3. toEngine' \in [Conns -> Seq(IssuedMessages)]
  BY <1>2 DEF Receive, TypeInv, WireOK
<1>4. toEngine' \in [Conns -> Seq(Messages)]
  BY <1>3, SeqMonotonic DEF IssuedMessages
<1>5. Issued' = Issued /\ IssuedMessages' = IssuedMessages
  BY Unchanged DEF IssuedMessages
<1> QED BY <1>2, <1>3, <1>4, <1>5, StoreReads DEF Receive, IssuedMessages, Issued, TypeInv, TypeOK, WireType, WireOK

\* HandleExecAccept keeps TypeInv.
LEMMA HandleExecAcceptType == ASSUME NEW c \in Conns PROVE TypeInv /\ HandleExecAccept(c) => TypeInv'
<1> SUFFICES ASSUME TypeInv, HandleExecAccept(c) PROVE TypeInv'
  OBVIOUS
<1> DEFINE a == Head(toEngine[c]).att  e == executions[attempts[a].exec]
<1>1. UNCHANGED <<storeVars, registryVars, up, toExecutor, work, listVars, loop, entry, boundVars>>
  BY DEF HandleExecAccept
<1>2. a \in Issued /\ a \in 0 .. MaxAttempt /\ e \in Known /\ WireType' /\ WireOK' /\ StoreGrows
  BY <1>1, ReceiveOK, NotAbsent, Unchanged DEF HandleExecAccept, Issued
<1>3. CASE Goto(c, "acceptRun") /\ Hold(c, e, a, "None")
  <2>1. Framed(c) /\ LocalOK(c)'
    BY <1>1, <1>2, <1>3, HoldFrame, ProcNames DEF HandlerLabels, AttemptLabels, listVars
  <2> QED BY <1>1, <1>2, <2>1, Unchanged, Together, ProcNames
<1>4. CASE UNCHANGED <<pc, localVars>>
  <2>1. Framed(c) /\ LocalOK(c)'
    BY <1>1, <1>4, Unchanged, ProcNames DEF Framed, TypeInv, TypeOK, ControlType, LocalOK, localVars, listVars
  <2> QED BY <1>1, <1>2, <2>1, Unchanged, Together, ProcNames
<1> QED BY <1>3, <1>4 DEF HandleExecAccept

\* AcceptRun keeps TypeInv.
LEMMA AcceptRunType == ASSUME NEW c \in Conns PROVE TypeInv /\ AcceptRun(c) => TypeInv'
<1> SUFFICES ASSUME TypeInv, AcceptRun(c) PROVE TypeInv'
  OBVIOUS
<1> DEFINE s == exec[c]
<1>1. s \in Known /\ s.id \in Executions /\ pc[c] = "acceptRun"
  BY ProcNames DEF AcceptRun, TypeInv, LocalOK, HandlerLabels, Known, Existing
<1>2. UNCHANGED <<attempts, lastAttempt, job, registryVars, wireVars, listVars, loop, entry, boundVars>>
  BY DEF AcceptRun
<1>3. CASE /\ executions' = Updated(s, "Running", s.fa + 1, executions[s.id].cur)
           /\ Goto(c, "acceptMark") /\ UNCHANGED localVars
  <2>1. s.fa + 1 \in Nat /\ executions[s.id].cur \in 0 .. MaxAttempt /\ "Running" \in ExecutionStateSet
    BY <1>1 DEF TypeInv, TypeOK, StoreType, Known, ExecutionRecords, ExecutionStateSet, LeasedStates
  <2>2. StoreType' /\ StoreOK' /\ StoreGrows
    BY <1>1, <1>2, <1>3, <2>1, WriteOK DEF TypeInv, TypeOK
  <2>3. Framed(c) /\ LocalOK(c)'
    BY <1>1, <1>2, <1>3, <2>2, MoveFrame, ProcNames DEF HandlerLabels, AttemptLabels
  <2> QED BY <1>2, <2>2, <2>3, Unchanged, Together, ProcNames
<1>4. CASE Finish(c) /\ UNCHANGED executions
  BY <1>2, <1>4, FinishFrame, Unchanged, Together, ProcNames DEF storeVars
<1> QED BY <1>3, <1>4 DEF AcceptRun

\* AcceptMark keeps TypeInv.
LEMMA AcceptMarkType == ASSUME NEW c \in Conns PROVE TypeInv /\ AcceptMark(c) => TypeInv'
<1> SUFFICES ASSUME TypeInv, AcceptMark(c) PROVE TypeInv'
  OBVIOUS
<1>1. UNCHANGED <<executions, lastAttempt, job, registryVars, wireVars, listVars, loop, entry, boundVars>>
  BY DEF AcceptMark
<1>2. att[c] \in 0 .. MaxAttempt /\ "Accepted" \in AttemptStateSet /\ "Absent" \notin {"Dispatched"}
  BY ProcNames DEF TypeInv, TypeOK, ControlType, AttemptStateSet, OpenAttemptStates
<1>3. StoreType' /\ StoreOK' /\ StoreGrows
  BY <1>1, <1>2, MarkOK DEF AcceptMark, TypeInv, TypeOK
<1> QED BY <1>1, <1>3, FinishFrame, Unchanged, Together, ProcNames DEF AcceptMark

\* HandleExecReject keeps TypeInv.
LEMMA HandleExecRejectType == ASSUME NEW c \in Conns PROVE TypeInv /\ HandleExecReject(c) => TypeInv'
<1> SUFFICES ASSUME TypeInv, HandleExecReject(c) PROVE TypeInv'
  OBVIOUS
<1> DEFINE m == Head(toEngine[c])  e == executions[attempts[m.att].exec]
           g == IF m.type = "incompatible" THEN "WaitingCompatible" ELSE "Ready"
<1>1. UNCHANGED <<storeVars, registryVars, up, toExecutor, work, listVars, loop, entry, boundVars>>
  BY DEF HandleExecReject
<1>2. m.att \in Issued /\ m.att \in 0 .. MaxAttempt /\ e \in Known /\ WireType' /\ WireOK' /\ StoreGrows
  BY <1>1, ReceiveOK, NotAbsent, Unchanged DEF HandleExecReject, Issued
<1>3. CASE Goto(c, "rejectMark") /\ Hold(c, e, m.att, g)
  <2>1. g \in {"Ready", "WaitingCompatible"} /\ g \in ExecutionStateSet \cup {"None"}
    BY DEF ExecutionStateSet, DueStates, WaitingStates
  <2> HIDE DEF g
  <2>2. Framed(c) /\ LocalOK(c)'
    BY <1>1, <1>2, <1>3, <2>1, HoldFrame, ProcNames DEF HandlerLabels, AttemptLabels, listVars
  <2> QED BY <1>1, <1>2, <2>2, Unchanged, Together, ProcNames
<1>4. CASE UNCHANGED <<pc, localVars>>
  <2>1. Framed(c) /\ LocalOK(c)'
    BY <1>1, <1>4, Unchanged, ProcNames DEF Framed, TypeInv, TypeOK, ControlType, LocalOK, localVars, listVars
  <2> QED BY <1>1, <1>2, <2>1, Unchanged, Together, ProcNames
<1> QED BY <1>3, <1>4 DEF HandleExecReject

\* RejectMark keeps TypeInv.
LEMMA RejectMarkType == ASSUME NEW c \in Conns PROVE TypeInv /\ RejectMark(c) => TypeInv'
<1> SUFFICES ASSUME TypeInv, RejectMark(c) PROVE TypeInv'
  OBVIOUS
<1>1. UNCHANGED <<executions, lastAttempt, job, registered, host, wireVars, listVars, loop, entry, boundVars>>
  BY DEF RejectMark
<1>2. att[c] \in 0 .. MaxAttempt /\ "InfraFailed" \in AttemptStateSet /\ "Absent" \notin {"Dispatched"}
  BY ProcNames DEF TypeInv, TypeOK, ControlType, AttemptStateSet, AttemptTerminalStates
<1>3. StoreType' /\ StoreOK' /\ StoreGrows
  BY <1>1, <1>2, MarkOK DEF RejectMark, TypeInv, TypeOK
<1>4. CASE /\ Release(host[c], att[c])
           /\ Goto(c, IF goal[c] = "Ready" THEN "requeue" ELSE "transition")
           /\ UNCHANGED localVars
  <2>1. RegistryType'
    BY <1>1, <1>4, ReleaseOK DEF TypeInv, TypeOK
  <2>2. pc[c] = "rejectMark" /\ goal[c] # "None"
    BY ProcNames DEF RejectMark, TypeInv, LocalOK
  <2>3. Framed(c) /\ LocalOK(c)'
    BY <1>1, <1>3, <1>4, <2>2, MoveFrame, ProcNames DEF HandlerLabels, AttemptLabels
  <2> QED BY <1>1, <1>3, <2>1, <2>3, Unchanged, Together, ProcNames
<1>5. CASE Finish(c) /\ UNCHANGED inFlight
  BY <1>1, <1>3, <1>5, FinishFrame, Unchanged, Together, ProcNames DEF registryVars
<1> QED BY <1>4, <1>5 DEF RejectMark

\* HandleExecResult keeps TypeInv.
LEMMA HandleExecResultType == ASSUME NEW c \in Conns PROVE TypeInv /\ HandleExecResult(c) => TypeInv'
<1> SUFFICES ASSUME TypeInv, HandleExecResult(c) PROVE TypeInv'
  OBVIOUS
<1> DEFINE m == Head(toEngine[c])  e == executions[attempts[m.att].exec]
           g == IF m.type = "retryable" THEN "RetryWait" ELSE "Failed"
           label == IF m.type = "ok" THEN "succeed" ELSE "failMark"
<1>1. UNCHANGED <<storeVars, registered, host, up, toExecutor, work, listVars, loop, entry, boundVars>>
  BY DEF HandleExecResult
<1>2. m.att \in Issued /\ m.att \in 0 .. MaxAttempt /\ e \in Known /\ WireType' /\ WireOK' /\ StoreGrows
  BY <1>1, ReceiveOK, NotAbsent, Unchanged DEF HandleExecResult, Issued
<1>3. CASE Release(host[c], m.att) /\ Goto(c, label) /\ Hold(c, e, m.att, g)
  <2>1. RegistryType'
    BY <1>1, <1>3, ReleaseOK DEF TypeInv, TypeOK
  <2>2. g \in ExecutionStateSet \cup {"None"} /\ label \in {"succeed", "failMark"}
    BY DEF ExecutionStateSet, DueStates, TerminalStates
  <2> HIDE DEF g, label
  <2>3. Framed(c) /\ LocalOK(c)'
    BY <1>1, <1>2, <1>3, <2>2, HoldFrame, ProcNames DEF HandlerLabels, AttemptLabels, listVars
  <2> QED BY <1>1, <1>2, <2>1, <2>3, Unchanged, Together, ProcNames
<1>4. CASE UNCHANGED <<pc, localVars, inFlight>>
  <2>1. Framed(c) /\ LocalOK(c)'
    BY <1>1, <1>4, Unchanged, ProcNames DEF Framed, TypeInv, TypeOK, ControlType, LocalOK, localVars, listVars
  <2> QED BY <1>1, <1>2, <1>4, <2>1, Unchanged, Together, ProcNames DEF registryVars
<1> QED BY <1>3, <1>4 DEF HandleExecResult

\* Succeed keeps TypeInv.
LEMMA SucceedType == ASSUME NEW c \in Conns PROVE TypeInv /\ Succeed(c) => TypeInv'
<1> SUFFICES ASSUME TypeInv, Succeed(c) PROVE TypeInv'
  OBVIOUS
<1> DEFINE s == exec[c]
<1>1. s \in Known /\ s.id \in Executions /\ pc[c] = "succeed"
  BY ProcNames DEF Succeed, TypeInv, LocalOK, HandlerLabels, Known, Existing
<1>2. UNCHANGED <<attempts, lastAttempt, job, registryVars, wireVars, listVars, loop, entry, boundVars>>
  BY DEF Succeed
<1>3. CASE /\ executions' = Updated(s, "Succeeded", executions[s.id].fa, executions[s.id].cur)
           /\ Goto(c, "succeedMark") /\ UNCHANGED localVars
  <2>1. /\ executions[s.id].fa \in Nat /\ executions[s.id].cur \in 0 .. MaxAttempt
        /\ "Succeeded" \in ExecutionStateSet
    BY <1>1 DEF TypeInv, TypeOK, StoreType, ExecutionRecords, ExecutionStateSet, TerminalStates
  <2>2. StoreType' /\ StoreOK' /\ StoreGrows
    BY <1>1, <1>2, <1>3, <2>1, WriteOK DEF TypeInv, TypeOK
  <2>3. Framed(c) /\ LocalOK(c)'
    BY <1>1, <1>2, <1>3, <2>2, MoveFrame, ProcNames DEF HandlerLabels, AttemptLabels
  <2> QED BY <1>2, <2>2, <2>3, Unchanged, Together, ProcNames
<1>4. CASE Finish(c) /\ UNCHANGED executions
  BY <1>2, <1>4, FinishFrame, Unchanged, Together, ProcNames DEF storeVars
<1> QED BY <1>3, <1>4 DEF Succeed

\* SucceedMark keeps TypeInv.
LEMMA SucceedMarkType == ASSUME NEW c \in Conns PROVE TypeInv /\ SucceedMark(c) => TypeInv'
<1> SUFFICES ASSUME TypeInv, SucceedMark(c) PROVE TypeInv'
  OBVIOUS
<1>1. UNCHANGED <<executions, lastAttempt, job, registryVars, wireVars, listVars, loop, entry, boundVars>>
  BY DEF SucceedMark
<1>2. att[c] \in 0 .. MaxAttempt /\ "Succeeded" \in AttemptStateSet /\ "Absent" \notin {"Accepted"}
  BY ProcNames DEF TypeInv, TypeOK, ControlType, AttemptStateSet, AttemptTerminalStates
<1>3. StoreType' /\ StoreOK' /\ StoreGrows
  BY <1>1, <1>2, MarkOK DEF SucceedMark, TypeInv, TypeOK
<1> QED BY <1>1, <1>3, FinishFrame, Unchanged, Together, ProcNames DEF SucceedMark

\* FailMark keeps TypeInv.
LEMMA FailMarkType == ASSUME NEW c \in Conns PROVE TypeInv /\ FailMark(c) => TypeInv'
<1> SUFFICES ASSUME TypeInv, FailMark(c) PROVE TypeInv'
  OBVIOUS
<1>1. UNCHANGED <<executions, lastAttempt, job, registryVars, wireVars, listVars, loop, entry, boundVars>>
  BY DEF FailMark
<1>2. att[c] \in 0 .. MaxAttempt /\ "FunctionFailed" \in AttemptStateSet /\ "Absent" \notin {"Accepted"}
  BY ProcNames DEF TypeInv, TypeOK, ControlType, AttemptStateSet, AttemptTerminalStates
<1>3. StoreType' /\ StoreOK' /\ StoreGrows
  BY <1>1, <1>2, MarkOK DEF FailMark, TypeInv, TypeOK
<1>4. PICK g \in {"RetryWait", "Failed"} : Hold(c, exec[c], att[c], g) /\ Goto(c, "transition")
  BY DEF FailMark
<1>5. exec[c] \in Known /\ g \in ExecutionStateSet /\ g # "None"
  BY ProcNames DEF FailMark, TypeInv, LocalOK, HandlerLabels, ExecutionStateSet, DueStates, TerminalStates
<1>6. Framed(c) /\ LocalOK(c)'
  BY <1>1, <1>2, <1>3, <1>4, <1>5, HoldFrame, ProcNames DEF HandlerLabels, AttemptLabels, listVars
<1> QED BY <1>1, <1>3, <1>6, Unchanged, Together, ProcNames

\* Deregister keeps TypeInv.
LEMMA DeregisterType == ASSUME NEW c \in Conns PROVE TypeInv /\ Deregister(c) => TypeInv'
<1> SUFFICES ASSUME TypeInv, Deregister(c) PROVE TypeInv'
  OBVIOUS
<1>1. UNCHANGED <<storeVars, host, inFlight, wireVars, localVars, listVars, loop, entry, boundVars>>
  BY DEF Deregister
<1>2. RegistryType'
  BY <1>1 DEF Deregister, TypeInv, TypeOK, RegistryType
<1>3. PICK l \in {"disconnectList", "closed"} : Goto(c, l)
  BY DEF Deregister
<1>4. Framed(c)
  BY <1>1, <1>3, ProcNames DEF Goto, TypeInv, TypeOK, ControlType, Framed, localVars, listVars, Labels
<1>5. LocalOK(c)'
  BY <1>1, <1>3, ProcNames, Unchanged DEF Goto, TypeInv, TypeOK, ControlType, LocalOK, localVars, listVars, HandlerLabels, AttemptLabels
<1> QED BY <1>1, <1>2, <1>4, <1>5, Unchanged, Together, ProcNames

\* DisconnectList keeps TypeInv.
LEMMA DisconnectListType == ASSUME NEW c \in Conns PROVE TypeInv /\ DisconnectList(c) => TypeInv'
<1> SUFFICES ASSUME TypeInv, DisconnectList(c) PROVE TypeInv'
  OBVIOUS
<1>1. UNCHANGED <<storeVars, registryVars, wireVars, localVars, todo, entry, boundVars>>
  BY DEF DisconnectList
<1>2. OpenOn(host[c]) \in SUBSET Issued
  BY NotAbsent DEF OpenOn, TypeInv, StoreOK
<1>3. Framed(c) /\ LocalOK(c)'
  BY <1>1, <1>2, OpenFrame, ProcNames DEF DisconnectList, LoopLabels
<1> QED BY <1>1, <1>3, Unchanged, Together, ProcNames

\* One round of a loop over open attempts.
LEMMA NextOpenOK ==
    ASSUME NEW p \in Procs, TypeInv, NEW label \in {"abandon", "transition"},
           NextOpen(p, label), UNCHANGED <<storeVars, todo, loop, entry>>
    PROVE  Framed(p) /\ LocalOK(p)'
<1>1. PICK a \in open[p] :
        LET e == executions[attempts[a].exec] IN
        /\ open' = [open EXCEPT ![p] = @ \ {a}]
        /\ \/ e.state \in LeasedStates /\ Goto(p, label)
              /\ Hold(p, e, a, IF label = "transition" THEN e.state ELSE "None")
           \/ Return(p, todo[p], open'[p]) /\ UNCHANGED localVars
  BY DEF NextOpen
<1> DEFINE e == executions[attempts[a].exec]
           g == IF label = "transition" THEN e.state ELSE "None"
<1>2. a \in Issued /\ a \in 0 .. MaxAttempt /\ e \in Known /\ StoreGrows
  BY StoreReads, NotAbsent, Unchanged DEF TypeInv, TypeOK, LocalOK, Issued
<1>3. \E t \in SUBSET open[p] : open' = [open EXCEPT ![p] = t]
  BY <1>1
<1>4. CASE e.state \in LeasedStates /\ Goto(p, label) /\ Hold(p, e, a, g)
  <2>1. label \in HandlerLabels /\ label \notin AttemptLabels /\ label \notin {"rejectMark", "claim"}
    BY DEF HandlerLabels, AttemptLabels
  <2>2. g \in ExecutionStateSet \cup {"None"} /\ (label = "transition" => g # "None")
    BY <1>4, NotAbsent
  <2> HIDE DEF e, g
  <2> QED BY <1>2, <1>3, <1>4, <2>1, <2>2, HoldFrame DEF AttemptLabels
<1>5. CASE Return(p, todo[p], open'[p]) /\ UNCHANGED localVars
  BY <1>3, <1>5, SkipFrame
<1> QED BY <1>1, <1>4, <1>5

\* DisconnectNext keeps TypeInv.
LEMMA DisconnectNextType == ASSUME NEW c \in Conns PROVE TypeInv /\ DisconnectNext(c) => TypeInv'
<1> SUFFICES ASSUME TypeInv, DisconnectNext(c) PROVE TypeInv'
  OBVIOUS
<1>1. UNCHANGED <<storeVars, registryVars, wireVars, todo, loop, entry, boundVars>>
  BY DEF DisconnectNext
<1>2. Framed(c) /\ LocalOK(c)'
  BY <1>1, NextOpenOK, ProcNames DEF DisconnectNext
<1> QED BY <1>1, <1>2, Unchanged, Together, ProcNames

-----------------------------------------------------------------------------
(* The heartbeat pump and the job operations.                                *)

\* HandleHeartbeat keeps TypeInv.
LEMMA HandleHeartbeatType == ASSUME NEW i \in Instances PROVE TypeInv /\ HandleHeartbeat(i) => TypeInv'
<1> SUFFICES ASSUME TypeInv, HandleHeartbeat(i) PROVE TypeInv'
  OBVIOUS
<1>1. UNCHANGED <<storeVars, registryVars, wireVars, localVars, todo, entry, jobOps>>
  BY DEF HandleHeartbeat
<1>2. PICK S \in SUBSET OpenOn(i) : open' = [open EXCEPT !["pump"] = S]
  BY DEF HandleHeartbeat
<1>3. S \in SUBSET Issued
  BY <1>2, StoreReads DEF TypeInv, TypeOK
<1>4. BoundType'
  BY <1>1, BoundsAssumption DEF HandleHeartbeat, Spend, TypeInv, TypeOK, BoundType
<1>5. Framed("pump") /\ LocalOK("pump")'
  BY <1>1, <1>2, <1>3, OpenFrame, ProcNames DEF HandleHeartbeat, LoopLabels
<1> QED BY <1>1, <1>4, <1>5, Unchanged, Together, ProcNames

\* HeartbeatNext keeps TypeInv.
LEMMA HeartbeatNextType == TypeInv /\ HeartbeatNext => TypeInv'
<1> SUFFICES ASSUME TypeInv, HeartbeatNext PROVE TypeInv'
  OBVIOUS
<1>1. UNCHANGED <<storeVars, registryVars, wireVars, todo, loop, entry, boundVars>>
  BY DEF HeartbeatNext
<1>2. Framed("pump") /\ LocalOK("pump")'
  BY <1>1, NextOpenOK, ProcNames DEF HeartbeatNext
<1> QED BY <1>1, <1>2, Unchanged, Together, ProcNames

\* A change of the job alone.
LEMMA JobFrame ==
    ASSUME TypeInv, job' \in {"enabled", "disabled", "deleted"}, UNCHANGED <<executions, attempts, lastAttempt>>
    PROVE  StoreType' /\ StoreOK' /\ StoreGrows /\ Known' = Known /\ Issued' = Issued
  BY DEF TypeInv, TypeOK, StoreType, StoreOK, StoreGrows, Existing, Issued, Known

\* The job operations' process moves between labels of its loops.
LEMMA AdminFrame ==
    ASSUME TypeInv, NEW label \in {"cancelList", "idle"}, Goto("admin", label),
           UNCHANGED <<localVars, listVars, loop, entry>>, Known' = Known, Issued' = Issued
    PROVE  Framed("admin") /\ LocalOK("admin")'
<1>1. Framed("admin")
  BY ProcNames DEF Goto, TypeInv, TypeOK, ControlType, Framed, localVars, listVars, Labels
<1>2. LocalOK("admin")'
  BY ProcNames DEF Goto, TypeInv, TypeOK, ControlType, LocalOK, localVars, listVars, HandlerLabels, AttemptLabels
<1> QED BY <1>1, <1>2

\* HandleJobUpsert keeps TypeInv.
LEMMA HandleJobUpsertType == TypeInv /\ HandleJobUpsert => TypeInv'
<1> SUFFICES ASSUME TypeInv, HandleJobUpsert PROVE TypeInv'
  OBVIOUS
<1>1. UNCHANGED <<executions, attempts, lastAttempt, registryVars, wireVars, localVars, listVars, loop, entry, events>>
  BY DEF HandleJobUpsert
<1>2. StoreType' /\ StoreOK' /\ StoreGrows /\ Known' = Known /\ Issued' = Issued
  BY <1>1, JobFrame DEF HandleJobUpsert
<1>3. BoundType'
  BY <1>1 DEF HandleJobUpsert, TypeInv, TypeOK, BoundType
<1>4. Framed("admin") /\ LocalOK("admin")'
  BY <1>1, <1>2, AdminFrame DEF HandleJobUpsert
<1> QED BY <1>1, <1>2, <1>3, <1>4, Unchanged, Together, ProcNames

\* DeleteJob keeps TypeInv.
LEMMA DeleteJobType == TypeInv /\ DeleteJob => TypeInv'
<1> SUFFICES ASSUME TypeInv, DeleteJob PROVE TypeInv'
  OBVIOUS
<1>1. UNCHANGED <<executions, attempts, lastAttempt, registryVars, wireVars, localVars, listVars, loop, entry, boundVars>>
  BY DEF DeleteJob
<1>2. StoreType' /\ StoreOK' /\ StoreGrows /\ Known' = Known /\ Issued' = Issued
  BY <1>1, JobFrame DEF DeleteJob
<1>3. Framed("admin") /\ LocalOK("admin")'
  BY <1>1, <1>2, AdminFrame DEF DeleteJob
<1> QED BY <1>1, <1>2, <1>3, Unchanged, Together, ProcNames

\* CancelReplaced keeps TypeInv.
LEMMA CancelReplacedType == TypeInv /\ CancelReplaced => TypeInv'
<1> SUFFICES ASSUME TypeInv, CancelReplaced PROVE TypeInv'
  OBVIOUS
<1>1. UNCHANGED <<storeVars, registryVars, wireVars, localVars, open, entry, boundVars>>
  BY DEF CancelReplaced
<1>2. Cancellable \in SUBSET Known
  BY StoreReads, NotAbsent DEF Cancellable, TypeInv, TypeOK
<1>3. Framed("admin") /\ LocalOK("admin")'
  BY <1>1, <1>2, ListFrame, ProcNames DEF CancelReplaced, LoopLabels
<1> QED BY <1>1, <1>3, Unchanged, Together, ProcNames

\* HandleJobDelete keeps TypeInv.
LEMMA HandleJobDeleteType == TypeInv /\ HandleJobDelete => TypeInv'
<1> SUFFICES ASSUME TypeInv, HandleJobDelete PROVE TypeInv'
  OBVIOUS
<1>1. UNCHANGED <<storeVars, registryVars, wireVars, localVars, open, entry, events>>
  BY DEF HandleJobDelete
<1>2. Cancellable \in SUBSET Known
  BY StoreReads, NotAbsent DEF Cancellable, TypeInv, TypeOK
<1>3. BoundType'
  BY <1>1 DEF HandleJobDelete, TypeInv, TypeOK, BoundType
<1>4. Framed("admin") /\ LocalOK("admin")'
  BY <1>1, <1>2, ListFrame, ProcNames DEF HandleJobDelete, LoopLabels
<1> QED BY <1>1, <1>3, <1>4, Unchanged, Together, ProcNames

\* CancelNext keeps TypeInv.
LEMMA CancelNextType == TypeInv /\ CancelNext => TypeInv'
<1> SUFFICES ASSUME TypeInv, CancelNext PROVE TypeInv'
  OBVIOUS
<1> DEFINE p == "admin"
<1>1. UNCHANGED <<storeVars, registryVars, wireVars, open, loop, entry, boundVars>>
  BY DEF CancelNext
<1>2. PICK s \in todo[p] : todo' = [todo EXCEPT ![p] = @ \ {s}] /\ Hold(p, s, 0, "Cancelled")
  BY DEF CancelNext
<1>3. s \in Known /\ StoreGrows /\ \E t \in SUBSET todo[p] : todo' = [todo EXCEPT ![p] = t]
  BY <1>1, <1>2, Unchanged, ProcNames DEF TypeInv, LocalOK
<1>4. "Cancelled" \in ExecutionStateSet /\ Goto(p, "transition")
  BY DEF CancelNext, ExecutionStateSet, TerminalStates
<1>5. Framed(p) /\ LocalOK(p)'
  BY <1>1, <1>2, <1>3, <1>4, HoldFrame, ProcNames, NotAbsent DEF HandlerLabels, AttemptLabels
<1> QED BY <1>1, <1>5, Unchanged, Together, ProcNames

-----------------------------------------------------------------------------
(* The executors, the transport and the scheduler's restart.                 *)

\* A step outside the scheduler.
LEMMA WireTogether ==
    ASSUME TypeInv, UNCHANGED <<storeVars, registryVars, controlVars, localVars, listVars, entry, jobOps>>,
           events' \in 0 .. MaxEvents, up' \subseteq Conns,
           work' \in [Attempts -> {"none", "running", "ok", "retryable", "fatal", "gone"}],
           toExecutor' \in [Conns -> Seq(Issued)], toEngine' \in [Conns -> Seq(IssuedMessages)],
           \A a \in Attempts : work'[a] # "none" => a \in Issued
    PROVE  TypeInv'
<1>1. StoreType' /\ StoreOK' /\ StoreGrows /\ Known' = Known /\ Issued' = Issued /\ RegistryType'
  BY Unchanged
<1>2. IssuedMessages' = IssuedMessages
  BY <1>1 DEF IssuedMessages
<1>3. toExecutor' \in [Conns -> Seq(Attempts)] /\ toEngine' \in [Conns -> Seq(Messages)]
  <2>1. Issued \subseteq Attempts /\ IssuedMessages \subseteq Messages
    BY DEF Issued, IssuedMessages
  <2>2. \A c \in Conns : toExecutor'[c] \in Seq(Attempts) /\ toEngine'[c] \in Seq(Messages)
    BY <2>1, SeqMonotonic
  <2> QED BY <2>2
<1>4. WireType' /\ WireOK' /\ BoundType'
  BY <1>1, <1>2, <1>3 DEF WireType, WireOK, BoundType, TypeInv, TypeOK
<1>5. ControlType' /\ \A p \in Procs : LocalOK(p)'
  BY <1>1 DEF TypeInv, TypeOK, ControlType, LocalOK, controlVars, localVars, listVars
<1> QED BY <1>1, <1>4, <1>5 DEF TypeInv, TypeOK

\* Queueing a message about an attempt that exists.
LEMMA SinkOK ==
    ASSUME WireOK, NEW c \in Conns, NEW a \in Issued,
           NEW t \in {"accept", "reject", "incompatible", "ok", "retryable", "fatal"},
           Sink(c, [type |-> t, att |-> a])
    PROVE  toEngine' \in [Conns -> Seq(IssuedMessages)]
<1> DEFINE m == [type |-> t, att |-> a]
<1>1. m \in IssuedMessages
  BY DEF IssuedMessages, Messages, Issued
<1>2. toEngine[c] \in Seq(IssuedMessages)
  BY DEF WireOK
<1> HIDE DEF m
<1>3. Append(toEngine[c], m) \in Seq(IssuedMessages)
  BY <1>1, <1>2, AppendProperties
<1> QED BY <1>3 DEF Sink, WireOK, m

\* HandleExecRequest keeps TypeInv.
LEMMA HandleExecRequestType == ASSUME NEW c \in Conns PROVE TypeInv /\ HandleExecRequest(c) => TypeInv'
<1> SUFFICES ASSUME TypeInv, HandleExecRequest(c) PROVE TypeInv'
  OBVIOUS
<1> DEFINE a == Head(toExecutor[c])
<1>1. UNCHANGED <<storeVars, registryVars, up, controlVars, localVars, listVars, entry, jobOps>>
  BY DEF HandleExecRequest
<1>2. a \in Issued /\ a \in Attempts /\ Tail(toExecutor[c]) \in Seq(Issued)
  <2>1. toExecutor[c] \in Seq(Issued) /\ toExecutor[c] # <<>>
    BY DEF HandleExecRequest, TypeInv, WireOK
  <2> QED BY <2>1, HeadTailProperties DEF Issued
<1>3. toExecutor' \in [Conns -> Seq(Issued)]
  BY <1>2 DEF HandleExecRequest, TypeInv, WireOK
<1> HIDE DEF a
<1>4. /\ work' \in [Attempts -> {"none", "running", "ok", "retryable", "fatal", "gone"}]
      /\ \A b \in Attempts : work'[b] # "none" => b \in Issued
  BY <1>2 DEF HandleExecRequest, a, TypeInv, TypeOK, WireType, WireOK
<1>5. events' \in 0 .. MaxEvents
  BY BoundsAssumption DEF HandleExecRequest, Spend, TypeInv, TypeOK, BoundType
<1>6. \/ \E t \in {"accept", "reject", "incompatible"} : Sink(c, [type |-> t, att |-> a])
      \/ UNCHANGED toEngine
  BY DEF HandleExecRequest, a
<1>7. toEngine' \in [Conns -> Seq(IssuedMessages)]
  BY <1>2, <1>6, SinkOK DEF TypeInv, WireOK
<1>8. up' \subseteq Conns
  BY <1>1 DEF TypeInv, TypeOK, WireType
<1> QED BY <1>1, <1>3, <1>4, <1>5, <1>7, <1>8, WireTogether

\* RunExecution keeps TypeInv.
LEMMA RunExecutionType == ASSUME NEW a \in Attempts PROVE TypeInv /\ RunExecution(a) => TypeInv'
<1> SUFFICES ASSUME TypeInv, RunExecution(a) PROVE TypeInv'
  OBVIOUS
<1>1. UNCHANGED <<storeVars, registryVars, up, toExecutor, controlVars, localVars, listVars, entry, jobOps>>
  BY DEF RunExecution
<1>2. a \in Issued
  BY DEF RunExecution, TypeInv, WireOK
<1>3. PICK t \in {"ok", "retryable", "fatal"} :
        /\ work' = [work EXCEPT ![a] = t]
        /\ (\E c \in up : Sink(c, [type |-> t, att |-> a])) \/ UNCHANGED toEngine
  BY DEF RunExecution
<1>4. /\ work' \in [Attempts -> {"none", "running", "ok", "retryable", "fatal", "gone"}]
      /\ \A b \in Attempts : work'[b] # "none" => b \in Issued
  BY <1>2, <1>3 DEF TypeInv, TypeOK, WireType, WireOK
<1>5. toEngine' \in [Conns -> Seq(IssuedMessages)]
  <2>1. up \subseteq Conns
    BY DEF TypeInv, TypeOK, WireType
  <2>2. ASSUME NEW c \in Conns, Sink(c, [type |-> t, att |-> a])
        PROVE  toEngine' \in [Conns -> Seq(IssuedMessages)]
    BY <1>2, <2>2, SinkOK DEF TypeInv
  <2>3. CASE UNCHANGED toEngine
    BY <2>3 DEF TypeInv, WireOK
  <2> QED BY <1>3, <2>1, <2>2, <2>3
<1>6. events' \in 0 .. MaxEvents
  BY BoundsAssumption DEF RunExecution, Spend, TypeInv, TypeOK, BoundType
<1>7. up' \subseteq Conns /\ toExecutor' \in [Conns -> Seq(Issued)]
  BY <1>1 DEF TypeInv, TypeOK, WireType, WireOK
<1> QED BY <1>1, <1>4, <1>5, <1>6, <1>7, WireTogether

\* Drop keeps TypeInv.
LEMMA DropType == ASSUME NEW c \in Conns PROVE TypeInv /\ Drop(c) => TypeInv'
<1> SUFFICES ASSUME TypeInv, Drop(c) PROVE TypeInv'
  OBVIOUS
<1>1. UNCHANGED <<storeVars, registryVars, controlVars, localVars, listVars, entry, jobOps>>
  BY DEF Drop
<1>2. <<>> \in Seq(Issued) /\ <<>> \in Seq(IssuedMessages)
  BY EmptySeq
<1>3. toExecutor' \in [Conns -> Seq(Issued)] /\ toEngine' \in [Conns -> Seq(IssuedMessages)]
  BY <1>2 DEF Drop, TypeInv, WireOK
<1>4. up' \subseteq Conns /\ UNCHANGED work /\ events' \in 0 .. MaxEvents
  BY BoundsAssumption DEF Drop, Spend, TypeInv, TypeOK, WireType, BoundType
<1> QED BY <1>1, <1>3, <1>4, WireTogether DEF TypeInv, TypeOK, WireType, WireOK

\* ExecutorCrash keeps TypeInv.
LEMMA ExecutorCrashType == ASSUME NEW i \in Instances PROVE TypeInv /\ ExecutorCrash(i) => TypeInv'
<1> SUFFICES ASSUME TypeInv, ExecutorCrash(i) PROVE TypeInv'
  OBVIOUS
<1>1. UNCHANGED <<storeVars, registryVars, controlVars, localVars, listVars, entry, jobOps>>
  BY DEF ExecutorCrash
<1>2. <<>> \in Seq(Issued) /\ <<>> \in Seq(IssuedMessages)
  BY EmptySeq
<1>3. toExecutor' \in [Conns -> Seq(Issued)] /\ toEngine' \in [Conns -> Seq(IssuedMessages)]
  BY <1>2 DEF ExecutorCrash, TypeInv, WireOK
<1>4. /\ work' \in [Attempts -> {"none", "running", "ok", "retryable", "fatal", "gone"}]
      /\ \A b \in Attempts : work'[b] # "none" => b \in Issued
  BY DEF ExecutorCrash, RunningOn, TypeInv, TypeOK, WireType, WireOK
<1>5. up' \subseteq Conns /\ events' \in 0 .. MaxEvents
  BY BoundsAssumption DEF ExecutorCrash, Spend, TypeInv, TypeOK, WireType, BoundType
<1> QED BY <1>1, <1>3, <1>4, <1>5, WireTogether

\* Restart keeps TypeInv.
LEMMA RestartType == TypeInv /\ Restart => TypeInv'
<1> SUFFICES ASSUME TypeInv, Restart PROVE TypeInv'
  OBVIOUS
<1>1. UNCHANGED <<storeVars, host, work, jobOps>>
  BY DEF Restart
<1>2. StoreType' /\ StoreOK' /\ StoreGrows /\ Known' = Known /\ Issued' = Issued
  BY <1>1, Unchanged
<1>3. RegistryType'
  BY <1>1 DEF Restart, TypeInv, TypeOK, RegistryType
<1>4. WireType' /\ WireOK'
  <2>1. IssuedMessages' = IssuedMessages
    BY <1>2 DEF IssuedMessages
  <2>2. /\ <<>> \in Seq(Issued) /\ <<>> \in Seq(IssuedMessages)
        /\ <<>> \in Seq(Attempts) /\ <<>> \in Seq(Messages)
    BY EmptySeq
  <2> QED BY <1>1, <1>2, <2>1, <2>2 DEF Restart, TypeInv, TypeOK, WireType, WireOK
<1>5. BoundType'
  BY <1>1, BoundsAssumption DEF Restart, Spend, TypeInv, TypeOK, BoundType
<1>6. InStates(LeasedStates) \subseteq Known /\ InStates(LeasedStates) \subseteq ExecutionRecords
  BY StoreReads, NotAbsent DEF TypeInv, TypeOK, Known
<1>7. ControlType'
  BY <1>6, NotAbsent DEF Restart, TypeInv, TypeOK, ControlType, Labels
<1>8. \A p \in Procs : LocalOK(p)'
  BY <1>2, <1>6 DEF Restart, LocalOK, LoopLabels, HandlerLabels, AttemptLabels
<1> QED BY <1>2, <1>3, <1>4, <1>5, <1>7, <1>8 DEF TypeInv, TypeOK

-----------------------------------------------------------------------------
(* TypeInv is inductive.                                                     *)

\* TypeInv holds initially.
LEMMA InitType == Init => TypeInv
<1> SUFFICES ASSUME Init PROVE TypeInv
  OBVIOUS
<1>1. FirstConn \in Conns
  BY NamesAssumption DEF FirstConn
<1>2. StoreType
  <2>1. "Scheduled" \in ExecutionStateSet
    BY DEF ExecutionStateSet, DueStates
  <2>2. executions \in [Executions -> ExecutionRecords]
    BY <2>1, NotAbsent DEF Init, ExecutionRecords
  <2>3. attempts \in [Attempts -> AttemptRecords]
    BY BoundsAssumption DEF Init, AttemptRecords
  <2> QED BY <2>2, <2>3, NotAbsent DEF Init, StoreType
<1>3. RegistryType
  BY <1>1, NamesAssumption DEF Init, RegistryType
<1>4. /\ <<>> \in Seq(Issued) /\ <<>> \in Seq(IssuedMessages)
      /\ <<>> \in Seq(Attempts) /\ <<>> \in Seq(Messages)
  BY EmptySeq
<1>5. WireType
  BY <1>1, <1>4 DEF Init, WireType
<1>6. ControlType
  BY NotAbsent DEF Init, ControlType, Labels
<1>7. BoundType
  BY BoundsAssumption DEF Init, BoundType
<1>8. StoreOK
  BY DEF Init, StoreOK
<1>9. WireOK
  BY <1>4 DEF Init, WireOK
<1>10. \A p \in Procs : LocalOK(p)
  BY DEF Init, LocalOK, LoopLabels, HandlerLabels, AttemptLabels
<1> QED BY <1>2, <1>3, <1>5, <1>6, <1>7, <1>8, <1>9, <1>10 DEF TypeInv, TypeOK

\* Every step, or stutter, keeps TypeInv.
LEMMA NextType == TypeInv /\ [Next]_vars => TypeInv'
<1> SUFFICES ASSUME TypeInv, [Next]_vars PROVE TypeInv'
  OBVIOUS
<1>1. CASE DispatcherStep
  BY <1>1, DueScanType, ConsiderType, ClaimType, CreateAttemptType, FenceType, SendType,
     SendFailedType, MaterializeType DEF DispatcherStep
<1>2. CASE ReaperStep
  BY <1>2, WaitingScanType, ReapScanType DEF ReaperStep
<1>3. ASSUME NEW p \in Procs, CallStep(p) PROVE TypeInv'
  BY <1>3, TransitionType, RequeueType, AbandonType, AbandonNextType, RewaitNextType DEF CallStep
<1>4. ASSUME NEW c \in Conns, ReaderStep(c) PROVE TypeInv'
  BY <1>4, ReconsiderType, HandleExecAcceptType, AcceptRunType, AcceptMarkType, HandleExecRejectType,
     RejectMarkType, HandleExecResultType, SucceedType, SucceedMarkType, FailMarkType,
     DeregisterType, DisconnectListType, DisconnectNextType DEF ReaderStep
<1>5. CASE (\E i \in Instances : HandleHeartbeat(i)) \/ HeartbeatNext
  BY <1>5, HandleHeartbeatType, HeartbeatNextType
<1>6. CASE AdminStep
  BY <1>6, HandleJobUpsertType, CancelReplacedType, HandleJobDeleteType, CancelNextType, DeleteJobType
     DEF AdminStep
<1>7. CASE ExecutorStep
  BY <1>7, HandleExecRequestType, RunExecutionType DEF ExecutorStep
<1>8. CASE Connect
  BY <1>8, RegisterType DEF Connect
<1>9. CASE (\E c \in Conns : Drop(c)) \/ (\E i \in Instances : ExecutorCrash(i)) \/ Restart
  BY <1>9, DropType, ExecutorCrashType, RestartType
<1>10. CASE UNCHANGED vars
  <2>1. UNCHANGED <<storeVars, registryVars, wireVars, localVars, listVars, controlVars, entry, boundVars>>
    BY <1>10 DEF vars
  <2>2. Framed("admin") /\ LocalOK("admin")'
    BY <2>1, Unchanged, ProcNames DEF Framed, TypeInv, TypeOK, ControlType, LocalOK, localVars, listVars, controlVars
  <2> QED BY <2>1, <2>2, Unchanged, Together, ProcNames
<1> QED BY <1>1, <1>2, <1>3, <1>4, <1>5, <1>6, <1>7, <1>8, <1>9, <1>10 DEF Next

\* Every reachable state has the declared shape, and every goroutine's locals
\* name executions and attempts the store really holds.
THEOREM TypeCorrect == Spec => []TypeInv
<1>1. Init => TypeInv
  BY InitType
<1>2. TypeInv /\ [Next]_vars => TypeInv'
  BY NextType
<1> QED BY <1>1, <1>2, PTL DEF Spec

\* The type invariant the runs check, for every value of the constants.
THEOREM TypeSafety == Spec => []TypeOK
<1>1. TypeInv => TypeOK
  BY DEF TypeInv
<1> QED BY <1>1, TypeCorrect, PTL

-----------------------------------------------------------------------------
(* Versions only grow, and what a process holds was read from the store.     *)

Held(p) == todo[p] \cup {exec[p]}

Advances ==
    \A e \in Executions :
        executions'[e] = executions[e] \/ executions[e].version < executions'[e].version

\* Only p takes new copies, and it takes them from the store.
Copies(p) ==
    /\ \A q \in Procs \ {p} : exec'[q] = exec[q] /\ todo'[q] = todo[q]
    /\ \A s \in Held(p)' : s \in Held(p) \/ s = NoExecution \/ \E e \in Executions : s = executions'[e]

\* Such a step keeps every copy faithful.
LEMMA CopiesFaithful ==
    ASSUME NEW p \in Procs, TypeInv, TypeInv', SnapshotsFaithful, Advances, Copies(p)
    PROVE  SnapshotsFaithful'
<1> SUFFICES ASSUME NEW q \in Procs, NEW s \in Held(q)', s.id \in Executions
             PROVE  /\ s.version <= executions'[s.id].version
                    /\ s.version = executions'[s.id].version => s = executions'[s.id]
  BY DEF SnapshotsFaithful, Held
<1>1. \/ s \in Held(q)
      \/ \E e \in Executions : s = executions'[e]
  BY BoundsAssumption DEF Copies, Held, NoExecution, Executions
<1>2. \A e \in Executions : /\ executions[e].version \in Nat /\ executions'[e].version \in Nat
                            /\ executions'[e].id = e
  BY DEF TypeInv, TypeOK, StoreType, StoreOK, ExecutionRecords
<1>3. CASE s \in Held(q)
  <2>1. /\ s.version <= executions[s.id].version
        /\ s.version = executions[s.id].version => s = executions[s.id]
    BY <1>3 DEF SnapshotsFaithful, Held
  <2>2. s.version \in Nat
    BY <1>3, BoundsAssumption DEF TypeInv, TypeOK, ControlType, Held, ExecutionRecords, NoExecution, Executions
  <2> QED BY <1>2, <2>1, <2>2 DEF Advances
<1>4. CASE \E e \in Executions : s = executions'[e]
  BY <1>2, <1>4
<1> QED BY <1>1, <1>3, <1>4

\* Steps that neither write an execution nor read one.
LEMMA QuietAdvances ==
    ASSUME UNCHANGED executions PROVE Advances
  BY DEF Advances

\* A write through UpdateExecution, checked against the version read.
LEMMA WriteAdvances ==
    ASSUME TypeInv, NEW s \in Known, executions[s.id].version = s.version, NEW st, NEW f, NEW c,
           executions' = Updated(s, st, f, c)
    PROVE  Advances
<1>1. s.id \in Executions /\ s.version \in Nat
  BY DEF Known, Existing, ExecutionRecords
<1> QED BY <1>1 DEF Advances, Updated, TypeInv, TypeOK, StoreType, ExecutionRecords

\* UpdateExecution only moves versions forward, also when it refuses the write.
LEMMA UpdateAdvances ==
    ASSUME TypeInv, NEW s \in Known, NEW st, UpdateState(s, st)
    PROVE  Advances
  BY WriteAdvances, QuietAdvances DEF UpdateState, Accepts

\* A handler that returns holds nothing.
LEMMA FinishCopies ==
    ASSUME NEW p \in Procs, TypeInv, Finish(p), UNCHANGED todo
    PROVE  Copies(p)
  BY FinishOK DEF Copies, Held, TypeInv, TypeOK, ControlType

\* A process takes s.
LEMMA HoldCopies ==
    ASSUME NEW p \in Procs, TypeInv, NEW s, NEW a, NEW g, Hold(p, s, a, g),
           s \in Held(p) \/ \E e \in Executions : s = executions'[e],
           \/ UNCHANGED todo
           \/ \E t \in SUBSET todo[p] : todo' = [todo EXCEPT ![p] = t]
    PROVE  Copies(p)
<1>1. \A q \in Procs \ {p} : exec'[q] = exec[q] /\ todo'[q] = todo[q]
  BY DEF Hold, TypeInv, TypeOK, ControlType
<1>2. exec'[p] = s /\ todo'[p] \subseteq todo[p]
  BY DEF Hold, TypeInv, TypeOK, ControlType
<1> QED BY <1>1, <1>2 DEF Copies, Held

\* A process keeps what it holds, or skips some of it.
LEMMA KeepCopies ==
    ASSUME NEW p \in Procs, TypeInv, UNCHANGED exec,
           \/ UNCHANGED todo
           \/ \E t \in SUBSET todo[p] : todo' = [todo EXCEPT ![p] = t]
    PROVE  Copies(p)
  BY DEF Copies, Held, TypeInv, TypeOK, ControlType

\* A process lists executions.
LEMMA ListCopies ==
    ASSUME NEW p \in Procs, TypeInv, UNCHANGED <<executions, exec>>, NEW S,
           \A s \in S : \E e \in Executions : s = executions[e],
           todo' = [todo EXCEPT ![p] = S]
    PROVE  Copies(p)
  BY DEF Copies, Held, TypeInv, TypeOK, ControlType

\* What ExecutionsInStates lists is what is stored.
LEMMA InStatesCopies == \A S : \A s \in InStates(S) : \E e \in Executions : s = executions[e]
  BY DEF InStates

-----------------------------------------------------------------------------
(* The version check detects every race: SnapshotsFaithful.                  *)

\* The timing loop copies from the store and writes through the version check.
LEMMA DispatcherSnapshots ==
    ASSUME TypeInv, DispatcherStep PROVE Advances /\ Copies("dispatcher")
<1> DEFINE d == "dispatcher"
<1>0. d \in Procs
  BY ProcNames
<1>1. CASE DueScan
  <2>1. PICK S : S \subseteq InStates(DueStates) /\ todo' = [todo EXCEPT ![d] = S]
    BY <1>1 DEF DueScan
  <2>2. UNCHANGED <<executions, exec>>
    BY <1>1 DEF DueScan, storeVars, localVars
  <2> QED BY <1>0, <2>1, <2>2, ListCopies, QuietAdvances DEF InStates
<1>2. CASE Consider
  <2>1. UNCHANGED executions
    BY <1>2 DEF Consider, storeVars
  <2>2. PICK s \in todo[d] : /\ todo' = [todo EXCEPT ![d] = @ \ {s}]
                             /\ \E g : Hold(d, s, 0, g)
    BY <1>2 DEF Consider, Park
  <2>3. s \in Held(d) /\ \E t \in SUBSET todo[d] : todo' = [todo EXCEPT ![d] = t]
    BY <2>2 DEF Held
  <2> QED BY <1>0, <2>1, <2>2, <2>3, HoldCopies, QuietAdvances
<1>3. CASE Claim
  <2>1. exec[d] \in Known /\ exec[d].id \in Executions /\ UNCHANGED todo
    BY <1>0, <1>3 DEF Claim, listVars, TypeInv, LocalOK, HandlerLabels, Known, Existing
  <2> QED BY <1>0, <1>3, <2>1, WriteAdvances, QuietAdvances, HoldCopies, FinishCopies DEF Claim, Accepts
<1>4. CASE CreateAttempt
  BY <1>0, <1>4, QuietAdvances, HoldCopies DEF CreateAttempt, listVars, Held
<1>5. CASE Fence
  <2>1. exec[d] \in Known /\ exec[d].id \in Executions /\ UNCHANGED todo
    BY <1>0, <1>5 DEF Fence, listVars, TypeInv, LocalOK, HandlerLabels, Known, Existing
  <2> QED BY <1>0, <1>5, <2>1, WriteAdvances, QuietAdvances, HoldCopies, FinishCopies DEF Fence
<1>6. CASE Send \/ SendFailed
  BY <1>0, <1>6, QuietAdvances, KeepCopies DEF Send, SendFailed, storeVars, localVars, listVars
<1>7. CASE Materialize
  <2>1. Advances
    BY <1>7 DEF Materialize, Advances, TypeInv, TypeOK, StoreType, StoreOK
  <2> QED BY <1>0, <1>7, <2>1, FinishCopies DEF Materialize, listVars
<1> QED BY <1>1, <1>2, <1>3, <1>4, <1>5, <1>6, <1>7 DEF DispatcherStep

\* So does the reconcile loop.
LEMMA ReaperSnapshots ==
    ASSUME TypeInv, ReaperStep PROVE Advances /\ Copies("reaper")
<1>0. "reaper" \in Procs
  BY ProcNames
<1>1. CASE WaitingScan
  <2>1. todo' = [todo EXCEPT !["reaper"] = InStates(WaitingStates)] /\ UNCHANGED <<executions, exec>>
    BY <1>1 DEF WaitingScan, storeVars, localVars
  <2> QED BY <1>0, <2>1, QuietAdvances, ListCopies, InStatesCopies
<1>2. ASSUME NEW S \in SUBSET Leased, ReapScan(S) PROVE Advances /\ Copies("reaper")
  <2> DEFINE L == {executions[e] : e \in S}
  <2>1. \A s \in L : \E e \in Executions : s = executions[e]
    BY DEF Leased
  <2>2. todo' = [todo EXCEPT !["reaper"] = L] /\ UNCHANGED <<executions, exec>>
    BY <1>2 DEF ReapScan, storeVars, localVars
  <2> HIDE DEF L
  <2> QED BY <1>0, <2>1, <2>2, QuietAdvances, ListCopies
<1> QED BY <1>1, <1>2 DEF ReaperStep

\* So do the calls every goroutine makes: transition, requeueReady,
\* abandonAttempt.
LEMMA CallSnapshots ==
    ASSUME TypeInv, NEW p \in Procs, CallStep(p) PROVE Advances /\ Copies(p)
<1>1. CASE Transition(p)
  <2>1. exec[p] \in Known /\ UNCHANGED todo
    BY <1>1 DEF Transition, listVars, TypeInv, LocalOK, HandlerLabels
  <2> QED BY <1>1, <2>1, UpdateAdvances, FinishCopies, KeepCopies DEF Transition, localVars
<1>2. CASE Requeue(p)
  <2>1. exec[p].id \in Executions /\ UNCHANGED <<executions, todo>>
    BY <1>2 DEF Requeue, storeVars, listVars, TypeInv, LocalOK, HandlerLabels, Known, Existing
  <2> QED BY <1>2, <2>1, QuietAdvances, FinishCopies, HoldCopies DEF Requeue
<1>3. CASE Abandon(p)
  BY <1>3, QuietAdvances, KeepCopies DEF Abandon, localVars, listVars
<1>4. CASE AbandonNext(p)
  <2>1. PICK s \in todo[p] : todo' = [todo EXCEPT ![p] = @ \ {s}] /\ Hold(p, s, s.cur, "None")
    BY <1>4 DEF AbandonNext
  <2>2. s \in Held(p) /\ \E t \in SUBSET todo[p] : todo' = [todo EXCEPT ![p] = t]
    BY <2>1 DEF Held
  <2>3. UNCHANGED executions
    BY <1>4 DEF AbandonNext, storeVars
  <2> QED BY <2>1, <2>2, <2>3, QuietAdvances, HoldCopies
<1>5. CASE RewaitNext(p)
  <2>1. PICK s \in todo[p] : /\ todo' = [todo EXCEPT ![p] = @ \ {s}]
                             /\ Hold(p, s, 0, "None") \/ UNCHANGED localVars
    BY <1>5 DEF RewaitNext
  <2>2. s \in Held(p) /\ \E t \in SUBSET todo[p] : todo' = [todo EXCEPT ![p] = t]
    BY <2>1 DEF Held
  <2>3. UNCHANGED executions
    BY <1>5 DEF RewaitNext, storeVars
  <2> QED BY <2>1, <2>2, <2>3, QuietAdvances, HoldCopies, KeepCopies DEF localVars
<1> QED BY <1>1, <1>2, <1>3, <1>4, <1>5 DEF CallStep

\* The loops over open attempts read the execution of the attempt.
LEMMA NextOpenSnapshots ==
    ASSUME TypeInv, NEW p \in Procs, NEW label, NextOpen(p, label), UNCHANGED <<executions, todo>>
    PROVE  Copies(p)
<1>1. PICK a \in open[p] : \/ \E g : Hold(p, executions[attempts[a].exec], a, g)
                           \/ UNCHANGED localVars
  BY DEF NextOpen
<1>2. attempts[a].exec \in Executions
  BY DEF TypeInv, LocalOK, Issued, Existing
<1> QED BY <1>1, <1>2, HoldCopies, KeepCopies DEF localVars

\* So do the handlers of a connection.
LEMMA ReaderSnapshots ==
    ASSUME TypeInv, NEW c \in Conns, ReaderStep(c) PROVE Advances /\ Copies(c)
<1>0. c \in Procs
  BY ProcNames
<1>1. CASE Reconsider(c)
  BY <1>0, <1>1, QuietAdvances, ListCopies, InStatesCopies DEF Reconsider, storeVars, localVars
<1>2. CASE HandleExecAccept(c) \/ HandleExecReject(c) \/ HandleExecResult(c)
  <2> DEFINE e == attempts[Head(toEngine[c]).att].exec
  <2>1. UNCHANGED <<storeVars, up, toExecutor, work, listVars>>
    BY <1>2 DEF HandleExecAccept, HandleExecReject, HandleExecResult
  <2>2. \E types : Receive(c, types)
    BY <1>2 DEF HandleExecAccept, HandleExecReject, HandleExecResult
  <2>3. e \in Executions /\ UNCHANGED <<executions, todo>>
    BY <2>1, <2>2, ReceiveOK DEF Issued, Existing, storeVars, listVars
  <2>4. (\E a, g : Hold(c, executions[e], a, g)) \/ UNCHANGED exec
    BY <1>2 DEF HandleExecAccept, HandleExecReject, HandleExecResult, localVars
  <2> QED BY <1>0, <2>3, <2>4, QuietAdvances, HoldCopies, KeepCopies
<1>3. CASE AcceptRun(c) \/ Succeed(c)
  <2>1. exec[c] \in Known /\ UNCHANGED todo
    BY <1>0, <1>3 DEF AcceptRun, Succeed, listVars, TypeInv, LocalOK, HandlerLabels
  <2> QED BY <1>0, <1>3, <2>1, WriteAdvances, QuietAdvances, FinishCopies, KeepCopies
          DEF AcceptRun, Succeed, Accepts, localVars
<1>4. CASE AcceptMark(c) \/ SucceedMark(c)
  BY <1>0, <1>4, QuietAdvances, FinishCopies DEF AcceptMark, SucceedMark, listVars
<1>5. CASE RejectMark(c)
  BY <1>0, <1>5, QuietAdvances, FinishCopies, KeepCopies DEF RejectMark, listVars, localVars
<1>6. CASE FailMark(c)
  <2>1. (\E g : Hold(c, exec[c], att[c], g)) /\ UNCHANGED <<executions, todo>> /\ exec[c] \in Held(c)
    BY <1>6 DEF FailMark, listVars, Held
  <2> QED BY <1>0, <2>1, QuietAdvances, HoldCopies
<1>7. CASE Deregister(c) \/ DisconnectList(c)
  BY <1>0, <1>7, QuietAdvances, KeepCopies DEF Deregister, DisconnectList, storeVars, localVars, listVars
<1>8. CASE DisconnectNext(c)
  BY <1>0, <1>8, QuietAdvances, NextOpenSnapshots DEF DisconnectNext, storeVars
<1> QED BY <1>1, <1>2, <1>3, <1>4, <1>5, <1>6, <1>7, <1>8 DEF ReaderStep

\* So does the heartbeat handler.
LEMMA PumpSnapshots ==
    ASSUME TypeInv, HeartbeatNext \/ \E i \in Instances : HandleHeartbeat(i)
    PROVE  Advances /\ Copies("pump")
  BY ProcNames, QuietAdvances, NextOpenSnapshots, KeepCopies
     DEF HeartbeatNext, HandleHeartbeat, storeVars, localVars

\* So do the job operations.
LEMMA AdminSnapshots ==
    ASSUME TypeInv, AdminStep PROVE Advances /\ Copies("admin")
<1> DEFINE p == "admin"
<1>0. p \in Procs
  BY ProcNames
<1>1. CASE HandleJobUpsert \/ DeleteJob
  BY <1>0, <1>1, QuietAdvances, KeepCopies DEF HandleJobUpsert, DeleteJob, localVars, listVars
<1>2. CASE CancelReplaced \/ HandleJobDelete
  <2>1. \A s \in Cancellable : \E e \in Executions : s = executions[e]
    BY InStatesCopies DEF Cancellable
  <2>2. todo' = [todo EXCEPT ![p] = Cancellable] /\ UNCHANGED <<executions, exec>>
    BY <1>2 DEF CancelReplaced, HandleJobDelete, storeVars, localVars
  <2> QED BY <1>0, <2>1, <2>2, QuietAdvances, ListCopies
<1>3. CASE CancelNext
  <2>1. PICK s \in todo[p] : todo' = [todo EXCEPT ![p] = @ \ {s}] /\ Hold(p, s, 0, "Cancelled")
    BY <1>3 DEF CancelNext
  <2>2. s \in Held(p) /\ \E t \in SUBSET todo[p] : todo' = [todo EXCEPT ![p] = t]
    BY <2>1 DEF Held
  <2>3. UNCHANGED executions
    BY <1>3 DEF CancelNext, storeVars
  <2> QED BY <1>0, <2>1, <2>2, <2>3, QuietAdvances, HoldCopies
<1> QED BY <1>1, <1>2, <1>3 DEF AdminStep

\* Steps outside the scheduler neither write nor read an execution.
LEMMA OutsideSnapshots ==
    ASSUME TypeInv, \/ ExecutorStep \/ Connect \/ (\E c \in Conns : Drop(c))
                    \/ (\E i \in Instances : ExecutorCrash(i)) \/ UNCHANGED vars
    PROVE  Advances /\ Copies("admin")
<1>1. UNCHANGED <<executions, exec, todo>>
  BY DEF ExecutorStep, HandleExecRequest, RunExecution, Connect, Register, Drop, ExecutorCrash, vars,
         storeVars, localVars, listVars
<1> QED BY <1>1, ProcNames, QuietAdvances, KeepCopies

\* A restarted scheduler holds only what recoverOnStartup listed.
LEMMA RestartSnapshots == TypeInv /\ TypeInv' /\ Restart => SnapshotsFaithful'
<1> SUFFICES ASSUME TypeInv, TypeInv', Restart, NEW q \in Procs, NEW s \in (todo[q] \cup {exec[q]})',
                    s.id \in Executions
             PROVE  s = executions'[s.id] /\ s.version <= executions'[s.id].version
  BY DEF SnapshotsFaithful
<1>1. \E e \in Executions : s = executions[e]
  BY BoundsAssumption DEF Restart, InStates, NoExecution, Executions
<1> QED BY <1>1 DEF Restart, storeVars, TypeInv, TypeOK, StoreType, StoreOK, ExecutionRecords

\* No step of the system makes a copy unfaithful.
LEMMA NextSnapshots ==
    TypeInv /\ TypeInv' /\ SnapshotsFaithful /\ [Next]_vars => SnapshotsFaithful'
<1> SUFFICES ASSUME TypeInv, TypeInv', SnapshotsFaithful, [Next]_vars PROVE SnapshotsFaithful'
  OBVIOUS
<1>1. CASE Restart
  BY <1>1, RestartSnapshots
<1>2. CASE ~Restart
  <2>1. \E p \in Procs : Advances /\ Copies(p)
    BY <1>2, DispatcherSnapshots, ReaperSnapshots, CallSnapshots, ReaderSnapshots, PumpSnapshots,
       AdminSnapshots, OutsideSnapshots, ProcNames DEF Next
  <2> QED BY <2>1, CopiesFaithful
<1> QED BY <1>1, <1>2

\* The version check of UpdateExecution detects every race: no goroutine ever
\* holds a copy whose version is current but whose contents are not.
THEOREM SnapshotSafety == Spec => []SnapshotsFaithful
<1>1. Init => SnapshotsFaithful
  BY BoundsAssumption DEF Init, SnapshotsFaithful, NoExecution, Executions
<1>2. TypeInv /\ TypeInv' /\ SnapshotsFaithful /\ [Next]_vars => SnapshotsFaithful'
  BY NextSnapshots
<1> QED BY <1>1, <1>2, TypeCorrect, PTL DEF Spec

-----------------------------------------------------------------------------
(* An execution is settled only by its current attempt.                      *)
(*                                                                          *)
(* The argument: a request is started at most once, so the outcome of an     *)
(* attempt never changes once it is known; a result message tells that       *)
(* outcome; a handler that settles an execution holds a copy whose current   *)
(* attempt is the one the message named; and a write is accepted only while  *)
(* that copy is the stored record.                                           *)

Results == {"ok", "retryable", "fatal"}
Errors == {"retryable", "fatal"}

\* The fenced attempt of an execution is an attempt of that execution.
NamedOK ==
    \A e \in Executions : executions[e].cur # 0 => attempts[executions[e].cur].exec = e

\* Attempts beyond the counter do not exist yet.
FreshOK == \A a \in Attempts : a > lastAttempt => attempts[a].exec = 0

\* A queued request has not been started, and is queued only once.
QueueOK ==
    /\ \A c \in Conns : \A n \in 1 .. Len(toExecutor[c]) : work[toExecutor[c][n]] = "none"
    /\ \A c, d \in Conns : \A m \in 1 .. Len(toExecutor[c]), n \in 1 .. Len(toExecutor[d]) :
          toExecutor[c][m] = toExecutor[d][n] => c = d /\ m = n

Unsent(a) ==
    /\ work[a] = "none"
    /\ \A c \in Conns : \A n \in 1 .. Len(toExecutor[c]) : toExecutor[c][n] # a

UnsentOK == pc["dispatcher"] \in {"fence", "send"} => Unsent(att["dispatcher"])

Truthful == {m \in Messages : m.type \in Results => work[m.att] = m.type}

TruthOK == toEngine \in [Conns -> Seq(Truthful)]

\* What the labels of a process say about the outcome it is about to record.
SettleLocal(p) ==
    /\ pc[p] \in {"create", "fence"} => exec[p].state = "Dispatching"
    /\ pc[p] = "fence" => attempts[att[p]].exec = exec[p].id
    /\ pc[p] = "succeed" => exec[p].cur = att[p] /\ work[att[p]] = "ok"
    /\ pc[p] = "failMark" => exec[p].cur = att[p] /\ work[att[p]] \in Errors
    /\ pc[p] = "transition" =>
          /\ goal[p] # "Succeeded"
          /\ goal[p] = "Failed" => att[p] \in Attempts /\ exec[p].cur = att[p] /\ work[att[p]] \in Errors

SettleInv ==
    /\ NamedOK /\ FreshOK /\ QueueOK /\ UnsentOK /\ TruthOK
    /\ \A p \in Procs : SettleLocal(p)
    /\ SettledByCurrentAttempt

\* Outcomes, and the execution an attempt belongs to, never change.
Keeps ==
    /\ \A a \in Attempts : work[a] \in Results => work'[a] = work[a]
    /\ \A a \in Attempts : attempts[a].exec \in Executions => attempts'[a].exec = attempts[a].exec

\* The other processes stand still.
Others(p) ==
    \A q \in Procs \ {p} : pc'[q] = pc[q] /\ exec'[q] = exec[q] /\ att'[q] = att[q] /\ goal'[q] = goal[q]

\* A step of p that keeps outcomes leaves the other processes as they were.
LEMMA SettleFrame ==
    ASSUME NEW p \in Procs, TypeInv, \A q \in Procs : SettleLocal(q), Keeps, Others(p), SettleLocal(p)'
    PROVE  \A q \in Procs : SettleLocal(q)'
<1> SUFFICES ASSUME NEW q \in Procs, q # p PROVE SettleLocal(q)'
  OBVIOUS
<1>1. pc[q] \in AttemptLabels => att[q] \in Attempts /\ attempts[att[q]].exec \in Executions
  BY DEF TypeInv, LocalOK, Issued, Existing
<1> QED BY <1>1 DEF Others, Keeps, SettleLocal, AttemptLabels, Results, Errors

\* The store's part of SettleInv when no execution is written.
StoreSettled == NamedOK /\ FreshOK /\ SettledByCurrentAttempt

\* A step that writes no execution keeps the store settled.
LEMMA QuietStore ==
    ASSUME TypeInv, StoreSettled, UNCHANGED <<executions, lastAttempt>>,
           \A a \in Attempts : attempts'[a].exec = attempts[a].exec,
           \A a \in Attempts : work[a] \in Results => work'[a] = work[a]
    PROVE  StoreSettled' /\ Keeps
<1>1. Keeps
  BY DEF Keeps
<1>2. \A e \in Executions : executions[e].cur # 0 => executions[e].cur \in Attempts
  BY NotAbsent DEF TypeInv, TypeOK, StoreType, ExecutionRecords
<1>3. NamedOK' /\ FreshOK'
  BY <1>2 DEF StoreSettled, NamedOK, FreshOK
<1>4. SettledByCurrentAttempt'
  BY <1>2 DEF StoreSettled, SettledByCurrentAttempt, Results
<1> QED BY <1>1, <1>3, <1>4 DEF StoreSettled

\* The store's part when one execution is written.
LEMMA WriteStore ==
    ASSUME TypeInv, StoreSettled, UNCHANGED <<attempts, lastAttempt, work>>, NEW s \in Known,
           NEW st, NEW f, NEW c \in 0 .. MaxAttempt, executions' = Updated(s, st, f, c),
           c # 0 => attempts[c].exec = s.id,
           st = "Succeeded" => c # 0 /\ work[c] = "ok",
           st = "Failed" => c # 0 /\ work[c] \in Errors
    PROVE  StoreSettled' /\ Keeps
<1>1. Keeps
  BY DEF Keeps
<1>2. s.id \in Executions
  BY DEF Known, Existing
<1>3. /\ executions'[s.id].state = st /\ executions'[s.id].cur = c
      /\ \A e \in Executions \ {s.id} : executions'[e] = executions[e]
  BY <1>2 DEF Updated, TypeInv, TypeOK, StoreType
<1>4. NamedOK' /\ FreshOK'
  BY <1>3 DEF StoreSettled, NamedOK, FreshOK
<1>5. SettledByCurrentAttempt'
  BY <1>3 DEF StoreSettled, SettledByCurrentAttempt, Errors
<1> QED BY <1>1, <1>4, <1>5 DEF StoreSettled

\* A stored record whose version was read is the copy that was read.
LEMMA AcceptedCopy ==
    ASSUME TypeInv, SnapshotsFaithful, NEW p \in Procs, exec[p] \in Known,
           executions[exec[p].id].version = exec[p].version
    PROVE  executions[exec[p].id] = exec[p] /\ exec[p].id \in Executions
  BY DEF SnapshotsFaithful, Known, Existing

\* The parts put together after a step that leaves the wire alone.
LEMMA SettleTogether ==
    ASSUME TypeInv, SettleInv, NEW p \in Procs, UNCHANGED wireVars, Keeps, StoreSettled', Others(p),
           SettleLocal(p)',
           p = "dispatcher" /\ pc'[p] \in {"fence", "send"} => Unsent(att'[p])
    PROVE  SettleInv'
<1>1. QueueOK' /\ TruthOK'
  BY DEF SettleInv, wireVars, QueueOK, TruthOK, Truthful
<1>2. UnsentOK'
  BY ProcNames DEF SettleInv, wireVars, UnsentOK, Unsent, Others
<1>3. \A q \in Procs : SettleLocal(q)'
  BY SettleFrame DEF SettleInv
<1> QED BY <1>1, <1>2, <1>3 DEF SettleInv, StoreSettled

\* A handler that returns.
LEMMA FinishSettle ==
    ASSUME NEW p \in Procs, TypeInv, Finish(p)
    PROVE  Others(p) /\ SettleLocal(p)' /\ pc'[p] \notin {"fence", "send"}
  BY FinishOK DEF Others, SettleLocal, TypeInv, TypeOK, ControlType, LoopLabels

\* A step to a label about which SettleLocal says nothing.
LEMMA PlainSettle ==
    ASSUME NEW p \in Procs, TypeInv, NEW label, Goto(p, label),
           label \notin {"create", "fence", "send", "succeed", "failMark", "transition"},
           UNCHANGED localVars \/ \E s, a, g : Hold(p, s, a, g)
    PROVE  Others(p) /\ SettleLocal(p)' /\ pc'[p] \notin {"fence", "send"}
  BY DEF Goto, Hold, Others, SettleLocal, TypeInv, TypeOK, ControlType, localVars

\* A step to the write of a state that settles nothing.
LEMMA TransitionSettle ==
    ASSUME NEW p \in Procs, TypeInv, Goto(p, "transition"), NEW s, NEW a, NEW g, Hold(p, s, a, g),
           g \notin {"Succeeded", "Failed"}
    PROVE  Others(p) /\ SettleLocal(p)' /\ pc'[p] \notin {"fence", "send"}
  BY DEF Goto, Hold, Others, SettleLocal, TypeInv, TypeOK, ControlType

\* A loop starts, or moves on.
LEMMA EnterSettle ==
    ASSUME NEW p \in Procs, TypeInv, NEW label \in LoopLabels, NEW list, Enter(p, label, list),
           UNCHANGED localVars
    PROVE  Others(p) /\ SettleLocal(p)' /\ pc'[p] \notin {"fence", "send"}
  BY SMTT(30), EnterOK DEF Others, SettleLocal, TypeInv, TypeOK, ControlType, LoopLabels, localVars

\* Returning to a loop promises no outcome.
LEMMA ReturnSettle ==
    ASSUME NEW p \in Procs, TypeInv, NEW S, NEW T, Return(p, S, T), UNCHANGED localVars
    PROVE  Others(p) /\ SettleLocal(p)' /\ pc'[p] \notin {"fence", "send"}
<1>1. \A label \in LoopLabels : Rest(label) \in {"closed", "reap", "drop", "idle"}
  BY DEF Rest, LoopLabels
<1>2. pc' = [pc EXCEPT ![p] = pc'[p]] /\ pc'[p] \in LoopLabels \cup {"closed"}
  BY <1>1 DEF Return, Goto, LocalOK, TypeInv, TypeOK, ControlType, LoopLabels
<1> QED BY <1>2 DEF Others, SettleLocal, TypeInv, TypeOK, ControlType, LoopLabels, localVars

\* A step that changes neither the executions nor an attempt, nor the wire.
LEMMA QuietSettle ==
    ASSUME TypeInv, SettleInv, NEW p \in Procs, UNCHANGED <<executions, attempts, lastAttempt, wireVars>>,
           Others(p), SettleLocal(p)', pc'[p] \notin {"fence", "send"}
    PROVE  SettleInv'
<1>1. StoreSettled' /\ Keeps
  BY QuietStore DEF SettleInv, StoreSettled, wireVars
<1> QED BY <1>1, SettleTogether

\* The change of an attempt's state keeps the execution it belongs to.
LEMMA MarkSettle ==
    ASSUME TypeInv, SettleInv, NEW p \in Procs, UNCHANGED <<executions, lastAttempt, wireVars>>,
           NEW a \in 0 .. MaxAttempt, NEW from, NEW to, UpdateAttemptState(a, from, to),
           Others(p), SettleLocal(p)', pc'[p] \notin {"fence", "send"}
    PROVE  SettleInv'
<1>1. \A b \in Attempts : attempts'[b].exec = attempts[b].exec
  BY NotAbsent DEF UpdateAttemptState, TypeInv, TypeOK, StoreType, AttemptRecords
<1>2. StoreSettled' /\ Keeps
  BY <1>1, QuietStore DEF SettleInv, StoreSettled, wireVars
<1> QED BY <1>2, SettleTogether

-----------------------------------------------------------------------------
\* The timing loop keeps SettleInv.
LEMMA DispatcherSettle ==
    ASSUME TypeInv, TypeInv', SnapshotsFaithful, SettleInv, DispatcherStep PROVE SettleInv'
<1> DEFINE d == "dispatcher"
<1>0. d \in Procs /\ StoreSettled /\ SettleLocal(d)
  BY ProcNames DEF SettleInv, StoreSettled
<1>1. CASE DueScan
  BY <1>0, <1>1, EnterSettle, QuietSettle DEF DueScan, storeVars, LoopLabels
<1>2. CASE Consider
  <2>1. UNCHANGED <<executions, attempts, lastAttempt, wireVars>>
    BY <1>2 DEF Consider, storeVars
  <2>2. \/ \E s, g : Goto(d, "transition") /\ Hold(d, s, 0, g) /\ g \notin {"Succeeded", "Failed"}
        \/ \E label \in {"requeue", "claim"} : \E s : Goto(d, label) /\ Hold(d, s, 0, "None")
    BY <1>2 DEF Consider, Park
  <2> QED BY <1>0, <2>1, <2>2, TransitionSettle, PlainSettle, QuietSettle
<1>3. CASE Claim
  <2> DEFINE s == exec[d]
  <2>1. s \in Known /\ s.id \in Executions
    BY <1>0, <1>3 DEF Claim, TypeInv, LocalOK, HandlerLabels, Known, Existing
  <2>2. CASE Finish(d) /\ UNCHANGED executions
    BY <1>0, <1>3, <2>2, FinishSettle, QuietSettle DEF Claim
  <2>3. CASE /\ executions' = Updated(s, "Dispatching", executions[s.id].fa, executions[s.id].cur)
             /\ Goto(d, "create") /\ Hold(d, executions'[s.id], 0, "None")
    <3>1. /\ executions[s.id].cur \in 0 .. MaxAttempt
          /\ executions[s.id].cur # 0 => attempts[executions[s.id].cur].exec = s.id
      BY <1>0, <2>1 DEF StoreSettled, NamedOK, TypeInv, TypeOK, StoreType, ExecutionRecords
    <3>2. StoreSettled' /\ Keeps
      BY <1>0, <1>3, <2>1, <2>3, <3>1, WriteStore DEF Claim, wireVars
    <3>3. Others(d) /\ SettleLocal(d)' /\ pc'[d] = "create"
      BY <1>0, <2>1, <2>3 DEF Goto, Hold, Others, SettleLocal, Updated, TypeInv, TypeOK, ControlType, StoreType
    <3> QED BY <1>0, <1>3, <3>2, <3>3, SettleTogether DEF Claim
  <2> QED BY <1>3, <2>2, <2>3 DEF Claim
<1>4. CASE CreateAttempt
  <2> DEFINE s == exec[d]  a == lastAttempt + 1
  <2>1. a \in Attempts /\ attempts[a].exec = 0 /\ 0 \notin Executions /\ s.id \in Executions
    BY <1>0, <1>4, BoundsAssumption DEF CreateAttempt, StoreSettled, FreshOK, TypeInv, TypeOK, StoreType,
       Executions, LocalOK, HandlerLabels, Known, Existing
  <2>2. /\ \A b \in Attempts \ {a} : attempts'[b] = attempts[b]
        /\ attempts'[a].exec = s.id /\ lastAttempt' = a
    BY <1>4, <2>1 DEF CreateAttempt, TypeInv, TypeOK, StoreType
  <2>3. UNCHANGED <<executions, wireVars>>
    BY <1>4 DEF CreateAttempt
  <2>4. Keeps
    BY <2>1, <2>2, <2>3 DEF Keeps, wireVars
  <2>5. StoreSettled'
    <3>1. \A e \in Executions : executions[e].cur # 0 => executions[e].cur \in Attempts /\ executions[e].cur # a
      BY <1>0, <2>1, NotAbsent DEF StoreSettled, NamedOK, TypeInv, TypeOK, StoreType, ExecutionRecords
    <3>2. NamedOK' /\ SettledByCurrentAttempt'
      BY <1>0, <2>2, <2>3, <3>1 DEF StoreSettled, NamedOK, SettledByCurrentAttempt, wireVars
    <3>3. FreshOK'
      BY <1>0, <2>2, BoundsAssumption DEF StoreSettled, FreshOK, TypeInv, TypeOK, StoreType, Attempts
    <3> QED BY <3>2, <3>3 DEF StoreSettled
  <2>6. Unsent(a)
    <3>1. a \notin Issued
      BY <2>1 DEF Issued, Existing
    <3>2. work[a] = "none"
      BY <2>1, <3>1 DEF TypeInv, WireOK
    <3>3. ASSUME NEW c \in Conns, NEW n \in 1 .. Len(toExecutor[c]) PROVE toExecutor[c][n] # a
      BY <3>1, ElementOfSeq DEF TypeInv, WireOK
    <3> QED BY <3>2, <3>3 DEF Unsent
  <2>7. Others(d) /\ SettleLocal(d)' /\ att'[d] = a
    BY <1>0, <1>4, <2>2 DEF CreateAttempt, Goto, Hold, Others, SettleLocal, TypeInv, TypeOK, ControlType
  <2> HIDE DEF a
  <2> QED BY <1>0, <2>3, <2>4, <2>5, <2>6, <2>7, SettleTogether
<1>5. CASE Fence
  <2> DEFINE s == exec[d]  now == executions[s.id]
  <2>1. s \in Known /\ s.id \in Executions /\ att[d] \in Issued /\ att[d] \in 0 .. MaxAttempt
    BY <1>0, <1>5, NotAbsent DEF Fence, TypeInv, LocalOK, HandlerLabels, AttemptLabels, Known, Existing, Issued
  <2>2. CASE Finish(d) /\ UNCHANGED executions
    BY <1>0, <1>5, <2>2, FinishSettle, QuietSettle DEF Fence
  <2>3. CASE /\ now.version = s.version
             /\ executions' = Updated(s, now.state, now.fa, att[d])
             /\ Goto(d, "send") /\ Hold(d, executions'[s.id], att[d], "None")
    <3>1. now.state = "Dispatching" /\ attempts[att[d]].exec = s.id
      BY <1>0, <1>5, <2>1, <2>3, AcceptedCopy DEF Fence, SettleLocal
    <3>2. StoreSettled' /\ Keeps
      BY <1>0, <1>5, <2>1, <2>3, <3>1, WriteStore DEF Fence, wireVars
    <3>3. Others(d) /\ SettleLocal(d)' /\ att'[d] = att[d]
      BY ZenonT(60), <1>0, <2>3 DEF Goto, Hold, Others, SettleLocal, TypeInv, TypeOK, ControlType
    <3>4. Unsent(att[d])
      BY <1>5 DEF Fence, SettleInv, UnsentOK
    <3> QED BY <1>0, <1>5, <3>2, <3>3, <3>4, SettleTogether DEF Fence
  <2> QED BY <1>5, <2>2, <2>3 DEF Fence
<1>6. CASE Send
  <2> DEFINE a == att[d]
  <2>1. UNCHANGED <<executions, attempts, lastAttempt, work, toEngine>>
    BY <1>6 DEF Send, storeVars
  <2>2. StoreSettled' /\ Keeps /\ TruthOK'
    BY <1>0, <2>1, QuietStore DEF SettleInv, TruthOK, Truthful
  <2>3. Others(d) /\ SettleLocal(d)' /\ pc'[d] \notin {"fence", "send"}
    BY <1>0, <1>6, PlainSettle DEF Send
  <2>4. QueueOK'
    <3>1. Unsent(a) /\ entry \in Conns /\ a \in Issued
      BY <1>0, <1>6 DEF Send, SettleInv, UnsentOK, TypeInv, LocalOK, AttemptLabels
    <3>2. CASE toExecutor' = toExecutor
      BY <2>1, <3>2 DEF SettleInv, QueueOK
    <3>3. CASE toExecutor' = [toExecutor EXCEPT ![entry] = Append(@, a)]
      <4>1. toExecutor[entry] \in Seq(Issued)
        BY <3>1 DEF TypeInv, WireOK
      <4>2. /\ Len(toExecutor'[entry]) = Len(toExecutor[entry]) + 1
            /\ \A n \in 1 .. Len(toExecutor[entry]) : toExecutor'[entry][n] = toExecutor[entry][n]
            /\ toExecutor'[entry][Len(toExecutor[entry]) + 1] = a
            /\ Len(toExecutor[entry]) \in Nat
        BY <3>1, <3>3, <4>1, AppendProperties, LenProperties DEF TypeInv, WireOK
      <4>3. \A c \in Conns \ {entry} : toExecutor'[c] = toExecutor[c]
        BY <3>3 DEF TypeInv, WireOK
      <4>4. \A c \in Conns : \A n \in 1 .. Len(toExecutor'[c]) :
               \/ n \in 1 .. Len(toExecutor[c]) /\ toExecutor'[c][n] = toExecutor[c][n]
               \/ c = entry /\ n = Len(toExecutor[entry]) + 1 /\ toExecutor'[c][n] = a
        BY <4>2, <4>3
      <4> HIDE DEF a
      <4>5. ASSUME NEW c \in Conns, NEW n \in 1 .. Len(toExecutor'[c])
            PROVE  work'[toExecutor'[c][n]] = "none"
        BY <2>1, <3>1, <4>4 DEF SettleInv, QueueOK, Unsent
      <4>6. ASSUME NEW c \in Conns, NEW m \in 1 .. Len(toExecutor'[c]),
                   NEW e \in Conns, NEW n \in 1 .. Len(toExecutor'[e]),
                   toExecutor'[c][m] = toExecutor'[e][n]
            PROVE  c = e /\ m = n
        <5>1. \A i, j \in Conns : \A k \in 1 .. Len(toExecutor[i]), l \in 1 .. Len(toExecutor[j]) :
                 toExecutor[i][k] = toExecutor[j][l] => i = j /\ k = l
          BY DEF SettleInv, QueueOK
        <5>2. \A i \in Conns : \A k \in 1 .. Len(toExecutor[i]) : toExecutor[i][k] # a
          BY <3>1 DEF Unsent
        <5>3. \/ m \in 1 .. Len(toExecutor[c]) /\ toExecutor'[c][m] = toExecutor[c][m]
              \/ c = entry /\ m = Len(toExecutor[entry]) + 1 /\ toExecutor'[c][m] = a
          BY <4>4
        <5>4. \/ n \in 1 .. Len(toExecutor[e]) /\ toExecutor'[e][n] = toExecutor[e][n]
              \/ e = entry /\ n = Len(toExecutor[entry]) + 1 /\ toExecutor'[e][n] = a
          BY <4>4
        <5>5. CASE /\ m \in 1 .. Len(toExecutor[c]) /\ toExecutor'[c][m] = toExecutor[c][m]
                   /\ n \in 1 .. Len(toExecutor[e]) /\ toExecutor'[e][n] = toExecutor[e][n]
          <6>1. toExecutor[c][m] = toExecutor[e][n]
            BY <4>6, <5>5
          <6> QED BY <5>1, <5>5, <6>1
        <5>6. CASE m \in 1 .. Len(toExecutor[c]) /\ toExecutor'[c][m] = toExecutor[c][m] /\ toExecutor'[e][n] = a
          <6>1. toExecutor[c][m] = a
            BY <4>6, <5>6
          <6> QED BY <5>2, <5>6, <6>1
        <5>7. CASE n \in 1 .. Len(toExecutor[e]) /\ toExecutor'[e][n] = toExecutor[e][n] /\ toExecutor'[c][m] = a
          <6>1. toExecutor[e][n] = a
            BY <4>6, <5>7
          <6> QED BY <5>2, <5>7, <6>1
        <5> QED BY <5>3, <5>4, <5>5, <5>6, <5>7
      <4> QED BY <4>5, <4>6 DEF QueueOK
    <3> QED BY <1>6, <3>2, <3>3 DEF Send
  <2>5. UnsentOK' /\ \A q \in Procs : SettleLocal(q)'
    BY <1>0, <2>2, <2>3, SettleFrame DEF SettleInv, UnsentOK
  <2> QED BY <2>2, <2>4, <2>5 DEF SettleInv, StoreSettled
<1>7. CASE SendFailed
  <2>1. Others(d) /\ SettleLocal(d)' /\ pc'[d] \notin {"fence", "send"}
    BY <1>0, <1>7, PlainSettle DEF SendFailed
  <2>2. att[d] \in 0 .. MaxAttempt
    BY <1>0 DEF TypeInv, TypeOK, ControlType
  <2> QED BY <1>0, <1>7, <2>1, <2>2, MarkSettle DEF SendFailed
<1>8. CASE Materialize
  <2>1. Others(d) /\ SettleLocal(d)' /\ pc'[d] \notin {"fence", "send"}
    BY <1>0, <1>8, FinishSettle DEF Materialize
  <2>2. StoreSettled' /\ Keeps
    <3>1. UNCHANGED <<attempts, lastAttempt, work>>
      BY <1>8 DEF Materialize, wireVars
    <3>2. \A e \in Executions : executions'[e] = executions[e]
                                \/ (executions'[e].cur = 0 /\ executions'[e].state = "Scheduled")
      BY <1>8 DEF Materialize, TypeInv, TypeOK, StoreType
    <3> QED BY <1>0, <3>1, <3>2 DEF Keeps, StoreSettled, NamedOK, FreshOK, SettledByCurrentAttempt
  <2> QED BY <1>0, <1>8, <2>1, <2>2, SettleTogether DEF Materialize
<1> QED BY <1>1, <1>2, <1>3, <1>4, <1>5, <1>6, <1>7, <1>8 DEF DispatcherStep

\* The reconcile loop keeps SettleInv.
LEMMA ReaperSettle ==
    ASSUME TypeInv, SettleInv, ReaperStep PROVE SettleInv'
<1>1. PICK label \in LoopLabels : \E list : Enter("reaper", label, list)
  BY DEF ReaperStep, WaitingScan, ReapScan, LoopLabels
<1>2. UNCHANGED <<executions, attempts, lastAttempt, wireVars, localVars>>
  BY DEF ReaperStep, WaitingScan, ReapScan, storeVars
<1> QED BY <1>1, <1>2, EnterSettle, QuietSettle, ProcNames

\* The shared calls keep SettleInv: only FailMark prepares a Failed, none a
\* Succeeded.
LEMMA CallSettle ==
    ASSUME TypeInv, SnapshotsFaithful, SettleInv, NEW p \in Procs, CallStep(p) PROVE SettleInv'
<1>1. CASE Transition(p)
  <2> DEFINE s == exec[p]  st == goal[p]
  <2>1. s \in Known /\ s.id \in Executions /\ pc[p] = "transition"
    BY <1>1 DEF Transition, TypeInv, LocalOK, HandlerLabels, Known, Existing
  <2>2. Others(p) /\ SettleLocal(p)' /\ pc'[p] \notin {"fence", "send"}
    BY <1>1, PlainSettle, FinishSettle DEF Transition
  <2>3. StoreSettled' /\ Keeps
    <3>1. UNCHANGED <<attempts, lastAttempt, work>> /\ StoreSettled
      BY <1>1 DEF Transition, wireVars, SettleInv, StoreSettled
    <3>2. CASE Accepts(s, st)
      <4>1. executions[s.id] = s
        BY <2>1, <3>2, AcceptedCopy DEF Accepts
      <4>2. /\ executions[s.id].cur \in 0 .. MaxAttempt
            /\ executions[s.id].cur # 0 => attempts[executions[s.id].cur].exec = s.id
        BY <2>1, <3>1 DEF StoreSettled, NamedOK, TypeInv, TypeOK, StoreType, ExecutionRecords
      <4>3. /\ st # "Succeeded"
            /\ st = "Failed" => executions[s.id].cur # 0 /\ work[executions[s.id].cur] \in Errors
        BY <2>1, <4>1, BoundsAssumption DEF SettleInv, SettleLocal, Attempts
      <4>4. executions' = Updated(s, st, executions[s.id].fa, executions[s.id].cur)
        BY <1>1, <3>2 DEF Transition, UpdateState
      <4> HIDE DEF s, st
      <4> QED BY <2>1, <3>1, <4>2, <4>3, <4>4, WriteStore
    <3>3. CASE ~Accepts(s, st)
      BY <1>1, <3>1, <3>3, QuietStore DEF Transition, UpdateState
    <3> QED BY <3>2, <3>3
  <2> QED BY <1>1, <2>2, <2>3, SettleTogether DEF Transition
<1>2. CASE Requeue(p)
  <2>1. Others(p) /\ SettleLocal(p)' /\ pc'[p] \notin {"fence", "send"}
    BY <1>2, TransitionSettle, FinishSettle DEF Requeue
  <2> QED BY <1>2, <2>1, QuietSettle DEF Requeue, storeVars
<1>3. CASE Abandon(p)
  <2>1. Others(p) /\ SettleLocal(p)' /\ pc'[p] \notin {"fence", "send"}
    BY <1>3, PlainSettle DEF Abandon
  <2>2. att[p] \in 0 .. MaxAttempt
    BY DEF TypeInv, TypeOK, ControlType
  <2> QED BY <1>3, <2>1, <2>2, MarkSettle DEF Abandon
<1>4. CASE AbandonNext(p)
  <2>1. Others(p) /\ SettleLocal(p)' /\ pc'[p] \notin {"fence", "send"}
    BY <1>4, PlainSettle DEF AbandonNext
  <2> QED BY <1>4, <2>1, QuietSettle DEF AbandonNext, storeVars
<1>5. CASE RewaitNext(p)
  <2>1. \/ Goto(p, "requeue") /\ \E s : Hold(p, s, 0, "None")
        \/ \E S, T : Return(p, S, T) /\ UNCHANGED localVars
    BY <1>5 DEF RewaitNext
  <2>2. Others(p) /\ SettleLocal(p)' /\ pc'[p] \notin {"fence", "send"}
    BY <2>1, PlainSettle, ReturnSettle
  <2> QED BY <1>5, <2>2, QuietSettle DEF RewaitNext, storeVars
<1> QED BY <1>1, <1>2, <1>3, <1>4, <1>5 DEF CallStep

\* The connection handlers keep SettleInv: HandleExecResult passes on only the
\* outcome of the current attempt.
LEMMA ReaderSettle ==
    ASSUME TypeInv, SnapshotsFaithful, SettleInv, NEW c \in Conns, ReaderStep(c) PROVE SettleInv'
<1>0. c \in Procs /\ c # "dispatcher" /\ StoreSettled /\ SettleLocal(c)
  BY ProcNames DEF SettleInv, StoreSettled
<1>1. CASE Reconsider(c)
  BY <1>0, <1>1, EnterSettle, QuietSettle DEF Reconsider, storeVars, LoopLabels
<1>2. CASE HandleExecAccept(c) \/ HandleExecReject(c) \/ HandleExecResult(c)
  <2> DEFINE m == Head(toEngine[c])  e == executions[attempts[m.att].exec]
  <2>1. UNCHANGED <<storeVars, up, toExecutor, work>>
    BY <1>2 DEF HandleExecAccept, HandleExecReject, HandleExecResult
  <2>2. toEngine[c] # <<>> /\ toEngine' = [toEngine EXCEPT ![c] = Tail(@)]
    BY <1>2 DEF HandleExecAccept, HandleExecReject, HandleExecResult, Receive
  <2>3. m \in Truthful /\ TruthOK'
    <3>1. toEngine[c] \in Seq(Truthful)
      BY DEF SettleInv, TruthOK
    <3>2. m \in Truthful /\ Tail(toEngine[c]) \in Seq(Truthful)
      BY <2>2, <3>1, HeadTailProperties
    <3> HIDE DEF m
    <3>3. toEngine' \in [Conns -> Seq(Truthful)] /\ Truthful' = Truthful
      BY <2>1, <2>2, <3>2 DEF SettleInv, TruthOK, Truthful
    <3> QED BY <3>2, <3>3 DEF TruthOK
  <2>4. StoreSettled' /\ Keeps /\ QueueOK'
    BY <1>0, <2>1, QuietStore DEF storeVars, SettleInv, QueueOK
  <2>5. Others(c) /\ SettleLocal(c)'
    <3>1. CASE HandleExecAccept(c)
      <4>1. \/ Goto(c, "acceptRun") /\ Hold(c, e, m.att, "None")
            \/ UNCHANGED <<pc, localVars>>
        BY <3>1 DEF HandleExecAccept
      <4>2. CASE UNCHANGED <<pc, localVars>>
        BY <1>0, <2>1, <4>2 DEF Others, SettleLocal, localVars, storeVars
      <4> QED BY <1>0, <4>1, <4>2, PlainSettle
    <3>2. CASE HandleExecReject(c)
      <4>1. \/ Goto(c, "rejectMark") /\ \E g : Hold(c, e, m.att, g)
            \/ UNCHANGED <<pc, localVars>>
        BY <3>2 DEF HandleExecReject
      <4>2. CASE UNCHANGED <<pc, localVars>>
        BY <1>0, <2>1, <4>2 DEF Others, SettleLocal, localVars, storeVars
      <4> QED BY <1>0, <4>1, <4>2, PlainSettle
    <3>3. CASE HandleExecResult(c)
      <4>1. CASE UNCHANGED <<pc, localVars>>
        BY <1>0, <2>1, <4>1 DEF Others, SettleLocal, localVars, storeVars
      <4>2. CASE ~UNCHANGED <<pc, localVars>>
        <5>1. /\ e.cur = m.att /\ m.type \in Results
              /\ Goto(c, IF m.type = "ok" THEN "succeed" ELSE "failMark")
              /\ \E g : Hold(c, e, m.att, g)
          BY <3>3, <4>2 DEF HandleExecResult, Current, Receive, Results
        <5>2. work[m.att] = m.type
          BY <2>3, <5>1 DEF Truthful
        <5> HIDE DEF m, e
        <5>3. m.type = "ok" \/ m.type \in Errors
          BY <5>1 DEF Results, Errors
        <5> QED BY <1>0, <2>1, <5>1, <5>2, <5>3 DEF Goto, Hold, Others, SettleLocal, TypeInv, TypeOK, ControlType, Errors
      <4> QED BY <4>1, <4>2
    <3> QED BY <1>2, <3>1, <3>2, <3>3
  <2>6. UnsentOK' /\ \A q \in Procs : SettleLocal(q)'
    BY <1>0, <2>1, <2>4, <2>5, SettleFrame, ProcNames DEF SettleInv, UnsentOK, Unsent, Others
  <2> QED BY <2>3, <2>4, <2>6 DEF SettleInv, StoreSettled
<1>3. CASE AcceptRun(c) \/ Succeed(c)
  <2> DEFINE s == exec[c]
  <2>1. s \in Known /\ s.id \in Executions /\ att[c] \in Attempts
    BY <1>0, <1>3 DEF AcceptRun, Succeed, TypeInv, LocalOK, HandlerLabels, AttemptLabels, Known, Existing, Issued
  <2>2. UNCHANGED <<attempts, lastAttempt, wireVars, work>>
    BY <1>3 DEF AcceptRun, Succeed, wireVars
  <2>3. Others(c) /\ SettleLocal(c)' /\ pc'[c] \notin {"fence", "send"}
    BY <1>0, <1>3, PlainSettle, FinishSettle DEF AcceptRun, Succeed
  <2>4. CASE UNCHANGED executions
    BY <1>0, <2>2, <2>3, <2>4, QuietSettle
  <2>5. ASSUME NEW st \in {"Running", "Succeeded"}, NEW f, Accepts(s, st),
               st = "Succeeded" => pc[c] = "succeed",
               executions' = Updated(s, st, f, executions[s.id].cur)
        PROVE  SettleInv'
    <3>1. executions[s.id] = s
      BY <1>0, <2>1, <2>5, AcceptedCopy DEF Accepts
    <3>2. /\ executions[s.id].cur \in 0 .. MaxAttempt
          /\ executions[s.id].cur # 0 => attempts[executions[s.id].cur].exec = s.id
      BY <1>0, <2>1 DEF StoreSettled, NamedOK, TypeInv, TypeOK, StoreType, ExecutionRecords
    <3>3. st = "Succeeded" => executions[s.id].cur # 0 /\ work[executions[s.id].cur] = "ok"
      BY <1>0, <2>1, <2>5, <3>1, BoundsAssumption DEF SettleLocal, Attempts
    <3>4. StoreSettled' /\ Keeps
      BY <1>0, <2>1, <2>2, <2>5, <3>2, <3>3, WriteStore
    <3> QED BY <1>0, <2>2, <2>3, <3>4, SettleTogether
  <2> QED BY <1>3, <2>4, <2>5 DEF AcceptRun, Succeed
<1>4. CASE AcceptMark(c) \/ SucceedMark(c) \/ RejectMark(c) \/ FailMark(c)
  <2>1. att[c] \in 0 .. MaxAttempt /\ UNCHANGED <<executions, lastAttempt, wireVars>>
    BY <1>0, <1>4 DEF AcceptMark, SucceedMark, RejectMark, FailMark, TypeInv, TypeOK, ControlType
  <2>2. \E from, to : UpdateAttemptState(att[c], from, to)
    BY <1>4 DEF AcceptMark, SucceedMark, RejectMark, FailMark
  <2>3. Others(c) /\ SettleLocal(c)' /\ pc'[c] \notin {"fence", "send"}
    <3>1. CASE AcceptMark(c) \/ SucceedMark(c)
      BY <1>0, <3>1, FinishSettle DEF AcceptMark, SucceedMark
    <3>2. CASE RejectMark(c)
      <4>1. goal[c] \in {"Ready", "WaitingCompatible"}
        BY <1>0, <3>2 DEF RejectMark, TypeInv, LocalOK
      <4>2. CASE Finish(c)
        BY <1>0, <4>2, FinishSettle
      <4>3. CASE Goto(c, IF goal[c] = "Ready" THEN "requeue" ELSE "transition") /\ UNCHANGED localVars
        BY <1>0, <4>1, <4>3 DEF Goto, Others, SettleLocal, localVars, TypeInv, TypeOK, ControlType
      <4> QED BY <3>2, <4>2, <4>3 DEF RejectMark
    <3>3. CASE FailMark(c)
      <4>1. /\ exec[c].cur = att[c] /\ work[att[c]] \in Errors /\ att[c] \in Attempts
            /\ UNCHANGED work
        BY <1>0, <3>3 DEF FailMark, SettleLocal, TypeInv, LocalOK, AttemptLabels, Issued, wireVars
      <4>2. Goto(c, "transition") /\ \E g \in {"RetryWait", "Failed"} : Hold(c, exec[c], att[c], g)
        BY <3>3 DEF FailMark
      <4> QED BY <1>0, <4>1, <4>2 DEF Goto, Hold, Others, SettleLocal, TypeInv, TypeOK, ControlType
    <3> QED BY <1>4, <3>1, <3>2, <3>3
  <2> QED BY <1>0, <2>1, <2>2, <2>3, MarkSettle
<1>5. CASE Deregister(c)
  <2>1. Others(c) /\ SettleLocal(c)' /\ pc'[c] \notin {"fence", "send"}
    BY <1>0, <1>5, PlainSettle DEF Deregister
  <2> QED BY <1>0, <1>5, <2>1, QuietSettle DEF Deregister, storeVars
<1>6. CASE DisconnectList(c)
  BY <1>0, <1>6, EnterSettle, QuietSettle DEF DisconnectList, storeVars, LoopLabels
<1>7. CASE DisconnectNext(c)
  <2>1. \/ Goto(c, "abandon") /\ \E s, a, g : Hold(c, s, a, g)
        \/ \E S, T : Return(c, S, T) /\ UNCHANGED localVars
    BY <1>7 DEF DisconnectNext, NextOpen
  <2>2. Others(c) /\ SettleLocal(c)' /\ pc'[c] \notin {"fence", "send"}
    BY <1>0, <2>1, PlainSettle, ReturnSettle
  <2> QED BY <1>0, <1>7, <2>2, QuietSettle DEF DisconnectNext, storeVars
<1> QED BY <1>1, <1>2, <1>3, <1>4, <1>5, <1>6, <1>7 DEF ReaderStep

\* The heartbeat handler keeps SettleInv.
LEMMA PumpSettle ==
    ASSUME TypeInv, SettleInv, HeartbeatNext \/ \E i \in Instances : HandleHeartbeat(i)
    PROVE  SettleInv'
<1> DEFINE p == "pump"
<1>0. p \in Procs
  BY ProcNames
<1>1. CASE \E i \in Instances : HandleHeartbeat(i)
  <2>1. UNCHANGED <<executions, attempts, lastAttempt, wireVars, localVars>> /\ \E list : Enter(p, "beat", list)
    BY <1>1 DEF HandleHeartbeat, storeVars
  <2> QED BY <1>0, <2>1, EnterSettle, QuietSettle DEF LoopLabels
<1>2. CASE HeartbeatNext
  <2>1. UNCHANGED <<executions, attempts, lastAttempt, wireVars>>
    BY <1>2 DEF HeartbeatNext, storeVars
  <2>2. \/ Goto(p, "transition") /\ \E s, a : \E g \in LeasedStates : Hold(p, s, a, g)
        \/ \E S, T : Return(p, S, T) /\ UNCHANGED localVars
    BY <1>2 DEF HeartbeatNext, NextOpen
  <2>3. Others(p) /\ SettleLocal(p)' /\ pc'[p] \notin {"fence", "send"}
    BY <1>0, <2>2, TransitionSettle, ReturnSettle DEF LeasedStates
  <2> QED BY <1>0, <2>1, <2>3, QuietSettle
<1> QED BY <1>1, <1>2

\* The job operations keep SettleInv.
LEMMA AdminSettle == ASSUME TypeInv, SettleInv, AdminStep PROVE SettleInv'
<1> DEFINE p == "admin"
<1>0. p \in Procs
  BY ProcNames
<1>1. UNCHANGED <<executions, attempts, lastAttempt, wireVars>>
  BY DEF AdminStep, HandleJobUpsert, CancelReplaced, HandleJobDelete, CancelNext, DeleteJob, storeVars
<1>2. CASE HandleJobUpsert \/ DeleteJob
  <2>1. Others(p) /\ SettleLocal(p)' /\ pc'[p] \notin {"fence", "send"}
    BY <1>0, <1>2, PlainSettle DEF HandleJobUpsert, DeleteJob
  <2> QED BY <1>0, <1>1, <2>1, QuietSettle
<1>3. CASE CancelReplaced \/ HandleJobDelete
  <2>1. UNCHANGED localVars /\ \E label \in LoopLabels : \E list : Enter(p, label, list)
    BY <1>3 DEF CancelReplaced, HandleJobDelete, LoopLabels
  <2> QED BY <1>0, <1>1, <2>1, EnterSettle, QuietSettle
<1>4. CASE CancelNext
  <2>1. Goto(p, "transition") /\ \E s : Hold(p, s, 0, "Cancelled")
    BY <1>4 DEF CancelNext
  <2>2. Others(p) /\ SettleLocal(p)' /\ pc'[p] \notin {"fence", "send"}
    BY <1>0, <2>1, TransitionSettle
  <2> QED BY <1>0, <1>1, <2>2, QuietSettle
<1> QED BY <1>2, <1>3, <1>4 DEF AdminStep

\* Steps outside the scheduler.
LEMMA WireSettle ==
    ASSUME TypeInv, SettleInv, UNCHANGED <<storeVars, controlVars, localVars>>,
           \A a \in Attempts : work[a] \in Results => work'[a] = work[a],
           QueueOK', UnsentOK', TruthOK'
    PROVE  SettleInv'
<1>1. StoreSettled' /\ Keeps
  BY QuietStore DEF SettleInv, StoreSettled, storeVars
<1>2. Others("admin") /\ SettleLocal("admin")'
  <2>1. pc["admin"] \in AttemptLabels => att["admin"] \in Attempts
    BY ProcNames DEF TypeInv, LocalOK, Issued
  <2>2. SettleLocal("admin") /\ UNCHANGED <<pc, exec, att, goal, attempts>>
    BY ProcNames DEF SettleInv, storeVars, controlVars, localVars
  <2> QED BY <2>1, <2>2 DEF Others, SettleLocal, AttemptLabels, Results, Errors
<1>3. \A q \in Procs : SettleLocal(q)'
  BY <1>1, <1>2, SettleFrame, ProcNames DEF SettleInv
<1> QED BY <1>1, <1>3 DEF SettleInv, StoreSettled

\* Messages stay true while outcomes stay.
LEMMA TruthGrows ==
    ASSUME TypeInv, \A a \in Attempts : work[a] \in Results => work'[a] = work[a]
    PROVE  Truthful \subseteq Truthful'
  BY DEF Truthful, Messages, Results

\* An executor starting an attempt overwrites no outcome: an attempt is queued
\* once, and before it ran.
LEMMA HandleExecRequestSettle ==
    ASSUME TypeInv, SettleInv, NEW c \in Conns, HandleExecRequest(c) PROVE SettleInv'
<1> DEFINE s == toExecutor[c]  a == Head(s)
<1>1. UNCHANGED <<storeVars, controlVars, localVars>>
  BY DEF HandleExecRequest
<1>2. s \in Seq(Issued) /\ s # <<>> /\ toExecutor' = [toExecutor EXCEPT ![c] = Tail(@)]
  BY DEF HandleExecRequest, TypeInv, WireOK
<1>3. /\ a = s[1] /\ 1 \in 1 .. Len(s) /\ a \in Attempts
      /\ Len(Tail(s)) = Len(s) - 1 /\ Len(s) \in Nat
      /\ \A n \in 1 .. Len(Tail(s)) : Tail(s)[n] = s[n + 1] /\ n + 1 \in 1 .. Len(s)
  <2>1. Len(s) \in Nat /\ Len(s) # 0
    BY <1>2, EmptySeq, LenProperties
  <2>2. a = s[1] /\ a \in Issued /\ Len(Tail(s)) = Len(s) - 1
        /\ \A n \in 1 .. Len(Tail(s)) : Tail(s)[n] = s[n + 1]
    BY <1>2, <2>1, HeadTailProperties
  <2> QED BY <2>1, <2>2 DEF Issued
<1> HIDE DEF a
<1>4. work[a] = "none"
  BY <1>3 DEF SettleInv, QueueOK
<1>5. \A b \in Attempts : (b # a \/ work' = work) => work'[b] = work[b]
  BY <1>3 DEF HandleExecRequest, a, TypeInv, TypeOK, WireType
<1>6. \A b \in Attempts : work[b] \in Results => work'[b] = work[b]
  BY <1>4, <1>5 DEF Results
<1>7. \A e \in Conns : \A n \in 1 .. Len(toExecutor'[e]) :
         \E k \in 1 .. Len(toExecutor[e]) :
            /\ toExecutor'[e][n] = toExecutor[e][k] /\ toExecutor'[e][n] \in Attempts
            /\ e = c => k = n + 1
            /\ e # c => k = n
  <2>1. ASSUME NEW e \in Conns, NEW k \in 1 .. Len(toExecutor[e]) PROVE toExecutor[e][k] \in Attempts
    BY ElementOfSeq DEF TypeInv, WireOK, Issued
  <2>2. toExecutor'[c] = Tail(s) /\ \A e \in Conns \ {c} : toExecutor'[e] = toExecutor[e]
    BY <1>2 DEF TypeInv, WireOK
  <2>3. ASSUME NEW e \in Conns, e # c, NEW n \in 1 .. Len(toExecutor'[e])
        PROVE  n \in 1 .. Len(toExecutor[e]) /\ toExecutor'[e][n] = toExecutor[e][n]
    BY <2>2, <2>3
  <2>4. ASSUME NEW n \in 1 .. Len(toExecutor'[c])
        PROVE  n + 1 \in 1 .. Len(toExecutor[c]) /\ toExecutor'[c][n] = toExecutor[c][n + 1]
    BY <1>3, <2>2
  <2> SUFFICES ASSUME NEW e \in Conns, NEW n \in 1 .. Len(toExecutor'[e])
               PROVE  \E k \in 1 .. Len(toExecutor[e]) :
                         /\ toExecutor'[e][n] = toExecutor[e][k] /\ toExecutor'[e][n] \in Attempts
                         /\ e = c => k = n + 1
                         /\ e # c => k = n
    OBVIOUS
  <2>5. CASE e = c
    <3>1. n + 1 \in 1 .. Len(toExecutor[e]) /\ toExecutor'[e][n] = toExecutor[e][n + 1]
      BY <2>4, <2>5
    <3>2. toExecutor[e][n + 1] \in Attempts
      BY <2>1, <3>1
    <3> QED BY <2>5, <3>1, <3>2
  <2>6. CASE e # c
    <3>1. n \in 1 .. Len(toExecutor[e]) /\ toExecutor'[e][n] = toExecutor[e][n]
      BY <2>3, <2>6
    <3>2. toExecutor[e][n] \in Attempts
      BY <2>1, <3>1
    <3> QED BY <2>6, <3>1, <3>2
  <2> QED BY <2>5, <2>6
<1>8. \A e \in Conns : \A n \in 1 .. Len(toExecutor'[e]) : toExecutor'[e][n] # a
  BY <1>3, <1>7 DEF SettleInv, QueueOK
<1>9. QueueOK'
  <2>1. ASSUME NEW e \in Conns, NEW n \in 1 .. Len(toExecutor'[e]) PROVE work'[toExecutor'[e][n]] = "none"
    <3>1. PICK k \in 1 .. Len(toExecutor[e]) : toExecutor'[e][n] = toExecutor[e][k] /\ toExecutor'[e][n] \in Attempts
      BY <1>7
    <3>2. work[toExecutor[e][k]] = "none"
      BY DEF SettleInv, QueueOK
    <3> QED BY <1>5, <1>8, <3>1, <3>2
  <2>2. ASSUME NEW e \in Conns, NEW f \in Conns, NEW m \in 1 .. Len(toExecutor'[e]),
               NEW n \in 1 .. Len(toExecutor'[f]), toExecutor'[e][m] = toExecutor'[f][n]
        PROVE  e = f /\ m = n
    <3>1. PICK k \in 1 .. Len(toExecutor[e]) : /\ toExecutor'[e][m] = toExecutor[e][k]
                                               /\ e = c => k = m + 1
                                               /\ e # c => k = m
      BY <1>7
    <3>2. PICK l \in 1 .. Len(toExecutor[f]) : /\ toExecutor'[f][n] = toExecutor[f][l]
                                               /\ f = c => l = n + 1
                                               /\ f # c => l = n
      BY <1>7
    <3>3. toExecutor[e][k] = toExecutor[f][l]
      BY <2>2, <3>1, <3>2
    <3>4. \A i, j \in Conns : \A x \in 1 .. Len(toExecutor[i]), y \in 1 .. Len(toExecutor[j]) :
             toExecutor[i][x] = toExecutor[j][y] => i = j /\ x = y
      BY DEF SettleInv, QueueOK
    <3>5. e = f /\ k = l
      BY SMTT(30), <3>3, <3>4
    <3> QED BY <3>1, <3>2, <3>5
  <2> QED BY <2>1, <2>2 DEF QueueOK
<1>10. UnsentOK'
  <2> SUFFICES ASSUME pc["dispatcher"] \in {"fence", "send"} PROVE Unsent(att["dispatcher"])'
    BY <1>1 DEF UnsentOK, controlVars, localVars
  <2>1. Unsent(att["dispatcher"]) /\ att["dispatcher"] \in Attempts
    BY ProcNames DEF SettleInv, UnsentOK, TypeInv, LocalOK, AttemptLabels, Issued
  <2>2. att["dispatcher"] # a
    BY <1>3, <2>1 DEF Unsent
  <2>3. ASSUME NEW e \in Conns, NEW n \in 1 .. Len(toExecutor'[e]) PROVE toExecutor'[e][n] # att["dispatcher"]
    BY <1>7, <2>1 DEF Unsent
  <2> QED BY <1>1, <1>5, <2>1, <2>2, <2>3 DEF Unsent, localVars
<1>11. TruthOK'
  <2>1. Truthful \subseteq Truthful'
    BY <1>6, TruthGrows
  <2>2. \/ UNCHANGED toEngine
        \/ \E t \in {"accept", "reject", "incompatible"} : Sink(c, [type |-> t, att |-> a])
    BY DEF HandleExecRequest, a
  <2>3. ASSUME NEW t \in {"accept", "reject", "incompatible"}, Sink(c, [type |-> t, att |-> a])
        PROVE  toEngine' \in [Conns -> Seq(Truthful)]
    <3> DEFINE m == [type |-> t, att |-> a]
    <3>1. m \in Truthful
      BY <1>3 DEF Truthful, Messages, Results
    <3>2. toEngine[c] \in Seq(Truthful)
      BY DEF SettleInv, TruthOK
    <3> HIDE DEF m
    <3>3. Append(toEngine[c], m) \in Seq(Truthful)
      BY <3>1, <3>2, AppendProperties
    <3> QED BY <2>3, <3>3 DEF Sink, SettleInv, TruthOK, m
  <2>4. toEngine' \in [Conns -> Seq(Truthful)]
    BY <2>2, <2>3 DEF SettleInv, TruthOK
  <2>5. \A e \in Conns : toEngine'[e] \in Seq(Truthful')
    BY <2>1, <2>4, SeqMonotonic
  <2> QED BY <2>4, <2>5 DEF TruthOK
<1> QED BY <1>1, <1>6, <1>9, <1>10, <1>11, WireSettle

\* An executor finishing an attempt reports the outcome it has.
LEMMA RunExecutionSettle ==
    ASSUME TypeInv, SettleInv, NEW a \in Attempts, RunExecution(a) PROVE SettleInv'
<1>1. UNCHANGED <<storeVars, controlVars, localVars, toExecutor>>
  BY DEF RunExecution
<1>2. PICK t \in Results :
        /\ work' = [work EXCEPT ![a] = t]
        /\ (\E c \in up : Sink(c, [type |-> t, att |-> a])) \/ UNCHANGED toEngine
  BY DEF RunExecution, Results
<1>3. work'[a] = t /\ \A b \in Attempts \ {a} : work'[b] = work[b]
  BY <1>2 DEF TypeInv, TypeOK, WireType
<1>4. work[a] = "running"
  BY DEF RunExecution
<1>5. \A b \in Attempts : work[b] \in Results => work'[b] = work[b]
  BY <1>3, <1>4 DEF Results
<1>6. QueueOK'
  <2>1. ASSUME NEW e \in Conns, NEW n \in 1 .. Len(toExecutor[e]) PROVE work'[toExecutor[e][n]] = "none"
    <3>1. toExecutor[e][n] \in Attempts
      BY ElementOfSeq DEF TypeInv, WireOK, Issued
    <3>2. work[toExecutor[e][n]] = "none"
      BY DEF SettleInv, QueueOK
    <3> QED BY <1>3, <1>4, <3>1, <3>2
  <2> QED BY <1>1, <2>1 DEF SettleInv, QueueOK
<1>7. UnsentOK'
  <2> SUFFICES ASSUME pc["dispatcher"] \in {"fence", "send"} PROVE Unsent(att["dispatcher"])'
    BY <1>1 DEF UnsentOK, controlVars, localVars
  <2>1. Unsent(att["dispatcher"]) /\ att["dispatcher"] \in Attempts
    BY ProcNames DEF SettleInv, UnsentOK, TypeInv, LocalOK, AttemptLabels, Issued
  <2> QED BY <1>1, <1>3, <1>4, <2>1 DEF Unsent, localVars
<1>8. TruthOK'
  <2>1. Truthful \subseteq Truthful'
    BY <1>5, TruthGrows
  <2>2. \A e \in Conns : toEngine[e] \in Seq(Truthful')
    BY <2>1, SeqMonotonic DEF SettleInv, TruthOK
  <2>3. ASSUME NEW c \in Conns, Sink(c, [type |-> t, att |-> a]) PROVE TruthOK'
    <3> DEFINE m == [type |-> t, att |-> a]
    <3>1. m \in Truthful'
      BY <1>3 DEF Truthful, Messages, Results
    <3> HIDE DEF m
    <3>2. Append(toEngine[c], m) \in Seq(Truthful')
      BY <2>2, <3>1, AppendProperties
    <3> QED BY <2>2, <2>3, <3>2 DEF Sink, SettleInv, TruthOK, m
  <2>4. CASE UNCHANGED toEngine
    BY <2>2, <2>4 DEF SettleInv, TruthOK
  <2>5. up \subseteq Conns
    BY DEF TypeInv, TypeOK, WireType
  <2> QED BY <1>2, <2>3, <2>4, <2>5
<1> QED BY <1>1, <1>5, <1>6, <1>7, <1>8, WireSettle

\* Losing messages, and the work of a dead executor, hides no outcome.
LEMMA LossSettle ==
    ASSUME TypeInv, SettleInv, UNCHANGED storeVars,
           \A a \in Attempts : work'[a] = work[a] \/ (work[a] = "running" /\ work'[a] = "gone"),
           \A c \in Conns : toExecutor'[c] = toExecutor[c] \/ toExecutor'[c] = <<>>,
           toEngine' \in [Conns -> Seq(Messages)],
           \A c \in Conns : toEngine'[c] = toEngine[c] \/ toEngine'[c] = <<>>
    PROVE  /\ QueueOK' /\ TruthOK'
           /\ \A a \in Attempts : Unsent(a) => Unsent(a)'
           /\ \A a \in Attempts : work[a] \in Results => work'[a] = work[a]
<1>1. \A c \in Conns : \A n \in 1 .. Len(toExecutor'[c]) :
         n \in 1 .. Len(toExecutor[c]) /\ toExecutor'[c] = toExecutor[c]
  <2>1. Len(<<>>) = 0
    BY EmptySeq
  <2> QED BY <2>1
<1>2. QueueOK'
  <2>1. ASSUME NEW c \in Conns, NEW n \in 1 .. Len(toExecutor'[c]) PROVE work'[toExecutor'[c][n]] = "none"
    <3>1. toExecutor[c][n] \in Attempts /\ work[toExecutor[c][n]] = "none"
      <4>1. n \in 1 .. Len(toExecutor[c]) /\ toExecutor[c] \in Seq(Issued)
        BY <1>1 DEF TypeInv, WireOK
      <4>2. toExecutor[c][n] \in Issued
        BY <4>1, ElementOfSeq
      <4>3. work[toExecutor[c][n]] = "none"
        BY <4>1 DEF SettleInv, QueueOK
      <4> QED BY <4>2, <4>3 DEF Issued
    <3> QED BY <1>1, <3>1
  <2>2. ASSUME NEW c \in Conns, NEW d \in Conns, NEW m \in 1 .. Len(toExecutor'[c]),
               NEW n \in 1 .. Len(toExecutor'[d]), toExecutor'[c][m] = toExecutor'[d][n]
        PROVE  c = d /\ m = n
    BY <1>1, <2>2 DEF SettleInv, QueueOK
  <2> QED BY <2>1, <2>2 DEF QueueOK
<1>3. \A a \in Attempts : work[a] \in Results => work'[a] = work[a]
  BY DEF Results
<1>4. TruthOK'
  <2>1. Truthful \subseteq Truthful' /\ <<>> \in Seq(Truthful')
    BY <1>3, TruthGrows, EmptySeq
  <2>2. \A c \in Conns : toEngine'[c] \in Seq(Truthful')
    BY <2>1, SeqMonotonic DEF SettleInv, TruthOK
  <2> QED BY <2>2 DEF TruthOK
<1>5. \A a \in Attempts : Unsent(a) => Unsent(a)'
  BY <1>1 DEF Unsent
<1> QED BY <1>2, <1>3, <1>4, <1>5

\* Lost connections and dead executors keep SettleInv.
LEMMA FaultSettle ==
    ASSUME TypeInv, TypeInv', SettleInv,
           (\E c \in Conns : Drop(c)) \/ (\E i \in Instances : ExecutorCrash(i))
    PROVE  SettleInv'
<1>1. UNCHANGED <<storeVars, controlVars, localVars>>
  BY DEF Drop, ExecutorCrash
<1>2. /\ \A a \in Attempts : work'[a] = work[a] \/ (work[a] = "running" /\ work'[a] = "gone")
      /\ \A c \in Conns : toExecutor'[c] = toExecutor[c] \/ toExecutor'[c] = <<>>
      /\ \A c \in Conns : toEngine'[c] = toEngine[c] \/ toEngine'[c] = <<>>
  BY DEF Drop, ExecutorCrash, RunningOn, TypeInv, TypeOK, WireType
<1>3. toEngine' \in [Conns -> Seq(Messages)]
  BY DEF TypeInv, TypeOK, WireType
<1>4. QueueOK' /\ TruthOK' /\ \A a \in Attempts : /\ Unsent(a) => Unsent(a)'
                                                  /\ work[a] \in Results => work'[a] = work[a]
  BY <1>1, <1>2, <1>3, LossSettle
<1>5. UnsentOK'
  <2>1. pc["dispatcher"] \in {"fence", "send"} => att["dispatcher"] \in Attempts
    BY ProcNames DEF TypeInv, LocalOK, AttemptLabels, Issued
  <2> QED BY <1>1, <1>4, <2>1 DEF SettleInv, UnsentOK, controlVars, localVars, Unsent
<1> QED BY <1>1, <1>4, <1>5, WireSettle

\* A scheduler restart keeps SettleInv.
LEMMA RestartSettle == ASSUME TypeInv, TypeInv', SettleInv, Restart PROVE SettleInv'
<1>1. UNCHANGED <<storeVars, work>>
  BY DEF Restart
<1>2. QueueOK' /\ TruthOK'
  <2>1. /\ \A c \in Conns : toExecutor'[c] = <<>> /\ toEngine'[c] = <<>>
        /\ toEngine' \in [Conns -> Seq(Messages)]
    BY DEF Restart, TypeInv, TypeOK, WireType
  <2> QED BY <1>1, <2>1, LossSettle
<1>3. StoreSettled'
  BY <1>1, QuietStore DEF SettleInv, StoreSettled, storeVars
<1>4. UnsentOK' /\ \A p \in Procs : SettleLocal(p)'
  BY ProcNames DEF Restart, UnsentOK, SettleLocal
<1> QED BY <1>2, <1>3, <1>4 DEF SettleInv, StoreSettled

\* Every step of the system keeps SettleInv.
LEMMA NextSettle ==
    TypeInv /\ TypeInv' /\ SnapshotsFaithful /\ SettleInv /\ [Next]_vars => SettleInv'
<1> SUFFICES ASSUME TypeInv, TypeInv', SnapshotsFaithful, SettleInv, [Next]_vars PROVE SettleInv'
  OBVIOUS
<1>1. CASE Connect
  <2>1. PICK i \in Instances, c \in Conns : Register(i, c)
    BY <1>1 DEF Connect
  <2>2. Others(c) /\ SettleLocal(c)' /\ pc'[c] \notin {"fence", "send"} /\ c \in Procs /\ c # "dispatcher"
    BY <2>1, PlainSettle, ProcNames DEF Register
  <2>3. StoreSettled' /\ Keeps
    BY <2>1, QuietStore DEF Register, storeVars, SettleInv, StoreSettled
  <2>4. UNCHANGED <<toExecutor, toEngine, work>>
    BY <2>1 DEF Register
  <2>5. QueueOK' /\ TruthOK' /\ UnsentOK'
    BY <2>2, <2>4, ProcNames DEF SettleInv, QueueOK, TruthOK, Truthful, UnsentOK, Unsent, Others
  <2>6. \A q \in Procs : SettleLocal(q)'
    BY <2>2, <2>3, SettleFrame DEF SettleInv
  <2> QED BY <2>3, <2>5, <2>6 DEF SettleInv, StoreSettled
<1>2. CASE UNCHANGED vars
  <2>1. UNCHANGED <<storeVars, wireVars, localVars, controlVars>>
    BY <1>2 DEF vars
  <2>2. Others("admin") /\ SettleLocal("admin")'
    BY <2>1, ProcNames DEF SettleInv, Others, SettleLocal, storeVars, wireVars, localVars, controlVars
  <2>3. StoreSettled' /\ Keeps
    BY <2>1, QuietStore DEF storeVars, wireVars, SettleInv, StoreSettled
  <2> QED BY <2>1, <2>2, <2>3, SettleTogether, ProcNames
<1> QED BY <1>1, <1>2, DispatcherSettle, ReaperSettle, CallSettle, ReaderSettle, PumpSettle, AdminSettle,
           HandleExecRequestSettle, RunExecutionSettle, FaultSettle, RestartSettle DEF Next, ExecutorStep

\* SettleInv holds initially.
LEMMA InitSettle == Init => SettleInv
<1> SUFFICES ASSUME Init PROVE SettleInv
  OBVIOUS
<1>1. Len(<<>>) = 0 /\ <<>> \in Seq(Truthful)
  BY EmptySeq
<1>2. QueueOK /\ TruthOK
  BY <1>1 DEF Init, QueueOK, TruthOK
<1>3. NamedOK /\ FreshOK /\ SettledByCurrentAttempt
  BY DEF Init, NamedOK, FreshOK, SettledByCurrentAttempt
<1>4. UnsentOK /\ \A p \in Procs : SettleLocal(p)
  BY ProcNames DEF Init, UnsentOK, SettleLocal
<1> QED BY <1>2, <1>3, <1>4 DEF SettleInv

\* Whatever is redispatched, reaped, lost or restarted, an execution is
\* Succeeded or Failed only with the outcome of the attempt it names as current.
THEOREM SettlementSafety == Spec => []SettledByCurrentAttempt
<1>1. Init => SettleInv
  BY InitSettle
<1>2. TypeInv /\ TypeInv' /\ SnapshotsFaithful /\ SettleInv /\ [Next]_vars => SettleInv'
  BY NextSettle
<1>3. SettleInv => SettledByCurrentAttempt
  BY DEF SettleInv
<1> QED BY <1>1, <1>2, <1>3, TypeCorrect, SnapshotSafety, PTL DEF Spec

=============================================================================
