------------------------- MODULE ExecutionLifecycle -------------------------
(***************************************************************************)
(* What the engine promises about one occurrence of a job, with no store,   *)
(* no attempts, no versions and no goroutines: it is created once, it goes  *)
(* back and forth between waiting and being leased to an executor, it is    *)
(* settled at most once, it succeeds or fails only with an outcome some      *)
(* executor really reported for it, and only waiting work is withdrawn.     *)
(***************************************************************************)
CONSTANT Executions

VARIABLES
    phase,    \* "absent", "pending", "leased", or the final verdict
    reported  \* the outcomes executors produced for the execution so far

Verdicts == {"Succeeded", "Failed", "Cancelled", "Skipped"}
Outcomes == {"value", "error"}
Phases == {"absent", "pending", "leased"} \cup Verdicts

LifecycleInit ==
    /\ phase \in [Executions -> {"absent", "pending"}]
    /\ reported = [e \in Executions |-> {}]

Move(e, from, to) == phase[e] = from /\ phase' = [phase EXCEPT ![e] = to] /\ UNCHANGED reported

Create(e)   == Move(e, "absent", "pending")
Lease(e)    == Move(e, "pending", "leased")
GiveBack(e) == Move(e, "leased", "pending")
Withdraw(e) == \E v \in {"Cancelled", "Skipped"} : Move(e, "pending", v)
Complete(e) == "value" \in reported[e] /\ Move(e, "leased", "Succeeded")
Fail(e)     == "error" \in reported[e] /\ Move(e, "leased", "Failed")

\* An executor may report at any time, also after it lost the execution.
Report(e) ==
    /\ \E o \in Outcomes : reported' = [reported EXCEPT ![e] = @ \cup {o}]
    /\ UNCHANGED phase

LifecycleNext ==
    \E e \in Executions :
        Create(e) \/ Lease(e) \/ GiveBack(e) \/ Withdraw(e) \/ Complete(e) \/ Fail(e) \/ Report(e)

LifecycleSpec == LifecycleInit /\ [][LifecycleNext]_<<phase, reported>>

=============================================================================
