--------------------------- MODULE ExecutionStates ---------------------------
(***************************************************************************)
(* The persisted vocabulary of the scheduler: the states of an execution    *)
(* and of an attempt, which of them are terminal, and the transition table  *)
(* that every store consults before it changes an execution's state.        *)
(***************************************************************************)

WaitingStates == {"WaitingExecutor", "WaitingCompatible", "WaitingLabel"}
LeasedStates  == {"Dispatching", "Running"}
TerminalStates == {"Succeeded", "Failed", "Cancelled", "Skipped"}
DueStates == {"Scheduled", "Ready", "RetryWait"}

ExecutionStateSet == DueStates \cup WaitingStates \cup LeasedStates \cup TerminalStates

AttemptTerminalStates ==
    {"Succeeded", "FunctionFailed", "InfraFailed", "Lost", "Cancelled"}

OpenAttemptStates == {"Dispatched", "Accepted"}

AttemptStateSet == OpenAttemptStates \cup AttemptTerminalStates

\* The targets the transition table lists for each source state.
Targets(from) ==
    CASE from = "Scheduled"   -> {"Ready", "Dispatching", "Cancelled", "Skipped"} \cup WaitingStates
      [] from = "Ready"       -> {"Dispatching", "Cancelled", "Skipped"} \cup WaitingStates
      [] from \in WaitingStates ->
            {"Ready", "Dispatching", "Cancelled", "Skipped"} \cup (WaitingStates \ {from})
      [] from = "Dispatching" -> {"Running", "Ready", "Cancelled"} \cup WaitingStates
      [] from = "Running"     -> {"Succeeded", "Failed", "RetryWait", "Ready", "Cancelled"}
      [] from = "RetryWait"   -> {"Dispatching", "Ready", "Cancelled"} \cup WaitingStates
      [] OTHER                -> {}

CanTransition(from, to) == to \in Targets(from)

=============================================================================
