------------------------------- MODULE MCParts -------------------------------
(***************************************************************************)
(* Self-contained parts in one TLC run: the ring under churn, the store     *)
(* conformance suite, the schedule arithmetic, the codec and a framed       *)
(* stream, the client's side of a connection, the delivery of results over  *)
(* connections that drop, and the message queue.  A behaviour takes the     *)
(* steps of one part; the others rest in their initial state.               *)
(***************************************************************************)
EXTENDS MCRing, StoreConformance, MCSchedule, MCProtocol, ClientConnection, MCResults, MessageQueue

VARIABLE part   \* the part whose steps this behaviour takes

Parts == {"ring", "suite", "schedule", "codec", "stream", "client", "results", "queue"}

\* An urgent job that counts for three messages, and one that does not.
MCUrgency == [j \in MessageJobs |-> IF j = 2 THEN 1 ELSE 2]
MCTaskCount == [j \in MessageJobs |-> IF j = 2 THEN 3 ELSE 1]

\* No test to run.
SuiteAtRest ==
    /\ suite = [kind |-> "memory", calls |-> <<>>, total |-> 0, each |-> 0]
    /\ at = 0 /\ sut = factory("memory", 0, 0) /\ verdict = TRUE

PartsInit ==
    /\ part \in Parts
    /\ RingInit /\ QuestionInit /\ SampleInit /\ StreamInit /\ ResultsInit /\ QueueInit
    /\ IF part = "suite" THEN SuiteInit ELSE SuiteAtRest
    /\ ClientInit
    /\ part = "client" <=> \E c \in Callers : call[c] = "idle"

PartsNext ==
    \/ /\ part = "ring" /\ RingStep
       /\ UNCHANGED <<part, suiteVars, question, sample, streamVars, connectionVars, vars, queueVars>>
    \/ /\ part = "suite" /\ SuiteNext
       /\ UNCHANGED <<part, ringVars, question, sample, streamVars, connectionVars, vars, queueVars>>
    \/ /\ part = "schedule" /\ Ask
       /\ UNCHANGED <<part, ringVars, suiteVars, sample, streamVars, connectionVars, vars, queueVars>>
    \/ /\ part = "codec" /\ Try
       /\ UNCHANGED <<part, ringVars, suiteVars, question, streamVars, connectionVars, vars, queueVars>>
    \/ /\ part = "stream" /\ StreamNext
       /\ UNCHANGED <<part, ringVars, suiteVars, question, sample, connectionVars, vars, queueVars>>
    \/ /\ part = "client" /\ ClientNext
       /\ UNCHANGED <<part, ringVars, suiteVars, question, sample, streamVars, vars, queueVars>>
    \/ /\ part = "results" /\ ResultsNext
       /\ UNCHANGED <<part, ringVars, suiteVars, question, sample, streamVars, connectionVars, queueVars>>
    \/ /\ part = "queue" /\ QueueNext
       /\ UNCHANGED <<part, ringVars, suiteVars, question, sample, streamVars, connectionVars, vars>>

partsVars == <<part, ringVars, suiteVars, question, sample, streamVars, connectionVars, vars, queueVars>>

\* The fairness of the two parts that have liveness properties.  A client that
\* rests is not obliged to dial; resting results oblige nothing.
PartsFairness ==
    /\ ResultsFairness
    /\ WF_connectionVars(part = "client" /\ RunStep)
    /\ WF_connectionVars(WriteLoop) /\ WF_connectionVars(ReadLoop)
    /\ WF_connectionVars(HeartbeatLoop) /\ WF_connectionVars(Handle)
    /\ \A c \in Callers : WF_connectionVars(call[c] # "idle" /\ CallStep(c))

PartsSpec == PartsInit /\ [][PartsNext]_partsVars /\ PartsFairness

=============================================================================
