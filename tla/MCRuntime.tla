----------------------------- MODULE MCRuntime ------------------------------
(***************************************************************************)
(* Small instances of the executor runtime for TLC.                         *)
(***************************************************************************)
EXTENDS LocalRuntime

\* The first two requests are attempts of one execution, the others of another.
TwoAttempts == [r \in Requests |-> IF r <= 2 THEN 1 ELSE 2]

=============================================================================
