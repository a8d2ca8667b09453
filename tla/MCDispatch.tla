----------------------------- MODULE MCDispatch -----------------------------
(***************************************************************************)
(* The TLC instances of Dispatch.  Every constant is given in the .cfg      *)
(* files: executors and connections are model values, attempts and          *)
(* occurrences small intervals.                                             *)
(***************************************************************************)
EXTENDS Dispatch, TLC

\* An executor that lost its connection can always reconnect.
ASSUME ConnectionsSuffice == MaxEvents = 0 \/ EventKinds \cap {"drop", "crash", "restart"} = {}
                             \/ Cardinality(Conns) > 1
=============================================================================
