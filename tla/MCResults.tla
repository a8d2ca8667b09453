----------------------------- MODULE MCResults ------------------------------
(***************************************************************************)
(* Small instances of result delivery for TLC.                              *)
(***************************************************************************)
EXTENDS ResultDelivery

CONSTANTS a, b, k1, k2

\* Who submits: one caller, or the second submission by another one.
OneCaller == [s \in Submissions |-> a]
OtherSecond == [s \in Submissions |-> IF s = 2 THEN b ELSE a]
SameKey == [s \in Submissions |-> k1]

Course(who, lost, passes) == [who |-> who, drops |-> lost, evictions |-> passes]

\* Every submission, on connections that stay.
Undisturbed == {Course(Submissions, 0, 0)}
\* One submission alone, on a connection that drops.
Disturbed == {Course({1}, 3, 2)}
\* Two callers of one key, one caller of one key twice, or one submission alone
\* through a drop and a retention pass.
InTurnOrDisturbed == {Course({1, 2}, 0, 0), Course({1, 3}, 0, 0), Course({3}, 1, 1)}

=============================================================================
