----------------------------- MODULE MCRegistry -----------------------------
(***************************************************************************)
(* Small instances of the executor registry for TLC.                        *)
(***************************************************************************)
EXTENDS ExecutorRegistry, TLC

CONSTANTS a, b, t1, t2, l1, l2

\* What the timing loop asks for: the type alone, and with a label.
PinnedAndPlain == {<<t1, NoLabel>>, <<t1, l1>>}

Symmetry == Permutations({a, b})

=============================================================================
