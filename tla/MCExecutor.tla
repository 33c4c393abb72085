----------------------------- MODULE MCExecutor -----------------------------
(***************************************************************************)
(* Instances of Executor for TLC: r1, r2 and r3 are calls for task t1, s1  *)
(* is one for task t2.                                                     *)
(***************************************************************************)
EXTENDS Executor, TLC

CONSTANTS r1, r2, r3, s1, t1, t2

MCTaskOf == [r \in Run |-> IF r = s1 THEN t2 ELSE t1]

\* The calls for one task are interchangeable.
Symmetry == Permutations({r1, r2, r3})
=============================================================================
