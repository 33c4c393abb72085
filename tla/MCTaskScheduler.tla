-------------------------- MODULE MCTaskScheduler ---------------------------
(***************************************************************************)
(* Instances of TaskScheduler for TLC; t1 exists at the start, t2 may be   *)
(* created.  Requests are interchangeable, and so are the time zones.      *)
(***************************************************************************)
EXTENDS TaskScheduler, TLC

CONSTANTS p1, p2, p3

Symmetry == {f @@ g : f \in Permutations({p1, p2, p3}), g \in Permutations(Zone)}
=============================================================================
