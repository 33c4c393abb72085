-------------------------- MODULE MCSerializedStore -------------------------
(***************************************************************************)
(* An executions file for TLC: its content is the set of the rows it has.  *)
(* c1 and c2 create a row each, u1 updates the row of c1 and throws when   *)
(* it is not there, d removes every row.                                   *)
(***************************************************************************)
EXTENDS SerializedStore

CONSTANTS c1, c2, u1, d

MCCall == {c1, c2, u1, d}
MCContent == SUBSET {"row1", "row2", "row1 updated"}
MCRefused == {"refused"}
MCTorn == {"torn"}
MCEffect == [c \in MCCall |-> [f \in MCContent |->
    CASE c = c1 -> f \cup {"row1"}
      [] c = c2 -> f \cup {"row2"}
      [] c = u1 -> IF "row1" \in f THEN (f \ {"row1"}) \cup {"row1 updated"} ELSE MCRefused
      [] OTHER  -> {}]]
=============================================================================
