--------------------------- MODULE MCAdministration ---------------------------
(***************************************************************************)
(* The instance of Administration that TLC checks: one plugin with one     *)
(* secret, and two runs of one task beside the page of another.            *)
(***************************************************************************)
EXTENDS Administration

MCChoice ==
    [e \in Entry |-> CASE e = "timezone" -> {"", "UTC"} [] e = "enabled" -> {"on", "off"}
                       [] OTHER -> {"", "s"}]
MCDefault == [e \in Entry |-> IF e = "enabled" THEN "off" ELSE ""]
MCInUse   == {[MCDefault EXCEPT !["token"] = "s"]}

MCTaskOf == [c \in Client |-> IF c = "page" THEN "t2" ELSE "t1"]
MCUses   == [c \in Client |-> CASE c = "r1"   -> {"update", "set"}
                                [] c = "r2"   -> {"update", "clear"}
                                [] c = "page" -> {"get", "clear"}]
===============================================================================
