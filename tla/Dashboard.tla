------------------------------- MODULE Dashboard -------------------------------
(***************************************************************************)
(* The page that shows the schedule: the dashboard lists the tasks, builds *)
(* their schedule (module Schedule) for the instant of the request and     *)
(* renders it (app/(dashboard)/page.tsx, components/schedule-timeline.tsx).*)
(***************************************************************************)
EXTENDS Schedule

vars == <<tasks, now, timeline>>

Init ==
    /\ tasks \in [Id -> [name : Name, cron : Cron, enabled : BOOLEAN]]
    /\ now \in {p \in Instant : p.day = 0}
    /\ timeline = Unshown

\* The dashboard is rendered.
Show ==
    /\ timeline' = BuildSchedule
    /\ UNCHANGED <<tasks, now>>

Next == Show
Spec == Init /\ [][Next]_vars

------------------------------------------------------------------------------
\* The variables have their types.
TypeOK ==
    /\ tasks \in [Id -> [name : Name, cron : Cron, enabled : BOOLEAN]]
    /\ now \in Instant /\ now.day = 0
    /\ timeline = Unshown
       \/ /\ timeline.tasks \in [Active -> [runs : SUBSET Minute, invalid : BOOLEAN]]
          /\ timeline.continuousTasks \subseteq Name
          /\ timeline.collisions \subseteq [time : Minute, taskNames : SUBSET Name, daily : BOOLEAN]
===============================================================================
