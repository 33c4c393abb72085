------------------------------ MODULE TaskActions ------------------------------
(***************************************************************************)
(* The buttons of one task on the dashboard (components/task-row.tsx) and  *)
(* on its own page (components/task-actions.tsx), in several tabs: a run   *)
(* that the page starts and then polls, and the calls that pause, resume,  *)
(* clear and delete.  The scheduler behind them is Executor and            *)
(* TaskScheduler; here it is what its answers tell the page.               *)
(***************************************************************************)
EXTENDS Naturals, FiniteSets

CONSTANTS
    Tab,
    Run,         \* executions; their number bounds the presses of Run now
    NoRun,       \* a tab follows no execution
    MaxPresses,  \* bound on the visits and presses of the user
    MaxMishaps   \* bound on the calls that fail or whose answer is lost

ASSUME NoRunAssumption  == NoRun \notin Run
ASSUME BoundsAssumption == MaxPresses \in Nat /\ MaxMishaps \in Nat

VARIABLES
    task,      \* tasks.json5: the task is "on", "off" or "gone"
    row,       \* executions.json5: the state of each row
    page,      \* what each tab shows
    shown,     \* the task as the page last loaded it
    loop,      \* where handleRun stands
    followed,  \* the execution it polls
    pending,   \* the transition under way
    refresh,   \* router.refresh() has asked for the page again
    presses, mishaps

server == <<task, row>>
tabs   == <<page, shown, loop, followed, pending, refresh>>
vars   == <<server, tabs, presses, mishaps>>

Init ==
    /\ task \in {"on", "off"}
    /\ row = [r \in Run |-> "none"]
    /\ page = [t \in Tab |-> "away"]
    /\ shown = [t \in Tab |-> "gone"]
    /\ loop = [t \in Tab |-> "idle"]
    /\ followed = [t \in Tab |-> NoRun]
    /\ pending = [t \in Tab |-> "none"]
    /\ refresh = [t \in Tab |-> FALSE]
    /\ presses = 0
    /\ mishaps = 0

Mishap == mishaps < MaxMishaps /\ mishaps' = mishaps + 1
Pressed == presses < MaxPresses /\ presses' = presses + 1

------------------------------------------------------------------------------
(* The user *)

\* A page is opened: the dashboard lists the tasks, the page of a task that is
\* gone is not found.  A loop left behind only polls on, unseen; a tab is left
\* once its trigger or transition is answered.
Visit(t, p) ==
    /\ Pressed
    /\ loop[t] # "trigger" /\ pending[t] = "none"
    /\ page' = [page EXCEPT ![t] = IF p = "detail" /\ task = "gone" THEN "missing" ELSE p]
    /\ shown' = [shown EXCEPT ![t] = task]
    /\ loop' = [loop EXCEPT ![t] = "idle"]
    /\ followed' = [followed EXCEPT ![t] = NoRun]
    /\ refresh' = [refresh EXCEPT ![t] = FALSE]
    /\ UNCHANGED <<server, pending, mishaps>>

\* busy disables every button.
Free(t) ==
    /\ page[t] \in {"home", "detail"} /\ shown[t] # "gone"
    /\ loop[t] = "idle" /\ pending[t] = "none"

PressRun(t) ==
    /\ Free(t) /\ Pressed
    /\ Cardinality({u \in Tab : loop[u] = "trigger"}) < Cardinality({r \in Run : row[r] = "none"})
    /\ loop' = [loop EXCEPT ![t] = "trigger"]
    /\ UNCHANGED <<server, page, shown, followed, pending, refresh, mishaps>>

\* One button pauses or resumes, after the task on the page; only the task's own
\* page clears its history.
Press(t, op) ==
    /\ Free(t) /\ Pressed
    /\ op = "pause"  => shown[t] = "on"
    /\ op = "resume" => shown[t] = "off"
    /\ op = "clear"  => page[t] = "detail"
    /\ pending' = [pending EXCEPT ![t] = op]
    /\ UNCHANGED <<server, page, shown, loop, followed, refresh, mishaps>>

------------------------------------------------------------------------------
(* handleRun *)

\* Mutant of Stop: the page goes on following the execution.
StopFollowing(t, pages) ==
    /\ loop' = [loop EXCEPT ![t] = "idle"]
    /\ refresh' = [refresh EXCEPT ![t] = @ \/ page[t] \in pages]
    /\ UNCHANGED followed
\* finally: the button comes back.  The dashboard always loads itself again, the
\* task's own page after an answer.
Stop(t, pages) ==
    /\ loop' = [loop EXCEPT ![t] = "idle"]
    /\ followed' = [followed EXCEPT ![t] = NoRun]
    /\ refresh' = [refresh EXCEPT ![t] = @ \/ page[t] \in pages]
Answered(t) == Stop(t, {"home", "detail"})
Threw(t)    == Stop(t, {"home"})

\* The trigger makes a row: running, or skipped when it saw another run.
Start(r) ==
    /\ row[r] = "none"
    /\ \/ row' = [row EXCEPT ![r] = "running"]
       \/ /\ \E other \in Run : row[other] = "running"
          /\ row' = [row EXCEPT ![r] = "ended"]

Triggered(t) ==
    /\ loop[t] = "trigger"
    /\ \/ /\ task = "gone"
          /\ Threw(t)
          /\ UNCHANGED <<row, mishaps>>
       \/ /\ task # "gone"
          /\ \E r \in Run :
                /\ Start(r)
                /\ followed' = [followed EXCEPT ![t] = r]
          /\ loop' = [loop EXCEPT ![t] = "wait"]
          /\ refresh' = [refresh EXCEPT ![t] = TRUE]
          /\ UNCHANGED mishaps
       \/ \* The call fails, or its answer is lost.
          /\ Mishap
          /\ UNCHANGED row \/ (task # "gone" /\ \E r \in Run : Start(r))
          /\ Threw(t)
    /\ UNCHANGED <<task, page, shown, pending, presses>>

\* 1.5 seconds later the page asks for the row.
Ask(t) ==
    /\ loop[t] = "wait"
    /\ loop' = [loop EXCEPT ![t] = "ask"]
    /\ UNCHANGED <<server, page, shown, followed, pending, refresh, presses, mishaps>>

Again(t) ==
    /\ loop' = [loop EXCEPT ![t] = "wait"]
    /\ refresh' = [refresh EXCEPT ![t] = @ \/ page[t] = "detail"]
    /\ UNCHANGED followed

\* Mutants of Told: the loop waits for the end of a row that was removed, or
\* stops at the first answer.
ToldByEnd(t) ==
    /\ loop[t] = "ask"
    /\ \/ row[followed[t]] # "ended" /\ Again(t) /\ UNCHANGED mishaps
       \/ row[followed[t]] = "ended" /\ Answered(t) /\ UNCHANGED mishaps
       \/ Mishap /\ Threw(t)
    /\ UNCHANGED <<server, page, shown, pending, presses>>
ToldOnce(t) ==
    /\ loop[t] = "ask"
    /\ \/ Answered(t) /\ UNCHANGED mishaps
       \/ Mishap /\ Threw(t)
    /\ UNCHANGED <<server, page, shown, pending, presses>>

\* The loop breaks on a status that is not "running"; NOT_FOUND, for a row that
\* was removed, and any other failure throw out of it.
Told(t) ==
    /\ loop[t] = "ask"
    /\ \/ row[followed[t]] = "running" /\ Again(t) /\ UNCHANGED mishaps
       \/ row[followed[t]] = "ended" /\ Answered(t) /\ UNCHANGED mishaps
       \/ row[followed[t]] = "removed" /\ Threw(t) /\ UNCHANGED mishaps
       \/ Mishap /\ Threw(t)
    /\ UNCHANGED <<server, page, shown, pending, presses>>

------------------------------------------------------------------------------
(* The transitions *)

Apply(op) ==
    /\ task' = CASE op = "pause" -> "off" [] op = "resume" -> "on" [] op = "delete" -> "gone" [] OTHER -> task
    /\ row' = IF op = "clear" THEN [r \in Run |-> IF row[r] = "none" THEN "none" ELSE "removed"] ELSE row

\* What a transition throws reaches no error boundary of the application: the
\* page breaks and has to be opened again.
Breaks(t) ==
    /\ page' = [page EXCEPT ![t] = "broken"]
    /\ refresh' = [refresh EXCEPT ![t] = FALSE]
    /\ UNCHANGED shown

\* A successful action loads the page again, and a deletion leads to the dashboard.
Settled(t) ==
    /\ pending[t] # "none"
    /\ pending' = [pending EXCEPT ![t] = "none"]
    /\ \/ /\ task # "gone"
          /\ Apply(pending[t])
          /\ page' = [page EXCEPT ![t] = IF pending[t] = "delete" THEN "home" ELSE @]
          /\ shown' = [shown EXCEPT ![t] = IF pending[t] = "delete" THEN "gone" ELSE @]
          /\ refresh' = [refresh EXCEPT ![t] = TRUE]
          /\ UNCHANGED mishaps
       \/ task = "gone" /\ Breaks(t) /\ UNCHANGED <<server, mishaps>>
       \/ /\ Mishap
          /\ UNCHANGED server \/ (task # "gone" /\ Apply(pending[t]))
          /\ Breaks(t)
    /\ UNCHANGED <<loop, followed, presses>>

\* The page arrives again with the task as it is now.
Refreshed(t) ==
    /\ refresh[t]
    /\ refresh' = [refresh EXCEPT ![t] = FALSE]
    /\ shown' = [shown EXCEPT ![t] = task]
    /\ page' = [page EXCEPT ![t] = IF @ = "detail" /\ task = "gone" THEN "missing" ELSE @]
    /\ UNCHANGED <<server, loop, followed, pending, presses, mishaps>>

------------------------------------------------------------------------------
(* The scheduler *)

\* A run ends and its row is written.
RowEnds(r) ==
    /\ row[r] = "running"
    /\ row' = [row EXCEPT ![r] = "ended"]
    /\ UNCHANGED <<task, tabs, presses, mishaps>>

\* A later execution trims the history, running rows included.
Trimmed(r) ==
    /\ row[r] \in {"running", "ended"}
    /\ \E later \in Run \ {r} : row[later] # "none"
    /\ row' = [row EXCEPT ![r] = "removed"]
    /\ UNCHANGED <<task, tabs, presses, mishaps>>

------------------------------------------------------------------------------
Poll(t) == Triggered(t) \/ Ask(t) \/ Told(t)
SomeRowEnds == \E r \in Run : RowEnds(r)

Next ==
    \/ \E t \in Tab :
          \/ \E p \in {"home", "detail"} : Visit(t, p)
          \/ PressRun(t)
          \/ \E op \in {"pause", "resume", "clear", "delete"} : Press(t, op)
          \/ Poll(t) \/ Settled(t) \/ Refreshed(t)
    \/ SomeRowEnds
    \/ \E r \in Run : Trimmed(r)

Spec == Init /\ [][Next]_vars
FairSpec == Spec /\ WF_vars(SomeRowEnds) /\ \A t \in Tab : WF_vars(Poll(t))

------------------------------------------------------------------------------
(* Properties *)

\* The variables have their types.
TypeOK ==
    /\ task \in {"on", "off", "gone"}
    /\ row \in [Run -> {"none", "running", "ended", "removed"}]
    /\ page \in [Tab -> {"away", "home", "detail", "missing", "broken"}]
    /\ shown \in [Tab -> {"on", "off", "gone"}]
    /\ loop \in [Tab -> {"idle", "trigger", "wait", "ask"}]
    /\ followed \in [Tab -> Run \cup {NoRun}]
    /\ pending \in [Tab -> {"none", "pause", "resume", "clear", "delete"}]
    /\ refresh \in [Tab -> BOOLEAN]
    /\ presses \in 0 .. MaxPresses /\ mishaps \in 0 .. MaxMishaps
    /\ \A t \in Tab : loop[t] \in {"wait", "ask"} <=> followed[t] # NoRun

\* "Running..." does not stay on the page for ever: the run ends, or its row is
\* cleared, trimmed or cannot be read, and the buttons come back
\* (task-actions.tsx:23-37, task-row.tsx:24-37).
RunButtonReturns == \A t \in Tab : (loop[t] # "idle") ~> (loop[t] = "idle")

\* While the run that a page started goes on, its row in the file and the polls
\* answered, the page that stays open keeps the button: a second press does not
\* start another (task-actions.tsx:29-34, 39).
RunButtonWaits ==
    [][\A t \in Tab :
          /\ loop[t] \in {"wait", "ask"} /\ row[followed[t]] = "running"
          /\ presses' = presses /\ mishaps' = mishaps
          => loop'[t] # "idle"]_vars
===============================================================================
