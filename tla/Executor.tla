------------------------------ MODULE Executor ------------------------------
(***************************************************************************)
(* The life of a task's executions: apps/scheduler/src/executor.ts over    *)
(* the execution store (repositories/json5/execution-repo.ts), the boot    *)
(* reconciliation (reconcile.ts) and the administrator's calls that touch  *)
(* the same rows (packages/common/src/router/executions.ts, tasks.ts).     *)
(*                                                                         *)
(* One member of Run is one call of TaskExecutor.execute; pc says which    *)
(* await it stands at.  The scheduler is one Node process, so what happens *)
(* between two awaits is one step.  Every mutation of the store goes       *)
(* through its serializer, so a store call is one step too, taken in any   *)
(* order with the calls of the others (SerializedStore.tla shows that the  *)
(* serializer gives this).  Only the two listeners of a child that could   *)
(* not be started have calls outstanding together, and the serializer      *)
(* takes those in the order of the events.                                 *)
(***************************************************************************)
EXTENDS Integers, FiniteSets

CONSTANTS
    Run,        \* calls of execute, from a cron job or from Run Now
    Task,       \* the tasks that exist at the start
    TaskOf,     \* the task each call is for
    KeepCounts, \* values maxHistoryItems may have when a trim reads it
    AdminOps,   \* which of "clear", "reset", "delete" the administrator uses
    Faults,     \* which of "store", "spawnThrow" may happen
    MaxCrashes  \* bound on the number of times the scheduler dies

ASSUME RunFinite == IsFiniteSet(Run)
ASSUME TaskOfType == TaskOf \in [Run -> Task]
\* updateSettingsInputSchema: maxHistoryItems is a positive integer.
ASSUME KeepCountsType == KeepCounts \subseteq Nat \ {0}
ASSUME MaxCrashesType == MaxCrashes \in Nat

VARIABLES
    phase,      \* of the scheduler process: "down", "reconciling" or "up"
    orphans,    \* rows that the boot still has to mark interrupted
    tasks,      \* the tasks in tasks.json5
    status,     \* executions.json5: the status of each row, "absent" if none
    startedAt,  \*   its startedAt, 0 before the row exists
    stderr,     \*   what its stderr field holds
    pc,         \* where each call of execute, then of runProcess, stands
    seenAt,     \* history: the clock when the call read the running rows
    exit,       \* how the child of the run ended
    notice,     \* the lifecycle notification that was dispatched
    admin,      \* where the administrator's call on a task stands
    stuck,      \* rows a resetStuck call still has to update
    clock,      \* the last startedAt given out
    crashes     \* how often the scheduler died

fileVars  == <<status, startedAt, stderr>>
runVars   == <<pc, seenAt, exit, notice>>
adminVars == <<admin, stuck>>
bootVars  == <<phase, orphans, crashes>>
vars == <<bootVars, tasks, fileVars, runVars, adminVars, clock>>

(***************************************************************************)
(* The execution store.                                                    *)
(***************************************************************************)

Rows(t) == {r \in Run : TaskOf[r] = t /\ status[r] # "absent"}

RunningRows == {r \in Run : status[r] = "running"}

\* The k most recently started members of S.
Newest(S, k) ==
    {r \in S : Cardinality({q \in S : startedAt[q] > startedAt[r]}) < k}

CreateRow(r, s) ==
    /\ clock' = clock + 1
    /\ startedAt' = [startedAt EXCEPT ![r] = clock + 1]
    /\ status' = [status EXCEPT ![r] = s]
    /\ UNCHANGED stderr

\* Mutant of UpdateRow: a row that is gone is written again.
UpsertRow(r, s, text) ==
    /\ status' = [status EXCEPT ![r] = s]
    /\ stderr' = [stderr EXCEPT ![r] = text]
    /\ UNCHANGED <<startedAt, clock>>

\* Rejects when the row is gone: an UpdateRow needs it to be there.
UpdateRow(r, s, text) ==
    /\ status[r] # "absent"
    /\ status' = [status EXCEPT ![r] = s]
    /\ stderr' = [stderr EXCEPT ![r] = text]
    /\ UNCHANGED <<startedAt, clock>>

\* Mutant of TrimRows: keeps one row too few.
TrimOneMore(t, k) ==
    /\ status' = [r \in Run |-> IF r \in Rows(t) \ Newest(Rows(t), k - 1)
                                THEN "absent" ELSE status[r]]
    /\ UNCHANGED <<startedAt, stderr, clock>>

TrimRows(t, k) ==
    /\ status' = [r \in Run |-> IF r \in Rows(t) \ Newest(Rows(t), k)
                                THEN "absent" ELSE status[r]]
    /\ UNCHANGED <<startedAt, stderr, clock>>

(***************************************************************************)
(* execute(taskId)                                                         *)
(***************************************************************************)

Goto(r, l) == pc' = [pc EXCEPT ![r] = l]

\* The read of the task.  A job that was already firing when its task was
\* deleted finds nothing and rejects.
Execute(r) ==
    /\ phase = "up"
    /\ pc[r] = "idle"
    /\ \/ TaskOf[r] \in tasks /\ Goto(r, "findRunning")
       \/ (TaskOf[r] \notin tasks \/ "store" \in Faults) /\ Goto(r, "rejected")
    /\ UNCHANGED <<bootVars, tasks, fileVars, seenAt, exit, notice, adminVars, clock>>

\* Mutant of FindRunning: looks at the last execution of the task only.
FindLastRunning(r) ==
    /\ pc[r] = "findRunning"
    /\ seenAt' = [seenAt EXCEPT ![r] = clock]
    /\ Goto(r, IF RunningRows \cap Newest(Rows(TaskOf[r]), 1) = {} THEN "create" ELSE "createSkipped")
    /\ UNCHANGED <<bootVars, tasks, fileVars, exit, notice, adminVars, clock>>

\* The re-entrancy check: a read of the store outside the serializer.
FindRunning(r) ==
    /\ pc[r] = "findRunning"
    /\ seenAt' = [seenAt EXCEPT ![r] = clock]
    /\ Goto(r, IF RunningRows \cap Rows(TaskOf[r]) = {} THEN "create" ELSE "createSkipped")
    /\ UNCHANGED <<bootVars, tasks, fileVars, exit, notice, adminVars, clock>>

CreateSkipped(r) ==
    /\ pc[r] = "createSkipped"
    /\ CreateRow(r, "skipped")
    /\ Goto(r, "trimSkipped")
    /\ UNCHANGED <<bootVars, tasks, seenAt, exit, notice, adminVars>>

TrimSkipped(r) ==
    /\ pc[r] = "trimSkipped"
    /\ \E k \in KeepCounts : TrimRows(TaskOf[r], k)
    /\ Goto(r, "done")
    /\ UNCHANGED <<bootVars, tasks, seenAt, exit, notice, adminVars>>

\* execute() returns here; runProcess goes on by itself.
CreateRunning(r) ==
    /\ pc[r] = "create"
    /\ CreateRow(r, "running")
    /\ Goto(r, "load")
    /\ UNCHANGED <<bootVars, tasks, seenAt, exit, notice, adminVars>>

(***************************************************************************)
(* runProcess(taskId, executionId)                                         *)
(***************************************************************************)

\* The second read of the task; nothing is awaited between it and spawn.
Spawn(r) ==
    /\ pc[r] = "load"
    /\ TaskOf[r] \in tasks
    /\ \E l \in {"live", "spawnError"} \cup (IF "spawnThrow" \in Faults THEN {"threw"} ELSE {}) :
         Goto(r, l)
    /\ UNCHANGED <<bootVars, tasks, fileVars, seenAt, exit, notice, adminVars, clock>>

\* Mutant of LoadFails: the error is logged and the row forgotten.
LoadFailsSilently(r) ==
    /\ pc[r] = "load"
    /\ TaskOf[r] \notin tasks
    /\ Goto(r, "done")
    /\ UNCHANGED <<bootVars, tasks, fileVars, seenAt, exit, notice, adminVars, clock>>

LoadFails(r) ==
    /\ pc[r] = "load"
    /\ TaskOf[r] \notin tasks \/ "store" \in Faults
    /\ Goto(r, "recordFailure")
    /\ UNCHANGED <<bootVars, tasks, fileVars, seenAt, exit, notice, adminVars, clock>>

RecordFailure(r) ==
    /\ pc[r] = "recordFailure"
    /\ UpdateRow(r, "failed", "message")
    /\ Goto(r, "trimFailure")
    /\ UNCHANGED <<bootVars, tasks, seenAt, exit, notice, adminVars>>

TrimFailure(r) ==
    /\ pc[r] = "trimFailure"
    /\ \E k \in KeepCounts : TrimRows(TaskOf[r], k)
    /\ Goto(r, "done")
    /\ UNCHANGED <<bootVars, tasks, seenAt, exit, notice, adminVars>>

\* Mutant of Resolve: the exit code goes where the trigger should.
ResolveWithCode(r, code) == notice' = [notice EXCEPT ![r] = code]

\* The promise of the exit code is resolved once; the first resolution
\* dispatches the notification.
Resolve(r, code) ==
    notice' = [notice EXCEPT ![r] = IF @ # "none" THEN @
                                    ELSE IF code = "zero" THEN "onSuccess" ELSE "onFailure"]

\* The 'error' listener of a child that could not be started.  Node emits
\* 'close' after it, with a code other than 0.
OnError(r) ==
    /\ pc[r] = "spawnError"
    /\ UpdateRow(r, "failed", "message")
    /\ exit' = [exit EXCEPT ![r] = "spawn"]
    /\ Resolve(r, "spawn")
    /\ Goto(r, "closed")
    /\ UNCHANGED <<bootVars, tasks, seenAt, adminVars>>

\* Mutant of ChildExits: the promise is resolved before the update.
ChildExitsResolves(r) ==
    /\ pc[r] = "live"
    /\ \E code \in {"zero", "other"} :
         exit' = [exit EXCEPT ![r] = code] /\ Resolve(r, code)
    /\ Goto(r, "closed")
    /\ UNCHANGED <<bootVars, tasks, fileVars, seenAt, adminVars, clock>>

ChildExits(r) ==
    /\ pc[r] = "live"
    /\ \E code \in {"zero", "other"} : exit' = [exit EXCEPT ![r] = code]
    /\ Goto(r, "closed")
    /\ UNCHANGED <<bootVars, tasks, fileVars, seenAt, notice, adminVars, clock>>

\* The 'close' listener: its update, then its trim.
OnClose(r) ==
    /\ pc[r] = "closed"
    /\ UpdateRow(r, IF exit[r] = "zero" THEN "success" ELSE "failed", "output")
    /\ Goto(r, "trim")
    /\ UNCHANGED <<bootVars, tasks, seenAt, exit, notice, adminVars>>

TrimClosed(r) ==
    /\ pc[r] = "trim"
    /\ \E k \in KeepCounts : TrimRows(TaskOf[r], k)
    /\ Resolve(r, exit[r])
    /\ Goto(r, "done")
    /\ UNCHANGED <<bootVars, tasks, seenAt, exit, adminVars>>

\* Where a call goes when its store operation rejects.
OnReject ==
    [findRunning   |-> "rejected",   create      |-> "rejected",
     createSkipped |-> "rejected",   trimSkipped |-> "rejected",
     recordFailure |-> "unrecorded", trimFailure |-> "done",
     spawnError    |-> "closed",     closed      |-> "unrecorded",
     trim          |-> "done"]

\* Mutant of StoreRejects: the listeners resolve only after a success.
StoreRejectsHangs(r) ==
    /\ pc[r] \in DOMAIN OnReject
    /\ pc[r] \in {"recordFailure", "spawnError", "closed"} /\ status[r] = "absent"
    /\ Goto(r, OnReject[pc[r]])
    /\ UNCHANGED <<bootVars, tasks, fileVars, seenAt, exit, notice, adminVars, clock>>

\* Both listeners resolve the exit code whether or not they could record it.
\* An update rejects when a trim or a clear has taken the row away; any
\* operation may reject when the file cannot be read or written.
StoreRejects(r) ==
    /\ pc[r] \in DOMAIN OnReject
    /\ \/ pc[r] \in {"recordFailure", "spawnError", "closed"} /\ status[r] = "absent"
       \/ "store" \in Faults
    /\ exit' = IF pc[r] = "spawnError" THEN [exit EXCEPT ![r] = "spawn"] ELSE exit
    /\ IF pc[r] \in {"spawnError", "closed", "trim"}
       THEN Resolve(r, exit'[r])
       ELSE UNCHANGED notice
    /\ Goto(r, OnReject[pc[r]])
    /\ UNCHANGED <<bootVars, tasks, fileVars, seenAt, adminVars, clock>>

(***************************************************************************)
(* The administrator: at most one executions call per task at a time.      *)
(***************************************************************************)

DeleteTask(t) ==
    /\ phase = "up"
    /\ "delete" \in AdminOps
    /\ t \in tasks
    /\ tasks' = tasks \ {t}
    /\ UNCHANGED <<bootVars, fileVars, runVars, adminVars, clock>>

Call(t, op) ==
    /\ phase = "up"
    /\ op \in AdminOps
    /\ admin[t] = "idle"
    /\ t \in tasks
    /\ admin' = [admin EXCEPT ![t] = op]
    /\ UNCHANGED <<bootVars, tasks, fileVars, runVars, stuck, clock>>

ClearByTaskId(t) ==
    /\ admin[t] = "clear"
    /\ TrimRows(t, 0)
    /\ admin' = [admin EXCEPT ![t] = "idle"]
    /\ UNCHANGED <<bootVars, tasks, runVars, stuck>>

ReadStuck(t) ==
    /\ admin[t] = "reset"
    /\ stuck' = [stuck EXCEPT ![t] = RunningRows \cap Rows(t)]
    /\ admin' = [admin EXCEPT ![t] = IF stuck'[t] = {} THEN "idle" ELSE "resetting"]
    /\ UNCHANGED <<bootVars, tasks, fileVars, runVars, clock>>

\* One turn of the loop of resetStuck.  The first row that is gone makes the
\* update throw, which ends the call.
ResetRow(t, r) ==
    /\ admin[t] = "resetting"
    /\ r \in stuck[t]
    /\ \/ /\ UpdateRow(r, "interrupted", "note")
          /\ stuck' = [stuck EXCEPT ![t] = @ \ {r}]
       \/ /\ status[r] = "absent"
          /\ stuck' = [stuck EXCEPT ![t] = {}]
          /\ UNCHANGED <<fileVars, clock>>
    /\ admin' = [admin EXCEPT ![t] = IF stuck'[t] = {} THEN "idle" ELSE "resetting"]
    /\ UNCHANGED <<bootVars, tasks, runVars>>

\* Any of these calls may end at a file that cannot be read or written.
AdminRejects(t) ==
    /\ admin[t] # "idle"
    /\ "store" \in Faults
    /\ admin' = [admin EXCEPT ![t] = "idle"]
    /\ stuck' = [stuck EXCEPT ![t] = {}]
    /\ UNCHANGED <<bootVars, tasks, fileVars, runVars, clock>>

(***************************************************************************)
(* The scheduler process.  The children live in its container and die with *)
(* it; what was queued in memory is lost.  A reconciliation that the store *)
(* refuses ends the process, too: that is a Crash.                         *)
(***************************************************************************)

Crash ==
    /\ phase # "down"
    /\ crashes < MaxCrashes
    /\ phase' = "down"
    /\ crashes' = crashes + 1
    /\ orphans' = {}
    /\ pc' = [r \in Run |-> IF pc[r] \in {"idle", "done", "rejected"} THEN pc[r] ELSE "dead"]
    /\ admin' = [t \in Task |-> "idle"]
    /\ stuck' = [t \in Task |-> {}]
    /\ UNCHANGED <<tasks, fileVars, seenAt, exit, notice, clock>>

Boot ==
    /\ phase = "down"
    /\ phase' = "reconciling"
    /\ orphans' = RunningRows
    /\ UNCHANGED <<crashes, tasks, fileVars, runVars, adminVars, clock>>

Reconcile(r) ==
    /\ phase = "reconciling"
    /\ r \in orphans
    /\ UpdateRow(r, "interrupted", "note")
    /\ orphans' = orphans \ {r}
    /\ UNCHANGED <<phase, crashes, tasks, runVars, adminVars>>

\* Mutant of Serve: does not wait for the reconciliation.
ServeAtOnce ==
    /\ phase = "reconciling"
    /\ phase' = "up"
    /\ orphans' = {}
    /\ UNCHANGED <<crashes, tasks, fileVars, runVars, adminVars, clock>>

\* schedulerService.start() and the HTTP server come after the last orphan.
Serve ==
    /\ phase = "reconciling"
    /\ orphans = {}
    /\ phase' = "up"
    /\ UNCHANGED <<orphans, crashes, tasks, fileVars, runVars, adminVars, clock>>

Init ==
    /\ phase = "down" /\ orphans = {} /\ crashes = 0
    /\ tasks = Task
    /\ status = [r \in Run |-> "absent"]
    /\ startedAt = [r \in Run |-> 0]
    /\ stderr = [r \in Run |-> "empty"]
    /\ pc = [r \in Run |-> "idle"]
    /\ seenAt = [r \in Run |-> 0]
    /\ exit = [r \in Run |-> "none"]
    /\ notice = [r \in Run |-> "none"]
    /\ admin = [t \in Task |-> "idle"]
    /\ stuck = [t \in Task |-> {}]
    /\ clock = 0

\* What a run does by itself once it was fired; its script ends when it likes.
RunStep(r) ==
    \/ FindRunning(r) \/ CreateSkipped(r) \/ TrimSkipped(r) \/ CreateRunning(r)
    \/ Spawn(r) \/ LoadFails(r) \/ RecordFailure(r) \/ TrimFailure(r)
    \/ OnError(r) \/ OnClose(r) \/ TrimClosed(r) \/ StoreRejects(r)

AdminStep(t) ==
    ClearByTaskId(t) \/ ReadStuck(t) \/ AdminRejects(t) \/ \E r \in Run : ResetRow(t, r)

BootStep == Boot \/ Serve \/ \E r \in Run : Reconcile(r)

Next ==
    \/ \E r \in Run : Execute(r) \/ ChildExits(r) \/ RunStep(r)
    \/ \E t \in Task : DeleteTask(t) \/ AdminStep(t) \/ \E op \in {"clear", "reset"} : Call(t, op)
    \/ BootStep
    \/ Crash

Spec == Init /\ [][Next]_vars

\* Node settles every pending promise sooner or later, and the container's
\* restart policy boots the scheduler again.  Nothing makes a script end.
Fairness ==
    /\ \A r \in Run : WF_vars(RunStep(r))
    /\ \A t \in Task : WF_vars(AdminStep(t))
    /\ WF_vars(BootStep)

FairSpec == Spec /\ Fairness

(***************************************************************************)
(* Properties.                                                             *)
(***************************************************************************)

Statuses == {"absent", "running", "success", "failed", "interrupted", "skipped"}

InFlight == {"load", "live", "spawnError", "recordFailure", "closed"}

PastCheck == InFlight \cup {"create"}

Locations == PastCheck \cup {"idle", "findRunning", "createSkipped", "trimSkipped",
    "trimFailure", "trim", "done", "rejected", "threw", "unrecorded", "dead"}

TypeOK ==
    /\ phase \in {"down", "reconciling", "up"}
    /\ orphans \subseteq Run
    /\ tasks \subseteq Task
    /\ status \in [Run -> Statuses]
    /\ startedAt \in [Run -> Nat]
    /\ stderr \in [Run -> {"empty", "message", "output", "note"}]
    /\ pc \in [Run -> Locations]
    /\ seenAt \in [Run -> Nat]
    /\ exit \in [Run -> {"none", "zero", "other", "spawn"}]
    /\ notice \in [Run -> {"none", "onSuccess", "onFailure"}]
    /\ admin \in [Task -> {"idle", "clear", "reset", "resetting"}]
    /\ stuck \in [Task -> SUBSET Run]
    /\ clock \in Nat
    /\ crashes \in Nat

\* While the scheduler serves, a row that says running has a run of this boot
\* behind it that is still going to finish it: no row is left over from
\* before a crash (reconcile.ts:4-12) and no step of runProcess forgets its
\* row.  The two exceptions are the two the code has: spawn threw, or the
\* store refused the final update.
NoPhantomRun ==
    phase = "up" =>
        \A r \in RunningRows : pc[r] \in InFlight \cup {"threw", "unrecorded"}

SameTask(q, r) == q # r /\ TaskOf[q] = TaskOf[r]

\* The re-entrancy check of execute (executor.ts:22-24).  A call that went
\* past it never coexists with a running row that was on disk when it
\* checked, however long ago that was: two children of one task are alive
\* together only if the second checked before the first had its row, or if
\* the first one's row was taken away (trimmed, cleared or reset) meanwhile.
OverlapExplained ==
    \A q, r \in Run :
        /\ SameTask(q, r)
        /\ pc[q] = "live" /\ pc[r] = "live"
        /\ startedAt[q] < startedAt[r]
        => seenAt[r] < startedAt[q] \/ status[q] # "running"

\* A notification goes out after the outcome of its run was recorded: whoever
\* is told that a run ended does not find it running, unless the store refused
\* the update (after a failed spawn, the first of two updates).
NoticeFollowsRecord ==
    \A r \in Run : notice[r] # "none" =>
        /\ exit[r] # "none"
        /\ notice[r] = "onSuccess" <=> exit[r] = "zero"
        /\ status[r] = "running" => pc[r] \in {"unrecorded", "dead"} \/ exit[r] = "spawn"

\* What a row may become.  A row that was trimmed or cleared stays gone, a
\* skipped row never changes again, no finished row returns to running, and
\* success is only ever followed by the verdict of a late resetStuck: its
\* snapshot may hold a run that has finished since.
RowLifecycle ==
    [][\A r \in Run : status'[r] # status[r] =>
        CASE status[r] = "absent"      -> startedAt[r] = 0 /\ status'[r] \in {"running", "skipped"}
          [] status[r] = "running"     -> status'[r] \in {"absent", "success", "failed", "interrupted"}
          [] status[r] = "interrupted" -> status'[r] \in {"absent", "success", "failed"}
          [] status[r] = "success"     -> status'[r] \in {"absent", "interrupted"}
          [] status[r] = "failed"      -> status'[r] \in {"absent", "interrupted"}
          [] OTHER                     -> status'[r] = "absent"]_vars

\* The automatic trim keeps what the history page shows first: while nobody
\* clears the history, the newest row of a task stays in the file.
NewestRowStays ==
    [][\A t \in Task : Newest(Rows(t), 1) # {} /\ ~(admin[t] = "clear" /\ admin'[t] = "idle") =>
        \E r \in Newest(Rows(t), 1) : status'[r] # "absent"]_vars

\* A row does not say running for ever once the child of its run is gone:
\* the run records its end, or a boot does after a crash, or the row is
\* removed; an administrator's calls do not prevent it.  What does is what
\* NoPhantomRun names: a spawn that throws and a store that refuses.
RunningRowsResolve ==
    \A r \in Run :
        status[r] = "running" ~> (status[r] # "running" \/ pc[r] \in {"live", "threw", "unrecorded"})

\* Every call of execute returns, and the run it started is reported on once
\* its child has ended, even when its row has been removed: neither listener
\* leaves the promise pending.
CallsReturn ==
    \A r \in Run :
        /\ pc[r] = "findRunning" ~> pc[r] \in {"load", "live", "done", "rejected", "dead"}
        /\ pc[r] = "closed" ~> notice[r] # "none" \/ pc[r] = "dead"

(***************************************************************************)
(* What the documents and comments say and the code does not do.           *)
(***************************************************************************)

\* specs/001-cron-task-manager/spec.md:121-123: "no concurrent instances of
\* the same task run simultaneously".
NoConcurrentInstances ==
    \A q, r \in Run : SameTask(q, r) => ~(pc[q] = "live" /\ pc[r] = "live")

\* README.md:142: "If a task's cron fires while a previous execution is still
\* running, the new execution is skipped": a call that checks while an older
\* run has had its row for some time starts no second child.
OverlapIsSkipped ==
    \A q, r \in Run :
        SameTask(q, r) /\ pc[q] = "live" /\ pc[r] = "live" /\ startedAt[q] < startedAt[r]
            => seenAt[r] < startedAt[q]

\* executor.ts:87-90: "Anything that throws before the child process's event
\* handlers are wired up must still resolve the execution".
ThrowsAreResolved ==
    \A r \in Run : (pc[r] = "threw") ~> (status[r] # "running")
=============================================================================
