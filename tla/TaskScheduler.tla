--------------------------- MODULE TaskScheduler ----------------------------
(***************************************************************************)
(* The tasks, their cron jobs and their environments: the handlers of      *)
(* packages/common/src/router/tasks.ts and system.ts over                  *)
(* apps/scheduler/src/repositories/json5/task-repo.ts, scheduler.ts and    *)
(* environment-manager.ts.                                                 *)
(*                                                                         *)
(* Unlike the execution store, task-repo.ts has no serializer: each of its *)
(* mutations reads the whole file, awaits, and writes the whole file back  *)
(* (atomically, see SerializedStore).  Each member of Req is one HTTP      *)
(* request; the handlers run concurrently between their awaits.            *)
(***************************************************************************)
EXTENDS Integers, FiniteSets

CONSTANTS
    Req,      \* requests, each made once
    Task,     \* task ids
    Def,      \* what a task's fields but "enabled" may be: script and cron
    Valid,    \* the definitions whose cron expression node-cron accepts
    Zone,     \* time zones
    Existing, \* tasks in the file at the start, enabled
    Absent,   \* no task, no job, no environment
    Partial,  \* an environment that is being rebuilt or failed to
    MaxCrashes

ASSUME ValidType == Valid \subseteq Def
ASSUME ExistingType == Existing \subseteq Task
ASSUME AbsentType == Absent \notin [def : Def, enabled : BOOLEAN] \cup [def : Def, zone : Zone] \cup Def
ASSUME PartialType == Partial # Absent /\ Partial \notin Def
ASSUME MaxCrashesType == MaxCrashes \in Nat

TaskRow == [def : Def, enabled : BOOLEAN]
Job     == [def : Def, zone : Zone]

\* The form sends every field with an update.
Input ==
    [op : {"create", "update"}, task : Task, def : Def, enabled : BOOLEAN]
        \cup [op : {"delete", "pause", "resume"}, task : Task]

Locations == {"idle", "read", "write", "setup", "build", "cleanup", "apply", "list", "done"}

VARIABLES
    up,         \* the scheduler serves
    file,       \* tasks.json5
    zone,       \* the configured time zone
    jobs,       \* NodeCronSchedulerService.jobs
    env,        \* the task's script directory: the definition it was built for
    born,       \* ids given out so far
    input,      \* what each request asks for
    pc,         \* where its handler stands
    out,        \* the file a mutation is about to write
    ideal,      \* history: the file if each mutation were atomic
    overlapped, \* history: requests overlapped since the boot
    disturbed,  \* history: requests overlapped, or a crash cut one off, ever
    jobFailed,  \* history: tasks a request failed on with their job unsettled
    envFailed,  \* history: tasks a request failed on with their directory unsettled
    crashes

reqVars  == <<input, pc, out>>
histVars == <<ideal, overlapped, disturbed, jobFailed, envFailed>>
vars == <<up, file, zone, jobs, env, born, reqVars, histVars, crashes>>

Open == {p \in Req : pc[p] \notin {"idle", "done"}}

(***************************************************************************)
(* scheduler.ts: the jobs map.                                             *)
(***************************************************************************)

\* Mutant of JobFor: the fields are swapped.
JobSwapped(row, z) ==
    IF row.def \in Valid THEN [def |-> z, zone |-> row.def] ELSE Absent

\* The entry scheduleTask leaves for a task: none if its cron is invalid.
JobFor(row, z) ==
    IF row.def \in Valid THEN [def |-> row.def, zone |-> z] ELSE Absent

Schedule(t, row) == jobs' = [jobs EXCEPT ![t] = JobFor(row, zone)]

Unschedule(t) == jobs' = [jobs EXCEPT ![t] = Absent]

\* Mutant of Rescheduled: does not look at enabled.
RescheduledPaused(rows, j, z) ==
    [t \in Task |-> IF rows[t] # Absent THEN JobFor(rows[t], z) ELSE j[t]]

\* The jobs after every enabled task of rows was scheduled, the others as in j.
Rescheduled(rows, j, z) ==
    [t \in Task |-> IF rows[t] # Absent /\ rows[t].enabled THEN JobFor(rows[t], z) ELSE j[t]]

(***************************************************************************)
(* task-repo.ts: what a mutation makes of the file.                        *)
(***************************************************************************)

\* update() refuses a task that is not there; delete() only filters.
Accepts(i, rows) == i.op \in {"update", "pause", "resume"} => rows[i.task] # Absent

Mutated(i, rows) ==
    [rows EXCEPT ![i.task] =
        CASE i.op \in {"create", "update"} -> [def |-> i.def, enabled |-> i.enabled]
          [] i.op = "delete"               -> Absent
          [] OTHER                         -> [@ EXCEPT !.enabled = (i.op = "resume")]]

Goto(p, l) == pc' = [pc EXCEPT ![p] = l]

\* The handler returns or rejects, and its locals are gone.
End(p) ==
    /\ Goto(p, "done")
    /\ input' = [input EXCEPT ![p] = Absent]
    /\ out' = [out EXCEPT ![p] = Absent]

Arrive(p) ==
    /\ up
    /\ pc[p] = "idle"
    /\ overlapped' = (overlapped \/ Open # {})
    /\ disturbed' = IF Open # {} THEN disturbed \cup {"overlap"} ELSE disturbed

(***************************************************************************)
(* The handlers of the tasks router.                                       *)
(***************************************************************************)

\* create: the repository gives out a new id and goes on to its read.
Create(p, i) ==
    /\ i.op = "create"
    /\ i.task \notin born
    /\ Arrive(p)
    /\ born' = born \cup {i.task}
    /\ Goto(p, "read")
    /\ input' = [input EXCEPT ![p] = i]
    /\ UNCHANGED <<up, file, zone, jobs, env, out, ideal, jobFailed, envFailed, crashes>>

\* The findById that the other handlers begin with, and the unschedule that
\* follows it at once in delete.
Find(p, i) ==
    /\ i.op \in {"update", "delete", "pause", "resume"}
    /\ i.task \in born
    /\ Arrive(p)
    /\ IF file[i.task] = Absent
       THEN End(p)
       ELSE Goto(p, "read") /\ input' = [input EXCEPT ![p] = i] /\ UNCHANGED out
    /\ IF i.op = "delete" /\ file[i.task] # Absent THEN Unschedule(i.task) ELSE UNCHANGED jobs
    /\ UNCHANGED <<up, file, zone, env, born, ideal, jobFailed, envFailed, crashes>>

\* The read of a mutation and what it computes from it.
Read(p) ==
    /\ pc[p] = "read"
    /\ IF Accepts(input[p], file)
       THEN Goto(p, "write") /\ out' = [out EXCEPT ![p] = Mutated(input[p], file)] /\ UNCHANGED input
       ELSE End(p)
    /\ UNCHANGED <<up, file, zone, jobs, env, born, histVars, crashes>>

\* The write: the whole file as it was read, with the one change.
Write(p) ==
    /\ pc[p] = "write"
    /\ file' = out[p]
    /\ ideal' = IF Accepts(input[p], ideal) THEN Mutated(input[p], ideal) ELSE ideal
    /\ Goto(p, CASE input[p].op \in {"create", "update"} -> "setup"
                 [] input[p].op = "delete"               -> "cleanup"
                 [] OTHER                                -> "apply")
    /\ UNCHANGED <<up, zone, jobs, env, born, input, out, overlapped, disturbed, jobFailed, envFailed, crashes>>

\* prepareEnvironment removes the directory first and then builds it anew.
SetupBegins(p) ==
    /\ pc[p] = "setup"
    /\ env' = [env EXCEPT ![input[p].task] = Partial]
    /\ Goto(p, "build")
    /\ UNCHANGED <<up, file, zone, jobs, born, input, out, histVars, crashes>>

SetupEnds(p) ==
    /\ pc[p] = "build"
    /\ env' = [env EXCEPT ![input[p].task] = input[p].def]
    /\ envFailed' = envFailed \ {input[p].task}
    /\ Goto(p, "apply")
    /\ UNCHANGED <<up, file, zone, jobs, born, input, out, ideal, overlapped, disturbed, jobFailed, crashes>>

\* uv or volta exits with an error: the handler rejects, nothing is undone.
SetupFails(p) ==
    /\ pc[p] = "build"
    /\ jobFailed' = jobFailed \cup {input[p].task}
    /\ envFailed' = envFailed \cup {input[p].task}
    /\ End(p)
    /\ UNCHANGED <<up, file, zone, jobs, env, born, ideal, overlapped, disturbed, crashes>>

\* Mutant of Cleanup: the directory of the deleted task stays.
CleanupNothing(p) ==
    /\ pc[p] = "cleanup"
    /\ End(p)
    /\ UNCHANGED <<up, file, zone, jobs, env, born, histVars, crashes>>

\* The file or the directory cannot be read, written or removed: the handler
\* rejects and what it did so far stays.  A delete has unscheduled its task by
\* then, and a new time zone is in force.
IOFails(p) ==
    /\ pc[p] \in {"read", "write", "setup", "cleanup", "list"}
    /\ jobFailed' = CASE pc[p] = "list" -> Task
                      [] pc[p] \in {"read", "write"} /\ input[p].op # "delete" -> jobFailed
                      [] OTHER -> jobFailed \cup {input[p].task}
    /\ envFailed' = IF pc[p] \in {"setup", "cleanup"} THEN envFailed \cup {input[p].task} ELSE envFailed
    /\ End(p)
    /\ UNCHANGED <<up, file, zone, jobs, env, born, ideal, overlapped, disturbed, crashes>>

Cleanup(p) ==
    /\ pc[p] = "cleanup"
    /\ env' = [env EXCEPT ![input[p].task] = Absent]
    /\ jobFailed' = jobFailed \ {input[p].task}
    /\ envFailed' = envFailed \ {input[p].task}
    /\ End(p)
    /\ UNCHANGED <<up, file, zone, jobs, born, ideal, overlapped, disturbed, crashes>>

\* The end of create, update, pause and resume: the row the mutation returned
\* decides, not the file.
Apply(p) ==
    /\ pc[p] = "apply"
    /\ LET i == input[p]  row == out[p][i.task] IN
         \/ row.enabled /\ Schedule(i.task, row)
         \/ ~row.enabled /\ i.op # "create" /\ Unschedule(i.task)
         \/ ~row.enabled /\ i.op = "create" /\ UNCHANGED jobs
    /\ jobFailed' = jobFailed \ {input[p].task}
    /\ End(p)
    /\ UNCHANGED <<up, file, zone, env, born, ideal, overlapped, disturbed, envFailed, crashes>>

(***************************************************************************)
(* system.updateSettings: the new time zone, then every enabled task again.*)
(***************************************************************************)

SetZone(p, z) ==
    /\ Arrive(p)
    /\ zone' = z
    /\ Goto(p, "list")
    /\ UNCHANGED <<up, file, jobs, env, born, input, out, ideal, jobFailed, envFailed, crashes>>

RescheduleAll(p) ==
    /\ pc[p] = "list"
    /\ jobs' = Rescheduled(file, jobs, zone)
    /\ jobFailed' = {t \in jobFailed : file[t] = Absent \/ ~file[t].enabled}
    /\ End(p)
    /\ UNCHANGED <<up, file, zone, env, born, ideal, overlapped, disturbed, envFailed, crashes>>

(***************************************************************************)
(* The process: NodeCronSchedulerService.start and stop.                   *)
(***************************************************************************)

Start ==
    /\ ~up
    /\ up' = TRUE
    /\ jobs' = Rescheduled(file, [t \in Task |-> Absent], zone)
    /\ overlapped' = FALSE
    /\ jobFailed' = {}
    /\ UNCHANGED <<file, zone, env, born, reqVars, ideal, disturbed, envFailed, crashes>>

\* Mutant of Crash: a write in place, which a crash can cut short.
CrashTruncates ==
    /\ up
    /\ crashes < MaxCrashes
    /\ crashes' = crashes + 1
    /\ up' = FALSE
    /\ file' = IF \E p \in Req : pc[p] = "write" THEN [t \in Task |-> Absent] ELSE file
    /\ jobs' = [t \in Task |-> Absent]
    /\ disturbed' = disturbed
    /\ pc' = [p \in Req |-> IF p \in Open THEN "done" ELSE pc[p]]
    /\ input' = [p \in Req |-> Absent]
    /\ out' = [p \in Req |-> Absent]
    /\ UNCHANGED <<zone, env, born, ideal, overlapped, jobFailed, envFailed>>

Crash ==
    /\ up
    /\ crashes < MaxCrashes
    /\ crashes' = crashes + 1
    /\ up' = FALSE
    /\ jobs' = [t \in Task |-> Absent]
    /\ disturbed' = IF Open # {} THEN disturbed \cup {"crash"} ELSE disturbed
    /\ pc' = [p \in Req |-> IF p \in Open THEN "done" ELSE pc[p]]
    /\ input' = [p \in Req |-> Absent]
    /\ out' = [p \in Req |-> Absent]
    /\ UNCHANGED <<file, zone, env, born, ideal, overlapped, jobFailed, envFailed>>

Init ==
    /\ up = FALSE
    /\ \E f \in [Existing -> Def] :
         /\ file = [t \in Task |-> IF t \in Existing THEN [def |-> f[t], enabled |-> TRUE] ELSE Absent]
         /\ env = [t \in Task |-> IF t \in Existing THEN f[t] ELSE Absent]
    /\ zone \in Zone
    /\ jobs = [t \in Task |-> Absent]
    /\ born = Existing
    /\ input = [p \in Req |-> Absent]
    /\ pc = [p \in Req |-> "idle"]
    /\ out = [p \in Req |-> Absent]
    /\ ideal = file
    /\ overlapped = FALSE /\ disturbed = {} /\ jobFailed = {} /\ envFailed = {}
    /\ crashes = 0

Next ==
    \/ \E p \in Req, i \in Input : Create(p, i) \/ Find(p, i)
    \/ \E p \in Req, z \in Zone : SetZone(p, z)
    \/ \E p \in Req :
         \/ Read(p) \/ Write(p) \/ SetupBegins(p) \/ SetupEnds(p) \/ SetupFails(p)
         \/ IOFails(p) \/ Cleanup(p) \/ Apply(p) \/ RescheduleAll(p)
    \/ Start \/ Crash

Spec == Init /\ [][Next]_vars

(***************************************************************************)
(* Properties.                                                             *)
(***************************************************************************)

Files == [Task -> TaskRow \cup {Absent}]

TypeOK ==
    /\ up \in BOOLEAN
    /\ file \in Files
    /\ zone \in Zone
    /\ jobs \in [Task -> Job \cup {Absent}]
    /\ env \in [Task -> Def \cup {Absent, Partial}]
    /\ born \subseteq Task
    /\ input \in [Req -> Input \cup {Absent}]
    /\ pc \in [Req -> Locations]
    /\ out \in [Req -> Files \cup {Absent}]
    /\ ideal \in Files
    /\ overlapped \in BOOLEAN
    /\ disturbed \subseteq {"overlap", "crash"}
    /\ jobFailed \subseteq Task
    /\ envFailed \subseteq Task
    /\ crashes \in Nat

Quiet == up /\ Open = {}

\* When no request is open, the jobs map is the one the file and the settings
\* call for: a job for each enabled task whose cron is valid, at its present
\* definition and in the present time zone, and no other.  It holds as long as
\* requests have not overlapped since the boot, and a boot makes it hold again
\* whatever was there before; a task on which a request failed half-way is excepted
\* until a request on it succeeds
\* (tasks.ts:48-52, system.ts:31-38, scheduler.ts:16-21).
JobsMatchFile ==
    Quiet /\ ~overlapped =>
        \A t \in Task \ jobFailed :
            jobs[t] = IF file[t] # Absent /\ file[t].enabled THEN JobFor(file[t], zone) ELSE Absent

\* The script directory of a task is built for the definition in the file,
\* and a deleted task has none, unless requests overlapped, a crash cut one
\* off or the last set-up or removal of it failed.
EnvMatchesFile ==
    Quiet /\ disturbed = {} =>
        \A t \in Task \ envFailed : env[t] = IF file[t] = Absent THEN Absent ELSE file[t].def

\* No mutation is lost, and none brings a deleted task back, unless requests
\* overlapped: not by a crash at any point of a handler either.
MutationsKept == "overlap" \notin disturbed => file = ideal

(***************************************************************************)
(* What the documents say and the code does not do.                        *)
(***************************************************************************)

\* specs/001-cron-task-manager/spec.md:66: "when I pause it, it stops
\* executing on schedule until resumed".  Every request has been answered and
\* none failed half-way.
PausedNeverFires ==
    Quiet /\ jobFailed = {} =>
        \A t \in Task : jobs[t] # Absent /\ file[t] # Absent => file[t].enabled
=============================================================================
