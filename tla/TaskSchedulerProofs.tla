------------------------- MODULE TaskSchedulerProofs -------------------------
(***************************************************************************)
(* For any requests, tasks, schedules, time zones and crashes: no mutation *)
(* of the file is lost short of overlap, and the jobs and the directories  *)
(* agree with the file whenever no request is open.                        *)
(***************************************************************************)
EXTENDS TaskScheduler, TLAPS

\* Where a handler stands once it has made its change: before the write of
\* it, and from there on.
After    == {"setup", "build", "cleanup", "apply"}
Written  == After \cup {"write"}
Handling == Written \cup {"read"}

Handlers ==
    \A p \in Req :
        /\ pc[p] \in Handling => input[p] \in Input /\ input[p].task \in born
        /\ pc[p] \in {"setup", "build"} => input[p].op \in {"create", "update"}
        /\ pc[p] = "cleanup" => input[p].op = "delete"
        /\ pc[p] = "apply" => input[p].op # "delete"

\* What a request leaves of its task.
Changes ==
    \A p \in Req : pc[p] \in Written =>
        /\ out[p] \in Files
        /\ out[p][input[p].task] = Absent <=> input[p].op = "delete"
        /\ input[p].op \in {"create", "update"} => out[p][input[p].task].def = input[p].def

\* An id that was not given out is nowhere.
Births ==
    \A t \in Task \ born :
        /\ file[t] = Absent /\ jobs[t] = Absent
        /\ \A p \in Req : pc[p] \in Written => out[p][t] = Absent

Process ==
    /\ ~up => Open = {}
    /\ overlapped => "overlap" \in disturbed

\* A request that is alone changes the file as it is.
Sole ==
    ~overlapped =>
        /\ \A p, q \in Open : p = q
        /\ \A p \in Req : pc[p] = "write" => Accepts(input[p], file) /\ out[p] = Mutated(input[p], file)
        /\ \A p \in Req : pc[p] \in After => out[p] = file

Due(t) == IF file[t] # Absent /\ file[t].enabled THEN JobFor(file[t], zone) ELSE Absent

\* The job of t is the business of p.
Unsettled(p, t) ==
    /\ pc[p] \in Handling /\ input[p].task = t
    /\ input[p].op = "delete" \/ pc[p] \in After

Jobs ==
    up /\ ~overlapped =>
        /\ \A p \in Req : pc[p] \in Handling /\ input[p].op \in {"create", "delete"} => jobs[input[p].task] = Absent
        /\ \A t \in Task \ jobFailed :
               \/ jobs[t] = Due(t)
               \/ \E p \in Req : Unsettled(p, t)
               \/ \E p \in Req : pc[p] = "list" /\ Due(t) # Absent

Built(t) == IF file[t] = Absent THEN Absent ELSE file[t].def

Directories ==
    disturbed = {} =>
        \A t \in Task \ envFailed :
            \/ env[t] = Built(t)
            \/ \E p \in Req : pc[p] \in {"setup", "build", "cleanup"} /\ input[p].task = t

Inv ==
    /\ TypeOK /\ Handlers /\ Changes /\ Births /\ Process
    /\ Sole /\ MutationsKept /\ Jobs /\ Directories

-----------------------------------------------------------------------------

\* The requests of the form carry a definition, the others only their task.
LEMMA InputFields ==
    ASSUME NEW i \in Input
    PROVE  /\ i.task \in Task
           /\ i.op \in {"create", "update", "delete", "pause", "resume"}
           /\ i.op \in {"create", "update"} => i.def \in Def /\ i.enabled \in BOOLEAN
PROOF BY DEF Input

\* A job is none exactly when its cron is not accepted.
LEMMA JobForType ==
    ASSUME NEW row \in TaskRow, NEW z \in Zone
    PROVE  /\ JobFor(row, z) \in Job \cup {Absent}
           /\ JobFor(row, z) = Absent <=> row.def \notin Valid
PROOF BY AbsentType DEF JobFor, Job, TaskRow

\* A mutation that is accepted is of its one task: gone after a delete, there
\* after the others, with the definition that create and update bring and the
\* one pause and resume found.
LEMMA MutatedRows ==
    ASSUME NEW i \in Input, NEW rows \in Files, Accepts(i, rows)
    PROVE  /\ Mutated(i, rows) \in Files
           /\ \A t \in Task : t # i.task => Mutated(i, rows)[t] = rows[t]
           /\ Mutated(i, rows)[i.task] = Absent <=> i.op = "delete"
           /\ i.op \in {"create", "update"} => Mutated(i, rows)[i.task].def = i.def
           /\ i.op \in {"pause", "resume"} =>
                  rows[i.task] # Absent /\ Mutated(i, rows)[i.task].def = rows[i.task].def
PROOF
  <1> USE InputFields
  <1>1. CASE i.op \in {"create", "update"}
    <2>1. [def |-> i.def, enabled |-> i.enabled] \in TaskRow  BY <1>1 DEF TaskRow
    <2> QED BY <1>1, <2>1, AbsentType DEF Mutated, Files, TaskRow
  <1>2. CASE i.op = "delete"
    BY <1>2 DEF Mutated, Files
  <1>3. CASE i.op \in {"pause", "resume"}
    <2>1. rows[i.task] \in TaskRow /\ rows[i.task] # Absent  BY <1>3 DEF Accepts, Files
    <2>2. [rows[i.task] EXCEPT !.enabled = (i.op = "resume")] \in TaskRow
      BY <2>1 DEF TaskRow
    <2>3. [rows[i.task] EXCEPT !.enabled = (i.op = "resume")].def = rows[i.task].def
      BY <2>1 DEF TaskRow
    <2> QED BY <1>3, <2>1, <2>2, <2>3, AbsentType DEF Mutated, Files, TaskRow
  <1> QED BY <1>1, <1>2, <1>3

\* The reschedules give each enabled task its job and leave the others.
LEMMA RescheduledType ==
    ASSUME NEW rows \in Files, NEW j \in [Task -> Job \cup {Absent}], NEW z \in Zone
    PROVE  Rescheduled(rows, j, z) \in [Task -> Job \cup {Absent}]
PROOF BY JobForType DEF Rescheduled, Files

\* At first there is no job and no request, and the directories are built.
LEMMA InitInv == Init => Inv
PROOF
  <1> SUFFICES ASSUME Init PROVE Inv  OBVIOUS
  <1> USE DEF Init
  <1>1. TypeOK
    <2>1. PICK f \in [Existing -> Def] :
              /\ file = [t \in Task |-> IF t \in Existing THEN [def |-> f[t], enabled |-> TRUE] ELSE Absent]
              /\ env = [t \in Task |-> IF t \in Existing THEN f[t] ELSE Absent]
      OBVIOUS
    <2>2. \A t \in Existing : [def |-> f[t], enabled |-> TRUE] \in TaskRow
      BY DEF TaskRow
    <2>3. file \in Files /\ env \in [Task -> Def \cup {Absent, Partial}]
      BY <2>1, <2>2 DEF Files
    <2> QED BY <2>3, ExistingType DEF TypeOK, Locations
  <1>2. Handlers /\ Changes /\ Births /\ Process /\ Sole
    BY ExistingType DEF Handlers, Changes, Births, Process, Sole, Open, Handling, Written, After
  <1>3. MutationsKept /\ Jobs
    BY DEF MutationsKept, Jobs
  <1>4. Directories
    <2>1. PICK f \in [Existing -> Def] :
              /\ file = [t \in Task |-> IF t \in Existing THEN [def |-> f[t], enabled |-> TRUE] ELSE Absent]
              /\ env = [t \in Task |-> IF t \in Existing THEN f[t] ELSE Absent]
      OBVIOUS
    <2>2. \A t \in Existing : [def |-> f[t], enabled |-> TRUE] \in [def : Def, enabled : BOOLEAN]
      OBVIOUS
    <2>3. \A t \in Existing : [def |-> f[t], enabled |-> TRUE] # Absent
      BY <2>2, AbsentType
    <2> QED BY <2>1, <2>3 DEF Directories, Built
  <1> QED BY <1>1, <1>2, <1>3, <1>4 DEF Inv

-----------------------------------------------------------------------------
(***************************************************************************)
(* Each step keeps each part of Inv.                                       *)
(***************************************************************************)

LEMMA CreateStep == ASSUME NEW p \in Req, NEW i \in Input, Inv, Create(p, i) PROVE Inv'
PROOF
  <1> USE DEF Inv, Create, Arrive, Goto
  <1>1. TypeOK'
    BY InputFields DEF TypeOK, Locations
  <1>2. Handlers'
    BY DEF TypeOK, Handlers
  <1>3. Changes'
    BY DEF Changes, Written, After
  <1>4. Births'
    BY DEF Births, Written, After
  <1>5. Process'
    BY DEF Process
  <1>6. Sole'
    <2> SUFFICES ASSUME ~overlapped' PROVE Sole'  BY DEF Sole
    <2>1. \A q \in Req : pc[q] \in {"idle", "done"}
      BY DEF Open
    <2>2. \A q \in Req : q # p => pc'[q] \in {"idle", "done"}
      BY <2>1 DEF TypeOK
    <2>3. pc'[p] = "read"
      BY DEF TypeOK
    <2> QED BY <2>2, <2>3 DEF Sole, Open, After
  <1>7. MutationsKept'
    BY DEF MutationsKept
  <1>8. Jobs'
    BY InputFields DEF TypeOK, Births, Jobs, Unsettled, Due, Handling, Written, After
  <1>9. Directories'
    BY DEF Directories, Built
  <1> QED BY <1>1, <1>2, <1>3, <1>4, <1>5, <1>6, <1>7, <1>8, <1>9

LEMMA FindStep == ASSUME NEW p \in Req, NEW i \in Input, Inv, Find(p, i) PROVE Inv'
PROOF
  <1> USE DEF Inv, Find, Arrive, End, Goto
  <1>1. TypeOK'
    <2>1. CASE file[i.task] = Absent
      BY <2>1 DEF TypeOK, Locations
    <2>2. CASE file[i.task] # Absent
      BY <2>2 DEF TypeOK, Locations, Unschedule
    <2> QED BY <2>1, <2>2
  <1>2. Handlers'
    BY DEF TypeOK, Handlers, Handling, Written, After
  <1>3. Changes'
    BY DEF TypeOK, Changes, Written, After
  <1>4. Births'
    BY DEF TypeOK, Births, Unschedule, Written, After
  <1>5. Process'
    BY DEF Process
  <1>6. Sole'
    <2> SUFFICES ASSUME ~overlapped' PROVE Sole'  BY DEF Sole
    <2>1. \A q \in Req : pc[q] \in {"idle", "done"}
      BY DEF Open
    <2>2. \A q \in Req : q # p => pc'[q] \in {"idle", "done"}
      BY <2>1 DEF TypeOK
    <2>3. pc'[p] \in {"read", "done"}
      BY DEF TypeOK
    <2> QED BY <2>2, <2>3 DEF Sole, Open, After
  <1>7. MutationsKept'
    BY DEF MutationsKept
  <1>8. Jobs'
    BY DEF TypeOK, Handlers, Jobs, Unsettled, Due, Unschedule, Handling, Written, After
  <1>9. Directories'
    BY DEF Open, Directories, Built
  <1> QED BY <1>1, <1>2, <1>3, <1>4, <1>5, <1>6, <1>7, <1>8, <1>9

LEMMA SetZoneStep == ASSUME NEW p \in Req, NEW z \in Zone, Inv, SetZone(p, z) PROVE Inv'
PROOF
  <1> USE DEF Inv, SetZone, Arrive, Goto
  <1>1. TypeOK'
    BY DEF TypeOK, Locations
  <1>2. Handlers'
    BY DEF Handlers, Handling, Written, After
  <1>3. Changes'
    BY DEF Changes, Written, After
  <1>4. Births'
    BY DEF Births, Written, After
  <1>5. Process'
    BY DEF Process
  <1>6. Sole'
    <2> SUFFICES ASSUME ~overlapped' PROVE Sole'  BY DEF Sole
    <2>1. \A q \in Req : pc[q] \in {"idle", "done"}
      BY DEF Open
    <2>2. \A q \in Req : q # p => pc'[q] \in {"idle", "done"}
      BY <2>1 DEF TypeOK
    <2>3. pc'[p] = "list"
      BY DEF TypeOK
    <2> QED BY <2>2, <2>3 DEF Sole, Open, After
  <1>7. MutationsKept'
    BY DEF MutationsKept
  <1>8. Jobs'
    <2> SUFFICES ASSUME up', ~overlapped' PROVE Jobs'  BY DEF Jobs
    <2>1. Open = {} /\ ~overlapped /\ \A q \in Req : pc[q] \in {"idle", "done"}
      BY DEF Open
    <2>2. \A t \in Task \ jobFailed : jobs[t] = Due(t)
      BY <2>1 DEF Jobs, Unsettled, Handling, Written, After
    <2>3. \A t \in Task : Due(t) = Absent <=> Due(t)' = Absent
      BY JobForType DEF TypeOK, Files, Due
    <2>4. \A q \in Req : pc'[q] \notin Handling
      BY <2>1 DEF Handling, Written, After
    <2>5. \A t \in Task \ jobFailed : jobs[t] = Due(t)' \/ Due(t)' # Absent
      BY <2>2, <2>3
    <2>6. pc'[p] = "list"
      BY DEF TypeOK
    <2> QED BY <2>4, <2>5, <2>6 DEF Jobs
  <1>9. Directories'
    BY DEF Directories, Built
  <1> QED BY <1>1, <1>2, <1>3, <1>4, <1>5, <1>6, <1>7, <1>8, <1>9

LEMMA ReadStep == ASSUME NEW p \in Req, Inv, Read(p) PROVE Inv'
PROOF
  <1> USE DEF Inv, Read, End, Goto, histVars
  <1>1. TypeOK'
    <2>1. CASE Accepts(input[p], file)
      <3>1. input[p] \in Input  BY DEF Handlers, Handling
      <3>2. Mutated(input[p], file) \in Files  BY <2>1, <3>1, MutatedRows DEF TypeOK
      <3> QED BY <2>1, <3>2 DEF TypeOK, Locations
    <2>2. CASE ~Accepts(input[p], file)
      BY <2>2 DEF TypeOK, Locations
    <2> QED BY <2>1, <2>2
  <1>2. Handlers'
    BY DEF TypeOK, Handlers, Handling, Written, After
  <1>3. Changes'
    BY MutatedRows DEF TypeOK, Handlers, Changes, Handling, Written, After
  <1>4. Births'
    BY MutatedRows DEF TypeOK, Handlers, Births, Handling, Written, After
  <1>5. Process'
    BY DEF Process, Open
  <1>6. Sole'
    BY DEF TypeOK, Sole, Open, After
  <1>7. MutationsKept'
    BY DEF MutationsKept
  <1>8. Jobs'
    <2> SUFFICES ASSUME up, ~overlapped PROVE Jobs'  BY DEF Jobs
    <2>1. pc[p] = "read" /\ p \in Open /\ \A q \in Open : q = p
      BY DEF Open, Sole
    <2>2. CASE Accepts(input[p], file)
      BY <2>1, <2>2 DEF TypeOK, Jobs, Unsettled, Due, Handling, Written, After
    <2>3. CASE ~Accepts(input[p], file)
      BY <2>1, <2>3 DEF TypeOK, Jobs, Unsettled, Due, Handling, Written, After, Accepts
    <2> QED BY <2>2, <2>3
  <1>9. Directories'
    BY DEF Process, Sole, Open, Directories, Built
  <1> QED BY <1>1, <1>2, <1>3, <1>4, <1>5, <1>6, <1>7, <1>8, <1>9

LEMMA WriteStep == ASSUME NEW p \in Req, Inv, Write(p) PROVE Inv'
PROOF
  <1> USE DEF Inv, Write, Goto
  <1>1. TypeOK'
    BY MutatedRows DEF TypeOK, Locations, Handlers, Changes, Handling, Written
  <1>2. Handlers'
    BY DEF Handlers, Handling, Written
  <1>3. Changes'
    BY DEF Changes, Written
  <1>4. Births'
    BY DEF Births, Written
  <1>5. Process'
    BY DEF Process, Open
  <1>6. Sole'
    BY DEF TypeOK, Sole, Open, After
  <1>7. MutationsKept'
    BY DEF Process, Sole, MutationsKept
  <1>8. Jobs'
    BY MutatedRows DEF TypeOK, Sole, Handlers, Jobs, Unsettled, Due, Handling, Written, After
  <1>9. Directories'
    BY InputFields, MutatedRows DEF TypeOK, Process, Sole, Handlers, Directories, Built, Handling, Written
  <1> QED BY <1>1, <1>2, <1>3, <1>4, <1>5, <1>6, <1>7, <1>8, <1>9

LEMMA SetupBeginsStep == ASSUME NEW p \in Req, Inv, SetupBegins(p) PROVE Inv'
PROOF
  <1> USE DEF Inv, SetupBegins, Goto, histVars
  <1>1. TypeOK'
    BY DEF TypeOK, Locations
  <1>2. Handlers'
    BY DEF Handlers, Handling, Written, After
  <1>3. Changes'
    BY DEF Changes, Written, After
  <1>4. Births'
    BY DEF Births, Written, After
  <1>5. Process'
    BY DEF Process, Open
  <1>6. Sole'
    BY DEF Sole, Open, After
  <1>7. MutationsKept'
    BY DEF MutationsKept
  <1>8. Jobs'
    BY DEF Jobs, Unsettled, Due, Handling, Written, After
  <1>9. Directories'
    BY DEF Directories, Built
  <1> QED BY <1>1, <1>2, <1>3, <1>4, <1>5, <1>6, <1>7, <1>8, <1>9

LEMMA SetupEndsStep == ASSUME NEW p \in Req, Inv, SetupEnds(p) PROVE Inv'
PROOF
  <1> USE DEF Inv, SetupEnds, Goto
  <1>1. TypeOK'
    BY InputFields DEF TypeOK, Locations, Handlers, Handling, Written, After
  <1>2. Handlers'
    BY DEF Handlers, Handling, Written, After
  <1>3. Changes'
    BY DEF Changes, Written, After
  <1>4. Births'
    BY DEF Births, Written, After
  <1>5. Process'
    BY DEF Process, Open
  <1>6. Sole'
    BY DEF Sole, Open, After
  <1>7. MutationsKept'
    BY DEF MutationsKept
  <1>8. Jobs'
    BY DEF Jobs, Unsettled, Due, Handling, Written, After
  <1>9. Directories'
    BY DEF TypeOK, Process, Sole, Handlers, Changes, Directories, Built, Written, After
  <1> QED BY <1>1, <1>2, <1>3, <1>4, <1>5, <1>6, <1>7, <1>8, <1>9

LEMMA SetupFailsStep == ASSUME NEW p \in Req, Inv, SetupFails(p) PROVE Inv'
PROOF
  <1> USE DEF Inv, SetupFails, End, Goto
  <1>1. TypeOK'
    BY DEF TypeOK, Locations, Handlers, Handling, Written, After
  <1>2. Handlers'
    BY DEF TypeOK, Handlers, Handling, Written, After
  <1>3. Changes'
    BY DEF TypeOK, Changes, Written, After
  <1>4. Births'
    BY DEF TypeOK, Births, Written, After
  <1>5. Process'
    BY DEF Process, Open
  <1>6. Sole'
    BY DEF TypeOK, Sole, Open, After
  <1>7. MutationsKept'
    BY DEF MutationsKept
  <1>8. Jobs'
    BY DEF TypeOK, Jobs, Unsettled, Due, Handling, Written, After
  <1>9. Directories'
    BY DEF Directories, Built
  <1> QED BY <1>1, <1>2, <1>3, <1>4, <1>5, <1>6, <1>7, <1>8, <1>9

LEMMA IOFailsStep == ASSUME NEW p \in Req, Inv, IOFails(p) PROVE Inv'
PROOF
  <1> USE DEF Inv, IOFails, End, Goto
  <1>1. TypeOK'
    BY DEF TypeOK, Locations, Handlers, Handling, Written, After
  <1>2. Handlers'
    BY DEF TypeOK, Handlers, Handling, Written, After
  <1>3. Changes'
    BY DEF TypeOK, Changes, Written, After
  <1>4. Births'
    BY DEF TypeOK, Births, Written, After
  <1>5. Process'
    BY DEF Process, Open
  <1>6. Sole'
    BY DEF TypeOK, Sole, Open, After
  <1>7. MutationsKept'
    BY DEF MutationsKept
  <1>8. Jobs'
    BY DEF TypeOK, Jobs, Unsettled, Due, Handling, Written, After
  <1>9. Directories'
    BY DEF Directories, Built
  <1> QED BY <1>1, <1>2, <1>3, <1>4, <1>5, <1>6, <1>7, <1>8, <1>9

LEMMA CleanupStep == ASSUME NEW p \in Req, Inv, Cleanup(p) PROVE Inv'
PROOF
  <1> USE DEF Inv, Cleanup, End, Goto
  <1>1. TypeOK'
    BY DEF TypeOK, Locations
  <1>2. Handlers'
    BY DEF TypeOK, Handlers, Handling, Written, After
  <1>3. Changes'
    BY DEF TypeOK, Changes, Written, After
  <1>4. Births'
    BY DEF TypeOK, Births, Written, After
  <1>5. Process'
    BY DEF Process, Open
  <1>6. Sole'
    BY DEF TypeOK, Sole, Open, After
  <1>7. MutationsKept'
    BY DEF MutationsKept
  <1>8. Jobs'
    BY DEF TypeOK, Sole, Handlers, Changes, Jobs, Unsettled, Due, Handling, Written, After
  <1>9. Directories'
    BY DEF TypeOK, Process, Sole, Handlers, Changes, Directories, Built, Written, After
  <1> QED BY <1>1, <1>2, <1>3, <1>4, <1>5, <1>6, <1>7, <1>8, <1>9

LEMMA ApplyStep == ASSUME NEW p \in Req, Inv, Apply(p) PROVE Inv'
PROOF
  <1> USE DEF Inv, Apply, End, Goto
  <1>1. TypeOK'
    BY JobForType DEF TypeOK, Locations, Schedule, Unschedule, Files, Handlers, Changes, Written, After
  <1>2. Handlers'
    BY DEF TypeOK, Handlers, Handling, Written, After
  <1>3. Changes'
    BY DEF TypeOK, Changes, Written, After
  <1>4. Births'
    BY DEF TypeOK, Handlers, Births, Schedule, Unschedule, Handling, Written, After
  <1>5. Process'
    BY DEF Process, Open
  <1>6. Sole'
    BY DEF TypeOK, Sole, Open, After
  <1>7. MutationsKept'
    BY DEF MutationsKept
  <1>8. Jobs'
    BY DEF TypeOK, Sole, Open, Handlers, Changes, Jobs, Unsettled, Due, Schedule, Unschedule, Handling, Written, After
  <1>9. Directories'
    BY DEF Directories, Built
  <1> QED BY <1>1, <1>2, <1>3, <1>4, <1>5, <1>6, <1>7, <1>8, <1>9

LEMMA RescheduleAllStep == ASSUME NEW p \in Req, Inv, RescheduleAll(p) PROVE Inv'
PROOF
  <1> USE DEF Inv, RescheduleAll, End, Goto
  <1>1. TypeOK'
    BY RescheduledType DEF TypeOK, Locations
  <1>2. Handlers'
    BY DEF Handlers, Handling, Written, After
  <1>3. Changes'
    BY DEF Changes, Written, After
  <1>4. Births'
    BY DEF Births, Rescheduled, Written, After
  <1>5. Process'
    BY DEF Process, Open
  <1>6. Sole'
    BY DEF Sole, Open, After
  <1>7. MutationsKept'
    BY DEF MutationsKept
  <1>8. Jobs'
    BY DEF Sole, Open, Jobs, Unsettled, Due, Rescheduled, Handling, Written, After
  <1>9. Directories'
    BY DEF Directories, Built
  <1> QED BY <1>1, <1>2, <1>3, <1>4, <1>5, <1>6, <1>7, <1>8, <1>9

LEMMA StartStep == ASSUME Inv, Start PROVE Inv'
PROOF
  <1> USE DEF Inv, Start, reqVars
  <1>1. TypeOK'
    BY RescheduledType DEF TypeOK
  <1>2. Handlers'
    BY DEF Handlers
  <1>3. Changes'
    BY DEF Changes
  <1>4. Births'
    BY DEF Births, Rescheduled
  <1>5. Process'
    BY DEF Process
  <1>6. Sole'
    BY DEF Process, Sole, Open, After
  <1>7. MutationsKept'
    BY DEF MutationsKept
  <1>8. Jobs'
    BY DEF Process, Open, Jobs, Due, Rescheduled, Handling, Written, After
  <1>9. Directories'
    BY DEF Directories, Built
  <1> QED BY <1>1, <1>2, <1>3, <1>4, <1>5, <1>6, <1>7, <1>8, <1>9

LEMMA CrashStep == ASSUME Inv, Crash PROVE Inv'
PROOF
  <1> USE DEF Inv, Crash
  <1>0. \A q \in Req : pc'[q] \in {"idle", "done"} /\ pc'[q] \in Locations /\ input'[q] = Absent /\ out'[q] = Absent
    BY DEF Open, Locations
  <1>1. TypeOK'
    <2>1. pc' \in [Req -> Locations]
      BY <1>0
    <2>2. jobs' \in [Task -> Job \cup {Absent}] /\ crashes' \in Nat /\ disturbed' \subseteq {"overlap", "crash"}
      BY DEF TypeOK
    <2> QED BY <2>1, <2>2 DEF TypeOK
  <1>2. Handlers'
    BY <1>0 DEF Handlers, Handling, Written, After
  <1>3. Changes'
    BY <1>0 DEF Changes, Written, After
  <1>4. Births'
    BY <1>0 DEF Births, Written, After
  <1>5. Process'
    BY <1>0 DEF Process, Open
  <1>6. Sole'
    BY <1>0 DEF Sole, Open, After
  <1>7. MutationsKept'
    BY <1>0 DEF MutationsKept
  <1>8. Jobs'
    BY <1>0 DEF Jobs
  <1>9. Directories'
    BY <1>0 DEF Directories, Built
  <1> QED BY <1>1, <1>2, <1>3, <1>4, <1>5, <1>6, <1>7, <1>8, <1>9

LEMMA NextInv == Inv /\ [Next]_vars => Inv'
PROOF
  <1> SUFFICES ASSUME Inv, [Next]_vars PROVE Inv'  OBVIOUS
  <1>1. CASE \E p \in Req, i \in Input : Create(p, i) \/ Find(p, i)
    BY <1>1, CreateStep, FindStep
  <1>2. CASE \E p \in Req, z \in Zone : SetZone(p, z)
    BY <1>2, SetZoneStep
  <1>3. CASE \E p \in Req : Read(p) \/ Write(p) \/ SetupBegins(p) \/ SetupEnds(p) \/ SetupFails(p)
    BY <1>3, ReadStep, WriteStep, SetupBeginsStep, SetupEndsStep, SetupFailsStep
  <1>4. CASE \E p \in Req : IOFails(p) \/ Cleanup(p) \/ Apply(p) \/ RescheduleAll(p)
    BY <1>4, IOFailsStep, CleanupStep, ApplyStep, RescheduleAllStep
  <1>5. CASE Start \/ Crash
    BY <1>5, StartStep, CrashStep
  <1>6. CASE UNCHANGED vars
    BY <1>6 DEF vars, reqVars, histVars, Inv, TypeOK, Handlers, Changes, Births, Process, Sole,
                MutationsKept, Jobs, Unsettled, Due, Directories, Built, Open
  <1> QED BY <1>1, <1>2, <1>3, <1>4, <1>5, <1>6 DEF Next

LEMMA InvHolds == Spec => []Inv
PROOF BY InitInv, NextInv, PTL DEF Spec

-----------------------------------------------------------------------------

\* Every step keeps the variables in their types: a task's row is whole in the
\* file and in each pending write, whatever the requests do to it.
THEOREM TypeCorrect == Spec => []TypeOK
PROOF
  <1>1. Inv => TypeOK  BY DEF Inv
  <1> QED BY <1>1, InvHolds, PTL

\* The whole-file writes of task-repo.ts lose no mutation and bring no deleted
\* task back unless requests overlapped; crashes do neither.
THEOREM MutationsAreKept == Spec => []MutationsKept
PROOF
  <1>1. Inv => MutationsKept  BY DEF Inv
  <1> QED BY <1>1, InvHolds, PTL

\* With no request open and none overlapped since the boot, each task has the
\* job that its row and the time zone call for, a failed request's task aside.
THEOREM JobsMatch == Spec => []JobsMatchFile
PROOF
  <1>1. Inv => JobsMatchFile
    BY DEF Inv, TypeOK, Jobs, Unsettled, Due, Handling, Written, After, JobsMatchFile, Quiet, Open
  <1> QED BY <1>1, InvHolds, PTL

\* Short of overlap, crashes and failures, the directory of each task is built
\* for its row, and a deleted task has none.
THEOREM EnvironmentsMatch == Spec => []EnvMatchesFile
PROOF
  <1>1. Inv => EnvMatchesFile
    BY DEF Inv, TypeOK, Directories, Built, EnvMatchesFile, Quiet, Open
  <1> QED BY <1>1, InvHolds, PTL
=============================================================================
