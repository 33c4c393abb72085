--------------------------- MODULE ExecutorProofs ---------------------------
(***************************************************************************)
(* Theorems about Executor, for any set of calls, tasks, faults and        *)
(* administrator's operations and any bound on the crashes.                *)
(***************************************************************************)
EXTENDS Executor, FiniteSetTheorems, TLAPS

(***************************************************************************)
(* Type correctness.                                                       *)
(***************************************************************************)

LEMMA InitType == Init => TypeOK
  BY DEF Init, TypeOK, Statuses, Locations, PastCheck, InFlight

LEMMA RunStepType ==
  ASSUME TypeOK, NEW r \in Run, Execute(r) \/ ChildExits(r) \/ RunStep(r)
  PROVE  TypeOK'
PROOF
  <1> USE TaskOfType, KeepCountsType DEF TypeOK, Statuses, Locations, PastCheck, InFlight,
      Goto, bootVars, fileVars, runVars, adminVars
  <1>1. CASE Execute(r)        BY <1>1 DEF Execute
  <1>2. CASE FindRunning(r)    BY <1>2 DEF FindRunning
  <1>3. CASE CreateSkipped(r)  BY <1>3 DEF CreateSkipped, CreateRow
  <1>4. CASE TrimSkipped(r)    BY <1>4 DEF TrimSkipped, TrimRows
  <1>5. CASE CreateRunning(r)  BY <1>5 DEF CreateRunning, CreateRow
  <1>6. CASE Spawn(r)          BY <1>6 DEF Spawn
  <1>7. CASE LoadFails(r)      BY <1>7 DEF LoadFails
  <1>8. CASE RecordFailure(r)  BY <1>8 DEF RecordFailure, UpdateRow
  <1>9. CASE TrimFailure(r)    BY <1>9 DEF TrimFailure, TrimRows
  <1>10. CASE OnError(r)       BY <1>10 DEF OnError, UpdateRow, Resolve
  <1>11. CASE ChildExits(r)    BY <1>11 DEF ChildExits
  <1>12. CASE OnClose(r)       BY <1>12 DEF OnClose, UpdateRow
  <1>13. CASE TrimClosed(r)    BY <1>13 DEF TrimClosed, TrimRows, Resolve
  <1>14. CASE StoreRejects(r)  BY <1>14 DEF StoreRejects, OnReject, Resolve
  <1> QED BY <1>1, <1>2, <1>3, <1>4, <1>5, <1>6, <1>7, <1>8, <1>9, <1>10, <1>11, <1>12,
             <1>13, <1>14 DEF RunStep

LEMMA AdminStepType ==
  ASSUME TypeOK, NEW t \in Task,
         DeleteTask(t) \/ AdminStep(t) \/ \E op \in {"clear", "reset"} : Call(t, op)
  PROVE  TypeOK'
PROOF
  <1> USE DEF TypeOK, Statuses, Locations, PastCheck, InFlight,
      bootVars, fileVars, runVars, adminVars
  <1>1. CASE DeleteTask(t)                          BY <1>1 DEF DeleteTask
  <1>2. CASE \E op \in {"clear", "reset"} : Call(t, op)  BY <1>2 DEF Call
  <1>3. CASE ClearByTaskId(t)                       BY <1>3 DEF ClearByTaskId, TrimRows
  <1>4. CASE ReadStuck(t)                           BY <1>4 DEF ReadStuck, RunningRows
  <1>5. CASE \E r \in Run : ResetRow(t, r)          BY <1>5 DEF ResetRow, UpdateRow
  <1>6. CASE AdminRejects(t)                        BY <1>6 DEF AdminRejects
  <1> QED BY <1>1, <1>2, <1>3, <1>4, <1>5, <1>6 DEF AdminStep

LEMMA ProcessStepType ==
  ASSUME TypeOK, BootStep \/ Crash
  PROVE  TypeOK'
PROOF
  <1> USE MaxCrashesType DEF TypeOK, Statuses, Locations, PastCheck, InFlight,
      bootVars, fileVars, runVars, adminVars
  <1>1. CASE Boot                          BY <1>1 DEF Boot, RunningRows
  <1>2. CASE \E r \in Run : Reconcile(r)   BY <1>2 DEF Reconcile, UpdateRow
  <1>3. CASE Serve                         BY <1>3 DEF Serve
  <1>4. CASE Crash                         BY <1>4 DEF Crash
  <1> QED BY <1>1, <1>2, <1>3, <1>4 DEF BootStep

\* Every step keeps the variables in their types, for every instance.
THEOREM TypeCorrect == Spec => []TypeOK
PROOF
  <1>1. Init => TypeOK  BY InitType
  <1>2. TypeOK /\ [Next]_vars => TypeOK'
    <2> SUFFICES ASSUME TypeOK, [Next]_vars PROVE TypeOK'  OBVIOUS
    <2>1. CASE Next
      BY <2>1, RunStepType, AdminStepType, ProcessStepType DEF Next
    <2>2. CASE UNCHANGED vars
      BY <2>2 DEF vars, bootVars, fileVars, runVars, adminVars, TypeOK
    <2> QED BY <2>1, <2>2
  <1> QED BY <1>1, <1>2, PTL DEF Spec

(***************************************************************************)
(* The re-entrancy check.                                                  *)
(***************************************************************************)

\* OverlapExplained is not inductive: it speaks of two children that live at
\* the same time.  What a call carries from its check onwards is that no row
\* of the task older than the check says running any more.
CheckInv ==
    /\ \A r \in Run : startedAt[r] <= clock /\ seenAt[r] <= clock
    /\ \A r \in Run : status[r] = "running" => startedAt[r] # 0
    /\ \A q, r \in Run :
        /\ SameTask(q, r)
        /\ pc[r] \in PastCheck
        /\ startedAt[q] <= seenAt[r]
        => status[q] # "running"

LEMMA RunStepCheck ==
  ASSUME TypeOK, CheckInv, NEW p \in Run, Execute(p) \/ ChildExits(p) \/ RunStep(p)
  PROVE  CheckInv'
PROOF
  <1> USE TaskOfType DEF CheckInv, TypeOK, SameTask, PastCheck, InFlight, Goto,
      bootVars, fileVars, runVars, adminVars
  <1>1. CASE Execute(p)        BY <1>1 DEF Execute
  <1>2. CASE FindRunning(p)
    <2>1. ASSUME NEW q \in Run, SameTask(q, p), status[q] = "running"
          PROVE  pc'[p] \notin PastCheck
      BY <1>2, <2>1 DEF FindRunning, RunningRows, Rows
    <2> QED BY <1>2, <2>1 DEF FindRunning
  <1>3. CASE CreateSkipped(p)  BY <1>3 DEF CreateSkipped, CreateRow
  <1>4. CASE TrimSkipped(p)    BY <1>4 DEF TrimSkipped, TrimRows
  <1>5. CASE CreateRunning(p)  BY <1>5 DEF CreateRunning, CreateRow
  <1>6. CASE Spawn(p)          BY <1>6 DEF Spawn
  <1>7. CASE LoadFails(p)      BY <1>7 DEF LoadFails
  <1>8. CASE RecordFailure(p)  BY <1>8 DEF RecordFailure, UpdateRow
  <1>9. CASE TrimFailure(p)    BY <1>9 DEF TrimFailure, TrimRows
  <1>10. CASE OnError(p)       BY <1>10 DEF OnError, UpdateRow
  <1>11. CASE ChildExits(p)    BY <1>11 DEF ChildExits
  <1>12. CASE OnClose(p)       BY <1>12 DEF OnClose, UpdateRow
  <1>13. CASE TrimClosed(p)    BY <1>13 DEF TrimClosed, TrimRows
  <1>14. CASE StoreRejects(p)  BY <1>14 DEF StoreRejects, OnReject
  <1> QED BY <1>1, <1>2, <1>3, <1>4, <1>5, <1>6, <1>7, <1>8, <1>9, <1>10, <1>11, <1>12,
             <1>13, <1>14 DEF RunStep

LEMMA OtherStepCheck ==
  ASSUME TypeOK, CheckInv,
         \/ \E t \in Task : DeleteTask(t) \/ AdminStep(t) \/ \E op \in {"clear", "reset"} : Call(t, op)
         \/ BootStep \/ Crash
  PROVE  CheckInv'
PROOF
  <1> USE TaskOfType DEF CheckInv, TypeOK, SameTask, PastCheck, InFlight,
      bootVars, fileVars, runVars, adminVars
  <1>1. CASE \E t \in Task : DeleteTask(t)  BY <1>1 DEF DeleteTask
  <1>2. CASE \E t \in Task, op \in {"clear", "reset"} : Call(t, op)  BY <1>2 DEF Call
  <1>3. CASE \E t \in Task : ClearByTaskId(t)  BY <1>3 DEF ClearByTaskId, TrimRows
  <1>4. CASE \E t \in Task : ReadStuck(t)  BY <1>4 DEF ReadStuck
  <1>5. CASE \E t \in Task, r \in Run : ResetRow(t, r)  BY <1>5 DEF ResetRow, UpdateRow
  <1>6. CASE Boot  BY <1>6 DEF Boot
  <1>7. CASE \E r \in Run : Reconcile(r)  BY <1>7 DEF Reconcile, UpdateRow
  <1>8. CASE Serve  BY <1>8 DEF Serve
  <1>9. CASE Crash  BY <1>9 DEF Crash
  <1>10. CASE \E t \in Task : AdminRejects(t)  BY <1>10 DEF AdminRejects
  <1> QED BY <1>1, <1>2, <1>3, <1>4, <1>5, <1>6, <1>7, <1>8, <1>9, <1>10 DEF AdminStep, BootStep

\* Two children of one task live together only because of the window between
\* the check and the creation of the row, or because a row was taken away.
THEOREM OverlapsExplained == Spec => []OverlapExplained
PROOF
  <1>1. Init => CheckInv
    BY DEF Init, CheckInv, PastCheck, InFlight
  <1>2. TypeOK /\ CheckInv /\ [Next]_vars => CheckInv'
    <2> SUFFICES ASSUME TypeOK, CheckInv, [Next]_vars PROVE CheckInv'  OBVIOUS
    <2>1. CASE Next
      BY <2>1, RunStepCheck, OtherStepCheck DEF Next
    <2>2. CASE UNCHANGED vars
      BY <2>2 DEF vars, fileVars, runVars, CheckInv, SameTask, PastCheck, InFlight
    <2> QED BY <2>1, <2>2
  <1>3. TypeOK /\ CheckInv => OverlapExplained
    BY DEF TypeOK, CheckInv, OverlapExplained, PastCheck, InFlight
  <1> QED BY <1>1, <1>2, <1>3, TypeCorrect, PTL DEF Spec

(***************************************************************************)
(* The rows and the process that owns them.                                *)
(***************************************************************************)

\* Outside "up" nothing but the boot runs; before the scheduler serves, every
\* row that says running is one the boot has yet to mark.
BootInv ==
    /\ phase # "up" =>
        /\ \A r \in Run : pc[r] \in {"idle", "done", "rejected", "dead"}
        /\ \A t \in Task : admin[t] = "idle"
    /\ phase = "reconciling" => orphans = RunningRows
    /\ phase # "reconciling" => orphans = {}
    /\ \A t \in Task : admin[t] # "resetting" => stuck[t] = {}
    /\ NoPhantomRun

LEMMA RunStepBoot ==
  ASSUME TypeOK, BootInv, NEW p \in Run, Execute(p) \/ ChildExits(p) \/ RunStep(p)
  PROVE  BootInv'
PROOF
  <1> USE TaskOfType DEF BootInv, NoPhantomRun, RunningRows, TypeOK, InFlight, Goto,
      bootVars, fileVars, runVars, adminVars
  <1>1. CASE Execute(p)        BY <1>1 DEF Execute
  <1>2. CASE FindRunning(p)    BY <1>2 DEF FindRunning
  <1>3. CASE CreateSkipped(p)  BY <1>3 DEF CreateSkipped, CreateRow
  <1>4. CASE TrimSkipped(p)    BY <1>4 DEF TrimSkipped, TrimRows
  <1>5. CASE CreateRunning(p)  BY <1>5 DEF CreateRunning, CreateRow
  <1>6. CASE Spawn(p)          BY <1>6 DEF Spawn
  <1>7. CASE LoadFails(p)      BY <1>7 DEF LoadFails
  <1>8. CASE RecordFailure(p)  BY <1>8 DEF RecordFailure, UpdateRow
  <1>9. CASE TrimFailure(p)    BY <1>9 DEF TrimFailure, TrimRows
  <1>10. CASE OnError(p)       BY <1>10 DEF OnError, UpdateRow
  <1>11. CASE ChildExits(p)    BY <1>11 DEF ChildExits
  <1>12. CASE OnClose(p)       BY <1>12 DEF OnClose, UpdateRow
  <1>13. CASE TrimClosed(p)    BY <1>13 DEF TrimClosed, TrimRows
  <1>14. CASE StoreRejects(p)  BY <1>14 DEF StoreRejects, OnReject
  <1> QED BY <1>1, <1>2, <1>3, <1>4, <1>5, <1>6, <1>7, <1>8, <1>9, <1>10, <1>11, <1>12,
             <1>13, <1>14 DEF RunStep

LEMMA OtherStepBoot ==
  ASSUME TypeOK, BootInv,
         \/ \E t \in Task : DeleteTask(t) \/ AdminStep(t) \/ \E op \in {"clear", "reset"} : Call(t, op)
         \/ BootStep \/ Crash
  PROVE  BootInv'
PROOF
  <1> USE DEF BootInv, NoPhantomRun, RunningRows, TypeOK, InFlight,
      bootVars, fileVars, runVars, adminVars
  <1>1. CASE \E t \in Task : DeleteTask(t)  BY <1>1 DEF DeleteTask
  <1>2. CASE \E t \in Task, op \in {"clear", "reset"} : Call(t, op)  BY <1>2 DEF Call
  <1>3. CASE \E t \in Task : ClearByTaskId(t)  BY <1>3 DEF ClearByTaskId, TrimRows
  <1>4. CASE \E t \in Task : ReadStuck(t)  BY <1>4 DEF ReadStuck
  <1>5. CASE \E t \in Task, r \in Run : ResetRow(t, r)  BY <1>5 DEF ResetRow, UpdateRow
  <1>6. CASE Boot  BY <1>6 DEF Boot
  <1>7. CASE \E r \in Run : Reconcile(r)  BY <1>7 DEF Reconcile, UpdateRow
  <1>8. CASE Serve  BY <1>8 DEF Serve
  <1>9. CASE Crash  BY <1>9 DEF Crash
  <1>10. CASE \E t \in Task : AdminRejects(t)  BY <1>10 DEF AdminRejects
  <1> QED BY <1>1, <1>2, <1>3, <1>4, <1>5, <1>6, <1>7, <1>8, <1>9, <1>10 DEF AdminStep, BootStep

LEMMA BootInvHolds == Spec => []BootInv
PROOF
  <1>1. Init => BootInv
    BY DEF Init, BootInv, NoPhantomRun
  <1>2. TypeOK /\ BootInv /\ [Next]_vars => BootInv'
    <2> SUFFICES ASSUME TypeOK, BootInv, [Next]_vars PROVE BootInv'  OBVIOUS
    <2>1. CASE Next
      BY <2>1, RunStepBoot, OtherStepBoot DEF Next
    <2>2. CASE UNCHANGED vars
      BY <2>2 DEF vars, bootVars, fileVars, runVars, adminVars, BootInv, NoPhantomRun, RunningRows
    <2> QED BY <2>1, <2>2
  <1> QED BY <1>1, <1>2, TypeCorrect, PTL DEF Spec

\* While the scheduler serves, a running row has a run of this boot behind it.
THEOREM NoPhantomRuns == Spec => []NoPhantomRun
PROOF
  <1>1. BootInv => NoPhantomRun  BY DEF BootInv
  <1> QED BY <1>1, BootInvHolds, PTL

\* Where the call that owns a row stands, for each thing the row may say.  It
\* is what keeps an update from landing on a row it must not change: nothing
\* still holds the id of a skipped row, and only a run whose spawn failed
\* finds its own verdict in the row when it closes.
RowInv ==
    /\ \A r \in Run : pc[r] \in {"idle", "findRunning", "create", "createSkipped"} => startedAt[r] = 0
    /\ \A r \in Run : startedAt[r] = 0 => status[r] = "absent"
    /\ \A r \in Run : status[r] = "skipped" =>
        /\ pc[r] \in {"trimSkipped", "done", "rejected", "dead"}
        /\ \A t \in Task : r \notin stuck[t]
    /\ \A r \in Run, t \in Task : r \in stuck[t] => startedAt[r] # 0
    /\ \A r \in Run : pc[r] \in {"load", "live", "spawnError", "recordFailure"} =>
        status[r] \in {"absent", "running", "interrupted"}
    /\ \A r \in Run : pc[r] = "closed" =>
        /\ exit[r] # "none"
        /\ \/ status[r] \in {"absent", "running", "interrupted"}
           \/ status[r] = "failed" /\ exit[r] = "spawn"

LEMMA RunStepRow ==
  ASSUME TypeOK, BootInv, RowInv, NEW p \in Run, Execute(p) \/ ChildExits(p) \/ RunStep(p)
  PROVE  RowInv'
PROOF
  <1> USE DEF RowInv, BootInv, TypeOK, RunningRows, InFlight, Goto,
      bootVars, fileVars, runVars, adminVars
  <1>1. CASE Execute(p)         BY <1>1 DEF Execute
  <1>2. CASE FindRunning(p)     BY <1>2 DEF FindRunning
  <1>3. CASE CreateSkipped(p)   BY <1>3 DEF CreateSkipped, CreateRow
  <1>4. CASE TrimSkipped(p)     BY <1>4 DEF TrimSkipped, TrimRows
  <1>5. CASE CreateRunning(p)   BY <1>5 DEF CreateRunning, CreateRow
  <1>6. CASE Spawn(p)           BY <1>6 DEF Spawn
  <1>7. CASE LoadFails(p)       BY <1>7 DEF LoadFails
  <1>8. CASE RecordFailure(p)   BY <1>8 DEF RecordFailure, UpdateRow
  <1>9. CASE TrimFailure(p)     BY <1>9 DEF TrimFailure, TrimRows
  <1>10. CASE OnError(p)        BY <1>10 DEF OnError, UpdateRow, Resolve
  <1>11. CASE ChildExits(p)     BY <1>11 DEF ChildExits
  <1>12. CASE OnClose(p)        BY <1>12 DEF OnClose, UpdateRow
  <1>13. CASE TrimClosed(p)     BY <1>13 DEF TrimClosed, TrimRows, Resolve
  <1>14. CASE StoreRejects(p)   BY <1>14 DEF StoreRejects, OnReject, Resolve
  <1> QED BY <1>1, <1>2, <1>3, <1>4, <1>5, <1>6, <1>7, <1>8, <1>9, <1>10, <1>11, <1>12,
             <1>13, <1>14 DEF RunStep

LEMMA OtherStepRow ==
  ASSUME TypeOK, BootInv, RowInv,
         \/ \E t \in Task : DeleteTask(t) \/ AdminStep(t) \/ \E op \in {"clear", "reset"} : Call(t, op)
         \/ BootStep \/ Crash
  PROVE  RowInv'
PROOF
  <1> USE DEF RowInv, BootInv, TypeOK, RunningRows, InFlight, Goto,
      bootVars, fileVars, runVars, adminVars
  <1>1. CASE \E t \in Task : DeleteTask(t)  BY <1>1 DEF DeleteTask
  <1>2. CASE \E t \in Task, op \in {"clear", "reset"} : Call(t, op)  BY <1>2 DEF Call
  <1>3. CASE \E t \in Task : ClearByTaskId(t)  BY <1>3 DEF ClearByTaskId, TrimRows
  <1>4. CASE \E t \in Task : ReadStuck(t)  BY <1>4 DEF ReadStuck, Rows
  <1>5. CASE \E t \in Task, r \in Run : ResetRow(t, r)  BY <1>5 DEF ResetRow, UpdateRow
  <1>6. CASE Boot  BY <1>6 DEF Boot
  <1>7. CASE \E r \in Run : Reconcile(r)  BY <1>7 DEF Reconcile, UpdateRow
  <1>8. CASE Serve  BY <1>8 DEF Serve
  <1>9. CASE Crash  BY <1>9 DEF Crash
  <1>10. CASE \E t \in Task : AdminRejects(t)  BY <1>10 DEF AdminRejects
  <1> QED BY <1>1, <1>2, <1>3, <1>4, <1>5, <1>6, <1>7, <1>8, <1>9, <1>10 DEF AdminStep, BootStep

LEMMA RowInvHolds == Spec => []RowInv
PROOF
  <1>1. Init => RowInv
    BY DEF Init, RowInv
  <1>2. TypeOK /\ BootInv /\ RowInv /\ [Next]_vars => RowInv'
    <2> SUFFICES ASSUME TypeOK, BootInv, RowInv, [Next]_vars PROVE RowInv'  OBVIOUS
    <2>1. CASE Next
      BY <2>1, RunStepRow, OtherStepRow DEF Next
    <2>2. CASE UNCHANGED vars
      BY <2>2 DEF vars, fileVars, runVars, adminVars, RowInv
    <2> QED BY <2>1, <2>2
  <1> QED BY <1>1, <1>2, TypeCorrect, BootInvHolds, PTL DEF Spec

\* The step of RowLifecycle, for one row.
RowStep(r) == status'[r] # status[r] =>
    CASE status[r] = "absent"      -> startedAt[r] = 0 /\ status'[r] \in {"running", "skipped"}
      [] status[r] = "running"     -> status'[r] \in {"absent", "success", "failed", "interrupted"}
      [] status[r] = "interrupted" -> status'[r] \in {"absent", "success", "failed"}
      [] status[r] = "success"     -> status'[r] \in {"absent", "interrupted"}
      [] status[r] = "failed"      -> status'[r] \in {"absent", "interrupted"}
      [] OTHER                     -> status'[r] = "absent"

LEMMA RunStepLifecycle ==
  ASSUME TypeOK, BootInv, RowInv, NEW r \in Run, NEW p \in Run, Execute(p) \/ ChildExits(p) \/ RunStep(p)
  PROVE  RowStep(r)
PROOF
  <1> USE DEF RowStep, RowInv, BootInv, TypeOK, Statuses, RunningRows, Goto,
      bootVars, fileVars, runVars, adminVars
  <1>1. CASE Execute(p)         BY <1>1 DEF Execute
  <1>2. CASE FindRunning(p)     BY <1>2 DEF FindRunning
  <1>3. CASE CreateSkipped(p)   BY <1>3 DEF CreateSkipped, CreateRow
  <1>4. CASE TrimSkipped(p)     BY <1>4 DEF TrimSkipped, TrimRows
  <1>5. CASE CreateRunning(p)   BY <1>5 DEF CreateRunning, CreateRow
  <1>6. CASE Spawn(p)           BY <1>6 DEF Spawn
  <1>7. CASE LoadFails(p)       BY <1>7 DEF LoadFails
  <1>8. CASE RecordFailure(p)   BY <1>8 DEF RecordFailure, UpdateRow
  <1>9. CASE TrimFailure(p)     BY <1>9 DEF TrimFailure, TrimRows
  <1>10. CASE OnError(p)        BY <1>10 DEF OnError, UpdateRow, Resolve
  <1>11. CASE ChildExits(p)     BY <1>11 DEF ChildExits
  <1>12. CASE OnClose(p)        BY <1>12 DEF OnClose, UpdateRow
  <1>13. CASE TrimClosed(p)     BY <1>13 DEF TrimClosed, TrimRows, Resolve
  <1>14. CASE StoreRejects(p)   BY <1>14 DEF StoreRejects, OnReject, Resolve
  <1> QED BY <1>1, <1>2, <1>3, <1>4, <1>5, <1>6, <1>7, <1>8, <1>9, <1>10, <1>11, <1>12,
             <1>13, <1>14 DEF RunStep

LEMMA OtherStepLifecycle ==
  ASSUME TypeOK, BootInv, RowInv, NEW q \in Run,
         \/ \E t \in Task : DeleteTask(t) \/ AdminStep(t) \/ \E op \in {"clear", "reset"} : Call(t, op)
         \/ BootStep \/ Crash
  PROVE  RowStep(q)
PROOF
  <1> USE DEF RowStep, RowInv, BootInv, TypeOK, Statuses, RunningRows, Goto,
      bootVars, fileVars, runVars, adminVars
  <1>1. CASE \E t \in Task : DeleteTask(t)  BY <1>1 DEF DeleteTask
  <1>2. CASE \E t \in Task, op \in {"clear", "reset"} : Call(t, op)  BY <1>2 DEF Call
  <1>3. CASE \E t \in Task : ClearByTaskId(t)  BY <1>3 DEF ClearByTaskId, TrimRows
  <1>4. CASE \E t \in Task : ReadStuck(t)  BY <1>4 DEF ReadStuck
  <1>5. CASE \E t \in Task, r \in Run : ResetRow(t, r)  BY <1>5 DEF ResetRow, UpdateRow
  <1>6. CASE Boot  BY <1>6 DEF Boot
  <1>7. CASE \E r \in Run : Reconcile(r)  BY <1>7 DEF Reconcile, UpdateRow
  <1>8. CASE Serve  BY <1>8 DEF Serve
  <1>9. CASE Crash  BY <1>9 DEF Crash
  <1>10. CASE \E t \in Task : AdminRejects(t)  BY <1>10 DEF AdminRejects
  <1> QED BY <1>1, <1>2, <1>3, <1>4, <1>5, <1>6, <1>7, <1>8, <1>9, <1>10 DEF AdminStep, BootStep

\* What a row may become, whatever the interleaving of runs, trims, resets,
\* crashes and boots.
THEOREM RowsFollowLifecycle == Spec => RowLifecycle
PROOF
  <1>1. TypeOK /\ BootInv /\ RowInv /\ [Next]_vars => [\A r \in Run : RowStep(r)]_vars
    BY RunStepLifecycle, OtherStepLifecycle DEF Next
  <1> QED BY <1>1, TypeCorrect, BootInvHolds, RowInvHolds, PTL DEF Spec, RowLifecycle, RowStep

(***************************************************************************)
(* The lifecycle notification.                                             *)
(***************************************************************************)

\* A run has no exit code before its child has ended and no notice before it
\* was recorded, except that a failed spawn is notified by its first listener.
NoticeInv ==
    /\ \A r \in Run : pc[r] \in {"idle", "findRunning", "create", "createSkipped", "load",
                                 "live", "spawnError"} =>
        exit[r] = "none" /\ notice[r] = "none"
    /\ \A r \in Run : pc[r] = "closed" =>
        exit[r] # "none" /\ (notice[r] = "none" \/ exit[r] = "spawn")
    /\ \A r \in Run : pc[r] = "trim" => exit[r] # "none" /\ status[r] # "running"
    /\ NoticeFollowsRecord

LEMMA RunStepNotice ==
  ASSUME TypeOK, NoticeInv, NEW p \in Run, Execute(p) \/ ChildExits(p) \/ RunStep(p)
  PROVE  NoticeInv'
PROOF
  <1> USE DEF NoticeInv, NoticeFollowsRecord, TypeOK, Goto,
      bootVars, fileVars, runVars, adminVars
  <1>1. CASE Execute(p)         BY <1>1 DEF Execute
  <1>2. CASE FindRunning(p)     BY <1>2 DEF FindRunning
  <1>3. CASE CreateSkipped(p)   BY <1>3 DEF CreateSkipped, CreateRow
  <1>4. CASE TrimSkipped(p)     BY <1>4 DEF TrimSkipped, TrimRows
  <1>5. CASE CreateRunning(p)   BY <1>5 DEF CreateRunning, CreateRow
  <1>6. CASE Spawn(p)           BY <1>6 DEF Spawn
  <1>7. CASE LoadFails(p)       BY <1>7 DEF LoadFails
  <1>8. CASE RecordFailure(p)   BY <1>8 DEF RecordFailure, UpdateRow
  <1>9. CASE TrimFailure(p)     BY <1>9 DEF TrimFailure, TrimRows
  <1>10. CASE OnError(p)        BY <1>10 DEF OnError, UpdateRow, Resolve
  <1>11. CASE ChildExits(p)     BY <1>11 DEF ChildExits
  <1>12. CASE OnClose(p)        BY <1>12 DEF OnClose, UpdateRow
  <1>13. CASE TrimClosed(p)     BY <1>13 DEF TrimClosed, TrimRows, Resolve
  <1>14. CASE StoreRejects(p)   BY <1>14 DEF StoreRejects, OnReject, Resolve
  <1> QED BY <1>1, <1>2, <1>3, <1>4, <1>5, <1>6, <1>7, <1>8, <1>9, <1>10, <1>11, <1>12,
             <1>13, <1>14 DEF RunStep

LEMMA OtherStepNotice ==
  ASSUME TypeOK, NoticeInv,
         \/ \E t \in Task : DeleteTask(t) \/ AdminStep(t) \/ \E op \in {"clear", "reset"} : Call(t, op)
         \/ BootStep \/ Crash
  PROVE  NoticeInv'
PROOF
  <1> USE DEF NoticeInv, NoticeFollowsRecord, TypeOK, Goto,
      bootVars, fileVars, runVars, adminVars
  <1>1. CASE \E t \in Task : DeleteTask(t)  BY <1>1 DEF DeleteTask
  <1>2. CASE \E t \in Task, op \in {"clear", "reset"} : Call(t, op)  BY <1>2 DEF Call
  <1>3. CASE \E t \in Task : ClearByTaskId(t)  BY <1>3 DEF ClearByTaskId, TrimRows
  <1>4. CASE \E t \in Task : ReadStuck(t)  BY <1>4 DEF ReadStuck
  <1>5. CASE \E t \in Task, r \in Run : ResetRow(t, r)  BY <1>5 DEF ResetRow, UpdateRow
  <1>6. CASE Boot  BY <1>6 DEF Boot
  <1>7. CASE \E r \in Run : Reconcile(r)  BY <1>7 DEF Reconcile, UpdateRow
  <1>8. CASE Serve  BY <1>8 DEF Serve
  <1>9. CASE Crash  BY <1>9 DEF Crash
  <1>10. CASE \E t \in Task : AdminRejects(t)  BY <1>10 DEF AdminRejects
  <1> QED BY <1>1, <1>2, <1>3, <1>4, <1>5, <1>6, <1>7, <1>8, <1>9, <1>10 DEF AdminStep, BootStep

\* Nobody is told of the end of a run that its row still calls running, but
\* for the two cases the code has.
THEOREM NoticesFollowRecords == Spec => []NoticeFollowsRecord
PROOF
  <1>1. Init => NoticeInv
    BY DEF Init, NoticeInv, NoticeFollowsRecord
  <1>2. TypeOK /\ NoticeInv /\ [Next]_vars => NoticeInv'
    <2> SUFFICES ASSUME TypeOK, NoticeInv, [Next]_vars PROVE NoticeInv'  OBVIOUS
    <2>1. CASE Next
      BY <2>1, RunStepNotice, OtherStepNotice DEF Next
    <2>2. CASE UNCHANGED vars
      BY <2>2 DEF vars, fileVars, runVars, NoticeInv, NoticeFollowsRecord
    <2> QED BY <2>1, <2>2
  <1>3. NoticeInv => NoticeFollowsRecord  BY DEF NoticeInv
  <1> QED BY <1>1, <1>2, <1>3, TypeCorrect, PTL DEF Spec

(***************************************************************************)
(* The trim.                                                               *)
(***************************************************************************)

\* A trim that keeps at least one row keeps the newest one.
LEMMA NewestIsKept ==
  ASSUME NEW S \in SUBSET Run, NEW k \in Nat \ {0}
  PROVE  Newest(S, 1) \subseteq Newest(S, k)
PROOF
  <1> SUFFICES ASSUME NEW r \in S, Cardinality({q \in S : startedAt[q] > startedAt[r]}) < 1
               PROVE  Cardinality({q \in S : startedAt[q] > startedAt[r]}) < k
    BY DEF Newest
  <1> DEFINE Later == {q \in S : startedAt[q] > startedAt[r]}
  <1>1. IsFiniteSet(Later)
    <2>1. Later \subseteq Run  OBVIOUS
    <2> QED BY <2>1, RunFinite, FS_Subset
  <1>2. Cardinality(Later) \in Nat  BY <1>1, FS_CardinalityType
  <1> QED BY <1>2

\* Whatever maxHistoryItems is, and whoever trims, the newest row of a task
\* leaves the file only when the history is cleared.
THEOREM NewestStays == Spec => NewestRowStays
PROOF
  <1> DEFINE Kept(t) == Newest(Rows(t), 1) # {} /\ ~(admin[t] = "clear" /\ admin'[t] = "idle")
                          => \E r \in Newest(Rows(t), 1) : status'[r] # "absent"
  <1>1. ASSUME NEW t \in Task, NEW s \in Task, NEW k \in KeepCounts, TypeOK, TrimRows(s, k)
        PROVE  \A r \in Newest(Rows(t), 1) : status'[r] # "absent"
    <2> SUFFICES ASSUME NEW r \in Newest(Rows(t), 1) PROVE status'[r] # "absent"  OBVIOUS
    <2>1. r \in Run /\ TaskOf[r] = t /\ status[r] # "absent"  BY DEF Newest, Rows
    <2>2. Newest(Rows(t), 1) \subseteq Newest(Rows(t), k)
      BY NewestIsKept, KeepCountsType DEF Rows
    <2>3. r \notin Rows(s) \ Newest(Rows(s), k)  BY <2>1, <2>2 DEF Rows
    <2> QED BY <1>1, <2>1, <2>3 DEF TrimRows
  <1>2. TypeOK /\ [Next]_vars => [\A t \in Task : Kept(t)]_vars
    <2> SUFFICES ASSUME TypeOK, Next, NEW t \in Task PROVE Kept(t)  OBVIOUS
    <2> USE DEF bootVars, fileVars, runVars, adminVars, TypeOK
    <2>0. \A r \in Newest(Rows(t), 1) : r \in Run /\ TaskOf[r] = t /\ status[r] # "absent"
      BY DEF Newest, Rows
    <2>1. CASE \E r \in Run : TrimSkipped(r) \/ TrimFailure(r) \/ TrimClosed(r)
      BY <2>1, <1>1, TaskOfType DEF TrimSkipped, TrimFailure, TrimClosed
    <2>2. CASE \E r \in Run : CreateSkipped(r) \/ CreateRunning(r)
      BY <2>0, <2>2 DEF CreateSkipped, CreateRunning, CreateRow
    <2>3. CASE \E r \in Run : RecordFailure(r) \/ OnError(r) \/ OnClose(r) \/ Reconcile(r)
      <3>1. PICK r \in Run, v \in {"failed", "success", "interrupted"} :
              status' = [status EXCEPT ![r] = v]
        BY <2>3 DEF RecordFailure, OnError, OnClose, Reconcile, UpdateRow
      <3> QED BY <2>0, <3>1
    <2>4. CASE \E s \in Task, r \in Run : ResetRow(s, r)
      <3>1. PICK r \in Run : status' = [status EXCEPT ![r] = "interrupted"] \/ status' = status
        BY <2>4 DEF ResetRow, UpdateRow
      <3> QED BY <2>0, <3>1
    <2>5. CASE \E s \in Task : ClearByTaskId(s)
      <3>1. PICK s \in Task : ClearByTaskId(s)  BY <2>5
      <3>2. CASE s = t
        BY <3>1, <3>2 DEF ClearByTaskId
      <3>3. CASE s # t
        <4>1. \A r \in Run : TaskOf[r] = t => status'[r] = status[r]
          BY <3>1, <3>3 DEF ClearByTaskId, TrimRows, Rows
        <4> QED BY <2>0, <4>1
      <3> QED BY <3>2, <3>3
    <2>6. CASE UNCHANGED status
      BY <2>0, <2>6
    <2> QED
      BY <2>1, <2>2, <2>3, <2>4, <2>5, <2>6
      DEF Next, RunStep, AdminStep, BootStep, Execute, FindRunning, Spawn, LoadFails, ChildExits,
          StoreRejects, DeleteTask, Call, ReadStuck, AdminRejects, Boot, Serve, Crash
  <1> QED BY <1>2, TypeCorrect, PTL DEF Spec, NewestRowStays
=============================================================================
