# Cronulent in TLA+

Specifications of cronulent, the self-hosted cron task manager in this
repository: what the scheduler does when fires, requests, restarts, power
losses and failing I/O meet, checked with TLC on small instances and, for the
core, proved with TLAPS for every instance.

## 1. The system

Two processes: the **scheduler** (`apps/scheduler`), one Node process in a
container, and the **web app** (`apps/web`, Next.js), which authenticates a
user or an API key and forwards each request to the scheduler's tRPC router
(`packages/common/src/router`). Scripts run as children of the scheduler and
call back into it for plugins. All data are JSON5 files in one directory.

| Component | State it keeps | Operations | Talks to |
|---|---|---|---|
| Task executor (`executor.ts`) | promises and children in memory | `execute`, `runProcess`, the `close` and `error` listeners, lifecycle notification | both repositories, environment manager, plugins |
| Execution repository (`execution-repo.ts`) | `executions.json5` | `create`, `update`, `trimByTaskId`, reads | serializer, atomic write |
| Serializer, atomic write (`serialize.ts`, `atomic-write.ts`) | promise chain, temporary files | queue an operation; open, write, fsync, rename | file system |
| Task repository (`task-repo.ts`) | `tasks.json5` | `create`, `update`, `delete`, reads, *no serializer* | atomic write |
| Cron jobs (`scheduler.ts`) | the `jobs` map | `start`, `stop`, `scheduleTask`, `unscheduleTask`, `triggerNow` | executor, time zone |
| Environment manager | `scripts/<id>/` | `setup`, `cleanup` | uv, volta |
| Routers (tasks, executions, system, plugins) | none | one handler per call, concurrent between awaits | all of the above |
| Boot (`index.ts`, `reconcile.ts`) | none | reconcile, start, serve | execution repository, jobs |
| State store (`state-store.ts`) | `state.json5` | `get`, `set`, `clear` | serializer |
| Gemini plugin (`plugins/gemini.ts`) | daily count in the state store | `dispatch`, `reserveCall` | Gemini over HTTP |
| State plugin (`plugins/state.ts`) and the helpers scripts import | none | `get`, `set`, `update`, `clear` over HTTP, with time-outs | state store |
| Configuration, authentication (`config.ts`, `auth.ts`) | `config.json5` and a copy in memory, *no serializer* | `initialize`, `updateSettings`, plugin settings; sign and verify tokens | atomic write |
| API keys (`web/src/lib/api-keys.ts`) | `api-keys.json` | create, regenerate, revoke in a queue; verify outside of it | its own serializer; the admin API's proxy |
| Schedule timeline (`web/src/lib/schedule.ts`) | none | computation of runs and collisions | cron-parser |
| Web sessions, pages and server actions | session cookie; each tab its form | redirects, sign-in and sign-out, forms, polling of a triggered run | routers |

What is hard, and the properties that make each component correct:

* **Executor**: the check for a running instance and the creation of the row
  are two awaits apart; trimming, clearing and resetting touch rows of runs in
  flight; a child may fail to start in three ways; the process may die
  anywhere. Correct means: overlaps only for the known reason, no row that
  says running for ever, no notification before the record, no row revived.
* **Stores**: queued read-modify-writes, failing I/O, power loss. Correct
  means: mutations are atomic and in call order, the file is always whole.
* **Tasks, jobs, environments**: three pieces of state changed by one handler
  with awaits between, and no serializer. Correct means: after any sequence of
  requests they agree with each other, also after failures and restarts.
* **Configuration and sessions**: updates spread the memory they read into the
  file and then into memory, with no queue; the secret that signs sessions is
  in it; every tab shares one cookie, which any of them may clear. Correct
  means: memory and file agree, no update is lost short of overlap, a session
  outlives everything but its day, no page is redirected for ever.
* **Saved state**: `update` is two requests of a script, a client may go away
  while its request lives, an unreadable file reads as an empty one. Correct
  means: only one's own task is touched, what does not overlap is merged, and
  what the script is told is true.
* **API keys**: removal is queued, verification is not. Correct means: a removed
  key is refused from the answer on, a key handed out works until then.
* **Task form and buttons**: a form holds the whole task as it was, shows it in
  text areas and one choice of plugin, and sends it whole; a page follows a run
  whose row may vanish. Correct means: a save changes on the stored task what was
  touched, a button comes back, and not before its run ends.
* **Schedule**: two scans with limits of their own, joined by minute. Correct
  means: overlaps are real and, short of the limits, all there.
* **Quota**: a check and an increment with a wait between, over midnight and
  restarts, in a file that every task's state shares. Correct means: never more
  requests than the limit, none uncounted, for as long as the store keeps the
  count.

`PROJECT.json` lists every hazard at its line, with the properties aimed at it.

## 2. Modules

```
AtomicStore  <--refines--  SerializedStore                   StoreProofs
                                 |  (each store call is one step of)
                             Executor                        ExecutorProofs
GeminiQuota                                                  GeminiProofs
TaskScheduler                                                TaskSchedulerProofs
Administration                                               AdministrationProofs
    ConfigManager <--EXTENDS-- AdminPages
    StateStore                                               StateStoreProofs
Web                                                          WebProofs
    ApiKeys                                                  ApiKeysProofs
    TaskForm
    TaskActions
    Schedule <--EXTENDS-- Dashboard
```

`MCExecutor`, `MCSerializedStore`, `MCTaskScheduler`, `MCGeminiQuota`,
`MCAdministration` and `MCWeb` give the constants of the instances TLC checks.

### Executor

`Run` is the set of calls of `execute`, whoever makes them (a cron job, Run
Now, the admin API). `pc[r]` is the await the call stands at: `findRunning`,
`create` or `createSkipped` and `trimSkipped` in `execute`; then `load`, `live`
(the child runs), `closed` and `trim` in `runProcess`, with `recordFailure`,
`spawnError` and `threw` for the three ways a child fails to start, and
`unrecorded` for a run whose last update was refused. Code between two awaits
is one action; a call of the store is one action because of the serializer
(next section). `status`, `startedAt` and `stderr` are the rows of
`executions.json5`. The boot reads the orphans, marks them one by one and only
then serves (`phase`). The administrator's `resetStuck` takes its snapshot in
`ReadStuck` and updates in `ResetRow`, either of which the store may refuse
(`AdminRejects`); a reconciliation that the store refuses ends the process before
it serves, which is a `Crash`; `clearByTaskId` is a trim to nothing;
`DeleteTask` is only what a run sees of a deletion. `seenAt` is history: the
clock at the re-entrancy check.

Abstracted: output text (only which writer filled `stderr`), durations, the
plugin that is notified. Assumed: rows get distinct, increasing `startedAt`
stamps (the code uses milliseconds); one executions call per task at a time;
children die with the scheduler (they share its container, whose command is the
scheduler); Node emits `close` after `error` for a child that did not start.

### SerializedStore and AtomicStore

`AtomicStore` is the promise: mutations take effect in call order, wholly or,
if they reject, not at all; a restart leaves the file as it was, as the call
that was cut off made it, or, after a power loss, as it was since the last
commit. `SerializedStore` is the code: `queue` is the promise chain of
`createSerializer`, `step` the await at which its head stands inside
`atomicWriteFile`, `tmp` what of the temporary file would survive a power loss,
`onDisk` what of the destination might. `Effect` says what each call makes of
each content, or that it throws (`update` of a row that is gone). The file
system's commit and the deaths are external. The execution repository, the
state store and, with a copy of the code, the API keys use this discipline;
`task-repo.ts` and `config.ts` only the atomic write.

### TaskScheduler

Each member of `Req` is one request. `Create`/`Find` begin a handler, `Read` and
`Write` are the two halves of a repository mutation (the whole file is read and
written back), `SetupBegins`/`SetupEnds`/`SetupFails` and `Cleanup` the
environment, `Apply` the change of the jobs map, decided by the row that the
mutation returned. `IOFails` is any file operation that rejects: what the
handler has done by then stays. `SetZone` and `RescheduleAll` are
`system.updateSettings`. `Start` and `Crash` are the process. `def` stands for
every field of a task but `enabled`; `Valid` are those whose cron expression
node-cron accepts (an invalid one leaves no job). History variables: `ideal`,
the file if each mutation were atomic; `overlapped` and `disturbed`, whether
requests overlapped since the boot, or ever, and whether a crash cut one off;
`jobFailed` and `envFailed`, tasks that a failed request left half done.

### GeminiQuota

Each member of `Call` is one `dispatch`. `queue` is the plugin's own serializer;
`ReadUsage` and `WriteUsage` are the halves of `reserveCall`, `MisreadUsage` the
read of an unreadable state file, which answers as if it were empty. The count
lives in the file of every task's state, so `OthersErase` is the `set` of any
task that meets the file unreadable: it reads `{}`, adds its own record and
writes that back. `durable` is the record that is on the disk: the rename of the
atomic write is not synced, `Flush` is the operating system doing it, and after a
`PowerLoss` the record is that one. `dayOf` is the date taken when the call
queued, `sentOn` when its request left. History: `lost`, the days whose count the
store did not find, erased, or lost with the power; of these the properties say
nothing, since the code promises nothing, and the erasing is a finding. A lowered
or raised `dailyLimit` between two calls is not modelled.

### ConfigManager and AdminPages

`mem` and `disk` are the configuration in memory and in the file. A request of a
tab stands at `stage[t]`: `hash` is scrypt, `rename` the atomic write, `resume`
the line after it, which puts `out[t]`, computed before the write, in memory;
`after` the rescheduling or the writing of the helpers, which may fail with the
update in force. `Initialize` checks, hashes and writes, and a time zone is a
second update. A secret is the number of its minting, a token the secret it was
signed with; `Valid` compares it with the one in memory. `AdminPages` is the
browser: `at[t]` and `url[t]` say what a tab loads, shows or waits for, `sent[t]`
the cookie that travelled with its request (it may differ from the cookie of
now), `form[t]` what the page filled in. `Proxy`, the pages and the sign-out
route are the redirects, in the order of the code. One plugin with one secret
field stands for all; `updateSettings`, `setEnabled` and `updateConfig` differ in
the entries they give. `Sessions` are the tokens someone holds: the cookie, the
one that travels with a load that is not shown yet, the one in an answer to a
login. A token that was signed out is none of these; that it would still be
accepted, as `logout` does nothing in the scheduler, is a finding. History:
`ideal`, the file if updates were atomic;
`clash`, `clashed` and `twice`, whether updates or initializations overlapped.

### StateStore

`net` holds the requests on their way, `queue` those that the serializer took.
An `update` is a `get` with `merge`, which goes on as a `set` of what it found if
its client is still there. `GiveUp` is a time-out or a killed run: the request
lives on. A dictionary is the set of calls whose entries it holds, so that a
lost merge shows. History: `due`, the store if every call were one step;
`excused`, tasks whose writers overlapped or whose file was unreadable.

### ApiKeys

`wanted[t]` is what a page asked for, one action at a time with the server;
`queue` is `writeQueue`, its operations read and write in two steps, and
`Verify` reads `file` beside them. `durable` is what a loss of power brings back
(the rename is not synced). History: `dead`, secrets whose removal was answered;
`live`, those handed out that nobody asked to remove; `stale` and `good`, the
calls that began with one.

### TaskForm

`base[t]` is the task as the form loaded it, `draft[t]` its fields: `Shown` is what
`useState` derives from a task, `Built` what `handleSubmit` sends, `Record` what
the repository then stores. They are no inverses. A text is the sequence of its
lines, a line a word that may be padded; a list of parameters or dependencies is
`Joined` by line breaks into one text, and its lines become the `Entries`,
trimmed, the blank ones dropped, so an entry that was padded, blank or of several
lines (the API accepts them) does not survive a save that never touched it. The
two plugins of the two events become one (`PluginOf`, `SetTrigger`, `SetPlugin`);
what is sent of them is not stored. A script is what `detectEnvVars` finds in it,
for each command type: the blur handler keeps the type of when the editor was
mounted (`mounted`), so it may find another set. The environment editor has one
row open at a time (`editing`). History: `asked[t]`, the last thing the user asked
of each field and variable; `behind[t]`, the fields and variables of its task that
others changed since the form was loaded.

`SavesOnlyTouched` compares the task a save leaves with the one that was *stored*
just before it, not with the one that was loaded: every field and variable is
what the user asked for or what was there, up to the conversions of lists and a
detected empty variable. What is in `behind[t]` is excepted: a save puts those
back to what they were at load, pauses included, which is a finding. A list is
either what was stored or that list in order (`Entries(Joined(...))`).

### TaskActions

One task's buttons in several tabs: `loop[t]` is where `handleRun` stands,
`followed[t]` the execution it polls, `pending[t]` the transition under way,
`refresh[t]` a `router.refresh()` that has not arrived. The task's own page
refreshes after every answer, the last one included; the dashboard when the loop
ends, however it does: so both do after an answer (`Answered`), and only the
dashboard when a call throws (`Threw`). The scheduler is what its answers tell the
page; rows end, are trimmed or cleared behind its back.

### Schedule and Dashboard

`Schedule` translates `buildSchedule` and `detectCollisions` into operators over
`tasks` and `now`, with every limit a constant. An expression is what the code
asks of cron-parser: does it parse, are its date fields wildcards, when does it
fire. `Starts` and `Fired` are the reference definition. `Dashboard` renders it.
Firings are minutes here, as the rows of the timeline are; see section 5 for
expressions with seconds.

### Administration and Web

Each puts parts that share neither memory nor files next to each other:
`Administration` has `AdminPages` by EXTENDS and `StateStore` by INSTANCE, `Web`
has `TaskActions` and `Schedule` by EXTENDS and `ApiKeys`, `TaskForm` and
`Dashboard` by INSTANCE. A behaviour moves one part (`part`) while the others rest
in an initial state, so a run checks the sum of the parts and not their product;
that each part then behaves as its own specification says is proved (section 4).
The conditions on the constants of an instanced module are its `Parameters`,
assumed here as `StateParameters` and `WebParameters`.

## 3. What TLC checks

| Run | Instance | Shows |
|---|---|---|
| `executor_overlap` | 3 calls for 1 task, history of 1, clear and reset | `OverlapExplained`, `NewestRowStays` |
| `executor_faults` | 2 calls, 1 crash, refusing store, throwing spawn, clear, reset, delete | `TypeOK`, `NoPhantomRun`, `NoticeFollowsRecord`, `RowLifecycle`, `RunningRowsResolve`, `CallsReturn` |
| `store` | 4 calls (two creates, an update that may throw, a removal), 2 restarts | `TypeOK`, `NeverTorn`, `WritesAreFresh`, `IsAtomicStore`, `CallsSettle` |
| `tasks` | 3 requests, 2 tasks, valid and invalid schedule, 2 zones, 1 crash | `TypeOK`, `JobsMatchFile`, `EnvMatchesFile`, `MutationsKept` |
| `gemini` | 3 calls, limit 1, 1 midnight, 1 crash or power loss, an unreadable file met by a reservation or by another task | `TypeOK`, `LimitPerAskingDay`, `SentIsCounted`, `RecordMovesForward`, `CallsEnd` |
| `administration` | 2 tabs, 2 passwords, 4 acts, 1 crash; 3 calls of 2 runs and a page over 2 tasks, 1 mishap | `TypesOK`, `MemoryIsFile`, `NothingLost`, `SessionsSurvive`, `SecretsAreTyped`, `TabsSettle`; `OthersUntouched`, `MergesKept`, `AnswersAreTrue` |
| `web` | 2 tabs; 3 key operations, 1 API call, 1 mishap; 5 acts on a form with 2 variables, untidy lists and a plugin for each event; 4 presses over 2 executions; 3 tasks of 2 names and 6 expressions | `TypesOK`, `RemovedIsRefused`, `HandedOutWorks`; `SavesOnlyTouched`; `RunButtonReturns`, `RunButtonWaits`; `CollisionsAreReal`, `CollisionsAreFound` |

What the new ones say, in a sentence each: memory is the file when nothing is
being written (`MemoryIsFile`) and the file holds every update that reached it
(`NothingLost`), unless two overlapped; a session is good for as long as someone
holds it unless two initializations overlapped (`SessionsSurvive`); a secret
becomes only what someone typed (`SecretsAreTyped`); every page load and form ends
(`TabsSettle`); a call touches its own task only (`OthersUntouched`), merges are
kept short of overlap (`MergesKept`), and an answer is true (`AnswersAreTrue`).

Five more runs check a sentence of the documents or of a comment and find it
violated; each is a finding in `PROJECT.json`:

| Run | The sentence | What happens |
|---|---|---|
| `no_concurrent_instances` | "no concurrent instances of the same task run simultaneously" | two calls check before either has its row |
| `overlap_is_skipped` | "the new execution is skipped" | skipped rows push the running row out of the history |
| `throws_are_resolved` | "Anything that throws ... must still resolve the execution" | `spawn` itself throws, outside the `try` |
| `paused_never_fires` | "it stops executing on schedule until resumed" | pause and resume overlap |
| `gemini_sending_day` | "Across any single Pacific-time day ... never exceeds" | reserved before midnight, sent after |

Findings without a run are read off the code beside the model: the rewriting of
finished rows (`RowLifecycle` says what does hold), the lost spawn error
message, lost updates of the task file, dropped notifications, output that is
not truncated, unvalidated cron expressions, the old job after a failed
set-up, the silent cut of the schedule's scan, a sign-out that invalidates no
token, a save of a stale form that reverts what others changed, a state write
over an unreadable file that erases it, a new key that takes the place
of one still on show, and the reason of a skipped run, which is never shown.

**Bounds.** Every bound is a constant: `Run`, `Req`, `Call`, `KeepCounts`,
`MaxCrashes`, `MaxRestarts`, `MaxDay`, `Limit`. Two calls meet in every pair of
awaits; the third in `executor_overlap` is the one that finds the row of the
first gone because of the second. A history of one row makes every trim remove
something. One crash is enough because nothing in memory outlives it, and what
it leaves in the files is then met by a full boot; `store` has two so that one
can hit the file another left. With a limit of one, two calls compete for the
last slot and one midnight lets the third ask on another day. Calls for one
task are interchangeable, and so are requests and time zones, which
`executor_overlap` and `tasks` use as symmetry; runs with liveness use none.
In `administration` four acts are two full requests of each tab (a sign-in and a
save, two set-ups, a save against a sign-out), and three calls of the saved
state put a third between the halves of an update. In `web`, three key
operations make, regenerate and revoke while a call verifies; five acts load,
edit, blur, edit and save, or save from two tabs, or pause a task under a form;
the lists it loads have a padded entry and one of two lines; four presses start a
run in each tab and clear, pause or delete under it. A day of three minutes, a horizon
of two days and limits of two and three let a scan be cut off, a task be
summarised, and a day be dated; three tasks of two names let two of them share one.
Deadlock checking is off: each call and request is made once, so the instances
end.

**Fairness.** `Executor`: each call, the administrator's call and the boot go on
(weak fairness per process): Node settles every pending promise, and the
compose files restart the container. Nothing makes a script end, a cron fire or
a crash happen. `SerializedStore`: the running operation's I/O is answered.
`AdminPages`: what a tab and the servers do for it without the user goes on
(weak fairness of `Proceed` per tab); users may do nothing, and a scheduler that
is down may stay down. `TaskActions`: each tab's polls are made and answered
(its timer and its request), and runs that are going end: the script's own end
is assumed here, as the page promises nothing without it; no press, refresh or
trim is assumed. `GeminiQuota`: reads, writes, the sending and the answer (or its 60 s timeout)
come; days need not pass. `TaskScheduler`,
`StateStore`, `ApiKeys`, `TaskForm` and `Schedule` state safety only.

**Mutants.** Each module holds, before the definition it changes and marked
"Mutant of", the variants that show each property to be falsifiable by a
plausible bug.

## 4. What is proved

For all values of the constants that satisfy the named assumptions: `Run`,
`Call` and the alphabets of the schedule finite, `TaskOf` a function, history
limits positive, `Torn` no content, `Absent` no row, job or configuration,
`Effect` a total function, each configuration entry with a default among its
choices, natural bounds. `StateStore`, `ApiKeys` and `TaskForm` state theirs as
`Parameters`, the hypothesis of their theorems: `TaskOf` and `Uses` are functions;
of the form, `Blank` (what a new task starts as) is a task, no variable has the
name of a field, and `Gone`, which here marks what nobody asked, is none of the
things one can ask. TLC evaluates all of them on the runs' instances. Each
inductive invariant was checked with TLC on the instance of its run before it
was proved.

Every invariant and every action property of the passing runs is stated by a
theorem; the liveness properties are not.

* `TypeCorrect`: type invariance of `Executor`, one lemma per group of actions.
* `OverlapsExplained`: `OverlapExplained` alone is not inductive, as it speaks
  of calls whose child is alive. `CheckInv` extends it to every place past the
  check (`PastCheck`): a row with a stamp not above `seenAt[r]` is not running.
  Every row that starts running later gets a stamp above the clock, so above
  `seenAt[r]`; no step returns a row to running.
* `NoPhantomRuns`: `BootInv` adds that no call is in flight and no
  administrator's call open while the scheduler is down or reconciles, and that
  the orphans left to mark are exactly the running rows, so that `Serve`,
  which waits for the last of them, finds none.
* `RowsFollowLifecycle`: `RowInv` ties each location to the status its row may
  have, so that no update can revive a finished one.
* `NoticesFollowRecords`: `NoticeInv` says when the exit code is known and that
  nothing is dispatched before.
* `NewestStays`: from lemma `NewestIsKept` on `Newest`: a trim to at least one
  row keeps a newest one. It rests on `KeepCountsType` and a finite `Run`.
* `StoreTypeCorrect`, `StoreIsNeverTorn`, `StoreWritesAreFresh`: `Inv` adds that
  `tmp` is complete at the rename and that the file is among its durable
  candidates.
* `ImplementsAtomicStore`: the refinement, step by step: `Rename` is
  `TakeEffect`, a throwing `Read` and `IOFails` are `Reject`, deaths are
  `Restart`, the steps in between stutter. `StoreWritesAreFresh` is what makes
  `Rename` the effect of the call on the file as it is.
* `LimitHolds`, `SentCounted` (with `TypeCorrect`, `RecordForward`) of
  `GeminiQuota`: `SentFor` counts only what already went out, which is no
  bound on what still may. `CountInv` counts every call that holds or used a
  slot of its day (`Counted`) and bounds their number by what the record says of
  that day (`Recorded`): the stored count of the day on record, nothing of a
  later one, at most the limit of an earlier one. A day in `lost` is bounded by
  nothing; a power loss adds to it every day from the durable record to the
  stored one, and where the two are equal it takes nothing back. `QueueInv` gives the order
  this needs: no reservation waits for a day before the one on record, which
  also makes the record move forward.
* `MutationsAreKept`, `JobsMatch`, `EnvironmentsMatch` (with `TypeCorrect`) of
  `TaskScheduler`: the properties speak of moments without an open request, so
  `Inv` says what holds between a handler's awaits. `Sole`: while no requests
  have overlapped, the open one is alone, will write its change of the file as it
  is, and once it has, holds the file. `Changes` and `Handlers` say what it holds
  at each place. `Jobs` and `Directories` allow one task to disagree with its
  job or its directory, the one that an open request is at work on (`Unsettled`), and
  every task due a job while a change of zone is on its way. `Births` keeps a
  new id free of old jobs. One lemma per action.
* `MemoryMatchesFile`, `UpdatesAreKept`, `SessionsStayGood`, `SecretsStayTyped`
  (with `TypeCorrect`) of `AdminPages`: `Sole` says that an update that is alone
  writes memory with its patch, and that memory differs from the file only
  between the write and the line after it. `OneSecret` says that memory, file
  and every write under way have one secret, and that while the first one is
  being made nobody has a session: short of a second initialization, no restart
  and no update can then change what tokens are checked against. An update
  changes the entries of its patch and no other, and a patch holds no mask
  (`SpreadType`, `UnmaskedType`). `Locals` and `Files` are what this needs of
  each place of a handler; the pages keep only types.
* `RemovedRefused`, `HandedOutAccepted` of `ApiKeys`, under `Parameters`: `Files`
  and `Work` say which keys the file, what survives a loss of power and the
  operation at the head of the queue may hold; `Secrecy` that a secret whose
  removal was answered is in none of them and one handed out in all, unless
  someone asked to remove it; `Calls` carries both over to the calls that began
  with it.
* `OverlapsAreReal`, `OverlapsAreFound` of `Schedule`: the timeline on show is
  `BuildSchedule` of the tasks and the time. Then by lemmas on the computation:
  a scan that was not cut off is whole (`ScanIsWhole`), a task summarised as
  daily fires on each day at its minutes (`EverydayFires`), and what starts on one
  minute carries one label (`EverydayIsNamed`, `DatedIsNamed`).
* `TypeCorrect`, `ButtonWaits` of `TaskActions`: a tab follows an execution
  exactly while its loop polls, so the loop ends only by an answer.
* `OthersStayUntouched`, `MergesAreKept`, `AnswersStayTrue` (with `TypeCorrect`)
  of `StateStore`. `MergesKept` compares two pieces of state and says nothing
  of the requests that are about to change them, so `Inv` does. `Requests`: a call has one
  request at a time, in one place. `Work`: the operation at work read the file
  as it is. `Alone`: while a task is not `excused` and an update of it is under
  way, there is no other live writer of it. `Based`: hence the `set` half of an
  update carries what the file holds now with its own entries added, which is
  what the update would have made of the file in one step. `Told`: the request
  of a call that is still pending has been applied only if it stands at the head
  of the queue, written and unanswered; so an answer is the last thing that
  happens to it, and a call that broke off may be either. A client that gives up
  only takes away (`Shrinks`), which keeps all of it. One lemma per action.
* `SavesTouchOnlyAsked`, of `TaskForm` within `Web`: the property speaks of the
  stored task, the form knows only the one it loaded, so `FormInv` joins them in
  four steps, for each tab. `Held`: the draft *agrees* with what was asked
  (`Agrees`): each field and variable is what the user last asked for and
  otherwise what the form showed of `base[t]`, and it may have an empty variable
  more, which detection added. `Submitted`: what was sent agrees in the same way,
  through `Built`, with what was asked by then (`Sends`), and whatever is edited
  while the save is under way only adds to it (`Grows`), so that a failed save
  can be tried again. `Follows`: the stored task is `base[t]`, or what was asked
  of the form by an earlier save, wherever no one else changed it (`Tracked`,
  outside of `behind[t]`). `Placed`: the row of a form is not an unused id. Lemma
  `Conversions` has what is needed of lists: ordering one twice is ordering it
  once. A failed save that wrote all the same is why `Follows` cannot say that
  the row *is* `base[t]`.
* `TypesCorrect`, `MergesStayKept`, `AnswersStayTrue`, `OthersStayUntouched` of
  `Administration`; `TypesCorrect`, `RemovedStaysRefused`, `HandedOutStaysGood`,
  `SavesTouchOnlyAsked` of `Web`: every behaviour of the composition is one of each
  part (`PagesBehave`, `StateBehaves`, `KeysBehave`, `FormBehaves`,
  `ButtonsBehave`, `DashBehaves`), because a step of another part leaves its
  variables alone (`PartsStep`). The theorems of the part then hold of the
  whole. `SameState`, `SameKeys` and `PageSchedule` say that a module means the
  same instanced here and extended there.

Only model-checked: the liveness properties (`RunningRowsResolve`,
`CallsReturn`, `CallsSettle`, `CallsEnd`, `TabsSettle`, `RunButtonReturns`), which
are out of the prover's reach: TLAPS has no rule here for ENABLED and fairness.

## 5. Not modelled

* Rendering: the execution list, the cron help, the layout, the labels and the
  drawing of the timeline, the next-run labels. They keep no state.
* Seconds in cron expressions: `buildSchedule` counts firings against
  `RUNS_PER_DAY_CONTINUOUS` and the limit of runs (`schedule.ts:135-152`), so an
  expression with a seconds field counts several per minute; `Schedule` counts
  minutes, and is exact for expressions of five fields.
* Notifications of a task in comparisons: the form sends them, the repository
  stores none, so no save can lose any that are stored. The plugins that are
  enabled do not change while forms are open.
* What the exceptions leave open: nothing is promised of fields in `behind`, of
  days in `lost`, of updates and requests that overlapped. Each of these is the
  subject of a finding or of a hazard without a property.
* Changes of a zone's offset within the schedule's horizon: cron-parser shifts
  or repeats a run there, and the code has no step of its own for it.
* The text of scripts and of the generated helpers, and their rewriting, file by
  file, at boot and when a plugin changes: a script that starts meanwhile may
  import a half-written one, which is text no property here tells apart.
* The tokens of the web app and of running scripts (`http.ts`): one is compared
  with a hash from the environment, the other with a random one of the process;
  neither has state beyond that. The secret of sessions is in `AdminPages`.
* Telegram's one request per notification: it is sent or dropped, `Executor`
  models when.
* Validation of input text, and everything under `.specify`, `.agents`,
  `.github` and `examples` (tooling).

Why for each part, and what is partly modelled, is in `PROJECT.json` under
"components".

## 6. Plan

Done, in this order: `SerializedStore` under `AtomicStore`; `Executor`; their
proofs; `TaskScheduler`; `GeminiQuota` and its proofs; `ConfigManager` with
`AdminPages`; `StateStore`; `ApiKeys`; `TaskForm`; `TaskActions`; `Schedule`; the
proofs about `Schedule`, `TaskActions`, `ApiKeys`, `TaskScheduler` and
`AdminPages`; those about `StateStore`, `TaskForm` and the compositions
`Administration` and `Web`. Next:

1. Composition of `Executor` and `TaskScheduler`: a rebuild of a task's
   directory under a running child or a fire, and the trigger of a task whose
   row is being deleted.
2. `Executor` with `startedAt` stamps that tie or go back, to see what the trim
   by text then removes.
3. Proofs: what 1 and 2 bring; the safety half of the liveness properties (which
   place of a handler can follow which, and that none is a dead end).
