-------------------------------- MODULE Schedule --------------------------------
(***************************************************************************)
(* The schedule of the dashboard (apps/web/src/lib/schedule.ts): when each *)
(* enabled task runs in the next day, and which tasks start on the same    *)
(* minute, found without walking a month of the frequent schedules.  An    *)
(* instant is a day and a minute of it in the zone of the instance, which  *)
(* keeps its offset; a cron expression is what the code asks of it: whether*)
(* it parses, whether its date fields are wildcards, and when it fires.    *)
(***************************************************************************)
EXTENDS Integers, FiniteSets

CONSTANTS
    Id,                \* ids of tasks
    Name,              \* names of tasks, which need not be unique
    Cron,              \* cron expressions
    MinutesPerDay,     \* MINUTES_PER_DAY, schedule.ts:12
    HorizonDays,       \* COLLISION_HORIZON_DAYS, schedule.ts:17
    MaxRunsPerDay,     \* MAX_RUNS_PER_DAY, schedule.ts:21
    MaxOccurrences,    \* MAX_OCCURRENCES_IN_HORIZON, schedule.ts:26
    RunsContinuous,    \* RUNS_PER_DAY_CONTINUOUS, schedule.ts:32
    Unshown            \* the page is not rendered yet

Minute  == 0 .. MinutesPerDay - 1
Day     == 0 .. HorizonDays
Instant == [day : Day, minute : Minute]

ASSUME SizesAssumption ==
    /\ {MinutesPerDay, HorizonDays, MaxRunsPerDay, MaxOccurrences, RunsContinuous} \subseteq Nat \ {0}
    /\ RunsContinuous < MaxRunsPerDay
ASSUME CronAssumption ==
    /\ Cron \subseteq [parses : BOOLEAN, wildcards : BOOLEAN, days : SUBSET Day, minutes : SUBSET Minute]
    /\ \A c \in Cron : c.wildcards => c.days = Day

VARIABLES
    tasks,    \* id -> [name, cron, enabled], as the scheduler lists them
    now,      \* the instant of the request
    timeline  \* the schedule on the page

------------------------------------------------------------------------------
(* When a task runs *)

Before(p, q)     == p.day < q.day \/ (p.day = q.day /\ p.minute < q.minute)
AtOrBefore(p, q) == p.day < q.day \/ (p.day = q.day /\ p.minute <= q.minute)
Fires(c, p) == p.day \in c.days /\ p.minute \in c.minutes

\* The instants after the request and up to `days` later.
Window(days) == {p \in Instant : Before(now, p) /\ AtOrBefore(p, [now EXCEPT !.day = now.day + days])}

\* The firings of an expression that parses; the iterator stops at the limit.
Firings(c, days) == {p \in Window(days) : Fires(c, p)}
Occurrences(c, days, limit) ==
    {p \in Firings(c, days) : Cardinality({q \in Firings(c, days) : AtOrBefore(q, p)}) <= limit}
Truncated(c, days, limit) == Cardinality(Firings(c, days)) > limit

Active  == {i \in Id : tasks[i].enabled}
Runs(i) == IF tasks[i].cron.parses
           THEN {p.minute : p \in Occurrences(tasks[i].cron, 1, MaxRunsPerDay)}
           ELSE {}
Comparable   == {i \in Active : Cardinality(Runs(i)) <= RunsContinuous}
Everyday     == {i \in Comparable : tasks[i].cron.wildcards}
DateSpecific == {i \in Comparable : ~tasks[i].cron.wildcards /\ tasks[i].cron.parses}

------------------------------------------------------------------------------
(* Which tasks start together *)

NamesAtMinute(m) == {tasks[i].name : i \in {j \in Everyday : m \in Runs(j)}}

\* A dated task brings the everyday ones of its minute along.
Dated(p) == {i \in DateSpecific : p \in Occurrences(tasks[i].cron, HorizonDays, MaxOccurrences)}
NamesAtInstantAlone(p) == {tasks[i].name : i \in Dated(p)}  \* mutant: the everyday tasks are not joined
NamesAtInstant(p) == {tasks[i].name : i \in Dated(p)} \cup NamesAtMinute(p.minute)

Overlap(m, names, daily) == [time |-> m, taskNames |-> names, daily |-> daily]
Several(names) == \E a, b \in names : a # b

DailyOverlaps == {Overlap(m, NamesAtMinute(m), TRUE) : m \in {k \in Minute : Several(NamesAtMinute(k))}}
\* Mutant: an overlap is recorded once more on a date.
DatedOverlapsAlso ==
    {Overlap(p.minute, NamesAtInstant(p), FALSE) : p \in {q \in Instant : Dated(q) # {} /\ Several(NamesAtInstant(q))}}
\* A daily overlap wins over the same names on one date.
DatedOverlaps ==
    {Overlap(p.minute, NamesAtInstant(p), FALSE) :
        p \in {q \in Instant : /\ Dated(q) # {}
                               /\ Several(NamesAtInstant(q))
                               /\ Overlap(q.minute, NamesAtInstant(q), TRUE) \notin DailyOverlaps}}
DetectCollisions == DailyOverlaps \cup DatedOverlaps

BuildSchedule ==
    [tasks           |-> [i \in Active |-> [runs |-> Runs(i), invalid |-> ~tasks[i].cron.parses]],
     continuousTasks |-> {tasks[i].name : i \in Active \ Comparable},
     collisions      |-> DetectCollisions]

------------------------------------------------------------------------------
(* Properties of the page *)

Fired(i, p)   == tasks[i].enabled /\ tasks[i].cron.parses /\ Fires(tasks[i].cron, p)
Starts(n, p)  == \E i \in Id : tasks[i].name = n /\ Fired(i, p)

\* What the page calls an overlap is one: tasks of at least two names start on
\* that minute, on every day of the horizon when it says daily and on one of
\* them otherwise, although the everyday ones are never looked up on that day;
\* and no overlap is listed both as daily and as dated (schedule.ts:184-185, 221-222).
CollisionsAreReal ==
    timeline # Unshown =>
        \A c \in timeline.collisions :
            /\ Several(c.taskNames)
            /\ IF c.daily
               THEN \A p \in Window(HorizonDays) : p.minute = c.time => \A n \in c.taskNames : Starts(n, p)
               ELSE \E p \in Window(HorizonDays) : p.minute = c.time /\ \A n \in c.taskNames : Starts(n, p)
            /\ \A d \in timeline.collisions : d.time = c.time /\ d.taskNames = c.taskNames => d = c

\* More often than this a task is summarised, and past the limit its scan is cut off.
Quiet(i)  == ~Truncated(tasks[i].cron, 1, RunsContinuous)
Whole(i)  == tasks[i].cron.wildcards \/ ~Truncated(tasks[i].cron, HorizonDays, MaxOccurrences)

\* No overlap of the coming month is missing: when two tasks of different names
\* start on one minute of the horizon, neither is summarised as continuous and
\* no dated scan of them was cut off, the page lists both names at that minute,
\* daily when both run every day (schedule.ts:14-26, 191-226).
CollisionsAreFound ==
    timeline # Unshown =>
        \A i, j \in Id : \A p \in Window(HorizonDays) :
            /\ Fired(i, p) /\ Fired(j, p)
            /\ tasks[i].name # tasks[j].name
            /\ \A k \in {i, j} : Quiet(k) /\ Whole(k)
            => \E c \in timeline.collisions :
                   /\ c.time = p.minute
                   /\ {tasks[i].name, tasks[j].name} \subseteq c.taskNames
                   /\ tasks[i].cron.wildcards /\ tasks[j].cron.wildcards => c.daily
=================================================================================
