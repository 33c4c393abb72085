---------------------------- MODULE GeminiQuota -----------------------------
(***************************************************************************)
(* The daily limit of the Gemini plugin: dispatch, reserveCall and         *)
(* callGemini of apps/scheduler/src/plugins/gemini.ts over the state store *)
(* (state-store.ts).  Each member of Call is one dispatch by a script.     *)
(* reserveCall runs under a serializer of its own, so the reservations     *)
(* queue; a reservation reads the stored count, awaits, and writes it.     *)
(* The count lives in the file that holds the state of every task.  A read *)
(* of that file that fails for any reason finds it empty, and a write that *)
(* follows such a read leaves nothing but its own record.                  *)
(***************************************************************************)
EXTENDS Integers, Sequences, FiniteSets

CONSTANTS
    Call,      \* dispatches of extract or prompt, each made once
    Limit,     \* dailyLimit
    MaxDay,    \* bound on the days that pass
    MaxCrashes

ASSUME CallFinite == IsFiniteSet(Call)
ASSUME LimitType == Limit \in Nat
ASSUME MaxDayType == MaxDay \in Nat
ASSUME MaxCrashesType == MaxCrashes \in Nat

VARIABLES
    day,      \* today's Pacific date
    usage,    \* the stored record: day and count; no record reads as a count of 0
    durable,  \* the record that a loss of power would bring back
    queue,    \* reservations that have not settled
    used,     \* what the running reservation counted, -1 before it has read
    pc,       \* where each dispatch stands
    dayOf,    \* the day of each call: now was taken when reserveCall was called
    sentOn,   \* history: the day its request went out
    lost,     \* history: days whose count the store has lost or not found
    crashes

vars == <<day, usage, durable, queue, used, pc, dayOf, sentOn, lost, crashes>>

Init ==
    /\ day = 0
    /\ usage = [day |-> 0, count |-> 0] /\ durable = usage
    /\ queue = <<>>
    /\ used = -1
    /\ pc = [c \in Call |-> "idle"]
    /\ dayOf = [c \in Call |-> 0]
    /\ sentOn = [c \in Call |-> -1]
    /\ lost = {}
    /\ crashes = 0

Midnight ==
    /\ day < MaxDay
    /\ day' = day + 1
    /\ UNCHANGED <<usage, durable, queue, used, pc, dayOf, sentOn, lost, crashes>>

\* Invalid parameters, a disabled plugin or a missing key refuse the call
\* before it reserves anything.
Refuse(c) ==
    /\ pc[c] = "idle"
    /\ pc' = [pc EXCEPT ![c] = "refused"]
    /\ UNCHANGED <<day, usage, durable, queue, used, dayOf, sentOn, lost, crashes>>

\* Mutant of Dispatch: a queue that serves the last call first.
DispatchFirst(c) ==
    /\ pc[c] = "idle"
    /\ used = -1
    /\ pc' = [pc EXCEPT ![c] = "reserving"]
    /\ dayOf' = [dayOf EXCEPT ![c] = day]
    /\ queue' = <<c>> \o queue
    /\ UNCHANGED <<day, usage, durable, used, sentOn, lost, crashes>>

Dispatch(c) ==
    /\ pc[c] = "idle"
    /\ pc' = [pc EXCEPT ![c] = "reserving"]
    /\ dayOf' = [dayOf EXCEPT ![c] = day]
    /\ queue' = Append(queue, c)
    /\ UNCHANGED <<day, usage, durable, used, sentOn, lost, crashes>>

\* Mutant of ReadUsage: refuses one call too late.
ReadUsageOffByOne ==
    /\ queue # <<>>
    /\ used = -1
    /\ LET c == Head(queue)
           n == IF usage.day = dayOf[c] THEN usage.count ELSE 0 IN
         IF n > Limit
         THEN /\ pc' = [pc EXCEPT ![c] = "refused"]
              /\ queue' = Tail(queue)
              /\ UNCHANGED used
         ELSE /\ used' = n
              /\ UNCHANGED <<pc, queue>>
    /\ UNCHANGED <<day, usage, durable, dayOf, sentOn, lost, crashes>>

\* The first half of a reservation: the read of the stored count.
ReadUsage ==
    /\ queue # <<>>
    /\ used = -1
    /\ LET c == Head(queue)
           n == IF usage.day = dayOf[c] THEN usage.count ELSE 0 IN
         IF n >= Limit
         THEN /\ pc' = [pc EXCEPT ![c] = "refused"]
              /\ queue' = Tail(queue)
              /\ UNCHANGED used
         ELSE /\ used' = n
              /\ UNCHANGED <<pc, queue>>
    /\ UNCHANGED <<day, usage, durable, dayOf, sentOn, lost, crashes>>

\* The same read when the state file cannot be read or parsed: the store warns
\* and answers that nothing is stored.
MisreadUsage ==
    /\ queue # <<>>
    /\ used = -1
    /\ LET c == Head(queue) IN
         /\ lost' = lost \cup {dayOf[c]}
         /\ IF Limit = 0
            THEN /\ pc' = [pc EXCEPT ![c] = "refused"]
                 /\ queue' = Tail(queue)
                 /\ UNCHANGED used
            ELSE /\ used' = 0
                 /\ UNCHANGED <<pc, queue>>
    /\ UNCHANGED <<day, usage, durable, dayOf, sentOn, crashes>>

\* The second half: the count is on the disk before the request is sent.
WriteUsage ==
    /\ used # -1
    /\ LET c == Head(queue) IN
         /\ usage' = [day |-> dayOf[c], count |-> used + 1]
         /\ pc' = [pc EXCEPT ![c] = "reserved"]
    /\ queue' = Tail(queue)
    /\ used' = -1
    /\ UNCHANGED <<day, durable, dayOf, sentOn, lost, crashes>>

\* Mutant of WriteFails: the rejection is swallowed.
WriteFailsSilently ==
    /\ used # -1
    /\ queue' = Tail(queue)
    /\ used' = -1
    /\ UNCHANGED <<day, usage, durable, pc, dayOf, sentOn, lost, crashes>>

\* The store rejects the write: the call fails unsent and uncounted.
WriteFails ==
    /\ used # -1
    /\ pc' = [pc EXCEPT ![Head(queue)] = "refused"]
    /\ queue' = Tail(queue)
    /\ used' = -1
    /\ UNCHANGED <<day, usage, durable, dayOf, sentOn, lost, crashes>>

Send(c) ==
    /\ pc[c] = "reserved"
    /\ pc' = [pc EXCEPT ![c] = "sent"]
    /\ sentOn' = [sentOn EXCEPT ![c] = day]
    /\ UNCHANGED <<day, usage, durable, queue, used, dayOf, lost, crashes>>

\* Mutant of Answer: a failed request gives its call back.
AnswerRefunds(c) ==
    /\ pc[c] = "sent"
    /\ pc' = [pc EXCEPT ![c] = "answered"]
    /\ \/ UNCHANGED usage
       \/ usage.count > 0 /\ usage' = [usage EXCEPT !.count = @ - 1]
    /\ UNCHANGED <<day, durable, queue, used, dayOf, sentOn, lost, crashes>>

\* An answer, an error or the timeout: the count stays as it is.
Answer(c) ==
    /\ pc[c] = "sent"
    /\ pc' = [pc EXCEPT ![c] = "answered"]
    /\ UNCHANGED <<day, usage, durable, queue, used, dayOf, sentOn, lost, crashes>>

\* The state of some task is set while the file cannot be read: what is written
\* back is that state alone.
OthersErase ==
    /\ usage.count > 0
    /\ usage' = [usage EXCEPT !.count = 0]
    /\ lost' = lost \cup {usage.day}
    /\ UNCHANGED <<day, durable, queue, used, pc, dayOf, sentOn, crashes>>

\* The operating system puts the renamed file on the disk.
Flush ==
    /\ durable # usage
    /\ durable' = usage
    /\ UNCHANGED <<day, usage, queue, used, pc, dayOf, sentOn, lost, crashes>>

\* The process ends, and with it the calls that have not returned.
Dies ==
    /\ crashes < MaxCrashes
    /\ crashes' = crashes + 1
    /\ queue' = <<>>
    /\ used' = -1
    /\ pc' = [c \in Call |-> IF pc[c] \in {"reserving", "reserved", "sent"} THEN "dead" ELSE pc[c]]
    /\ UNCHANGED <<day, durable, dayOf, sentOn>>

Crash == Dies /\ UNCHANGED <<usage, lost>>

\* The directory of the file is not synced: its last renames may be undone.
PowerLoss ==
    /\ Dies
    /\ usage' = durable
    /\ lost' = lost \cup (IF durable = usage THEN {} ELSE durable.day .. usage.day)

Next ==
    \/ Midnight \/ ReadUsage \/ MisreadUsage \/ WriteUsage \/ WriteFails
    \/ OthersErase \/ Flush \/ Crash \/ PowerLoss
    \/ \E c \in Call : Refuse(c) \/ Dispatch(c) \/ Send(c) \/ Answer(c)

Spec == Init /\ [][Next]_vars

\* The store answers, fetch goes out and is answered or times out (60 s).
Fairness ==
    /\ WF_vars(ReadUsage \/ MisreadUsage) /\ WF_vars(WriteUsage \/ WriteFails)
    /\ \A c \in Call : WF_vars(Send(c)) /\ WF_vars(Answer(c))

FairSpec == Spec /\ Fairness

(***************************************************************************)
(* Properties.                                                             *)
(***************************************************************************)

TypeOK ==
    /\ day \in 0..MaxDay
    /\ usage \in [day : 0..MaxDay, count : 0..Limit]
    /\ durable \in [day : 0..MaxDay, count : 0..Limit]
    /\ queue \in Seq(Call)
    /\ used \in -1..Limit
    /\ pc \in [Call -> {"idle", "reserving", "reserved", "sent", "answered", "refused", "dead"}]
    /\ dayOf \in [Call -> 0..MaxDay]
    /\ sentOn \in [Call -> -1..MaxDay]
    /\ lost \subseteq 0..MaxDay
    /\ crashes \in 0..MaxCrashes

SentFor(d) == {c \in Call : sentOn[c] # -1 /\ dayOf[c] = d}

\* gemini.ts:154-160: the calls that asked on one day, however they interleave
\* and whatever restarts come between, send at most Limit requests, unless the
\* store lost the count of that day: a reservation did not find it, the state of
\* another task was written over it, or the power failed before it was on the disk.
LimitPerAskingDay == \A d \in (0..MaxDay) \ lost : Cardinality(SentFor(d)) <= Limit

\* Every request that went out is in the stored count of its day as long as
\* that is the day on record, even when it failed or the process died
\* (specs/005-gemini-llm-plugin/spec.md:104-105, FR-008 and FR-009), with the
\* same exception.
SentIsCounted == usage.day \notin lost => Cardinality(SentFor(usage.day)) <= usage.count

\* Reservations are taken in the order of their days, so the record goes back to
\* an earlier day, and forgets the count of the later one, only when the power
\* fails and leaves what was on the disk (gemini.ts:152-160).
RecordMovesForward ==
    [][usage'.day < usage.day => crashes' > crashes /\ usage' = durable]_usage

\* Every call ends, also those queued behind one that was refused.
CallsEnd == \A c \in Call : pc[c] = "reserving" ~> pc[c] \in {"answered", "refused", "dead"}

(***************************************************************************)
(* What the documents say and the code does not do.                        *)
(***************************************************************************)

\* specs/005-gemini-llm-plugin/spec.md:123, SC-002: "Across any single
\* Pacific-time day, the number of requests cronulent sends to Gemini never
\* exceeds the configured daily limit".
LimitPerSendingDay ==
    \A d \in (0..MaxDay) \ lost : Cardinality({c \in Call : sentOn[c] = d}) <= Limit
=============================================================================
