--------------------------- MODULE SerializedStore --------------------------
(***************************************************************************)
(* One JSON5 file with its serializer: apps/scheduler/src/serialize.ts,    *)
(* atomic-write.ts and the read-modify-write of                            *)
(* repositories/json5/execution-repo.ts and state-store.ts.  The promise   *)
(* chain is the queue of the calls that have not settled; its head is the  *)
(* operation that runs.  Every await of that operation is a step.          *)
(***************************************************************************)
EXTENDS Sequences, Integers

CONSTANTS Call, Content, Initial, Refused, Effect,
    Torn,         \* a truncated file
    MaxRestarts   \* bound on process deaths and power losses

ASSUME StoreConstants ==
    /\ Initial \in Content
    /\ Refused \notin Content
    /\ Effect \in [Call -> [Content -> Content \cup {Refused}]]
ASSUME MaxRestartsType == MaxRestarts \in Nat
ASSUME TornType == Torn \notin Content

VARIABLES
    file,     \* the destination, as a reader finds it
    onDisk,   \* the contents a power loss may leave in it
    tmp,      \* the temporary file, as its bytes would survive a power loss
    queue,    \* calls made and not settled
    step,     \* where the operation of the head stands
    data,     \* what it is about to write
    result,   \* how each call ended
    restarts

ioVars == <<file, onDisk, tmp>>
vars == <<ioVars, queue, step, data, result, restarts>>

Init ==
    /\ file = Initial
    /\ onDisk = {Initial}
    /\ tmp = Torn
    /\ queue = <<>>
    /\ step = "read"
    /\ data = Initial
    /\ result = [c \in Call |-> "uncalled"]
    /\ restarts = 0

\* Mutant of Mutate: the last call comes first.
MutateFirst(c) ==
    /\ result[c] = "uncalled"
    /\ queue' = <<c>> \o queue
    /\ result' = [result EXCEPT ![c] = "pending"]
    /\ UNCHANGED <<ioVars, step, data, restarts>>

\* A caller hands its operation to the serializer.
Mutate(c) ==
    /\ result[c] = "uncalled"
    /\ queue' = Append(queue, c)
    /\ result' = [result EXCEPT ![c] = "pending"]
    /\ UNCHANGED <<ioVars, step, data, restarts>>

\* Mutant of Settle: chained with then(fn) alone, a rejection wedges the queue.
SettleOrWedge(outcome) ==
    /\ step' = "read"
    /\ queue' = IF outcome = "resolved" THEN Tail(queue) ELSE queue
    /\ result' = [result EXCEPT ![Head(queue)] = outcome]

\* Mutant of Settle: the operation after this one has read already, so only
\* the writes are serialized.
SettleWritesOnly(outcome) ==
    /\ step' = IF Len(queue) > 1 THEN "open" ELSE "read"
    /\ queue' = Tail(queue)
    /\ result' = [result EXCEPT ![Head(queue)] = outcome]

\* The next operation starts whether this one resolved or rejected.
Settle(outcome) ==
    /\ step' = "read"
    /\ queue' = Tail(queue)
    /\ result' = [result EXCEPT ![Head(queue)] = outcome]

\* Mutant of Read: an update does not look whether the row was found.
ReadUnchecked ==
    /\ queue # <<>>
    /\ step = "read"
    /\ step' = "open"
    /\ data' = Effect[Head(queue)][file]
    /\ UNCHANGED <<ioVars, queue, result, restarts>>

\* read(), then what the operation makes of it without awaiting anything.
Read ==
    /\ queue # <<>>
    /\ step = "read"
    /\ IF Effect[Head(queue)][file] = Refused
       THEN /\ Settle("rejected")
            /\ UNCHANGED data
       ELSE /\ step' = "open"
            /\ data' = Effect[Head(queue)][file]
            /\ UNCHANGED <<queue, result>>
    /\ UNCHANGED <<ioVars, restarts>>

OpenTmp ==
    /\ step = "open"
    /\ step' = "write"
    /\ tmp' = Torn
    /\ UNCHANGED <<file, onDisk, queue, data, result, restarts>>

\* The bytes are in the page cache: complete for a reader, not on the disk.
WriteTmp ==
    /\ step = "write"
    /\ step' = "sync"
    /\ UNCHANGED <<ioVars, queue, data, result, restarts>>

\* Mutant of SyncTmp: no fsync before the rename.
CloseTmp ==
    /\ step = "sync"
    /\ step' = "rename"
    /\ UNCHANGED <<ioVars, queue, data, result, restarts>>

SyncTmp ==
    /\ step = "sync"
    /\ step' = "rename"
    /\ tmp' = data
    /\ UNCHANGED <<file, onDisk, queue, data, result, restarts>>

\* The rename is atomic for readers; the directory is not synced, so a power
\* loss may still bring back the file it replaced.
Rename ==
    /\ step = "rename"
    /\ file' = data
    /\ onDisk' = onDisk \cup {tmp}
    /\ Settle("resolved")
    /\ UNCHANGED <<tmp, data, restarts>>

\* Any of the awaits above throws; the temporary file is removed, or is left
\* for a later open to truncate.
IOFails ==
    /\ queue # <<>>
    /\ Settle("rejected")
    /\ UNCHANGED <<ioVars, data, restarts>>

Commit ==
    /\ onDisk # {file}
    /\ onDisk' = {file}
    /\ UNCHANGED <<file, tmp, queue, step, data, result, restarts>>

Die ==
    /\ restarts < MaxRestarts
    /\ restarts' = restarts + 1
    /\ queue' = <<>>
    /\ step' = "read"
    /\ result' = [c \in Call |-> IF result[c] = "pending" THEN "lost" ELSE result[c]]
    /\ UNCHANGED <<tmp, data>>

\* A rename that was asked for may be done although nobody sees it settle.
ProcessDies ==
    /\ Die
    /\ \/ UNCHANGED <<file, onDisk>>
       \/ step = "rename" /\ file' = data /\ onDisk' = onDisk \cup {tmp}

PowerLoss ==
    /\ Die
    /\ file' \in onDisk \cup (IF step = "rename" THEN {tmp} ELSE {})
    /\ onDisk' = {file'}

\* What the running operation does next.
Advance == Read \/ OpenTmp \/ WriteTmp \/ SyncTmp \/ Rename \/ IOFails

Next ==
    \/ \E c \in Call : Mutate(c)
    \/ Advance
    \/ Commit \/ ProcessDies \/ PowerLoss

Spec == Init /\ [][Next]_vars

\* The file system answers every request of the operation that runs.
FairSpec == Spec /\ WF_vars(Advance)

(***************************************************************************)
(* Properties.                                                             *)
(***************************************************************************)

Steps == {"read", "open", "write", "sync", "rename"}

TypeOK ==
    /\ file \in Content \cup {Torn}
    /\ onDisk \subseteq Content \cup {Torn}
    /\ tmp \in Content \cup {Torn}
    /\ queue \in Seq(Call)
    /\ step \in Steps
    /\ data \in Content
    /\ result \in [Call -> {"uncalled", "pending", "resolved", "rejected", "lost"}]
    /\ restarts \in Nat

\* atomic-write.ts:6-15: no interruption leaves a truncated file behind, even
\* one between the rename and the moment the file system commits it.
NeverTorn == file # Torn /\ Torn \notin onDisk

\* serialize.ts:4-11: what the running operation is about to write is still
\* its effect on the present content of the file, however many calls were
\* queued, rejected or lost meanwhile: no row is dropped.
WritesAreFresh ==
    step # "read" => queue # <<>> /\ data = Effect[Head(queue)][file]

\* The store is the abstract one.
Atomic == INSTANCE AtomicStore WITH content <- file, pending <- queue
IsAtomicStore == Atomic!Spec

\* serialize.ts:17-19: one failure does not wedge the queue: every call
\* settles unless the process dies.
CallsSettle == \A c \in Call : result[c] = "pending" ~> result[c] # "pending"
=============================================================================
