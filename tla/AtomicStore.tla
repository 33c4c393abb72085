---------------------------- MODULE AtomicStore -----------------------------
(***************************************************************************)
(* What the JSON5 stores promise to their callers: the mutations called    *)
(* take effect one at a time, in the order they were called, each of them  *)
(* wholly or, when it rejects, not at all; what a power loss brings back   *)
(* is some complete content the file had.                                  *)
(***************************************************************************)
EXTENDS Sequences

CONSTANTS
    Call,     \* mutations that may be called, each once
    Content,  \* what the file may hold
    Initial,  \* what it holds at first
    Refused,  \* the result of a mutation that throws on what it read
    Effect    \* what each mutation makes of each content

VARIABLES
    content,  \* the file as a reader finds it
    onDisk,   \* the contents a power loss may leave
    pending,  \* calls that have not settled, in call order
    result    \* how each call ended

vars == <<content, onDisk, pending, result>>

Init ==
    /\ content = Initial
    /\ onDisk = {Initial}
    /\ pending = <<>>
    /\ result = [c \in Call |-> "uncalled"]

Mutate(c) ==
    /\ result[c] = "uncalled"
    /\ pending' = Append(pending, c)
    /\ result' = [result EXCEPT ![c] = "pending"]
    /\ UNCHANGED <<content, onDisk>>

Settle(outcome) ==
    /\ pending # <<>>
    /\ pending' = Tail(pending)
    /\ result' = [result EXCEPT ![Head(pending)] = outcome]

TakeEffect ==
    /\ Settle("resolved")
    /\ Effect[Head(pending)][content] # Refused
    /\ content' = Effect[Head(pending)][content]
    /\ onDisk' = onDisk \cup {content'}

Reject ==
    /\ Settle("rejected")
    /\ UNCHANGED <<content, onDisk>>

\* The file system commits what it has.
Commit ==
    /\ onDisk' = {content}
    /\ UNCHANGED <<content, pending, result>>

\* What the first of the pending calls may have made of the file already.
CutOff ==
    IF pending = <<>> THEN {} ELSE {Effect[Head(pending)][content]} \ {Refused}

\* The process dies, or the machine does.
Restart ==
    /\ content' \in {content} \cup onDisk \cup CutOff
    /\ onDisk' \in SUBSET (onDisk \cup CutOff)
    /\ content' \in onDisk'
    /\ pending' = <<>>
    /\ result' = [c \in Call |-> IF result[c] = "pending" THEN "lost" ELSE result[c]]

Next ==
    \/ \E c \in Call : Mutate(c)
    \/ TakeEffect \/ Reject \/ Commit \/ Restart

Spec == Init /\ [][Next]_vars
=============================================================================
