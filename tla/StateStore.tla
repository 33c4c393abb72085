----------------------------- MODULE StateStore ------------------------------
(***************************************************************************)
(* The saved state of the tasks: state-store.ts behind the state plugin    *)
(* (plugins/state.ts), called over HTTP by the helpers that scripts import *)
(* (environment-manager.ts) and by the page of a task.                     *)
(*                                                                         *)
(* A call may be one request or, for update, a get and then a set.  The    *)
(* store handles sets and clears one after the other and gets at once.  A  *)
(* client may give up while its request is still on its way.  The file is  *)
(* replaced atomically (module SerializedStore).                           *)
(***************************************************************************)
EXTENDS Integers, Sequences, SequencesExt

CONSTANTS
    Client,     \* runs of scripts, and users of a task's page
    Task,
    TaskOf,     \* the task a client belongs to
    Uses,       \* the operations a client may call
    Nothing,    \* no state saved
    List,       \* a state that is no dictionary
    Huge,       \* one above the limit
    MaxCalls,
    MaxMishaps  \* bound on unreadable files, failing writes and restarts

\* What the constants are.
Parameters ==
    /\ TaskOf \in [Client -> Task]
    /\ Uses \in [Client -> SUBSET {"get", "set", "update", "clear"}]
    /\ {MaxCalls, MaxMishaps} \subseteq Nat

Call  == 1 .. MaxCalls
\* A dictionary is the set of the calls whose entries it holds.
Value == (SUBSET Call) \cup {List}
Saved == Value \cup {Nothing}
Store == [Task -> Saved]

Request == [id : Call, by : Client, op : {"get", "set", "clear"}, value : Saved \cup {Huge}, merge : BOOLEAN]

VARIABLES
    file,    \* state.json5
    net,     \* requests on their way to the store
    queue,   \* the serializer's chain
    phase,   \* of the first of the queue: "next", "read" or "written"
    copy,    \* the store it has read
    bad,     \* whether the file was unreadable then
    doing,   \* the call each client waits for, 0 for none
    kind,    \* what that call is
    calls, mishaps,
    answer,  \* history: how each call ended
    applied, \* history: the calls whose write took effect
    due,     \* history: the store if every call were atomic
    excused  \* history: tasks with overlapping calls or unreadable reads

storeVars  == <<file, net, queue, phase, copy, bad>>
clientVars == <<doing, kind, calls, answer>>
histVars   == <<applied, due, excused>>
vars == <<storeVars, clientVars, histVars, mishaps>>

Empty == [k \in Task |-> Nothing]
KeyOf(q) == TaskOf[q.by]
Mishap == mishaps < MaxMishaps /\ mishaps' = mishaps + 1

\* Mutant of End: what the client was doing is kept.
EndKeepsKind(q, how) ==
    IF doing[q.by] = q.id
    THEN /\ doing' = [doing EXCEPT ![q.by] = 0]
         /\ answer' = [answer EXCEPT ![q.id] = how]
         /\ UNCHANGED <<kind, calls>>
    ELSE UNCHANGED clientVars

\* The call is over; a client that has given up does not hear of it.
End(q, how) ==
    IF doing[q.by] = q.id
    THEN /\ doing' = [doing EXCEPT ![q.by] = 0]
         /\ kind' = [kind EXCEPT ![q.by] = "none"]
         /\ answer' = [answer EXCEPT ![q.id] = how]
         /\ calls' = calls
    ELSE UNCHANGED clientVars

\* Calls of a task that may still write its state.
Live(k) ==
    {q.id : q \in {p \in net \cup Range(queue) : p.op # "get" /\ KeyOf(p) = k}} \cup
    {doing[c] : c \in {d \in Client : doing[d] # 0 /\ kind[d] # "get" /\ TaskOf[d] = k}}

Merging(k) == \/ \E q \in net \cup Range(queue) : q.merge /\ KeyOf(q) = k
              \/ \E c \in Client : kind[c] = "update" /\ TaskOf[c] = k

(***************************************************************************)
(* The clients.                                                            *)
(***************************************************************************)

\* The state class of the helpers; get and clear are what the page offers too.
Ask(c, what, value) ==
    LET k == TaskOf[c] IN
    /\ doing[c] = 0
    /\ calls < MaxCalls
    /\ calls' = calls + 1
    /\ doing' = [doing EXCEPT ![c] = calls + 1]
    /\ kind' = [kind EXCEPT ![c] = what]
    /\ net' = net \cup {[id |-> calls + 1, by |-> c, op |-> IF what = "update" THEN "get" ELSE what,
                         value |-> value, merge |-> (what = "update")]}
    /\ excused' = IF what # "get" /\ Live(k) # {} /\ (what = "update" \/ Merging(k))
                  THEN excused \cup {k} ELSE excused
    /\ UNCHANGED <<answer, file, queue, phase, copy, bad, applied, due, mishaps>>

\* A script may save a dictionary, another value, or one above the limit, which
\* the helper for shells does not look at.
Calls(c) ==
    \E what \in Uses[c] :
        IF what = "set" THEN \E value \in {{calls + 1}, List, Huge} : Ask(c, what, value)
        ELSE Ask(c, what, Nothing)

\* The client's time is over, or its run is killed: its requests live on.
GiveUp(c) ==
    /\ doing[c] # 0
    /\ answer' = [answer EXCEPT ![doing[c]] = "ended"]
    /\ doing' = [doing EXCEPT ![c] = 0]
    /\ kind' = [kind EXCEPT ![c] = "none"]
    /\ UNCHANGED <<calls, storeVars, histVars, mishaps>>

(***************************************************************************)
(* The store.                                                              *)
(***************************************************************************)

\* read(): what get finds of a task; an unreadable file reads as an empty one.
Found(k, unreadable) == IF unreadable THEN Nothing ELSE file[k]

\* Mutant of Get: the set of an update starts from scratch.
GetOfNothing(q, unreadable) ==
    /\ q \in net /\ q.op = "get"
    /\ IF unreadable THEN Mishap ELSE mishaps' = mishaps
    /\ IF q.merge /\ doing[q.by] = q.id
       THEN /\ net' = (net \ {q}) \cup {[q EXCEPT !.op = "set", !.value = {q.id}]}
            /\ UNCHANGED <<clientVars, excused>>
       ELSE /\ net' = net \ {q}
            /\ End(q, "ended")
            /\ UNCHANGED excused
    /\ UNCHANGED <<file, queue, phase, copy, bad, applied, due>>

\* get, outside the queue; update goes on with a set of what it found and its
\* own entries, if that is a dictionary and the client is still there.
Get(q, unreadable) ==
    LET found == Found(KeyOf(q), unreadable) IN
    /\ q \in net /\ q.op = "get"
    /\ IF unreadable THEN Mishap ELSE mishaps' = mishaps
    /\ \/ /\ ~q.merge \/ doing[q.by] # q.id
          /\ net' = net \ {q}
          /\ End(q, "ended")
          /\ UNCHANGED excused
       \/ /\ q.merge /\ doing[q.by] = q.id /\ found = List
          /\ net' = net \ {q}
          /\ End(q, "refused")
          /\ UNCHANGED excused
       \/ /\ q.merge /\ doing[q.by] = q.id /\ found # List
          /\ net' = (net \ {q}) \cup
                 {[q EXCEPT !.op = "set", !.value = {q.id} \cup (IF found = Nothing THEN {} ELSE found)]}
          /\ excused' = IF unreadable THEN excused \cup {KeyOf(q)} ELSE excused
          /\ UNCHANGED clientVars
    /\ UNCHANGED <<file, queue, phase, copy, bad, applied, due>>

\* dispatch and the checks of set; what passes them waits for its turn.
Arrive(q) ==
    /\ q \in net /\ q.op # "get"
    /\ net' = net \ {q}
    /\ IF q.value = Huge
       THEN End(q, "refused") /\ UNCHANGED queue
       ELSE queue' = Append(queue, q) /\ UNCHANGED clientVars
    /\ UNCHANGED <<file, phase, copy, bad, histVars, mishaps>>

\* The first of the queue reads the file.
Read(unreadable) ==
    /\ queue # <<>> /\ phase = "next"
    /\ IF unreadable THEN Mishap ELSE mishaps' = mishaps
    /\ copy' = IF unreadable THEN Empty ELSE file
    /\ bad' = unreadable
    /\ phase' = "read"
    /\ UNCHANGED <<file, net, queue, clientVars, histVars>>

\* The store it will write.
Changed(q) == [copy EXCEPT ![KeyOf(q)] = IF q.op = "clear" THEN Nothing ELSE q.value]

\* The whole store is replaced.  A clear of what is not there writes nothing.
Write ==
    LET q == Head(queue) IN
    /\ queue # <<>> /\ phase = "read"
    /\ file' = IF q.op = "clear" /\ copy[KeyOf(q)] = Nothing THEN file ELSE Changed(q)
    /\ phase' = "written"
    /\ applied' = applied \cup {q.id}
    /\ due' = [due EXCEPT ![KeyOf(q)] =
           IF q.op = "clear" THEN Nothing
           ELSE IF q.merge THEN {q.id} \cup (IF @ \in {Nothing, List} THEN {} ELSE @)
           ELSE q.value]
    /\ excused' = IF bad THEN Task ELSE excused
    /\ UNCHANGED <<net, queue, copy, bad, clientVars, mishaps>>

\* Mutant of Pop: the next of the queue goes on with the store that was read.
PopCaches(how) ==
    /\ End(Head(queue), how)
    /\ queue' = Tail(queue)
    /\ phase' = IF Tail(queue) = <<>> THEN "next" ELSE "read"
    /\ UNCHANGED <<copy, bad>>

\* Mutant of Pop: a write that failed is answered like one that did not.
PopUnchecked(how) ==
    /\ End(Head(queue), "ok")
    /\ queue' = Tail(queue)
    /\ phase' = "next"
    /\ copy' = Empty
    /\ bad' = FALSE

\* The first of the queue is answered, and the serializer goes on.
Pop(how) ==
    /\ End(Head(queue), how)
    /\ queue' = Tail(queue)
    /\ phase' = "next"
    /\ copy' = Empty
    /\ bad' = FALSE

Settle ==
    /\ queue # <<>> /\ phase = "written"
    /\ Pop("ok")
    /\ UNCHANGED <<file, net, histVars, mishaps>>

\* Nothing of the store is replaced; the next of the queue goes on.
WriteFails ==
    /\ queue # <<>> /\ phase = "read"
    /\ Mishap
    /\ Pop("refused")
    /\ UNCHANGED <<file, net, histVars>>

\* The scheduler dies and comes back: every connection breaks.
Restart ==
    /\ Mishap
    /\ net' = {} /\ queue' = <<>> /\ phase' = "next" /\ copy' = Empty /\ bad' = FALSE
    /\ answer' = [i \in Call |-> IF \E c \in Client : doing[c] = i THEN "ended" ELSE answer[i]]
    /\ doing' = [c \in Client |-> 0]
    /\ kind' = [c \in Client |-> "none"]
    /\ UNCHANGED <<file, calls, histVars>>

Init ==
    /\ file = [k \in Task |-> {}]
    /\ net = {} /\ queue = <<>> /\ phase = "next" /\ copy = Empty /\ bad = FALSE
    /\ doing = [c \in Client |-> 0]
    /\ kind = [c \in Client |-> "none"]
    /\ calls = 0 /\ mishaps = 0
    /\ answer = [i \in Call |-> "open"]
    /\ applied = {} /\ excused = {}
    /\ due = file

Serve == (\E q \in net : Get(q, FALSE) \/ Get(q, TRUE) \/ Arrive(q)) \/ Read(FALSE) \/ Read(TRUE)
         \/ Write \/ Settle \/ WriteFails

Next ==
    \/ \E c \in Client : Calls(c) \/ GiveUp(c)
    \/ Serve
    \/ Restart

Spec == Init /\ [][Next]_vars

(***************************************************************************)
(* Properties.                                                             *)
(***************************************************************************)

TypeOK ==
    /\ file \in Store /\ copy \in Store /\ due \in Store
    /\ net \subseteq Request /\ queue \in Seq(Request)
    /\ phase \in {"next", "read", "written"} /\ bad \in BOOLEAN
    /\ doing \in [Client -> Call \cup {0}]
    /\ kind \in [Client -> {"none", "get", "set", "clear", "update"}]
    /\ \A c \in Client : doing[c] = 0 <=> kind[c] = "none"
    /\ answer \in [Call -> {"open", "ended", "ok", "refused"}]
    /\ applied \subseteq Call /\ excused \subseteq Task
    /\ calls \in 0 .. MaxCalls /\ mishaps \in 0 .. MaxMishaps

\* state-store.ts:47-49: saving or clearing the state of one task never changes
\* that of another, however the calls interleave; only after an unreadable read
\* does a write drop the rest of the store.
OthersUntouched ==
    [][\A k \in Task : file'[k] # file[k] => bad \/ KeyOf(Head(queue)) = k]_vars

\* plugins/state.ts:89-95: the get and the set of an update make one step, and
\* nothing a call saved is lost, by restarts, failing writes and clients that
\* give up either, unless another call that writes the same task overlapped it
\* (a request left behind by a client counts) or the file was unreadable.
MergesKept == \A k \in Task \ excused : file[k] = due[k]

\* environment-manager.ts:99-113: what a strict call tells the script is true:
\* a call that returned has been applied and one the store refused never will
\* be; only a call that broke off may be either.
AnswersAreTrue ==
    \A i \in Call :
        /\ answer[i] = "ok" => i \in applied
        /\ answer[i] = "refused" => i \notin applied /\ \A q \in net \cup Range(queue) : q.id # i
==============================================================================
