------------------------------- MODULE ApiKeys -------------------------------
(***************************************************************************)
(* The API keys of the web app: lib/api-keys.ts, which queues what changes *)
(* the file and verifies outside of the queue; the page that manages them  *)
(* (api-key-manager.tsx with actions/api-keys.ts); and the admin API, a    *)
(* proxy that asks for a key (app/api/admin/[...path]/route.ts).           *)
(*                                                                         *)
(* A secret is its number, and so is the key that was created with it: the *)
(* identifiers and secrets are random, and taken to be new.  A hash stands *)
(* for its secret.                                                         *)
(***************************************************************************)
EXTENDS Integers, FiniteSets, Sequences

CONSTANTS
    Tab,       \* open pages of the key manager
    ServiceToken, \* whether CRONULENT_SERVICE_TOKEN is set
    MaxKeys,   \* bound on the secrets made
    MaxPress,  \* bound on what the users do
    MaxCalls,  \* bound on the calls of the admin API
    MaxMishaps \* bound on failing reads and writes, and on restarts

\* What the constants are.
Parameters ==
    /\ ServiceToken \in BOOLEAN
    /\ {MaxKeys, MaxPress, MaxCalls, MaxMishaps} \subseteq Nat

Key     == 1 .. MaxKeys
Secret  == 0 .. MaxKeys     \* 0 is none
Records == [Key -> Secret]  \* the secret of each key, 0 when there is no such key

VARIABLES
    file,     \* api-keys.json
    durable,  \* what a loss of power may bring back
    queue,    \* writeQueue: the operations that wait, the first one at work
    phase,    \* of the first: "next", "read" or "written"
    copy,     \* the records it has read
    made,     \* the secret it has made
    minted,   \* secrets made so far
    wanted,   \* what each page has asked for, in turn
    sent,     \* whether the first of these is with the server
    listed,   \* the keys each page shows
    newKey,   \* the secret each page shows, 0 for none
    broken,   \* pages that an error has replaced
    call,     \* where each call of the admin API stands
    bearer,   \* the secret it presents
    owner,    \* history: the key each secret was made for
    dead,     \* history: secrets whose removal has been answered
    live,     \* history: secrets handed out whose key nobody has asked to remove
    stale,    \* history: calls that began with a dead secret
    good,     \* history: calls whose secret has been live all along
    presses, mishaps

storeVars == <<file, durable, queue, phase, copy, made, minted, owner>>
pageVars  == <<wanted, sent, listed, newKey, broken, presses>>
apiVars   == <<call, bearer, stale, good>>
histVars  == <<dead, live>>
vars == <<storeVars, pageVars, apiVars, histVars, mishaps>>

Call == 1 .. MaxCalls
Ended == {"unavailable", "unauthorized", "failed", "malformed", "denied", "unreachable", "forwarded"}
NoRecords == [k \in Key |-> 0]
Keys(records) == {k \in Key : records[k] # 0}
Secrets(records) == {records[k] : k \in Key} \ {0}
Operation == [op : {"create", "regenerate", "revoke"}, key : Secret, tab : Tab]
Mishap == mishaps < MaxMishaps /\ mishaps' = mishaps + 1

(***************************************************************************)
(* The page.                                                               *)
(***************************************************************************)

\* The page, rendered anew: an action ends with this, too.
Reload(t) ==
    /\ wanted[t] = <<>>
    /\ t \in broken \/ listed[t] # Keys(file)
    /\ listed' = [listed EXCEPT ![t] = Keys(file)]
    /\ newKey' = [newKey EXCEPT ![t] = 0]
    /\ broken' = broken \ {t}
    /\ UNCHANGED <<wanted, sent, presses, storeVars, apiVars, histVars, mishaps>>

\* A new key on show is in front of everything else.
Press(t, op, k) ==
    /\ presses < MaxPress
    /\ presses' = presses + 1
    /\ t \notin broken /\ newKey[t] = 0
    /\ wanted' = [wanted EXCEPT ![t] = Append(@, [op |-> op, key |-> k, tab |-> t])]
    /\ UNCHANGED <<sent, listed, newKey, broken, storeVars, apiVars, histVars, mishaps>>

\* A label and Enter, which works while an action is pending, too.
Create(t) == Press(t, "create", 0)

\* One of the two dialogs, which open while no action is pending.
Confirm(t, op, k) ==
    /\ k \in listed[t] /\ wanted[t] = <<>>
    /\ Press(t, op, k)

\* "Done"
Dismiss(t) ==
    /\ newKey[t] # 0
    /\ newKey' = [newKey EXCEPT ![t] = 0]
    /\ UNCHANGED <<wanted, sent, listed, broken, presses, storeVars, apiVars, histVars, mishaps>>

\* The browser sends its actions one at a time.
Send(t) ==
    /\ wanted[t] # <<>> /\ ~sent[t]
    /\ sent' = [sent EXCEPT ![t] = TRUE]
    /\ queue' = Append(queue, Head(wanted[t]))
    /\ LET removed == {s \in live : owner[s] = Head(wanted[t]).key} IN
         /\ live' = live \ removed
         /\ good' = {i \in good : bearer[i] \notin removed}
    /\ UNCHANGED <<file, durable, phase, copy, made, minted, owner, wanted, listed, newKey, broken, presses,
                   call, bearer, stale, dead, mishaps>>

\* The answer reaches the page, with the keys of now.  A new secret takes the
\* place of one still on show.
Answered(t, secret) ==
    /\ wanted' = [wanted EXCEPT ![t] = Tail(@)]
    /\ sent' = [sent EXCEPT ![t] = FALSE]
    /\ newKey' = [newKey EXCEPT ![t] = IF secret = 0 \/ t \in broken THEN @ ELSE secret]
    /\ listed' = [listed EXCEPT ![t] = Keys(file)]
    /\ UNCHANGED <<broken, presses>>

\* handleCreate and handleRegenerate catch what a failing action throws; a
\* failing revoke takes the page down.
Threw(t, op) ==
    /\ wanted' = [wanted EXCEPT ![t] = Tail(@)]
    /\ sent' = [sent EXCEPT ![t] = FALSE]
    /\ broken' = IF op = "revoke" THEN broken \cup {t} ELSE broken
    /\ newKey' = IF op = "revoke" THEN [newKey EXCEPT ![t] = 0] ELSE newKey
    /\ UNCHANGED <<listed, presses>>

(***************************************************************************)
(* The store.                                                              *)
(***************************************************************************)

\* Mutant of Pop: the next operation goes on with the records that were read.
PopCaches ==
    /\ queue' = Tail(queue)
    /\ phase' = IF Tail(queue) = <<>> THEN "next" ELSE "read"
    /\ copy' = copy
    /\ made' = 0

\* The serializer goes on with the next.
Pop ==
    /\ queue' = Tail(queue)
    /\ phase' = "next"
    /\ copy' = NoRecords
    /\ made' = 0

\* read()
Read ==
    /\ queue # <<>> /\ phase = "next"
    /\ phase' = "read"
    /\ copy' = file
    /\ UNCHANGED <<file, durable, queue, made, minted, owner, pageVars, apiVars, histVars, mishaps>>

\* Mutant of Write: a key is named by its place in the list.
WriteByCount ==
    LET q == Head(queue)
        k == IF q.op = "create" THEN Cardinality(Keys(copy)) + 1 ELSE q.key
        new == q.op = "create" \/ (q.op = "regenerate" /\ copy[k] # 0)
    IN
    /\ queue # <<>> /\ phase = "read"
    /\ new => minted < MaxKeys
    /\ phase' = "written"
    /\ file' = [copy EXCEPT ![k] = IF new THEN minted + 1 ELSE 0]
    /\ made' = IF new THEN minted + 1 ELSE 0
    /\ minted' = IF new THEN minted + 1 ELSE minted
    /\ owner' = IF new THEN [owner EXCEPT ![minted + 1] = k] ELSE owner
    /\ UNCHANGED <<durable, queue, copy, pageVars, apiVars, histVars, mishaps>>

\* The record is pushed, given a new secret, or filtered out, and the file is
\* renamed into place; a key that is gone leaves it alone.
Write ==
    LET q == Head(queue)
        k == IF q.op = "create" THEN minted + 1 ELSE q.key
        new == q.op = "create" \/ (q.op = "regenerate" /\ copy[k] # 0)
    IN
    /\ queue # <<>> /\ phase = "read"
    /\ new => minted < MaxKeys
    /\ phase' = "written"
    /\ file' = [copy EXCEPT ![k] = IF new THEN minted + 1 ELSE 0]
    /\ made' = IF new THEN minted + 1 ELSE 0
    /\ minted' = IF new THEN minted + 1 ELSE minted
    /\ owner' = IF new THEN [owner EXCEPT ![minted + 1] = k] ELSE owner
    /\ UNCHANGED <<durable, queue, copy, pageVars, apiVars, histVars, mishaps>>

\* The operation is answered.
Settle ==
    LET q == Head(queue)
        k == IF q.op = "create" THEN made ELSE q.key
    IN
    /\ queue # <<>> /\ phase = "written"
    /\ Pop
    /\ Answered(q.tab, made)
    /\ dead' = dead \cup {s \in Key : owner[s] = k /\ s # made}
    /\ live' = IF made # 0 /\ \A i \in 2 .. Len(queue) : queue[i].key # k THEN live \cup {made} ELSE live
    /\ UNCHANGED <<file, durable, minted, owner, apiVars, mishaps>>

\* read() or write() rejects, with nothing written; the queue goes on.
StoreFails ==
    /\ queue # <<>> /\ phase \in {"next", "read"}
    /\ Mishap
    /\ Pop
    /\ Threw(Head(queue).tab, Head(queue).op)
    /\ UNCHANGED <<file, durable, minted, owner, apiVars, histVars>>

\* The directory reaches the disk.
Flush ==
    /\ durable # file
    /\ durable' = file
    /\ UNCHANGED <<file, queue, phase, copy, made, minted, owner, pageVars, apiVars, histVars, mishaps>>

\* The web app dies, with the machine or alone, and comes back.  A loss of power
\* may undo a rename: what it brings back or takes away is neither dead nor live.
Restart(lost) ==
    /\ Mishap
    /\ queue' = <<>> /\ phase' = "next" /\ copy' = NoRecords /\ made' = 0
    /\ file' = IF lost THEN durable ELSE file
    /\ wanted' = [t \in Tab |-> <<>>]
    /\ sent' = [t \in Tab |-> FALSE]
    /\ broken' = broken \cup {t \in Tab : wanted[t] # <<>> /\ Head(wanted[t]).op = "revoke"}
    /\ call' = [i \in Call |-> IF call[i] \in {"reading", "forwarding"} THEN "failed" ELSE call[i]]
    /\ dead' = dead \ Secrets(file')
    /\ live' = live \cap Secrets(file')
    /\ UNCHANGED <<durable, minted, owner, listed, newKey, presses, bearer, stale, good>>

(***************************************************************************)
(* The admin API.                                                          *)
(***************************************************************************)

\* A call presents a secret that was made, or one that never was.
Present(i, s) ==
    /\ call[i] = "idle" /\ \A j \in 1 .. i - 1 : call[j] # "idle"
    /\ s <= minted
    /\ call' = [call EXCEPT ![i] = IF ServiceToken THEN "reading" ELSE "unavailable"]
    /\ bearer' = [bearer EXCEPT ![i] = s]
    /\ stale' = IF s \in dead THEN stale \cup {i} ELSE stale
    /\ good' = IF s \in live THEN good \cup {i} ELSE good
    /\ UNCHANGED <<storeVars, pageVars, histVars, mishaps>>

Be(i, what) ==
    /\ call' = [call EXCEPT ![i] = what]
    /\ UNCHANGED <<bearer, stale, good, storeVars, pageVars, histVars>>

\* verifyApiKey, then the path, the batch and the list of procedures.
Verify(i) ==
    /\ call[i] = "reading"
    /\ IF bearer[i] \in Secrets(file)
       THEN \E what \in {"malformed", "denied", "forwarding"} : Be(i, what)
       ELSE Be(i, "unauthorized")
    /\ UNCHANGED mishaps

VerifyFails(i) ==
    /\ call[i] = "reading"
    /\ Mishap
    /\ Be(i, "failed")

Forward(i) ==
    /\ call[i] = "forwarding"
    /\ \E what \in {"unreachable", "forwarded"} : Be(i, what)
    /\ UNCHANGED mishaps

Init ==
    /\ file = NoRecords /\ durable = NoRecords
    /\ queue = <<>> /\ phase = "next" /\ copy = NoRecords /\ made = 0 /\ minted = 0
    /\ owner = NoRecords
    /\ wanted = [t \in Tab |-> <<>>]
    /\ sent = [t \in Tab |-> FALSE]
    /\ listed = [t \in Tab |-> {}]
    /\ newKey = [t \in Tab |-> 0]
    /\ broken = {}
    /\ call = [i \in Call |-> "idle"]
    /\ bearer = [i \in Call |-> 0]
    /\ dead = {} /\ live = {} /\ stale = {} /\ good = {}
    /\ presses = 0 /\ mishaps = 0

Next ==
    \/ \E t \in Tab : Reload(t) \/ Dismiss(t) \/ Send(t) \/ Create(t)
    \/ \E t \in Tab, k \in Key : Confirm(t, "regenerate", k) \/ Confirm(t, "revoke", k)
    \/ Read \/ Write \/ Settle \/ StoreFails \/ Flush
    \/ Restart(TRUE) \/ Restart(FALSE)
    \/ \E i \in Call : (\E s \in Secret : Present(i, s)) \/ Verify(i) \/ VerifyFails(i) \/ Forward(i)

Spec == Init /\ [][Next]_vars

(***************************************************************************)
(* Properties.                                                             *)
(***************************************************************************)

\* The variables have their types.
TypeOK ==
    /\ file \in Records /\ durable \in Records /\ copy \in Records /\ owner \in Records
    /\ queue \in Seq(Operation)
    /\ phase \in {"next", "read", "written"}
    /\ made \in Secret /\ minted \in Secret
    /\ wanted \in [Tab -> Seq(Operation)] /\ sent \in [Tab -> BOOLEAN]
    /\ listed \in [Tab -> SUBSET Key] /\ newKey \in [Tab -> Secret] /\ broken \subseteq Tab
    /\ call \in [Call -> {"idle", "reading", "forwarding"} \cup Ended] /\ bearer \in [Call -> Secret]
    /\ dead \subseteq Key /\ live \subseteq Key /\ stale \subseteq Call /\ good \subseteq Call
    /\ presses \in 0 .. MaxPress /\ mishaps \in 0 .. MaxMishaps

\* api-keys.ts:106-135, api-key-manager.tsx:183,211: a revoked or regenerated key
\* stops working at once: no call that begins after the answer gets through,
\* whatever else is in the queue and though a call verifies outside of it; only
\* a loss of power may bring a key back.
RemovedIsRefused == \A i \in stale : call[i] \notin {"malformed", "denied", "forwarding", "forwarded"}

\* api-keys.ts:74-75: a key that was handed out works until someone asks for its
\* removal: no operation of another page on another key takes it away.
HandedOutWorks == \A i \in good : call[i] # "unauthorized"
=============================================================================
