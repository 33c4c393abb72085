---------------------------- MODULE ApiKeysProofs ----------------------------
(***************************************************************************)
(* For any number of pages, keys, calls, restarts and losses of power: a   *)
(* key whose removal was answered is refused, and a key that was handed    *)
(* out works until someone asks for its removal.                           *)
(***************************************************************************)
EXTENDS ApiKeys, TLAPS

\* An operation that removes a secret names a key.
Op == {o \in Operation : o.op # "create" => o.key \in Key}

Types ==
    /\ TypeOK
    /\ queue \in Seq(Op)
    /\ wanted \in [Tab -> Seq(Op)]

\* A page has one wish with the server at a time, and keeps it until the answer.
Sent ==
    /\ \A n \in 1 .. Len(queue) : sent[queue[n].tab] /\ wanted[queue[n].tab] # <<>>
    /\ \A n, m \in 1 .. Len(queue) : queue[n].tab = queue[m].tab => n = m
    /\ \A t \in Tab : \A n \in 1 .. Len(wanted[t]) : wanted[t][n].tab = t

\* A file lists secrets under the key they were made for.
Owned(records) == \A k \in Key : records[k] # 0 => owner[records[k]] = k /\ k <= minted

Files ==
    /\ Owned(file) /\ Owned(durable)
    /\ \A s \in Key : s > minted => owner[s] = 0

\* The key the first of the queue is about, once it has written.
Subject == IF Head(queue).op = "create" THEN made ELSE Head(queue).key

Work ==
    /\ phase # "next" => queue # <<>>
    /\ phase = "read" => copy = file
    /\ phase = "written" => Subject \in Key /\ file[Subject] = made

\* No dead secret is in the file; every live one is, and no operation that waits
\* is about its key.
Secrecy ==
    /\ \A s \in dead : owner[s] # 0 /\ s \notin Secrets(file)
    /\ \A s \in live : s \in Secrets(file)
    /\ \A n \in 1 .. Len(queue) : queue[n].op # "create" => \A s \in live : owner[s] # queue[n].key

\* While a call is verified its secret is what it was when the call began.
Calls ==
    /\ \A i \in stale \cup good : call[i] # "idle"
    /\ \A i \in stale : call[i] = "reading" => bearer[i] \in dead
    /\ \A i \in good : call[i] = "reading" => bearer[i] \in live
    /\ RemovedIsRefused
    /\ HandedOutWorks

Inv == Types /\ Sent /\ Files /\ Work /\ Secrecy /\ Calls

LEMMA Sizes ==
  ASSUME Parameters
  PROVE  /\ Secret = Key \cup {0} /\ 0 \notin Key /\ Key \subseteq Nat
         /\ MaxKeys \in Nat /\ MaxPress \in Nat /\ MaxMishaps \in Nat
  BY DEF Parameters, Secret, Key

LEMMA InitInv ==
  ASSUME Parameters, Init
  PROVE  Inv
PROOF
  <1>1. NoRecords \in Records /\ \A k \in Key : NoRecords[k] = 0
    BY DEF NoRecords, Records, Secret, Key, Parameters
  <1>2. <<>> \in Seq(Operation) /\ <<>> \in Seq(Op)
    OBVIOUS
  <1>3. Types
    BY <1>1, <1>2 DEF Types, TypeOK, Init, Parameters, Secret, Key, Call
  <1>4. Sent /\ Files /\ Work /\ Secrecy
    BY <1>1 DEF Init, Sent, Files, Owned, Work, Secrecy
  <1>5. Calls
    BY DEF Init, Calls, RemovedIsRefused, HandedOutWorks
  <1> QED BY <1>3, <1>4, <1>5 DEF Inv

LEMMA QueueTabs ==
  ASSUME Inv, NEW n \in 1 .. Len(queue)
  PROVE  queue[n] \in Op /\ queue[n].tab \in Tab
  BY DEF Inv, Types, Op, Operation

(***************************************************************************)
(* The pages.                                                              *)
(***************************************************************************)

\* What only the pages hold does not disturb the rest.
LEMMA PagesOnly ==
  ASSUME Inv, UNCHANGED <<storeVars, apiVars, histVars>>
  PROVE  Files' /\ Work' /\ Secrecy' /\ Calls'
PROOF
  <1> USE DEF Inv, storeVars, apiVars, histVars
  <1>1. Files' BY DEF Files, Owned
  <1>2. Work' BY DEF Work, Subject
  <1>3. Secrecy' BY DEF Secrecy, Secrets
  <1>4. Calls' BY DEF Calls, RemovedIsRefused, HandedOutWorks
  <1> QED BY <1>1, <1>2, <1>3, <1>4

LEMMA PagesKeep ==
  ASSUME Parameters, Inv, NEW t \in Tab,
         \/ Reload(t) \/ Dismiss(t) \/ Create(t)
         \/ \E k \in Key : Confirm(t, "regenerate", k) \/ Confirm(t, "revoke", k)
  PROVE  Inv'
PROOF
  <1>1. UNCHANGED <<storeVars, apiVars, histVars, mishaps>>
    BY DEF Reload, Dismiss, Create, Confirm, Press
  <1>2. CASE Reload(t) \/ Dismiss(t)
    <2>1. Keys(file) \subseteq Key /\ 0 \in Secret
      BY Sizes DEF Keys
    <2>2. Types'
      BY <1>1, <1>2, <2>1 DEF Inv, Types, TypeOK, Reload, Dismiss, storeVars, apiVars, histVars
    <2>3. Sent'
      BY <1>1, <1>2 DEF Inv, Sent, Reload, Dismiss, storeVars
    <2> QED BY <1>1, <2>2, <2>3, PagesOnly DEF Inv
  <1>3. ASSUME NEW op \in {"create", "regenerate", "revoke"}, NEW k \in Secret, op # "create" => k \in Key,
               Press(t, op, k)
        PROVE  Inv'
    <2>1. [op |-> op, key |-> k, tab |-> t] \in Op
      BY <1>3 DEF Op, Operation
    <2>2. wanted' \in [Tab -> Seq(Op)] /\ wanted' \in [Tab -> Seq(Operation)]
      BY <1>3, <2>1 DEF Inv, Types, Press, Op
    <2>3. presses' \in 0 .. MaxPress
      BY <1>3, Sizes DEF Inv, Types, TypeOK, Press
    <2>4. Types'
      BY <1>1, <1>3, <2>2, <2>3 DEF Inv, Types, TypeOK, Press, storeVars, apiVars, histVars
    <2>5. \A u \in Tab : wanted[u] # <<>> => wanted'[u] # <<>>
      <3>1. wanted \in [Tab -> Seq(Op)] /\ wanted' = [wanted EXCEPT ![t] = Append(@, [op |-> op, key |-> k, tab |-> t])]
        BY <1>3 DEF Inv, Types, Press
      <3>2. wanted'[t] # <<>>
        BY <2>1, <3>1
      <3> QED BY <3>1, <3>2
    <2>6. \A u \in Tab : \A n \in 1 .. Len(wanted'[u]) : wanted'[u][n].tab = u
      BY <1>3, <2>1 DEF Inv, Types, Sent, Press
    <2>7. Sent'
      BY <1>1, <1>3, <2>5, <2>6, QueueTabs DEF Inv, Sent, Press, storeVars
    <2> QED BY <1>1, <2>4, <2>7, PagesOnly DEF Inv
  <1>4. 0 \in Secret /\ Key \subseteq Secret
    BY Sizes
  <1>5. CASE Create(t)
    BY <1>3, <1>4, <1>5 DEF Create
  <1>6. ASSUME NEW k \in Key, Confirm(t, "regenerate", k) \/ Confirm(t, "revoke", k) PROVE Inv'
    BY <1>3, <1>4, <1>6 DEF Confirm
  <1> QED BY <1>2, <1>5, <1>6

\* Send hands the first wish of a page to the queue: from here on its key is no
\* longer live.
LEMMA SendKeeps ==
  ASSUME Inv, NEW t \in Tab, Send(t)
  PROVE  Inv'
PROOF
  <1> DEFINE q == Head(wanted[t])
             removed == {s \in live : owner[s] = q.key}
  <1>1. q \in Op /\ q \in Operation
    BY DEF Inv, Types, Send, Op
  <1>2. queue' = Append(queue, q) /\ live' = live \ removed /\ good' = {i \in good : bearer[i] \notin removed}
    BY DEF Send
  <1>3. UNCHANGED <<file, durable, phase, copy, made, minted, owner, wanted, listed, newKey, broken, presses,
                    call, bearer, stale, dead, mishaps>>
    BY DEF Send
  <1>4. queue' \in Seq(Op) /\ queue' \in Seq(Operation) /\ queue' # <<>>
    <2>1. queue \in Seq(Op) /\ queue \in Seq(Operation)
      BY DEF Inv, Types, TypeOK
    <2> HIDE DEF q
    <2> QED BY <1>1, <1>2, <2>1
  <1>5. Types'
    BY <1>2, <1>3, <1>4 DEF Inv, Types, TypeOK, Send
  <1>6. Files'
    BY <1>3 DEF Inv, Files, Owned
  <1>7. queue # <<>> => Head(queue') = Head(queue)
    BY <1>1, <1>2 DEF Inv, Types
  <1>8. Work'
    BY <1>3, <1>4, <1>7 DEF Inv, Work, Subject
  <1>9. Secrecy'
    <2>1. \A s \in dead' : owner'[s] # 0 /\ s \notin Secrets(file')
      BY <1>3 DEF Inv, Secrecy
    <2>2. \A s \in live' : s \in Secrets(file')
      BY <1>2, <1>3 DEF Inv, Secrecy
    <2>3. ASSUME NEW n \in 1 .. Len(queue'), queue'[n].op # "create", NEW s \in live'
          PROVE  owner'[s] # queue'[n].key
      <3>1. CASE n \in 1 .. Len(queue)
        <4>1. queue'[n] = queue[n]
          BY <1>1, <1>2, <3>1 DEF Inv, Types
        <4> QED BY <1>2, <1>3, <2>3, <3>1, <4>1 DEF Inv, Secrecy
      <3>2. CASE n \notin 1 .. Len(queue)
        <4>1. queue'[n] = q
          BY <1>1, <1>2, <2>3, <3>2 DEF Inv, Types
        <4> QED BY <1>2, <1>3, <2>3, <4>1
      <3> QED BY <3>1, <3>2
    <2> QED BY <2>1, <2>2, <2>3 DEF Secrecy, Secrets
  <1>10. Calls'
    BY <1>2, <1>3 DEF Inv, Calls, RemovedIsRefused, HandedOutWorks
  <1>11. Sent'
    <2>1. q.tab = t
      BY DEF Inv, Sent, Types, Send
    <2>2. sent' = [sent EXCEPT ![t] = TRUE] /\ ~sent[t] /\ wanted[t] # <<>> /\ wanted' = wanted
      BY DEF Send
    <2>3. ASSUME NEW n \in 1 .. Len(queue')
          PROVE  \/ n \in 1 .. Len(queue) /\ queue'[n] = queue[n]
                 \/ n = Len(queue) + 1 /\ queue'[n] = q
      BY <1>1, <1>2 DEF Inv, Types
    <2>4. \A n \in 1 .. Len(queue) : queue[n].tab \in Tab /\ queue[n].tab # t
      BY <2>2, QueueTabs DEF Inv, Sent
    <2>5. ASSUME NEW n \in 1 .. Len(queue')
          PROVE  sent'[queue'[n].tab] /\ wanted'[queue'[n].tab] # <<>>
      <3>1. sent \in [Tab -> BOOLEAN]
        BY DEF Inv, Types, TypeOK
      <3> QED BY <2>1, <2>2, <2>3, <2>4, <2>5, <3>1 DEF Inv, Sent
    <2>6. ASSUME NEW n \in 1 .. Len(queue'), NEW m \in 1 .. Len(queue'), queue'[n].tab = queue'[m].tab
          PROVE  n = m
      BY <2>1, <2>3, <2>4, <2>6 DEF Inv, Sent
    <2>7. \A u \in Tab : \A n \in 1 .. Len(wanted'[u]) : wanted'[u][n].tab = u
      BY <2>2 DEF Inv, Sent
    <2> QED BY <2>5, <2>6, <2>7 DEF Sent
  <1> QED BY <1>5, <1>6, <1>8, <1>9, <1>10, <1>11 DEF Inv

(***************************************************************************)
(* The store.                                                              *)
(***************************************************************************)

LEMMA ReadKeeps ==
  ASSUME Inv, Read
  PROVE  Inv'
PROOF
  <1>1. UNCHANGED <<file, durable, queue, made, minted, owner, pageVars, apiVars, histVars, mishaps>>
    BY DEF Read
  <1>2. Types'
    BY <1>1 DEF Inv, Types, TypeOK, Read, pageVars, apiVars, histVars
  <1>3. Files'
    BY <1>1 DEF Inv, Files, Owned
  <1>4. Work'
    BY <1>1 DEF Inv, Work, Read
  <1>5. Secrecy'
    BY <1>1 DEF Inv, Secrecy, Secrets, histVars
  <1>6. Calls'
    BY <1>1 DEF Inv, Calls, RemovedIsRefused, HandedOutWorks, apiVars, histVars
  <1>7. Sent'
    BY <1>1 DEF Inv, Sent, pageVars
  <1> QED BY <1>2, <1>3, <1>4, <1>5, <1>6, <1>7 DEF Inv

\* The secret that is replaced is not live, and the one that is made not dead.
LEMMA WriteKeeps ==
  ASSUME Parameters, Inv, Write
  PROVE  Inv'
PROOF
  <1> DEFINE q == Head(queue)
             k == IF q.op = "create" THEN minted + 1 ELSE q.key
             new == q.op = "create" \/ (q.op = "regenerate" /\ copy[k] # 0)
  <1>1. UNCHANGED <<durable, queue, copy, pageVars, apiVars, histVars, mishaps>>
    BY DEF Write
  <1>2. q \in Op /\ queue # <<>> /\ phase = "read" /\ phase' = "written" /\ copy = file
    BY DEF Inv, Types, Work, Write, Op
  <1>3. minted \in Nat /\ MaxKeys \in Nat /\ (new => minted + 1 \in Key)
    BY DEF Inv, Types, TypeOK, Write, Parameters, Key, Secret
  <1>4. k \in Key
    BY <1>2, <1>3 DEF Op, Operation
  <1>5. file' = [file EXCEPT ![k] = IF new THEN minted + 1 ELSE 0]
    BY <1>2 DEF Write
  <1>6. /\ made' = IF new THEN minted + 1 ELSE 0
        /\ minted' = IF new THEN minted + 1 ELSE minted
        /\ owner' = IF new THEN [owner EXCEPT ![minted + 1] = k] ELSE owner
    BY DEF Write
  <1>7. file \in [Key -> Secret] /\ owner \in [Key -> Secret] /\ minted + 1 \in Int /\ Key \subseteq Secret /\ 0 \in Secret
    BY <1>3 DEF Inv, Types, TypeOK, Records, Key, Secret
  <1>8. Types'
    <2>1. file' \in Records /\ owner' \in Records /\ made' \in Secret /\ minted' \in Secret
      BY <1>3, <1>4, <1>5, <1>6, <1>7 DEF Records, Inv, Types, TypeOK
    <2> QED BY <1>1, <1>2, <2>1 DEF Inv, Types, TypeOK, pageVars, apiVars, histVars
  <1>9. \A s \in Key : owner[s] # 0 => s <= minted /\ s # minted + 1 /\ owner'[s] = owner[s]
    BY <1>3, <1>6, <1>7 DEF Inv, Files, Key
  <1>10. Files'
    <2>1. ASSUME NEW j \in Key, file'[j] # 0
          PROVE  owner'[file'[j]] = j /\ j <= minted'
      <3>1. CASE j = k
        BY <1>2, <1>3, <1>4, <1>5, <1>6, <1>7, <2>1, <3>1 DEF Inv, Files, Owned, Key
      <3>2. CASE j # k
        <4>1. file'[j] = file[j] /\ file[j] \in Key
          BY <1>5, <1>7, <2>1, <3>2 DEF Key, Secret
        <4>2. owner[file[j]] = j /\ j <= minted /\ j # 0
          BY <2>1, <4>1 DEF Inv, Files, Owned, Key
        <4> QED BY <1>3, <1>6, <1>9, <4>1, <4>2 DEF Key
      <3> QED BY <3>1, <3>2
    <2>2. ASSUME NEW j \in Key, durable[j] # 0
          PROVE  owner'[durable[j]] = j /\ j <= minted'
      <3>1. durable[j] \in Key
        BY <2>2, Sizes DEF Inv, Types, TypeOK, Records
      <3>2. owner[durable[j]] = j /\ j <= minted /\ j # 0
        BY <2>2 DEF Inv, Files, Owned, Key
      <3> QED BY <1>3, <1>6, <1>9, <3>1, <3>2 DEF Key
    <2>3. \A s \in Key : s > minted' => owner'[s] = 0
      BY <1>3, <1>6, <1>7 DEF Inv, Files, Key
    <2> QED BY <1>1, <2>1, <2>2, <2>3 DEF Files, Owned
  <1>11. Work'
    <2>1. Subject' \in Key /\ file'[Subject'] = made'
      BY <1>1, <1>2, <1>3, <1>4, <1>5, <1>6, <1>7 DEF Subject
    <2> QED BY <1>1, <1>2, <2>1 DEF Work
  <1>12. Secrecy'
    <2>1. ASSUME NEW s \in dead PROVE owner'[s] # 0 /\ s \notin Secrets(file')
      <3>1. s \in Key /\ owner[s] # 0 /\ s \notin Secrets(file)
        BY DEF Inv, Secrecy, Types, TypeOK
      <3>2. s # minted + 1 /\ owner'[s] # 0
        BY <1>9, <3>1
      <3>3. \A j \in Key : file'[j] # s
        BY <1>4, <1>5, <1>7, <3>1, <3>2 DEF Secrets, Key
      <3> QED BY <3>2, <3>3 DEF Secrets
    <2>2. ASSUME NEW s \in live PROVE s \in Secrets(file') /\ owner'[s] = owner[s]
      <3>1. s \in Key
        BY DEF Inv, Types, TypeOK
      <3>2. PICK j \in Key : file[j] = s
        BY DEF Inv, Secrecy, Secrets
      <3>3. owner[s] = j /\ j <= minted /\ j # 0 /\ s # 0
        BY <3>1, <3>2 DEF Inv, Files, Owned, Key
      <3>4. j # k
        <4>1. CASE q.op = "create"
          BY <1>3, <3>3, <4>1 DEF Key
        <4>2. CASE q.op # "create"
          <5>1. 1 \in 1 .. Len(queue) /\ queue[1] = q
            BY <1>2 DEF Inv, Types
          <5> QED BY <3>3, <4>2, <5>1 DEF Inv, Secrecy
        <4> QED BY <4>1, <4>2
      <3>5. file'[j] = s
        BY <1>5, <1>7, <3>2, <3>4
      <3> QED BY <1>9, <3>1, <3>3, <3>5 DEF Secrets
    <2> QED BY <1>1, <2>1, <2>2 DEF Inv, Secrecy, histVars
  <1>13. Calls'
    BY <1>1 DEF Inv, Calls, RemovedIsRefused, HandedOutWorks, apiVars, histVars
  <1>14. Sent'
    BY <1>1 DEF Inv, Sent, pageVars
  <1> QED BY <1>8, <1>10, <1>11, <1>12, <1>13, <1>14 DEF Inv
\* The operation that settles takes the next of the queue on.
LEMMA QueueGoesOn ==
  ASSUME Inv, queue # <<>>, queue' = Tail(queue)
  PROVE  /\ queue' \in Seq(Op) /\ queue' \in Seq(Operation)
         /\ Head(queue) \in Op /\ Head(queue) \in Operation
         /\ \A n \in 1 .. Len(queue') : n + 1 \in 2 .. Len(queue) /\ n + 1 \in 1 .. Len(queue) /\ queue'[n] = queue[n + 1]
  BY DEF Inv, Types, TypeOK, Op

\* The page of the operation that settles has its wish answered.
LEMMA WishGranted ==
  ASSUME Inv, queue # <<>>, queue' = Tail(queue), NEW t \in Tab, t = Head(queue).tab,
         wanted' = [wanted EXCEPT ![t] = Tail(@)], sent' = [sent EXCEPT ![t] = FALSE]
  PROVE  wanted' \in [Tab -> Seq(Op)] /\ wanted' \in [Tab -> Seq(Operation)] /\ Sent'
PROOF
  <1>1. 1 \in 1 .. Len(queue) /\ queue[1].tab = t
    BY DEF Inv, Types
  <1>2. wanted[t] # <<>>
    BY <1>1 DEF Inv, Sent
  <1>3. wanted' \in [Tab -> Seq(Op)] /\ wanted' \in [Tab -> Seq(Operation)]
    BY <1>2 DEF Inv, Types, TypeOK
  <1>4. ASSUME NEW n \in 1 .. Len(queue')
        PROVE  sent'[queue'[n].tab] /\ wanted'[queue'[n].tab] # <<>>
    <2>1. n + 1 \in 2 .. Len(queue) /\ n + 1 \in 1 .. Len(queue) /\ queue'[n] = queue[n + 1]
      BY <1>4, QueueGoesOn
    <2>2. queue[n + 1].tab # t /\ queue[n + 1].tab \in Tab
      BY <1>1, <2>1, QueueTabs DEF Inv, Sent
    <2> QED BY <2>1, <2>2 DEF Inv, Sent, Types, TypeOK
  <1>5. ASSUME NEW n \in 1 .. Len(queue'), NEW m \in 1 .. Len(queue'), queue'[n].tab = queue'[m].tab
        PROVE  n = m
    BY <1>5, QueueGoesOn DEF Inv, Sent
  <1>6. \A u \in Tab : \A n \in 1 .. Len(wanted'[u]) : wanted'[u][n].tab = u
    BY <1>2 DEF Inv, Types, Sent
  <1> QED BY <1>3, <1>4, <1>5, <1>6 DEF Sent

LEMMA SettleKeeps ==
  ASSUME Parameters, Inv, Settle
  PROVE  Inv'
PROOF
  <1> DEFINE q == Head(queue)
             k == IF q.op = "create" THEN made ELSE q.key
  <1>1. UNCHANGED <<file, durable, minted, owner, apiVars, mishaps, broken, presses>>
    BY DEF Settle, Answered
  <1>2. queue # <<>> /\ phase = "written" /\ queue' = Tail(queue) /\ phase' = "next" /\ copy' = NoRecords /\ made' = 0
    BY DEF Settle, Pop
  <1>3. q \in Op /\ q.tab \in Tab
    BY <1>2, QueueGoesOn DEF Operation
  <1>4. k \in Key /\ file[k] = made /\ made \in Secret
    BY <1>2 DEF Inv, Work, Subject, Types, TypeOK
  <1>5. /\ dead' = dead \cup {s \in Key : owner[s] = k /\ s # made}
        /\ live' = IF made # 0 /\ \A i \in 2 .. Len(queue) : queue[i].key # k THEN live \cup {made} ELSE live
    BY DEF Settle
  <1>6. Types'
    <2>1. NoRecords \in Records /\ 0 \in Secret
      BY Sizes DEF NoRecords, Records
    <2>2. wanted' \in [Tab -> Seq(Op)] /\ wanted' \in [Tab -> Seq(Operation)]
      BY <1>2, <1>3, WishGranted DEF Settle, Answered
    <2>3. sent' \in [Tab -> BOOLEAN] /\ listed' \in [Tab -> SUBSET Key] /\ newKey' \in [Tab -> Secret]
      BY <1>4 DEF Settle, Answered, Inv, Types, TypeOK, Keys
    <2>4. dead' \subseteq Key /\ live' \subseteq Key
      BY <1>4, <1>5, Sizes DEF Inv, Types, TypeOK
    <2>5. queue' \in Seq(Op) /\ queue' \in Seq(Operation)
      BY <1>2, QueueGoesOn
    <2> QED BY <1>1, <1>2, <2>1, <2>2, <2>3, <2>4, <2>5 DEF Inv, Types, TypeOK, apiVars
  <1>7. Files'
    BY <1>1 DEF Inv, Files, Owned
  <1>8. Work'
    BY <1>2 DEF Work
  <1>9. Secrecy'
    <2>1. ASSUME NEW s \in dead' PROVE owner[s] # 0 /\ s \notin Secrets(file)
      <3>1. CASE s \in dead
        BY <3>1 DEF Inv, Secrecy
      <3>2. CASE s \notin dead
        <4>1. s \in Key /\ owner[s] = k /\ s # made
          BY <1>5, <2>1, <3>2
        <4>2. \A j \in Key : file[j] # s
          BY <1>4, <4>1, Sizes DEF Inv, Files, Owned
        <4> QED BY <1>4, <4>1, <4>2, Sizes DEF Secrets
      <3> QED BY <3>1, <3>2
    <2>2. \A s \in live' : s \in Secrets(file)
      BY <1>4, <1>5 DEF Inv, Secrecy, Secrets
    <2>3. ASSUME NEW n \in 1 .. Len(queue'), queue'[n].op # "create", NEW s \in live'
          PROVE  owner[s] # queue'[n].key
      <3>1. n + 1 \in 2 .. Len(queue) /\ n + 1 \in 1 .. Len(queue) /\ queue'[n] = queue[n + 1]
        BY <1>2, <2>3, QueueGoesOn
      <3>2. CASE s \in live
        BY <2>3, <3>1, <3>2 DEF Inv, Secrecy
      <3>3. CASE s \notin live
        <4>1. s = made /\ made # 0 /\ queue[n + 1].key # k
          BY <1>5, <2>3, <3>1, <3>3
        <4>2. owner[s] = k
          BY <1>4, <4>1 DEF Inv, Files, Owned
        <4> QED BY <3>1, <4>1, <4>2
      <3> QED BY <3>2, <3>3
    <2> QED BY <1>1, <2>1, <2>2, <2>3 DEF Secrecy
  <1>10. Calls'
    BY <1>1, <1>5 DEF Inv, Calls, RemovedIsRefused, HandedOutWorks, apiVars
  <1>11. Sent'
    BY <1>2, <1>3, WishGranted DEF Settle, Answered
  <1> QED BY <1>6, <1>7, <1>8, <1>9, <1>10, <1>11 DEF Inv

LEMMA StoreFailsKeeps ==
  ASSUME Parameters, Inv, StoreFails
  PROVE  Inv'
PROOF
  <1> DEFINE q == Head(queue)
  <1>1. UNCHANGED <<file, durable, minted, owner, apiVars, histVars, listed, presses>>
    BY DEF StoreFails, Threw
  <1>2. queue # <<>> /\ queue' = Tail(queue) /\ phase' = "next" /\ copy' = NoRecords /\ made' = 0
    BY DEF StoreFails, Pop
  <1>3. q.tab \in Tab
    BY <1>2, QueueGoesOn DEF Operation
  <1>4. Types'
    <2>1. NoRecords \in Records /\ 0 \in Secret
      BY Sizes DEF NoRecords, Records
    <2>2. wanted' \in [Tab -> Seq(Op)] /\ wanted' \in [Tab -> Seq(Operation)]
      BY <1>2, <1>3, WishGranted DEF StoreFails, Threw
    <2>3. sent' \in [Tab -> BOOLEAN] /\ broken' \subseteq Tab /\ newKey' \in [Tab -> Secret]
      BY <1>3, <2>1 DEF StoreFails, Threw, Inv, Types, TypeOK
    <2>4. mishaps' \in 0 .. MaxMishaps
      BY Sizes DEF StoreFails, Mishap, Inv, Types, TypeOK
    <2>5. queue' \in Seq(Op) /\ queue' \in Seq(Operation)
      BY <1>2, QueueGoesOn
    <2> QED BY <1>1, <1>2, <2>1, <2>2, <2>3, <2>4, <2>5 DEF Inv, Types, TypeOK, apiVars, histVars
  <1>5. Files'
    BY <1>1 DEF Inv, Files, Owned
  <1>6. Work'
    BY <1>2 DEF Work
  <1>7. Secrecy'
    <2>1. ASSUME NEW n \in 1 .. Len(queue'), queue'[n].op # "create", NEW s \in live
          PROVE  owner[s] # queue'[n].key
      BY <1>2, <2>1, QueueGoesOn DEF Inv, Secrecy
    <2> QED BY <1>1, <2>1 DEF Inv, Secrecy, Secrets, histVars
  <1>8. Calls'
    BY <1>1 DEF Inv, Calls, RemovedIsRefused, HandedOutWorks, apiVars, histVars
  <1>9. Sent'
    BY <1>2, <1>3, WishGranted DEF StoreFails, Threw
  <1> QED BY <1>4, <1>5, <1>6, <1>7, <1>8, <1>9 DEF Inv
LEMMA FlushKeeps ==
  ASSUME Inv, Flush
  PROVE  Inv'
PROOF
  <1>1. UNCHANGED <<file, queue, phase, copy, made, minted, owner, pageVars, apiVars, histVars, mishaps>> /\ durable' = file
    BY DEF Flush
  <1>2. Types'
    BY <1>1 DEF Inv, Types, TypeOK, pageVars, apiVars, histVars
  <1>3. Files' /\ Work'
    BY <1>1 DEF Inv, Files, Owned, Work, Subject
  <1>4. Sent' /\ Secrecy'
    BY <1>1 DEF Inv, Sent, Secrecy, Secrets, pageVars, histVars
  <1>5. Calls'
    BY <1>1 DEF Inv, Calls, RemovedIsRefused, HandedOutWorks, apiVars, histVars
  <1> QED BY <1>2, <1>3, <1>4, <1>5 DEF Inv

\* Whichever file comes back decides anew what is dead and live; calls break off.
LEMMA RestartKeeps ==
  ASSUME Parameters, Inv, NEW lost \in BOOLEAN, Restart(lost)
  PROVE  Inv'
PROOF
  <1>1. UNCHANGED <<durable, minted, owner, listed, newKey, presses, bearer, stale, good>>
    BY DEF Restart
  <1>2. queue' = <<>> /\ phase' = "next" /\ copy' = NoRecords /\ made' = 0 /\ file' \in {file, durable}
    BY DEF Restart
  <1>3. wanted' = [t \in Tab |-> <<>>] /\ sent' = [t \in Tab |-> FALSE]
    BY DEF Restart
  <1>4. call' = [i \in Call |-> IF call[i] \in {"reading", "forwarding"} THEN "failed" ELSE call[i]]
    BY DEF Restart
  <1>5. dead' = dead \ Secrets(file') /\ live' = live \cap Secrets(file')
    BY DEF Restart
  <1>6. Types'
    <2>1. NoRecords \in Records /\ 0 \in Secret
      BY Sizes DEF NoRecords, Records
    <2>2. queue' \in Seq(Op) /\ queue' \in Seq(Operation) /\ wanted' \in [Tab -> Seq(Op)] /\ wanted' \in [Tab -> Seq(Operation)]
      BY <1>2, <1>3
    <2>3. call' \in [Call -> {"idle", "reading", "forwarding"} \cup Ended]
      BY <1>4 DEF Inv, Types, TypeOK, Ended
    <2>4. broken' \subseteq Tab
      BY DEF Restart, Inv, Types, TypeOK
    <2>5. mishaps' \in 0 .. MaxMishaps
      BY Sizes DEF Restart, Mishap, Inv, Types, TypeOK
    <2> QED BY <1>1, <1>2, <1>3, <1>5, <2>1, <2>2, <2>3, <2>4, <2>5 DEF Inv, Types, TypeOK
  <1>7. Files'
    BY <1>1, <1>2 DEF Inv, Files, Owned
  <1>8. Sent' /\ Work'
    BY <1>2, <1>3 DEF Sent, Work
  <1>9. Secrecy'
    BY <1>1, <1>2, <1>5 DEF Inv, Secrecy
  <1>10. Calls'
    <2>1. \A i \in Call : call'[i] # "reading" /\ (call'[i] \in {call[i], "failed"})
      BY <1>4
    <2>2. stale \subseteq Call /\ good \subseteq Call
      BY DEF Inv, Types, TypeOK
    <2> QED BY <1>1, <2>1, <2>2 DEF Inv, Calls, RemovedIsRefused, HandedOutWorks
  <1> QED BY <1>6, <1>7, <1>8, <1>9, <1>10 DEF Inv

(***************************************************************************)
(* The admin API.                                                          *)
(***************************************************************************)

\* What only the calls hold does not disturb the rest.
LEMMA CallsOnly ==
  ASSUME Inv, UNCHANGED <<storeVars, pageVars, histVars>>
  PROVE  Sent' /\ Files' /\ Work' /\ Secrecy'
PROOF
  <1> USE DEF Inv, storeVars, pageVars, histVars
  <1>1. Sent' BY DEF Sent
  <1>2. Files' BY DEF Files, Owned
  <1>3. Work' BY DEF Work, Subject
  <1>4. Secrecy' BY DEF Secrecy, Secrets
  <1> QED BY <1>1, <1>2, <1>3, <1>4

LEMMA PresentKeeps ==
  ASSUME Inv, NEW i \in Call, NEW s \in Secret, Present(i, s)
  PROVE  Inv'
PROOF
  <1>1. UNCHANGED <<storeVars, pageVars, histVars, mishaps>> /\ call[i] = "idle"
    BY DEF Present
  <1>2. /\ call' = [call EXCEPT ![i] = IF ServiceToken THEN "reading" ELSE "unavailable"]
        /\ bearer' = [bearer EXCEPT ![i] = s]
        /\ stale' = IF s \in dead THEN stale \cup {i} ELSE stale
        /\ good' = IF s \in live THEN good \cup {i} ELSE good
    BY DEF Present
  <1>3. Types'
    BY <1>1, <1>2 DEF Inv, Types, TypeOK, Ended, storeVars, pageVars, histVars
  <1>4. i \notin stale \cup good /\ stale \subseteq Call /\ good \subseteq Call
    BY <1>1 DEF Inv, Calls, Types, TypeOK
  <1>5. \A j \in stale \cup good : call'[j] = call[j] /\ bearer'[j] = bearer[j]
    BY <1>2, <1>4 DEF Inv, Types, TypeOK
  <1>6. call'[i] \in {"reading", "unavailable"} /\ bearer'[i] = s
    BY <1>2 DEF Inv, Types, TypeOK
  <1>7. Calls'
    BY <1>1, <1>2, <1>5, <1>6 DEF Inv, Calls, RemovedIsRefused, HandedOutWorks, histVars
  <1> QED BY <1>1, <1>3, <1>7, CallsOnly DEF Inv

\* A call that is verified looks at the file; a dead secret is not in it, and a
\* live one is.
LEMMA CallsKeep ==
  ASSUME Parameters, Inv, NEW i \in Call, Verify(i) \/ VerifyFails(i) \/ Forward(i)
  PROVE  Inv'
PROOF
  <1>1. UNCHANGED <<bearer, stale, good, storeVars, pageVars, histVars>>
    BY DEF Verify, VerifyFails, Forward, Be
  <1>2. mishaps' \in 0 .. MaxMishaps
    BY Sizes DEF Verify, VerifyFails, Forward, Mishap, Inv, Types, TypeOK
  <1>3. PICK what \in Ended \cup {"forwarding"} :
            /\ call' = [call EXCEPT ![i] = what]
            /\ \/ /\ call[i] = "reading" /\ bearer[i] \in Secrets(file)
                  /\ what \in {"malformed", "denied", "forwarding"}
               \/ call[i] = "reading" /\ bearer[i] \notin Secrets(file) /\ what = "unauthorized"
               \/ call[i] = "reading" /\ what = "failed"
               \/ call[i] = "forwarding" /\ what \in {"unreachable", "forwarded"}
    BY DEF Verify, VerifyFails, Forward, Be, Ended
  <1>4. Types'
    BY <1>1, <1>2, <1>3 DEF Inv, Types, TypeOK, Ended, storeVars, pageVars, histVars
  <1>5. call'[i] = what /\ \A j \in Call \ {i} : call'[j] = call[j]
    BY <1>3 DEF Inv, Types, TypeOK
  <1>6. what \notin {"idle", "reading"}
    BY <1>3 DEF Ended
  <1>7. i \in stale => what \notin {"malformed", "denied", "forwarding", "forwarded"}
    BY <1>3 DEF Inv, Calls, RemovedIsRefused, Secrecy
  <1>8. i \in good => what # "unauthorized"
    BY <1>3 DEF Inv, Calls, Secrecy
  <1>9. stale \subseteq Call /\ good \subseteq Call
    BY DEF Inv, Types, TypeOK
  <1>10. Calls'
    BY <1>1, <1>5, <1>6, <1>7, <1>8, <1>9 DEF Inv, Calls, RemovedIsRefused, HandedOutWorks, histVars
  <1> QED BY <1>1, <1>4, <1>10, CallsOnly DEF Inv

LEMMA InvHolds == ASSUME Parameters PROVE Spec => []Inv
PROOF
  <1>1. Init => Inv
    BY InitInv
  <1>2. Inv /\ [Next]_vars => Inv'
    <2> SUFFICES ASSUME Inv, [Next]_vars PROVE Inv'  OBVIOUS
    <2>1. CASE Next
      <3>1. CASE \E t \in Tab : Reload(t) \/ Dismiss(t) \/ Send(t) \/ Create(t)
        BY <3>1, PagesKeep, SendKeeps
      <3>2. CASE \E t \in Tab, k \in Key : Confirm(t, "regenerate", k) \/ Confirm(t, "revoke", k)
        BY <3>2, PagesKeep
      <3>3. CASE Read \/ Write \/ Settle \/ StoreFails \/ Flush
        BY <3>3, ReadKeeps, WriteKeeps, SettleKeeps, StoreFailsKeeps, FlushKeeps
      <3>4. CASE Restart(TRUE) \/ Restart(FALSE)
        BY <3>4, RestartKeeps
      <3>5. CASE \E i \in Call : (\E s \in Secret : Present(i, s)) \/ Verify(i) \/ VerifyFails(i) \/ Forward(i)
        BY <3>5, PresentKeeps, CallsKeep
      <3> QED BY <2>1, <3>1, <3>2, <3>3, <3>4, <3>5 DEF Next
    <2>2. CASE UNCHANGED vars
      <3>1. UNCHANGED <<storeVars, pageVars, apiVars, histVars, mishaps>>
        BY <2>2 DEF vars
      <3>2. Types'
        BY <3>1 DEF Inv, Types, TypeOK, storeVars, pageVars, apiVars, histVars
      <3> QED BY <3>1, <3>2, PagesOnly, CallsOnly DEF Inv
    <2> QED BY <2>1, <2>2
  <1> QED BY <1>1, <1>2, PTL DEF Spec

\* The variables of the pages, the store and the proxy keep their types.
THEOREM TypeCorrect == ASSUME Parameters PROVE Spec => []TypeOK
PROOF
  <1>1. Inv => TypeOK  BY DEF Inv, Types
  <1> QED BY <1>1, InvHolds, PTL

\* Whatever waits in the queue, fails, restarts or is lost, no call that begins
\* with a secret whose removal was answered gets through (api-keys.ts:106-135).
THEOREM RemovedRefused == ASSUME Parameters PROVE Spec => []RemovedIsRefused
PROOF
  <1>1. Inv => RemovedIsRefused  BY DEF Inv, Calls
  <1> QED BY <1>1, InvHolds, PTL

\* No operation on another key, and no failure, takes a key away that was handed
\* out (api-keys.ts:74-75).
THEOREM HandedOutAccepted == ASSUME Parameters PROVE Spec => []HandedOutWorks
PROOF
  <1>1. Inv => HandedOutWorks  BY DEF Inv, Calls
  <1> QED BY <1>1, InvHolds, PTL
=============================================================================
