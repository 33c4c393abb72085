--------------------------- MODULE StateStoreProofs ---------------------------
(***************************************************************************)
(* The saved state of the tasks, for any scripts, tasks and numbers of     *)
(* calls and mishaps: a call touches its own task only, what does not      *)
(* overlap is merged, and a client is told the truth.                      *)
(***************************************************************************)
EXTENDS StateStore, TLAPS

\* The requests that the store has not answered; all but the one it has just
\* carried out are still to be.
Pending == net \cup Range(queue)
Done(q) == phase = "written" /\ q = Head(queue)

\* A call has one request at a time, and each stands in one place.
Requests ==
    /\ \A p, q \in Pending : p.id = q.id => p = q
    /\ \A q \in net : q \notin Range(queue)
    /\ \A m, n \in DOMAIN queue : queue[m] = queue[n] => m = n
    /\ \A q \in Pending : q.id \in 1 .. calls /\ (q.merge => q.op # "clear")
    /\ \A q \in Range(queue) : q.op # "get" /\ q.value \in Saved

Clients ==
    /\ \A c \in Client : doing[c] \in 0 .. calls
    /\ \A q \in Pending : doing[q.by] = q.id => (q.merge <=> kind[q.by] = "update")

\* The first of the queue works on the store as it is in the file.
Work ==
    /\ phase # "next" => queue # <<>>
    /\ phase = "read" /\ ~bad => copy = file

\* Where nothing overlapped, an update is the only writer of its task.
Alone == \A k \in Task \ excused : Merging(k) => \A i, j \in Live(k) : i = j

\* And it is about to save what the file holds, with its own entries.
Based ==
    \A q \in Pending :
        q.merge /\ q.op = "set" /\ ~Done(q) /\ KeyOf(q) \notin excused =>
            /\ file[KeyOf(q)] # List
            /\ q.value = {q.id} \cup (IF file[KeyOf(q)] = Nothing THEN {} ELSE file[KeyOf(q)])

\* What was applied, and what the clients were told of it.
Told ==
    /\ applied \subseteq 1 .. calls
    /\ \A q \in Pending : q.id \in applied <=> Done(q)
    /\ \A i \in Call : i > calls => answer[i] = "open"

Inv == TypeOK /\ Requests /\ Clients /\ Work /\ Alone /\ Based /\ Told /\ MergesKept /\ AnswersAreTrue

(***************************************************************************)
(* Lemmas on the queue and on the clients.                                 *)
(***************************************************************************)

LEMMA Appended ==
  ASSUME NEW T, NEW s \in Seq(T), NEW e \in T
  PROVE  /\ Range(Append(s, e)) = Range(s) \cup {e}
         /\ s # <<>> => Head(Append(s, e)) = Head(s)
         /\ (\A m, n \in DOMAIN s : s[m] = s[n] => m = n) /\ e \notin Range(s) =>
               LET a == Append(s, e) IN \A m, n \in DOMAIN a : a[m] = a[n] => m = n
PROOF
  <1> DEFINE a == Append(s, e)
  <1>1. a \in Seq(T) /\ Len(a) = Len(s) + 1 /\ a[Len(s) + 1] = e /\ \A n \in 1 .. Len(s) : a[n] = s[n]
    OBVIOUS
  <1>2. DOMAIN a = 1 .. Len(s) + 1 /\ DOMAIN s = 1 .. Len(s) /\ Len(s) \in Nat
    BY <1>1
  <1>3. s # <<>> => Head(a) = Head(s)
    OBVIOUS
  <1> HIDE DEF a
  <1>4. Range(a) = Range(s) \cup {e}
    <2>1. Range(a) \subseteq Range(s) \cup {e}
      BY <1>1, <1>2 DEF Range
    <2>2. Range(s) \subseteq Range(a)
      BY <1>1, <1>2 DEF Range
    <2>3. e \in Range(a)
      BY <1>1, <1>2 DEF Range
    <2> QED BY <2>1, <2>2, <2>3
  <1>5. ASSUME \A m, n \in DOMAIN s : s[m] = s[n] => m = n, e \notin Range(s),
               NEW m \in DOMAIN a, NEW n \in DOMAIN a, a[m] = a[n]
        PROVE  m = n
    BY <1>1, <1>2, <1>5 DEF Range
  <1> QED BY <1>3, <1>4, <1>5 DEF a

LEMMA Shifted ==
  ASSUME NEW T, NEW s \in Seq(T), s # <<>>
  PROVE  /\ Range(s) = Range(Tail(s)) \cup {Head(s)}
         /\ (\A m, n \in DOMAIN s : s[m] = s[n] => m = n) =>
               /\ Head(s) \notin Range(Tail(s))
               /\ LET r == Tail(s) IN \A m, n \in DOMAIN r : r[m] = r[n] => m = n
PROOF
  <1> DEFINE r == Tail(s)
  <1>1. r \in Seq(T) /\ Len(s) \in Nat \ {0} /\ Len(r) = Len(s) - 1 /\ \A n \in 1 .. Len(r) : r[n] = s[n + 1]
    OBVIOUS
  <1>2. DOMAIN r = 1 .. Len(r) /\ DOMAIN s = 1 .. Len(s) /\ Head(s) = s[1]
    BY <1>1
  <1> HIDE DEF r
  <1>3. Range(s) = Range(r) \cup {Head(s)}
    <2>1. \A n \in DOMAIN s : n = 1 \/ (n - 1 \in DOMAIN r /\ s[n] = r[n - 1])
      BY <1>1, <1>2
    <2>2. 1 \in DOMAIN s /\ \A n \in DOMAIN r : n + 1 \in DOMAIN s
      BY <1>1, <1>2
    <2>3. ASSUME NEW n \in DOMAIN s
          PROVE  s[n] \in Range(r) \cup {Head(s)}
      BY <1>2, <2>1, <2>3 DEF Range
    <2>4. ASSUME NEW n \in DOMAIN r
          PROVE  r[n] \in Range(s)
      <3>1. r[n] = s[n + 1]
        BY <1>1, <1>2
      <3> QED BY <2>2, <3>1 DEF Range
    <2>5. Head(s) \in Range(s)
      BY <1>2, <2>2 DEF Range
    <2>6. Range(s) \subseteq Range(r) \cup {Head(s)}
      BY <2>3 DEF Range
    <2>7. Range(r) \subseteq Range(s)
      BY <2>4 DEF Range
    <2> QED BY <2>5, <2>6, <2>7
  <1>4. ASSUME \A m, n \in DOMAIN s : s[m] = s[n] => m = n
        PROVE  Head(s) \notin Range(r) /\ \A m, n \in DOMAIN r : r[m] = r[n] => m = n
    <2>1. \A n \in DOMAIN r : n \in Nat \ {0} /\ n + 1 \in DOMAIN s /\ r[n] = s[n + 1]
      BY <1>1, <1>2
    <2>2. ASSUME NEW n \in DOMAIN r
          PROVE  r[n] # Head(s)
      <3>1. s[n + 1] = s[1] => n + 1 = 1
        BY <1>1, <1>2, <1>4, <2>1
      <3> QED BY <1>2, <2>1, <3>1
    <2>3. ASSUME NEW m \in DOMAIN r, NEW n \in DOMAIN r, r[m] = r[n]
          PROVE  m = n
      <3>1. m + 1 = n + 1
        BY <1>4, <2>1, <2>3
      <3> QED BY <2>1, <3>1
    <2> QED BY <2>2, <2>3 DEF Range
  <1> QED BY <1>3, <1>4 DEF r

\* Some clients stop waiting, and nothing else happens to them.
Fewer ==
    \A c \in Client : \/ doing'[c] = 0 /\ kind'[c] = "none"
                      \/ doing'[c] = doing[c] /\ kind'[c] = kind[c]

\* The requests on their way and in the queue, and the work on the first.
LEMMA InPlace ==
  ASSUME Parameters, TypeOK
  PROVE  /\ Pending \subseteq Request
         /\ \A q \in Pending : q.by \in Client /\ KeyOf(q) \in Task /\ q.id \in Call
         /\ queue # <<>> => Head(queue) \in Range(queue) /\ Head(queue) \in Pending
PROOF
  <1>1. Range(queue) \subseteq Request
    BY DEF TypeOK, Range
  <1>2. queue # <<>> => Head(queue) \in Range(queue)
    BY Shifted DEF TypeOK
  <1> QED BY <1>1, <1>2 DEF Pending, TypeOK, Request, KeyOf, Parameters

\* What goes away disturbs nothing of what stays.
LEMMA Shrinks ==
  ASSUME Parameters, Inv, Fewer, Pending' \subseteq Pending, excused \subseteq excused', calls' = calls
  PROVE  Clients' /\ Alone'
PROOF
  <1>1. \A q \in Pending : q.by \in Client /\ KeyOf(q) \in Task /\ q.id \in Call
    BY InPlace DEF Inv
  <1>2. Clients'
    <2>1. calls \in Nat /\ \A q \in Pending : q.id \in 1 .. calls
      BY DEF Inv, TypeOK, Requests, Parameters
    <2>2. \A c \in Client : doing'[c] \in 0 .. calls'
      BY <2>1 DEF Inv, Clients, Fewer
    <2>3. ASSUME NEW q \in Pending', doing'[q.by] = q.id
          PROVE  q.merge <=> kind'[q.by] = "update"
      BY <1>1, <2>1, <2>3 DEF Inv, Clients, Fewer
    <2> QED BY <2>2, <2>3 DEF Clients
  <1>3. ASSUME NEW k \in Task PROVE Live(k)' \subseteq Live(k)
    BY DEF Live, Fewer, Pending
  <1>4. ASSUME NEW k \in Task, Merging(k)' PROVE Merging(k)
    BY <1>4 DEF Merging, Fewer, Pending
  <1> QED BY <1>2, <1>3, <1>4 DEF Inv, Alone

LEMMA Stays ==
  ASSUME Parameters, Inv, Pending' \subseteq Pending, UNCHANGED <<file, applied, excused, due, calls>>,
         \A q \in Pending' : Done(q)' <=> Done(q)
  PROVE  /\ Based' /\ MergesKept'
         /\ applied' \subseteq 1 .. calls' /\ \A q \in Pending' : q.id \in applied' <=> Done(q)'
PROOF
  <1>1. Based'
    BY DEF Inv, Based, KeyOf
  <1> QED BY <1>1 DEF Inv, MergesKept, Told

\* A client hears what became of its call, if it still waits.
LEMMA Answered ==
  ASSUME Parameters, Inv, NEW q \in Pending, NEW how \in {"ended", "ok", "refused"}, End(q, how),
         Pending' \subseteq Pending, applied' = applied,
         how = "ok" => Done(q),
         how = "refused" => ~Done(q) /\ q \notin Pending'
  PROVE  /\ Fewer /\ AnswersAreTrue' /\ calls' = calls
         /\ \A i \in Call : i > calls' => answer'[i] = "open"
         /\ doing' \in [Client -> Call \cup {0}]
         /\ kind' \in [Client -> {"none", "get", "set", "clear", "update"}]
         /\ \A c \in Client : doing'[c] = 0 <=> kind'[c] = "none"
         /\ answer' \in [Call -> {"open", "ended", "ok", "refused"}]
PROOF
  <1>1. q.by \in Client /\ q.id \in Call /\ q.id \in 1 .. calls
    BY InPlace DEF Inv, Requests
  <1>2. calls' = calls /\ Fewer
    BY <1>1 DEF End, clientVars, Fewer, Inv, TypeOK
  <1>3. /\ doing' \in [Client -> Call \cup {0}]
        /\ kind' \in [Client -> {"none", "get", "set", "clear", "update"}]
        /\ \A c \in Client : doing'[c] = 0 <=> kind'[c] = "none"
        /\ answer' \in [Call -> {"open", "ended", "ok", "refused"}]
    BY <1>1 DEF End, clientVars, Inv, TypeOK
  <1>4. \A i \in Call : answer'[i] = answer[i] \/ (i = q.id /\ answer'[i] = how)
    BY <1>1 DEF End, clientVars, Inv, TypeOK
  <1>5. \A i \in Call : i > calls' => answer'[i] = "open"
    <2>1. \A i \in Call : i > calls => i # q.id
      BY <1>1 DEF Inv, TypeOK
    <2> QED BY <1>2, <1>4, <2>1 DEF Inv, Told
  <1>6. AnswersAreTrue'
    <2>1. q.id \in applied <=> Done(q)
      BY DEF Inv, Told
    <2>2. \A p \in Pending : p.id = q.id => p = q
      BY DEF Inv, Requests
    <2>3. ASSUME NEW i \in Call
          PROVE  /\ answer'[i] = "ok" => i \in applied'
                 /\ answer'[i] = "refused" => i \notin applied' /\ \A p \in Pending' : p.id # i
      <3>1. CASE answer'[i] = answer[i]
        BY <3>1 DEF Inv, AnswersAreTrue, Pending
      <3>2. CASE i = q.id /\ answer'[i] = how
        BY <2>1, <2>2, <3>2
      <3> QED BY <1>4, <3>1, <3>2
    <2> QED BY <2>3 DEF AnswersAreTrue, Pending
  <1> QED BY <1>2, <1>3, <1>5, <1>6

(***************************************************************************)
(* The clients.                                                            *)
(***************************************************************************)

\* A new call: an update that meets another writer, or a writer that meets an
\* update, puts the task among the excused.
LEMMA AskKeeps ==
  ASSUME Parameters, Inv, NEW c \in Client, NEW what \in {"get", "set", "update", "clear"},
         NEW value \in Saved \cup {Huge}, Ask(c, what, value)
  PROVE  Inv'
PROOF
  <1> DEFINE k == TaskOf[c]
             new == [id |-> calls + 1, by |-> c, op |-> IF what = "update" THEN "get" ELSE what,
                     value |-> value, merge |-> (what = "update")]
  <1>1. /\ calls' = calls + 1 /\ net' = net \cup {new}
        /\ doing' = [doing EXCEPT ![c] = calls + 1]
        /\ kind' = [kind EXCEPT ![c] = what]
        /\ excused' = IF what # "get" /\ Live(k) # {} /\ (what = "update" \/ Merging(k))
                      THEN excused \cup {k} ELSE excused
        /\ UNCHANGED <<answer, file, queue, phase, copy, bad, applied, due, mishaps>>
        /\ doing[c] = 0 /\ calls < MaxCalls
    BY DEF Ask
  <1>2. calls \in Nat /\ MaxCalls \in Nat /\ calls + 1 \in Call /\ k \in Task
    BY <1>1 DEF Inv, TypeOK, Parameters, Call
  <1>3. new \in Request
    BY <1>2 DEF Request
  <1>4. /\ new.id = calls + 1 /\ new.by = c /\ new.merge = (what = "update") /\ KeyOf(new) = k
        /\ new.op = IF what = "update" THEN "get" ELSE what
    BY DEF KeyOf
  <1> HIDE DEF new
  <1>5. Pending' = Pending \cup {new}
    BY <1>1 DEF Pending
  <1>6. \A q \in Pending : q.id \in 1 .. calls /\ q.by \in Client
    BY InPlace DEF Inv, Requests
  <1>7. new \notin Pending /\ new \notin Range(queue)
    BY <1>2, <1>4, <1>6 DEF Pending
  <1>8. TypeOK'
    BY <1>1, <1>2, <1>3 DEF Inv, TypeOK
  <1>9. Requests'
    <2>1. \A p, q \in Pending' : p.id = q.id => p = q
      BY <1>2, <1>4, <1>5, <1>6 DEF Inv, Requests
    <2>2. ASSUME NEW q \in Pending' PROVE q.id \in 1 .. calls' /\ (q.merge => q.op # "clear")
      <3>1. CASE q = new
        <4>1. q.merge => q.op = "get"
          BY <1>4, <3>1
        <4> QED BY <1>1, <1>2, <1>4, <3>1, <4>1
      <3>2. CASE q \in Pending
        <4>1. q.id \in 1 .. calls /\ (q.merge => q.op # "clear")
          BY <3>2 DEF Inv, Requests
        <4> QED BY <1>1, <1>2, <4>1
      <3> QED BY <1>5, <3>1, <3>2
    <2> QED BY <1>1, <1>7, <2>1, <2>2 DEF Inv, Requests
  <1>10. Clients'
    <2>1. doing' \in [Client -> Nat] /\ doing'[c] = calls + 1 /\ \A d \in Client \ {c} : doing'[d] = doing[d]
      BY <1>1, <1>2 DEF Inv, TypeOK, Call
    <2>2. kind'[c] = what /\ \A d \in Client \ {c} : kind'[d] = kind[d]
      BY <1>1 DEF Inv, TypeOK
    <2>3. \A d \in Client : doing'[d] \in 0 .. calls'
      BY <1>1, <1>2, <2>1 DEF Inv, Clients
    <2>4. ASSUME NEW q \in Pending', doing'[q.by] = q.id
          PROVE  q.merge <=> kind'[q.by] = "update"
      <3>1. CASE q = new
        BY <1>4, <2>2, <3>1
      <3>2. CASE q \in Pending
        <4>1. q.by # c
          BY <1>2, <1>6, <2>1, <2>4, <3>2
        <4> QED BY <1>6, <2>1, <2>2, <2>4, <3>2, <4>1 DEF Inv, Clients
      <3> QED BY <1>5, <3>1, <3>2
    <2> QED BY <2>3, <2>4 DEF Clients
  <1>11. Alone'
    <2>1. Live(k)' = Live(k) \cup (IF what = "get" THEN {} ELSE {calls + 1})
      <3>1. ASSUME NEW i PROVE i \in Live(k)' => i \in Live(k) \/ (what # "get" /\ i = calls + 1)
        <4>1. ASSUME NEW q \in Pending', q.op # "get", KeyOf(q) = k, i = q.id
              PROVE  i \in Live(k) \/ (what # "get" /\ i = calls + 1)
          BY <1>4, <1>5, <4>1 DEF Live, Pending
        <4>2. ASSUME NEW d \in Client, doing'[d] # 0, kind'[d] # "get", TaskOf[d] = k, i = doing'[d]
              PROVE  i \in Live(k) \/ (what # "get" /\ i = calls + 1)
          BY <1>1, <4>2 DEF Live, Inv, TypeOK
        <4> QED BY <4>1, <4>2 DEF Live, Pending, KeyOf
      <3>2. ASSUME NEW i \in Live(k) PROVE i \in Live(k)'
        <4>1. ASSUME NEW q \in Pending, q.op # "get", KeyOf(q) = k, i = q.id PROVE i \in Live(k)'
          BY <1>5, <4>1 DEF Live, Pending, KeyOf
        <4>2. ASSUME NEW d \in Client, doing[d] # 0, kind[d] # "get", TaskOf[d] = k, i = doing[d]
              PROVE  i \in Live(k)'
          <5>1. d # c
            BY <1>1, <4>2
          <5>2. doing'[d] = doing[d] /\ kind'[d] = kind[d]
            BY <1>1, <5>1 DEF Inv, TypeOK
          <5> QED BY <4>2, <5>2 DEF Live
        <4> QED BY <3>2, <4>1, <4>2 DEF Live, Pending
      <3>3. what # "get" => calls + 1 \in Live(k)'
        <4>1. doing'[c] = calls + 1 /\ kind'[c] = what /\ calls + 1 # 0
          BY <1>1, <1>2 DEF Inv, TypeOK
        <4> QED BY <4>1 DEF Live
      <3> QED BY <3>1, <3>2, <3>3
    <2>2. Merging(k)' <=> Merging(k) \/ what = "update"
      <3>1. \A d \in Client : kind'[d] = IF d = c THEN what ELSE kind[d]
        BY <1>1 DEF Inv, TypeOK
      <3>2. kind[c] = "none"
        BY <1>1 DEF Inv, TypeOK
      <3> QED BY <1>4, <1>5, <3>1, <3>2 DEF Merging, Pending, KeyOf
    <2>3. ASSUME NEW j \in Task \ {k} PROVE Live(j)' = Live(j) /\ (Merging(j)' <=> Merging(j))
      <3>1. \A d \in Client : TaskOf[d] = j => d # c
        OBVIOUS
      <3>2. \A d \in Client : TaskOf[d] = j => doing'[d] = doing[d] /\ kind'[d] = kind[d]
        BY <1>1, <3>1 DEF Inv, TypeOK
      <3> QED BY <1>4, <1>5, <3>2 DEF Live, Merging, Pending, KeyOf
    <2>4. ASSUME NEW j \in Task, j \notin excused', Merging(j)' PROVE \A m, n \in Live(j)' : m = n
      <3>1. j \notin excused
        BY <1>1, <2>4
      <3>2. CASE j # k
        BY <2>3, <2>4, <3>1, <3>2 DEF Inv, Alone
      <3>3. CASE j = k /\ what = "get"
        BY <2>1, <2>2, <2>4, <3>1, <3>3 DEF Inv, Alone
      <3>4. CASE j = k /\ what # "get"
        <4>1. Live(k) = {}
          BY <1>1, <2>2, <2>4, <3>4
        <4> QED BY <2>1, <3>4, <4>1
      <3> QED BY <3>2, <3>3, <3>4
    <2> QED BY <2>4 DEF Alone
  <1>12. Work' /\ MergesKept'
    BY <1>1 DEF Inv, Work, MergesKept
  <1>13. Based'
    <2>1. \A q \in Pending' : q.merge /\ q.op = "set" => q \in Pending
      BY <1>4, <1>5
    <2>2. excused \subseteq excused'
      BY <1>1
    <2> QED BY <1>1, <2>1, <2>2 DEF Inv, Based, Done, KeyOf
  <1>14. Told'
    <2>1. ~Done(new)
      BY <1>7, InPlace DEF Done, Inv, Work
    <2>2. new.id \notin applied
      BY <1>2, <1>4 DEF Inv, Told
    <2>3. \A q \in Pending' : q.id \in applied' <=> Done(q)'
      BY <1>1, <1>5, <2>1, <2>2 DEF Inv, Told, Done
    <2>4. applied' \subseteq 1 .. calls' /\ \A i \in Call : i > calls' => answer'[i] = "open"
      BY <1>1, <1>2 DEF Inv, Told, Call
    <2> QED BY <2>3, <2>4 DEF Told
  <1>15. AnswersAreTrue'
    <2>1. answer[calls + 1] = "open"
      BY <1>2 DEF Inv, Told
    <2>2. \A i \in Call : answer'[i] = "refused" => i # calls + 1
      BY <1>1, <2>1
    <2>3. \A q \in Pending' : q \in Pending \/ q.id = calls + 1
      BY <1>4, <1>5
    <2> QED BY <1>1, <2>2, <2>3 DEF Inv, AnswersAreTrue, Pending
  <1> QED BY <1>8, <1>9, <1>10, <1>11, <1>12, <1>13, <1>14, <1>15 DEF Inv

LEMMA CallsKeep ==
  ASSUME Parameters, Inv, NEW c \in Client, Calls(c)
  PROVE  Inv'
PROOF
  <1>1. PICK what \in Uses[c] :
           IF what = "set" THEN \E value \in {{calls + 1}, List, Huge} : Ask(c, what, value)
           ELSE Ask(c, what, Nothing)
    BY DEF Calls
  <1>2. what \in {"get", "set", "update", "clear"}
    BY DEF Parameters
  <1>3. calls < MaxCalls => {calls + 1} \in SUBSET Call
    BY DEF Inv, TypeOK, Parameters, Call
  <1>4. List \in Saved /\ Nothing \in Saved
    BY DEF Saved, Value
  <1>5. calls < MaxCalls => {calls + 1} \in Saved
    BY <1>3 DEF Saved, Value
  <1>6. ASSUME NEW value, Ask(c, what, value), value \in {{calls + 1}, List, Huge, Nothing} PROVE Inv'
    <2>1. calls < MaxCalls
      BY <1>6 DEF Ask
    <2>2. value \in Saved \cup {Huge}
      BY <1>4, <1>5, <1>6, <2>1
    <2> QED BY <1>2, <1>6, <2>2, AskKeeps
  <1> QED BY <1>1, <1>6

LEMMA GiveUpKeeps ==
  ASSUME Parameters, Inv, NEW c \in Client, GiveUp(c)
  PROVE  Inv'
PROOF
  <1>1. /\ doing' = [doing EXCEPT ![c] = 0] /\ kind' = [kind EXCEPT ![c] = "none"]
        /\ answer' = [answer EXCEPT ![doing[c]] = "ended"]
        /\ UNCHANGED <<calls, storeVars, histVars, mishaps>>
        /\ doing[c] # 0
    BY DEF GiveUp
  <1>2. Pending' = Pending /\ \A q : Done(q)' <=> Done(q)
    BY <1>1 DEF Pending, Done, storeVars
  <1>3. TypeOK'
    BY <1>1 DEF Inv, TypeOK, storeVars, histVars
  <1>4. Fewer
    BY <1>1 DEF Fewer, Inv, TypeOK
  <1>5. Clients' /\ Alone'
    BY <1>1, <1>2, <1>4, Shrinks DEF histVars
  <1>6. Requests' /\ Work'
    BY <1>1, <1>2 DEF Inv, Requests, Work, storeVars
  <1>7. Based' /\ MergesKept' /\ applied' \subseteq 1 .. calls' /\ \A q \in Pending' : q.id \in applied' <=> Done(q)'
    BY <1>1, <1>2, Stays DEF storeVars, histVars
  <1>8. \A i \in Call : answer'[i] \in {answer[i], "ended"}
    BY <1>1 DEF Inv, TypeOK
  <1>9. \A i \in Call : i > calls' => answer'[i] = "open"
    <2>1. doing[c] \in 0 .. calls /\ calls \in Nat
      BY DEF Inv, TypeOK, Clients, Parameters
    <2>2. \A i \in Call : i > calls => answer'[i] = answer[i]
      BY <1>1, <2>1 DEF Inv, TypeOK, Call
    <2> QED BY <1>1, <2>2 DEF Inv, Told
  <1>10. AnswersAreTrue'
    BY <1>1, <1>2, <1>8 DEF Inv, AnswersAreTrue, Pending, storeVars, histVars
  <1> QED BY <1>3, <1>5, <1>6, <1>7, <1>9, <1>10 DEF Inv, Told

(***************************************************************************)
(* The store.                                                              *)
(***************************************************************************)

\* What is still in its place after a request has left it.
LEMMA Leaves ==
  ASSUME Parameters, Inv, NEW q \in Pending, NEW how \in {"ended", "ok", "refused"}, End(q, how),
         Pending' = Pending \ {q}, UNCHANGED <<file, applied, excused, due>>,
         \A p \in Pending' : Done(p)' <=> Done(p),
         how = "ok" => Done(q), how = "refused" => ~Done(q)
  PROVE  /\ Clients' /\ Alone' /\ Based' /\ MergesKept' /\ Told' /\ AnswersAreTrue' /\ calls' = calls
         /\ doing' \in [Client -> Call \cup {0}]
         /\ kind' \in [Client -> {"none", "get", "set", "clear", "update"}]
         /\ \A c \in Client : doing'[c] = 0 <=> kind'[c] = "none"
         /\ answer' \in [Call -> {"open", "ended", "ok", "refused"}]
PROOF
  <1>1. Pending' \subseteq Pending /\ q \notin Pending'
    OBVIOUS
  <1>2. /\ Fewer /\ AnswersAreTrue' /\ calls' = calls
        /\ \A i \in Call : i > calls' => answer'[i] = "open"
        /\ doing' \in [Client -> Call \cup {0}]
        /\ kind' \in [Client -> {"none", "get", "set", "clear", "update"}]
        /\ \A c \in Client : doing'[c] = 0 <=> kind'[c] = "none"
        /\ answer' \in [Call -> {"open", "ended", "ok", "refused"}]
    BY <1>1, Answered
  <1>3. Clients' /\ Alone'
    BY <1>1, <1>2, Shrinks
  <1>4. Based' /\ MergesKept' /\ applied' \subseteq 1 .. calls' /\ \A p \in Pending' : p.id \in applied' <=> Done(p)'
    BY <1>1, <1>2, Stays
  <1> QED BY <1>2, <1>3, <1>4 DEF Told

\* A get is answered, or goes on as the set of an update, based on what is there.
LEMMA GetKeeps ==
  ASSUME Parameters, Inv, NEW q \in net, NEW unreadable \in BOOLEAN, Get(q, unreadable)
  PROVE  Inv'
PROOF
  <1> DEFINE k == KeyOf(q)
             found == Found(k, unreadable)
             next == [q EXCEPT !.op = "set", !.value = {q.id} \cup (IF found = Nothing THEN {} ELSE found)]
  <1>1. /\ q.op = "get"
        /\ UNCHANGED <<file, queue, phase, copy, bad, applied, due>>
        /\ IF unreadable THEN Mishap ELSE mishaps' = mishaps
    BY DEF Get
  <1>2. q \in Pending /\ q \in Request /\ q.id \in Call /\ k \in Task /\ q.by \in Client /\ q \notin Range(queue)
    BY InPlace DEF Pending, Inv, Requests
  <1>3. mishaps' \in 0 .. MaxMishaps
    BY <1>1 DEF Mishap, Inv, TypeOK, Parameters
  <1>4. \A p : Done(p)' <=> Done(p)
    BY <1>1 DEF Done
  <1>5. ~Done(q)
    BY <1>2, InPlace DEF Done, Inv, Work
  <1>6. Work'
    BY <1>1 DEF Inv, Work
  <1>7. ASSUME NEW how \in {"ended", "refused"}, net' = net \ {q}, End(q, how), UNCHANGED excused
        PROVE  Inv'
    <2>1. Pending' = Pending \ {q}
      BY <1>1, <1>2, <1>7 DEF Pending
    <2>2. /\ Clients' /\ Alone' /\ Based' /\ MergesKept' /\ Told' /\ AnswersAreTrue' /\ calls' = calls
          /\ doing' \in [Client -> Call \cup {0}]
          /\ kind' \in [Client -> {"none", "get", "set", "clear", "update"}]
          /\ \A c \in Client : doing'[c] = 0 <=> kind'[c] = "none"
          /\ answer' \in [Call -> {"open", "ended", "ok", "refused"}]
      BY <1>1, <1>2, <1>4, <1>5, <1>7, <2>1, Leaves
    <2>3. TypeOK'
      BY <1>1, <1>3, <1>7, <2>2 DEF Inv, TypeOK
    <2>4. Requests'
      BY <1>1, <1>7, <2>1, <2>2 DEF Inv, Requests
    <2> QED BY <1>6, <2>2, <2>3, <2>4 DEF Inv
  <1>8. ASSUME q.merge, doing[q.by] = q.id, found # List, net' = (net \ {q}) \cup {next},
               excused' = IF unreadable THEN excused \cup {k} ELSE excused, UNCHANGED clientVars
        PROVE  Inv'
    <2>1. found \in Saved
      BY <1>2 DEF Found, Saved, Inv, TypeOK, Store
    <2>2. {q.id} \cup (IF found = Nothing THEN {} ELSE found) \in SUBSET Call
      <3>1. found # Nothing => found \in SUBSET Call
        BY <1>8, <2>1 DEF Saved, Value
      <3> HIDE DEF found
      <3> QED BY <1>2, <3>1
    <2>3. /\ next \in Request /\ next.id = q.id /\ next.by = q.by /\ next.op = "set" /\ next.merge = q.merge
          /\ next.value = {q.id} \cup (IF found = Nothing THEN {} ELSE found) /\ KeyOf(next) = k
      BY <1>2, <2>2 DEF Request, KeyOf, Saved, Value
    <2> HIDE DEF next, found
    <2>4. \A p \in Pending : p.id = q.id => p = q
      BY <1>2 DEF Inv, Requests
    <2>5. next \notin Pending
      BY <1>1, <2>3, <2>4
    <2>6. Pending' = (Pending \ {q}) \cup {next}
      BY <1>1, <1>2, <1>8 DEF Pending
    <2>7. UNCHANGED <<doing, kind, calls, answer>>
      BY <1>8 DEF clientVars
    <2>8. kind[q.by] = "update" /\ doing[q.by] # 0
      BY <1>2, <1>8 DEF Inv, Clients, Call
    <2>9. TypeOK'
      BY <1>1, <1>2, <1>3, <1>8, <2>3, <2>7 DEF Inv, TypeOK
    <2>10. Requests'
      <3>1. \A p, r \in Pending' : p.id = r.id => p = r
        BY <2>3, <2>4, <2>6 DEF Inv, Requests
      <3>2. \A p \in Pending' : p.id \in 1 .. calls' /\ (p.merge => p.op # "clear")
        BY <1>2, <2>3, <2>6, <2>7 DEF Inv, Requests
      <3>3. \A p \in net' : p \notin Range(queue)
        BY <1>8, <2>5 DEF Pending, Inv, Requests
      <3> QED BY <1>1, <3>1, <3>2, <3>3 DEF Inv, Requests
    <2>11. Clients'
      BY <1>2, <2>3, <2>6, <2>7 DEF Inv, Clients
    <2>12. Alone'
      <3>1. ASSUME NEW j \in Task PROVE Live(j)' \subseteq Live(j)
        <4>1. j = k => q.id \in Live(j)
          BY <1>2, <1>8, <2>8 DEF Live, KeyOf
        <4> QED BY <2>3, <2>6, <2>7, <4>1 DEF Live, Pending, KeyOf
      <3>2. ASSUME NEW j \in Task, Merging(j)' PROVE Merging(j)
        BY <1>8, <2>3, <2>6, <2>7, <3>2, <1>2 DEF Merging, Pending, KeyOf
      <3>3. excused \subseteq excused'
        BY <1>8
      <3> QED BY <3>1, <3>2, <3>3 DEF Inv, Alone
    <2>13. MergesKept'
      BY <1>1, <1>8 DEF Inv, MergesKept
    <2>14. Based'
      <3>1. k \notin excused' => found = file[k]
        BY <1>8 DEF found, Found
      <3>2. \A p \in Pending' : KeyOf(p)' = KeyOf(p)
        BY DEF KeyOf
      <3>3. excused \subseteq excused'
        BY <1>8
      <3> QED BY <1>1, <1>4, <1>8, <2>3, <2>6, <3>1, <3>2, <3>3 DEF Inv, Based
    <2>15. Told'
      <3>1. ~Done(next)
        BY <2>5, InPlace DEF Done, Inv, Work
      <3> QED BY <1>1, <1>2, <1>4, <1>5, <2>3, <2>6, <2>7, <3>1 DEF Inv, Told
    <2>16. AnswersAreTrue'
      BY <1>1, <1>2, <2>3, <2>6, <2>7 DEF Inv, AnswersAreTrue, Pending
    <2> QED BY <1>6, <2>9, <2>10, <2>11, <2>12, <2>13, <2>14, <2>15, <2>16 DEF Inv
  <1> QED BY <1>7, <1>8 DEF Get

\* A set or a clear is refused, or queued.
LEMMA ArriveKeeps ==
  ASSUME Parameters, Inv, NEW q \in net, Arrive(q)
  PROVE  Inv'
PROOF
  <1>1. q.op # "get" /\ net' = net \ {q} /\ UNCHANGED <<file, phase, copy, bad, applied, due, excused, mishaps>>
    BY DEF Arrive, histVars
  <1>2. q \in Pending /\ q \in Request /\ q.id \in Call /\ q \notin Range(queue) /\ queue \in Seq(Request)
    BY InPlace DEF Pending, Inv, TypeOK, Requests
  <1>3. ~Done(q)
    BY <1>2, InPlace DEF Done, Inv, Work
  <1>4. CASE q.value = Huge /\ End(q, "refused") /\ UNCHANGED queue
    <2>1. Pending' = Pending \ {q} /\ \A p : Done(p)' <=> Done(p)
      BY <1>1, <1>2, <1>4 DEF Pending, Done
    <2>2. /\ Clients' /\ Alone' /\ Based' /\ MergesKept' /\ Told' /\ AnswersAreTrue' /\ calls' = calls
          /\ doing' \in [Client -> Call \cup {0}]
          /\ kind' \in [Client -> {"none", "get", "set", "clear", "update"}]
          /\ \A c \in Client : doing'[c] = 0 <=> kind'[c] = "none"
          /\ answer' \in [Call -> {"open", "ended", "ok", "refused"}]
      BY <1>1, <1>2, <1>3, <1>4, <2>1, Leaves
    <2>3. TypeOK'
      BY <1>1, <1>4, <2>2 DEF Inv, TypeOK
    <2>4. Requests' /\ Work'
      BY <1>1, <1>4, <2>1, <2>2 DEF Inv, Requests, Work
    <2> QED BY <2>2, <2>3, <2>4 DEF Inv
  <1>5. CASE q.value # Huge /\ queue' = Append(queue, q) /\ UNCHANGED clientVars
    <2>1. /\ Range(queue') = Range(queue) \cup {q} /\ queue' \in Seq(Request) /\ queue' # <<>>
          /\ queue # <<>> => Head(queue') = Head(queue)
          /\ \A m, n \in DOMAIN queue' : queue'[m] = queue'[n] => m = n
      BY <1>2, <1>5, Appended DEF Inv, Requests
    <2>2. Pending' = Pending
      BY <1>1, <1>2, <2>1 DEF Pending
    <2>3. UNCHANGED <<doing, kind, calls, answer>>
      BY <1>5 DEF clientVars
    <2>4. \A p : Done(p)' <=> Done(p)
      BY <1>1, <2>1 DEF Done, Inv, Work
    <2>5. TypeOK'
      BY <1>1, <2>1, <2>3 DEF Inv, TypeOK
    <2>6. q.value \in Saved
      BY <1>2, <1>5 DEF Request
    <2>7. Requests'
      BY <1>1, <1>2, <2>1, <2>2, <2>3, <2>6 DEF Inv, Requests
    <2>8. Clients' /\ Alone'
      BY <1>1, <2>2, <2>3, Shrinks DEF Fewer
    <2>9. Based' /\ MergesKept' /\ applied' \subseteq 1 .. calls' /\ \A p \in Pending' : p.id \in applied' <=> Done(p)'
      BY <1>1, <2>2, <2>3, <2>4, Stays
    <2>10. AnswersAreTrue' /\ Work'
      BY <1>1, <2>1, <2>2, <2>3 DEF Inv, AnswersAreTrue, Pending, Work
    <2> QED BY <2>3, <2>5, <2>7, <2>8, <2>9, <2>10 DEF Inv, Told
  <1> QED BY <1>4, <1>5 DEF Arrive

LEMMA ReadKeeps ==
  ASSUME Parameters, Inv, NEW unreadable \in BOOLEAN, Read(unreadable)
  PROVE  Inv'
PROOF
  <1>1. /\ queue # <<>> /\ phase = "next" /\ phase' = "read" /\ bad' = unreadable
        /\ copy' = IF unreadable THEN Empty ELSE file
        /\ IF unreadable THEN Mishap ELSE mishaps' = mishaps
        /\ UNCHANGED <<file, net, queue, doing, kind, calls, answer, applied, due, excused>>
    BY DEF Read, clientVars, histVars
  <1>2. Pending' = Pending /\ \A p : Done(p)' <=> Done(p)
    BY <1>1 DEF Pending, Done
  <1>3. TypeOK'
    <2>1. mishaps' \in 0 .. MaxMishaps
      BY <1>1 DEF Mishap, Inv, TypeOK, Parameters
    <2>2. copy' \in Store
      BY <1>1 DEF Empty, Store, Saved, Inv, TypeOK
    <2> QED BY <1>1, <2>1, <2>2 DEF Inv, TypeOK
  <1>4. Requests' /\ Work'
    BY <1>1, <1>2 DEF Inv, Requests, Work
  <1>5. Clients' /\ Alone'
    BY <1>1, <1>2, Shrinks DEF Fewer
  <1>6. Based' /\ MergesKept' /\ applied' \subseteq 1 .. calls' /\ \A p \in Pending' : p.id \in applied' <=> Done(p)'
    BY <1>1, <1>2, Stays
  <1>7. AnswersAreTrue'
    BY <1>1, <1>2 DEF Inv, AnswersAreTrue, Pending
  <1> QED BY <1>1, <1>3, <1>4, <1>5, <1>6, <1>7 DEF Inv, Told

\* The only step that changes the file.
LEMMA WriteKeeps ==
  ASSUME Parameters, Inv, Write
  PROVE  Inv'
PROOF
  <1> DEFINE q == Head(queue)
             k == KeyOf(q)
  <1>1. /\ queue # <<>> /\ phase = "read" /\ phase' = "written"
        /\ file' = IF q.op = "clear" /\ copy[k] = Nothing THEN file ELSE Changed(q)
        /\ applied' = applied \cup {q.id}
        /\ due' = [due EXCEPT ![k] = IF q.op = "clear" THEN Nothing
                                     ELSE IF q.merge THEN {q.id} \cup (IF @ \in {Nothing, List} THEN {} ELSE @)
                                     ELSE q.value]
        /\ excused' = IF bad THEN Task ELSE excused
        /\ UNCHANGED <<net, queue, copy, bad, doing, kind, calls, answer, mishaps>>
    BY DEF Write, clientVars
  <1>2. /\ q \in Pending /\ q \in Request /\ q \in Range(queue) /\ q.id \in Call /\ q.id \in 1 .. calls /\ k \in Task
        /\ q.op \in {"set", "clear"} /\ (q.merge => q.op = "set") /\ q.value \in Saved
    <2>1. q \in Pending /\ q \in Range(queue)
      BY <1>1, InPlace DEF Inv
    <2>2. q.op # "get" /\ q.value \in Saved /\ q.id \in 1 .. calls /\ (q.merge => q.op # "clear")
      BY <2>1 DEF Inv, Requests
    <2> QED BY <2>1, <2>2, InPlace DEF Inv, Request
  <1> HIDE DEF q, k
  <1>3. /\ file \in [Task -> Saved] /\ copy \in [Task -> Saved] /\ due \in [Task -> Saved]
        /\ Nothing \in Saved
    BY DEF Inv, TypeOK, Store, Saved
  <1>4. Changed(q) = [copy EXCEPT ![k] = IF q.op = "clear" THEN Nothing ELSE q.value]
    BY DEF Changed, k
  <1>5. file' \in [Task -> Saved]
    BY <1>1, <1>2, <1>3, <1>4
  <1>6. \A j \in Task \ {k} : due'[j] = due[j]
    BY <1>1, <1>3
  <1>7. ~bad => /\ \A j \in Task \ {k} : file'[j] = file[j]
                /\ file'[k] = IF q.op = "clear" THEN Nothing ELSE q.value
    <2>1. ~bad => copy = file
      BY <1>1 DEF Inv, Work
    <2> QED BY <1>1, <1>2, <1>3, <1>4, <2>1
  <1>8. \A p \in Pending : Done(p)' <=> p = q
    BY <1>1 DEF Done, q
  <1>9. \A p : ~Done(p)
    BY <1>1 DEF Done
  <1>10. Pending' = Pending
    BY <1>1 DEF Pending
  <1>11. due' \in [Task -> Saved]
    <2>1. {q.id} \cup (IF due[k] \in {Nothing, List} THEN {} ELSE due[k]) \in Saved
      <3>1. due[k] \notin {Nothing, List} => due[k] \in SUBSET Call
        BY <1>2, <1>3 DEF Saved, Value
      <3>2. {q.id} \cup (IF due[k] \in {Nothing, List} THEN {} ELSE due[k]) \in SUBSET Call
        BY <1>2, <3>1
      <3> QED BY <3>2 DEF Saved, Value
    <2> QED BY <1>1, <1>2, <1>3, <2>1
  <1>12. TypeOK'
    BY <1>1, <1>2, <1>5, <1>11 DEF Inv, TypeOK, Store
  <1>13. Requests' /\ Work'
    BY <1>1, <1>10 DEF Inv, Requests, Work
  <1>14. excused \subseteq excused' /\ (bad => excused' = Task)
    BY <1>1 DEF Inv, TypeOK
  <1>15. Clients' /\ Alone'
    BY <1>1, <1>10, <1>14, Shrinks DEF Fewer
  <1>16. MergesKept'
    <2>1. ASSUME ~bad, k \notin excused PROVE file'[k] = due'[k]
      <3>1. file[k] = due[k]
        BY <1>2, <2>1 DEF Inv, MergesKept
      <3>2. CASE q.op = "clear"
        BY <1>1, <1>2, <1>3, <1>7, <2>1, <3>2
      <3>3. CASE q.op = "set" /\ ~q.merge
        BY <1>1, <1>2, <1>3, <1>7, <2>1, <3>3
      <3>4. CASE q.op = "set" /\ q.merge
        <4>1. file[k] # List /\ q.value = {q.id} \cup (IF file[k] = Nothing THEN {} ELSE file[k])
          BY <1>2, <1>9, <2>1, <3>4 DEF Inv, Based, k
        <4> QED BY <1>1, <1>2, <1>3, <1>7, <2>1, <3>1, <3>4, <4>1
      <3> QED BY <1>2, <3>2, <3>3, <3>4
    <2> QED BY <1>1, <1>6, <1>7, <1>14, <2>1 DEF Inv, MergesKept
  <1>17. Based'
    <2> SUFFICES ASSUME NEW p \in Pending, p.merge, p.op = "set", p # q, KeyOf(p) \notin excused'
                 PROVE  /\ file'[KeyOf(p)] # List
                        /\ p.value = {p.id} \cup (IF file'[KeyOf(p)] = Nothing THEN {} ELSE file'[KeyOf(p)])
      BY <1>8, <1>10 DEF Based, KeyOf
    <2>1. KeyOf(p) \in Task /\ ~bad /\ KeyOf(p) \notin excused
      BY <1>14, InPlace DEF Inv
    <2>2. KeyOf(p) # k
      <3> SUFFICES ASSUME KeyOf(p) = k PROVE FALSE  OBVIOUS
      <3>1. p.id \in Live(k) /\ q.id \in Live(k)
        BY <1>2 DEF Live, Pending, k
      <3>2. Merging(k)
        BY DEF Merging, Pending
      <3>3. p.id = q.id
        BY <1>2, <2>1, <3>1, <3>2 DEF Inv, Alone
      <3> QED BY <1>2, <3>3 DEF Inv, Requests
    <2>3. file'[KeyOf(p)] = file[KeyOf(p)]
      BY <1>7, <2>1, <2>2
    <2> QED BY <1>9, <2>1, <2>3 DEF Inv, Based
  <1>18. Told'
    <2>1. \A p \in Pending : p.id \notin applied
      BY <1>9 DEF Inv, Told
    <2>2. \A p \in Pending : p.id \in applied' <=> p = q
      BY <1>1, <1>2, <2>1 DEF Inv, Requests
    <2> QED BY <1>1, <1>2, <1>8, <1>10, <2>2 DEF Inv, Told
  <1>19. AnswersAreTrue'
    BY <1>1, <1>2, <1>10 DEF Inv, AnswersAreTrue, Pending
  <1> QED BY <1>12, <1>13, <1>15, <1>16, <1>17, <1>18, <1>19 DEF Inv

\* The first of the queue leaves; what comes after it has not been read for.
LEMMA PopKeeps ==
  ASSUME Parameters, Inv, Settle \/ WriteFails
  PROVE  Inv'
PROOF
  <1> DEFINE q == Head(queue)
  <1>1. PICK how \in {"ok", "refused"} :
           /\ End(q, how)
           /\ how = "ok" => phase = "written"
           /\ how = "refused" => phase = "read"
    BY DEF Settle, WriteFails, Pop
  <1>2. /\ queue # <<>> /\ queue' = Tail(queue) /\ phase' = "next" /\ copy' = Empty /\ bad' = FALSE
        /\ UNCHANGED <<file, net, applied, due, excused>>
        /\ Mishap \/ mishaps' = mishaps
    BY DEF Settle, WriteFails, Pop, histVars
  <1>3. q \in Pending /\ q \in Range(queue) /\ q \notin net
    BY <1>2, InPlace DEF Inv, Requests
  <1>4. queue \in Seq(Request) /\ \A m, n \in DOMAIN queue : queue[m] = queue[n] => m = n
    BY DEF Inv, TypeOK, Requests
  <1>5. /\ q \notin Range(queue') /\ Range(queue) = Range(queue') \cup {q} /\ queue' \in Seq(Request)
        /\ \A m, n \in DOMAIN queue' : queue'[m] = queue'[n] => m = n
    BY <1>2, <1>4, Shifted
  <1> HIDE DEF q
  <1>6. Pending' = Pending \ {q}
    BY <1>2, <1>3, <1>5 DEF Pending
  <1>7. (phase = "written" => Done(q)) /\ \A p \in Pending' : ~Done(p) /\ ~Done(p)'
    BY <1>2, <1>6 DEF Done, q
  <1>8. phase = "read" => ~Done(q)
    BY DEF Done
  <1>9. /\ Clients' /\ Alone' /\ Based' /\ MergesKept' /\ Told' /\ AnswersAreTrue' /\ calls' = calls
        /\ doing' \in [Client -> Call \cup {0}]
        /\ kind' \in [Client -> {"none", "get", "set", "clear", "update"}]
        /\ \A c \in Client : doing'[c] = 0 <=> kind'[c] = "none"
        /\ answer' \in [Call -> {"open", "ended", "ok", "refused"}]
    BY <1>1, <1>2, <1>3, <1>6, <1>7, <1>8, Leaves
  <1>10. TypeOK'
    <2>1. mishaps' \in 0 .. MaxMishaps
      BY <1>2 DEF Mishap, Inv, TypeOK, Parameters
    <2>2. copy' \in Store
      BY <1>2 DEF Empty, Store, Saved
    <2>3. UNCHANGED <<file, net, applied, due, excused>> /\ phase' = "next" /\ bad' = FALSE
      BY <1>2
    <2> QED BY <1>5, <1>9, <2>1, <2>2, <2>3 DEF Inv, TypeOK
  <1>11. Requests' /\ Work'
    BY <1>2, <1>5, <1>6, <1>9 DEF Inv, Requests, Work
  <1> QED BY <1>9, <1>10, <1>11 DEF Inv

LEMMA RestartKeeps ==
  ASSUME Parameters, Inv, Restart
  PROVE  Inv'
PROOF
  <1>1. /\ net' = {} /\ queue' = <<>> /\ phase' = "next" /\ copy' = Empty /\ bad' = FALSE
        /\ answer' = [i \in Call |-> IF \E c \in Client : doing[c] = i THEN "ended" ELSE answer[i]]
        /\ doing' = [c \in Client |-> 0] /\ kind' = [c \in Client |-> "none"]
        /\ UNCHANGED <<file, calls, applied, due, excused>> /\ Mishap
    BY DEF Restart, histVars
  <1>2. Range(queue') = {} /\ Pending' = {}
    BY <1>1 DEF Range, Pending
  <1>3. TypeOK'
    <2>1. mishaps' \in 0 .. MaxMishaps
      BY <1>1 DEF Mishap, Inv, TypeOK, Parameters
    <2>2. copy' \in Store
      BY <1>1 DEF Empty, Store, Saved
    <2>3. queue' \in Seq(Request)
      BY <1>1
    <2>4. answer' \in [Call -> {"open", "ended", "ok", "refused"}]
      BY <1>1 DEF Inv, TypeOK
    <2> QED BY <1>1, <2>1, <2>2, <2>3, <2>4 DEF Inv, TypeOK
  <1>4. Requests' /\ Work'
    BY <1>1, <1>2 DEF Requests, Work
  <1>5. Clients' /\ Alone'
    BY <1>1, <1>2, Shrinks DEF Fewer
  <1>6. Based' /\ MergesKept' /\ applied' \subseteq 1 .. calls'
    BY <1>1, <1>2, Stays
  <1>7. \A i \in Call : (answer'[i] = "ended" /\ i \in 1 .. calls) \/ answer'[i] = answer[i]
    <2>1. calls \in Nat /\ \A c \in Client : doing[c] \in 0 .. calls
      BY DEF Inv, TypeOK, Clients, Parameters
    <2>2. ASSUME NEW i \in Call, NEW c \in Client, doing[c] = i PROVE i \in 1 .. calls
      BY <2>1, <2>2 DEF Call
    <2> QED BY <1>1, <2>2
  <1>8. Told'
    BY <1>1, <1>2, <1>6, <1>7 DEF Inv, Told, TypeOK
  <1>9. AnswersAreTrue'
    BY <1>1, <1>2, <1>7 DEF Inv, AnswersAreTrue, Pending
  <1> QED BY <1>3, <1>4, <1>5, <1>6, <1>8, <1>9 DEF Inv

LEMMA InitInv ==
  ASSUME Parameters, Init
  PROVE  Inv
PROOF
  <1>1. Range(queue) = {} /\ Pending = {}
    BY DEF Init, Range, Pending
  <1>2. {} \in Saved /\ Nothing \in Saved
    BY DEF Saved, Value
  <1>3. TypeOK
    <2>1. queue \in Seq(Request)
      BY DEF Init
    <2>2. calls \in 0 .. MaxCalls /\ mishaps \in 0 .. MaxMishaps
      BY DEF Init, Parameters
    <2> QED BY <1>2, <2>1, <2>2 DEF Init, TypeOK, Store, Empty
  <1>4. Requests /\ Clients /\ Work
    BY <1>1 DEF Init, Requests, Clients, Work
  <1>5. Alone
    BY <1>1 DEF Init, Alone, Merging, Pending
  <1>6. Based /\ Told /\ MergesKept
    BY <1>1 DEF Init, Based, Told, MergesKept
  <1>7. AnswersAreTrue
    BY DEF Init, AnswersAreTrue
  <1> QED BY <1>3, <1>4, <1>5, <1>6, <1>7 DEF Inv

LEMMA StepInv ==
  ASSUME Parameters, Inv, [Next]_vars
  PROVE  Inv'
PROOF
  <1>1. CASE \E c \in Client : Calls(c) \/ GiveUp(c)
    BY <1>1, CallsKeep, GiveUpKeeps
  <1>2. CASE \E q \in net : Get(q, FALSE) \/ Get(q, TRUE) \/ Arrive(q)
    BY <1>2, GetKeeps, ArriveKeeps
  <1>3. CASE Read(FALSE) \/ Read(TRUE) \/ Write \/ Settle \/ WriteFails
    BY <1>3, ReadKeeps, WriteKeeps, PopKeeps
  <1>4. CASE Restart
    BY <1>4, RestartKeeps
  <1>5. CASE UNCHANGED vars
    <2>1. UNCHANGED <<file, net, queue, phase, copy, bad, doing, kind, calls, answer, applied, due, excused, mishaps>>
      BY <1>5 DEF vars, storeVars, clientVars, histVars
    <2>2. Pending' = Pending /\ \A p : Done(p)' <=> Done(p)
      BY <2>1 DEF Pending, Done
    <2>3. TypeOK' /\ Requests' /\ Work' /\ AnswersAreTrue'
      BY <2>1, <2>2 DEF Inv, TypeOK, Requests, Work, AnswersAreTrue, Pending
    <2>4. Clients' /\ Alone'
      BY <2>1, <2>2, Shrinks DEF Fewer
    <2>5. Based' /\ MergesKept' /\ applied' \subseteq 1 .. calls' /\ \A p \in Pending' : p.id \in applied' <=> Done(p)'
      BY <2>1, <2>2, Stays
    <2> QED BY <2>1, <2>3, <2>4, <2>5 DEF Inv, Told
  <1> QED BY <1>1, <1>2, <1>3, <1>4, <1>5 DEF Next, Serve

LEMMA InvHolds == ASSUME Parameters PROVE Spec => []Inv
PROOF
  <1>1. Init => Inv
    BY InitInv
  <1>2. Inv /\ [Next]_vars => Inv'
    BY StepInv
  <1> QED BY <1>1, <1>2, PTL DEF Spec

\* The variables keep their types; in particular a client waits for at most one
\* call, and what is saved is a dictionary of entries or a value that is none.
THEOREM TypeCorrect == ASSUME Parameters PROVE Spec => []TypeOK
PROOF
  <1>1. Inv => TypeOK  BY DEF Inv
  <1> QED BY <1>1, InvHolds, PTL

\* Two requests make one step, and nothing saved is lost, unless calls of the
\* task overlapped or the file was unreadable (plugins/state.ts:89-95).
THEOREM MergesAreKept == ASSUME Parameters PROVE Spec => []MergesKept
PROOF
  <1>1. Inv => MergesKept  BY DEF Inv
  <1> QED BY <1>1, InvHolds, PTL

\* A strict call that returned was applied, and one that was refused never will
\* be (environment-manager.ts:99-113).
THEOREM AnswersStayTrue == ASSUME Parameters PROVE Spec => []AnswersAreTrue
PROOF
  <1>1. Inv => AnswersAreTrue  BY DEF Inv
  <1> QED BY <1>1, InvHolds, PTL

\* A write changes the state of one task (state-store.ts:47-49): the store it
\* writes is the file as it still is, as writes are queued.
THEOREM OthersStayUntouched == ASSUME Parameters PROVE Spec => OthersUntouched
PROOF
  <1>1. ASSUME Inv, [Next]_vars, NEW k \in Task, file'[k] # file[k]
        PROVE  bad \/ KeyOf(Head(queue)) = k
    <2>1. Write
      BY <1>1 DEF Next, Serve, Calls, Ask, GiveUp, Get, Arrive, Read, Settle, WriteFails, Restart,
                  vars, storeVars
    <2>2. /\ phase = "read"
          /\ file' = file \/ file' = [copy EXCEPT ![KeyOf(Head(queue))] =
                                          IF Head(queue).op = "clear" THEN Nothing ELSE Head(queue).value]
      BY <2>1 DEF Write, Changed
    <2>3. ~bad => copy = file
      BY <1>1, <2>2 DEF Inv, Work
    <2> QED BY <1>1, <2>2, <2>3 DEF Inv, TypeOK, Store
  <1>2. Inv /\ [Next]_vars => [\A k \in Task : file'[k] # file[k] => bad \/ KeyOf(Head(queue)) = k]_vars
    BY <1>1
  <1> QED BY <1>2, InvHolds, PTL DEF Spec, OthersUntouched
===============================================================================
