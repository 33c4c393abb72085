-------------------------------- MODULE WebProofs --------------------------------
(***************************************************************************)
(* The four parts of the web app, each for any values of its constants,    *)
(* and all of them together: the buttons of a task, its form, the schedule *)
(* of the dashboard, and the API keys (whose proofs are ApiKeysProofs).    *)
(***************************************************************************)
EXTENDS Web, Sequences, TLAPS, FiniteSetTheorems

KeyProofs == INSTANCE ApiKeysProofs
                 WITH presses <- keyPresses, mishaps <- keyMishaps

(***************************************************************************)
(* The buttons of a task: the page follows an execution exactly while it   *)
(* polls, and gives its button back only when the answer says so.          *)
(***************************************************************************)

LEMMA UserActs ==
  ASSUME TypeOK, NEW t \in Tab,
         \/ \E p \in {"home", "detail"} : Visit(t, p)
         \/ PressRun(t)
         \/ \E op \in {"pause", "resume", "clear", "delete"} : Press(t, op)
  PROVE  TypeOK'
PROOF
  <1> USE NoRunAssumption, BoundsAssumption DEF TypeOK, server, tabs
  <1>1. ASSUME NEW p \in {"home", "detail"}, Visit(t, p) PROVE TypeOK'
    BY <1>1 DEF Visit, Pressed
  <1>2. CASE PressRun(t)
    BY <1>2 DEF PressRun, Pressed, Free
  <1>3. ASSUME NEW op \in {"pause", "resume", "clear", "delete"}, Press(t, op) PROVE TypeOK'
    BY <1>3 DEF Press, Pressed, Free
  <1> QED BY <1>1, <1>2, <1>3

LEMMA StopKeepsTypes ==
  ASSUME TypeOK, NEW t \in Tab, Answered(t) \/ Threw(t)
  PROVE  /\ loop' \in [Tab -> {"idle", "trigger", "wait", "ask"}]
         /\ followed' \in [Tab -> Run \cup {NoRun}]
         /\ refresh' \in [Tab -> BOOLEAN]
         /\ \A u \in Tab : loop'[u] \in {"wait", "ask"} <=> followed'[u] # NoRun
PROOF
  <1> USE DEF Answered, Threw
  <1>1. loop' \in [Tab -> {"idle", "trigger", "wait", "ask"}] /\ followed' \in [Tab -> Run \cup {NoRun}]
    BY DEF TypeOK, Stop
  <1>2. refresh' \in [Tab -> BOOLEAN]
    BY DEF TypeOK, Stop
  <1>3. ASSUME NEW u \in Tab PROVE loop'[u] \in {"wait", "ask"} <=> followed'[u] # NoRun
    <2>1. CASE u = t
      BY <2>1 DEF TypeOK, Stop
    <2>2. CASE u # t
      BY <2>2 DEF TypeOK, Stop
    <2> QED BY <2>1, <2>2
  <1> QED BY <1>1, <1>2, <1>3

LEMMA Polls ==
  ASSUME TypeOK, NEW t \in Tab, Poll(t)
  PROVE  TypeOK'
PROOF
  <1> USE NoRunAssumption, BoundsAssumption DEF server
  <1>1. CASE Triggered(t)
    <2>1. UNCHANGED <<task, page, shown, pending, presses>>
      BY <1>1 DEF Triggered
    <2>2. ASSUME NEW r \in Run, Start(r) PROVE row' \in [Run -> {"none", "running", "ended", "removed"}]
      BY <2>2 DEF Start, TypeOK
    <2>3. CASE Threw(t) /\ UNCHANGED <<row, mishaps>>
      BY <2>1, <2>3, StopKeepsTypes DEF TypeOK
    <2>4. CASE /\ \E r \in Run : Start(r) /\ followed' = [followed EXCEPT ![t] = r]
               /\ loop' = [loop EXCEPT ![t] = "wait"]
               /\ refresh' = [refresh EXCEPT ![t] = TRUE]
               /\ UNCHANGED mishaps
      BY <2>1, <2>2, <2>4 DEF TypeOK
    <2>5. CASE Mishap /\ (UNCHANGED row \/ \E r \in Run : Start(r)) /\ Threw(t)
      <3>1. row' \in [Run -> {"none", "running", "ended", "removed"}]
        BY <2>2, <2>5 DEF TypeOK
      <3>2. mishaps' \in 0 .. MaxMishaps
        BY <2>5 DEF Mishap, TypeOK
      <3> QED BY <2>1, <2>5, <3>1, <3>2, StopKeepsTypes DEF TypeOK
    <2> QED BY <1>1, <2>3, <2>4, <2>5 DEF Triggered
  <1>2. CASE Ask(t)
    BY <1>2 DEF Ask, TypeOK
  <1>3. CASE Told(t)
    <2>1. UNCHANGED <<task, row, page, shown, pending, presses>>
      BY <1>3 DEF Told
    <2>2. CASE loop[t] = "ask" /\ Again(t) /\ UNCHANGED mishaps
      <3>1. refresh' \in [Tab -> BOOLEAN]
        BY <2>2 DEF Again, TypeOK
      <3> QED BY <2>1, <2>2, <3>1 DEF Again, TypeOK
    <2>3. CASE (Answered(t) \/ Threw(t)) /\ UNCHANGED mishaps
      BY <2>1, <2>3, StopKeepsTypes DEF TypeOK
    <2>4. CASE Mishap /\ Threw(t)
      <3>1. mishaps' \in 0 .. MaxMishaps
        BY <2>4 DEF Mishap, TypeOK
      <3> QED BY <2>1, <2>4, <3>1, StopKeepsTypes DEF TypeOK
    <2> QED BY <1>3, <2>2, <2>3, <2>4 DEF Told
  <1> QED BY <1>1, <1>2, <1>3 DEF Poll

LEMMA Transitions ==
  ASSUME TypeOK, NEW t \in Tab, Settled(t) \/ Refreshed(t)
  PROVE  TypeOK'
PROOF
  <1> USE BoundsAssumption DEF server
  <1>1. CASE Settled(t)
    <2>1. UNCHANGED <<loop, followed, presses>> /\ pending' = [pending EXCEPT ![t] = "none"]
      BY <1>1 DEF Settled
    <2>2. task' \in {"on", "off", "gone"} /\ row' \in [Run -> {"none", "running", "ended", "removed"}]
      BY <1>1 DEF Settled, Apply, TypeOK
    <2>3. /\ page' \in [Tab -> {"away", "home", "detail", "missing", "broken"}]
          /\ shown' \in [Tab -> {"on", "off", "gone"}]
          /\ refresh' \in [Tab -> BOOLEAN]
      BY <1>1 DEF Settled, Breaks, TypeOK
    <2>4. mishaps' \in 0 .. MaxMishaps
      BY <1>1 DEF Settled, Mishap, TypeOK
    <2> QED BY <2>1, <2>2, <2>3, <2>4 DEF TypeOK
  <1>2. CASE Refreshed(t)
    BY <1>2 DEF Refreshed, TypeOK
  <1> QED BY <1>1, <1>2

\* The variables keep their types; a page follows an execution exactly while it
\* polls for it (task-actions.tsx:23-37).
THEOREM TypeCorrect == Spec => []TypeOK
PROOF
  <1>1. Init => TypeOK
    BY BoundsAssumption DEF Init, TypeOK
  <1>2. TypeOK /\ [Next]_vars => TypeOK'
    <2> SUFFICES ASSUME TypeOK, [Next]_vars PROVE TypeOK'  OBVIOUS
    <2>1. CASE UNCHANGED vars
      BY <2>1 DEF vars, server, tabs, TypeOK
    <2>2. CASE SomeRowEnds \/ \E r \in Run : Trimmed(r)
      BY <2>2 DEF SomeRowEnds, RowEnds, Trimmed, tabs, TypeOK
    <2>3. ASSUME NEW t \in Tab, Poll(t) PROVE TypeOK'
      BY <2>3, Polls
    <2>4. ASSUME NEW t \in Tab, Settled(t) \/ Refreshed(t) PROVE TypeOK'
      BY <2>4, Transitions
    <2>5. ASSUME NEW t \in Tab,
                 \/ \E p \in {"home", "detail"} : Visit(t, p)
                 \/ PressRun(t)
                 \/ \E op \in {"pause", "resume", "clear", "delete"} : Press(t, op)
          PROVE  TypeOK'
      BY <2>5, UserActs
    <2> QED BY <2>1, <2>2, <2>3, <2>4, <2>5 DEF Next
  <1> QED BY <1>1, <1>2, PTL DEF Spec

\* While its run goes on, its row stays and its polls are answered, an open page
\* keeps the button (task-actions.tsx:29-34, 39).
THEOREM ButtonWaits == Spec => RunButtonWaits
PROOF
  <1>1. ASSUME TypeOK, Next, NEW t \in Tab,
               loop[t] \in {"wait", "ask"}, row[followed[t]] = "running", presses' = presses, mishaps' = mishaps
        PROVE  loop'[t] # "idle"
    <2> USE <1>1, BoundsAssumption
    <2>1. loop \in [Tab -> {"idle", "trigger", "wait", "ask"}] /\ presses \in Nat /\ mishaps \in Nat
      BY DEF TypeOK
    <2>2. ~Pressed /\ ~Mishap
      BY <2>1 DEF Pressed, Mishap
    <2>3. CASE UNCHANGED loop
      BY <2>1, <2>3
    <2>4. ASSUME NEW u \in Tab, Poll(u) PROVE loop'[t] # "idle"
      <3>1. CASE u = t
        <4>1. ~Triggered(t)
          BY DEF Triggered
        <4>2. CASE Ask(t)
          BY <2>1, <4>2 DEF Ask
        <4>3. CASE Told(t)
          BY <2>1, <2>2, <4>3 DEF Told, Again
        <4> QED BY <2>4, <3>1, <4>1, <4>2, <4>3 DEF Poll
      <3>2. CASE u # t
        <4>1. loop'[t] = loop[t]
          BY <2>1, <2>4, <3>2 DEF Poll, Triggered, Ask, Told, Answered, Threw, Stop, Again
        <4> QED BY <4>1
      <3> QED BY <3>1, <3>2
    <2>5. ASSUME NEW u \in Tab, Settled(u) \/ Refreshed(u) PROVE UNCHANGED loop
      BY <2>5 DEF Settled, Refreshed
    <2>6. SomeRowEnds \/ (\E r \in Run : Trimmed(r)) => UNCHANGED loop
      BY DEF SomeRowEnds, RowEnds, Trimmed, tabs
    <2>7. ASSUME NEW u \in Tab,
                 \/ \E p \in {"home", "detail"} : Visit(u, p)
                 \/ PressRun(u)
                 \/ \E op \in {"pause", "resume", "clear", "delete"} : Press(u, op)
          PROVE  FALSE
      BY <2>2, <2>7 DEF Visit, PressRun, Press
    <2> QED BY <2>3, <2>4, <2>5, <2>6, <2>7 DEF Next
  <1>2. TypeOK /\ [Next]_vars =>
          [\A t \in Tab :
              /\ loop[t] \in {"wait", "ask"} /\ row[followed[t]] = "running"
              /\ presses' = presses /\ mishaps' = mishaps
              => loop'[t] # "idle"]_vars
    BY <1>1
  <1> QED BY <1>2, TypeCorrect, PTL DEF Spec, RunButtonWaits

(***************************************************************************)
(* The form of a task.                                                     *)
(***************************************************************************)

\* What may have been asked of each field and variable.
Wish == Value \cup {NotSet, Gone} \cup Script \cup Kind \cup BOOLEAN \cup Text
Asks == [Form!Field \cup Variable -> Wish]

\* What is sent of field f when the form has v in it.
Order(f, v) == IF f \in Form!Lists THEN Form!Entries(v) ELSE v

\* A form holds what was asked of each field and variable, and otherwise what it
\* was loaded with; it may hold an empty variable more.
EnvAgrees(env, asks, loaded) ==
    \A k \in Variable :
       LET wanted_k == IF asks[k] # Gone THEN asks[k] ELSE loaded[k]
       IN  env[k] = wanted_k \/ (wanted_k = NotSet /\ env[k] = Empty)
Agrees(holds, asks, loaded) ==
    /\ \A f \in Form!Field : holds[f] = IF asks[f] # Gone THEN asks[f] ELSE loaded[f]
    /\ EnvAgrees(holds.env, asks, loaded.env)
\* And sends that, with its lists in order.
Sends(task_t, asks, loaded) ==
    /\ \A f \in Form!Field : task_t[f] = Order(f, IF asks[f] # Gone THEN asks[f] ELSE loaded[f])
    /\ EnvAgrees(task_t.env, asks, loaded.env)

\* Later more has been asked, and a variable that was not is only ever added.
Grows(asks, env, later, new) ==
    /\ \A e \in Form!Field \cup Variable : later[e] = Gone => asks[e] = Gone
    /\ \A k \in Variable : later[k] = Gone => new[k] = env[k] \/ env[k] = NotSet

\* What was not asked of the stored row, nor changed by others, is as it was
\* loaded or as an earlier save of this form left it.
Tracked(old, from, asks, others, env) ==
    /\ \A f \in Form!Field \ others :
          asks[f] = Gone => old[f] = from[f] \/ old[f] = Order(f, Form!Shown(from)[f])
    /\ \A k \in Variable \ others :
          asks[k] = Gone => \/ old.env[k] = from.env[k]
                            \/ (from.env[k] = NotSet /\ old.env[k] = Empty /\ env[k] = Empty)

\* The row that is edited is one of the form.
Entry == [original : Variable, key : Variable, val : Value]
EditingIn(e, holds) == e = Form!NotEditing \/ (e \in Entry /\ holds.env[e.original] # NotSet)

FormTypes ==
    /\ Form!TypeOK
    /\ unused \subseteq FormId
    /\ asked \in [Tab -> Asks]
    /\ formSent \in [Tab -> [task : Form!Task, asked : Asks]]
    /\ editing \in [Tab -> Entry \cup {Form!NotEditing}]
    /\ DOMAIN behind = Tab

Placed(t) == target[t] \notin unused /\ (target[t] = New => base[t] = Blank)
Held(t) == Agrees(draft[t], asked[t], Form!Shown(base[t]))
Submitted(t) ==
    formPage[t] = "saving" =>
        /\ Sends(formSent[t].task, formSent[t].asked, Form!Shown(base[t]))
        /\ Grows(formSent[t].asked, formSent[t].task.env, asked[t], draft[t].env)
Follows(t) ==
    Form!Open(t) /\ target[t] # New /\ stored[target[t]] # Gone =>
        /\ Tracked(stored[target[t]], base[t], asked[t], behind[t], draft[t].env)
        /\ formPage[t] = "saving" =>
              Tracked(stored[target[t]], base[t], formSent[t].asked, behind[t], formSent[t].task.env)

FormInv == FormTypes /\ \A t \in Tab : Placed(t) /\ Held(t) /\ Submitted(t) /\ Follows(t)

\* What a form shows of a task, and what it sends.
LEMMA Conversions ==
  ASSUME Form!Parameters
  PROVE  /\ \A x \in Form!Task :
               /\ Form!Shown(x) \in Form!Draft /\ Form!Shown(x).env = x.env /\ x.env \in Form!Env
               /\ \A f \in Form!Field : Form!Shown(x)[f] = IF f \in Form!Lists THEN Form!Joined(x[f]) ELSE x[f]
         /\ \A d \in Form!Draft :
               /\ Form!Built(d) \in Form!Task /\ Form!Built(d).env = d.env
               /\ \A f \in Form!Field : Form!Built(d)[f] = Order(f, d[f])
         /\ \A x \in Form!Task :
               /\ Form!Record(x) \in Form!Task /\ Form!Record(x).env = x.env
               /\ \A f \in Form!Field : Form!Record(x)[f] = x[f]
PROOF
  <1> USE DEF Form!Field, Form!Lists
  <1>1. ASSUME NEW n \in Form!Notify PROVE Form!PluginOf(n) \in Plugin \cup {NotSet}
    <2>1. Offered # <<>> => Head(Offered) \in Plugin
      BY DEF Form!Parameters
    <2> QED BY <2>1 DEF Form!PluginOf, Form!Notify, Form!Event
  <1>2. ASSUME NEW x \in Form!Task
        PROVE  /\ Form!Shown(x) \in Form!Draft /\ Form!Shown(x).env = x.env /\ x.env \in Form!Env
               /\ \A f \in Form!Field : Form!Shown(x)[f] = IF f \in Form!Lists THEN Form!Joined(x[f]) ELSE x[f]
    <2>1. Form!PluginOf(x.notify) \in Plugin \cup {NotSet}
      BY <1>1 DEF Form!Task
    <2>2. Form!Joined(x.parameters) \in Text /\ Form!Joined(x.dependencies) \in Text
      BY DEF Form!Parameters, Form!Task
    <2>3. {e \in Form!Event : x.notify[e] # NotSet} \in SUBSET Form!Event
      OBVIOUS
    <2> QED BY <2>1, <2>2, <2>3 DEF Form!Shown, Form!Draft, Form!Task
  <1>3. ASSUME NEW d \in Form!Draft
        PROVE  /\ Form!Built(d) \in Form!Task /\ Form!Built(d).env = d.env
               /\ \A f \in Form!Field : Form!Built(d)[f] = Order(f, d[f])
    <2>1. Form!Entries(d.parameters) \in List /\ Form!Entries(d.dependencies) \in List
      BY DEF Form!Parameters, Form!Draft
    <2>2. [e \in Form!Event |-> IF e \in d.trigger THEN d.plugin ELSE NotSet] \in Form!Notify
      BY DEF Form!Notify, Form!Draft
    <2> QED BY <2>1, <2>2 DEF Form!Built, Form!Draft, Form!Task, Order
  <1>4. ASSUME NEW x \in Form!Task
        PROVE  /\ Form!Record(x) \in Form!Task /\ Form!Record(x).env = x.env
               /\ \A f \in Form!Field : Form!Record(x)[f] = x[f]
    BY DEF Form!Record, Form!Task, Form!Notify
  <1> QED BY <1>2, <1>3, <1>4

LEMMA GrowsOn ==
  ASSUME NEW a, NEW b, NEW c, NEW e, NEW f, NEW g, Grows(a, e, b, f), Grows(b, f, c, g)
  PROVE  Grows(a, e, c, g)
PROOF BY DEF Grows

LEMMA TrackedOn ==
  ASSUME Form!Parameters, NEW old, NEW from, NEW others, NEW a, NEW b, NEW e, NEW f,
         Tracked(old, from, a, others, e), Grows(a, e, b, f)
  PROVE  Tracked(old, from, b, others, f)
PROOF
  <1>1. NotSet # Empty
    BY DEF Form!Parameters
  <1> QED BY <1>1 DEF Grows, Tracked

\* What others change of the row is kept apart.
LEMMA TrackedApart ==
  ASSUME NEW old, NEW new, old # Gone, new # Gone, NEW from, NEW others, NEW a, NEW e, Tracked(old, from, a, others, e)
  PROVE  Tracked(new, from, a, others \cup Form!Changes(old, new), e)
PROOF
  <1>1. \A f \in Form!Field \ (others \cup Form!Changes(old, new)) : f \in Form!Field \ others /\ new[f] = old[f]
    BY DEF Form!Changes
  <1>2. \A k \in Variable \ (others \cup Form!Changes(old, new)) : k \in Variable \ others /\ new.env[k] = old.env[k]
    BY DEF Form!Changes
  <1> QED BY <1>1, <1>2 DEF Tracked

\* What a form saved is tracked by it.
LEMMA TrackedSave ==
  ASSUME Form!Parameters, NEW x \in Form!Task, NEW from \in Form!Task, NEW s, NEW a, NEW e, NEW others,
         Sends(x, s, Form!Shown(from)), Grows(s, x.env, a, e)
  PROVE  Tracked(Form!Record(x), from, a, others, e)
PROOF
  <1>1. /\ Form!Record(x).env = x.env /\ Form!Shown(from).env = from.env
        /\ \A f \in Form!Field : Form!Record(x)[f] = x[f]
    BY Conversions
  <1>2. NotSet # Empty
    BY DEF Form!Parameters
  <1>3. \A f \in Form!Field \ others : a[f] = Gone => Form!Record(x)[f] = Order(f, Form!Shown(from)[f])
    BY <1>1 DEF Sends, Grows
  <1>4. ASSUME NEW k \in Variable \ others, a[k] = Gone
        PROVE  \/ x.env[k] = from.env[k]
               \/ (from.env[k] = NotSet /\ x.env[k] = Empty /\ e[k] = Empty)
    <2>1. s[k] = Gone /\ (e[k] = x.env[k] \/ x.env[k] = NotSet)
      BY <1>4 DEF Grows
    <2>2. x.env[k] = from.env[k] \/ (from.env[k] = NotSet /\ x.env[k] = Empty)
      BY <1>1, <2>1 DEF Sends, EnvAgrees
    <2> QED BY <1>2, <2>1, <2>2
  <1> QED BY <1>1, <1>3, <1>4 DEF Tracked

LEMMA FormInit ==
  ASSUME Form!Parameters, Form!Init
  PROVE  FormInv
PROOF
  <1> USE DEF Form!Parameters
  <1>1. Form!Unasked \in Asks /\ \A e \in Form!Field \cup Variable : Form!Unasked[e] = Gone
    BY DEF Form!Unasked, Asks, Wish
  <1>2. Blank \in Form!Task /\ Blank.commandType \in Kind /\ Form!Shown(Blank) \in Form!Draft
    BY Conversions DEF Form!Task
  <1>3. /\ stored \in [FormId -> Form!Task \cup {Gone}] /\ \A i \in unused : stored[i] = Gone
        /\ unused \subseteq FormId
    BY DEF Form!Init
  <1>4. Form!TypeOK
    BY <1>2, <1>3 DEF Form!Init, Form!TypeOK
  <1>5. asked \in [Tab -> Asks] /\ formSent \in [Tab -> [task : Form!Task, asked : Asks]]
    BY <1>1, <1>2 DEF Form!Init
  <1>6. editing \in [Tab -> Entry \cup {Form!NotEditing}] /\ DOMAIN behind = Tab
    BY DEF Form!Init
  <1>7. Agrees(Form!Shown(Blank), Form!Unasked, Form!Shown(Blank))
    BY <1>1 DEF Agrees, EnvAgrees
  <1>8. \A t \in Tab : /\ draft[t] = Form!Shown(Blank) /\ base[t] = Blank /\ asked[t] = Form!Unasked
                       /\ formPage[t] = "away" /\ target[t] = New
    BY DEF Form!Init
  <1>9. ASSUME NEW t \in Tab PROVE Placed(t) /\ Held(t) /\ Submitted(t) /\ Follows(t)
    BY <1>3, <1>7, <1>8 DEF Placed, Held, Submitted, Follows
  <1> QED BY <1>3, <1>4, <1>5, <1>6, <1>9 DEF FormInv, FormTypes

\* An act on the form of one tab.
LEMMA Edit ==
  ASSUME Form!Parameters, FormInv, NEW t \in Tab, NEW d \in Form!Draft, NEW a \in Asks, NEW e \in Entry \cup {Form!NotEditing},
         Agrees(d, a, Form!Shown(base[t])), Grows(asked[t], draft[t].env, a, d.env), EditingIn(e, d),
         draft' = [draft EXCEPT ![t] = d], asked' = [asked EXCEPT ![t] = a], editing' = [editing EXCEPT ![t] = e],
         focus' \in [Tab -> BOOLEAN], acts' \in 0 .. MaxActs,
         UNCHANGED <<stored, unused, formPage, formSent, behind, target, base, mounted, formMishaps>>
  PROVE  FormInv'
PROOF
  <1>1. draft' \in [Tab -> Form!Draft] /\ draft'[t] = d /\ \A u \in Tab \ {t} : draft'[u] = draft[u]
    BY DEF FormInv, FormTypes, Form!TypeOK
  <1>2. asked' \in [Tab -> Asks] /\ asked'[t] = a /\ \A u \in Tab \ {t} : asked'[u] = asked[u]
    BY DEF FormInv, FormTypes
  <1>3. editing' \in [Tab -> Entry \cup {Form!NotEditing}]
    BY DEF FormInv, FormTypes
  <1>4. ASSUME NEW u \in Tab PROVE EditingIn(editing'[u], draft'[u])
    BY <1>1 DEF FormInv, FormTypes, Form!TypeOK, EditingIn, Entry
  <1>5. Form!TypeOK'
    BY <1>1, <1>4 DEF FormInv, FormTypes, Form!TypeOK, EditingIn, Entry
  <1>6. FormTypes'
    BY <1>2, <1>3, <1>5 DEF FormInv, FormTypes
  <1>7. ASSUME NEW u \in Tab \ {t} PROVE (Placed(u) /\ Held(u) /\ Submitted(u) /\ Follows(u))'
    BY <1>1, <1>2 DEF FormInv, Placed, Held, Submitted, Follows, Form!Open
  <1>8. Placed(t)' /\ Held(t)'
    BY <1>1, <1>2 DEF FormInv, Placed, Held
  <1>9. Submitted(t)'
    <2> SUFFICES ASSUME formPage[t] = "saving"
                 PROVE  /\ Sends(formSent[t].task, formSent[t].asked, Form!Shown(base[t]))
                        /\ Grows(formSent[t].asked, formSent[t].task.env, a, d.env)
      BY <1>1, <1>2 DEF Submitted
    <2>1. /\ Sends(formSent[t].task, formSent[t].asked, Form!Shown(base[t]))
          /\ Grows(formSent[t].asked, formSent[t].task.env, asked[t], draft[t].env)
      BY DEF FormInv, Submitted
    <2> QED BY <2>1, GrowsOn
  <1>10. Follows(t)'
    <2> SUFFICES ASSUME Form!Open(t), target[t] # New, stored[target[t]] # Gone
                 PROVE  /\ Tracked(stored[target[t]], base[t], a, behind[t], d.env)
                        /\ formPage[t] = "saving" =>
                              Tracked(stored[target[t]], base[t], formSent[t].asked, behind[t], formSent[t].task.env)
      BY <1>1, <1>2 DEF Follows, Form!Open
    <2>1. /\ Tracked(stored[target[t]], base[t], asked[t], behind[t], draft[t].env)
          /\ formPage[t] = "saving" =>
                Tracked(stored[target[t]], base[t], formSent[t].asked, behind[t], formSent[t].task.env)
      BY DEF FormInv, Follows
    <2> QED BY <2>1, TrackedOn
  <1> QED BY <1>6, <1>7, <1>8, <1>9, <1>10 DEF FormInv

\* What one asks for is on the form.
Takes(d, a, new, asks, from) ==
    new \in Form!Draft /\ asks \in Asks /\ Agrees(new, asks, from) /\ Grows(a, d.env, asks, new.env)

LEMMA Asked ==
  ASSUME Form!Parameters, NEW d \in Form!Draft, NEW a \in Asks, NEW from, Agrees(d, a, from)
  PROVE  /\ \A s \in Script : Takes(d, a, [d EXCEPT !.script = s], [a EXCEPT !["script"] = s], from)
         /\ \A c \in Kind : Takes(d, a, [d EXCEPT !["commandType"] = c], [a EXCEPT !["commandType"] = c], from)
         /\ \A b \in BOOLEAN : Takes(d, a, [d EXCEPT !["enabled"] = b], [a EXCEPT !["enabled"] = b], from)
         /\ \A f \in Form!Lists, x \in Text : Takes(d, a, [d EXCEPT ![f] = x], [a EXCEPT ![f] = x], from)
         /\ \A k \in Variable, v \in Value \cup {NotSet} :
               Takes(d, a, [d EXCEPT !.env[k] = v], [a EXCEPT ![k] = v], from)
PROOF
  <1> USE DEF Form!Parameters
  <1>1. Variable \cap {"script", "commandType", "enabled", "parameters", "dependencies"} = {}
    BY DEF Form!Field, Form!Lists
  <1>2. ASSUME NEW s \in Script
        PROVE  Takes(d, a, [d EXCEPT !.script = s], [a EXCEPT !["script"] = s], from)
    BY <1>1 DEF Takes, Form!Draft, Asks, Wish, Agrees, EnvAgrees, Grows, Form!Field, Form!Lists
  <1>3. ASSUME NEW c \in Kind
        PROVE  Takes(d, a, [d EXCEPT !["commandType"] = c], [a EXCEPT !["commandType"] = c], from)
    BY <1>1 DEF Takes, Form!Draft, Asks, Wish, Agrees, EnvAgrees, Grows, Form!Field, Form!Lists
  <1>4. ASSUME NEW b \in BOOLEAN
        PROVE  Takes(d, a, [d EXCEPT !["enabled"] = b], [a EXCEPT !["enabled"] = b], from)
    BY <1>1 DEF Takes, Form!Draft, Asks, Wish, Agrees, EnvAgrees, Grows, Form!Field, Form!Lists
  <1>5. ASSUME NEW x \in Text
        PROVE  Takes(d, a, [d EXCEPT !["parameters"] = x], [a EXCEPT !["parameters"] = x], from)
    BY <1>1 DEF Takes, Form!Draft, Asks, Wish, Agrees, EnvAgrees, Grows, Form!Field, Form!Lists
  <1>6. ASSUME NEW x \in Text
        PROVE  Takes(d, a, [d EXCEPT !["dependencies"] = x], [a EXCEPT !["dependencies"] = x], from)
    BY <1>1 DEF Takes, Form!Draft, Asks, Wish, Agrees, EnvAgrees, Grows, Form!Field, Form!Lists
  <1>7. ASSUME NEW k \in Variable, NEW v \in Value \cup {NotSet}
        PROVE  Takes(d, a, [d EXCEPT !.env[k] = v], [a EXCEPT ![k] = v], from)
    <2> DEFINE new == [d EXCEPT !.env[k] = v]  asks == [a EXCEPT ![k] = v]
    <2>1. d.env \in Form!Env
      BY DEF Form!Draft
    <2>2. new \in Form!Draft /\ \A j \in Variable : new.env[j] = IF j = k THEN v ELSE d.env[j]
      BY <2>1 DEF Form!Draft, Form!Env
    <2>3. \A f \in Form!Field : new[f] = d[f]
      BY DEF Form!Draft, Form!Field, Form!Lists
    <2>4. asks \in Asks /\ \A e \in Form!Field \cup Variable : asks[e] = IF e = k THEN v ELSE a[e]
      BY DEF Asks, Wish
    <2>5. k \notin Form!Field /\ v # Gone
      OBVIOUS
    <2> HIDE DEF new, asks
    <2>6. Agrees(new, asks, from)
      BY <2>2, <2>3, <2>4, <2>5 DEF Agrees, EnvAgrees
    <2>7. Grows(a, d.env, asks, new.env)
      BY <2>2, <2>4, <2>5 DEF Grows
    <2> QED BY <2>2, <2>4, <2>6, <2>7 DEF Takes, new, asks
  <1> QED BY <1>2, <1>3, <1>4, <1>5, <1>6, <1>7 DEF Form!Lists

\* The form of one tab has its types.
LEMMA OneForm ==
  ASSUME FormInv, NEW t \in Tab
  PROVE  /\ draft[t] \in Form!Draft /\ asked[t] \in Asks /\ draft[t].env \in Form!Env
         /\ Agrees(draft[t], asked[t], Form!Shown(base[t]))
         /\ editing[t] \in Entry \cup {Form!NotEditing} /\ EditingIn(editing[t], draft[t])
         /\ draft \in [Tab -> Form!Draft] /\ asked \in [Tab -> Asks]
         /\ editing \in [Tab -> Entry \cup {Form!NotEditing}] /\ focus \in [Tab -> BOOLEAN]
PROOF BY DEF FormInv, FormTypes, Form!TypeOK, Held, EditingIn, Entry, Form!Draft

\* An act that leaves the environment and the row that is edited alone.
LEMMA FieldSet ==
  ASSUME Form!Parameters, FormInv, NEW t \in Tab, NEW new, NEW asks,
         Takes(draft[t], asked[t], new, asks, Form!Shown(base[t])), new.env = draft[t].env,
         draft' = [draft EXCEPT ![t] = new], asked' = [asked EXCEPT ![t] = asks],
         focus' \in [Tab -> BOOLEAN], acts' \in 0 .. MaxActs,
         UNCHANGED <<stored, unused, formPage, formSent, behind, target, base, mounted, editing, formMishaps>>
  PROVE  FormInv'
PROOF
  <1>1. editing' = [editing EXCEPT ![t] = editing[t]] /\ EditingIn(editing[t], new)
    BY OneForm DEF EditingIn
  <1> QED BY <1>1, OneForm, Edit DEF Takes

LEMMA FieldsKeep ==
  ASSUME Form!Parameters, FormInv, NEW t \in Tab,
         \/ \E b \in BOOLEAN : Form!SetField(t, "enabled", b)
         \/ \E c \in Kind : Form!SetField(t, "commandType", c)
         \/ \E f \in Form!Lists, x \in Text : Form!SetField(t, f, x)
         \/ \E s \in Script : Form!EditScript(t, s) \/ Form!InsertSnippet(t, s)
  PROVE  FormInv'
PROOF
  <1> DEFINE d == draft[t]  a == asked[t]  from == Form!Shown(base[t])
  <1>1. d \in Form!Draft /\ draft \in [Tab -> Form!Draft] /\ asked \in [Tab -> Asks]
    BY OneForm
  <1>2. UNCHANGED <<stored, unused, formPage, formSent, behind, target, base, mounted, editing, formMishaps>>
    BY DEF Form!SetField, Form!EditScript, Form!InsertSnippet, Form!ScriptIs
  <1>3. acts' \in 0 .. MaxActs
    BY DEF Form!SetField, Form!EditScript, Form!InsertSnippet, Form!ScriptIs, Form!Elsewhere, Form!Act,
           FormInv, FormTypes, Form!TypeOK, Form!Parameters
  <1>4. focus' \in [Tab -> BOOLEAN]
    BY DEF Form!SetField, Form!EditScript, Form!InsertSnippet, FormInv, FormTypes, Form!TypeOK
  <1>5. ASSUME NEW f, NEW v, Form!SetField(t, f, v),
               Takes(d, a, [d EXCEPT ![f] = v], [a EXCEPT ![f] = v], from), f \in Form!Field
        PROVE  FormInv'
    <2>1. draft' = [draft EXCEPT ![t] = [d EXCEPT ![f] = v]] /\ asked' = [asked EXCEPT ![t] = [a EXCEPT ![f] = v]]
      BY <1>1, <1>5 DEF Form!SetField, Form!Asks
    <2>2. [d EXCEPT ![f] = v].env = d.env
      BY <1>1, <1>5 DEF Form!Draft, Form!Field, Form!Lists
    <2> HIDE DEF d, a, from
    <2> QED BY <1>2, <1>3, <1>4, <1>5, <2>1, <2>2, FieldSet DEF d, a, from
  <1>6. ASSUME NEW s \in Script, Form!ScriptIs(t, s) PROVE FormInv'
    <2>1. /\ draft' = [draft EXCEPT ![t] = [d EXCEPT !.script = s]]
          /\ asked' = [asked EXCEPT ![t] = [a EXCEPT !["script"] = s]]
      BY <1>1, <1>6 DEF Form!ScriptIs, Form!Asks
    <2>2. [d EXCEPT !.script = s].env = d.env
      BY <1>1 DEF Form!Draft
    <2>3. Takes(d, a, [d EXCEPT !.script = s], [a EXCEPT !["script"] = s], from)
      BY OneForm, Asked
    <2> HIDE DEF d, a, from
    <2> QED BY <1>2, <1>3, <1>4, <2>1, <2>2, <2>3, FieldSet DEF d, a, from
  <1>7. /\ \A c \in Kind : Takes(d, a, [d EXCEPT !["commandType"] = c], [a EXCEPT !["commandType"] = c], from)
        /\ \A b \in BOOLEAN : Takes(d, a, [d EXCEPT !["enabled"] = b], [a EXCEPT !["enabled"] = b], from)
        /\ \A f \in Form!Lists, x \in Text : Takes(d, a, [d EXCEPT ![f] = x], [a EXCEPT ![f] = x], from)
    BY OneForm, Asked
  <1>8. Form!Lists \subseteq Form!Field /\ {"enabled", "commandType"} \subseteq Form!Field
    BY DEF Form!Field
  <1> HIDE DEF d, a, from
  <1> QED BY <1>5, <1>6, <1>7, <1>8 DEF Form!EditScript, Form!InsertSnippet

\* What is chosen of the notifications is asked of no field.
LEMMA NotifyKeeps ==
  ASSUME Form!Parameters, FormInv, NEW t \in Tab,
         \/ \E events \in SUBSET Form!Event : Form!SetTrigger(t, events)
         \/ \E i \in DOMAIN Offered : Form!SetPlugin(t, Offered[i])
  PROVE  FormInv'
PROOF
  <1> DEFINE d == draft[t]  a == asked[t]
  <1>1. UNCHANGED <<stored, unused, formPage, formSent, behind, target, base, mounted, focus, editing, asked, formMishaps>>
    BY DEF Form!SetTrigger, Form!SetPlugin
  <1>2. acts' \in 0 .. MaxActs
    BY DEF Form!SetTrigger, Form!SetPlugin, Form!Elsewhere, Form!Act, FormInv, FormTypes, Form!TypeOK, Form!Parameters
  <1>3. asked' = [asked EXCEPT ![t] = a] /\ focus' \in [Tab -> BOOLEAN]
    BY <1>1, OneForm
  <1>4. ASSUME NEW new \in Form!Draft, draft' = [draft EXCEPT ![t] = new],
               new.env = d.env, \A f \in Form!Field : new[f] = d[f]
        PROVE  FormInv'
    <2>1. Takes(d, a, new, a, Form!Shown(base[t]))
      BY <1>4, OneForm DEF Takes, Agrees, EnvAgrees, Grows
    <2> HIDE DEF d, a
    <2> QED BY <1>1, <1>2, <1>3, <1>4, <2>1, FieldSet DEF d, a
  <1>5. d \in Form!Draft /\ draft \in [Tab -> Form!Draft]
    BY OneForm
  <1>6. ASSUME NEW events \in SUBSET Form!Event, Form!SetTrigger(t, events) PROVE FormInv'
    <2> DEFINE new == [d EXCEPT !.trigger = events]
    <2>1. new \in Form!Draft /\ new.env = d.env /\ \A f \in Form!Field : new[f] = d[f]
      BY <1>5 DEF Form!Draft, Form!Field, Form!Lists
    <2>2. draft' = [draft EXCEPT ![t] = new]
      BY <1>5, <1>6 DEF Form!SetTrigger
    <2> HIDE DEF new
    <2> QED BY <1>4, <2>1, <2>2
  <1>7. ASSUME NEW i \in DOMAIN Offered, Form!SetPlugin(t, Offered[i]) PROVE FormInv'
    <2> DEFINE new == [d EXCEPT !.plugin = Offered[i]]
    <2>1. Offered[i] \in Plugin
      BY DEF Form!Parameters
    <2>2. new \in Form!Draft /\ new.env = d.env /\ \A f \in Form!Field : new[f] = d[f]
      BY <1>5, <2>1 DEF Form!Draft, Form!Field, Form!Lists
    <2>3. draft' = [draft EXCEPT ![t] = new]
      BY <1>5, <1>7 DEF Form!SetPlugin
    <2> HIDE DEF new
    <2> QED BY <1>4, <2>2, <2>3
  <1> QED BY <1>6, <1>7

\* The detection of variables adds empty ones where there were none.
LEMMA BlurKeeps ==
  ASSUME Form!Parameters, FormInv, NEW t \in Tab, Form!Blur(t)
  PROVE  FormInv'
PROOF
  <1> DEFINE d == draft[t]  a == asked[t]  e == editing[t]
             env == Form!Detected(d.env, d.script[mounted[t]])
             new == [d EXCEPT !.env = env]
  <1>1. /\ d \in Form!Draft /\ a \in Asks /\ d.env \in Form!Env /\ Agrees(d, a, Form!Shown(base[t]))
        /\ e \in Entry \cup {Form!NotEditing} /\ EditingIn(e, d)
    BY OneForm
  <1>2. UNCHANGED <<stored, unused, formPage, formSent, behind, target, base, mounted, editing, asked, acts, formMishaps>>
    BY DEF Form!Blur
  <1>3. draft' = [draft EXCEPT ![t] = new] /\ asked' = [asked EXCEPT ![t] = a] /\ editing' = [editing EXCEPT ![t] = e]
    BY <1>2, OneForm DEF Form!Blur
  <1>4. acts' \in 0 .. MaxActs /\ focus' \in [Tab -> BOOLEAN]
    BY <1>2 DEF Form!Blur, FormInv, FormTypes, Form!TypeOK
  <1>5. /\ env \in Form!Env
        /\ \A k \in Variable : env[k] = d.env[k] \/ (d.env[k] = NotSet /\ env[k] = Empty)
    BY <1>1 DEF Form!Detected, Form!Env, Form!Parameters
  <1> HIDE DEF env
  <1>6. new \in Form!Draft /\ new.env = env /\ \A f \in Form!Field : new[f] = d[f]
    BY <1>1, <1>5 DEF Form!Draft, Form!Field, Form!Lists
  <1>7. EditingIn(e, new)
    BY <1>1, <1>5, <1>6 DEF EditingIn, Form!Parameters, Entry
  <1>8. Agrees(new, a, Form!Shown(base[t])) /\ Grows(a, d.env, a, new.env)
    BY <1>1, <1>5, <1>6 DEF Agrees, EnvAgrees, Grows, Form!Parameters
  <1> HIDE DEF new
  <1> QED BY <1>1, <1>2, <1>3, <1>4, <1>6, <1>7, <1>8, Edit

\* The environment editor: one variable is set or removed, or a row is edited.
LEMMA EntriesKeep ==
  ASSUME Form!Parameters, FormInv, NEW t \in Tab, NEW k \in Variable, NEW v \in Value,
         \/ Form!AddEntry(t, k, v) \/ Form!RemoveEntry(t, k) \/ Form!StartEdit(t, k) \/ Form!Retype(t, k, v)
         \/ Form!CancelEdit(t)
  PROVE  FormInv'
PROOF
  <1> DEFINE d == draft[t]  a == asked[t]  e == editing[t]
  <1>1. /\ d \in Form!Draft /\ a \in Asks /\ d.env \in Form!Env /\ Agrees(d, a, Form!Shown(base[t]))
        /\ e \in Entry \cup {Form!NotEditing} /\ EditingIn(e, d)
    BY OneForm
  <1>2. UNCHANGED <<stored, unused, formPage, formSent, behind, target, base, mounted, focus, formMishaps>>
    BY DEF Form!AddEntry, Form!RemoveEntry, Form!StartEdit, Form!Retype, Form!CancelEdit
  <1>3. acts' \in 0 .. MaxActs
    BY DEF Form!AddEntry, Form!RemoveEntry, Form!StartEdit, Form!Retype, Form!CancelEdit, Form!Elsewhere, Form!Act,
           FormInv, FormTypes, Form!TypeOK, Form!Parameters
  <1>4. focus' \in [Tab -> BOOLEAN]
    BY <1>2, OneForm
  <1>5. draft \in [Tab -> Form!Draft] /\ asked \in [Tab -> Asks] /\ editing \in [Tab -> Entry \cup {Form!NotEditing}]
    BY OneForm
  <1>6. ASSUME NEW w \in Value \cup {NotSet}, w = NotSet => e = Form!NotEditing \/ e.original # k,
               draft' = [draft EXCEPT ![t].env[k] = w], Form!Asks(t, k, w), editing' = editing
        PROVE  FormInv'
    <2> DEFINE new == [d EXCEPT !.env[k] = w]  asks == [a EXCEPT ![k] = w]
    <2>1. /\ draft' = [draft EXCEPT ![t] = new] /\ asked' = [asked EXCEPT ![t] = asks]
          /\ editing' = [editing EXCEPT ![t] = e]
      BY <1>5, <1>6 DEF Form!Asks
    <2>2. Takes(d, a, new, asks, Form!Shown(base[t]))
      BY <1>1, Asked
    <2>3. \A j \in Variable : new.env[j] = IF j = k THEN w ELSE d.env[j]
      BY <1>1 DEF Form!Draft, Form!Env
    <2>4. EditingIn(e, new)
      BY <1>1, <1>6, <2>3 DEF EditingIn, Entry, Form!Parameters
    <2> HIDE DEF new, asks
    <2> QED BY <1>1, <1>2, <1>3, <1>4, <2>1, <2>2, <2>4, Edit DEF Takes
  <1>7. CASE Form!AddEntry(t, k, v)
    BY <1>6, <1>7 DEF Form!AddEntry, Form!Parameters
  <1>8. CASE Form!RemoveEntry(t, k)
    BY <1>6, <1>8 DEF Form!RemoveEntry
  <1>9. ASSUME NEW row_t \in Entry \cup {Form!NotEditing}, EditingIn(row_t, d),
               editing' = [editing EXCEPT ![t] = row_t], UNCHANGED <<draft, asked>>
        PROVE  FormInv'
    <2>1. draft' = [draft EXCEPT ![t] = d] /\ asked' = [asked EXCEPT ![t] = a]
      BY <1>5, <1>9
    <2>2. Grows(a, d.env, a, d.env)
      BY DEF Grows
    <2> QED BY <1>1, <1>2, <1>3, <1>4, <1>9, <2>1, <2>2, Edit
  <1>10. CASE Form!StartEdit(t, k)
    <2> DEFINE row_t == [original |-> k, key |-> k, val |-> d.env[k]]
    <2>1. d.env[k] # NotSet /\ d.env[k] \in Value
      BY <1>1, <1>10 DEF Form!StartEdit, Form!Env
    <2>2. row_t \in Entry /\ EditingIn(row_t, d)
      BY <2>1 DEF Entry, EditingIn
    <2> QED BY <1>9, <1>10, <2>2 DEF Form!StartEdit
  <1>11. CASE Form!Retype(t, k, v)
    <2> DEFINE row_t == [e EXCEPT !.key = k, !.val = v]
    <2>1. e \in Entry /\ d.env[e.original] # NotSet
      BY <1>1, <1>11 DEF Form!Retype, EditingIn
    <2>2. row_t \in Entry /\ EditingIn(row_t, d)
      BY <2>1 DEF Entry, EditingIn
    <2>3. editing' = [editing EXCEPT ![t] = row_t]
      BY <1>5, <1>11 DEF Form!Retype
    <2> QED BY <1>9, <1>11, <2>2, <2>3 DEF Form!Retype
  <1>12. CASE Form!CancelEdit(t)
    BY <1>9, <1>12 DEF Form!CancelEdit, EditingIn
  <1> QED BY <1>7, <1>8, <1>10, <1>11, <1>12

\* A renamed row takes its old name off the form.
LEMMA SaveEditKeeps ==
  ASSUME Form!Parameters, FormInv, NEW t \in Tab, Form!SaveEdit(t)
  PROVE  FormInv'
PROOF
  <1> DEFINE d == draft[t]  a == asked[t]  e == editing[t]
             env == Form!Renamed(d.env, e)
             new == [d EXCEPT !.env = env]
             asks == [a EXCEPT ![e.original] = NotSet, ![e.key] = e.val]
  <1>1. d \in Form!Draft /\ a \in Asks /\ d.env \in Form!Env /\ Agrees(d, a, Form!Shown(base[t]))
    BY OneForm
  <1>2. e \in Entry
    BY OneForm DEF Form!SaveEdit
  <1>3. UNCHANGED <<stored, unused, formPage, formSent, behind, target, base, mounted, focus, formMishaps>>
    BY DEF Form!SaveEdit
  <1>4. acts' \in 0 .. MaxActs /\ focus' \in [Tab -> BOOLEAN]
    BY <1>3 DEF Form!SaveEdit, Form!Elsewhere, Form!Act, FormInv, FormTypes, Form!TypeOK, Form!Parameters
  <1>5. /\ draft' = [draft EXCEPT ![t] = new] /\ asked' = [asked EXCEPT ![t] = asks]
        /\ editing' = [editing EXCEPT ![t] = Form!NotEditing]
    BY OneForm DEF Form!SaveEdit
  <1> HIDE DEF d, a, e
  <1>6. env \in Form!Env /\ \A k \in Variable : env[k] = IF k = e.key THEN e.val ELSE IF k = e.original THEN NotSet ELSE d.env[k]
    BY <1>1, <1>2 DEF Form!Renamed, Form!Env, Entry
  <1>7. /\ asks \in Asks
        /\ \A k \in Form!Field \cup Variable : asks[k] = IF k = e.key THEN e.val ELSE IF k = e.original THEN NotSet ELSE a[k]
    BY <1>1, <1>2 DEF Asks, Wish, Entry
  <1> HIDE DEF env, asks
  <1>8. new \in Form!Draft /\ new.env = env /\ \A f \in Form!Field : new[f] = d[f]
    BY <1>1, <1>6 DEF Form!Draft, Form!Field, Form!Lists
  <1>9. e.val # Gone /\ NotSet # Gone /\ \A f \in Form!Field : asks[f] = a[f]
    BY <1>2, <1>7 DEF Entry, Form!Parameters
  <1>10. Agrees(new, asks, Form!Shown(base[t]))
    BY <1>1, <1>6, <1>7, <1>8, <1>9 DEF Agrees, EnvAgrees
  <1>11. Grows(a, d.env, asks, new.env)
    BY <1>6, <1>7, <1>8, <1>9 DEF Grows
  <1>12. EditingIn(Form!NotEditing, new)
    BY DEF EditingIn
  <1> HIDE DEF new
  <1> QED BY <1>3, <1>4, <1>5, <1>7, <1>8, <1>10, <1>11, <1>12, Edit DEF a, d

LEMMA LoadKeeps ==
  ASSUME Form!Parameters, FormInv, NEW t \in Tab, NEW id \in FormId \cup {New}, Form!Load(t, id)
  PROVE  FormInv'
PROOF
  <1>1. UNCHANGED <<stored, unused, formSent, formMishaps>> /\ formPage[t] # "saving"
    BY DEF Form!Load
  <1>2. acts' \in 0 .. MaxActs
    BY DEF Form!Load, Form!Act, FormInv, FormTypes, Form!TypeOK, Form!Parameters
  <1>3. ASSUME NEW task_t \in Form!Task, Form!Fill(t, id, task_t),
               IF id = New THEN task_t = Blank ELSE stored[id] = task_t /\ id \notin unused
        PROVE  FormInv'
    <2>1. Form!Unasked \in Asks /\ \A e \in Form!Field \cup Variable : Form!Unasked[e] = Gone
      BY DEF Form!Unasked, Asks, Wish
    <2>2. Agrees(Form!Shown(task_t), Form!Unasked, Form!Shown(task_t))
      BY <2>1 DEF Agrees, EnvAgrees
    <2>3. task_t.commandType \in Kind /\ Form!Shown(task_t) \in Form!Draft
      BY Conversions DEF Form!Task
    <2>4. Form!TypeOK'
      BY <1>1, <1>2, <1>3, <2>3 DEF Form!Fill, FormInv, FormTypes, Form!TypeOK
    <2>5. FormTypes'
      BY <1>1, <1>3, <2>1, <2>4 DEF Form!Fill, FormInv, FormTypes
    <2>6. ASSUME NEW u \in Tab \ {t} PROVE (Placed(u) /\ Held(u) /\ Submitted(u) /\ Follows(u))'
      <3>1. /\ formPage'[u] = formPage[u] /\ target'[u] = target[u] /\ base'[u] = base[u] /\ draft'[u] = draft[u]
            /\ asked'[u] = asked[u] /\ behind'[u] = behind[u]
        BY <1>3 DEF Form!Fill, FormInv, FormTypes, Form!TypeOK
      <3> QED BY <1>1, <3>1 DEF FormInv, Placed, Held, Submitted, Follows, Form!Open
    <2>7. /\ formPage'[t] = "form" /\ target'[t] = id /\ base'[t] = task_t /\ draft'[t] = Form!Shown(task_t)
          /\ asked'[t] = Form!Unasked
      BY <1>3 DEF Form!Fill, FormInv, FormTypes, Form!TypeOK
    <2>8. New \notin unused
      BY DEF FormInv, FormTypes, Form!Parameters
    <2>9. Placed(t)' /\ Held(t)' /\ Submitted(t)'
      BY <1>1, <1>3, <2>2, <2>7, <2>8 DEF Placed, Held, Submitted
    <2>10. Tracked(task_t, task_t, Form!Unasked, behind'[t], Form!Shown(task_t).env)
      BY DEF Tracked
    <2>11. Follows(t)'
      BY <1>1, <1>3, <2>7, <2>10 DEF Follows
    <2> QED BY <2>5, <2>6, <2>9, <2>11 DEF FormInv
  <1>4. CASE id = New /\ Form!Fill(t, New, Blank)
    BY <1>3, <1>4 DEF Form!Parameters
  <1>5. CASE id \in FormId /\ stored[id] # Gone /\ Form!Fill(t, id, stored[id])
    <2>1. stored[id] \in Form!Task /\ id \notin unused /\ id # New
      BY <1>5 DEF FormInv, FormTypes, Form!TypeOK, Form!Parameters
    <2> QED BY <1>3, <1>5, <2>1
  <1>6. CASE formPage' = [formPage EXCEPT ![t] = "missing"] /\ UNCHANGED <<Form!form, behind>>
    <2>1. UNCHANGED <<target, base, draft, mounted, focus, editing, asked, behind>>
      BY <1>6 DEF Form!form
    <2>2. FormTypes'
      BY <1>1, <1>2, <1>6, <2>1 DEF FormInv, FormTypes, Form!TypeOK
    <2>3. \A u \in Tab : formPage'[u] \in {"form", "saving"} => formPage'[u] = formPage[u]
      BY <1>6 DEF FormInv, FormTypes, Form!TypeOK
    <2>4. ASSUME NEW u \in Tab PROVE (Placed(u) /\ Held(u) /\ Submitted(u) /\ Follows(u))'
      BY <1>1, <2>1, <2>3 DEF FormInv, Placed, Held, Submitted, Follows, Form!Open
    <2> QED BY <2>2, <2>4 DEF FormInv
  <1> QED BY <1>4, <1>5, <1>6 DEF Form!Load

LEMMA SubmitKeeps ==
  ASSUME Form!Parameters, FormInv, NEW t \in Tab, Form!Submit(t)
  PROVE  FormInv'
PROOF
  <1> DEFINE s == [task |-> Form!Built(draft[t]), asked |-> asked[t]]
  <1>1. /\ UNCHANGED <<stored, unused, target, base, draft, mounted, focus, editing, asked, behind, formMishaps>>
        /\ formPage' = [formPage EXCEPT ![t] = "saving"] /\ formSent' = [formSent EXCEPT ![t] = s]
        /\ formPage[t] = "form"
    BY DEF Form!Submit, Form!form
  <1>2. acts' \in 0 .. MaxActs
    BY DEF Form!Submit, Form!Elsewhere, Form!Act, FormInv, FormTypes, Form!TypeOK, Form!Parameters
  <1>3. /\ s \in [task : Form!Task, asked : Asks] /\ s.asked = asked[t]
        /\ s.task.env = draft[t].env /\ \A f \in Form!Field : s.task[f] = Order(f, draft[t][f])
    BY OneForm, Conversions
  <1>4. formSent' \in [Tab -> [task : Form!Task, asked : Asks]]
    BY <1>1, <1>3 DEF FormInv, FormTypes
  <1>5. FormTypes'
    BY <1>1, <1>2, <1>4 DEF FormInv, FormTypes, Form!TypeOK
  <1>6. /\ \A u \in Tab \ {t} : formPage'[u] = formPage[u] /\ formSent'[u] = formSent[u]
        /\ formPage'[t] = "saving" /\ formSent'[t] = s
    BY <1>1 DEF FormInv, FormTypes, Form!TypeOK
  <1> HIDE DEF s
  <1>7. ASSUME NEW u \in Tab \ {t} PROVE (Placed(u) /\ Held(u) /\ Submitted(u) /\ Follows(u))'
    BY <1>1, <1>6 DEF FormInv, Placed, Held, Submitted, Follows, Form!Open
  <1>8. Placed(t)' /\ Held(t)'
    BY <1>1 DEF FormInv, Placed, Held
  <1>9. Sends(s.task, s.asked, Form!Shown(base[t])) /\ Grows(s.asked, s.task.env, asked[t], draft[t].env)
    BY <1>3 DEF FormInv, Held, Agrees, Sends, Grows, EnvAgrees
  <1>10. Submitted(t)' /\ Follows(t)'
    BY <1>1, <1>3, <1>6, <1>9 DEF FormInv, Submitted, Follows, Form!Open
  <1> QED BY <1>5, <1>7, <1>8, <1>10 DEF FormInv

LEMMA WriteTypes ==
  ASSUME Form!Parameters, FormInv, NEW t \in Tab, Form!Write(t)
  PROVE  /\ stored' \in [FormId -> Form!Task \cup {Gone}] /\ unused' \subseteq unused
         /\ \A i \in unused' : stored'[i] = Gone
         /\ \A i \in FormId \ unused : stored[i] = Gone => stored'[i] = Gone
PROOF
  <1>1. /\ Form!Record(formSent[t].task) \in Form!Task /\ stored \in [FormId -> Form!Task \cup {Gone}]
        /\ unused \subseteq FormId /\ target[t] \in FormId \cup {New}
    BY Conversions DEF FormInv, FormTypes, Form!TypeOK
  <1>2. \A i \in unused : stored[i] = Gone
    BY DEF FormInv, FormTypes, Form!TypeOK
  <1>3. target[t] \notin unused
    BY DEF FormInv, Placed
  <1> QED BY <1>1, <1>2, <1>3 DEF Form!Write

\* A form stays behind what another did to its task.
LEMMA OthersWrite ==
  ASSUME Form!Parameters, FormInv, NEW t \in Tab, NEW others, t \in others, Form!Unheard(others),
         stored' \in [FormId -> Form!Task \cup {Gone}], \A i \in FormId \ unused : stored[i] = Gone => stored'[i] = Gone,
         unused' \subseteq unused, formPage'[t] = formPage[t],
         UNCHANGED <<target, base, draft, asked, formSent>>
  PROVE  (Placed(t) /\ Held(t) /\ Submitted(t) /\ Follows(t))'
PROOF
  <1>1. Placed(t)' /\ Held(t)' /\ Submitted(t)'
    BY DEF FormInv, Placed, Held, Submitted
  <1>2. Follows(t)'
    <2> DEFINE i == target[t]
    <2> SUFFICES ASSUME Form!Open(t), i # New, stored'[i] # Gone
                 PROVE  /\ Tracked(stored'[i], base[t], asked[t], behind'[t], draft[t].env)
                        /\ formPage[t] = "saving" =>
                              Tracked(stored'[i], base[t], formSent[t].asked, behind'[t], formSent[t].task.env)
      BY DEF Follows, Form!Open
    <2>1. i \in FormId \ unused
      BY DEF FormInv, FormTypes, Form!TypeOK, Placed
    <2>2. stored[i] # Gone
      BY <2>1
    <2>3. behind'[t] = behind[t] \cup Form!Changes(stored[i], stored'[i])
      BY DEF Form!Unheard
    <2>4. /\ Tracked(stored[i], base[t], asked[t], behind[t], draft[t].env)
          /\ formPage[t] = "saving" =>
                Tracked(stored[i], base[t], formSent[t].asked, behind[t], formSent[t].task.env)
      BY <2>2 DEF FormInv, Follows
    <2> QED BY <2>2, <2>3, <2>4, TrackedApart
  <1> QED BY <1>1, <1>2

\* And tracks what it did itself.
LEMMA OwnWrite ==
  ASSUME Form!Parameters, FormInv, NEW t \in Tab, Form!Saved(t)
  PROVE  (Placed(t) /\ Held(t) /\ Submitted(t) /\ Follows(t))'
PROOF
  <1>1. /\ UNCHANGED <<target, base, draft, asked, formSent>>
        /\ formPage[t] = "saving" /\ formPage'[t] \in {"task", "form"} /\ behind'[t] = behind[t]
    BY DEF Form!Saved, Form!form, Form!Unheard, FormInv, FormTypes, Form!TypeOK
  <1>2. unused' \subseteq unused
    BY WriteTypes DEF Form!Saved
  <1>3. Placed(t)' /\ Held(t)' /\ Submitted(t)'
    BY <1>1, <1>2 DEF FormInv, Placed, Held, Submitted
  <1>4. Follows(t)'
    <2> DEFINE i == target[t]
    <2> SUFFICES ASSUME i # New, stored'[i] # Gone
                 PROVE  Tracked(stored'[i], base[t], asked[t], behind[t], draft[t].env)
      BY <1>1 DEF Follows
    <2>1. CASE Form!Write(t)
      <3>1. i \in FormId /\ stored \in [FormId -> Form!Task \cup {Gone}]
        BY DEF FormInv, FormTypes, Form!TypeOK
      <3>2. stored'[i] = Form!Record(formSent[t].task)
        BY <2>1, <3>1 DEF Form!Write
      <3>3. /\ Sends(formSent[t].task, formSent[t].asked, Form!Shown(base[t]))
            /\ Grows(formSent[t].asked, formSent[t].task.env, asked[t], draft[t].env)
        BY <1>1 DEF FormInv, Submitted
      <3>4. formSent[t].task \in Form!Task /\ base[t] \in Form!Task
        BY DEF FormInv, FormTypes, Form!TypeOK
      <3> HIDE DEF i
      <3> QED BY <3>2, <3>3, <3>4, TrackedSave
    <2>2. CASE UNCHANGED stored
      BY <1>1, <2>2 DEF FormInv, Follows, Form!Open
    <2> QED BY <2>1, <2>2 DEF Form!Saved
  <1> QED BY <1>3, <1>4

LEMMA HeardTypes ==
  ASSUME Form!Parameters, FormInv, NEW others, Form!Unheard(others)
  PROVE  DOMAIN behind' = Tab /\ \A t \in Tab : behind'[t] \subseteq Form!Field \cup Variable
PROOF BY DEF FormInv, FormTypes, Form!TypeOK, Form!Unheard, Form!Changes

LEMMA ServerKeeps ==
  ASSUME Form!Parameters, FormInv,
         (\E t \in Tab : Form!Saved(t)) \/ \E id \in FormId : Form!Toggle(id)
  PROVE  FormInv'
PROOF
  <1>1. ASSUME NEW t \in Tab, Form!Saved(t) PROVE FormInv'
    <2>1. /\ UNCHANGED <<target, base, draft, mounted, focus, editing, asked, formSent, acts>>
          /\ Form!Unheard(Tab \ {t})
      BY <1>1 DEF Form!Saved, Form!form
    <2>2. formMishaps' \in 0 .. MaxMishaps
      BY <1>1 DEF Form!Saved, Form!Mishap, FormInv, FormTypes, Form!TypeOK, Form!Parameters
    <2>3. /\ stored' \in [FormId -> Form!Task \cup {Gone}] /\ unused' \subseteq unused
          /\ \A i \in unused' : stored'[i] = Gone
          /\ \A i \in FormId \ unused : stored[i] = Gone => stored'[i] = Gone
      <3>1. CASE Form!Write(t)
        BY <3>1, WriteTypes
      <3>2. CASE UNCHANGED <<stored, unused>>
        BY <3>2 DEF FormInv, FormTypes, Form!TypeOK
      <3> QED BY <1>1, <3>1, <3>2 DEF Form!Saved
    <2>4. \E p \in {"task", "form"} : formPage' = [formPage EXCEPT ![t] = p]
      BY <1>1 DEF Form!Saved
    <2>5. DOMAIN behind' = Tab /\ \A u \in Tab : behind'[u] \subseteq Form!Field \cup Variable
      BY <2>1, HeardTypes
    <2>6. FormTypes'
      BY <2>1, <2>2, <2>3, <2>4, <2>5 DEF FormInv, FormTypes, Form!TypeOK
    <2>7. ASSUME NEW u \in Tab PROVE (Placed(u) /\ Held(u) /\ Submitted(u) /\ Follows(u))'
      <3>1. CASE u = t
        BY <1>1, <3>1, OwnWrite
      <3>2. CASE u # t
        <4>1. formPage'[u] = formPage[u]
          BY <2>4, <3>2 DEF FormInv, FormTypes, Form!TypeOK
        <4> QED BY <2>1, <2>3, <3>2, <4>1, OthersWrite
      <3> QED BY <3>1, <3>2
    <2> QED BY <2>6, <2>7 DEF FormInv
  <1>2. ASSUME NEW id \in FormId, Form!Toggle(id) PROVE FormInv'
    <2>1. /\ UNCHANGED <<unused, formPage, target, base, draft, mounted, focus, editing, asked, formSent, formMishaps>>
          /\ Form!Unheard(Tab)
      BY <1>2 DEF Form!Toggle, Form!form
    <2>2. acts' \in 0 .. MaxActs
      BY <1>2 DEF Form!Toggle, Form!Act, FormInv, FormTypes, Form!TypeOK, Form!Parameters
    <2>3. stored[id] \in Form!Task /\ id \notin unused /\ stored[id] # Gone
      BY <1>2 DEF Form!Toggle, FormInv, FormTypes, Form!TypeOK
    <2>4. [stored[id] EXCEPT !.enabled = ~@] \in Form!Task
      BY <2>3 DEF Form!Task
    <2>5. PICK new \in Form!Task \cup {Gone} : stored' = [stored EXCEPT ![id] = new]
      BY <1>2, <2>4, Conversions DEF Form!Toggle
    <2>6. /\ stored' \in [FormId -> Form!Task \cup {Gone}] /\ \A i \in unused : stored'[i] = Gone
          /\ \A i \in FormId \ unused : stored[i] = Gone => stored'[i] = Gone
      BY <2>3, <2>5 DEF FormInv, FormTypes, Form!TypeOK
    <2>7. DOMAIN behind' = Tab /\ \A u \in Tab : behind'[u] \subseteq Form!Field \cup Variable
      BY <2>1, HeardTypes
    <2>8. FormTypes'
      BY <2>1, <2>2, <2>6, <2>7 DEF FormInv, FormTypes, Form!TypeOK
    <2>9. ASSUME NEW u \in Tab PROVE (Placed(u) /\ Held(u) /\ Submitted(u) /\ Follows(u))'
      BY <2>1, <2>6, OthersWrite
    <2> QED BY <2>8, <2>9 DEF FormInv
  <1> QED BY <1>1, <1>2

LEMMA FormStep ==
  ASSUME Form!Parameters, FormInv, [Form!Next]_Form!vars
  PROVE  FormInv'
PROOF
  <1>1. CASE UNCHANGED Form!vars
    <2>1. UNCHANGED <<stored, unused, formPage, target, base, draft, mounted, focus, editing, asked, formSent, behind,
                      acts, formMishaps>>
      BY <1>1 DEF Form!vars, Form!form
    <2>2. FormTypes'
      BY <2>1 DEF FormInv, FormTypes, Form!TypeOK
    <2>3. \A t \in Tab : (Placed(t) /\ Held(t) /\ Submitted(t) /\ Follows(t))'
      BY <2>1 DEF FormInv, Placed, Held, Submitted, Follows, Form!Open
    <2> QED BY <2>2, <2>3 DEF FormInv
  <1>2. CASE \E id \in FormId : Form!Toggle(id)
    BY <1>2, ServerKeeps
  <1>3. ASSUME NEW t \in Tab,
               \/ \E id \in FormId \cup {New} : Form!Load(t, id)
               \/ Form!Blur(t) \/ Form!SaveEdit(t) \/ Form!Submit(t) \/ Form!Saved(t)
        PROVE  FormInv'
    BY <1>3, LoadKeeps, BlurKeeps, SaveEditKeeps, SubmitKeeps, ServerKeeps
  <1>4. ASSUME NEW t \in Tab,
               \/ \E b \in BOOLEAN : Form!SetField(t, "enabled", b)
               \/ \E c \in Kind : Form!SetField(t, "commandType", c)
               \/ \E f \in Form!Lists, x \in Text : Form!SetField(t, f, x)
               \/ \E s \in Script : Form!EditScript(t, s) \/ Form!InsertSnippet(t, s)
        PROVE  FormInv'
    BY <1>4, FieldsKeep
  <1>5. ASSUME NEW t \in Tab,
               \/ \E events \in SUBSET Form!Event : Form!SetTrigger(t, events)
               \/ \E i \in DOMAIN Offered : Form!SetPlugin(t, Offered[i])
        PROVE  FormInv'
    BY <1>5, NotifyKeeps
  <1>6. ASSUME NEW t \in Tab, Form!CancelEdit(t) PROVE FormInv'
    <2>1. PICK k \in Variable : TRUE
      BY <1>6, OneForm DEF Form!CancelEdit, Entry
    <2>2. PICK v \in Value : TRUE
      BY DEF Form!Parameters
    <2> QED BY <1>6, <2>1, <2>2, EntriesKeep
  <1>7. ASSUME NEW t \in Tab, NEW k \in Variable,
               \/ Form!RemoveEntry(t, k) \/ Form!StartEdit(t, k)
               \/ \E v \in Value : Form!AddEntry(t, k, v) \/ Form!Retype(t, k, v)
        PROVE  FormInv'
    <2>1. PICK v \in Value : TRUE
      BY DEF Form!Parameters
    <2> QED BY <1>7, <2>1, EntriesKeep
  <1> QED BY <1>1, <1>2, <1>3, <1>4, <1>5, <1>6, <1>7 DEF Form!Next

\* The only step that takes a form out of saving.
LEMMA SavedWrites ==
  ASSUME Form!Parameters, FormInv, [Form!Next]_Form!vars, NEW t \in Tab, NEW i \in FormId,
         formPage[t] = "saving", formPage'[t] # "saving", stored'[i] # stored[i]
  PROVE  /\ target[t] \in {i, New}
         /\ \A f \in Form!Field : Form!FieldKept(t, f, Form!Row(i)[f], stored'[i][f])
         /\ \A k \in Variable : Form!VariableKept(t, k, Form!Row(i).env[k], stored'[i].env[k])
PROOF
  <1>1. /\ formPage \in [Tab -> {"away", "missing", "form", "saving", "task"}] /\ stored \in [FormId -> Form!Task \cup {Gone}]
        /\ base[t] \in Form!Task /\ formSent[t].task \in Form!Task
    BY DEF FormInv, FormTypes, Form!TypeOK
  <1>2. PICK u \in Tab : Form!Saved(u)
    <2>1. ASSUME NEW v \in Tab,
                 \/ \E b \in BOOLEAN : Form!SetField(v, "enabled", b)
                 \/ \E c \in Kind : Form!SetField(v, "commandType", c)
                 \/ \E f \in Form!Lists, x \in Text : Form!SetField(v, f, x)
                 \/ \E events \in SUBSET Form!Event : Form!SetTrigger(v, events)
                 \/ \E j \in DOMAIN Offered : Form!SetPlugin(v, Offered[j])
                 \/ \E s \in Script : Form!EditScript(v, s) \/ Form!InsertSnippet(v, s)
                 \/ \E k \in Variable :
                       \/ Form!RemoveEntry(v, k) \/ Form!StartEdit(v, k)
                       \/ \E x \in Value : Form!AddEntry(v, k, x) \/ Form!Retype(v, k, x)
                 \/ Form!Blur(v) \/ Form!SaveEdit(v) \/ Form!CancelEdit(v)
                 \/ Form!Submit(v) \/ \E id \in FormId \cup {New} : Form!Load(v, id)
          PROVE  stored' = stored
      BY <2>1 DEF Form!SetField, Form!EditScript, Form!InsertSnippet, Form!ScriptIs, Form!RemoveEntry, Form!StartEdit,
                  Form!SetTrigger, Form!SetPlugin,
                  Form!AddEntry, Form!Retype, Form!Blur, Form!SaveEdit, Form!CancelEdit, Form!Submit, Form!Load
    <2>2. \A id \in FormId : Form!Toggle(id) => formPage' = formPage
      BY DEF Form!Toggle
    <2>3. UNCHANGED Form!vars => stored' = stored
      BY DEF Form!vars
    <2> QED BY <2>1, <2>2, <2>3 DEF Form!Next
  <1>3. u = t
    <2>1. \E p \in {"task", "form"} : formPage' = [formPage EXCEPT ![u] = p]
      BY <1>2 DEF Form!Saved
    <2> QED BY <1>1, <2>1
  <1>4. Form!Write(t)
    BY <1>2, <1>3 DEF Form!Saved
  <1>5. target[t] \in {i, New} /\ stored'[i] = Form!Record(formSent[t].task)
    BY <1>1, <1>4 DEF Form!Write
  <1> DEFINE old == Form!Row(i)  new == formSent[t].task  asks == formSent[t].asked
  <1>6. Tracked(old, base[t], asks, behind[t], new.env)
    <2>1. CASE target[t] = New
      <3>1. stored[i] = Gone
        BY <1>1, <1>4, <2>1 DEF Form!Write, FormInv, FormTypes, Form!TypeOK
      <3>2. old = base[t]
        BY <2>1, <3>1 DEF Form!Row, FormInv, Placed
      <3> QED BY <3>2 DEF Tracked
    <2>2. CASE target[t] # New
      <3>1. target[t] = i /\ stored[i] # Gone /\ old = stored[i]
        BY <1>4, <1>5, <2>2 DEF Form!Write, Form!Row
      <3> QED BY <2>2, <3>1 DEF FormInv, Follows, Form!Open
    <2> QED BY <2>1, <2>2
  <1>7. Sends(new, asks, Form!Shown(base[t]))
    BY DEF FormInv, Submitted
  <1>8. /\ \A f \in Form!Field : stored'[i][f] = new[f]
        /\ stored'[i].env = new.env /\ Form!Shown(base[t]).env = base[t].env
        /\ \A f \in Form!Field :
              Form!Shown(base[t])[f] = IF f \in Form!Lists THEN Form!Joined(base[t][f]) ELSE base[t][f]
    BY <1>1, <1>5, Conversions
  <1> HIDE DEF old, new, asks
  <1>9. ASSUME NEW f \in Form!Field PROVE Form!FieldKept(t, f, old[f], stored'[i][f])
    <2>1. CASE asks[f] # Gone
      BY <1>7, <1>8, <2>1 DEF Form!FieldKept, Sends, Order, asks
    <2>2. CASE asks[f] = Gone /\ f \notin behind[t]
      <3>1. new[f] = Order(f, Form!Shown(base[t])[f])
        BY <1>7, <2>2 DEF Sends
      <3>2. old[f] = base[t][f] \/ old[f] = Order(f, Form!Shown(base[t])[f])
        BY <1>6, <2>2 DEF Tracked
      <3>3. new[f] = old[f] \/ (f \in Form!Lists /\ new[f] = Form!Entries(Form!Joined(old[f])))
        BY <1>8, <3>1, <3>2 DEF Order
      <3> QED BY <1>8, <2>2, <3>3 DEF Form!FieldKept, asks
    <2>3. CASE asks[f] = Gone /\ f \in behind[t]
      BY <2>3 DEF Form!FieldKept, asks
    <2> QED BY <2>1, <2>2, <2>3
  <1>10. ASSUME NEW k \in Variable PROVE Form!VariableKept(t, k, old.env[k], stored'[i].env[k])
    <2>1. CASE asks[k] # Gone
      BY <1>7, <1>8, <2>1 DEF Form!VariableKept, Sends, EnvAgrees, asks
    <2>2. CASE asks[k] = Gone /\ k \notin behind[t]
      <3>1. new.env[k] = base[t].env[k] \/ (base[t].env[k] = NotSet /\ new.env[k] = Empty)
        BY <1>7, <1>8, <2>2 DEF Sends, EnvAgrees
      <3>2. \/ old.env[k] = base[t].env[k]
            \/ (base[t].env[k] = NotSet /\ old.env[k] = Empty /\ new.env[k] = Empty)
        BY <1>6, <2>2 DEF Tracked
      <3> QED BY <1>8, <2>2, <3>1, <3>2 DEF Form!VariableKept, asks
    <2>3. CASE asks[k] = Gone /\ k \in behind[t]
      BY <2>3 DEF Form!VariableKept, asks
    <2> QED BY <2>1, <2>2, <2>3
  <1> QED BY <1>5, <1>9, <1>10 DEF old

\* A save leaves what its user asked for and otherwise what was stored, but for
\* what others changed since its form was loaded, for any scripts, lists,
\* variables, values and tabs (task-form.tsx:61-108, env-editor.tsx:24-52,
\* task-repo.ts:57-84).
LEMMA FormSaves == ASSUME Form!Parameters PROVE Form!Spec => []FormInv /\ Form!SavesOnlyTouched
PROOF
  <1>1. Form!Init => FormInv
    BY FormInit
  <1>2. FormInv /\ [Form!Next]_Form!vars => FormInv'
    BY FormStep
  <1>3. FormInv /\ [Form!Next]_Form!vars =>
          [\A t \in Tab, i \in FormId :
              formPage[t] = "saving" /\ formPage'[t] # "saving" /\ stored'[i] # stored[i] =>
                  /\ target[t] \in {i, New}
                  /\ \A f \in Form!Field : Form!FieldKept(t, f, Form!Row(i)[f], stored'[i][f])
                  /\ \A k \in Variable : Form!VariableKept(t, k, Form!Row(i).env[k], stored'[i].env[k])]_Form!vars
    BY SavedWrites
  <1> QED BY <1>1, <1>2, <1>3, PTL DEF Form!Spec, Form!SavesOnlyTouched

(***************************************************************************)
(* The overlaps on the dashboard are those of the month ahead, for any     *)
(* tasks, any expressions and any limits: none is made up and, short of    *)
(* the two limits, none is missing.                                        *)
(***************************************************************************)

Inputs ==
    /\ tasks \in [Id -> [name : Name, cron : Cron, enabled : BOOLEAN]]
    /\ now \in Instant /\ now.day = 0

DashInv == Inputs /\ (timeline = Unshown \/ timeline = BuildSchedule)

\* The schedule depends on the tasks and the time alone.
LEMMA SameInputs ==
  ASSUME UNCHANGED <<tasks, now>>
  PROVE  BuildSchedule' = BuildSchedule
PROOF
  <1>1. \A days : Window(days)' = Window(days)
    BY DEF Window
  <1>2. \A c, days : Firings(c, days)' = Firings(c, days)
    BY <1>1 DEF Firings
  <1>3. \A c, days, limit : Occurrences(c, days, limit)' = Occurrences(c, days, limit)
    BY <1>2 DEF Occurrences
  <1>4. \A i : Runs(i)' = Runs(i)
    BY <1>3 DEF Runs
  <1>5. Active' = Active /\ Comparable' = Comparable
    BY <1>4 DEF Active, Comparable
  <1>6. Everyday' = Everyday /\ DateSpecific' = DateSpecific
    BY <1>5 DEF Everyday, DateSpecific
  <1>7. \A m : NamesAtMinute(m)' = NamesAtMinute(m)
    BY <1>4, <1>6 DEF NamesAtMinute
  <1>8. \A p : Dated(p)' = Dated(p)
    BY <1>3, <1>6 DEF Dated
  <1>9. \A p : NamesAtInstant(p)' = NamesAtInstant(p)
    BY <1>7, <1>8 DEF NamesAtInstant
  <1>10. DailyOverlaps' = DailyOverlaps
    BY <1>7 DEF DailyOverlaps
  <1>11. DatedOverlaps' = DatedOverlaps
    BY <1>8, <1>9, <1>10 DEF DatedOverlaps
  <1> QED BY <1>4, <1>5, <1>10, <1>11 DEF BuildSchedule, DetectCollisions

\* The dashboard shows the schedule of module Schedule.
LEMMA PageSchedule == Page!BuildSchedule = BuildSchedule
PROOF
  <1>1. Page!Instant = Instant /\ Page!Minute = Minute
    BY DEF Page!Instant, Instant, Page!Minute, Minute, Page!Day, Day
  <1>2. \A p, q : Page!AtOrBefore(p, q) = AtOrBefore(p, q) /\ Page!Before(p, q) = Before(p, q)
    BY DEF Page!AtOrBefore, AtOrBefore, Page!Before, Before
  <1>3. \A S : Page!Cardinality(S) = Cardinality(S)
    BY DEF Page!Cardinality, Cardinality
  <1>4. \A days : Page!Window(days) = Window(days)
    BY <1>1, <1>2 DEF Page!Window, Window
  <1>5. \A c, days : Page!Firings(c, days) = Firings(c, days)
    BY <1>4 DEF Page!Firings, Firings, Page!Fires, Fires
  <1>6. \A c, days, limit : Page!Occurrences(c, days, limit) = Occurrences(c, days, limit)
    BY <1>3, <1>2, <1>5 DEF Page!Occurrences, Occurrences
  <1>7. \A i : Page!Runs(i) = Runs(i)
    BY <1>6 DEF Page!Runs, Runs
  <1>8. Page!Active = Active /\ Page!Comparable = Comparable
    BY <1>3, <1>7 DEF Page!Active, Active, Page!Comparable, Comparable
  <1>9. Page!Everyday = Everyday /\ Page!DateSpecific = DateSpecific
    BY <1>8 DEF Page!Everyday, Everyday, Page!DateSpecific, DateSpecific
  <1>10. \A m : Page!NamesAtMinute(m) = NamesAtMinute(m)
    BY <1>7, <1>9 DEF Page!NamesAtMinute, NamesAtMinute
  <1>11. \A p : Page!Dated(p) = Dated(p)
    BY <1>6, <1>9 DEF Page!Dated, Dated
  <1>12. \A p : Page!NamesAtInstant(p) = NamesAtInstant(p)
    BY <1>10, <1>11 DEF Page!NamesAtInstant, NamesAtInstant
  <1>13. \A m, names, daily : Page!Overlap(m, names, daily) = Overlap(m, names, daily)
    BY DEF Page!Overlap, Overlap
  <1>14. \A names : Page!Several(names) = Several(names)
    BY DEF Page!Several, Several
  <1>15. Page!DailyOverlaps = DailyOverlaps
    BY <1>1, <1>10, <1>13, <1>14 DEF Page!DailyOverlaps, DailyOverlaps
  <1>16. Page!DatedOverlaps = DatedOverlaps
    BY <1>1, <1>11, <1>12, <1>13, <1>14, <1>15 DEF Page!DatedOverlaps, DatedOverlaps
  <1> QED BY <1>7, <1>8, <1>15, <1>16 DEF Page!BuildSchedule, BuildSchedule, Page!DetectCollisions, DetectCollisions

LEMMA PageInit ==
  ASSUME Page!Init
  PROVE  DashInv
  BY DEF Page!Init, Page!Instant, Page!Day, Page!Minute, DashInv, Inputs, Instant, Day, Minute

LEMMA PageStep ==
  ASSUME DashInv, [Page!Next]_Page!vars
  PROVE  DashInv'
PROOF
  <1>1. UNCHANGED <<tasks, now>>
    BY DEF Page!Next, Page!Show, Page!vars
  <1>2. BuildSchedule' = BuildSchedule /\ Inputs'
    BY <1>1, SameInputs DEF DashInv, Inputs
  <1>3. timeline' = timeline \/ timeline' = BuildSchedule
    BY PageSchedule DEF Page!Next, Page!Show, Page!vars
  <1> QED BY <1>2, <1>3 DEF DashInv

LEMMA DashInvHolds == Page!Spec => []DashInv
  BY PageInit, PageStep, PTL DEF Page!Spec

------------------------------------------------------------------------------
(* Instants *)

LEMMA InstantFinite == IsFiniteSet(Instant)
PROOF
  <1> DEFINE f == [d \in Day \X Minute |-> [day |-> d[1], minute |-> d[2]]]
  <1>1. IsFiniteSet(Day \X Minute)
    <2>1. HorizonDays \in Int /\ MinutesPerDay - 1 \in Int
      BY SizesAssumption
    <2>2. IsFiniteSet(Day) /\ IsFiniteSet(Minute)
      BY <2>1, FS_Interval DEF Day, Minute
    <2> QED BY <2>2, FS_Product
  <1>2. f \in Surjection(Day \X Minute, Instant)
    <2>1. f \in [Day \X Minute -> Instant]
      BY DEF Instant
    <2>2. ASSUME NEW p \in Instant PROVE \E d \in Day \X Minute : f[d] = p
      <3>1. <<p.day, p.minute>> \in Day \X Minute /\ f[<<p.day, p.minute>>] = p
        BY DEF Instant
      <3> QED BY <3>1
    <2> QED BY <2>1, <2>2 DEF Surjection
  <1> QED BY <1>1, <1>2, FS_Surjection

\* A task that runs every day at a minute of the month does so in the next day.
LEMMA NextDay ==
  ASSUME Inputs, NEW p \in Instant
  PROVE  \E q \in Window(1) : q.minute = p.minute
PROOF
  <1>1. now \in Instant /\ now.day = 0 /\ HorizonDays \in Nat \ {0}
    BY SizesAssumption DEF Inputs
  <1> DEFINE q == [day |-> IF p.minute > now.minute THEN 0 ELSE 1, minute |-> p.minute]
  <1>2. q \in Instant
    BY <1>1 DEF Instant, Day
  <1>3. Before(now, q)
    BY <1>1, SizesAssumption DEF Before, Instant, Minute
  <1>4. AtOrBefore(q, [now EXCEPT !.day = now.day + 1])
    BY <1>1, SizesAssumption DEF AtOrBefore, Instant, Minute, Day
  <1> QED BY <1>2, <1>3, <1>4 DEF Window

\* A scan below its limit finds every firing.
LEMMA ScanIsWhole ==
  ASSUME NEW c, NEW days, NEW limit \in Nat, ~Truncated(c, days, limit)
  PROVE  /\ Occurrences(c, days, limit) = Firings(c, days)
         /\ IsFiniteSet(Firings(c, days))
         /\ Cardinality(Firings(c, days)) <= limit
PROOF
  <1>1. IsFiniteSet(Firings(c, days))
    BY InstantFinite, FS_Subset DEF Firings, Window
  <1>2. Cardinality(Firings(c, days)) \in Nat /\ Cardinality(Firings(c, days)) <= limit
    BY <1>1, FS_CardinalityType DEF Truncated
  <1>3. ASSUME NEW p \in Firings(c, days)
        PROVE  Cardinality({q \in Firings(c, days) : AtOrBefore(q, p)}) <= limit
    <2> DEFINE earlier == {q \in Firings(c, days) : AtOrBefore(q, p)}
    <2>1. IsFiniteSet(earlier) /\ Cardinality(earlier) <= Cardinality(Firings(c, days))
      BY <1>1, FS_Subset
    <2>2. Cardinality(earlier) \in Nat
      BY <2>1, FS_CardinalityType
    <2> QED BY <1>2, <2>1, <2>2
  <1>4. Occurrences(c, days, limit) = Firings(c, days)
    BY <1>3 DEF Occurrences
  <1> QED BY <1>1, <1>2, <1>4

------------------------------------------------------------------------------
(* The names at a minute and at an instant *)

\* What an everyday task does at a minute, it does every day.
LEMMA EverydayFires ==
  ASSUME Inputs, NEW p \in Instant, NEW n \in NamesAtMinute(p.minute)
  PROVE  Starts(n, p)
PROOF
  <1>1. PICK i \in Everyday : p.minute \in Runs(i) /\ n = tasks[i].name
    BY DEF NamesAtMinute
  <1>2. i \in Id /\ tasks[i].enabled /\ tasks[i].cron.wildcards /\ tasks[i].cron \in Cron
    BY <1>1 DEF Inputs, Everyday, Comparable, Active
  <1>3. tasks[i].cron.parses /\ \E q \in Firings(tasks[i].cron, 1) : q.minute = p.minute
    BY <1>1 DEF Runs, Occurrences
  <1>4. p.minute \in tasks[i].cron.minutes
    BY <1>3 DEF Firings, Fires
  <1>5. p.day \in tasks[i].cron.days
    BY <1>2, CronAssumption DEF Instant
  <1> QED BY <1>1, <1>2, <1>3, <1>4, <1>5 DEF Starts, Fired, Fires

LEMMA InstantFires ==
  ASSUME Inputs, NEW p \in Instant, NEW n \in NamesAtInstant(p)
  PROVE  Starts(n, p)
PROOF
  <1>1. CASE n \in NamesAtMinute(p.minute)
    BY <1>1, EverydayFires
  <1>2. CASE \E i \in Dated(p) : n = tasks[i].name
    <2>1. PICK i \in Dated(p) : n = tasks[i].name
      BY <1>2
    <2>2. i \in Id /\ tasks[i].enabled /\ tasks[i].cron.parses
      BY <2>1 DEF Dated, DateSpecific, Comparable, Active
    <2>3. Fires(tasks[i].cron, p)
      BY <2>1 DEF Dated, Occurrences, Firings
    <2> QED BY <2>1, <2>2, <2>3 DEF Starts, Fired
  <1> QED BY <1>1, <1>2 DEF NamesAtInstant

\* A quiet enabled task is not summarised, and its day is whole.
LEMMA QuietIsComparable ==
  ASSUME Inputs, NEW i \in Id, tasks[i].enabled, tasks[i].cron.parses, Quiet(i)
  PROVE  /\ i \in Comparable
         /\ Runs(i) = {p.minute : p \in Firings(tasks[i].cron, 1)}
PROOF
  <1> DEFINE found == Firings(tasks[i].cron, 1)
             minutes == {p.minute : p \in found}
             f == [p \in found |-> p.minute]
  <1>1. RunsContinuous \in Nat /\ MaxRunsPerDay \in Nat /\ RunsContinuous < MaxRunsPerDay
    BY SizesAssumption
  <1>2. IsFiniteSet(found) /\ Cardinality(found) <= RunsContinuous
    BY <1>1, ScanIsWhole DEF Quiet
  <1>3. Cardinality(found) \in Nat
    BY <1>2, FS_CardinalityType
  <1>4. ~Truncated(tasks[i].cron, 1, MaxRunsPerDay)
    BY <1>1, <1>2, <1>3 DEF Truncated
  <1>5. Occurrences(tasks[i].cron, 1, MaxRunsPerDay) = found
    BY <1>1, <1>4, ScanIsWhole
  <1>6. Runs(i) = minutes
    BY <1>5 DEF Runs
  <1>7. f \in Surjection(found, minutes)
    BY DEF Surjection
  <1>8. IsFiniteSet(minutes) /\ Cardinality(minutes) <= Cardinality(found)
    BY <1>2, <1>7, FS_Surjection
  <1>9. Cardinality(minutes) \in Nat
    BY <1>8, FS_CardinalityType
  <1>10. Cardinality(Runs(i)) <= RunsContinuous
    BY <1>1, <1>2, <1>3, <1>6, <1>8, <1>9
  <1> QED BY <1>6, <1>10 DEF Comparable, Active

\* A quiet everyday task is among the names of each minute at which it fires.
LEMMA EverydayIsNamed ==
  ASSUME Inputs, NEW i \in Id, NEW p \in Window(HorizonDays), Fired(i, p), Quiet(i), tasks[i].cron.wildcards
  PROVE  tasks[i].name \in NamesAtMinute(p.minute)
PROOF
  <1>1. p \in Instant /\ tasks[i].enabled /\ tasks[i].cron.parses /\ tasks[i].cron \in Cron
    BY DEF Fired, Window, Inputs
  <1>2. i \in Comparable /\ Runs(i) = {q.minute : q \in Firings(tasks[i].cron, 1)}
    BY <1>1, QuietIsComparable
  <1>3. PICK q \in Window(1) : q.minute = p.minute
    BY <1>1, NextDay
  <1>4. q \in Firings(tasks[i].cron, 1)
    BY <1>1, <1>3, CronAssumption DEF Firings, Fires, Fired, Window, Instant
  <1>5. p.minute \in Runs(i)
    BY <1>2, <1>3, <1>4
  <1>6. i \in Everyday
    BY <1>2 DEF Everyday
  <1> QED BY <1>5, <1>6 DEF NamesAtMinute

\* A quiet dated task whose scan is whole is among the tasks of the instant.
LEMMA DatedIsNamed ==
  ASSUME Inputs, NEW i \in Id, NEW p \in Window(HorizonDays), Fired(i, p), Quiet(i),
         ~tasks[i].cron.wildcards, Whole(i)
  PROVE  i \in Dated(p)
PROOF
  <1>1. tasks[i].enabled /\ tasks[i].cron.parses
    BY DEF Fired
  <1>2. i \in DateSpecific
    BY <1>1, QuietIsComparable DEF DateSpecific
  <1>3. Occurrences(tasks[i].cron, HorizonDays, MaxOccurrences) = Firings(tasks[i].cron, HorizonDays)
    BY ScanIsWhole, SizesAssumption DEF Whole
  <1> QED BY <1>2, <1>3 DEF Dated, Firings, Fired

------------------------------------------------------------------------------
(* The overlaps *)

LEMMA FoundOnPage ==
  ASSUME DashInv, timeline # Unshown
  PROVE  timeline.collisions = DailyOverlaps \cup DatedOverlaps
  BY DEF DashInv, BuildSchedule, DetectCollisions

\* The overlaps on the page are real: a task of each name starts on that minute,
\* every day or on one day of the horizon, and none is listed twice
\* (schedule.ts:180-186, 191-226).
THEOREM OverlapsAreReal == Page!Spec => []CollisionsAreReal
PROOF
  <1>1. DashInv => CollisionsAreReal
    <2> SUFFICES ASSUME DashInv, timeline # Unshown, NEW c \in timeline.collisions
                 PROVE  /\ Several(c.taskNames)
                        /\ IF c.daily
                           THEN \A p \in Window(HorizonDays) :
                                    p.minute = c.time => \A n \in c.taskNames : Starts(n, p)
                           ELSE \E p \in Window(HorizonDays) :
                                    p.minute = c.time /\ \A n \in c.taskNames : Starts(n, p)
                        /\ \A d \in timeline.collisions : d.time = c.time /\ d.taskNames = c.taskNames => d = c
      BY DEF CollisionsAreReal
    <2> USE FoundOnPage
    <2>1. Inputs
      BY DEF DashInv
    <2>2. ASSUME NEW d \in DailyOverlaps
          PROVE  d = Overlap(d.time, NamesAtMinute(d.time), TRUE) /\ Several(d.taskNames)
                 /\ d.taskNames = NamesAtMinute(d.time)
      BY DEF DailyOverlaps, Overlap
    <2>3. ASSUME NEW d \in DatedOverlaps
          PROVE  /\ Several(d.taskNames)
                 /\ d = Overlap(d.time, d.taskNames, FALSE)
                 /\ Overlap(d.time, d.taskNames, TRUE) \notin DailyOverlaps
                 /\ \E p \in Instant : Dated(p) # {} /\ d.time = p.minute /\ d.taskNames = NamesAtInstant(p)
      <3>1. PICK p \in Instant : /\ Dated(p) # {} /\ Several(NamesAtInstant(p))
                                /\ Overlap(p.minute, NamesAtInstant(p), TRUE) \notin DailyOverlaps
                                /\ d = Overlap(p.minute, NamesAtInstant(p), FALSE)
        BY DEF DatedOverlaps
      <3>2. d.time = p.minute /\ d.taskNames = NamesAtInstant(p)
        BY <3>1 DEF Overlap
      <3> QED BY <3>1, <3>2
    <2>4. ASSUME NEW d \in timeline.collisions, d.time = c.time, d.taskNames = c.taskNames PROVE d = c
      <3>1. CASE c \in DailyOverlaps /\ d \in DailyOverlaps
        BY <2>2, <2>4, <3>1
      <3>2. CASE c \in DatedOverlaps /\ d \in DatedOverlaps
        BY <2>3, <2>4, <3>2
      <3>3. CASE c \in DailyOverlaps /\ d \in DatedOverlaps
        BY <2>2, <2>3, <2>4, <3>3
      <3>4. CASE c \in DatedOverlaps /\ d \in DailyOverlaps
        BY <2>2, <2>3, <2>4, <3>4
      <3> QED BY <3>1, <3>2, <3>3, <3>4
    <2>5. CASE c \in DailyOverlaps
      <3>1. c.daily
        BY <2>2, <2>5 DEF Overlap
      <3>2. ASSUME NEW p \in Window(HorizonDays), p.minute = c.time, NEW n \in c.taskNames PROVE Starts(n, p)
        <4>1. p \in Instant /\ n \in NamesAtMinute(p.minute)
          BY <2>2, <2>5, <3>2 DEF Window
        <4> QED BY <2>1, <4>1, EverydayFires
      <3> QED BY <2>2, <2>4, <2>5, <3>1, <3>2
    <2>6. CASE c \in DatedOverlaps
      <3>1. ~c.daily
        <4>1. c = Overlap(c.time, c.taskNames, FALSE)
          BY <2>3, <2>6
        <4>2. \A time, names : ~Overlap(time, names, FALSE).daily
          BY DEF Overlap
        <4> QED BY <4>1, <4>2
      <3>2. PICK p \in Instant : Dated(p) # {} /\ c.time = p.minute /\ c.taskNames = NamesAtInstant(p)
        BY <2>3, <2>6
      <3>3. p \in Window(HorizonDays)
        BY <3>2 DEF Dated, Occurrences, Firings
      <3>4. \A n \in c.taskNames : Starts(n, p)
        BY <2>1, <3>2, InstantFires
      <3> QED BY <2>3, <2>4, <2>6, <3>1, <3>2, <3>3, <3>4
    <2> QED BY <2>5, <2>6
  <1> QED BY <1>1, DashInvHolds, PTL

\* No overlap of two quiet tasks of different names is missing from the page, if
\* the scan of neither was cut off (schedule.ts:14-26, 191-226).
THEOREM OverlapsAreFound == Page!Spec => []CollisionsAreFound
PROOF
  <1>1. DashInv => CollisionsAreFound
    <2> SUFFICES ASSUME DashInv, timeline # Unshown, NEW i \in Id, NEW j \in Id, NEW p \in Window(HorizonDays),
                        Fired(i, p), Fired(j, p), tasks[i].name # tasks[j].name,
                        \A k \in {i, j} : Quiet(k) /\ Whole(k)
                 PROVE  \E c \in timeline.collisions :
                           /\ c.time = p.minute
                           /\ {tasks[i].name, tasks[j].name} \subseteq c.taskNames
                           /\ tasks[i].cron.wildcards /\ tasks[j].cron.wildcards => c.daily
      BY DEF CollisionsAreFound
    <2> DEFINE m == p.minute
    <2>1. Inputs /\ p \in Instant /\ m \in Minute
      BY DEF DashInv, Window, Instant
    <2>2. timeline.collisions = DailyOverlaps \cup DatedOverlaps
      BY FoundOnPage
    <2>3. CASE tasks[i].cron.wildcards /\ tasks[j].cron.wildcards
      <3> DEFINE c == Overlap(m, NamesAtMinute(m), TRUE)
      <3>1. {tasks[i].name, tasks[j].name} \subseteq NamesAtMinute(m)
        BY <2>1, <2>3, EverydayIsNamed
      <3>2. c \in DailyOverlaps
        BY <2>1, <3>1 DEF DailyOverlaps, Several
      <3>3. c.time = m /\ c.taskNames = NamesAtMinute(m) /\ c.daily
        BY DEF Overlap
      <3> QED BY <2>2, <3>1, <3>2, <3>3
    <2>4. CASE ~(tasks[i].cron.wildcards /\ tasks[j].cron.wildcards)
      <3> DEFINE names == NamesAtInstant(p)
      <3>1. ASSUME NEW k \in {i, j} PROVE tasks[k].name \in names
        <4>1. CASE tasks[k].cron.wildcards
          BY <2>1, <4>1, EverydayIsNamed DEF NamesAtInstant
        <4>2. CASE ~tasks[k].cron.wildcards
          BY <2>1, <4>2, DatedIsNamed DEF NamesAtInstant
        <4> QED BY <4>1, <4>2
      <3>2. Dated(p) # {}
        BY <2>1, <2>4, DatedIsNamed
      <3>3. Several(names)
        BY <3>1 DEF Several
      <3>4. Overlap(m, names, TRUE) \in DailyOverlaps \/ Overlap(m, names, FALSE) \in DatedOverlaps
        BY <2>1, <3>2, <3>3 DEF DatedOverlaps
      <3>5. \A daily \in BOOLEAN : Overlap(m, names, daily).time = m /\ Overlap(m, names, daily).taskNames = names
        BY DEF Overlap
      <3> QED BY <2>2, <2>4, <3>1, <3>4, <3>5
    <2> QED BY <2>3, <2>4
  <1> QED BY <1>1, DashInvHolds, PTL

(***************************************************************************)
(* The four parts together.                                                *)
(***************************************************************************)

\* A schedule is made of the tasks' names and of the minutes of a day.
LEMMA ScheduleType ==
  ASSUME DashInv
  PROVE  Page!TypeOK
PROOF
  <1>1. Inputs
    BY DEF DashInv
  <1>2. \A i \in Active : Runs(i) \in SUBSET Minute /\ tasks[i].name \in Name /\ tasks[i].cron.parses \in BOOLEAN
    BY <1>1, CronAssumption DEF Runs, Occurrences, Firings, Window, Instant, Active, Inputs
  <1>3. [i \in Active |-> [runs |-> Runs(i), invalid |-> ~tasks[i].cron.parses]]
            \in [Active -> [runs : SUBSET Minute, invalid : BOOLEAN]]
    BY <1>2
  <1>4. Everyday \subseteq Active /\ DateSpecific \subseteq Active
    BY DEF Everyday, DateSpecific, Comparable
  <1>5. \A m : NamesAtMinute(m) \subseteq Name
    BY <1>2, <1>4 DEF NamesAtMinute
  <1>6. \A p : NamesAtInstant(p) \subseteq Name
    BY <1>2, <1>4, <1>5 DEF NamesAtInstant, Dated
  <1>7. DetectCollisions \subseteq [time : Minute, taskNames : SUBSET Name, daily : BOOLEAN]
    <2>1. \A p \in Instant : p.minute \in Minute
      BY DEF Instant
    <2>2. \A m \in Minute, names \in SUBSET Name, d \in BOOLEAN :
             Overlap(m, names, d) \in [time : Minute, taskNames : SUBSET Name, daily : BOOLEAN]
      BY DEF Overlap
    <2>3. DailyOverlaps \subseteq [time : Minute, taskNames : SUBSET Name, daily : BOOLEAN]
      BY <1>5, <2>2 DEF DailyOverlaps
    <2>4. DatedOverlaps \subseteq [time : Minute, taskNames : SUBSET Name, daily : BOOLEAN]
      BY <1>6, <2>1, <2>2 DEF DatedOverlaps
    <2> QED BY <2>3, <2>4 DEF DetectCollisions
  <1>8. {tasks[i].name : i \in Active \ Comparable} \subseteq Name
    BY <1>2
  <1>9. /\ BuildSchedule.tasks \in [Active -> [runs : SUBSET Minute, invalid : BOOLEAN]]
        /\ BuildSchedule.continuousTasks \subseteq Name
        /\ BuildSchedule.collisions \subseteq [time : Minute, taskNames : SUBSET Name, daily : BOOLEAN]
    BY <1>3, <1>7, <1>8 DEF BuildSchedule
  <1>10. Page!Active = Active /\ Page!Minute = Minute /\ Page!Instant = Instant
    BY DEF Page!Active, Active, Page!Minute, Minute, Page!Instant, Instant, Page!Day, Day
  <1>11. timeline = Unshown \/ timeline = BuildSchedule
    BY DEF DashInv
  <1> QED BY <1>1, <1>9, <1>10, <1>11 DEF Inputs, Page!TypeOK

\* The API keys of ApiKeysProofs are those of the web app.
LEMMA SameKeys ==
  /\ Keys!Parameters => KeyProofs!Parameters
  /\ Keys!Init => KeyProofs!Init
  /\ Keys!Next => KeyProofs!Next
  /\ UNCHANGED keyVars => UNCHANGED KeyProofs!vars
PROOF
  <1>1. Keys!Parameters => KeyProofs!Parameters
    BY DEF Keys!Parameters, KeyProofs!Parameters
  <1>2. Keys!Init => KeyProofs!Init
    BY DEF Keys!Init, KeyProofs!Init, Keys!NoRecords, KeyProofs!NoRecords, Keys!Key, KeyProofs!Key, Keys!Call, KeyProofs!Call
  <1>3. Keys!Next => KeyProofs!Next
    BY Zenon DEF Keys!Key, KeyProofs!Key, Keys!Secret, KeyProofs!Secret, Keys!storeVars, KeyProofs!storeVars,
           Keys!pageVars, KeyProofs!pageVars, Keys!apiVars, KeyProofs!apiVars,
           Keys!histVars, KeyProofs!histVars, Keys!Call, KeyProofs!Call, Keys!NoRecords, KeyProofs!NoRecords,
           Keys!Keys, KeyProofs!Keys, Keys!Secrets, KeyProofs!Secrets, Keys!Mishap, KeyProofs!Mishap,
           Keys!Reload, KeyProofs!Reload, Keys!Press, KeyProofs!Press, Keys!Create, KeyProofs!Create,
           Keys!Confirm, KeyProofs!Confirm, Keys!Dismiss, KeyProofs!Dismiss, Keys!Send, KeyProofs!Send,
           Keys!Answered, KeyProofs!Answered, Keys!Threw, KeyProofs!Threw, Keys!Pop, KeyProofs!Pop,
           Keys!Read, KeyProofs!Read, Keys!Write, KeyProofs!Write, Keys!Settle, KeyProofs!Settle,
           Keys!StoreFails, KeyProofs!StoreFails, Keys!Flush, KeyProofs!Flush, Keys!Restart, KeyProofs!Restart,
           Keys!Present, KeyProofs!Present, Keys!Be, KeyProofs!Be, Keys!Verify, KeyProofs!Verify,
           Keys!VerifyFails, KeyProofs!VerifyFails, Keys!Forward, KeyProofs!Forward, Keys!Next, KeyProofs!Next
  <1>4. UNCHANGED keyVars => UNCHANGED KeyProofs!vars
    BY DEF KeyProofs!vars, KeyProofs!storeVars, KeyProofs!pageVars, KeyProofs!apiVars, KeyProofs!histVars, keyVars
  <1> QED BY <1>1, <1>2, <1>3, <1>4

\* A step of the web app is one of a part, and leaves the others alone.
LEMMA PartsStep ==
  ASSUME [SystemNext]_all
  PROVE  /\ [Next]_vars
         /\ [KeyProofs!Next]_KeyProofs!vars
         /\ [Form!Next]_Form!vars
         /\ [Page!Next]_Page!vars /\ UNCHANGED part
         /\ part # "dashboard" => UNCHANGED timeline
PROOF
  <1>1. UNCHANGED formVars => UNCHANGED Form!vars
    BY DEF formVars, Form!vars, Form!form
  <1>2. UNCHANGED keyVars => UNCHANGED KeyProofs!vars
    BY SameKeys
  <1>3. UNCHANGED dashVars => UNCHANGED Page!vars /\ UNCHANGED timeline
    BY DEF dashVars, Page!vars
  <1>4. CASE UNCHANGED all
    BY <1>1, <1>2, <1>3, <1>4 DEF all
  <1>5. CASE SystemNext
    BY <1>1, <1>2, <1>3, <1>5, SameKeys DEF SystemNext, KeysRest, FormRests, ButtonsRest, DashRests
  <1> QED BY <1>4, <1>5

LEMMA ButtonsBehave == SystemSpec => Spec
PROOF
  <1>1. SystemInit => Init
    BY DEF SystemInit
  <1>2. [SystemNext]_all => [Next]_vars
    BY PartsStep
  <1> QED BY <1>1, <1>2, PTL DEF SystemSpec, Spec

LEMMA KeysBehave == SystemSpec => KeyProofs!Spec
PROOF
  <1>1. SystemInit => KeyProofs!Init
    BY SameKeys DEF SystemInit
  <1>2. [SystemNext]_all => [KeyProofs!Next]_KeyProofs!vars
    BY PartsStep
  <1> QED BY <1>1, <1>2, PTL DEF SystemSpec, KeyProofs!Spec

LEMMA FormBehaves == SystemSpec => Form!Spec
PROOF
  <1>1. SystemInit => Form!Init
    BY DEF SystemInit
  <1>2. [SystemNext]_all => [Form!Next]_Form!vars
    BY PartsStep
  <1> QED BY <1>1, <1>2, PTL DEF SystemSpec, Form!Spec

\* A dashboard at rest shows nothing.
DashRight == IF part = "dashboard" THEN DashInv ELSE timeline = Unshown

LEMMA DashBehaves == SystemSpec => []DashRight
PROOF
  <1>1. SystemInit => DashRight
    BY PageInit DEF SystemInit, DashRight
  <1>2. DashRight /\ [SystemNext]_all => DashRight'
    BY PartsStep, PageStep DEF DashRight
  <1> QED BY <1>1, <1>2, PTL DEF SystemSpec

\* The variables of the keys, the form, the buttons and the dashboard keep their
\* types, whichever part moves.
THEOREM TypesCorrect == SystemSpec => []TypesOK
PROOF
  <1>1. KeyProofs!TypeOK => Keys!TypeOK
    BY DEF KeyProofs!TypeOK, Keys!TypeOK, KeyProofs!Records, Keys!Records, KeyProofs!Key, Keys!Key, KeyProofs!Secret, Keys!Secret,
           KeyProofs!Operation, Keys!Operation, KeyProofs!Call, Keys!Call, KeyProofs!Ended, Keys!Ended
  <1>2. FormInv => Form!TypeOK
    BY DEF FormInv, FormTypes
  <1>3. DashRight => (part = "dashboard" => Page!TypeOK)
    BY ScheduleType DEF DashRight
  <1>4. KeyProofs!Spec => []KeyProofs!TypeOK
    BY WebParameters, SameKeys, KeyProofs!TypeCorrect
  <1>5. Form!Spec => []FormInv
    BY WebParameters, FormSaves, PTL
  <1> QED BY <1>1, <1>2, <1>3, <1>4, <1>5, TypeCorrect, ButtonsBehave, KeysBehave, FormBehaves, DashBehaves, PTL DEF TypesOK

\* In the web app as a whole a save leaves on the stored task what its user asked
\* for and otherwise what was there, but for lists put in order, variables added
\* empty and what others changed since the form was loaded (task-form.tsx:61-108,
\* env-editor.tsx:24-52, task-repo.ts:57-84).
THEOREM SavesTouchOnlyAsked == SystemSpec => SavesOnlyTouched
PROOF
  <1>1. Form!Spec => Form!SavesOnlyTouched
    BY WebParameters, FormSaves, PTL
  <1> QED BY <1>1, FormBehaves, PTL DEF SavesOnlyTouched

\* A key whose removal was answered stays refused (api-keys.ts:106-135).
THEOREM RemovedStaysRefused == SystemSpec => []RemovedIsRefused
PROOF
  <1>1. KeyProofs!RemovedIsRefused => RemovedIsRefused
    BY DEF KeyProofs!RemovedIsRefused, RemovedIsRefused, Keys!RemovedIsRefused
  <1>2. KeyProofs!Spec => []KeyProofs!RemovedIsRefused
    BY WebParameters, SameKeys, KeyProofs!RemovedRefused
  <1> QED BY <1>1, <1>2, KeysBehave, PTL

\* A key that was handed out works until its removal is asked for
\* (api-keys.ts:74-75).
THEOREM HandedOutStaysGood == SystemSpec => []HandedOutWorks
PROOF
  <1>1. KeyProofs!HandedOutWorks => HandedOutWorks
    BY DEF KeyProofs!HandedOutWorks, HandedOutWorks, Keys!HandedOutWorks
  <1>2. KeyProofs!Spec => []KeyProofs!HandedOutWorks
    BY WebParameters, SameKeys, KeyProofs!HandedOutAccepted
  <1> QED BY <1>1, <1>2, KeysBehave, PTL
================================================================================
