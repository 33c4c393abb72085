------------------------------- MODULE TaskForm -------------------------------
(***************************************************************************)
(* The form that makes or edits a task (components/task-form.tsx), with    *)
(* its editors of the environment (env-editor.tsx) and of the script       *)
(* (script-editor.tsx), open in several tabs.  It holds the task as it was *)
(* when the form was loaded, collects the changes, adds the variables that *)
(* the script mentions, and sends every field at once.  A script is what   *)
(* detectEnvVars finds in it when it is read as each type of command.  A   *)
(* text is the sequence of its lines, each a word that may be padded; an   *)
(* entry of a list of parameters or dependencies is such a text.           *)
(***************************************************************************)
EXTENDS Naturals, SequencesExt

CONSTANTS
    Tab,
    Id,          \* ids of tasks; their number bounds the creations
    New,         \* the form is for a task that does not exist yet
    Kind,        \* commandType
    Script,      \* scripts: functions from Kind to sets of variables
    Text, List,  \* what a text area holds, and a list of a task
    Plugin,      \* plugins that may notify
    Offered,     \* those that are enabled, in their order
    Key, Value,  \* of the environment
    Empty,       \* the word '', and the value a detected variable gets
    NotSet,      \* no such variable in the environment, no plugin to notify
    Gone,        \* there is no such task
    Blank,       \* the task of the empty form
    MaxActs,     \* bound on the acts of the users
    MaxMishaps   \* bound on the calls that fail

Env    == [Key -> Value \cup {NotSet}]
Event  == {"onSuccess", "onFailure"}
Notify == [Event -> Plugin \cup {NotSet}]
Task   == [script : Script, commandType : Kind, enabled : BOOLEAN, env : Env,
           parameters : List, dependencies : List, notify : Notify]
Draft  == [script : Script, commandType : Kind, enabled : BOOLEAN, env : Env,
           parameters : Text, dependencies : Text, trigger : SUBSET Event, plugin : Plugin \cup {NotSet}]
Lists  == {"parameters", "dependencies"}
Field  == {"script", "commandType", "enabled"} \cup Lists

\* A text area shows a list with its entries joined by line breaks.
Joined(list) == FlattenSeq(list)

Trimmed(line) == [line EXCEPT !.padded = FALSE]
\* Its lines become the entries, trimmed, without those that are blank.
Entries(text) ==
    LET lines == SelectSeq([i \in DOMAIN text |-> Trimmed(text[i])], LAMBDA l : l.word # Empty)
    IN  [i \in DOMAIN lines |-> <<lines[i]>>]

\* What the form shows of a task; it has one plugin for both events.
PluginOf(notify) ==
    IF notify["onSuccess"] # NotSet THEN notify["onSuccess"]
    ELSE IF notify["onFailure"] # NotSet THEN notify["onFailure"]
    ELSE IF Offered = <<>> THEN NotSet ELSE Head(Offered)
Shown(task) ==
    [script |-> task.script, commandType |-> task.commandType, enabled |-> task.enabled, env |-> task.env,
     parameters |-> Joined(task.parameters), dependencies |-> Joined(task.dependencies),
     trigger |-> {e \in Event : task.notify[e] # NotSet}, plugin |-> PluginOf(task.notify)]

\* And what it sends.
Built(d) ==
    [script |-> d.script, commandType |-> d.commandType, enabled |-> d.enabled, env |-> d.env,
     parameters |-> Entries(d.parameters), dependencies |-> Entries(d.dependencies),
     notify |-> [e \in Event |-> IF e \in d.trigger THEN d.plugin ELSE NotSet]]

\* The repository stores every field it names, and does not name the notifications.
Record(task) == [task EXCEPT !.notify = [e \in Event |-> NotSet]]

\* What the constants are; texts and lists become one another, no variable has
\* the name of a field of the form, and nothing that can be asked for is Gone.
Parameters ==
    /\ New \notin Id
    /\ Script \subseteq [Kind -> SUBSET Key]
    /\ \A l \in List : Joined(l) \in Text
    /\ \A x \in Text : Entries(x) \in List
    /\ Offered \in Seq(Plugin)
    /\ Empty \in Value /\ NotSet \notin Value
    /\ Blank \in Task
    /\ Key \cap Field = {}
    /\ Gone # NotSet /\ Gone \notin Value /\ Gone \notin Kind /\ Gone \notin Script /\ Gone \notin BOOLEAN
    /\ Gone \notin Text /\ Gone \notin Task
    /\ MaxActs \in Nat /\ MaxMishaps \in Nat

NotEditing == [original |-> NotSet, key |-> NotSet, val |-> NotSet]

VARIABLES
    stored,   \* tasks.json5
    unused,   \* ids that nanoid has not given out
    page,     \* what each tab shows
    target,   \* the task that its form is for
    base,     \* the task as the page of the form loaded it
    draft,    \* the fields of the form
    mounted,  \* the commandType in the closure that the editor was mounted with
    focus,    \* the small script editor has the focus
    editing,  \* the row of the environment that is being edited
    asked,    \* history: what the user asked of each field and variable
    sent,     \* what was submitted, and what had been asked by then
    behind,   \* history: what others changed on the task since the form was loaded
    acts, mishaps

form == <<target, base, draft, mounted, focus, editing, asked>>
vars == <<stored, unused, page, form, sent, behind, acts, mishaps>>

Unasked == [e \in Field \cup Key |-> Gone]

Init ==
    /\ unused \in SUBSET Id
    /\ stored \in [Id -> Task \cup {Gone}]
    /\ \A i \in Id : stored[i] = Gone <=> i \in unused
    /\ page = [t \in Tab |-> "away"]
    /\ target = [t \in Tab |-> New]
    /\ base = [t \in Tab |-> Blank] /\ draft = [t \in Tab |-> Shown(Blank)]
    /\ mounted = [t \in Tab |-> Blank.commandType]
    /\ focus = [t \in Tab |-> FALSE]
    /\ editing = [t \in Tab |-> NotEditing]
    /\ asked = [t \in Tab |-> Unasked]
    /\ sent = [t \in Tab |-> [task |-> Blank, asked |-> Unasked]]
    /\ behind = [t \in Tab |-> {}]
    /\ acts = 0 /\ mishaps = 0

Act == acts < MaxActs /\ acts' = acts + 1
Mishap == mishaps < MaxMishaps /\ mishaps' = mishaps + 1

------------------------------------------------------------------------------
(* The page *)

\* A form opens on a task, or on none; the closure of the blur handler keeps the
\* type it had when the editor was mounted.
Fill(t, id, task) ==
    /\ page' = [page EXCEPT ![t] = "form"]
    /\ target' = [target EXCEPT ![t] = id]
    /\ base' = [base EXCEPT ![t] = task]
    /\ draft' = [draft EXCEPT ![t] = Shown(task)]
    /\ mounted' = [mounted EXCEPT ![t] = task.commandType]
    /\ focus' = [focus EXCEPT ![t] = FALSE]
    /\ editing' = [editing EXCEPT ![t] = NotEditing]
    /\ asked' = [asked EXCEPT ![t] = Unasked]
    /\ behind' = [behind EXCEPT ![t] = {}]

\* The page of a new task, or of the task with an id; a tab leaves the form once
\* its save is answered.
Load(t, id) ==
    /\ page[t] # "saving" /\ Act
    /\ \/ id = New /\ Fill(t, New, Blank)
       \/ id \in Id /\ stored[id] # Gone /\ Fill(t, id, stored[id])
       \/ /\ id \in Id /\ stored[id] = Gone
          /\ page' = [page EXCEPT ![t] = "missing"]
          /\ UNCHANGED <<form, behind>>
    /\ UNCHANGED <<stored, unused, sent, mishaps>>

\* The form can be edited while it is being saved; an act on something else than
\* the small editor comes after its blur.
Open(t) == page[t] \in {"form", "saving"}
Elsewhere(t) == Open(t) /\ ~focus[t] /\ Act
Asks(t, e, v) == asked' = [asked EXCEPT ![t][e] = v]

\* A script of the shell has no dependencies to edit.
SetField(t, f, v) ==
    /\ Elsewhere(t)
    /\ f = "dependencies" => draft[t].commandType # "shell"
    /\ draft' = [draft EXCEPT ![t][f] = v]
    /\ Asks(t, f, v)
    /\ UNCHANGED <<stored, unused, page, sent, behind, target, base, mounted, focus, editing, mishaps>>

\* The notifications of an untouched form are those it was loaded with, and none
\* are stored, so that what is asked of them is not kept.
SetTrigger(t, events) ==
    /\ Elsewhere(t)
    /\ Offered # <<>>
    /\ draft' = [draft EXCEPT ![t].trigger = events]
    /\ UNCHANGED <<stored, unused, page, sent, behind, target, base, mounted, focus, editing, asked, mishaps>>

SetPlugin(t, p) ==
    /\ Elsewhere(t)
    /\ draft[t].trigger # {}
    /\ draft' = [draft EXCEPT ![t].plugin = p]
    /\ UNCHANGED <<stored, unused, page, sent, behind, target, base, mounted, focus, editing, asked, mishaps>>

ScriptIs(t, s) ==
    /\ Elsewhere(t)
    /\ draft' = [draft EXCEPT ![t].script = s]
    /\ Asks(t, "script", s)
    /\ UNCHANGED <<stored, unused, page, sent, behind, target, base, mounted, editing, mishaps>>

\* The script is typed in the full screen, whose editor has no blur handler, or
\* in the small editor.
EditScript(t, s) == ScriptIs(t, s) /\ focus' \in {focus, [focus EXCEPT ![t] = TRUE]}

\* A call of a plugin or the import is inserted; the small editor gets the focus.
InsertSnippet(t, s) == ScriptIs(t, s) /\ focus' = [focus EXCEPT ![t] = TRUE]

\* Mutant of Detected: what is there is emptied.
DetectedAnew(env, found) == [k \in Key |-> IF k \in found THEN Empty ELSE env[k]]
\* Every variable the script mentions is put on the form, unless it is there.
Detected(env, found) == [k \in Key |-> IF k \in found /\ env[k] = NotSet THEN Empty ELSE env[k]]

Blur(t) ==
    /\ Open(t) /\ focus[t]
    /\ focus' = [focus EXCEPT ![t] = FALSE]
    /\ draft' = [draft EXCEPT ![t].env = Detected(@, draft[t].script[mounted[t]])]
    /\ UNCHANGED <<stored, unused, page, sent, behind, target, base, mounted, editing, asked, acts, mishaps>>

------------------------------------------------------------------------------
(* The environment editor *)

AddEntry(t, k, v) ==
    /\ Elsewhere(t)
    /\ draft' = [draft EXCEPT ![t].env[k] = v]
    /\ Asks(t, k, v)
    /\ UNCHANGED <<stored, unused, page, sent, behind, target, base, mounted, focus, editing, mishaps>>

\* The row that is being edited has no buttons to edit or remove it.
RemoveEntry(t, k) ==
    /\ Elsewhere(t)
    /\ draft[t].env[k] # NotSet /\ editing[t].original # k
    /\ draft' = [draft EXCEPT ![t].env[k] = NotSet]
    /\ Asks(t, k, NotSet)
    /\ UNCHANGED <<stored, unused, page, sent, behind, target, base, mounted, focus, editing, mishaps>>

StartEdit(t, k) ==
    /\ Elsewhere(t)
    /\ draft[t].env[k] # NotSet /\ editing[t].original # k
    /\ editing' = [editing EXCEPT ![t] = [original |-> k, key |-> k, val |-> draft[t].env[k]]]
    /\ UNCHANGED <<stored, unused, page, sent, behind, target, base, draft, mounted, focus, asked, mishaps>>

Retype(t, k, v) ==
    /\ Elsewhere(t)
    /\ editing[t] # NotEditing
    /\ editing' = [editing EXCEPT ![t].key = k, ![t].val = v]
    /\ UNCHANGED <<stored, unused, page, sent, behind, target, base, draft, mounted, focus, asked, mishaps>>

Renamed(env, e) ==
    [k \in Key |-> IF k = e.key THEN e.val ELSE IF k = e.original THEN NotSet ELSE env[k]]
SaveEdit(t) ==
    LET e == editing[t] IN
    /\ Elsewhere(t)
    /\ e # NotEditing
    /\ draft' = [draft EXCEPT ![t].env = Renamed(@, e)]
    /\ editing' = [editing EXCEPT ![t] = NotEditing]
    /\ asked' = [asked EXCEPT ![t] = [@ EXCEPT ![e.original] = NotSet, ![e.key] = e.val]]
    /\ UNCHANGED <<stored, unused, page, sent, behind, target, base, mounted, focus, mishaps>>

CancelEdit(t) ==
    /\ Elsewhere(t)
    /\ editing[t] # NotEditing
    /\ editing' = [editing EXCEPT ![t] = NotEditing]
    /\ UNCHANGED <<stored, unused, page, sent, behind, target, base, draft, mounted, focus, asked, mishaps>>

------------------------------------------------------------------------------
(* Saving *)

\* Every field is sent, and the button stays disabled until the answer.
Submit(t) ==
    /\ page[t] = "form" /\ Elsewhere(t)
    /\ page' = [page EXCEPT ![t] = "saving"]
    /\ sent' = [sent EXCEPT ![t] = [task |-> Built(draft[t]), asked |-> asked[t]]]
    /\ UNCHANGED <<stored, unused, form, behind, mishaps>>

\* The task is written under its id, or under a new one.
Write(t) ==
    \/ /\ target[t] # New /\ stored[target[t]] # Gone
       /\ stored' = [stored EXCEPT ![target[t]] = Record(sent[t].task)]
       /\ UNCHANGED unused
    \/ /\ target[t] = New
       /\ \E id \in unused :
             /\ stored' = [stored EXCEPT ![id] = Record(sent[t].task)]
             /\ unused' = unused \ {id}

\* What is new on a task.
Changes(old, new) ==
    IF old = Gone \/ new = Gone THEN {}
    ELSE {f \in Field : new[f] # old[f]} \cup {k \in Key : new.env[k] # old.env[k]}
\* The other forms do not hear of it.
Unheard(others) ==
    behind' = [u \in Tab |-> IF u \in others /\ Open(u) /\ target[u] # New
                             THEN behind[u] \cup Changes(stored[target[u]], stored'[target[u]])
                             ELSE behind[u]]

\* A success leads to the page of the task, a failure back to the form.  It may
\* be an error though the task was written: its environment could not be built,
\* or the scheduler died.
Saved(t) ==
    /\ page[t] = "saving"
    /\ \/ /\ Write(t)
          /\ page' = [page EXCEPT ![t] = "task"]
          /\ UNCHANGED mishaps
       \/ /\ target[t] # New /\ stored[target[t]] = Gone
          /\ page' = [page EXCEPT ![t] = "form"]
          /\ UNCHANGED <<stored, unused, mishaps>>
       \/ /\ Mishap
          /\ Write(t) \/ UNCHANGED <<stored, unused>>
          /\ page' = [page EXCEPT ![t] = "form"]
    /\ Unheard(Tab \ {t})
    /\ UNCHANGED <<form, sent, acts>>

\* Someone pauses, resumes or deletes a task.
Toggle(id) ==
    /\ stored[id] # Gone /\ Act
    /\ \E new \in {Gone, Record([stored[id] EXCEPT !.enabled = ~@])} : stored' = [stored EXCEPT ![id] = new]
    /\ Unheard(Tab)
    /\ UNCHANGED <<unused, page, form, sent, mishaps>>

Next ==
    \/ \E id \in Id : Toggle(id)
    \/ \E t \in Tab :
          \/ \E id \in Id \cup {New} : Load(t, id)
          \/ Blur(t) \/ SaveEdit(t) \/ CancelEdit(t) \/ Submit(t) \/ Saved(t)
          \/ \E b \in BOOLEAN : SetField(t, "enabled", b)
          \/ \E c \in Kind : SetField(t, "commandType", c)
          \/ \E f \in Lists, x \in Text : SetField(t, f, x)
          \/ \E events \in SUBSET Event : SetTrigger(t, events)
          \/ \E i \in DOMAIN Offered : SetPlugin(t, Offered[i])
          \/ \E s \in Script : EditScript(t, s) \/ InsertSnippet(t, s)
          \/ \E k \in Key :
                \/ RemoveEntry(t, k) \/ StartEdit(t, k)
                \/ \E v \in Value : AddEntry(t, k, v) \/ Retype(t, k, v)

Spec == Init /\ [][Next]_vars

------------------------------------------------------------------------------
(* Properties *)

\* The variables have their types.
TypeOK ==
    /\ stored \in [Id -> Task \cup {Gone}] /\ \A i \in unused : stored[i] = Gone
    /\ target \in [Tab -> Id \cup {New}]
    /\ page \in [Tab -> {"away", "missing", "form", "saving", "task"}]
    /\ base \in [Tab -> Task] /\ draft \in [Tab -> Draft]
    /\ mounted \in [Tab -> Kind]
    /\ focus \in [Tab -> BOOLEAN]
    /\ \A t \in Tab :
          \/ editing[t] = NotEditing
          \/ /\ editing[t] \in [original : Key, key : Key, val : Value]
             /\ draft[t].env[editing[t].original] # NotSet
    /\ \A t \in Tab : sent[t].task \in Task /\ behind[t] \subseteq Field \cup Key
    /\ acts \in 0 .. MaxActs /\ mishaps \in 0 .. MaxMishaps

\* What was stored under an id, or would be shown without.
Row(i) == IF stored[i] = Gone THEN Blank ELSE stored[i]

\* A save makes field f new, where it was old: as asked, and otherwise as it was,
\* unless others changed it; a list that is left alone may be put in order.
FieldKept(t, f, old, new) ==
    LET asks == sent[t].asked[f] IN
    IF asks # Gone THEN new = IF f \in Lists THEN Entries(asks) ELSE asks
    ELSE f \in behind[t] \/ new = old \/ (f \in Lists /\ new = Entries(Joined(old)))

\* The same of a variable, which may also be added without a value.
VariableKept(t, k, old, new) ==
    LET asks   == sent[t].asked[k]
        wanted == IF asks # Gone THEN asks ELSE old
    IN  \/ asks = Gone /\ k \in behind[t]
        \/ new = wanted
        \/ wanted = NotSet /\ new = Empty

\* A save leaves on the task that is stored what its user asked for and otherwise
\* what was there before, whatever the detection of variables, the two editors and
\* earlier failed saves did to the form in between: it may only add an empty
\* variable that was not there, and split, trim and weed the lines of a list.
\* Excepted is what others changed since the form was loaded: that may be put back.
\* Notifications are not compared, as none are stored (task-form.tsx:93-123,
\* 212-223, env-editor.tsx:24-52, task-repo.ts:57-84).
SavesOnlyTouched ==
    [][\A t \in Tab, i \in Id :
          page[t] = "saving" /\ page'[t] # "saving" /\ stored'[i] # stored[i] =>
              /\ target[t] \in {i, New}
              /\ \A f \in Field : FieldKept(t, f, Row(i)[f], stored'[i][f])
              /\ \A k \in Key : VariableKept(t, k, Row(i).env[k], stored'[i].env[k])]_vars
===============================================================================
