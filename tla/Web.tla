---------------------------------- MODULE Web ----------------------------------
(***************************************************************************)
(* Four parts of the web app next to each other: the API keys, the form of *)
(* a task, the buttons of a task, and the schedule of the dashboard.  They *)
(* share neither memory nor files, so a behaviour shows one of them while  *)
(* the others rest.                                                        *)
(***************************************************************************)
EXTENDS TaskActions, Schedule

CONSTANTS
    ServiceToken, MaxKeys, MaxPress, MaxCalls,
    FormId, New, Kind, Script, Text, List, Plugin, Offered, Variable, Value, Empty, NotSet, Gone, Blank, MaxActs

VARIABLES
    part,  \* the part that moves
    file, durable, queue, phase, copy, made, minted, wanted, sent, listed, newKey, broken,
    call, bearer, owner, dead, live, stale, good, keyPresses, keyMishaps,
    stored, unused, formPage, target, base, draft, mounted, focus, editing, asked, formSent, behind, acts,
    formMishaps

Keys == INSTANCE ApiKeys
            WITH presses <- keyPresses, mishaps <- keyMishaps
Form == INSTANCE TaskForm
            WITH Id <- FormId, Key <- Variable, page <- formPage, sent <- formSent, mishaps <- formMishaps
Page == INSTANCE Dashboard

ASSUME WebParameters == Keys!Parameters /\ Form!Parameters

keyVars  == <<file, durable, queue, phase, copy, made, minted, wanted, sent, listed, newKey, broken,
              call, bearer, owner, dead, live, stale, good, keyPresses, keyMishaps>>
formVars == <<stored, unused, formPage, target, base, draft, mounted, focus, editing, asked, formSent, behind,
              acts, formMishaps>>
dashVars == <<tasks, now, timeline>>
all == <<vars, keyVars, formVars, dashVars, part>>

\* The parts at rest are in one of their initial states; a dashboard at rest lists
\* no task.
SystemInit ==
    /\ part \in {"keys", "form", "buttons", "dashboard"}
    /\ Keys!Init
    /\ Form!Init
    /\ Init
    /\ part # "buttons" => task = "on"
    /\ IF part = "dashboard"
       THEN Page!Init
       ELSE /\ tasks = [i \in {} |-> 0] /\ now = 0 /\ timeline = Unshown

KeysRest    == UNCHANGED keyVars
FormRests   == UNCHANGED formVars
ButtonsRest == UNCHANGED vars
DashRests   == UNCHANGED dashVars

SystemNext ==
    /\ UNCHANGED part
    /\ \/ part = "keys" /\ Keys!Next /\ FormRests /\ ButtonsRest /\ DashRests
       \/ part = "form" /\ Form!Next /\ KeysRest /\ ButtonsRest /\ DashRests
       \/ part = "buttons" /\ Next /\ KeysRest /\ FormRests /\ DashRests
       \/ part = "dashboard" /\ Page!Next /\ KeysRest /\ FormRests /\ ButtonsRest

SystemSpec == SystemInit /\ [][SystemNext]_all

OthersRest == UNCHANGED <<part, keyVars, formVars, dashVars>>
Polling ==
    /\ WF_all(part = "buttons" /\ SomeRowEnds /\ OthersRest)
    /\ \A t \in Tab : WF_all(part = "buttons" /\ Poll(t) /\ OthersRest)

\* The variables of the parts have their types.
TypesOK == TypeOK /\ Keys!TypeOK /\ Form!TypeOK /\ (part = "dashboard" => Page!TypeOK)

\* As in TaskForm: a save leaves what its user asked for and otherwise what was
\* stored, but for what others changed since (task-form.tsx:93-123,
\* env-editor.tsx:24-52, task-repo.ts:57-84).
SavesOnlyTouched == Form!SavesOnlyTouched

\* As in ApiKeys: a key that was removed stops working (api-keys.ts:106-135).
RemovedIsRefused == Keys!RemovedIsRefused

\* As in ApiKeys: and one that was handed out works until then (api-keys.ts:74-75).
HandedOutWorks == Keys!HandedOutWorks
===============================================================================
