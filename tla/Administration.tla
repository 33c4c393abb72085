---------------------------- MODULE Administration ----------------------------
(***************************************************************************)
(* Two parts of the scheduler that are called over HTTP, next to each      *)
(* other: the pages with the configuration (AdminPages), and the saved     *)
(* state of the tasks (StateStore).  They share neither memory nor files,  *)
(* so a behaviour shows one of them while the other rests.                 *)
(***************************************************************************)
EXTENDS AdminPages

CONSTANTS Client, Task, TaskOf, Uses, Nothing, List, Huge, MaxCalls, MaxMishaps

VARIABLES
    part,  \* the part that moves
    file, net, queue, phase, copy, bad, doing, kind, calls, mishaps, answer, applied, due, excused

State == INSTANCE StateStore

ASSUME StateParameters == State!Parameters

stateVars == <<file, net, queue, phase, copy, bad, doing, kind, calls, mishaps, answer, applied, due, excused>>
all == <<vars, stateVars, part>>

\* The pages at rest are in their simplest initial state.
SystemInit ==
    /\ part \in {"pages", "state"}
    /\ Init
    /\ State!Init
    /\ part = "state" => disk = Absent

StateRests == UNCHANGED <<stateVars, part>>
PagesRest  == UNCHANGED <<vars, part>>

SystemNext ==
    \/ part = "pages" /\ Next /\ StateRests
    \/ part = "state" /\ State!Next /\ PagesRest

SystemSpec == SystemInit /\ [][SystemNext]_all

FairSystem == SystemSpec /\ \A t \in Tab : WF_all(part = "pages" /\ Proceed(t) /\ StateRests)

\* The variables of both parts have their types.
TypesOK == TypeOK /\ State!TypeOK

\* As in StateStore: a call changes the state of its own task only
\* (state-store.ts:47-49).
OthersUntouched == State!OthersUntouched

\* As in StateStore: calls that do not overlap lose nothing (plugins/state.ts:89-95).
MergesKept == State!MergesKept

\* As in StateStore: what a strict call says is true (environment-manager.ts:99-113).
AnswersAreTrue == State!AnswersAreTrue
===============================================================================
