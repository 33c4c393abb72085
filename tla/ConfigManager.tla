--------------------------- MODULE ConfigManager ----------------------------
(***************************************************************************)
(* The configuration of the scheduler, in memory and in config.json5, and  *)
(* the requests that change it or sign a user in:                          *)
(* apps/scheduler/src/config.ts and auth.ts under the handlers of          *)
(* packages/common/src/router/system.ts, plugins.ts and auth.ts.           *)
(*                                                                         *)
(* config.ts has no serializer: an update is computed from memory, written *)
(* to the file, and put in memory when the write has settled.  AdminPages  *)
(* adds the pages that make the requests, and the specification.           *)
(***************************************************************************)
EXTENDS Integers, FiniteSets

CONSTANTS
    Tab,       \* who makes requests, one at a time each
    Password,  \* passwords a user may choose
    Settings,  \* the entries of the settings page; "timezone" is one
    Fields,    \* the entries of a plugin's configuration
    Secret,    \* those of type secret
    Required,  \* those that must not be empty
    Choice,    \* what a user may give each entry
    Default,   \* what an entry counts as when the file does not have it
    Mask,      \* what getConfig shows of a secret
    InUse,     \* the entries a system in use may start with
    Absent,    \* no configuration, no password
    MaxCrashes

Entry == Settings \cup Fields \cup {"enabled"}

Values  == UNION {Choice[e] : e \in Entry}
Entries == {f \in [Entry -> Values] : \A e \in Entry : f[e] \in Choice[e]}
Config  == [password : Password, secret : Nat, entries : Entries]

ASSUME SettingsType == "timezone" \in Settings
ASSUME SecretType == Secret \subseteq Fields /\ Required \subseteq Fields
ASSUME ChoiceType ==
    /\ DOMAIN Choice = Entry
    /\ Mask \notin Values
    /\ \E v, w \in Choice["enabled"] : v # w
ASSUME EntriesType == Default \in Entries /\ InUse \subseteq Entries
ASSUME AbsentType == Absent \notin Password \cup Config
ASSUME MaxCrashesType == MaxCrashes \in Nat

VARIABLES
    up,      \* the scheduler serves
    mem,     \* ConfigManager.config
    disk,    \* config.json5
    minted,  \* JWT secrets made so far; each is its number
    stage,   \* where the handler of each tab's request stands
    patch,   \* the entries its request gives
    pass,    \* the password its request gives
    out,     \* the configuration it is about to write
    reply,   \* the answer the tab has not taken yet
    token,   \* the session token that came with it
    ideal,   \* history: the file if each update were atomic
    clash,   \* history: updates overlapped since the boot
    clashed, \* history: updates overlapped, ever
    twice,   \* history: two initializations overlapped
    issued,  \* history: the secrets sessions were signed with
    crashes

memVars  == <<up, mem, disk, minted>>
reqVars  == <<stage, patch, pass, out, reply, token>>
histVars == <<ideal, clash, clashed, twice, issued>>
serverVars == <<memVars, reqVars, histVars, crashes>>

Configs  == Config \cup {Absent}
Answers  == {"none", "ok", "error", "unauthorized"}
Patches  == {p \in UNION {[S -> Values \cup {Mask}] : S \in SUBSET Entry} :
                \A e \in DOMAIN p : p[e] \in Choice[e] \cup {Mask}}
NoPatch  == [e \in {} |-> Mask]

\* get() of an entry, with the default of getTimezone, getMaxHistoryItems and
\* getPluginState when there is no configuration.
Get(e) == IF mem = Absent THEN Default[e] ELSE mem.entries[e]

\* Mutant of Spread: the entries the patch does not give are dropped.
SpreadFresh(c, p) ==
    [c EXCEPT !.entries = [e \in Entry |-> IF e \in DOMAIN p THEN p[e] ELSE Default[e]]]

\* { ...current, ...patch }
Spread(c, p) ==
    [c EXCEPT !.entries = [e \in Entry |-> IF e \in DOMAIN p THEN p[e] ELSE @[e]]]

\* Mutant of Unmasked: every field of the form is kept.
UnmaskedAll(p) == p

\* The loop of plugins.updateConfig: fields that still show the mask are left out.
Unmasked(p) == [e \in {f \in DOMAIN p : p[f] # Mask} |-> p[e]]

Incomplete(p) == \E e \in DOMAIN p \cap Required : p[e] = ""

\* plugins.getConfig: a secret is only shown as set or empty.
Shown(e) == IF e \in Secret /\ Get(e) # "" THEN Mask ELSE Get(e)

\* verifyToken: signed with the present secret.
Valid(bearer) == mem # Absent /\ mem.secret = bearer

Writing == {t \in Tab : stage[t] \in {"hash", "rename", "resume", "first rename", "first resume"}}
Initializing == {t \in Tab : stage[t] \in {"hash", "first rename", "first resume"}}

Goto(t, s) == stage' = [stage EXCEPT ![t] = s]

\* The request of t is answered and its locals are gone.
Answer(t, a) ==
    /\ Goto(t, "idle")
    /\ patch' = [patch EXCEPT ![t] = NoPatch]
    /\ pass' = [pass EXCEPT ![t] = Absent]
    /\ out' = [out EXCEPT ![t] = Absent]
    /\ reply' = [reply EXCEPT ![t] = a]

\* An update starts while another has not settled.
Begin ==
    /\ clash' = (clash \/ Writing # {})
    /\ clashed' = (clashed \/ Writing # {})

(***************************************************************************)
(* The handlers.                                                           *)
(***************************************************************************)

\* system.updateSettings, plugins.setEnabled and plugins.updateConfig up to
\* the write: p is what they pass to ConfigManager, read and spread at once.
Update(t, bearer, p) ==
    /\ up
    /\ stage[t] = "idle" /\ reply[t] = "none"
    /\ \/ /\ ~Valid(bearer)
          /\ Answer(t, "unauthorized")
          /\ UNCHANGED <<clash, clashed>>
       \/ /\ Valid(bearer) /\ Incomplete(p)
          /\ Answer(t, "error")
          /\ UNCHANGED <<clash, clashed>>
       \/ /\ Valid(bearer) /\ ~Incomplete(p)
          /\ Begin
          /\ Goto(t, "rename")
          /\ patch' = [patch EXCEPT ![t] = Unmasked(p)]
          /\ out' = [out EXCEPT ![t] = Spread(mem, Unmasked(p))]
          /\ UNCHANGED <<pass, reply>>
    /\ UNCHANGED <<token, memVars, ideal, twice, issued, crashes>>

\* Mutant of Initialize: only the form looks whether the system has a password.
InitializeUnchecked(t, password, p) ==
    /\ up
    /\ stage[t] = "idle" /\ reply[t] = "none"
    /\ Begin
    /\ twice' = (twice \/ Initializing # {})
    /\ Goto(t, "hash")
    /\ patch' = [patch EXCEPT ![t] = p]
    /\ pass' = [pass EXCEPT ![t] = password]
    /\ UNCHANGED <<out, reply>>
    /\ UNCHANGED <<token, memVars, ideal, issued, crashes>>

\* system.initialize: the check, then the hash of the password.
Initialize(t, password, p) ==
    /\ up
    /\ stage[t] = "idle" /\ reply[t] = "none"
    /\ \/ /\ mem # Absent
          /\ Answer(t, "error")
          /\ UNCHANGED <<clash, clashed, twice>>
       \/ /\ mem = Absent
          /\ Begin
          /\ twice' = (twice \/ Initializing # {})
          /\ Goto(t, "hash")
          /\ patch' = [patch EXCEPT ![t] = p]
          /\ pass' = [pass EXCEPT ![t] = password]
          /\ UNCHANGED <<out, reply>>
    /\ UNCHANGED <<token, memVars, ideal, issued, crashes>>

\* ConfigManager.initialize after scrypt: a configuration of its own.
Hash(t) ==
    /\ stage[t] = "hash"
    /\ minted' = minted + 1
    /\ Goto(t, "first rename")
    /\ out' = [out EXCEPT ![t] = [password |-> pass[t], secret |-> minted + 1, entries |-> Default]]
    /\ UNCHANGED <<token, up, mem, disk, patch, pass, reply, histVars, crashes>>

\* The atomic write takes effect.
Rename(t) ==
    /\ stage[t] \in {"rename", "first rename"}
    /\ disk' = out[t]
    /\ ideal' = IF stage[t] # "rename" THEN out[t]
              ELSE [ideal EXCEPT !.entries =
                        [e \in Entry |-> IF e \in DOMAIN patch[t] THEN patch[t][e] ELSE @[e]]]
    /\ Goto(t, IF stage[t] = "rename" THEN "resume" ELSE "first resume")
    /\ UNCHANGED <<token, up, mem, minted, patch, pass, out, reply, clash, clashed, twice, issued, crashes>>

WriteFails(t) ==
    /\ stage[t] \in {"rename", "first rename"}
    /\ Answer(t, "error")
    /\ UNCHANGED <<token, memVars, histVars, crashes>>

\* Mutant of Resume: memory keeps the configuration it had.
ResumeDiskOnly(t) ==
    /\ stage[t] = "resume"
    /\ Goto(t, "after")
    /\ UNCHANGED <<token, memVars, patch, pass, out, reply, histVars, crashes>>

\* The write of an update has settled.
Resume(t) ==
    /\ stage[t] = "resume"
    /\ mem' = out[t]
    /\ IF pass[t] # Absent THEN Answer(t, "ok") ELSE Goto(t, "after") /\ UNCHANGED <<patch, pass, out, reply>>
    /\ UNCHANGED <<token, up, disk, minted, histVars, crashes>>

\* The write of initialize has settled; a time zone is a second update.
ResumeFirst(t) ==
    /\ stage[t] = "first resume"
    /\ mem' = out[t]
    /\ IF DOMAIN patch[t] = {}
       THEN Answer(t, "ok")
       ELSE /\ Goto(t, "rename")
            /\ out' = [out EXCEPT ![t] = Spread(out[t], patch[t])]
            /\ UNCHANGED <<patch, pass, reply>>
    /\ UNCHANGED <<token, up, disk, minted, histVars, crashes>>

\* What follows the update: the tasks are scheduled again, or the helpers of
\* the scripts are written; either may fail with the update in force.
After(t) ==
    /\ stage[t] = "after"
    /\ \E a \in {"ok", "error"} : Answer(t, a)
    /\ UNCHANGED <<token, memVars, histVars, crashes>>

\* auth.login: the hash it compares with is read before scrypt.
Login(t, password) ==
    /\ up
    /\ stage[t] = "idle" /\ reply[t] = "none"
    /\ \/ mem = Absent /\ Answer(t, "error")
       \/ /\ mem # Absent
          /\ Goto(t, IF mem.password = password THEN "sign" ELSE "deny")
          /\ UNCHANGED <<patch, pass, out, reply>>
    /\ UNCHANGED <<token, memVars, histVars, crashes>>

\* signToken, with the secret of now, whatever the password was compared with.
Sign(t) ==
    /\ stage[t] = "sign"
    /\ issued' = issued \cup {mem.secret}
    /\ token' = [token EXCEPT ![t] = mem.secret]
    /\ Answer(t, "ok")
    /\ UNCHANGED <<memVars, ideal, clash, clashed, twice, crashes>>

Deny(t) ==
    /\ stage[t] = "deny"
    /\ Answer(t, "unauthorized")
    /\ UNCHANGED <<token, memVars, histVars, crashes>>

(***************************************************************************)
(* The process.                                                            *)
(***************************************************************************)

\* Every open request breaks off.
Crash ==
    /\ up
    /\ crashes < MaxCrashes
    /\ crashes' = crashes + 1
    /\ up' = FALSE
    /\ mem' = Absent
    /\ reply' = [t \in Tab |-> IF stage[t] = "idle" THEN reply[t] ELSE "error"]
    /\ stage' = [t \in Tab |-> "idle"]
    /\ patch' = [t \in Tab |-> NoPatch]
    /\ pass' = [t \in Tab |-> Absent]
    /\ out' = [t \in Tab |-> Absent]
    /\ clash' = FALSE
    /\ UNCHANGED <<token, disk, minted, ideal, clashed, twice, issued>>

\* ConfigManager.load
Boot ==
    /\ ~up
    /\ up' = TRUE
    /\ mem' = disk
    /\ UNCHANGED <<disk, minted, reqVars, histVars, crashes>>

Handle(t) ==
    \/ Hash(t) \/ Rename(t) \/ WriteFails(t) \/ Resume(t) \/ ResumeFirst(t)
    \/ After(t) \/ Sign(t) \/ Deny(t)

\* A system with no password yet, or one that has been in use.
ServerInit ==
    /\ up = FALSE
    /\ mem = Absent
    /\ \/ disk = Absent /\ minted = 0
       \/ /\ minted = 1
          /\ \E password \in Password, c \in InUse :
               disk = [password |-> password, secret |-> 1, entries |-> c]
    /\ stage = [t \in Tab |-> "idle"]
    /\ patch = [t \in Tab |-> NoPatch]
    /\ pass = [t \in Tab |-> Absent]
    /\ out = [t \in Tab |-> Absent]
    /\ reply = [t \in Tab |-> "none"]
    /\ token = [t \in Tab |-> 0]
    /\ ideal = disk
    /\ clash = FALSE /\ clashed = FALSE /\ twice = FALSE
    /\ issued = 1 .. minted
    /\ crashes = 0
=============================================================================
