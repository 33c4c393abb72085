------------------------- MODULE AdministrationProofs -------------------------
(***************************************************************************)
(* For any tabs, passwords, settings and crashes: memory is the file, no   *)
(* update of the configuration is lost, and sessions survive, short of     *)
(* overlapping updates and initializations.  The state of the tasks next   *)
(* to them is that of StateStoreProofs.                                    *)
(***************************************************************************)
EXTENDS Administration, Sequences, TLAPS

StateProofs == INSTANCE StateStoreProofs

Stages ==
    {"idle", "hash", "first rename", "first resume", "rename", "resume", "after", "sign", "deny"}

ServerTypes ==
    /\ up \in BOOLEAN /\ mem \in Configs /\ disk \in Configs /\ ideal \in Configs
    /\ minted \in Nat /\ crashes \in Nat /\ issued \subseteq Nat
    /\ stage \in [Tab -> Stages]
    /\ patch \in [Tab -> Patches]
    /\ pass \in [Tab -> Password \cup {Absent}]
    /\ out \in [Tab -> Configs]
    /\ reply \in [Tab -> Answers]
    /\ token \in [Tab -> Nat]
    /\ clash \in BOOLEAN /\ clashed \in BOOLEAN /\ twice \in BOOLEAN

\* What a handler holds at each place; an update is of a configured system.
Locals ==
    \A t \in Tab :
        /\ stage[t] # "idle" => up
        /\ stage[t] = "hash" => pass[t] \in Password
        /\ t \in Writing => \A e \in DOMAIN patch[t] : patch[t][e] # Mask
        /\ t \in Writing /\ stage[t] # "hash" => out[t] # Absent
        /\ stage[t] \in {"rename", "resume", "sign"} => mem # Absent
        /\ stage[t] = "first resume" => disk # Absent

Files ==
    /\ mem # Absent => disk # Absent
    /\ disk = Absent <=> ideal = Absent
    /\ ~up => mem = Absent /\ ~clash
    /\ clash => clashed

\* A write that is alone is of the memory it will replace.
Sole ==
    ~clash =>
        /\ \A t, u \in Writing : t = u
        /\ \A t \in Initializing : mem = Absent
        /\ \A t \in Tab : stage[t] \in {"rename", "resume"} => out[t] = Spread(mem, patch[t])
        /\ \A t \in Tab : stage[t] \in {"resume", "first resume"} => out[t] = disk
        /\ up => mem = disk \/ \E t \in Tab : stage[t] \in {"resume", "first resume"}

\* Memory, file and the writes under way have one secret, and until there is
\* one nobody has a session.
OneSecret ==
    ~twice =>
        /\ \A t, u \in Initializing : t = u
        /\ \A t \in Initializing : mem = Absent /\ issued = {}
        /\ \A t \in Tab : stage[t] \in {"rename", "resume"} => out[t].secret = mem.secret
        /\ \A t \in Tab : stage[t] = "first resume" => out[t] = disk
        /\ mem # Absent => disk.secret = mem.secret
        /\ up /\ mem = Absent /\ disk # Absent => \E t \in Tab : stage[t] = "first resume"
        /\ \A s \in issued : disk # Absent /\ disk.secret = s

ServerInv == ServerTypes /\ Locals /\ Files /\ Sole /\ NothingLost /\ OneSecret

PageTypes ==
    /\ cookie \in Nat
    /\ at \in [Tab -> {"blank", "shown", "error"} \cup Loading \cup Asking]
    /\ url \in [Tab -> AdminPage \cup Public]
    /\ sent \in [Tab -> Nat]
    /\ form \in [Tab -> Patches]
    /\ typed \in [Tab -> Password \cup {Absent}]
    /\ acts \in Nat

Inv == ServerInv /\ PageTypes

-----------------------------------------------------------------------------
(***************************************************************************)
(* Patches and configurations.                                             *)
(***************************************************************************)

\* What makes a patch, and what a patch is.
LEMMA PatchIs ==
    ASSUME NEW S \in SUBSET Entry, NEW p \in [S -> Values \cup {Mask}],
           \A e \in S : p[e] \in Choice[e] \cup {Mask}
    PROVE  p \in Patches
PROOF BY DEF Patches

LEMMA PatchHas ==
    ASSUME NEW p \in Patches
    PROVE  /\ DOMAIN p \in SUBSET Entry
           /\ p \in [DOMAIN p -> Values \cup {Mask}]
           /\ \A e \in DOMAIN p : p[e] \in Choice[e] \cup {Mask}
PROOF BY DEF Patches

LEMMA NoPatchType == NoPatch \in Patches
PROOF
  <1>1. NoPatch \in [{} -> Values \cup {Mask}]  BY DEF NoPatch
  <1> QED BY <1>1, PatchIs

\* What is left of a patch is one, with no mask in it.
LEMMA UnmaskedType ==
    ASSUME NEW p \in Patches
    PROVE  /\ Unmasked(p) \in Patches
           /\ \A e \in DOMAIN Unmasked(p) : Unmasked(p)[e] # Mask
PROOF
  <1> DEFINE S == {f \in DOMAIN p : p[f] # Mask}
  <1>1. S \in SUBSET Entry  BY PatchHas
  <1>2. Unmasked(p) \in [S -> Values \cup {Mask}]  BY PatchHas DEF Unmasked
  <1>3. \A e \in S : Unmasked(p)[e] \in Choice[e] \cup {Mask}  BY PatchHas DEF Unmasked
  <1>4. Unmasked(p) \in Patches  BY <1>1, <1>2, <1>3, PatchIs
  <1> QED BY <1>4 DEF Unmasked

\* An update gives a configuration with the secret it had.
LEMMA SpreadType ==
    ASSUME NEW c \in Config, NEW p \in Patches, \A e \in DOMAIN p : p[e] # Mask
    PROVE  /\ Spread(c, p) \in Config
           /\ Spread(c, p).secret = c.secret
           /\ Spread(c, p) # Absent
           /\ \A e \in Entry :
                IF e \in DOMAIN p THEN Spread(c, p).entries[e] \in Choice[e]
                                  ELSE Spread(c, p).entries[e] = c.entries[e]
PROOF
  <1> DEFINE F == [e \in Entry |-> IF e \in DOMAIN p THEN p[e] ELSE c.entries[e]]
  <1>1. c.entries \in Entries  BY DEF Config
  <1>2. F \in Entries  BY <1>1, PatchHas DEF Entries
  <1>3. Spread(c, p) = [c EXCEPT !.entries = F]  BY DEF Spread
  <1>4. \A e \in Entry : F[e] = IF e \in DOMAIN p THEN p[e] ELSE c.entries[e]  OBVIOUS
  <1> HIDE DEF F
  <1>5. /\ Spread(c, p) \in Config /\ Spread(c, p).secret = c.secret
        /\ Spread(c, p).entries = F
    BY <1>2, <1>3 DEF Config
  <1>6. \A e \in DOMAIN p : p[e] \in Choice[e]  BY PatchHas
  <1> QED BY <1>4, <1>5, <1>6, AbsentType

LEMMA ConfigIs ==
    ASSUME NEW c \in Configs, c # Absent
    PROVE  c \in Config /\ c.secret \in Nat
PROOF BY DEF Configs, Config

-----------------------------------------------------------------------------
(***************************************************************************)
(* Each step of the scheduler keeps each part of ServerInv.                *)
(***************************************************************************)

\* A request that is refused, fails before its write or is done with leaves
\* everything as it is.
LEMMA AnswerStep ==
    ASSUME ServerInv, NEW t \in Tab, NEW a \in Answers,
           Answer(t, a), stage[t] \notin {"resume", "first resume"},
           UNCHANGED <<token, memVars, histVars, crashes>>
    PROVE  ServerInv'
PROOF
  <1> USE DEF ServerInv, Answer, Goto, memVars, histVars
  <1>1. ServerTypes'
    BY NoPatchType DEF ServerTypes, Stages, Configs
  <1>2. Locals'
    BY DEF ServerTypes, Locals, Writing
  <1>3. Files'
    BY DEF Files
  <1>4. Sole'
    BY DEF ServerTypes, Sole, Writing, Initializing
  <1>5. NothingLost'
    BY DEF NothingLost
  <1>6. OneSecret'
    BY DEF ServerTypes, OneSecret, Initializing
  <1> QED BY <1>1, <1>2, <1>3, <1>4, <1>5, <1>6

\* An update begins.
LEMMA BeginStep ==
    ASSUME ServerInv, NEW t \in Tab, NEW c \in Patches, \A e \in DOMAIN c : c[e] # Mask,
           NEW n \in Config, n # Absent, n.secret = mem.secret, n = Spread(mem, c),
           up, mem # Absent, stage[t] = "idle", Begin, Goto(t, "rename"),
           patch' = [patch EXCEPT ![t] = c], out' = [out EXCEPT ![t] = n],
           UNCHANGED <<pass, reply, token, memVars, ideal, twice, issued, crashes>>
    PROVE  ServerInv'
PROOF
  <1> USE DEF ServerInv, Begin, Goto, memVars
  <1>1. ServerTypes'
    BY DEF ServerTypes, Stages, Configs
  <1>2. Locals'
    BY DEF ServerTypes, Locals, Writing
  <1>3. Files'
    BY DEF Files
  <1>4. Sole'
    BY DEF ServerTypes, Sole, Writing, Initializing
  <1>5. NothingLost'
    BY DEF NothingLost
  <1>6. OneSecret'
    BY DEF ServerTypes, OneSecret, Initializing
  <1> QED BY <1>1, <1>2, <1>3, <1>4, <1>5, <1>6

LEMMA UpdateStep ==
    ASSUME ServerInv, NEW t \in Tab, NEW bearer, NEW p \in Patches, Update(t, bearer, p)
    PROVE  ServerInv'
PROOF
  <1>1. CASE ~Valid(bearer) \/ Incomplete(p)
    BY <1>1, AnswerStep DEF Update, Answers, histVars
  <1>2. CASE Valid(bearer) /\ ~Incomplete(p)
    <2> DEFINE c == Unmasked(p)
    <2>1. c \in Patches /\ \A e \in DOMAIN c : c[e] # Mask  BY UnmaskedType
    <2>2. mem \in Config /\ mem # Absent
      BY <1>2 DEF Valid, ServerInv, ServerTypes, Configs
    <2> DEFINE n == Spread(mem, c)
    <2> HIDE DEF c
    <2>3. n \in Config /\ n # Absent /\ n.secret = mem.secret  BY <2>1, <2>2, SpreadType
    <2>4. /\ up /\ stage[t] = "idle" /\ Begin /\ Goto(t, "rename")
          /\ patch' = [patch EXCEPT ![t] = c] /\ out' = [out EXCEPT ![t] = n]
          /\ UNCHANGED <<pass, reply, token, memVars, ideal, twice, issued, crashes>>
      BY <1>2 DEF Update, c
    <2> QED BY <2>1, <2>2, <2>3, <2>4, BeginStep
  <1> QED BY <1>1, <1>2

LEMMA InitializeStep ==
    ASSUME ServerInv, NEW t \in Tab, NEW password \in Password,
           NEW p \in Patches, \A e \in DOMAIN p : p[e] # Mask, Initialize(t, password, p)
    PROVE  ServerInv'
PROOF
  <1>1. CASE mem # Absent
    BY <1>1, AnswerStep DEF Initialize, Answers, histVars
  <1>2. CASE mem = Absent
    <2> USE <1>2 DEF ServerInv, Initialize, Begin, Goto, memVars
    <2>1. ServerTypes'
      <3>1. stage' \in [Tab -> Stages]  BY DEF ServerTypes, Stages
      <3>2. patch' \in [Tab -> Patches] /\ pass' \in [Tab -> Password \cup {Absent}]
        BY DEF ServerTypes
      <3> QED BY <3>1, <3>2 DEF ServerTypes
    <2>2. Locals'
      BY DEF ServerTypes, Locals, Writing
    <2>3. Files'
      BY DEF Files
    <2>4. Sole'
      BY DEF ServerTypes, Sole, Writing, Initializing
    <2>5. NothingLost'
      BY DEF NothingLost
    <2>6. OneSecret'
      BY DEF ServerTypes, OneSecret, Initializing
    <2> QED BY <2>1, <2>2, <2>3, <2>4, <2>5, <2>6
  <1> QED BY <1>1, <1>2

LEMMA LoginStep ==
    ASSUME ServerInv, NEW t \in Tab, NEW password, Login(t, password)
    PROVE  ServerInv'
PROOF
  <1>1. CASE mem = Absent
    BY <1>1, AnswerStep DEF Login, Answers
  <1>2. CASE mem # Absent
    <2>1. \E s \in {"sign", "deny"} : Goto(t, s)
      BY <1>2 DEF Login
    <2>2. UNCHANGED <<patch, pass, out, reply, token, memVars, histVars, crashes>> /\ up /\ stage[t] = "idle"
      BY <1>2 DEF Login
    <2> USE <1>2, <2>1, <2>2 DEF ServerInv, Goto, memVars, histVars
    <2>3. ServerTypes'
      BY DEF ServerTypes, Stages
    <2>4. Locals'
      BY DEF ServerTypes, Locals, Writing
    <2>5. Files'
      BY DEF Files
    <2>6. Sole'
      BY DEF ServerTypes, Sole, Writing, Initializing
    <2>7. NothingLost'
      BY DEF NothingLost
    <2>8. OneSecret'
      BY DEF ServerTypes, OneSecret, Initializing
    <2> QED BY <2>3, <2>4, <2>5, <2>6, <2>7, <2>8
  <1> QED BY <1>1, <1>2

LEMMA HashStep ==
    ASSUME ServerInv, NEW t \in Tab, Hash(t)
    PROVE  ServerInv'
PROOF
  <1> USE DEF ServerInv, Goto, histVars
  <1> DEFINE n == [password |-> pass[t], secret |-> minted + 1, entries |-> Default]
  <1>1. n \in Config /\ n # Absent
    <2>1. pass[t] \in Password  BY DEF Hash, Locals
    <2>2. minted + 1 \in Nat  BY DEF ServerTypes
    <2>3. Default \in Entries  BY EntriesType
    <2>4. n \in Config  BY <2>1, <2>2, <2>3 DEF Config
    <2> QED BY <2>4, AbsentType
  <1>2. /\ stage[t] = "hash" /\ stage' = [stage EXCEPT ![t] = "first rename"]
        /\ out' = [out EXCEPT ![t] = n] /\ minted' = minted + 1
        /\ UNCHANGED <<token, up, mem, disk, patch, pass, reply, histVars, crashes>>
    BY DEF Hash
  <1> HIDE DEF n
  <1>3. ServerTypes'
    <2>1. minted' = minted + 1  BY <1>2
    <2>2. minted' \in Nat  BY <2>1 DEF ServerTypes
    <2> QED BY <1>1, <1>2, <2>2 DEF ServerTypes, Stages, Configs
  <1>4. Locals'
    BY <1>1, <1>2 DEF ServerTypes, Locals, Writing
  <1>5. Files'
    BY <1>2 DEF Files
  <1>6. Sole'
    BY <1>2 DEF ServerTypes, Sole, Writing, Initializing
  <1>7. NothingLost'
    BY <1>2 DEF NothingLost
  <1>8. OneSecret'
    BY <1>2 DEF ServerTypes, OneSecret, Initializing
  <1> QED BY <1>3, <1>4, <1>5, <1>6, <1>7, <1>8

\* Short of overlap, one that writes is the only one, and so is one that
\* initializes.
Only(t) ==
    \A u \in Tab : u # t =>
        /\ ~clash => stage[u] \notin {"hash", "rename", "resume", "first rename", "first resume"}
        /\ ~twice /\ t \in Initializing => stage[u] \notin {"hash", "first rename", "first resume"}

LEMMA OnlyOne ==
    ASSUME ServerInv, NEW t \in Writing
    PROVE  Only(t)
PROOF BY DEF ServerInv, Sole, OneSecret, Only, Writing, Initializing

LEMMA RenameStep ==
    ASSUME ServerInv, NEW t \in Tab, Rename(t)
    PROVE  ServerInv'
PROOF
  <1> USE DEF ServerInv
  <1>1. /\ stage[t] \in {"rename", "first rename"} /\ disk' = out[t]
        /\ out[t] \in Config /\ out[t] # Absent
        /\ UNCHANGED <<token, up, mem, minted, patch, pass, out, reply, clash, clashed, twice, issued, crashes>>
    BY DEF Rename, ServerTypes, Locals, Writing, Configs
  <1>0. Only(t)
    BY <1>1, OnlyOne DEF Writing
  <1>2. CASE stage[t] = "first rename"
    <2>1. stage' = [stage EXCEPT ![t] = "first resume"] /\ ideal' = out[t]
      BY <1>2 DEF Rename, Goto
    <2>2. ServerTypes'
      BY <1>1, <2>1 DEF ServerTypes, Stages, Configs
    <2>3. Locals'
      BY <1>1, <1>2, <2>1 DEF ServerTypes, Locals, Writing
    <2>4. Files'
      BY <1>1, <2>1 DEF Files
    <2>5. Sole'
      BY <1>0, <1>1, <1>2, <2>1 DEF ServerTypes, Sole, Only, Writing, Initializing
    <2>6. NothingLost'
      BY <1>1, <2>1 DEF NothingLost
    <2>7. OneSecret'
      BY <1>0, <1>1, <1>2, <2>1 DEF ServerTypes, OneSecret, Only, Initializing
    <2> QED BY <2>2, <2>3, <2>4, <2>5, <2>6, <2>7
  <1>3. CASE stage[t] = "rename"
    <2>1. stage' = [stage EXCEPT ![t] = "resume"] /\ ideal' = Spread(ideal, patch[t])
      BY <1>3 DEF Rename, Goto, Spread
    <2>2. disk # Absent /\ ideal # Absent
      BY <1>3 DEF Locals, Files
    <2>3. ideal' \in Config /\ ideal' # Absent
      BY <1>3, <2>1, <2>2, SpreadType DEF ServerTypes, Configs, Locals, Writing
    <2>4. ServerTypes'
      BY <1>1, <2>1, <2>3 DEF ServerTypes, Stages, Configs
    <2>5. Locals'
      BY <1>1, <1>3, <2>1 DEF ServerTypes, Locals, Writing
    <2>6. Files'
      BY <1>1, <2>3 DEF Files
    <2>7. Sole'
      BY <1>0, <1>1, <1>3, <2>1 DEF ServerTypes, Sole, Only, Writing, Initializing
    <2>8. NothingLost'
      <3>1. ~clashed => mem = disk /\ out[t] = Spread(mem, patch[t]) /\ disk = ideal
        BY <1>0, <1>3 DEF ServerTypes, Locals, Files, Sole, Only, NothingLost
      <3> QED BY <1>1, <2>1, <3>1 DEF NothingLost
    <2>9. OneSecret'
      BY <1>1, <1>3, <2>1 DEF ServerTypes, Locals, OneSecret, Initializing
    <2> QED BY <2>4, <2>5, <2>6, <2>7, <2>8, <2>9
  <1> QED BY <1>1, <1>2, <1>3

LEMMA WriteFailsStep ==
    ASSUME ServerInv, NEW t \in Tab, WriteFails(t)
    PROVE  ServerInv'
PROOF BY AnswerStep DEF WriteFails, Answers

LEMMA ResumeStep ==
    ASSUME ServerInv, NEW t \in Tab, Resume(t)
    PROVE  ServerInv'
PROOF
  <1> USE DEF ServerInv
  <1>1. /\ stage[t] = "resume" /\ mem' = out[t] /\ out[t] \in Config /\ out[t] # Absent
        /\ UNCHANGED <<token, up, disk, minted, histVars, crashes>>
    BY DEF Resume, ServerTypes, Locals, Writing, Configs
  <1>2. PICK s \in {"idle", "after"} : stage' = [stage EXCEPT ![t] = s]
    BY DEF Resume, Answer, Goto
  <1>3. /\ patch' \in {patch, [patch EXCEPT ![t] = NoPatch]}
        /\ pass' \in {pass, [pass EXCEPT ![t] = Absent]}
        /\ out' \in {out, [out EXCEPT ![t] = Absent]}
        /\ reply' \in {reply, [reply EXCEPT ![t] = "ok"]}
    BY DEF Resume, Answer
  <1>0. Only(t)
    BY <1>1, OnlyOne DEF Writing
  <1> USE DEF histVars
  <1>4. \A u \in Tab : u # t =>
            /\ stage'[u] = stage[u] /\ patch'[u] = patch[u] /\ pass'[u] = pass[u] /\ out'[u] = out[u]
    BY <1>2, <1>3 DEF ServerTypes
  <1>5. stage'[t] \in {"idle", "after"} /\ up
    BY <1>1, <1>2 DEF ServerTypes, Locals
  <1>6. ServerTypes'
    <2>1. stage' \in [Tab -> Stages]
      BY <1>2 DEF ServerTypes, Stages
    <2>2. patch' \in [Tab -> Patches]
      BY <1>3, NoPatchType DEF ServerTypes
    <2>3. /\ pass' \in [Tab -> Password \cup {Absent}] /\ out' \in [Tab -> Configs]
          /\ reply' \in [Tab -> Answers]
      BY <1>3 DEF ServerTypes, Configs, Answers
    <2> QED BY <1>1, <2>1, <2>2, <2>3 DEF ServerTypes, Configs
  <1>7. Locals'
    BY <1>1, <1>4, <1>5 DEF Locals, Writing
  <1>8. Files'
    BY <1>1 DEF Locals, Files
  <1>9. Sole'
    BY <1>0, <1>1, <1>4, <1>5 DEF Sole, Only, Writing, Initializing
  <1>10. NothingLost'
    BY <1>1 DEF NothingLost
  <1>11. OneSecret'
    BY <1>1, <1>4, <1>5 DEF Locals, OneSecret, Initializing
  <1> QED BY <1>6, <1>7, <1>8, <1>9, <1>10, <1>11

LEMMA ResumeFirstStep ==
    ASSUME ServerInv, NEW t \in Tab, ResumeFirst(t)
    PROVE  ServerInv'
PROOF
  <1> USE DEF ServerInv
  <1>1. /\ stage[t] = "first resume" /\ mem' = out[t] /\ out[t] \in Config /\ out[t] # Absent
        /\ UNCHANGED <<token, up, disk, minted, histVars, crashes>>
    BY DEF ResumeFirst, ServerTypes, Locals, Writing, Configs
  <1>0. Only(t)
    BY <1>1, OnlyOne DEF Writing
  <1> USE DEF histVars
  <1>2. CASE DOMAIN patch[t] = {}
    <2>1. /\ stage' = [stage EXCEPT ![t] = "idle"]
          /\ patch' = [patch EXCEPT ![t] = NoPatch] /\ pass' = [pass EXCEPT ![t] = Absent]
          /\ out' = [out EXCEPT ![t] = Absent] /\ reply' = [reply EXCEPT ![t] = "ok"]
      BY <1>2 DEF ResumeFirst, Answer, Goto
    <2>2. ServerTypes'
      BY <1>1, <2>1, NoPatchType DEF ServerTypes, Stages, Configs, Answers
    <2>3. Locals'
      BY <1>1, <2>1 DEF ServerTypes, Locals, Writing
    <2>4. Files'
      BY <1>1 DEF Locals, Files
    <2>5. Sole'
      BY <1>0, <1>1, <2>1 DEF ServerTypes, Sole, Only, Writing, Initializing
    <2>6. NothingLost'
      BY <1>1 DEF NothingLost
    <2>7. OneSecret'
      BY <1>0, <1>1, <2>1 DEF ServerTypes, Locals, OneSecret, Only, Initializing
    <2> QED BY <2>2, <2>3, <2>4, <2>5, <2>6, <2>7
  <1>3. CASE DOMAIN patch[t] # {}
    <2> DEFINE n == Spread(out[t], patch[t])
    <2>1. n \in Config /\ n # Absent /\ n.secret = out[t].secret
      BY <1>1, SpreadType DEF ServerTypes, Locals, Writing
    <2>2. /\ stage' = [stage EXCEPT ![t] = "rename"] /\ out' = [out EXCEPT ![t] = n]
          /\ UNCHANGED <<patch, pass, reply>>
      BY <1>3 DEF ResumeFirst, Goto
    <2>3. n = Spread(mem', patch'[t])
      BY <1>1, <2>2
    <2> HIDE DEF n
    <2>4. ServerTypes'
      BY <1>1, <2>1, <2>2 DEF ServerTypes, Stages, Configs
    <2>5. Locals'
      BY <1>1, <2>1, <2>2 DEF ServerTypes, Locals, Writing
    <2>6. Files'
      BY <1>1 DEF Locals, Files
    <2>7. Sole'
      BY <1>0, <1>1, <2>2, <2>3 DEF ServerTypes, Sole, Only, Writing, Initializing
    <2>8. NothingLost'
      BY <1>1 DEF NothingLost
    <2>9. OneSecret'
      BY <1>0, <1>1, <2>1, <2>2 DEF ServerTypes, Locals, OneSecret, Only, Initializing
    <2> QED BY <2>4, <2>5, <2>6, <2>7, <2>8, <2>9
  <1> QED BY <1>2, <1>3

LEMMA AfterStep ==
    ASSUME ServerInv, NEW t \in Tab, After(t)
    PROVE  ServerInv'
PROOF
  <1>1. PICK a \in {"ok", "error"} : Answer(t, a)  BY DEF After
  <1> QED BY <1>1, AnswerStep DEF After, Answers

LEMMA SignStep ==
    ASSUME ServerInv, NEW t \in Tab, Sign(t)
    PROVE  ServerInv'
PROOF
  <1> USE DEF ServerInv, Sign, Answer, Goto, memVars
  <1>1. mem # Absent /\ mem.secret \in Nat
    BY DEF ServerTypes, Locals, Configs, Config
  <1>2. ServerTypes'
    BY <1>1, NoPatchType DEF ServerTypes, Stages, Configs, Answers
  <1>3. Locals'
    BY DEF ServerTypes, Locals, Writing
  <1>4. Files'
    BY DEF Files
  <1>5. Sole'
    BY DEF ServerTypes, Sole, Writing, Initializing
  <1>6. NothingLost'
    BY DEF NothingLost
  <1>7. OneSecret'
    BY <1>1 DEF ServerTypes, Files, OneSecret, Initializing
  <1> QED BY <1>2, <1>3, <1>4, <1>5, <1>6, <1>7

LEMMA DenyStep ==
    ASSUME ServerInv, NEW t \in Tab, Deny(t)
    PROVE  ServerInv'
PROOF BY AnswerStep DEF Deny, Answers

LEMMA TookStep ==
    ASSUME ServerInv, NEW t \in Tab, Took(t)
    PROVE  ServerInv'
PROOF
  <1> USE DEF ServerInv, Took, memVars, histVars
  <1>1. ServerTypes'
    BY DEF ServerTypes, Answers
  <1>2. Locals' /\ Files' /\ Sole' /\ NothingLost' /\ OneSecret'
    BY DEF Locals, Files, Sole, NothingLost, OneSecret, Writing, Initializing
  <1> QED BY <1>1, <1>2

LEMMA CrashStep ==
    ASSUME ServerInv, Crash
    PROVE  ServerInv'
PROOF
  <1> USE DEF ServerInv, Crash
  <1>1. ServerTypes'
    <2>1. reply' \in [Tab -> Answers]  BY DEF ServerTypes, Answers
    <2>2. patch' \in [Tab -> Patches]  BY NoPatchType
    <2>3. stage' \in [Tab -> Stages] /\ out' \in [Tab -> Configs] /\ mem' \in Configs
      BY DEF Stages, Configs
    <2>4. pass' \in [Tab -> Password \cup {Absent}] /\ crashes' \in Nat
      BY DEF ServerTypes
    <2> QED BY <2>1, <2>2, <2>3, <2>4 DEF ServerTypes
  <1>2. Locals' /\ Files' /\ Sole' /\ NothingLost' /\ OneSecret'
    BY DEF Locals, Files, Sole, NothingLost, OneSecret, Writing, Initializing
  <1> QED BY <1>1, <1>2

LEMMA BootStep ==
    ASSUME ServerInv, Boot
    PROVE  ServerInv'
PROOF
  <1> USE DEF ServerInv, Boot, reqVars, histVars
  <1>1. ServerTypes'
    BY DEF ServerTypes
  <1>2. \A t \in Tab : stage[t] = "idle"
    BY DEF Locals
  <1>3. Locals' /\ Files' /\ Sole' /\ NothingLost' /\ OneSecret'
    BY <1>2 DEF Locals, Files, Sole, NothingLost, OneSecret, Writing, Initializing
  <1> QED BY <1>1, <1>3

\* A step of the pages alone.
LEMMA RestStep ==
    ASSUME ServerInv, UNCHANGED serverVars
    PROVE  ServerInv'
PROOF
  <1> USE DEF serverVars, memVars, reqVars, histVars, ServerInv
  <1>1. ServerTypes'
    BY DEF ServerTypes
  <1>2. Locals' /\ Files' /\ Sole' /\ NothingLost' /\ OneSecret'
    BY DEF Locals, Files, Sole, NothingLost, OneSecret, Writing, Initializing
  <1> QED BY <1>1, <1>2

\* Each step of a handler.
LEMMA HandleStep ==
    ASSUME ServerInv, NEW t \in Tab, Handle(t)
    PROVE  ServerInv'
PROOF BY HashStep, RenameStep, WriteFailsStep, ResumeStep, ResumeFirstStep, AfterStep, SignStep, DenyStep DEF Handle

-----------------------------------------------------------------------------
(***************************************************************************)
(* The pages: what they send, and what their variables hold.               *)
(***************************************************************************)

\* A form shows entries of the configuration, or their defaults.
LEMMA FormsArePatches ==
    ASSUME ServerInv
    PROVE  /\ [e \in Settings |-> Get(e)] \in Patches
           /\ [e \in Fields \cup {"enabled"} |-> Shown(e)] \in Patches
PROOF
  <1>1. \A e \in Entry : Get(e) \in Choice[e]
    <2>1. CASE mem = Absent  BY <2>1, EntriesType DEF Get, Entries
    <2>2. CASE mem # Absent
      <3>1. mem.entries \in Entries  BY <2>2 DEF ServerInv, ServerTypes, Configs, Config
      <3> QED BY <2>2, <3>1 DEF Get, Entries
    <2> QED BY <2>1, <2>2
  <1>2. \A e \in Entry : Choice[e] \subseteq Values
    BY DEF Values
  <1>3. \A e \in Entry : Shown(e) \in Choice[e] \cup {Mask}
    BY <1>1 DEF Shown
  <1>4. Settings \in SUBSET Entry /\ Fields \cup {"enabled"} \in SUBSET Entry
    BY DEF Entry
  <1>5. [e \in Settings |-> Get(e)] \in [Settings -> Values \cup {Mask}]
    BY <1>1, <1>2, <1>4
  <1>6. [e \in Fields \cup {"enabled"} |-> Shown(e)] \in [Fields \cup {"enabled"} -> Values \cup {Mask}]
    BY <1>2, <1>3, <1>4
  <1> QED BY <1>1, <1>3, <1>4, <1>5, <1>6, PatchIs

\* What is typed into a form is a patch, and so is what the form sends of it.
LEMMA TypedType ==
    ASSUME NEW f \in Patches, NEW g \in Typed(f)
    PROVE  /\ g \in Patches
           /\ [e \in DOMAIN g \ {"enabled"} |-> g[e]] \in Patches
PROOF
  <1>1. DOMAIN f \in SUBSET Entry /\ g \in [DOMAIN f -> Values \cup {Mask}]
    BY PatchHas DEF Typed
  <1>2. \A e \in DOMAIN f : g[e] \in Choice[e] \cup {Mask}
    BY PatchHas DEF Typed
  <1>3. [e \in DOMAIN g \ {"enabled"} |-> g[e]] \in [DOMAIN g \ {"enabled"} -> Values \cup {Mask}]
    BY <1>1
  <1> QED BY <1>1, <1>2, <1>3, PatchIs

\* The switch has another position.
LEMMA OtherType ==
    ASSUME NEW v
    PROVE  Other(v) \in Values /\ Other(v) \in Choice["enabled"]
PROOF
  <1>1. \E w \in Choice["enabled"] : w # v  BY ChoiceType
  <1>2. Other(v) \in Choice["enabled"]  BY <1>1 DEF Other
  <1>3. "enabled" \in Entry  BY DEF Entry
  <1> QED BY <1>2, <1>3 DEF Values

\* A patch of one entry, and the one of a set-up.
LEMMA SmallPatches ==
    /\ \A v : [e \in {"enabled"} |-> Other(v)] \in Patches
    /\ \A zone \in Choice["timezone"] :
         LET p == [e \in (IF zone = "" THEN {} ELSE {"timezone"}) |-> zone]
         IN  p \in Patches /\ \A e \in DOMAIN p : p[e] # Mask
PROOF
  <1>1. "enabled" \in Entry /\ "timezone" \in Entry  BY SettingsType DEF Entry
  <1>2. ASSUME NEW v PROVE [e \in {"enabled"} |-> Other(v)] \in Patches
    <2>1. [e \in {"enabled"} |-> Other(v)] \in [{"enabled"} -> Values \cup {Mask}]
      BY OtherType
    <2> QED BY <1>1, <2>1, OtherType, PatchIs
  <1>3. ASSUME NEW zone \in Choice["timezone"], NEW S \in SUBSET {"timezone"}
        PROVE  [e \in S |-> zone] \in Patches /\ zone # Mask
    <2>1. zone \in Values /\ zone # Mask  BY <1>1, ChoiceType DEF Values
    <2>2. [e \in S |-> zone] \in [S -> Values \cup {Mask}] /\ S \in SUBSET Entry  BY <1>1, <2>1
    <2> QED BY <2>1, <2>2, PatchIs
  <1> QED BY <1>2, <1>3

\* The first request of a page, and the page that shows a form.
LEMMA RequestType ==
    ASSUME PageTypes, NEW t \in Tab, NEW u \in AdminPage \cup Public, NEW c \in Nat, Request(t, u, c),
           cookie' \in Nat, acts' \in Nat
    PROVE  PageTypes'
PROOF BY NoPatchType DEF PageTypes, Request, Be, Loading

LEMMA RedirectStep ==
    ASSUME Inv, NEW t \in Tab, NEW u \in AdminPage \cup Public, Redirect(t, u)
    PROVE  Inv'
PROOF
  <1>1. ServerInv'  BY RestStep DEF Redirect, Inv
  <1>2. PageTypes'  BY RequestType DEF Redirect, Inv, PageTypes
  <1> QED BY <1>1, <1>2 DEF Inv

LEMMA ShowStep ==
    ASSUME Inv, NEW t \in Tab, NEW f \in Patches, Show(t, f)
    PROVE  Inv'
PROOF
  <1>1. ServerInv'  BY RestStep DEF Show, Inv
  <1>2. PageTypes'  BY DEF Show, Be, Inv, PageTypes
  <1> QED BY <1>1, <1>2 DEF Inv

\* The loading of a page.
LEMMA LoadSteps ==
    ASSUME Inv, NEW t \in Tab,
           \/ Proxy(t) \/ SignOutRoute(t) \/ LoginPage(t) \/ SetupPage(t) \/ PageFails(t)
           \/ DashboardPage(t) \/ SettingsPage(t) \/ PluginPage(t)
    PROVE  Inv'
PROOF
  <1> USE DEF AdminPage, Public
  <1>1. CASE Proxy(t)
    <2>1. CASE Redirect(t, "/login") \/ Redirect(t, "/")  BY <2>1, RedirectStep
    <2>2. CASE Be(t, "render") /\ UNCHANGED <<cookie, url, sent, form, typed, acts, serverVars>>
      <3>1. ServerInv'  BY <2>2, RestStep DEF Inv
      <3>2. PageTypes'  BY <2>2 DEF Be, Inv, PageTypes, Loading
      <3> QED BY <3>1, <3>2 DEF Inv
    <2> QED BY <1>1, <2>1, <2>2 DEF Proxy
  <1>2. CASE SignOutRoute(t)
    <2>1. ServerInv'  BY <1>2, RestStep DEF SignOutRoute, Inv
    <2>2. PageTypes'  BY <1>2, RequestType DEF SignOutRoute, Inv, PageTypes
    <2> QED BY <2>1, <2>2 DEF Inv
  <1>3. CASE LoginPage(t) \/ SetupPage(t)
    BY <1>3, RedirectStep, ShowStep, NoPatchType DEF LoginPage, SetupPage
  <1>4. CASE PageFails(t)
    <2>1. ServerInv'  BY <1>4, RestStep DEF PageFails, Inv
    <2>2. PageTypes'  BY <1>4 DEF PageFails, Be, Inv, PageTypes
    <2> QED BY <2>1, <2>2 DEF Inv
  <1>5. CASE DashboardPage(t) \/ SettingsPage(t) \/ PluginPage(t)
    BY <1>5, RedirectStep, ShowStep, NoPatchType, FormsArePatches
       DEF DashboardPage, SettingsPage, PluginPage, QueryPage, Inv
  <1> QED BY <1>1, <1>2, <1>3, <1>4, <1>5

\* What a user does counts, and the page asks.
LEMMA ActType ==
    ASSUME PageTypes, NEW t \in Tab, NEW what \in Asking, Act(t, what),
           form' \in [Tab -> Patches], typed' \in [Tab -> Password \cup {Absent}]
    PROVE  PageTypes'
PROOF
  <1>1. acts' = acts + 1  BY DEF Act
  <1>2. acts' \in Nat  BY <1>1 DEF PageTypes
  <1> QED BY <1>2 DEF Act, Be, PageTypes

\* The forms that save.
LEMMA FormSteps ==
    ASSUME Inv, NEW t \in Tab, SaveSettings(t) \/ SavePlugin(t) \/ Toggle(t)
    PROVE  Inv'
PROOF
  <1>1. CASE SaveSettings(t) \/ SavePlugin(t)
    <2>1. PICK u \in {"/settings", "/plugins"} : Save(t, u)
      BY <1>1 DEF SaveSettings, SavePlugin
    <2>2. PICK f \in Typed(form[t]) :
              /\ form' = [form EXCEPT ![t] = f]
              /\ Update(t, cookie, [e \in DOMAIN f \ {"enabled"} |-> f[e]])
      BY <2>1 DEF Save
    <2>3. f \in Patches /\ [e \in DOMAIN f \ {"enabled"} |-> f[e]] \in Patches
      BY TypedType DEF Inv, PageTypes
    <2>4. ServerInv'  BY <2>2, <2>3, UpdateStep DEF Inv
    <2>5. PageTypes'
      BY <2>1, <2>2, <2>3, ActType DEF Save, Inv, PageTypes, Asking
    <2> QED BY <2>4, <2>5 DEF Inv
  <1>2. CASE Toggle(t)
    <2>1. ServerInv'
      BY <1>2, SmallPatches, UpdateStep DEF Toggle, Inv
    <2>2. PageTypes'
      BY <1>2, ActType DEF Toggle, Inv, PageTypes, Asking
    <2> QED BY <2>1, <2>2 DEF Inv
  <1> QED BY <1>1, <1>2

\* Signing in, signing out and setting up.
LEMMA SignInSteps ==
    ASSUME Inv, NEW t \in Tab,
           \/ Logout(t) \/ SetupSignIn(t) \/ SignInUnanswered(t)
           \/ \E password \in Password : SignIn(t, password)
           \/ \E password \in Password, zone \in Choice["timezone"] : Setup(t, password, zone)
           \/ \E u \in AdminPage : Visit(t, u)
    PROVE  Inv'
PROOF
  <1> USE DEF Inv
  <1>1. CASE Logout(t)
    <2>1. ServerInv'  BY <1>1, RestStep DEF Logout
    <2>2. cookie' = 0 /\ Request(t, "/login", 0) /\ acts' = acts + 1  BY <1>1 DEF Logout
    <2>3. acts' \in Nat  BY <2>2 DEF PageTypes
    <2>4. PageTypes'  BY <2>2, <2>3, RequestType DEF Public
    <2> QED BY <2>1, <2>4
  <1>2. CASE SetupSignIn(t)
    <2>1. ServerInv'  BY <1>2, LoginStep DEF SetupSignIn
    <2>2. PageTypes'  BY <1>2 DEF SetupSignIn, Be, PageTypes, Asking
    <2> QED BY <2>1, <2>2
  <1>3. CASE SignInUnanswered(t)
    <2>1. ServerInv'  BY <1>3, RestStep DEF SignInUnanswered
    <2>2. PageTypes'  BY <1>3 DEF SignInUnanswered, Be, PageTypes
    <2> QED BY <2>1, <2>2
  <1>4. ASSUME NEW password \in Password, SignIn(t, password) PROVE Inv'
    <2>1. ServerInv'  BY <1>4, LoginStep DEF SignIn
    <2>2. PageTypes'  BY <1>4, ActType DEF SignIn, PageTypes, Asking
    <2> QED BY <2>1, <2>2
  <1>5. ASSUME NEW password \in Password, NEW zone \in Choice["timezone"], Setup(t, password, zone) PROVE Inv'
    <2>1. ServerInv'  BY <1>5, SmallPatches, InitializeStep DEF Setup
    <2>2. PageTypes'  BY <1>5, ActType DEF Setup, PageTypes, Asking
    <2> QED BY <2>1, <2>2
  <1>6. ASSUME NEW u \in AdminPage, Visit(t, u) PROVE Inv'
    <2>1. ServerInv'  BY <1>6, RestStep DEF Visit
    <2>2. PageTypes'  BY <1>6, RequestType DEF Visit, PageTypes
    <2> QED BY <2>1, <2>2
  <1> QED BY <1>1, <1>2, <1>3, <1>4, <1>5, <1>6

\* The answer of a request reaches its page.
LEMMA AnswerSteps ==
    ASSUME Inv, NEW t \in Tab, SaveEnds(t) \/ SetupEnds(t) \/ SignInEnds(t)
    PROVE  Inv'
PROOF
  <1> USE DEF Inv
  <1>0. ServerInv'
    BY TookStep DEF SaveEnds, SetupEnds, SignInEnds
  <1>1. CASE SaveEnds(t)
    <2>1. form' \in [Tab -> Patches]
      <3> DEFINE g == [form[t] EXCEPT !["enabled"] = Other(@)]
      <3>1. form' = form \/ form' = [form EXCEPT ![t] = g]
        BY <1>1 DEF SaveEnds, PageTypes
      <3>2. form[t] \in Patches  BY DEF PageTypes
      <3>3. g \in [DOMAIN form[t] -> Values \cup {Mask}]
        BY <3>2, PatchHas, OtherType
      <3>4. \A e \in DOMAIN form[t] : g[e] \in Choice[e] \cup {Mask}
        BY <3>2, PatchHas, OtherType
      <3>5. g \in Patches
        BY <3>2, <3>3, <3>4, PatchHas, PatchIs
      <3> HIDE DEF g
      <3> QED BY <3>1, <3>5 DEF PageTypes
    <2> QED BY <1>0, <1>1, <2>1 DEF SaveEnds, Be, PageTypes
  <1>2. CASE SetupEnds(t)
    BY <1>0, <1>2 DEF SetupEnds, Be, PageTypes, Asking
  <1>3. CASE SignInEnds(t)
    <2>1. CASE reply[t] = "ok"
      <3>1. token[t] \in Nat  BY DEF ServerInv, ServerTypes
      <3>2. cookie' = token[t] /\ Request(t, "/", token[t]) /\ acts' = acts
        BY <1>3, <2>1 DEF SignInEnds
      <3>3. PageTypes'  BY <3>1, <3>2, RequestType DEF AdminPage, PageTypes
      <3> QED BY <1>0, <3>3
    <2>2. CASE reply[t] # "ok"
      BY <1>0, <1>3, <2>2 DEF SignInEnds, Be, PageTypes
    <2> QED BY <2>1, <2>2
  <1> QED BY <1>1, <1>2, <1>3

LEMMA InitInv == Init => Inv
PROOF
  <1> SUFFICES ASSUME Init PROVE Inv  OBVIOUS
  <1> USE DEF Init, ServerInit
  <1>1. ServerTypes
    <2>1. disk \in Configs /\ minted \in Nat
      <3>1. CASE disk = Absent /\ minted = 0  BY <3>1 DEF Configs
      <3>2. CASE ~(disk = Absent /\ minted = 0)
        <4>1. PICK password \in Password, c \in InUse :
                  disk = [password |-> password, secret |-> 1, entries |-> c] /\ minted = 1
          BY <3>2
        <4>2. c \in Entries  BY EntriesType
        <4> QED BY <4>1, <4>2 DEF Configs, Config
      <3> QED BY <3>1, <3>2
    <2>2. patch \in [Tab -> Patches]  BY NoPatchType
    <2>3. issued \subseteq Nat  BY <2>1
    <2> QED BY <2>1, <2>2, <2>3 DEF ServerTypes, Stages, Answers, Configs
  <1>2. \A s \in issued : disk # Absent /\ disk.secret = s
    <2> TAKE s \in issued
    <2>1. minted = 1 /\ s = 1
      <3>1. minted = 0 \/ minted = 1  OBVIOUS
      <3> QED BY <3>1
    <2>2. PICK password \in Password, c \in InUse :
              disk = [password |-> password, secret |-> 1, entries |-> c]
      BY <2>1
    <2>3. disk \in Config
      BY <2>2, EntriesType DEF Config
    <2> QED BY <2>1, <2>2, <2>3, AbsentType
  <1>4. Locals /\ Files /\ Sole /\ NothingLost /\ OneSecret
    BY <1>2 DEF Locals, Files, Sole, NothingLost, OneSecret, Writing, Initializing
  <1>3. PageTypes
    BY <1>1, NoPatchType DEF ServerTypes, PageTypes, AdminPage
  <1> QED BY <1>1, <1>3, <1>4 DEF Inv, ServerInv

LEMMA NextInv == Inv /\ [Next]_vars => Inv'
PROOF
  <1> SUFFICES ASSUME Inv, [Next]_vars PROVE Inv'  OBVIOUS
  <1>1. ASSUME NEW t \in Tab, Proceed(t) PROVE Inv'
    <2>1. CASE Handle(t) /\ UNCHANGED pageVars
      <3>1. ServerInv'  BY <2>1, HandleStep DEF Inv
      <3>2. PageTypes'  BY <2>1 DEF Inv, PageTypes, pageVars
      <3> QED BY <3>1, <3>2 DEF Inv
    <2> QED BY <1>1, <2>1, LoadSteps, SignInSteps, AnswerSteps DEF Proceed
  <1>2. ASSUME NEW t \in Tab, User(t) PROVE Inv'
    BY <1>2, FormSteps, SignInSteps DEF User
  <1>3. CASE Expire
    <2>1. ServerInv'  BY <1>3, RestStep DEF Expire, Inv
    <2>2. PageTypes'  BY <1>3 DEF Expire, Inv, PageTypes
    <2> QED BY <2>1, <2>2 DEF Inv
  <1>4. CASE (Crash \/ Boot) /\ UNCHANGED pageVars
    <2>1. ServerInv'  BY <1>4, CrashStep, BootStep DEF Inv
    <2>2. PageTypes'  BY <1>4 DEF Inv, PageTypes, pageVars
    <2> QED BY <2>1, <2>2 DEF Inv
  <1>5. CASE UNCHANGED vars
    <2>1. ServerInv'  BY <1>5, RestStep DEF vars, Inv
    <2>2. PageTypes'  BY <1>5 DEF vars, pageVars, Inv, PageTypes
    <2> QED BY <2>1, <2>2 DEF Inv
  <1> QED BY <1>1, <1>2, <1>3, <1>4, <1>5 DEF Next

\* Only a write that has settled changes memory while the scheduler serves.
LEMMA MemoryChanges ==
    ASSUME Inv, Next, mem # Absent, mem' # Absent, mem' # mem
    PROVE  \E t \in Tab : Resume(t) \/ ResumeFirst(t)
PROOF
  <1>1. up  BY DEF Inv, ServerInv, Files
  <1> USE DEF memVars, serverVars
  <1>2. ASSUME NEW t \in Tab, Proceed(t) PROVE Resume(t) \/ ResumeFirst(t)
    <2>1. CASE Handle(t)
      BY <2>1 DEF Handle, Hash, Rename, WriteFails, After, Sign, Deny
    <2>2. CASE LoginPage(t) \/ SetupPage(t) \/ DashboardPage(t) \/ SettingsPage(t) \/ PluginPage(t)
      BY <2>2 DEF LoginPage, SetupPage, DashboardPage, SettingsPage, PluginPage, QueryPage, Redirect, Show
    <2>3. CASE Proxy(t) \/ SignOutRoute(t) \/ PageFails(t)
      BY <2>3 DEF Proxy, SignOutRoute, PageFails, Redirect
    <2>4. CASE SetupSignIn(t) \/ SignInUnanswered(t) \/ SaveEnds(t) \/ SetupEnds(t) \/ SignInEnds(t)
      BY <2>4 DEF SetupSignIn, Login, SignInUnanswered, SaveEnds, SetupEnds, SignInEnds, Took
    <2> QED BY <1>2, <2>1, <2>2, <2>3, <2>4 DEF Proceed
  <1>3. ASSUME NEW t \in Tab, User(t) PROVE FALSE
    BY <1>3 DEF User, Visit, SaveSettings, SavePlugin, Save, Update, Toggle, Logout, SignIn, Login, Setup, Initialize
  <1>4. CASE Expire \/ Crash \/ Boot
    BY <1>1, <1>4 DEF Expire, Crash, Boot
  <1>5. CASE \E t \in Tab : Proceed(t) \/ User(t)
    BY <1>2, <1>3, <1>5
  <1> QED BY <1>4, <1>5 DEF Next

LEMMA InvHolds == Spec => []Inv
PROOF BY InitInv, NextInv, PTL DEF Spec

\* Where a token comes from: a login, or where it was held before.
Held == Sessions \cup {0}
Passed ==
    /\ cookie' \in Held /\ issued' = issued
    /\ \A t \in Tab : sent'[t] \in Held /\ token'[t] \in Held

\* A request carries a token that is held.
LEMMA RequestPasses ==
    ASSUME Inv, NEW t \in Tab, NEW u, NEW c \in Held, Request(t, u, c), cookie' \in Held,
           issued' = issued, token' = token \/ token' = [token EXCEPT ![t] = 0]
    PROVE  Passed
PROOF
  <1>1. sent' = [sent EXCEPT ![t] = c]  BY DEF Request
  <1>2. sent \in [Tab -> Nat] /\ token \in [Tab -> Nat]  BY DEF Inv, PageTypes, ServerInv, ServerTypes
  <1>3. \A x \in Tab : sent[x] \in Held /\ token[x] \in Held  BY DEF Held, Sessions
  <1>4. 0 \in Held  BY DEF Held
  <1> QED BY <1>1, <1>2, <1>3, <1>4 DEF Passed

\* A step that leaves tokens where they are, but for one that is dropped.
LEMMA DropPasses ==
    ASSUME Inv, NEW t \in Tab, issued' = issued, cookie' \in {cookie, 0},
           sent' = sent \/ sent' = [sent EXCEPT ![t] = 0],
           token' = token \/ token' = [token EXCEPT ![t] = 0]
    PROVE  Passed
PROOF
  <1>1. sent \in [Tab -> Nat] /\ token \in [Tab -> Nat]  BY DEF Inv, PageTypes, ServerInv, ServerTypes
  <1>2. cookie \in Held /\ \A x \in Tab : sent[x] \in Held /\ token[x] \in Held  BY DEF Held, Sessions
  <1>3. 0 \in Held  BY DEF Held
  <1> QED BY <1>1, <1>2, <1>3 DEF Passed

\* Only a login makes a token.
LEMMA TokensPass ==
    ASSUME Inv, NEW t \in Tab, Proceed(t) \/ User(t)
    PROVE  Passed \/ (Sign(t) /\ UNCHANGED pageVars)
PROOF
  <1> USE DEF serverVars, memVars, reqVars, histVars, pageVars
  <1>0. cookie \in Held /\ 0 \in Held /\ token[t] \in Held  BY DEF Held, Sessions
  <1>1. ASSUME NEW u, Redirect(t, u) PROVE Passed
    BY <1>0, <1>1, RequestPasses DEF Redirect
  <1>2. ASSUME NEW f, Show(t, f) PROVE Passed
    BY <1>2, DropPasses DEF Show
  <1>3. CASE Proxy(t) \/ PageFails(t)
    <2>1. CASE Redirect(t, "/login") \/ Redirect(t, "/")  BY <1>1, <2>1
    <2>2. CASE UNCHANGED <<cookie, sent, token, issued>>  BY <2>2, DropPasses
    <2>3. CASE PageFails(t)
      <3>1. UNCHANGED <<cookie, token, issued>> /\ sent' = [sent EXCEPT ![t] = 0]  BY <2>3 DEF PageFails
      <3> QED BY <3>1, DropPasses
    <2> QED BY <1>3, <2>1, <2>2, <2>3 DEF Proxy
  <1>4. CASE SignOutRoute(t) \/ Logout(t)
    <2>1. Request(t, "/login", 0) /\ cookie' = 0 /\ UNCHANGED <<token, issued>>
      BY <1>4 DEF SignOutRoute, Logout
    <2> QED BY <1>0, <2>1, RequestPasses
  <1>5. CASE LoginPage(t) \/ SetupPage(t) \/ DashboardPage(t) \/ SettingsPage(t) \/ PluginPage(t)
    <2>1. (\E u : Redirect(t, u)) \/ (\E f : Show(t, f))
      BY <1>5 DEF LoginPage, SetupPage, DashboardPage, SettingsPage, PluginPage, QueryPage
    <2> QED BY <1>1, <1>2, <2>1
  <1>6. CASE SetupSignIn(t) \/ SignInUnanswered(t) \/ SaveEnds(t) \/ SetupEnds(t)
    <2>1. /\ UNCHANGED <<cookie, sent, issued>>
          /\ token' = token \/ token' = [token EXCEPT ![t] = 0]
      BY <1>6 DEF SetupSignIn, Login, SignInUnanswered, SaveEnds, SetupEnds, Took
    <2> QED BY <2>1, DropPasses
  <1>7. CASE SignInEnds(t)
    <2>1. CASE reply[t] = "ok"
      <3>1. /\ Request(t, "/", token[t]) /\ cookie' = token[t] /\ issued' = issued
            /\ token' = [token EXCEPT ![t] = 0]
        BY <1>7, <2>1 DEF SignInEnds, Took
      <3> QED BY <1>0, <3>1, RequestPasses
    <2>2. CASE reply[t] # "ok"
      <3>1. UNCHANGED <<cookie, sent, issued>> /\ token' = [token EXCEPT ![t] = 0]
        BY <1>7, <2>2 DEF SignInEnds, Took
      <3> QED BY <3>1, DropPasses
    <2> QED BY <2>1, <2>2
  <1>8. CASE Handle(t) /\ UNCHANGED pageVars
    <2>1. CASE Sign(t)  BY <1>8, <2>1
    <2>2. CASE ~Sign(t)
      BY <1>8, <2>2, DropPasses DEF Handle, Hash, Rename, WriteFails, Resume, ResumeFirst, After, Deny
    <2> QED BY <2>1, <2>2
  <1>9. CASE \E u \in AdminPage : Visit(t, u)
    <2>1. PICK u \in AdminPage : Visit(t, u)  BY <1>9
    <2>2. Request(t, u, cookie) /\ UNCHANGED <<cookie, token, issued>>  BY <2>1 DEF Visit
    <2> QED BY <1>0, <2>2, RequestPasses
  <1>10. CASE SaveSettings(t) \/ SavePlugin(t) \/ Toggle(t)
    <2>1. UNCHANGED <<cookie, sent, token, issued>>
      BY <1>10 DEF SaveSettings, SavePlugin, Save, Toggle, Update, Act
    <2> QED BY <2>1, DropPasses
  <1>11. CASE \/ \E password \in Password : SignIn(t, password)
              \/ \E password \in Password, zone \in Choice["timezone"] : Setup(t, password, zone)
    <2>1. UNCHANGED <<cookie, sent, token, issued>>
      BY <1>11 DEF SignIn, Login, Setup, Initialize, Act
    <2> QED BY <2>1, DropPasses
  <1> QED BY <1>3, <1>4, <1>5, <1>6, <1>7, <1>8, <1>9, <1>10, <1>11 DEF Proceed, User

\* Every token that is held was made by a login, of the secret of that time.
LEMMA SessionsAreIssued == Spec => [](Sessions \subseteq issued)
PROOF
  <1>1. Init => Sessions \subseteq issued
    BY DEF Init, ServerInit, Sessions
  <1>2. Inv /\ Sessions \subseteq issued /\ [Next]_vars => (Sessions \subseteq issued)'
    <2> SUFFICES ASSUME Inv, Sessions \subseteq issued, [Next]_vars
                 PROVE  (Sessions \subseteq issued)'
      OBVIOUS
    <2> USE DEF serverVars, memVars, reqVars, histVars, pageVars
    <2>1. CASE Passed
      BY <2>1 DEF Passed, Held, Sessions
    <2>2. ASSUME NEW t \in Tab, Sign(t), UNCHANGED pageVars PROVE (Sessions \subseteq issued)'
      <3>1. token \in [Tab -> Nat]  BY DEF Inv, ServerInv, ServerTypes
      <3>2. \A x \in Tab : token'[x] \in {token[x], mem.secret}  BY <2>2, <3>1 DEF Sign
      <3>3. issued' = issued \cup {mem.secret}  BY <2>2 DEF Sign
      <3> QED BY <2>2, <3>2, <3>3 DEF Sessions
    <2>3. CASE \E t \in Tab : Proceed(t) \/ User(t)
      BY <2>1, <2>2, <2>3, TokensPass
    <2>4. CASE Expire \/ ((Crash \/ Boot) /\ UNCHANGED pageVars) \/ UNCHANGED vars
      BY <2>4 DEF Expire, Crash, Boot, vars, Sessions
    <2>5. (\E t \in Tab : Proceed(t) \/ User(t)) \/ Expire \/ ((Crash \/ Boot) /\ UNCHANGED pageVars) \/ UNCHANGED vars
      BY DEF Next
    <2> QED BY <2>3, <2>4, <2>5
  <1> QED BY <1>1, <1>2, InvHolds, PTL DEF Spec

-----------------------------------------------------------------------------

\* Every step of browser and scheduler keeps the variables in their types.
THEOREM TypeCorrect == Spec => []TypeOK
PROOF
  <1>1. Inv => TypeOK
    BY DEF Inv, ServerInv, ServerTypes, PageTypes, Stages, TypeOK
  <1> QED BY <1>1, InvHolds, PTL

\* With no write in flight the configuration in memory is the one in the file,
\* unless two updates overlapped since the boot.
THEOREM MemoryMatchesFile == Spec => []MemoryIsFile
PROOF
  <1>1. Inv => MemoryIsFile
    BY DEF Inv, ServerInv, Sole, MemoryIsFile, Writing
  <1> QED BY <1>1, InvHolds, PTL

\* Every update that reached the file is still in it, wholly, after crashes
\* and failed writes too, unless two overlapped.
THEOREM UpdatesAreKept == Spec => []NothingLost
PROOF
  <1>1. Inv => NothingLost  BY DEF Inv, ServerInv
  <1> QED BY <1>1, InvHolds, PTL

\* A session that is held is good whenever the scheduler serves, over saves,
\* crashes and boots, unless two initializations overlapped (system.ts:14-17,
\* auth.ts:21-41).
THEOREM SessionsStayGood == Spec => []SessionsSurvive
PROOF
  <1>1. Inv /\ Sessions \subseteq issued => SessionsSurvive
    <2> SUFFICES ASSUME Inv, up, ~twice, NEW s \in issued PROVE Valid(s)
      BY DEF SessionsSurvive
    <2>1. mem # Absent
      BY DEF Inv, ServerInv, OneSecret, Initializing
    <2> QED BY <2>1 DEF Inv, ServerInv, OneSecret, Valid
  <1> QED BY <1>1, InvHolds, SessionsAreIssued, PTL

\* A secret of a plugin becomes only what someone typed, short of overlap, and
\* the mask is never stored.
THEOREM SecretsStayTyped == Spec => SecretsAreTyped
PROOF
  <1>1. Inv /\ [Next]_vars =>
          [\A e \in Secret :
             mem # Absent /\ mem' # Absent /\ mem'.entries[e] # mem.entries[e] =>
                 \/ clashed
                 \/ \E t \in Tab : stage[t] = "resume" /\ e \in DOMAIN patch[t] /\ mem'.entries[e] \in Choice[e]
          ]_vars
    <2> SUFFICES ASSUME Inv, Next, ~clashed, mem # Absent, mem' # Absent,
                        NEW e \in Secret, mem'.entries[e] # mem.entries[e]
                 PROVE  \E t \in Tab :
                            stage[t] = "resume" /\ e \in DOMAIN patch[t] /\ mem'.entries[e] \in Choice[e]
      BY DEF vars, serverVars, memVars
    <2>1. PICK t \in Tab : Resume(t) \/ ResumeFirst(t)
      <3>1. mem' # mem  OBVIOUS
      <3> QED BY <3>1, MemoryChanges
    <2>2. ~clash /\ e \in Entry  BY SecretType DEF Inv, ServerInv, Files, Entry
    <2>3. ~ResumeFirst(t)
      BY <2>2 DEF ResumeFirst, Inv, ServerInv, Sole, Initializing
    <2>4. stage[t] = "resume" /\ mem' = Spread(mem, patch[t])
      BY <2>1, <2>2, <2>3 DEF Resume, Inv, ServerInv, Sole
    <2>5. mem \in Config /\ patch[t] \in Patches /\ \A f \in DOMAIN patch[t] : patch[t][f] # Mask
      BY <2>4 DEF Inv, ServerInv, ServerTypes, Locals, Writing, Configs
    <2>6. IF e \in DOMAIN patch[t] THEN mem'.entries[e] \in Choice[e] ELSE mem'.entries[e] = mem.entries[e]
      BY <2>2, <2>4, <2>5, SpreadType
    <2> QED BY <2>4, <2>6
  <1> QED BY <1>1, InvHolds, PTL DEF Spec, SecretsAreTyped

-----------------------------------------------------------------------------
(***************************************************************************)
(* The pages and the state of the tasks next to each other.                *)
(***************************************************************************)

\* The state of the tasks of StateStoreProofs is that of the scheduler.
LEMMA SameState ==
    /\ State!Parameters => StateProofs!Parameters
    /\ State!Init => StateProofs!Init
    /\ State!Next => StateProofs!Next
    /\ UNCHANGED stateVars => UNCHANGED StateProofs!vars
PROOF
  <1>1. State!Parameters => StateProofs!Parameters
    BY DEF State!Parameters, StateProofs!Parameters
  <1>2. State!Init => StateProofs!Init
    BY DEF State!Init, StateProofs!Init, State!Empty, StateProofs!Empty, State!Call, StateProofs!Call
  <1>3. State!Next => StateProofs!Next
    BY Zenon DEF State!Next, StateProofs!Next, State!Calls, StateProofs!Calls, State!Ask, StateProofs!Ask,
           State!Live, StateProofs!Live, State!Merging, StateProofs!Merging, State!Range, StateProofs!Range,
           State!GiveUp, StateProofs!GiveUp, State!Serve, StateProofs!Serve, State!Get, StateProofs!Get,
           State!Arrive, StateProofs!Arrive, State!Read, StateProofs!Read, State!Write, StateProofs!Write,
           State!Settle, StateProofs!Settle, State!WriteFails, StateProofs!WriteFails,
           State!Pop, StateProofs!Pop, State!Restart, StateProofs!Restart, State!Found, StateProofs!Found,
           State!KeyOf, StateProofs!KeyOf, State!End, StateProofs!End, State!Mishap, StateProofs!Mishap,
           State!Empty, StateProofs!Empty, State!Changed, StateProofs!Changed, State!Call, StateProofs!Call,
           State!clientVars, StateProofs!clientVars, State!storeVars, StateProofs!storeVars,
           State!histVars, StateProofs!histVars
  <1>4. UNCHANGED stateVars => UNCHANGED StateProofs!vars
    BY DEF stateVars, StateProofs!vars, StateProofs!storeVars, StateProofs!clientVars, StateProofs!histVars
  <1> QED BY <1>1, <1>2, <1>3, <1>4

\* A step of the scheduler is one of a part, and leaves the other alone.
LEMMA PartsStep ==
    ASSUME [SystemNext]_all
    PROVE  [Next]_vars /\ [StateProofs!Next]_StateProofs!vars
PROOF
  <1>1. CASE UNCHANGED all
    BY <1>1, SameState DEF all
  <1>2. CASE SystemNext
    BY <1>2, SameState DEF SystemNext, PagesRest, StateRests
  <1> QED BY <1>1, <1>2

LEMMA PagesBehave == SystemSpec => Spec
PROOF
  <1>1. SystemInit => Init
    BY DEF SystemInit
  <1>2. [SystemNext]_all => [Next]_vars
    BY PartsStep
  <1> QED BY <1>1, <1>2, PTL DEF SystemSpec, Spec

LEMMA StateBehaves == SystemSpec => StateProofs!Spec
PROOF
  <1>1. SystemInit => StateProofs!Init
    BY SameState DEF SystemInit
  <1>2. [SystemNext]_all => [StateProofs!Next]_StateProofs!vars
    BY PartsStep
  <1> QED BY <1>1, <1>2, PTL DEF SystemSpec, StateProofs!Spec

\* The variables of the pages and of the state keep their types, whichever moves.
THEOREM TypesCorrect == SystemSpec => []TypesOK
PROOF
  <1>1. StateProofs!TypeOK => State!TypeOK
    BY DEF StateProofs!TypeOK, State!TypeOK, StateProofs!Store, State!Store, StateProofs!Saved, State!Saved,
           StateProofs!Value, State!Value, StateProofs!Call, State!Call, StateProofs!Request, State!Request
  <1>2. StateProofs!Spec => []StateProofs!TypeOK
    BY StateParameters, SameState, StateProofs!TypeCorrect
  <1> QED BY <1>1, <1>2, TypeCorrect, PagesBehave, StateBehaves, PTL DEF TypesOK

\* Calls on the state of a task that do not overlap lose nothing
\* (plugins/state.ts:89-95).
THEOREM MergesStayKept == SystemSpec => []MergesKept
PROOF
  <1>1. StateProofs!MergesKept => MergesKept
    BY DEF StateProofs!MergesKept, MergesKept, State!MergesKept
  <1>2. StateProofs!Spec => []StateProofs!MergesKept
    BY StateParameters, SameState, StateProofs!MergesAreKept
  <1> QED BY <1>1, <1>2, StateBehaves, PTL

\* What a strict call is told is true (environment-manager.ts:99-113).
THEOREM AnswersStayTrue == SystemSpec => []AnswersAreTrue
PROOF
  <1>1. StateProofs!AnswersAreTrue => AnswersAreTrue
    BY DEF StateProofs!AnswersAreTrue, AnswersAreTrue, State!AnswersAreTrue, StateProofs!Call, State!Call,
           StateProofs!Range, State!Range
  <1>2. StateProofs!Spec => []StateProofs!AnswersAreTrue
    BY StateParameters, SameState, StateProofs!AnswersStayTrue
  <1> QED BY <1>1, <1>2, StateBehaves, PTL

\* A call on the state changes that of its own task only (state-store.ts:47-49).
THEOREM OthersStayUntouched == SystemSpec => OthersUntouched
PROOF
  <1>1. [\A k \in Task : file'[k] # file[k] => bad \/ StateProofs!KeyOf(Head(queue)) = k]_StateProofs!vars
        => [\A k \in Task : file'[k] # file[k] => bad \/ State!KeyOf(Head(queue)) = k]_State!vars
    BY DEF StateProofs!vars, StateProofs!storeVars, StateProofs!clientVars, StateProofs!histVars,
           State!vars, State!storeVars, State!clientVars, State!histVars, StateProofs!KeyOf, State!KeyOf
  <1>2. StateProofs!OthersUntouched => State!OthersUntouched
    BY <1>1, PTL DEF StateProofs!OthersUntouched, State!OthersUntouched
  <1>3. StateProofs!Spec => StateProofs!OthersUntouched
    BY StateParameters, SameState, StateProofs!OthersStayUntouched
  <1> QED BY <1>2, <1>3, StateBehaves, PTL DEF OthersUntouched
=============================================================================
