----------------------------- MODULE AdminPages -----------------------------
(***************************************************************************)
(* The pages of the web app that sign in and configure: apps/web/src with  *)
(* its proxy, session cookie and server actions, over the handlers of      *)
(* ConfigManager.  A tab of the browser loads a page, following redirects, *)
(* shows it, and makes the requests of its form; the tabs share a cookie.  *)
(* Two controls of one page that can be busy at once count as two tabs.    *)
(***************************************************************************)
EXTENDS ConfigManager

CONSTANT MaxActs  \* bound on what the users do, all together

ASSUME MaxActsType == MaxActs \in Nat

VARIABLES
    cookie,  \* the secret its token is signed with, 0 without a cookie
    at,      \* what each tab does
    url,     \* the page it loads or shows
    sent,    \* the cookie that went with its request, until it is rendered
    form,    \* the entries its page shows
    typed,   \* the password in its form
    acts

pageVars == <<cookie, at, url, sent, form, typed, acts>>
vars == <<serverVars, pageVars>>

AdminPage == {"/", "/settings", "/plugins"}
Public    == {"/login", "/setup", "/api/auth/signout"}
Loading   == {"proxy", "render"}
Asking    == {"saving", "toggling", "initializing", "initialized", "signing in"}

Be(t, what) == at' = [at EXCEPT ![t] = what]

\* The browser asks for a page, by itself or to follow a redirect, with the
\* cookie it then has.
Request(t, u, c) ==
    /\ Be(t, "proxy")
    /\ url' = [url EXCEPT ![t] = u]
    /\ sent' = [sent EXCEPT ![t] = c]
    /\ form' = [form EXCEPT ![t] = NoPatch]
    /\ typed' = [typed EXCEPT ![t] = Absent]

Redirect(t, u) == Request(t, u, cookie) /\ UNCHANGED <<cookie, acts, serverVars>>

Visit(t, u) ==
    /\ acts < MaxActs
    /\ at[t] \in {"blank", "shown", "error"}
    /\ acts' = acts + 1
    /\ Request(t, u, cookie)
    /\ UNCHANGED <<cookie, serverVars>>

\* proxy.ts looks for a cookie, not whether it is good.
Proxy(t) ==
    /\ at[t] = "proxy"
    /\ \/ sent[t] = 0 /\ url[t] \notin Public /\ Redirect(t, "/login")
       \/ sent[t] # 0 /\ url[t] = "/login" /\ Redirect(t, "/")
       \/ /\ IF sent[t] = 0 THEN url[t] \in Public ELSE url[t] # "/login"
          /\ Be(t, "render")
          /\ UNCHANGED <<cookie, url, sent, form, typed, acts, serverVars>>

\* Mutant of SignOutRoute: the cookie stays.
SignOutRouteKeeps(t) ==
    /\ at[t] = "render" /\ url[t] = "/api/auth/signout"
    /\ Redirect(t, "/login")

\* The cookie that is cleared is the one of now.
SignOutRoute(t) ==
    /\ at[t] = "render" /\ url[t] = "/api/auth/signout"
    /\ cookie' = 0
    /\ Request(t, "/login", 0)
    /\ UNCHANGED <<acts, serverVars>>

Show(t, f) ==
    /\ Be(t, "shown")
    /\ form' = [form EXCEPT ![t] = f]
    /\ sent' = [sent EXCEPT ![t] = 0]
    /\ UNCHANGED <<cookie, url, typed, acts, serverVars>>

\* The login page is for a system with a password, the set-up page for one without.
LoginPage(t) ==
    /\ at[t] = "render" /\ url[t] = "/login" /\ up
    /\ IF mem = Absent THEN Redirect(t, "/setup") ELSE Show(t, NoPatch)

SetupPage(t) ==
    /\ at[t] = "render" /\ url[t] = "/setup" /\ up
    /\ IF mem # Absent THEN Redirect(t, "/login") ELSE Show(t, NoPatch)

\* A page that queries the scheduler; its form takes a copy of the answer.
QueryPage(t, u, f) ==
    /\ at[t] = "render" /\ url[t] = u /\ up
    /\ IF Valid(sent[t]) THEN Show(t, f) ELSE Redirect(t, "/api/auth/signout")

DashboardPage(t) == QueryPage(t, "/", NoPatch)
SettingsPage(t)  == QueryPage(t, "/settings", [e \in Settings |-> Get(e)])
PluginPage(t)    == QueryPage(t, "/plugins", [e \in Fields \cup {"enabled"} |-> Shown(e)])

\* The scheduler does not answer.
PageFails(t) ==
    /\ at[t] = "render" /\ url[t] # "/api/auth/signout" /\ ~up
    /\ Be(t, "error")
    /\ sent' = [sent EXCEPT ![t] = 0]
    /\ UNCHANGED <<cookie, url, form, typed, acts, serverVars>>

(***************************************************************************)
(* The forms.  A request that finds no scheduler leaves its form as it was. *)
(***************************************************************************)

Act(t, what) ==
    /\ acts < MaxActs
    /\ acts' = acts + 1
    /\ Be(t, what)
    /\ UNCHANGED <<cookie, url, sent>>

\* What the inputs of a form that shows f may hold when it is sent.
Typed(f) == {g \in [DOMAIN f -> Values \cup {Mask}] :
                \A e \in DOMAIN f : g[e] = f[e] \/ (e # "enabled" /\ g[e] \in Choice[e])}

\* A form sends every entry it shows.
Save(t, u) ==
    /\ at[t] = "shown" /\ url[t] = u
    /\ \E f \in Typed(form[t]) :
         /\ form' = [form EXCEPT ![t] = f]
         /\ Update(t, cookie, [e \in DOMAIN f \ {"enabled"} |-> f[e]])
    /\ Act(t, "saving")
    /\ UNCHANGED typed

SaveSettings(t) == Save(t, "/settings")
SavePlugin(t)   == Save(t, "/plugins")

Other(v) == CHOOSE w \in Choice["enabled"] : w # v

\* The switch of PluginCard and PluginConfigForm.
Toggle(t) ==
    /\ at[t] = "shown" /\ url[t] = "/plugins"
    /\ Update(t, cookie, [e \in {"enabled"} |-> Other(form[t][e])])
    /\ Act(t, "toggling")
    /\ UNCHANGED <<form, typed>>

\* SetupForm; it leaves the time zone out when none is chosen.
Setup(t, password, zone) ==
    /\ at[t] = "shown" /\ url[t] = "/setup"
    /\ Initialize(t, password, [e \in (IF zone = "" THEN {} ELSE {"timezone"}) |-> zone])
    /\ Act(t, "initializing")
    /\ typed' = [typed EXCEPT ![t] = password]
    /\ UNCHANGED form

SignIn(t, password) ==
    /\ at[t] = "shown" /\ url[t] = "/login"
    /\ Login(t, password)
    /\ Act(t, "signing in")
    /\ UNCHANGED <<form, typed>>

\* logoutAction, whatever the scheduler says to it.
Logout(t) ==
    /\ at[t] = "shown" /\ url[t] \in AdminPage
    /\ acts < MaxActs
    /\ acts' = acts + 1
    /\ cookie' = 0
    /\ Request(t, "/login", 0)
    /\ UNCHANGED serverVars

\* initializeAction goes on with a login of its own.
SetupSignIn(t) ==
    /\ at[t] = "initialized"
    /\ Login(t, typed[t])
    /\ Be(t, "signing in")
    /\ typed' = [typed EXCEPT ![t] = Absent]
    /\ UNCHANGED <<cookie, url, sent, form, acts>>

\* That login finds no scheduler.
SignInUnanswered(t) ==
    /\ at[t] = "initialized" /\ ~up
    /\ Be(t, "shown")
    /\ typed' = [typed EXCEPT ![t] = Absent]
    /\ UNCHANGED <<cookie, url, sent, form, acts, serverVars>>

Took(t) ==
    /\ reply' = [reply EXCEPT ![t] = "none"]
    /\ token' = [token EXCEPT ![t] = 0]
    /\ UNCHANGED <<memVars, stage, patch, pass, out, histVars, crashes>>

\* The answer of the server action reaches the form.
SaveEnds(t) ==
    /\ at[t] \in {"saving", "toggling"} /\ reply[t] # "none"
    /\ Took(t)
    /\ Be(t, "shown")
    /\ form' = IF at[t] = "toggling" /\ reply[t] = "ok"
               THEN [form EXCEPT ![t]["enabled"] = Other(@)] ELSE form
    /\ UNCHANGED <<cookie, url, sent, typed, acts>>

SetupEnds(t) ==
    /\ at[t] = "initializing" /\ reply[t] # "none"
    /\ Took(t)
    /\ Be(t, IF reply[t] = "ok" THEN "initialized" ELSE "shown")
    /\ typed' = [typed EXCEPT ![t] = IF reply[t] = "ok" THEN @ ELSE Absent]
    /\ UNCHANGED <<cookie, url, sent, form, acts>>

\* setSessionToken and the redirect to the dashboard.
SignInEnds(t) ==
    /\ at[t] = "signing in" /\ reply[t] # "none"
    /\ Took(t)
    /\ \/ /\ reply[t] = "ok"
          /\ cookie' = token[t]
          /\ Request(t, "/", token[t])
       \/ /\ reply[t] # "ok"
          /\ Be(t, "shown")
          /\ UNCHANGED <<cookie, url, sent, form, typed>>
    /\ UNCHANGED acts

\* The cookie lives as long as the token, a day.
Expire ==
    /\ cookie # 0
    /\ cookie' = 0
    /\ UNCHANGED <<at, url, sent, form, typed, acts, serverVars>>

Init ==
    /\ ServerInit
    /\ cookie \in {0, minted}
    /\ at = [t \in Tab |-> "blank"]
    /\ url = [t \in Tab |-> "/"]
    /\ sent = [t \in Tab |-> 0]
    /\ form = [t \in Tab |-> NoPatch]
    /\ typed = [t \in Tab |-> Absent]
    /\ acts = 0

\* What a tab and the servers do for it without the user.
Proceed(t) ==
    \/ Proxy(t) \/ SignOutRoute(t) \/ LoginPage(t) \/ SetupPage(t) \/ PageFails(t)
    \/ DashboardPage(t) \/ SettingsPage(t) \/ PluginPage(t)
    \/ SetupSignIn(t) \/ SignInUnanswered(t) \/ SaveEnds(t) \/ SetupEnds(t) \/ SignInEnds(t)
    \/ Handle(t) /\ UNCHANGED pageVars

User(t) ==
    \/ \E u \in AdminPage : Visit(t, u)
    \/ SaveSettings(t) \/ SavePlugin(t) \/ Toggle(t) \/ Logout(t)
    \/ \E password \in Password : SignIn(t, password)
    \/ \E password \in Password, zone \in Choice["timezone"] : Setup(t, password, zone)

Next ==
    \/ \E t \in Tab : Proceed(t) \/ User(t)
    \/ Expire
    \/ (Crash \/ Boot) /\ UNCHANGED pageVars

Spec == Init /\ [][Next]_vars

\* Browser and servers go on with what was asked; users need do nothing, and
\* the scheduler may stay down.
FairSpec == Spec /\ \A t \in Tab : WF_vars(Proceed(t))

(***************************************************************************)
(* Properties.                                                             *)
(***************************************************************************)

TypeOK ==
    /\ up \in BOOLEAN /\ mem \in Configs /\ disk \in Configs /\ minted \in Nat
    /\ stage \in [Tab -> {"idle", "hash", "first rename", "first resume", "rename", "resume",
                          "after", "sign", "deny"}]
    /\ \A t \in Tab : patch[t] \in Patches /\ form[t] \in Patches
    /\ pass \in [Tab -> Password \cup {Absent}] /\ typed \in [Tab -> Password \cup {Absent}]
    /\ out \in [Tab -> Configs]
    /\ reply \in [Tab -> Answers]
    /\ token \in [Tab -> Nat] /\ sent \in [Tab -> Nat] /\ cookie \in Nat
    /\ ideal \in Configs
    /\ clash \in BOOLEAN /\ clashed \in BOOLEAN /\ twice \in BOOLEAN
    /\ issued \subseteq Nat
    /\ at \in [Tab -> {"blank", "shown", "error"} \cup Loading \cup Asking]
    /\ url \in [Tab -> AdminPage \cup Public]
    /\ crashes \in Nat /\ acts \in Nat

\* config.ts:64-70, 94-113: with no write in flight the configuration in memory
\* is the one in the file, after failed writes, crashes at any point and boots,
\* unless two updates overlapped since the boot.
MemoryIsFile == up /\ Writing = {} /\ ~clash => mem = disk

\* No update is lost or half applied, by a crash either, unless two overlapped:
\* every one that reached the file is still in it.
NothingLost == ~clashed => disk = ideal

\* plugins.ts:67-77, specs/004-integration-hooks/plan.md:126: saving a form
\* again that shows the mask of a secret leaves the secret alone: it only
\* becomes what someone typed, or what it was before in an update that
\* overlapped another, and the mask itself is never stored.
SecretsAreTyped ==
    [][\A e \in Secret :
         mem # Absent /\ mem' # Absent /\ mem'.entries[e] # mem.entries[e] =>
             \/ clashed
             \/ \E t \in Tab : stage[t] = "resume" /\ e \in DOMAIN patch[t] /\ mem'.entries[e] \in Choice[e]
      ]_vars

\* The tokens that are held: in the cookie, in a request whose page is not shown
\* yet, in an answer to a login.
Sessions == ({cookie} \cup {sent[t] : t \in Tab} \cup {token[t] : t \in Tab}) \ {0}

\* system.ts:14-17, auth.ts:21-41: a session that is held stays good over saves,
\* crashes and boots until its user logs out or its day is over: only a second
\* initialization that overlapped the first replaces the secret, or the password,
\* of a system in use.
SessionsSurvive == up /\ ~twice => \A s \in Sessions : Valid(s)

\* proxy.ts, the pages' UNAUTHORIZED redirect and the sign-out route: no page
\* load is redirected for ever, whatever the cookie and the scheduler; and a
\* form that waits gets its answer and is usable again.
TabsSettle == \A t \in Tab : at[t] \in Loading \cup Asking ~> at[t] \in {"shown", "error"}
=============================================================================
