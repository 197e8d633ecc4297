------------------------------- MODULE Launch -------------------------------
(***************************************************************************)
(* How a Claude Code process gets the account it runs on: delegate-session *)
(* and fleet-agent build its environment from the one they inherit, from   *)
(* config.json and from route.py's verdict, while that file is rewritten   *)
(* (ConfigFile).  A launched process may start the next one, so an         *)
(* environment is what a whole chain of launches has made of it.           *)
(*                                                                         *)
(* route.decide itself is in module RouteCache: here it answers any        *)
(* account, or none.                                                       *)
(***************************************************************************)
EXTENDS ConfigFile

CONSTANTS
  Accounts,     \* the accounts routing can name
  Own,          \* the machine's own login, in ~/.claude
  Logins,       \* the accounts with a login folder of their own
  Delegate,     \* the account of the delegate token file
  Key,          \* an API key or auth token of the user's own
  NoAccount,
  MaxDepth      \* bound on launches one inside another

ASSUME AccountAssumption ==
  /\ Own \in Accounts /\ Delegate \in Accounts /\ Logins \subseteq Accounts
  /\ Delegate # Own /\ Delegate \notin Logins /\ Own \notin Logins
  /\ Key \notin Accounts /\ NoAccount \notin Accounts \cup {Key}
ASSUME DepthAssumption == MaxDepth \in Nat

VARIABLES
  session,    \* the innermost process of the chain: a shell, a session or an agent run
  tool,       \* the launcher it is running
  step,
  cfg,        \* the launcher's first read of config.json
  listed,     \* its folder is one of session_repos
  held,       \* history: has failover been on, and the file whole, since it started?
  depth

launchVars == <<session, tool, step, cfg, listed, held, depth>>
vars == <<configVars, launchVars>>

Credential == Accounts \cup {Key, NoAccount}
Label      == Accounts \cup {NoAccount}

Env ==
  [ key     : {Key, NoAccount},  \* ANTHROPIC_API_KEY, ANTHROPIC_AUTH_TOKEN
    oauth   : Credential,        \* CLAUDE_CODE_OAUTH_TOKEN
    dir     : Label,             \* CLAUDE_CONFIG_DIR
    label   : Label,             \* FLEET_ACCOUNT
    marked  : BOOLEAN,           \* FLEET_DELEGATE_SESSION
    agent   : BOOLEAN,           \* FLEET_AGENT
    proxied : BOOLEAN,           \* ANTHROPIC_BASE_URL
    header  : Label ]            \* X-Fleet-Account in ANTHROPIC_CUSTOM_HEADERS

Session ==
  [ env : Env, what : {"shell", "session", "agent"},
    chosen : Label,                                 \* the account routing named for it
    by : {"user", "static", "routing", "nobody"},   \* history: who settled its account
    sure : BOOLEAN,                                 \* history: `held` when it started
    proxyUp : BOOLEAN,                              \* history: its launcher found the proxy up
    agents : Nat ]                                  \* history: agent runs in its chain

CleanEnv ==
  [ key |-> NoAccount, oauth |-> NoAccount, dir |-> NoAccount, label |-> NoAccount,
    marked |-> FALSE, agent |-> FALSE, proxied |-> FALSE, header |-> NoAccount ]

\* A shell, with whatever credential its user has set.
Shells ==
  { [env |-> env, what |-> "shell", chosen |-> NoAccount, by |-> "user", sure |-> FALSE,
     proxyUp |-> FALSE, agents |-> 0] :
      env \in {CleanEnv} \cup {[CleanEnv EXCEPT !.key = Key], [CleanEnv EXCEPT !.oauth = Key]}
              \cup {[CleanEnv EXCEPT !.dir = a] : a \in Logins} }

\* The account Claude Code uses, from the strongest credential to the weakest.
RunsOn(env) ==
  IF env.key # NoAccount THEN env.key
  ELSE IF env.oauth # NoAccount THEN env.oauth
  ELSE IF env.dir # NoAccount THEN env.dir
  ELSE Own

-----------------------------------------------------------------------------
\* proxy_env: a proxy that is configured and up; the label goes along, if there is one.
ProxyEnv(env, c, up, label) ==
  IF c["proxy"] # 0 /\ up THEN [env EXCEPT !.proxied = TRUE, !.header = label] ELSE env

MutApplied(env, a, c, up) ==
  LET cleared  == [env EXCEPT !.key = NoAccount, !.oauth = NoAccount]
      credited == IF a \in Logins THEN [cleared EXCEPT !.dir = a]
                  ELSE IF a = Own THEN cleared
                  ELSE [cleared EXCEPT !.oauth = a]
  IN  ProxyEnv([credited EXCEPT !.label = a], c, up, a)

\* apply: every inherited credential goes first.  The login in ~/.claude stays implicit.
Applied(env, a, c, up) ==
  LET cleared  == [env EXCEPT !.key = NoAccount, !.oauth = NoAccount, !.dir = NoAccount]
      credited == IF a \in Logins THEN [cleared EXCEPT !.dir = a]
                  ELSE IF a = Own THEN cleared
                  ELSE [cleared EXCEPT !.oauth = a]
  IN  ProxyEnv([credited EXCEPT !.label = a], c, up, a)

NeedsToken(a) == a \notin Logins \cup {Own}

\* delegate-session's static rule: the delegate token wins over any inherited one.
StaticEnv(env) ==
  [env EXCEPT !.key = NoAccount, !.oauth = Delegate, !.marked = TRUE]

MutMarked(env, a) == env

\* A session routed anywhere but the machine's own login carries the guard's marker.
Marked(env, a) == IF a # Own THEN [env EXCEPT !.marked = TRUE] ELSE env

\* fleet-agent's STRIP.
Stripped(env) == [env EXCEPT !.key = NoAccount, !.oauth = NoAccount]

\* route.configured
Configured(c) == c["routing"] # 0

\* agent-guard.sh refuses the built-in Agent tool in the folders of the delegate block, but
\* to a process that carries a marker, or when config.json cannot be read.  `l`: the folder
\* is one of delegate's repos.
GuardDenies(env, c, l) == ~env.agent /\ ~env.marked /\ c["delegate"] # 0 /\ l

\* session-start.sh goes on to register the session.  Every Claude Code process counts as
\* one with an inbox here, the headless ones of a later version too.
Registers(env) == ~env.agent

\* env_file_for: failover, or a listed folder, once the delegate block is there.
WantsDelegate(c, l) == c["failover"] = 1 \/ (l /\ c["delegate"] # 0)

-----------------------------------------------------------------------------
Init ==
  /\ ConfigInit
  /\ session \in Shells
  /\ tool = "none"
  /\ step = "idle"
  /\ cfg = Blank
  /\ listed = FALSE
  /\ held = FALSE
  /\ depth = 0

Idle == tool' = "none" /\ step' = "idle" /\ cfg' = Blank /\ listed' = FALSE /\ held' = FALSE

\* The launcher exits without starting anything.
Refuse == Idle /\ UNCHANGED <<configVars, session, depth>>

\* The launcher becomes, or starts, the next process.
Start(env, what, chosen, by, up) ==
  /\ session' = [env |-> env, what |-> what, chosen |-> chosen, by |-> by, sure |-> held,
                 proxyUp |-> (up /\ cfg["proxy"] # 0),
                 agents |-> session.agents + (IF what = "agent" THEN 1 ELSE 0)]
  /\ depth' = depth + 1
  /\ Idle
  /\ UNCHANGED configVars

\* A new shell, with a chain of its own.
OpenShell ==
  /\ step = "idle" /\ depth > 0
  /\ session' \in Shells
  /\ depth' = 0
  /\ UNCHANGED <<configVars, tool, step, cfg, listed, held>>

\* delegate-session starts in a folder and reads the configuration.
Launcher ==
  /\ step = "idle" /\ depth < MaxDepth
  /\ tool' = "session"
  /\ step' = "route"
  /\ cfg' = Parsed
  /\ listed' \in BOOLEAN
  /\ held' = (calm /\ ~Truncated /\ last["failover"] = 1)
  /\ UNCHANGED <<configVars, session, depth>>

MutAgentLauncher ==
  /\ step = "idle" /\ depth < MaxDepth
  /\ tool' = "agent"
  /\ step' = "route"
  /\ cfg' = Parsed
  /\ UNCHANGED <<configVars, session, listed, held, depth>>

\* fleet-agent does the same, but not inside an agent run.
AgentLauncher ==
  /\ step = "idle" /\ depth < MaxDepth
  /\ ~session.env.agent
  /\ tool' = "agent"
  /\ step' = "route"
  /\ cfg' = Parsed
  /\ UNCHANGED <<configVars, session, listed, held, depth>>

\* delegate-session with a verdict: apply, and stop on a bad token file.
RouteSession(a, tokenGood, up) ==
  /\ step = "route" /\ tool = "session" /\ Configured(cfg)
  /\ IF NeedsToken(a) /\ ~tokenGood
       THEN Refuse
       ELSE Start(Marked(Applied(session.env, a, cfg, up), a), "session", a, "routing", up)

\* Without a verdict the static rule comes next, with a second read of the file.
NoVerdict ==
  /\ step = "route" /\ tool = "session"
  /\ step' = "static"
  /\ UNCHANGED <<configVars, session, tool, cfg, listed, held, depth>>

MutStaticSession(tokenGood, up) ==
  /\ step = "static"
  /\ IF WantsDelegate(Parsed, listed) /\ tokenGood
       THEN Start(StaticEnv(session.env), "session", NoAccount, "static", up)
       ELSE Start(IF Configured(cfg) THEN ProxyEnv(session.env, cfg, up, NoAccount) ELSE session.env,
                  "session", NoAccount, session.by, up)

\* The static rule: the delegate token, or stop; elsewhere the session starts as it is.
StaticSession(tokenGood, up) ==
  /\ step = "static"
  /\ IF WantsDelegate(Parsed, listed)
       THEN IF tokenGood
              THEN Start(StaticEnv(session.env), "session", NoAccount, "static", up)
              ELSE Refuse
       ELSE Start(IF Configured(cfg) THEN ProxyEnv(session.env, cfg, up, NoAccount) ELSE session.env,
                  "session", NoAccount, session.by, up)

\* fleet-agent: the account routing names, else the delegate token.
RouteAgent(a, tokenGood, up) ==
  /\ step = "route" /\ tool = "agent" /\ Configured(cfg)
  /\ IF NeedsToken(a) /\ ~tokenGood
       THEN Refuse
       ELSE Start([Applied(Stripped(session.env), a, cfg, up) EXCEPT !.agent = TRUE],
                  "agent", a, "routing", up)

StaticAgent(tokenGood, up) ==
  /\ step = "route" /\ tool = "agent"
  /\ IF tokenGood
       THEN Start([Stripped(session.env) EXCEPT !.oauth = Delegate, !.agent = TRUE],
                  "agent", NoAccount, "static", up)
       ELSE Refuse

\* A step of a writer; a launch under way is no longer sure of failover once it is
\* switched off or the file is being rewritten in place.
Rewrite ==
  /\ ConfigNext
  /\ held' = (held /\ calm' /\ ~Truncated' /\ last'["failover"] = 1)
  /\ UNCHANGED <<session, tool, step, cfg, listed, depth>>

Next ==
  \/ OpenShell \/ Launcher \/ AgentLauncher \/ NoVerdict
  \/ \E tokenGood, up \in BOOLEAN :
       \/ \E a \in Accounts : RouteSession(a, tokenGood, up) \/ RouteAgent(a, tokenGood, up)
       \/ StaticSession(tokenGood, up) \/ StaticAgent(tokenGood, up)
  \/ Rewrite

Spec == Init /\ [][Next]_vars

-----------------------------------------------------------------------------
TypeOK ==
  /\ ConfigTypeOK
  /\ session \in Session
  /\ tool \in {"none", "session", "agent"}
  /\ step \in {"idle", "route", "static"}
  /\ cfg \in Config
  /\ listed \in BOOLEAN /\ held \in BOOLEAN
  /\ depth \in Nat

\* apply "any inherited credential goes first, so the choice cannot be overridden by the
\* caller's": whatever a chain of launches and its first shell have left in the
\* environment, a routed process runs on the account routing named, is labelled with it,
\* and names it to the proxy when that is up.
RoutedRunsThere ==
  session.chosen # NoAccount =>
    /\ RunsOn(session.env) = session.chosen
    /\ session.env.label = session.chosen
    /\ session.proxyUp => session.env.proxied /\ session.env.header = session.chosen

\* docs/delegate.md "It covers every folder ... It still fails closed": a session that
\* routing has named no account for, and during whose launch failover was on all along,
\* runs on the delegate account or not at all; switching failover on again, or a switch
\* that is killed, never lets one through to the machine's own login (delegate-session
\* --failover, env_file_for).  A rewrite of the file in place may; `held` leaves it out.
FailoverHolds ==
  session.what = "session" /\ session.sure /\ session.chosen = NoAccount =>
    RunsOn(session.env) = Delegate

\* agent-guard.sh "Inside a fleet-agent run, or a session that delegate-session started, the
\* session already is the delegate account, so its own subagents pass": a process that a
\* launcher has put on another account than the machine's own is refused nothing by the
\* guard, in any folder, through all that it starts and whatever becomes of config.json.
ElsewhereIsMarked ==
  session.by \in {"static", "routing"} /\ RunsOn(session.env) # Own =>
    \A l \in BOOLEAN : ~GuardDenies(session.env, Parsed, l)

\* "fleet-agent refuses to run inside itself" and "Never register a headless job": no chain
\* has two agent runs in it, also when a session lies between them, and nothing at or below
\* an agent run registers an inbox (fleet-agent, session-start.sh).
AgentsStayApart ==
  /\ session.agents <= 1
  /\ session.agents > 0 => ~Registers(session.env)
=============================================================================
