---------------------------- MODULE LaunchProofs ----------------------------
(***************************************************************************)
(* What holds of launched processes and of config.json for any accounts,   *)
(* any number of writers of the file and chains of any length.             *)
(***************************************************************************)
EXTENDS Launch, TLAPS

\* Why config.json keeps its blocks while rewrites come one after another: the writer under
\* way has read what was last asked for and added its own, and it alone has a file open, empty
\* until it writes.
Lone == \A p, q \in Writers : wpc[p] # "idle" /\ wpc[q] # "idle" => p = q

HoldsAsked == \A p \in Writers : wpc[p] # "idle" => hold[p] = Asked(p)

OwnFile ==
  \A p \in Writers :
    /\ wpc[p] = "write" => /\ fd[p] = Target(kind[p])
                           /\ fd[p] \in Inodes
                           /\ inode[fd[p]] = Empty
    /\ wpc[p] = "replace" => /\ kind[p] \in Switch
                             /\ tmp \in Inodes
                             /\ inode[tmp] = hold[p]

ConfigInv == (calm => Lone /\ HoldsAsked /\ OwnFile) /\ BlocksAreKept

-----------------------------------------------------------------------------
\* A rewrite gives whole configurations, that differ from what was read in what was asked for.
LEMMA RewrittenIsAsked ==
  ASSUME NEW k \in Kinds, NEW old \in Config, NEW n \in Nat, NEW new \in Rewritten(k, old, n)
  PROVE  /\ new \in Config
         /\ \A b \in Blocks :
              \/ b = "node" /\ k = "relay"
              \/ b = "envelope" /\ (k = "probe" \/ (k = "relay" /\ old[b] = 0))
              \/ b = "accounts" /\ k = "relay"
              \/ b = "proxy" /\ k = "proxy"
              \/ b = "delegate" /\ k = "delegate"
              \/ b = "failover" /\ k \in Switch
              \/ new[b] = old[b]
<1>1. CASE k = "relay"
  BY <1>1 DEF Rewritten, Config, Blocks, Switch
<1>2. CASE k = "proxy"
  BY <1>2 DEF Rewritten, Config, Blocks, Switch
<1>3. CASE k = "delegate"
  BY <1>3 DEF Rewritten, Config, Blocks, Switch
<1>4. CASE k = "probe"
  BY <1>4 DEF Rewritten, Config, Blocks, Switch
<1>5. CASE k \in Switch
  BY <1>5 DEF Rewritten, Config, Blocks, Switch
<1> QED
  BY <1>1, <1>2, <1>3, <1>4, <1>5 DEF Kinds, InPlace

\* What is read from the file is a whole configuration.
LEMMA ParsedType == ConfigTypeOK => Parsed \in Config
BY DEF ConfigTypeOK, Parsed, Exists, Unreadable, Blank, Config

\* Every step of a writer keeps the types.
LEMMA ConfigTypeStep == ConfigTypeOK /\ ConfigNext => ConfigTypeOK'
<1> SUFFICES ASSUME ConfigTypeOK, ConfigNext PROVE ConfigTypeOK'
  OBVIOUS
<1> USE FileAssumption, WritesAssumption
<1> USE DEF ConfigTypeOK, fileVars
<1>1. ASSUME NEW p \in Writers, NEW k \in Kinds, ReadConfig(p, k) PROVE ConfigTypeOK'
  <2>1. PICK new \in Rewritten(k, Parsed, writes + 1) : hold' = [hold EXCEPT ![p] = new]
    BY <1>1 DEF ReadConfig
  <2>2. new \in Config
    BY ParsedType, RewrittenIsAsked, <2>1
  <2> QED
    BY <1>1, <2>1, <2>2 DEF ReadConfig
<1>2. ASSUME NEW p \in Writers, OpenConfig(p) PROVE ConfigTypeOK'
  BY <1>2 DEF OpenConfig, Target, IsFree
<1>3. ASSUME NEW p \in Writers PROVE Asked(p) \in Config
  BY DEF Asked, Config
<1>4. ASSUME NEW p \in Writers, Leave(p)
      PROVE  /\ wpc' \in [Writers -> {"idle", "open", "write", "replace"}]
             /\ kind' \in [Writers -> Kinds]
             /\ fd' \in [Writers -> Inodes \cup {NoFile}]
             /\ hold' \in [Writers -> Config]
  BY <1>4 DEF Leave, Kinds, InPlace, Blank, Config
<1>5. ASSUME NEW p \in Writers, WriteConfig(p) PROVE ConfigTypeOK'
  <2>1. inode' \in [Inodes -> Config \cup {Empty, Torn}] /\ UNCHANGED <<conf, tmp, writes, calm>>
    BY <1>5 DEF WriteConfig
  <2>2. CASE wpc' = [wpc EXCEPT ![p] = "replace"] /\ UNCHANGED <<kind, fd, hold, last>>
    BY <2>1, <2>2
  <2>3. CASE Leave(p) /\ last' = Asked(p)
    BY <1>3, <1>4, <2>1, <2>3
  <2> QED
    BY <1>5, <2>2, <2>3 DEF WriteConfig
<1>6. ASSUME NEW p \in Writers, ReplaceConfig(p) PROVE ConfigTypeOK'
  BY <1>3, <1>4, <1>6 DEF ReplaceConfig
<1>7. ASSUME NEW p \in Writers, KillWriter(p) PROVE ConfigTypeOK'
  BY <1>4, <1>7 DEF KillWriter
<1> QED
  BY <1>1, <1>2, <1>5, <1>6, <1>7 DEF ConfigNext

\* The file is whole at the start.
LEMMA ConfigInitially == ConfigInit => ConfigTypeOK /\ ConfigInv
<1> SUFFICES ASSUME ConfigInit PROVE ConfigTypeOK /\ ConfigInv
  OBVIOUS
<1> USE FileAssumption
<1>1. last \in Config
  BY DEF ConfigInit, Blank, Config, Blocks
<1>2. ConfigTypeOK
  BY <1>1 DEF ConfigInit, ConfigTypeOK, Kinds, InPlace, Blank, Config
<1>3. Lone /\ HoldsAsked /\ OwnFile
  BY DEF ConfigInit, Lone, HoldsAsked, OwnFile
<1>4. BlocksAreKept
  BY <1>1 DEF ConfigInit, BlocksAreKept, Unreadable, Exists, Parsed
<1> QED
  BY <1>2, <1>3, <1>4 DEF ConfigInv

\* Every step of a writer keeps ConfigInv.
LEMMA ConfigStep == ConfigTypeOK /\ ConfigInv /\ ConfigNext => ConfigInv'
<1> SUFFICES ASSUME ConfigTypeOK, ConfigInv, ConfigNext, calm' PROVE ConfigInv'
  BY DEF ConfigInv, BlocksAreKept
<1> USE FileAssumption, WritesAssumption
<1>1. calm /\ Lone /\ HoldsAsked /\ OwnFile
  BY DEF ConfigInv, ConfigTypeOK, ConfigNext, ReadConfig, OpenConfig, WriteConfig, ReplaceConfig,
         KillWriter
<1>2. ASSUME NEW p \in Writers, NEW k \in Kinds, ReadConfig(p, k) PROVE ConfigInv'
  <2>1. PICK new \in Rewritten(k, Parsed, writes + 1) : hold' = [hold EXCEPT ![p] = new]
    BY <1>2 DEF ReadConfig
  <2>2. /\ kind' = [kind EXCEPT ![p] = k] /\ wpc' = [wpc EXCEPT ![p] = "open"]
        /\ UNCHANGED <<inode, conf, tmp, fd, last>>
        /\ \A q \in Writers : wpc[q] = "idle"
    BY <1>2 DEF ReadConfig, fileVars
  <2>3. ~Truncated /\ ~Truncated'
    BY <2>2 DEF Truncated, ConfigTypeOK
  <2>4. Parsed = last /\ ~Unreadable
    BY <1>1, <2>3 DEF ConfigInv, BlocksAreKept
  <2>5. new \in Config /\ last \in Config
    BY <2>1, ParsedType, RewrittenIsAsked DEF ConfigTypeOK
  <2>6. hold'[p] = Asked(p)'
    <3>1. hold'[p] = new /\ kind'[p] = k /\ last' = last
      BY <2>1, <2>2 DEF ConfigTypeOK
    <3>2. \A b \in Blocks : Asked(p)'[b] = new[b]
      BY <2>1, <2>4, <3>1, ParsedType, RewrittenIsAsked DEF Asked, ConfigTypeOK
    <3>3. Asked(p)' \in [Blocks -> Nat]
      BY <2>5, <3>1 DEF Asked, Config
    <3> QED
      BY <2>5, <3>1, <3>2, <3>3 DEF Config
  <2>7. BlocksAreKept'
    BY <2>2, <2>4 DEF BlocksAreKept, Parsed, Unreadable, Exists
  <2>8. \A q \in Writers : q # p => wpc'[q] = "idle"
    BY <2>2 DEF ConfigTypeOK
  <2>9. wpc'[p] = "open"
    BY <2>2 DEF ConfigTypeOK
  <2> QED
    BY <2>6, <2>7, <2>8, <2>9 DEF ConfigInv, Lone, HoldsAsked, OwnFile
<1>3. ASSUME NEW p \in Writers, OpenConfig(p) PROVE ConfigInv'
  <2>1. PICK i \in Inodes :
          /\ IF Target(kind[p]) = NoFile THEN IsFree(i) ELSE i = Target(kind[p])
          /\ inode' = [inode EXCEPT ![i] = Empty]
          /\ fd' = [fd EXCEPT ![p] = i]
          /\ IF kind[p] \in Switch THEN tmp' = i /\ UNCHANGED conf ELSE conf' = i /\ UNCHANGED tmp
    BY <1>3 DEF OpenConfig
  <2>2. /\ wpc[p] = "open" /\ wpc' = [wpc EXCEPT ![p] = "write"]
        /\ UNCHANGED <<kind, hold, writes, last>>
    BY <1>3 DEF OpenConfig
  <2>3. /\ wpc'[p] = "write" /\ fd'[p] = i /\ inode'[i] = Empty
        /\ \A q \in Writers : q # p => wpc'[q] = "idle"
    BY <1>1, <2>1, <2>2 DEF Lone, ConfigTypeOK
  <2>4. \A q \in Writers : Asked(q)' = Asked(q)
    BY <2>2 DEF Asked
  <2>5. Lone' /\ HoldsAsked' /\ OwnFile'
    BY <1>1, <2>1, <2>2, <2>3, <2>4 DEF Lone, HoldsAsked, OwnFile, Target
  <2>6. CASE kind[p] \in Switch
    <3>1. ~Truncated
      BY <1>1, <2>2, <2>6 DEF Truncated, Lone
    <3>2. conf # i
      BY <2>1, <2>6 DEF Target, IsFree, ConfigTypeOK
    <3>3. conf' = conf /\ (conf # NoFile => inode'[conf] = inode[conf])
      BY <2>1, <2>6, <3>2 DEF ConfigTypeOK
    <3> QED
      BY <1>1, <2>2, <2>5, <3>1, <3>3 DEF ConfigInv, BlocksAreKept, Parsed, Unreadable, Exists
  <2>7. CASE kind[p] \notin Switch
    BY <2>2, <2>3, <2>5, <2>7 DEF ConfigInv, BlocksAreKept, Truncated, Kinds, ConfigTypeOK
  <2> QED
    BY <2>6, <2>7
<1>4. ASSUME NEW p \in Writers, Leave(p), wpc[p] # "idle"
      PROVE  Lone' /\ HoldsAsked' /\ OwnFile' /\ ~Truncated'
  BY <1>1, <1>4 DEF Leave, Lone, HoldsAsked, OwnFile, Truncated, ConfigTypeOK
<1>5. ASSUME NEW p \in Writers, WriteConfig(p) PROVE ConfigInv'
  <2>1. /\ wpc[p] = "write" /\ UNCHANGED <<conf, tmp>>
        /\ fd[p] = Target(kind[p]) /\ fd[p] \in Inodes /\ inode[fd[p]] = Empty
        /\ inode' = [inode EXCEPT ![fd[p]] = hold[p]]
    BY <1>1, <1>5 DEF WriteConfig, OwnFile
  <2>2. hold[p] = Asked(p) /\ hold[p] \in Config /\ hold[p] \notin {Empty, Torn}
    BY <1>1, <2>1 DEF HoldsAsked, ConfigTypeOK
  <2>3. CASE kind[p] \in Switch
    <3>1. wpc' = [wpc EXCEPT ![p] = "replace"] /\ UNCHANGED <<kind, fd, hold, last>>
      BY <1>5, <2>3 DEF WriteConfig
    <3>2. /\ wpc'[p] = "replace" /\ inode'[tmp] = hold[p] /\ tmp \in Inodes
          /\ \A q \in Writers : q # p => wpc'[q] = "idle"
      BY <1>1, <2>1, <2>3, <3>1 DEF Lone, ConfigTypeOK, Target
    <3>3. \A q \in Writers : Asked(q)' = Asked(q)
      BY <3>1 DEF Asked
    <3>4. Lone' /\ HoldsAsked' /\ OwnFile'
      BY <1>1, <2>1, <2>3, <3>1, <3>2, <3>3 DEF Lone, HoldsAsked, OwnFile
    <3>5. ~Truncated
      BY <1>1, <2>1, <2>3 DEF Truncated, Lone, Switch, InPlace
    <3>6. conf # NoFile => conf # tmp /\ inode'[conf] = inode[conf]
      BY <2>1, <2>3, <3>2 DEF ConfigTypeOK, Target
    <3> QED
      BY <1>1, <2>1, <3>1, <3>4, <3>5, <3>6 DEF ConfigInv, BlocksAreKept, Parsed, Unreadable, Exists
  <2>4. CASE kind[p] \notin Switch
    <3>1. Leave(p) /\ last' = Asked(p)
      BY <1>5, <2>4 DEF WriteConfig
    <3>2. conf \in Inodes /\ inode'[conf] = last'
      BY <2>1, <2>2, <2>4, <3>1 DEF Target, ConfigTypeOK
    <3> QED
      BY <1>4, <2>1, <2>2, <3>1, <3>2 DEF ConfigInv, BlocksAreKept, Parsed, Unreadable, Exists
  <2> QED
    BY <2>3, <2>4
<1>6. ASSUME NEW p \in Writers, ReplaceConfig(p) PROVE ConfigInv'
  <2>1. wpc[p] = "replace" /\ tmp \in Inodes /\ inode[tmp] = hold[p] /\ hold[p] = Asked(p)
    BY <1>1, <1>6 DEF ReplaceConfig, OwnFile, HoldsAsked
  <2>2. conf' = tmp /\ UNCHANGED inode /\ last' = Asked(p) /\ Leave(p)
    BY <1>6, <2>1 DEF ReplaceConfig
  <2>3. inode'[conf'] = last' /\ last' \notin {Empty, Torn} /\ conf' # NoFile
    BY <2>1, <2>2 DEF ConfigTypeOK
  <2> QED
    BY <1>4, <2>1, <2>2, <2>3 DEF ConfigInv, BlocksAreKept, Parsed, Unreadable, Exists
<1>7. ASSUME NEW p \in Writers, KillWriter(p) PROVE ConfigInv'
  <2>1. /\ wpc[p] # "idle" /\ ~(wpc[p] = "write" /\ kind[p] \in InPlace)
        /\ Leave(p) /\ UNCHANGED <<inode, conf, tmp, last>>
    BY <1>7 DEF KillWriter, fileVars
  <2>2. ~Truncated
    BY <1>1, <2>1 DEF Truncated, Lone
  <2> QED
    BY <1>1, <1>4, <2>1, <2>2 DEF ConfigInv, BlocksAreKept, Parsed, Unreadable, Exists
<1> QED
  BY <1>2, <1>3, <1>5, <1>6, <1>7 DEF ConfigNext

-----------------------------------------------------------------------------
\* An environment with the proxy named in it is one, and runs on the same account.
LEMMA ProxyKeepsAccount ==
  ASSUME NEW env \in Env, NEW c, NEW up, NEW label \in Label
  PROVE  LET new == ProxyEnv(env, c, up, label)
         IN  /\ new \in Env
             /\ RunsOn(new) = RunsOn(env)
             /\ new.label = env.label /\ new.marked = env.marked /\ new.agent = env.agent
             /\ up /\ c["proxy"] # 0 => new.proxied /\ new.header = label
BY DEF ProxyEnv, Env, RunsOn

\* apply: the process runs on the account it names, whatever it inherited.
LEMMA AppliedRunsThere ==
  ASSUME NEW env \in Env, NEW a \in Accounts, NEW c, NEW up
  PROVE  LET new == Applied(env, a, c, up)
         IN  /\ new \in Env
             /\ RunsOn(new) = a
             /\ new.label = a /\ new.marked = env.marked /\ new.agent = env.agent
             /\ up /\ c["proxy"] # 0 => new.proxied /\ new.header = a
<1> USE AccountAssumption
<1> DEFINE cleared == [env EXCEPT !.key = NoAccount, !.oauth = NoAccount, !.dir = NoAccount]
           credited == IF a \in Logins THEN [cleared EXCEPT !.dir = a]
                       ELSE IF a = Own THEN cleared
                       ELSE [cleared EXCEPT !.oauth = a]
           labelled == [credited EXCEPT !.label = a]
<1>1. cleared \in Env
  BY DEF Env, Credential, Label
<1>2. credited \in Env
  BY <1>1 DEF Env, Credential, Label
<1>3. labelled \in Env
  BY <1>2 DEF Env, Label
<1>4. /\ cleared.key = NoAccount /\ cleared.oauth = NoAccount /\ cleared.dir = NoAccount
      /\ cleared.marked = env.marked /\ cleared.agent = env.agent
  BY DEF Env
<1>5. /\ credited.key = NoAccount
      /\ credited.oauth = IF a \in Logins \cup {Own} THEN NoAccount ELSE a
      /\ credited.dir = IF a \in Logins THEN a ELSE NoAccount
      /\ credited.marked = env.marked /\ credited.agent = env.agent
  BY <1>1, <1>4 DEF Env
<1>6. /\ labelled.key = credited.key /\ labelled.oauth = credited.oauth
      /\ labelled.dir = credited.dir /\ labelled.label = a
      /\ labelled.marked = env.marked /\ labelled.agent = env.agent
  BY <1>2, <1>5 DEF Env
<1>7. RunsOn(labelled) = a
  <2> HIDE DEF cleared, credited, labelled
  <2>1. CASE a \in Logins
    BY <1>5, <1>6, <2>1 DEF RunsOn
  <2>2. CASE a = Own
    BY <1>5, <1>6, <2>2 DEF RunsOn
  <2>3. CASE a \notin Logins \cup {Own}
    BY <1>5, <1>6, <2>3 DEF RunsOn
  <2> QED
    BY <2>1, <2>2, <2>3
<1>8. Applied(env, a, c, up) = ProxyEnv(labelled, c, up, a)
  BY DEF Applied
<1>9. a \in Label
  BY DEF Label
<1> HIDE DEF cleared, credited, labelled
<1>10. /\ labelled.label = a /\ labelled.marked = env.marked /\ labelled.agent = env.agent
  BY <1>5, <1>6
<1> QED
  BY <1>3, <1>7, <1>8, <1>9, <1>10, ProxyKeepsAccount

-----------------------------------------------------------------------------
\* What a launch relies on: fleet-agent has looked for itself in the environment it goes on
\* with, and a launch that is sure of failover reads a whole file with failover on.
NotNested == tool = "agent" => ~session.env.agent
HeldIsSure == held => calm /\ ~Truncated /\ last["failover"] = 1

\* The guard goes by the markers alone.
CarriesMarker ==
  session.by \in {"static", "routing"} /\ RunsOn(session.env) # Own =>
    session.env.marked \/ session.env.agent

LaunchInv ==
  /\ ConfigInv
  /\ NotNested /\ HeldIsSure
  /\ RoutedRunsThere /\ FailoverHolds /\ CarriesMarker /\ AgentsStayApart

\* A launcher that starts a process leaves the file alone and goes.
LEMMA Started ==
  ASSUME TypeOK, LaunchInv,
         NEW env \in Env, NEW what \in {"session", "agent"}, NEW chosen \in Label,
         NEW by \in {"user", "static", "routing", "nobody"}, NEW up \in BOOLEAN,
         Start(env, what, chosen, by, up),
         chosen # NoAccount => /\ RunsOn(env) = chosen /\ env.label = chosen
                               /\ up /\ cfg["proxy"] # 0 => env.proxied /\ env.header = chosen,
         by \in {"static", "routing"} /\ RunsOn(env) # Own => env.marked \/ env.agent,
         session.env.agent => env.agent,
         what = "agent" => env.agent /\ ~session.env.agent,
         what = "session" /\ held /\ chosen = NoAccount => RunsOn(env) = Delegate
  PROVE  TypeOK' /\ LaunchInv'
<1> DEFINE new == [env |-> env, what |-> what, chosen |-> chosen, by |-> by, sure |-> held,
                   proxyUp |-> (up /\ cfg["proxy"] # 0),
                   agents |-> session.agents + (IF what = "agent" THEN 1 ELSE 0)]
<1>1. /\ session' = new /\ depth' = depth + 1 /\ UNCHANGED configVars
      /\ tool' = "none" /\ step' = "idle" /\ cfg' = Blank /\ listed' = FALSE /\ held' = FALSE
  BY DEF Start, Idle
<1>2. session.agents \in Nat /\ held \in BOOLEAN
  BY DEF TypeOK, Session
<1>3. new \in Session
  BY <1>2 DEF Session
<1>4. ConfigTypeOK' /\ ConfigInv'
  BY <1>1 DEF TypeOK, LaunchInv, configVars, fileVars, writerVars, ConfigTypeOK, ConfigInv, Lone,
              HoldsAsked, OwnFile, Asked, Target, BlocksAreKept, Truncated, Parsed, Unreadable,
              Exists
<1>5. TypeOK'
  <2>1. session' \in Session /\ depth' \in Nat
    BY <1>1, <1>3 DEF TypeOK
  <2>2. cfg' \in Config
    BY <1>1 DEF Blank, Config
  <2> HIDE DEF new
  <2> QED
    BY <1>1, <1>4, <2>1, <2>2 DEF TypeOK
<1>6. /\ session'.env = env /\ session'.what = what /\ session'.chosen = chosen
      /\ session'.by = by /\ session'.sure = held /\ session'.proxyUp = (up /\ cfg["proxy"] # 0)
      /\ session'.agents = session.agents + (IF what = "agent" THEN 1 ELSE 0)
  BY <1>1
<1> HIDE DEF new
<1>7. NotNested' /\ HeldIsSure'
  BY <1>1 DEF NotNested, HeldIsSure
<1>8. RoutedRunsThere' /\ CarriesMarker' /\ FailoverHolds'
  BY <1>6 DEF RoutedRunsThere, CarriesMarker, FailoverHolds
<1>9. AgentsStayApart'
  <2>1. session.agents > 0 => session.env.agent
    BY DEF LaunchInv, AgentsStayApart, Registers
  <2>2. CASE what = "agent"
    <3>1. session.agents = 0
      BY <1>2, <2>1, <2>2
    <3>2. session'.agents = 1 /\ session'.env.agent
      BY <1>6, <2>2, <3>1
    <3> QED
      BY <3>2 DEF AgentsStayApart, Registers
  <2>3. CASE what = "session"
    <3>1. session'.agents = session.agents
      BY <1>2, <1>6, <2>3
    <3>2. session'.agents > 0 => session'.env.agent
      BY <1>6, <2>1, <3>1
    <3> QED
      BY <3>1, <3>2 DEF LaunchInv, AgentsStayApart, Registers
  <2> QED
    BY <2>2, <2>3
<1> QED
  BY <1>4, <1>5, <1>7, <1>8, <1>9 DEF LaunchInv

\* A launcher that gives up, or only goes on, leaves the process it runs in as it is.
LEMMA SessionStays ==
  ASSUME TypeOK, LaunchInv, UNCHANGED <<configVars, session, depth>>,
         tool' \in {"none", "session", "agent"}, step' \in {"idle", "route", "static"},
         cfg' \in Config, listed' \in BOOLEAN, held' \in BOOLEAN, NotNested', HeldIsSure'
  PROVE  TypeOK' /\ LaunchInv'
<1>1. ConfigTypeOK' /\ ConfigInv'
  BY DEF TypeOK, LaunchInv, configVars, fileVars, writerVars, ConfigTypeOK, ConfigInv, Lone,
         HoldsAsked, OwnFile, Asked, Target, BlocksAreKept, Truncated, Parsed, Unreadable, Exists
<1>2. RoutedRunsThere' /\ CarriesMarker' /\ FailoverHolds' /\ AgentsStayApart'
  BY DEF LaunchInv, RoutedRunsThere, CarriesMarker, FailoverHolds, AgentsStayApart
<1> QED
  BY <1>1, <1>2 DEF TypeOK, LaunchInv

LEMMA GivenUp ==
  ASSUME TypeOK, LaunchInv, Refuse
  PROVE  TypeOK' /\ LaunchInv'
BY SessionStays DEF Refuse, Idle, Blank, Config, NotNested, HeldIsSure

\* A shell has its user's credentials and nobody's promise.
LEMMA ShellIsFine ==
  ASSUME NEW s \in Shells
  PROVE  /\ s \in Session /\ s.what = "shell" /\ s.chosen = NoAccount /\ s.by = "user"
         /\ s.agents = 0 /\ ~s.env.agent
<1>1. PICK env \in {CleanEnv} \cup {[CleanEnv EXCEPT !.key = Key], [CleanEnv EXCEPT !.oauth = Key]}
                     \cup {[CleanEnv EXCEPT !.dir = a] : a \in Logins} :
        s = [env |-> env, what |-> "shell", chosen |-> NoAccount, by |-> "user", sure |-> FALSE,
             proxyUp |-> FALSE, agents |-> 0]
  BY DEF Shells
<1>2. CleanEnv \in Env /\ CleanEnv.agent = FALSE
  BY DEF CleanEnv, Env, Credential, Label
<1>3. env \in Env /\ env.agent = FALSE
  BY <1>2, AccountAssumption DEF Env, Credential, Label
<1> QED
  BY <1>1, <1>3 DEF Session, Label

\* It holds at the start.
LEMMA LaunchInitially == Init => TypeOK /\ LaunchInv
<1> SUFFICES ASSUME Init PROVE TypeOK /\ LaunchInv
  OBVIOUS
<1>1. ConfigTypeOK /\ ConfigInv
  BY ConfigInitially DEF Init
<1>2. session \in Session /\ session.what = "shell" /\ session.chosen = NoAccount
      /\ session.by = "user" /\ session.agents = 0
  BY ShellIsFine DEF Init
<1>3. TypeOK
  BY <1>1, <1>2 DEF Init, TypeOK, Blank, Config
<1> QED
  BY <1>1, <1>2, <1>3 DEF Init, LaunchInv, NotNested, HeldIsSure, RoutedRunsThere, CarriesMarker,
                          FailoverHolds, AgentsStayApart

\* Every step keeps it.
LEMMA LaunchStep == TypeOK /\ LaunchInv /\ [Next]_vars => TypeOK' /\ LaunchInv'
<1> SUFFICES ASSUME TypeOK, LaunchInv, [Next]_vars PROVE TypeOK' /\ LaunchInv'
  OBVIOUS
<1> USE AccountAssumption, DepthAssumption
<1>1. session \in Session /\ session.env \in Env /\ cfg \in Config /\ Parsed \in Config
      /\ NoAccount \in Label /\ Accounts \subseteq Label
  BY ParsedType DEF TypeOK, Session, Label
<1>2. CASE OpenShell
  <2>1. session' \in Session /\ session'.what = "shell" /\ session'.chosen = NoAccount
        /\ session'.by = "user" /\ session'.agents = 0 /\ ~session'.env.agent
    BY <1>2, ShellIsFine DEF OpenShell
  <2>2. UNCHANGED <<configVars, tool, step, cfg, listed, held>> /\ depth' = 0 /\ step = "idle"
    BY <1>2 DEF OpenShell
  <2>3. ConfigTypeOK' /\ ConfigInv'
    BY <2>2 DEF TypeOK, LaunchInv, configVars, fileVars, writerVars, ConfigTypeOK, ConfigInv, Lone,
       HoldsAsked, OwnFile, Asked, Target, BlocksAreKept, Truncated, Parsed, Unreadable, Exists
  <2>4. NotNested' /\ HeldIsSure'
    BY <2>1, <2>2 DEF LaunchInv, NotNested, HeldIsSure, configVars, fileVars, writerVars, Truncated
  <2>5. RoutedRunsThere' /\ FailoverHolds' /\ CarriesMarker' /\ AgentsStayApart'
    BY <2>1 DEF RoutedRunsThere, CarriesMarker, FailoverHolds, AgentsStayApart
  <2> QED
    BY <2>1, <2>2, <2>3, <2>4, <2>5 DEF TypeOK, LaunchInv
<1>3. CASE Launcher
  <2>1. HeldIsSure'
    BY <1>3 DEF Launcher, HeldIsSure, configVars, fileVars, writerVars, Truncated
  <2>2. NotNested'
    BY <1>3 DEF Launcher, NotNested
  <2> QED
    BY <1>1, <1>3, <2>1, <2>2, SessionStays DEF Launcher, TypeOK
<1>4. CASE AgentLauncher
  <2>1. /\ tool' = "agent" /\ step' = "route" /\ cfg' = Parsed /\ ~session.env.agent
        /\ UNCHANGED <<configVars, session, listed, held, depth>>
    BY <1>4 DEF AgentLauncher
  <2>2. HeldIsSure' /\ NotNested'
    BY <2>1 DEF LaunchInv, HeldIsSure, NotNested, configVars, fileVars, writerVars, Truncated
  <2> QED
    BY <1>1, <2>1, <2>2, SessionStays DEF TypeOK
<1>5. ASSUME NEW a \in Accounts, NEW tokenGood \in BOOLEAN, NEW up \in BOOLEAN,
             RouteSession(a, tokenGood, up)
      PROVE  TypeOK' /\ LaunchInv'
  <2> DEFINE app == Applied(session.env, a, cfg, up)
             env == Marked(app, a)
  <2>1. /\ app \in Env /\ RunsOn(app) = a /\ app.label = a /\ app.agent = session.env.agent
        /\ up /\ cfg["proxy"] # 0 => app.proxied /\ app.header = a
    BY <1>1, AppliedRunsThere
  <2> HIDE DEF app
  <2>2. /\ env \in Env /\ RunsOn(env) = a /\ env.label = a /\ env.agent = session.env.agent
        /\ up /\ cfg["proxy"] # 0 => env.proxied /\ env.header = a
        /\ a # Own => env.marked
    BY <2>1 DEF Marked, Env, RunsOn
  <2>3. CASE Refuse
    BY <2>3, GivenUp
  <2>4. CASE Start(env, "session", a, "routing", up)
    <3> HIDE DEF env
    <3> QED
      BY <1>1, <2>2, <2>4, Started
  <2> QED
    BY <1>5, <2>3, <2>4 DEF RouteSession, app
<1>6. CASE NoVerdict
  <2>1. /\ tool' = tool /\ step' = "static" /\ cfg' = cfg /\ listed' = listed /\ held' = held
        /\ tool = "session" /\ UNCHANGED <<configVars, session, depth>>
    BY <1>6 DEF NoVerdict
  <2>2. HeldIsSure' /\ NotNested'
    BY <2>1 DEF LaunchInv, HeldIsSure, NotNested, configVars, fileVars, writerVars, Truncated
  <2> QED
    BY <1>1, <2>1, <2>2, SessionStays DEF TypeOK
<1>7. ASSUME NEW tokenGood \in BOOLEAN, NEW up \in BOOLEAN, StaticSession(tokenGood, up)
      PROVE  TypeOK' /\ LaunchInv'
  <2> DEFINE static == StaticEnv(session.env)
             own == IF Configured(cfg) THEN ProxyEnv(session.env, cfg, up, NoAccount) ELSE session.env
  <2>1. static \in Env /\ RunsOn(static) = Delegate /\ static.marked
        /\ static.agent = session.env.agent
    BY <1>1 DEF StaticEnv, Env, RunsOn, Credential
  <2>2. /\ own \in Env /\ RunsOn(own) = RunsOn(session.env)
        /\ own.marked = session.env.marked /\ own.agent = session.env.agent
    BY <1>1, ProxyKeepsAccount
  <2>3. session.by \in {"user", "static", "routing", "nobody"}
    BY <1>1 DEF Session
  <2>4. held => WantsDelegate(Parsed, listed)
    BY DEF LaunchInv, HeldIsSure, ConfigInv, BlocksAreKept, WantsDelegate
  <2>5. CASE Refuse
    BY <2>5, GivenUp
  <2>6. CASE Start(static, "session", NoAccount, "static", up)
    <3> HIDE DEF static
    <3> QED
      BY <1>1, <2>1, <2>6, Started
  <2>7. CASE ~WantsDelegate(Parsed, listed) /\ Start(own, "session", NoAccount, session.by, up)
    <3> HIDE DEF own
    <3>1. session.by \in {"static", "routing"} /\ RunsOn(own) # Own => own.marked \/ own.agent
      BY <2>2 DEF LaunchInv, CarriesMarker
    <3> QED
      BY <1>1, <2>2, <2>3, <2>4, <2>7, <3>1, Started
  <2> QED
    BY <1>7, <2>5, <2>6, <2>7 DEF StaticSession
<1>8. ASSUME NEW a \in Accounts, NEW tokenGood \in BOOLEAN, NEW up \in BOOLEAN,
             RouteAgent(a, tokenGood, up)
      PROVE  TypeOK' /\ LaunchInv'
  <2> DEFINE stripped == Stripped(session.env)
             app == Applied(stripped, a, cfg, up)
             env == [app EXCEPT !.agent = TRUE]
  <2>1. stripped \in Env
    BY <1>1 DEF Stripped, Env, Credential
  <2>2. /\ app \in Env /\ RunsOn(app) = a /\ app.label = a
        /\ up /\ cfg["proxy"] # 0 => app.proxied /\ app.header = a
    BY <2>1, AppliedRunsThere
  <2> HIDE DEF app
  <2>3. /\ env \in Env /\ RunsOn(env) = a /\ env.label = a /\ env.agent
        /\ up /\ cfg["proxy"] # 0 => env.proxied /\ env.header = a
    BY <2>2 DEF Env, RunsOn
  <2>4. ~session.env.agent
    BY <1>8 DEF RouteAgent, LaunchInv, NotNested
  <2>5. CASE Refuse
    BY <2>5, GivenUp
  <2>6. CASE Start(env, "agent", a, "routing", up)
    <3> HIDE DEF env
    <3> QED
      BY <1>1, <2>3, <2>4, <2>6, Started
  <2> QED
    BY <1>8, <2>5, <2>6 DEF RouteAgent, app, stripped
<1>9. ASSUME NEW tokenGood \in BOOLEAN, NEW up \in BOOLEAN, StaticAgent(tokenGood, up)
      PROVE  TypeOK' /\ LaunchInv'
  <2> DEFINE env == [Stripped(session.env) EXCEPT !.oauth = Delegate, !.agent = TRUE]
  <2>1. env \in Env /\ env.agent
    BY <1>1 DEF Stripped, Env, Credential
  <2>2. ~session.env.agent
    BY <1>9 DEF StaticAgent, LaunchInv, NotNested
  <2>3. CASE Refuse
    BY <2>3, GivenUp
  <2>4. CASE Start(env, "agent", NoAccount, "static", up)
    <3> HIDE DEF env
    <3> QED
      BY <1>1, <2>1, <2>2, <2>4, Started
  <2> QED
    BY <1>9, <2>3, <2>4 DEF StaticAgent
<1>10. CASE Rewrite
  <2>1. /\ ConfigNext /\ UNCHANGED <<session, tool, step, cfg, listed, depth>>
        /\ held' = (held /\ calm' /\ ~Truncated' /\ last'["failover"] = 1)
    BY <1>10 DEF Rewrite
  <2>2. ConfigTypeOK' /\ ConfigInv'
    BY <2>1, ConfigTypeStep, ConfigStep DEF TypeOK, LaunchInv
  <2>3. NotNested' /\ HeldIsSure' /\ held' \in BOOLEAN
    BY <2>1 DEF LaunchInv, NotNested, HeldIsSure
  <2>4. RoutedRunsThere' /\ FailoverHolds' /\ CarriesMarker' /\ AgentsStayApart'
    BY <2>1 DEF LaunchInv, RoutedRunsThere, FailoverHolds, CarriesMarker, AgentsStayApart
  <2> QED
    BY <2>1, <2>2, <2>3, <2>4 DEF TypeOK, LaunchInv
<1>11. CASE UNCHANGED vars
  <2>1. UNCHANGED <<configVars, session, tool, step, cfg, listed, held, depth>>
    BY <1>11 DEF vars, launchVars
  <2>2. HeldIsSure' /\ NotNested'
    BY <2>1 DEF LaunchInv, HeldIsSure, NotNested, configVars, fileVars, writerVars, Truncated
  <2> QED
    BY <2>1, <2>2, SessionStays DEF TypeOK
<1> QED
  BY <1>2, <1>3, <1>4, <1>5, <1>6, <1>7, <1>8, <1>9, <1>10, <1>11 DEF Next

\* Along every behaviour.
LEMMA LaunchAlways == Spec => [](TypeOK /\ LaunchInv)
<1>1. Init => TypeOK /\ LaunchInv
  BY LaunchInitially
<1>2. (TypeOK /\ LaunchInv) /\ [Next]_vars => (TypeOK /\ LaunchInv)'
  BY LaunchStep
<1> QED
  BY <1>1, <1>2, PTL DEF Spec

\* Types of the file, its writers, the launchers and what they start.
THEOREM TypeCorrect == Spec => []TypeOK
BY LaunchAlways, PTL

\* While rewrites of config.json come one after another and none in place is killed between
\* truncating the file and writing it, every block is what was last asked for it, wherever a
\* writer that has not opened it or a switch of failover is killed (the three installers,
\* probe.py, delegate-session --failover).
THEOREM Kept == Spec => []BlocksAreKept
<1>1. LaunchInv => BlocksAreKept
  BY DEF LaunchInv, ConfigInv
<1> QED
  BY <1>1, LaunchAlways, PTL

\* A routed process runs on the account routing named, whatever the chain of launches before it
\* has left in its environment (apply, proxy_env).
THEOREM Routed == Spec => []RoutedRunsThere
<1>1. LaunchInv => RoutedRunsThere
  BY DEF LaunchInv
<1> QED
  BY <1>1, LaunchAlways, PTL

\* No session gets past failover to the machine's own login (delegate-session).
THEOREM Failover == Spec => []FailoverHolds
<1>1. LaunchInv => FailoverHolds
  BY DEF LaunchInv
<1> QED
  BY <1>1, LaunchAlways, PTL

\* The guard refuses nothing to a process that a launcher has put on another account
\* (delegate-session, fleet-agent, agent-guard.sh).
THEOREM Unhindered == Spec => []ElsewhereIsMarked
<1>1. LaunchInv => ElsewhereIsMarked
  BY DEF LaunchInv, CarriesMarker, ElsewhereIsMarked, GuardDenies
<1> QED
  BY <1>1, LaunchAlways, PTL

\* No agent run lies inside another, and none registers an inbox (fleet-agent, session-start.sh).
THEOREM Apart == Spec => []AgentsStayApart
<1>1. LaunchInv => AgentsStayApart
  BY DEF LaunchInv
<1> QED
  BY <1>1, LaunchAlways, PTL
=============================================================================
