------------------------------- MODULE Relay -------------------------------
(***************************************************************************)
(* The relay agent of one node (relay/agent.py): handler threads that take *)
(* a signed message from a peer, refuse it when it is stale or already     *)
(* used, pick a live session from the registry the SessionStart hook       *)
(* writes, and write the message into that session's inbox socket          *)
(* (socketio.deliver).  The other side of the registry is here too: Claude *)
(* Code processes that start, register, register again and exit.           *)
(*                                                                         *)
(* A message stands for its signature: HMAC is injective as far as the     *)
(* code can tell, so equal signatures are equal timestamp and body.        *)
(***************************************************************************)
EXTENDS Naturals, FiniteSets

CONSTANTS
  Handlers,      \* threads of the ThreadingHTTPServer
  Procs,         \* Claude Code processes; each has one inbox socket
  Sids,          \* session ids, the names of the registry files (naturals: sorted)
  Messages,      \* the requests a peer can post
  AccountOf,     \* the account label the hook records for a process
  AnySession, AnyAccount, Blank,   \* "session", "account", "text" left out or empty
  NoProc, NoSid, NoMessage,
  Skew,          \* SKEW, in clock ticks
  MaxLag,        \* bound: ticks a handler may spend between its two clock reads
  MaxClock,      \* bound on the wall clock
  MaxRegs,       \* bound on registrations
  MaxRestarts,   \* bound on restarts of the relay
  MaxRewrites,   \* bound on rewrites of config.json
  Reregisters    \* may a live process run the SessionStart hook again?

ASSUME SkewAssumption == Skew \in Nat /\ MaxLag \in Nat /\ MaxLag <= Skew
ASSUME BoundAssumption ==
  MaxClock \in Nat /\ MaxRegs \in Nat /\ MaxRestarts \in Nat /\ MaxRewrites \in Nat
ASSUME SidAssumption == Sids \subseteq Nat /\ NoSid \notin Sids /\ AnySession \notin Sids
ASSUME MessageAssumption ==
  /\ \A m \in Messages : m.ts \in Nat /\ m.signed \in BOOLEAN
  /\ NoMessage \notin Messages
ASSUME ProcAssumption == NoProc \notin Procs

VARIABLES
  clock,      \* time.time() on this node
  seen,       \* SEEN: signatures (messages) already used
  pc,         \* where each handler is in do_POST
  msg,        \* the message each handler holds
  at,         \* when the handler checked the timestamp
  left,       \* registry files its listing has still to read
  found,      \* live entries its listing has read
  target,     \* the entry it delivers to
  answer,     \* the HTTP status it replied
  file,       \* the registry: one JSON file per session id
  proc,       \* life of each Claude Code process
  hook,       \* the registry file a process's SessionStart hook is writing
  current,    \* the session id a process runs
  regs,       \* registrations so far, the order of registered_at
  config,     \* ~/.fleet-bridge/config.json, for its envelope
  rewrites, restarts,
  copies,     \* history: times each message reached an inbox in this relay's lifetime
  claims,     \* history: messages first_use let through in this lifetime
  lastReg,    \* history: the latest registration each process completed, while its file is whole
  steady      \* history: the registrations a handler's listing began with, of processes that have
              \* lived and files that have been left alone since

localVars    == <<at, left, found, target, steady>>
handlerVars  == <<pc, msg, answer, localVars>>
registryVars == <<file, proc, hook, current, regs, lastReg>>
configVars   == <<config, rewrites>>
useVars      == <<seen, claims>>
vars == <<clock, useVars, handlerVars, registryVars, configVars, restarts, copies>>

Entry    == [sid : Sids, proc : Procs, at : Nat]
NoEntry  == [sid |-> NoSid, proc |-> NoProc, at |-> 0]
FileRec  == [state : {"absent", "torn", "ok"}, proc : Procs \cup {NoProc}, at : Nat]
Absent   == [state |-> "absent", proc |-> NoProc, at |-> 0]
Torn     == [state |-> "torn", proc |-> NoProc, at |-> 0]
NoReg    == [sid |-> NoSid, at |-> 0]
RegRec   == [sid : Sids, at : Nat \ {0}] \cup {NoReg}

Answers == {200, 400, 401, 404, 502, 503, 0}    \* 0: the connection dropped unanswered
Idle    == {"idle", "done"}
Unsent  == {"claimed", "parsed", "list", "scan", "connect", "connected"}
Claimed == Unsent \cup {"written"}
Steps   == Idle \cup {"received", "checked"} \cup Claimed

-----------------------------------------------------------------------------
Init ==
  /\ clock = 0
  /\ seen = {}
  /\ pc = [h \in Handlers |-> "idle"]
  /\ msg = [h \in Handlers |-> NoMessage]
  /\ at = [h \in Handlers |-> 0]
  /\ left = [h \in Handlers |-> {}]
  /\ found = [h \in Handlers |-> {}]
  /\ target = [h \in Handlers |-> NoEntry]
  /\ answer = [h \in Handlers |-> 0]
  /\ file = [s \in Sids |-> Absent]
  /\ proc = [p \in Procs |-> "new"]
  /\ hook = [p \in Procs |-> NoSid]
  /\ current = [p \in Procs |-> NoSid]
  /\ regs = 0
  /\ config \in {"missing", "ok"}
  /\ rewrites = 0
  /\ restarts = 0
  /\ copies = [m \in Messages |-> 0]
  /\ claims = {}
  /\ lastReg = [p \in Procs |-> NoReg]
  /\ steady = [h \in Handlers |-> {}]

Goto(h, step) == pc' = [pc EXCEPT ![h] = step] /\ UNCHANGED <<msg, answer>>

\* _json(status, ...): the reply ends the handler's call, and its locals go.
Reply(h, status) ==
  /\ pc' = [pc EXCEPT ![h] = "done"]
  /\ answer' = [answer EXCEPT ![h] = status]
  /\ at' = [at EXCEPT ![h] = 0]
  /\ left' = [left EXCEPT ![h] = {}]
  /\ found' = [found EXCEPT ![h] = {}]
  /\ target' = [target EXCEPT ![h] = NoEntry]
  /\ steady' = [steady EXCEPT ![h] = {}]
  /\ UNCHANGED msg

MutFresh(m, now) == m.ts <= now + Skew

\* The timestamp is within SKEW seconds of this node's clock, either way.
Fresh(m, now) == now <= m.ts + Skew /\ m.ts <= now + Skew

-----------------------------------------------------------------------------
\* do_POST reads the headers and the body.  Any message may be posted at any
\* time and any number of times: sent late, or sent twice.
Receive(h, m) ==
  /\ pc[h] \in Idle
  /\ pc' = [pc EXCEPT ![h] = "received"]
  /\ msg' = [msg EXCEPT ![h] = m]
  /\ answer' = [answer EXCEPT ![h] = 0]
  /\ UNCHANGED <<clock, useVars, localVars, registryVars, configVars, restarts, copies>>

MutCheckUnsigned(h) ==
  /\ pc[h] = "received"
  /\ IF Fresh(msg[h], clock)
       THEN /\ Goto(h, "checked")
            /\ at' = [at EXCEPT ![h] = clock]
            /\ UNCHANGED <<left, found, target, steady>>
       ELSE Reply(h, 401)
  /\ UNCHANGED <<clock, useVars, registryVars, configVars, restarts, copies>>

\* The timestamp check, then the signature.
Check(h) ==
  /\ pc[h] = "received"
  /\ IF Fresh(msg[h], clock) /\ msg[h].signed
       THEN /\ Goto(h, "checked")
            /\ at' = [at EXCEPT ![h] = clock]
            /\ UNCHANGED <<left, found, target, steady>>
       ELSE Reply(h, 401)
  /\ UNCHANGED <<clock, useVars, registryVars, configVars, restarts, copies>>

MutKeptOneSkew(now) == {m \in seen : m.ts + Skew > now}

\* SEEN without the entries older than 2 * SKEW.
Kept(now) == {m \in seen : m.ts + 2 * Skew >= now}

\* first_use: its own clock read comes before it waits for SEEN_LOCK, so `now`
\* may lie anywhere between the freshness check and the present.
FirstUse(h) ==
  /\ pc[h] = "checked"
  /\ \E now \in at[h]..clock :
       IF msg[h] \in Kept(now)
         THEN /\ seen' = Kept(now)
              /\ Reply(h, 401)
              /\ UNCHANGED claims
         ELSE /\ seen' = Kept(now) \cup {msg[h]}
              /\ claims' = claims \cup {msg[h]}
              /\ Goto(h, "claimed")
              /\ UNCHANGED localVars
  /\ UNCHANGED <<clock, registryVars, configVars, restarts, copies>>

\* The body must be JSON with a text.
Parse(h) ==
  /\ pc[h] = "claimed"
  /\ IF msg[h].text = Blank THEN Reply(h, 400) ELSE Goto(h, "parsed") /\ UNCHANGED localVars
  /\ UNCHANGED <<clock, useVars, registryVars, configVars, restarts, copies>>

\* load_config: a missing file has no envelope (503); a file caught half written
\* raises ValueError, which nothing catches, and the connection drops.
LoadEnvelope(h) ==
  /\ pc[h] = "parsed"
  /\ \/ config = "ok" /\ Goto(h, "list") /\ UNCHANGED localVars
     \/ config = "missing" /\ Reply(h, 503)
     \/ config = "torn" /\ Reply(h, 0)
  /\ UNCHANGED <<clock, useVars, registryVars, configVars, restarts, copies>>

-----------------------------------------------------------------------------
\* The latest registration of every process that has one.
Registered ==
  {[sid |-> lastReg[p].sid, proc |-> p, at |-> lastReg[p].at] : p \in {q \in Procs : lastReg[q].at > 0}}

\* live_sessions: glob first, then one file after another in name order.
Glob(h) ==
  /\ pc[h] = "list"
  /\ left' = [left EXCEPT ![h] = {s \in Sids : file[s].state # "absent"}]
  /\ steady' = [steady EXCEPT ![h] = {e \in Registered : proc[e.proc] = "live"}]
  /\ Goto(h, "scan")
  /\ UNCHANGED <<clock, useVars, at, found, target, registryVars, configVars, restarts, copies>>

MutSocketExists(p) == proc[p] \notin {"live", "killed"}

\* os.path.exists(sock): a process that was killed leaves its socket path behind.
SocketExists(p) == proc[p] \in {"live", "killed"}

\* What reading file s contributes: nothing when it does not parse or when the
\* socket it names is gone.
LiveEntries(s) ==
  IF file[s].state = "ok" /\ SocketExists(file[s].proc)
    THEN {[sid |-> s, proc |-> file[s].proc, at |-> file[s].at]}
    ELSE {}

ReadEntry(h) ==
  /\ pc[h] = "scan"
  /\ \E s \in left[h] :
       /\ \A t \in left[h] : s <= t
       /\ left' = [left EXCEPT ![h] = @ \ {s}]
       /\ found' = [found EXCEPT ![h] = @ \cup LiveEntries(s)]
  /\ UNCHANGED <<clock, useVars, pc, msg, answer, at, target, steady,
                 registryVars, configVars, restarts, copies>>

\* The "session" and "account" filters.  Session ids are whole here: a prefix
\* that fits two sessions is a message that names neither.
Matches(e, m) ==
  /\ m.session = AnySession \/ e.sid = m.session
  /\ m.account = AnyAccount \/ AccountOf[e.proc] = m.account

MutIsTarget(e, wanted) == \A f \in wanted : e.at <= f.at

\* found[0]: the latest registered_at among the entries that match.
IsTarget(e, wanted) == \A f \in wanted : e.at >= f.at

MutSelect(h) ==
  /\ pc[h] = "scan"
  /\ left[h] = {}
  /\ LET wanted == {e \in found[h] : Matches(e, msg[h])}
     IN  IF wanted = {}
           THEN /\ Goto(h, "list")
                /\ UNCHANGED localVars
           ELSE /\ \E e \in wanted : IsTarget(e, wanted) /\ target' = [target EXCEPT ![h] = e]
                /\ Goto(h, "connect")
                /\ UNCHANGED <<at, left, found, steady>>
  /\ UNCHANGED <<clock, useVars, registryVars, configVars, restarts, copies>>

Select(h) ==
  /\ pc[h] = "scan"
  /\ left[h] = {}
  /\ LET wanted == {e \in found[h] : Matches(e, msg[h])}
     IN  IF wanted = {}
           THEN Reply(h, 404)
           ELSE /\ \E e \in wanted : IsTarget(e, wanted) /\ target' = [target EXCEPT ![h] = e]
                /\ Goto(h, "connect")
                /\ UNCHANGED <<at, left, found, steady>>
  /\ UNCHANGED <<clock, useVars, registryVars, configVars, restarts, copies>>

-----------------------------------------------------------------------------
\* deliver: connect to the socket, which nobody serves if the process has ended.
Connect(h) ==
  /\ pc[h] = "connect"
  /\ IF proc[target[h].proc] = "live"
       THEN Goto(h, "connected") /\ UNCHANGED localVars
       ELSE Reply(h, 502)
  /\ UNCHANGED <<clock, useVars, registryVars, configVars, restarts, copies>>

\* sendall of the auth line and the message: all of it reaches a live session.
Write(h) ==
  /\ pc[h] = "connected"
  /\ proc[target[h].proc] = "live"
  /\ copies' = [copies EXCEPT ![msg[h]] = @ + 1]
  /\ Goto(h, "written")
  /\ UNCHANGED <<clock, useVars, localVars, registryVars, configVars, restarts>>

MutWriteFails(h) ==
  /\ pc[h] = "connected"
  /\ copies' = [copies EXCEPT ![msg[h]] = @ + 1]
  /\ Reply(h, 502)
  /\ UNCHANGED <<clock, useVars, registryVars, configVars, restarts>>

\* sendall fails: the session ended, or took no bytes for the whole timeout.  The
\* last line never arrived whole, so the session has no message.
WriteFails(h) ==
  /\ pc[h] = "connected"
  /\ Reply(h, 502)
  /\ UNCHANGED <<clock, useVars, registryVars, configVars, restarts, copies>>

MutFinishOnEof(h) ==
  /\ pc[h] = "written"
  /\ proc[target[h].proc] # "live"
  /\ Reply(h, 200)
  /\ UNCHANGED <<clock, useVars, registryVars, configVars, restarts, copies>>

MutFinishTimesOut(h) ==
  /\ pc[h] = "written"
  /\ Reply(h, IF proc[target[h].proc] = "live" THEN 502 ELSE 200)
  /\ UNCHANGED <<clock, useVars, registryVars, configVars, restarts, copies>>

\* The receive loop ends on end of file, on an error or on its timeout; all three
\* are a success.
Finish(h) ==
  /\ pc[h] = "written"
  /\ Reply(h, 200)
  /\ UNCHANGED <<clock, useVars, registryVars, configVars, restarts, copies>>

-----------------------------------------------------------------------------
\* A Claude Code process starts with its inbox socket open.
StartProcess(p) ==
  /\ proc[p] = "new"
  /\ proc' = [proc EXCEPT ![p] = "live"]
  /\ UNCHANGED <<clock, useVars, handlerVars, file, hook, current, regs, lastReg,
                 configVars, restarts, copies>>

\* The process ends: an exit takes its socket along, a kill leaves the path.  Its
\* registry file stays either way.
EndProcess(p) ==
  /\ proc[p] = "live"
  /\ \E end \in {"gone", "killed"} : proc' = [proc EXCEPT ![p] = end]
  /\ steady' = [h \in Handlers |-> {e \in steady[h] : e.proc # p}]
  /\ UNCHANGED <<clock, useVars, pc, msg, answer, at, left, found, target,
                 file, hook, current, regs, lastReg, configVars, restarts, copies>>

\* The SessionStart hook opens <sid>.json with O_TRUNC: until it writes, the file
\* is there and empty.  A session id belongs to one live process, and one hook at a
\* time writes a file.
HookOpen(p, s) ==
  /\ proc[p] = "live" /\ hook[p] = NoSid
  /\ \A q \in Procs : hook[q] # s
  /\ \A q \in Procs \ {p} : ~(proc[q] = "live" /\ current[q] = s)
  /\ regs < MaxRegs
  /\ current[p] = NoSid \/ Reregisters
  /\ hook' = [hook EXCEPT ![p] = s]
  /\ current' = [current EXCEPT ![p] = s]
  /\ file' = [file EXCEPT ![s] = Torn]
  /\ steady' = [h \in Handlers |-> {e \in steady[h] : e.sid # s}]
  /\ lastReg' = [q \in Procs |-> IF lastReg[q].sid = s THEN NoReg ELSE lastReg[q]]
  /\ UNCHANGED <<clock, useVars, pc, msg, answer, at, left, found, target,
                 proc, regs, configVars, restarts, copies>>

HookWrite(p) ==
  /\ hook[p] # NoSid
  /\ regs' = regs + 1
  /\ file' = [file EXCEPT ![hook[p]] = [state |-> "ok", proc |-> p, at |-> regs + 1]]
  /\ lastReg' = [lastReg EXCEPT ![p] = [sid |-> hook[p], at |-> regs + 1]]
  /\ hook' = [hook EXCEPT ![p] = NoSid]
  /\ UNCHANGED <<clock, useVars, handlerVars, proc, current, configVars, restarts, copies>>

\* The hook is killed between the two and leaves the empty file.
HookDies(p) ==
  /\ hook[p] # NoSid
  /\ hook' = [hook EXCEPT ![p] = NoSid]
  /\ UNCHANGED <<clock, useVars, handlerVars, file, proc, current, regs, lastReg,
                 configVars, restarts, copies>>

-----------------------------------------------------------------------------
\* probe.py and the installers rewrite config.json in place: open(CONFIG, "w"), then dump.
\* proxy/install.sh keeps the blocks it read: none, when it found the file torn, and so
\* no envelope (module ConfigFile has the file itself).
ConfigOpen ==
  /\ config # "torn" /\ rewrites < MaxRewrites
  /\ config' = "torn"
  /\ rewrites' = rewrites + 1
  /\ UNCHANGED <<clock, useVars, handlerVars, registryVars, restarts, copies>>

ConfigWrite ==
  /\ config = "torn"
  /\ config' \in {"ok", "missing"}
  /\ UNCHANGED <<clock, useVars, handlerVars, registryVars, rewrites, restarts, copies>>

\* The relay process dies and systemd starts it again: the handlers and SEEN go,
\* the registry stays.  copies and claims count one lifetime.
Restart ==
  /\ restarts < MaxRestarts
  /\ restarts' = restarts + 1
  /\ seen' = {}
  /\ claims' = {}
  /\ copies' = [m \in Messages |-> 0]
  /\ pc' = [h \in Handlers |-> "idle"]
  /\ msg' = [h \in Handlers |-> NoMessage]
  /\ answer' = [h \in Handlers |-> 0]
  /\ at' = [h \in Handlers |-> 0]
  /\ left' = [h \in Handlers |-> {}]
  /\ found' = [h \in Handlers |-> {}]
  /\ target' = [h \in Handlers |-> NoEntry]
  /\ steady' = [h \in Handlers |-> {}]
  /\ UNCHANGED <<clock, registryVars, configVars>>

\* Time passes, but no handler takes more than MaxLag from its freshness check to
\* first_use (bound: nothing but the read of the secret file lies between).
Tick ==
  /\ clock < MaxClock
  /\ \A h \in Handlers : pc[h] = "checked" => clock < at[h] + MaxLag
  /\ clock' = clock + 1
  /\ UNCHANGED <<useVars, handlerVars, registryVars, configVars, restarts, copies>>

Handle(h) ==
  \/ Check(h) \/ FirstUse(h) \/ Parse(h) \/ LoadEnvelope(h)
  \/ Glob(h) \/ ReadEntry(h) \/ Select(h)
  \/ Connect(h) \/ Write(h) \/ WriteFails(h) \/ Finish(h)

\* Processes and their hooks.
Sessions ==
  \/ \E p \in Procs : StartProcess(p) \/ EndProcess(p) \/ HookWrite(p) \/ HookDies(p)
  \/ \E p \in Procs, s \in Sids : HookOpen(p, s)

\* What goes on beside the requests.
Around == Sessions \/ ConfigOpen \/ ConfigWrite \/ Tick

Next ==
  \/ \E h \in Handlers, m \in Messages : Receive(h, m)
  \/ \E h \in Handlers : Handle(h)
  \/ Around
  \/ Restart

Spec == Init /\ [][Next]_vars

\* A handler thread keeps running, and its socket calls end within their timeout.
Fairness == \A h \in Handlers : WF_vars(Handle(h))

-----------------------------------------------------------------------------
Signed == {m \in Messages : m.signed}

\* Types; SEEN and whatever lies behind it hold only messages with a good signature.
TypeOK ==
  /\ clock \in Nat /\ regs \in Nat /\ rewrites \in Nat /\ restarts \in Nat
  /\ seen \subseteq Signed
  /\ claims \subseteq Signed
  /\ pc \in [Handlers -> Steps]
  /\ msg \in [Handlers -> Messages \cup {NoMessage}]
  /\ \A h \in Handlers : pc[h] \notin Idle => msg[h] \in Messages
  /\ \A h \in Handlers : pc[h] \in Claimed \cup {"checked"} => msg[h] \in Signed
  /\ at \in [Handlers -> Nat]
  /\ left \in [Handlers -> SUBSET Sids]
  /\ found \in [Handlers -> SUBSET Entry]
  /\ target \in [Handlers -> Entry \cup {NoEntry}]
  /\ answer \in [Handlers -> Answers]
  /\ file \in [Sids -> FileRec]
  /\ \A s \in Sids : file[s].state = "ok" => file[s].proc \in Procs
  /\ proc \in [Procs -> {"new", "live", "gone", "killed"}]
  /\ hook \in [Procs -> Sids \cup {NoSid}]
  /\ current \in [Procs -> Sids \cup {NoSid}]
  /\ config \in {"missing", "ok", "torn"}
  /\ copies \in [Messages -> Nat]
  /\ lastReg \in [Procs -> RegRec]
  /\ steady \in [Handlers -> SUBSET Entry]

\* README "Signed, fresh, once": in one lifetime of the relay a signature is let
\* through once, so signed bytes that arrive again, at a second handler at the same
\* time or much later, never reach an inbox twice (first_use).
AtMostOnce ==
  /\ \A m \in Messages : copies[m] <= 1
  /\ \A g, h \in Handlers : pc[g] \in Claimed /\ pc[h] \in Claimed /\ msg[g] = msg[h] => g = h

\* README "a timestamp more than 120s off": SEEN is lost with the process, so a message may be
\* taken again by the next one, but by no process, and however it was delayed, later than SKEW
\* after it was signed and the time from the check to first_use (do_POST, first_use).
OnlyFreshIsTaken == [][\A m \in claims' \ claims : clock <= m.ts + Skew + MaxLag]_vars

\* What the sender is told is what happened: 200 says its message lies in an inbox,
\* and every refusal says it does not, so that signing and sending the text anew after one
\* cannot put it there twice (do_POST, deliver).
AnswerIsTruth ==
  \A h \in Handlers :
    pc[h] = "done" /\ msg[h] \in claims =>
      /\ answer[h] = 200 => copies[msg[h]] = 1
      /\ answer[h] \in {0, 400, 404, 502, 503} => copies[msg[h]] = 0

\* The handler that holds a message first_use let through, until it takes another,
\* and whether it has written the message.
Owns(h) == pc[h] \in Claimed \/ (pc[h] = "done" /\ answer[h] # 401)
Sent(h) == pc[h] = "written" \/ (pc[h] = "done" /\ answer[h] = 200)

\* Why: a message leaves SEEN only when no handler that passed the freshness check
\* can still bring it to first_use.
SeenCoversClaims == \A m \in claims : m \in seen \/ clock > m.ts + 2 * Skew

CheckedIsFresh ==
  \A h \in Handlers :
    pc[h] = "checked" =>
      at[h] <= clock /\ clock <= at[h] + MaxLag /\ at[h] <= msg[h].ts + Skew

OwnersKnowCopies ==
  \A h \in Handlers :
    Owns(h) => msg[h] \in claims /\ copies[msg[h]] = (IF Sent(h) THEN 1 ELSE 0)

OneOwner == \A g, h \in Handlers : Owns(g) /\ Owns(h) /\ msg[g] = msg[h] => g = h

CopiesAreClaimed == \A m \in Messages : copies[m] <= 1 /\ (copies[m] > 0 => m \in claims)

\* The inductive strengthening of AtMostOnce and AnswerIsTruth.
OnceInv ==
  /\ SeenCoversClaims
  /\ CheckedIsFresh
  /\ OwnersKnowCopies
  /\ OneOwner
  /\ CopiesAreClaimed

\* A message goes to the newest registration it matches among the sessions that were
\* registered and live all the while the registry was read (live_sessions, found[0]), and
\* whose own registration was not being written again meanwhile: until the hook has
\* written, an opened file is empty, and the session is passed over.
NewestLiveWins ==
  \A h \in Handlers :
    pc[h] = "connect" => \A e \in steady[h] : Matches(e, msg[h]) => e.at <= target[h].at

\* "no live registered session" is only said when no session that matches was
\* registered, live and not registering again all the while the registry was read
\* (live_sessions, the 404).
NotFoundMeansNone ==
  [][\A h \in Handlers :
       pc[h] = "scan" /\ pc'[h] = "done" /\ answer'[h] = 404 =>
         \A e \in steady[h] : ~Matches(e, msg[h])]_vars

\* What is left to a request until it is answered: how many steps, and the files its listing
\* has still to read.
ToGo(step) ==
  CASE step \in Idle -> 0
    [] step = "written" -> 1 [] step = "connected" -> 2 [] step = "connect" -> 3
    [] step = "scan" -> 4 [] step = "list" -> 5 [] step = "parsed" -> 6
    [] step = "claimed" -> 7 [] step = "checked" -> 8 [] step = "received" -> 9

\* A request never comes back to a place it has left, and its listing to no file it has read,
\* whatever processes, hooks and other requests do to the registry meanwhile: a session that
\* registers again and again holds up no handler (do_POST, live_sessions).
HandlersGetOn ==
  [][\A h \in Handlers :
       pc[h] \notin Idle /\ <<pc'[h], at'[h], left'[h], found'[h], target'[h]>>
                            # <<pc[h], at[h], left[h], found[h], target[h]>>
         => \/ ToGo(pc'[h]) < ToGo(pc[h])
            \/ pc'[h] = pc[h] /\ left'[h] \subseteq left[h] /\ left'[h] # left[h]]_vars

\* Every request is answered, or lost with the relay process that held it.
EveryRequestEnds == \A h \in Handlers : pc[h] = "received" ~> pc[h] \in Idle
=============================================================================
