# TLA+ specifications of fleet-bridge

fleet-bridge joins the Claude Code sessions of several machines: a **relay** carries signed
messages between nodes into session inboxes, **route.py** and its launchers start each session
or agent run on one of the user's accounts, and a **quota proxy** moves running sessions between
those accounts. This directory holds models of that code, the TLC runs that check them on small
instances, and proofs that TLAPS checks for every instance.

Paths such as `relay/agent.py:49` are relative to the repository. `PROJECT.json` maps every
definition to the lines it stands for, names a bug for each property that the property catches
(the mutants, written beside the definition they change as `Mut...`), and lists the hazards that
the properties are for.

- [The system](#the-system)
- [Modules and the code](#modules-and-the-code)
- [Runs](#runs)
- [Fairness](#fairness)
- [Proofs](#proofs)
- [Where code and docs part](#where-code-and-docs-part)
- [Not modelled](#not-modelled)
- [Plan](#plan)

## The system

    peer --send.py--> hub sshd --tunnel--> relay agent --socketio--> session inbox
                                              |  reads
                     SessionStart hook --> registry, config.json <-- installers, probe, --failover
                                                        |  read
    user --> delegate-session / fleet-agent --> route.decide --> Caravan hub
                       |  starts                  |  CACHE, CACHE.tmp
                       v                          v
                 Claude Code ----requests----> quota-proxy ----> API
                                                  |  every 10 s
                                                  +--> Caravan hub <-- node status (Sampler)

The Caravan hub, the API, ssh and Claude Code itself are not in the repository; they appear as
the environment, as the code meets them.

| component | state | operations | hard because | right when |
|---|---|---|---|---|
| relay agent (`relay/agent.py`) | `SEEN`, and each handler's locals | `do_POST`, `first_use`, `live_sessions` | a thread per request; clock read twice; the registry changes while it is read; restarts | a signature is used once; the answer is the truth; the newest live session gets the message; every request ends |
| inbox protocol (`relay/socketio.py`) | none | `load_config`, `deliver` | config.json may be half written; the socket may be dead, or close, or say nothing | as above |
| registry (`relay/hooks/session-start.sh`) | `<sid>.json` files | open, write | truncated before it is written; nothing removes a file | a live session is found |
| sender (`relay/send.py`) | what it has heard | sign, post, `--local` | 15 s time limit against a slower relay; a tunnel that breaks | "ok" and "HTTP ..." are the truth, "send failed" is nothing known |
| envelope probe (`relay/probe.py`) | `config.json` | rewrite in place | no lock | other blocks stay |
| node status, Sampler (`relay/nodestatus.py`) | last sample of each account | `sample`, `run`, `status` | one thread, slow requests, errors, two copies further on | old limits keep their age; every account is asked for again |
| quota proxy, choice (`Ledger.choose`) | `sticky` | choose | readings near the line | no ping-pong |
| quota proxy, requests (`Handler.relay`, `Upstream`) | `sticky`, `in_force`, `Accounts.bad`, each request's locals | choose, swap, retry on 401 and 429, reconnect, stream | requests overlap; locks are short; two nested retry loops | used-up accounts and refused tokens are left alone; every request ends |
| quota proxy, ledger (`Ledger`) | hub sample, headers, windows in force | `note_headers`, `mark_in_force`, `worst`, hub refresh | three sources of one number, each with an age | the fresher source counts; nothing stale decides |
| token cache (`Accounts.token`, `route.token`) | `_cache` | stat, look up, read, store | file changes between the steps | a call gives what the file is worth |
| hub sync and telemetry (`HubSync`, `take_events`) | `events` | `once` every 10 s | hub away, time-outs, restarts | at most once, in order, backlog drains |
| routing (`route.decide`) | `CACHE`, `CACHE.tmp` | ask, read cache, write, rename | launchers share the temporary file; killed anywhere | a cached verdict was the hub's, and is young |
| launchers (`delegate-session.py`, `fleet-agent.py`, `route.apply`) | the child's environment | route, static rule, refuse, start | launches inside launches; config.json changes between two reads | the child runs on the chosen account |
| agent guard (`delegate/agent-guard.sh`) | none | allow or deny | reads what the launchers left | sessions already elsewhere are let through |
| config.json (three installers, probe, `--failover`) | `config.json`, `config.json.tmp` | read, change, write | no lock; in place or by rename; killed | other blocks stay |
| fleet-agent's run (`delegate/fleet-agent.py`) | the child and its pipes, `delegate.log` | start, two waits, SIGTERM to the group, log | the end and the limit at once; processes that keep the pipes | "ok" is a run done in time; the run ends |
| fleet-status (`tools/fleet-status.py`) | `status.state` | read, ask systemd, write in place, print | passes overlap and die | no restart is lost |
| live-session (`relay/live-session.py`) | its view of the screen | read, press Enter, stop, `/exit` | text comes in pieces, with other text between; keys are lost or late | prompts are passed, pickers are left alone |
| hub tunnel (`relay/hub-ssh.sh`, units, `hub/`) | the port on the hub | connect, give up, reap | a vanished session holds its port; the node sleeps | the tunnel comes back |
| ownership guard (`workspace/bin/ownership-guard.sh`) | none | match a path against rules | — | — |

## Modules and the code

| module | code | what its state and steps are |
|---|---|---|
| `Relay` | `agent.py`, `socketio.py`, `session-start.sh`, `probe.py` | One `pc` per handler thread of `do_POST`; a step ends where another thread, process or the clock can come between: at a lock, a file read, a socket call. `seen` is `SEEN`, a message stands for its signature. The registry is one file per session id, `absent`, `torn` or `ok`, read one file per step (`Glob`, `ReadEntry`, `Select`). Processes, their hooks, restarts by systemd and the clock are actions of their own. |
| `Headroom` | `Ledger.choose`, `rank` | The rule without its locks, as operators on a function from accounts to percents. |
| `Decisions` | `Ledger.choose` | The choices of one session one after another, while the readings change in any way. |
| `QuotaProxy` | `Handler.relay`, `_stream`, `Ledger.choose`, `Upstream.request`, `Accounts.refuse`, `HubSync`, `main --off` | Requests as threads. `choose` goes lock by lock: `Start` reads `sticky`, `Weigh` reads one account's percent at a time, `Settle` decides and writes `sticky`. Then `Send`; a refusal relay acts on (`TokenRefused`, `QuotaRefused`) or the session's answer (`Answered`), `Dies` for a broken connection, `Stream`. Whatever the status of an answer, its headers may put a window in force, as in `note_headers`. An account has one worst percent here; what it is made of is in `ProxyLedger`. |
| `ProxyLedger` | `Ledger.note_headers`, `mark_in_force`, `worst`, `HubSync.once` | One account's windows, with times. Every method runs under the lock and is one step; the clock read before the lock is its parameter `now`. |
| `TokenFile` | `Accounts.token`, `route.token` | `os.stat`, cache look-up, mode, content and store as five steps of each thread, against an operator who rewrites, removes or chmods the file. A history keeps what the file gave during each call. |
| `Exchange` | | The abstract specification of the proxy: what a session and an upstream may rely on, without `sticky`, percents, locks or sockets. `Spec => Exchange!Spec` under the mapping at the end of `QuotaProxy`. |
| `Telemetry` | `HubSync.run`, `once`, `take_events`, `note_headers` | The queue, the batch in flight and what the hub has; the three calls of a round are three steps. |
| `RouteCache` | `route.decide`, `_cache_read`, `_cache_write` | Files are inodes with names on top, so that two writers of one `CACHE.tmp`, `O_TRUNC` under an open writer and a rename of another's file come out as they do. |
| `ConfigFile` | `relay/install.sh`, `proxy/install.sh`, `delegate/install.sh`, `probe.py`, `delegate-session --failover` | The same for `config.json`: each writer reads, opens, writes and perhaps renames, and is killed anywhere. A block holds the number of the rewrite that gave it; one of the blocks is the `accounts` of `relay/install.sh --usage`. |
| `Launch` | `delegate-session.py`, `fleet-agent.py`, `route.apply`, `route.proxy_env`, `agent-guard.sh`, the first lines of the SessionStart hook | Extends `ConfigFile`. An environment is a record of the variables that pick an account; a launch reads config.json, takes any verdict of routing, may read config.json again, and becomes the next process of a chain. |
| `Sender` | `send.py` | Extends `Relay` with what the sender of each request has heard: `Post`, the handler's answer if the sender still listens, `GiveUp` at its 15 s or when the tunnel breaks. |
| `Courier` | | The abstract specification: what a sender may rely on, without clocks, windows, a registry or sockets. `SenderSpec => Courier!Spec` under the mapping at the end of `Sender`. |
| `Sampler` | `nodestatus.py` `Sampler`, `quota-proxy.py` `HubSync.once` | The `for` loop over accounts as one program counter; the request and the record of its answer are two steps. One account's record is followed over the node, the hub's copy and the proxy's ledger, with the age it claims (`as_of`) and, for the properties, the age it has. |
| `AgentRun` | `fleet-agent.py` `main` | After `Launch`: the child, a process of its group and one out of SIGTERM's reach that hold the pipes, the two `communicate` calls, the line in the log. |
| `FleetStatus` | `fleet-status.py` `units`, `unit_show`, `main` | Passes as processes: read `status.state`, ask systemd (which may not know the unit: the counter is then 0), truncate, write, print. |
| `LiveSession` | `live-session.py` `main` | One step per turn of the loop; Claude Code's screens are drawn text by text, with other output between (`Chatter`), and its keys handled one at a time. `Read` keeps any part of the texts there are: `ANSI.sub` sees one read at a time, and `recent` is cut to 4000 bytes. A tick is 1.5 s. |
| `HubTunnel` | `hub-ssh.sh`, its unit, `hub/sshd-client-alive.conf` | ssh at one endpoint after another, the port's holder on the hub, and keepalives that either end misses. The node may sleep, and then runs and answers nothing. A tick is 15 s (`ServerAliveInterval`, `ClientAliveInterval`); `RestartSec` and `ConnectTimeout` lie within one. |
| `*Proofs` | | Theorems about the module or modules they extend; see [Proofs](#proofs). |
| `MC*` | | Sets and symmetry for TLC. `MCSender` has the relay's replay instance, `MCRelay` its delivery instance, and `MCNode` runs the six small programs that share no state, one to a behaviour. |

How they compose: `Sender` is `send.py` and `Relay` together, down to the inbox socket; `Launch`
is the launchers over `ConfigFile`'s files; `Decisions` and `QuotaProxy` share the rule of
`Headroom`; `Sampler` reaches from the usage API through the hub into the proxy, where `ProxyLedger`
takes over. `Relay` has its own, coarser config.json (readable, torn, without the `envelope` block after
`proxy/install.sh` rewrote a torn one): what its readers can meet of a rewrite is all it needs.

Data is left out as far as no property tells it apart: message texts, JSON layout, header
names, logging, prompts. Session ids are whole rather than prefixes (one that fits two sessions
is a message that names neither), HMAC is taken as injective, and `json.load` of a file with a
mix of two writes as an error. A write of one JSON text is one step; the code's are far below a
pipe or page limit and made by one `write` at close.

History variables are marked as such: what has held since a request arrived, what was asked of
a block, how often a message reached an inbox. No guard reads them.

## Runs

Each passing run completes in well under five minutes.

| run | question | instance, and why it is enough |
|---|---|---|
| `relay_replay` | Can a signature be let through twice, or late, or an answer be false, and does `send.py` hear the truth? (`AtMostOnce`, `OnlyFreshIsTaken`, `AnswerIsTruth`, `DeliversOnce`) | `MCSender`: two handlers and their senders, three messages (two signed at different times, one with a bad signature), `Skew` 1, one restart, one rewrite of config.json. `MaxClock` is 4, more than `2*Skew + MaxLag`, so messages are pruned from `SEEN` and posted again after. `DeliversOnce` is the refinement `Courier!Spec`. |
| `relay_delivery` | Does the newest live session get the message, is a 404 true, and does a request get on whatever the sessions do? (`NewestLiveWins`, `NotFoundMeansNone`, `HandlersGetOn`, `EveryRequestEnds`) | One handler, two processes with two ids and three registrations: exits, kills, re-registration and an id taken over all fall inside one listing. Readers do not affect each other, so one handler is enough. `DeliverySpec` has requests and sessions only: restarts, rewrites and the clock are in `relay_replay`, and touch no registry file. |
| `decisions` | Does the hysteresis work? (`LeavingNeedsRise`) | Three accounts, percents on and around both lines (85, 86, 89, 90); no other bound. |
| `proxy_requests` | What may overlapping requests do to each other? (`UsedUpIsAvoided`, `SetAsideStaysAside`, `RetryIsElsewhere`, `GetsOn`, `ServesAsPromised`, `EveryRequestEnds`) | Two requests of one session, two accounts, one outside change at any moment. One percent is over the line; an account with no reading counts as 50 and stands for one under it. Any answer may bring a reading, and reject a window. Each property needs a pair: a request and what another one or the outside did to it. `ServesAsPromised` is the refinement `Exchange!Spec`. |
| `proxy_401`, `proxy_body` | Two sentences of the docs. Violated, see below. | One slot, three requests. |
| `ledger` | Which reading decides? (`HeadersCount`, `NothingStaleDecides`, `InForceIsFull`) | One header window and one per-model window, samples with and without each, `Stale` 2 and a clock to 5: everything becomes fresh, stale, soon to reset and reset. Percents are 20, 95 and 105, since nothing clamps a utilization above 1. |
| `token_replace` | Does a call give what the file gave during it? (`TokenIsCurrent`) | Two threads, two tokens, three changes: one before, one during and one after a call that another one overlaps. |
| `route_cache` | What do launchers do to each other's cache? (`FallbackIsHonest`, `LastAnswerStands`) | Two launchers, two keys, four decisions, three inodes (the cache, the temporary file and one that is still open), two ticks with `CacheFor` 1. |
| `launch` | Whose account does a process get? (`RoutedRunsThere`, `FailoverHolds`, `ElsewhereIsMarked`, `AgentsStayApart`, `BlocksAreKept`) | Three accounts: the machine's own, one with a login folder, one with a token that is the delegate's too. Launches three deep: a session between two agent runs needs three. Two writers and two rewrites at any moment of a launch, which is what it takes for one to undo another; with a third one the run no longer ends in five minutes at this depth. |
| `node_programs` | Six programs with a run in common because each is small; `program` says which one a behaviour runs. | See the next table. |
| `live_picker` | A sentence of live-session's docstring. Violated, see below. | As `node_programs`, with the login picker for a first screen. |

| program in `node_programs` | question | bounds |
|---|---|---|
| telemetry | Is it in order, each event at most once, none lost where the queue is cut, and does a backlog drain? (`InOrder`, `BacklogReachesHub`) | Four events in batches of two, two outages, a restart: a batch that fails, one that times out, and one that follows. |
| sampler | Is a sample as old as it says, does a failure or a restart cost any, and is every account asked for? (`AgeIsHonest`, `NewestStays`, `AccountsAreSampled`) | An account of each kind of source; ages up to 2, a request of up to 1 tick, one restart of the relay or the proxy. Longer histories repeat these: a record forgets everything but its two ages. |
| fleet-agent | Is "ok" done in time, and does a run end? (`OkMeansDone`, `RunsEnd`) | A limit of two ticks, so that things happen before, at and after it. |
| fleet-status | Does a restart between passes get told? (`NoRestartIsLost`) | Two processes, four passes, three restarts and one start by hand: a pass that dies, one that puts back an older counter and one that sees it. |
| live-session | Are prompts passed and pickers left alone? (`PickersAreLeft`, `PromptsArePassed`) | Four scripts of screens, any split of their texts and any loss of a text in a read, other output at any time, up to three Enters of the code's eight: a first one, one that is lost and one more. |
| hub-ssh | Does the hub leave the port to a tunnel that is up, and does the tunnel come back? (`UpKeepsThePort`, `TunnelComesBack`) | Two endpoints and three changes of the network or suspensions of the node: a session vanishes, its address changes, another endpoint takes over; the node sleeps past the hub's patience and wakes. |

Bounds stand in guards under a constant of their own: `MaxClock`, `MaxRegs`, `MaxRestarts`,
`MaxRewrites`, `MaxChanges`, `MaxRequests`, `MaxEvents`, `MaxOutages`, `MaxDecisions`,
`MaxWrites`, `MaxDepth`, `MaxDowns`, `MaxFlaps`, `MaxStarts`, `MaxPasses`, `MaxNetChanges`, and `MaxPercent` on what a header can say; `Old` is
the age from which ages are not told apart. `MaxEnters`, `Limit`, `Minutes`, `Skew`, `Stale` and
`Fallbacks` stand for numbers of the code or its configuration. These say something about the world:

- `MaxLag` (`Relay`): between its two clock reads a handler only reads the secret and computes an
  HMAC, taken as at most one `SKEW`. `AtMostOnce` and `OnlyFreshIsTaken` need it.
- `MaxLate` (`ProxyLedger`): the wait on the ledger's lock.
- `MaxAsk` (`Sampler`): the time from the API's reading to its record; `AgeIsHonest` allows for it.
- `Quick` (`LiveSession`): Claude Code is done with a key, and has drawn what follows, within
  1.5 s. Without it a second Enter can come upon a picker, so `PickersAreLeft` is conditional on it.

Deadlock is checked except in `QuotaProxy`, `RouteCache` and `MCNode`, where requests, decisions,
passes or a run come to their end.

Symmetry is used for handlers, writers, threads, keys, inodes and tokens, in runs without
liveness only.

## Fairness

- `Relay`: `WF(Handle(h))`. A thread of `ThreadingHTTPServer` goes on until it has answered;
  `deliver` gives connect, send and each receive a time limit. That a session does not keep
  writing to its own inbox connection is assumed: the receive loop has no limit over all.
  Nothing is assumed of processes, hooks, restarts or who posts. `Sender` states no fairness: what
  it implements is a safety specification.
- `QuotaProxy`: `WF(Relay(r))`. Every call upstream ends within `UPSTREAM_TIMEOUT`. Nothing is
  assumed of the environment.
- `Telemetry`: `WF(Round)`. `HubSync.run` catches whatever a round raises and its waits end.
  That the hub is up is a hypothesis of `BacklogReachesHub`, and so is that the proxy is not
  restarted: both lose events, by design of the code.
- `Sampler`: `WF(Loop)`, since each request has a time limit and `run` catches what `sample` raises;
  `WF(ComeDue(a))`, since time passes.
- `AgentRun`: `WF` of time, of fleet-agent's own steps, and of the end of a process that SIGTERM was
  sent to (`"child" \in termed`, `"kin" \in termed`). That no process out of SIGTERM's reach keeps
  the pipes is a hypothesis of `RunEnds`; the code has no limit there.
- `LiveSession`: `WF` of the loop and of Claude Code drawing, reading its input and handling a key;
  `SF` of the tick, which a redraw that is yet to be read disables for a moment again and again.
  Nothing is assumed of what else is drawn, or of how a text is split: `PassesPrompts` leaves out
  a prompt that is `Overlooked` again and again, one that is read while main knows of no reason to
  press Enter.
- `HubTunnel`: `WF(HubSsh)`, ssh with its time limits under systemd's `Restart=always`;
  `WF(Reaps)`, the hub's sshd; `WF(TunnelTick)`. Nothing is assumed of the network or
  of when the node sleeps and wakes: that the one settles with an endpoint open, and none where a
  login hangs, and that the other stays awake, is `TunnelReturns`'s hypothesis.

## Proofs

Every invariant and every action property of a passing run is proved, for every value of the
constants under the named assumptions of the modules, and so are both refinements. Most assumptions
say that bounds are naturals and that "no such thing" values are not things (`SidAssumption`,
`NameAssumption`, `FileAssumption`, `TimeAssumption`, ...). These say more: `SkewAssumption` has
`MaxLag <= Skew`, `LineAssumption` has `hysteresis <= switch_at`, and `FullAssumption` has
that 100% is over the one line and not under the other, all of which the defaults satisfy and the
code does not check; `AgeAssumption` has `MaxAsk <= Old`, a request within the ages told apart;
`TimeAssumption` has `MaxPercent >= 100`, so that the bound admits a window that is full.

The type invariants are proved and no run repeats them but `Relay`'s, which also says that only
messages with a good signature are let through.

**`RelayProofs`** — `TypeCorrect`; `Once` (`AtMostOnce`), `Truth` (`AnswerIsTruth`), `Window`
(`OnlyFreshIsTaken`); `Newest` (`NewestLiveWins`), `NotFound` (`NotFoundMeansNone`);
`RequestsGoOn` (`HandlersGetOn`): each step of a handler has less to go (`ToGo`) or one file fewer to read,
which is why requests end where `Sids` is finite and threads run.
`AtMostOnce` is not inductive: it says nothing of a message that `SEEN` has forgotten.
`OnceInv` adds why that is safe. `SeenCoversClaims`: a claimed message is in `SEEN` or older than
`2*SKEW`. `CheckedIsFresh`: a handler past the check looked at its clock at most `MaxLag` ago, and
the message was fresh then. Together (`ForgottenIsStale`) a message that has been forgotten cannot
be with a handler that is about to bring it to `first_use`. `OneOwner` and `OwnersKnowCopies` tie
each claim to one handler, and that handler's place in `do_POST` to the number of copies. The
listing has an invariant of its own, `ListingInv`: what a registry file says was registered
(`FilesSayRegistered`), a session id has at most one hook at work on it (`OneHook`), and a session
that has been there since the listing began has been read, or its file is still to be read
(`SteadyIsSeen`).

**`SenderProofs`** — `Implements` (`DeliversOnce`): the initial states of `Sender` are `Courier`'s,
and each step is one of `Courier` or a stutter. `Take` maps to `first_use`, `Put` to the write to
the inbox; only `Take` needs more than types, namely from `OnceInv` that a message is not taken twice.
`SenderIsRelay`: `SenderSpec => Spec`, since each step of `Sender` is a step of `Relay` or leaves it
alone. With it `SentOnce` carries `AtMostOnce`, `AnswerIsTruth` and `OnlyFreshIsTaken`, which are about
`Relay`'s behaviours, over to those with `send.py` at the other end. It is about the bytes that one run
of `send.py` signed: another run signs anew, so a text sent again after "send failed" is another message.

**`QuotaProxyProofs`** — `TypeCorrect`, `Avoided`, `Aside`, `RetriedApart`, `EachGetsOn`,
`ImplementsExchange`. `RequestInv` says of each
request that its attempts and what it avoids agree (`Counted`, `Elsewhere`), that what it has weighed
is what the history since it came allows (`Weighed`), and that the history is no better than the
world is now (`UpToDate`). Histories only ever break off, so other requests and the environment
keep it (`BreakingOff`). `EachGetsOn` (`GetsOn`) gives the reason why a request ends, which liveness under
fairness cannot be proved to do here: `Left`, at most 13, falls with every step of a request
through the two nested retry loops, or stays while `Weigh` has one account fewer to ask for. `ImplementsExchange` (`ServesAsPromised`) has one lemma to a step. It
needs of `RequestInv` (`Elsewhere`) that a first attempt avoids nothing and has spent what it was sent with,
that what a second one avoids is what was spent, and that one which avoids nothing goes with the
request's own credential: so what `Exchange` calls "used up" and "denied" can be read off a request's own locals.

**`DecisionsProofs`** — `TypeCorrect`; `NoPingPong` (`LeavingNeedsRise`) uses `EnteredLow`: the rank
at which the rule moved a session lay a hysteresis below the line.

**`AccountProofs`** — of an account's token, `Current` (`TokenIsCurrent`): the property is that
a call takes effect at one moment of its own. `CurrentInv` rests on mtimes that do not come back
(`NoMtimeAhead`). What was read or cached under the file's mtime is what the file gives
(`CacheIsGood`, `ModeIsGood`, `ResultIsGood`). What was read or cached under one that is gone is with calls that
had found that mtime before it went, and it is in the history of each of them: a thread
that stores an old token late hands it to none that began after the file was replaced. Of its
ledger entry, `LedgerTypes`, `HeadersDecide` (`HeadersCount`), `NoneStale` (`NothingStaleDecides`) and
`FullWhileInForce` (`InForceIsFull`, which is what `QuotaProxy` takes from the ledger): they follow from the
types, with a lemma that the greatest of a finite set of percents exists and is at least each.

**`RouteCacheProofs`** — `TypeCorrect`; `Honest` (`FallbackIsHonest`): `HonestInv` says that every
readable file, and every writer's memory, holds only answers the hub gave for that key. Truncating,
mixing, renaming another's file and dying can lose entries but not make one, so it is inductive.
`Latest` (`LastAnswerStands`): `LatestInv` says that what was last cached without an overlap is in the
file that CACHE names and no writer has that file open, and that a writer nobody has overlapped
(`LoneWriter`) is about to put all of it back.

**`LaunchProofs`** — `TypeCorrect`; `Kept` (`BlocksAreKept`), from `ConfigInv`: while rewrites do not
overlap, and none in place is killed between truncating and writing, there is one writer (`Lone`), what it holds is what was asked for (`HoldsAsked`), and the file
it writes is its own (`OwnFile`). `Routed`, `Failover`, `Unhindered` and `Apart` follow from
`LaunchInv`, for launches of any depth: an agent run has none inside it (`NotNested`), a launch that holds
a config.json read while failover was on all along still sees it on (`HeldIsSure`), and `CarriesMarker`
is what the guard goes by.

**`NodeProofs`** — one argument to a program. `EventsStayInOrder` (`InOrder`), from `OrderInv`: the
hub's events precede the batch's, and those the queue's; batch and queue are the latest events with
none left out (`Latest`). `SampleTypes`, `AgesAreHonest` (`AgeIsHonest`) and
`NewestSampleStays` (`NewestStays`), from `NewestInv`: each place is behind the one it copies. `OkIsDone`
(`OkMeansDone`), from `AgentInv`. `RestartsAreTold` (`NoRestartIsLost`), from `StatusInv`: whatever a
counter somebody holds has taken in was told, or will be by the pass that read it. `NoEnterAtPickers`
(`PickersAreLeft`), from `LiveInv`: at most one Enter is on its way (`KeysInv`), and when a picker is
shown its heading has been read, or is not drawn and the last Enter too recent, or was drawn and lost
by `recent` (`PickerInv`, `hidden`). `PortIsKept`
(`UpKeepsThePort`), from `TunnelInv`: while
ssh is up the hub holds its port for this very session, and both ends count the same silence
(`BothCount`), of which ssh has enough first; unless the node has slept since (`slept`), when the
hub alone went on counting.

TLC checks each of these properties on a run's instance, TLAPS for every instance. Only liveness is
left to TLC: `EveryRequestEnds` of `Relay` and of `QuotaProxy`, `BacklogReachesHub`,
`AccountsAreSampled`, `RunsEnd`, `PromptsArePassed` and `TunnelComesBack`. Liveness under fairness and
`ENABLED` are out of the prover's reach here, and so would be what a recursive definition computes
for every input; there is none.

## Where code and docs part

Checked, as runs that find the property violated:

- `live_picker`: live-session stops at the login picker, and then types `/exit` and Enter into the
  same terminal, with the picker still on the screen (`live-session.py:137`). Its docstring says
  that the two pickers "are never answered, because Enter would do the wrong thing"; docs/setup.md:112
  says what Enter does at the login picker.
- `proxy_401`: only the first attempt's 401 is handled. After a quota 429, a 401 to the second
  account's token is streamed to the session and the token is not set aside
  (`quota-proxy.py:475`; docs/proxy.md:31).
- `proxy_body`: the body of a quota 429 is read before `choose` is asked for another account.
  When there is none the answer is streamed with its `Content-Length` and no body
  (`quota-proxy.py:489`, 511).

Met while modelling. The models do what the code does, and the properties say where they leave it out.

Relay and sender:

- A process that has gone on to another session id (`/clear`, resume) still has the older registry
  file, with a socket that exists. A message with `--session <older>` is put into the newer session
  and answered 200 (`agent.py:73`; README.md:45).
- A session that registers again is hidden while its file is truncated; a message then goes to
  an older session or gets a 404. `NewestLiveWins` leaves such an entry out.
- After a restart `SEEN` is empty: a message inside its window may be taken a second time, and no
  later. `AtMostOnce` is of one lifetime, `OnlyFreshIsTaken` of all.
- "send failed" after 15 s may be a message that is in the inbox, or will be: `Courier` has
  `unknown` for it.
- Two `send.py` runs with the same text in the same second have the same signature, and the second
  is refused with 401 as a replay.
- A config.json that is half written makes `load_config` raise `ValueError`, which neither `do_POST`
  nor `send.py --local` expects.
- One account in config.json whose `every` is not a number ends the sampler's thread: `int()` lies
  outside the `try` (`nodestatus.py:374`). The model takes `every` to be one.

Quota proxy:

- A slow request writes back a `sticky` account another request has just left. Costs a request.
- Of two answers on one account the older may be noted last: `now` is read before the lock
  (`quota-proxy.py:208`), and a reading has no other order. The next answer puts it right.
  `HeadersCount` and `NothingStaleDecides` are about the one noted last.
- With every account over the line a request goes upstream on the account it is on;
  quota-proxy.py:20-21 says that it passes through on the session's own login.
- A fresh hub sample hides a header of a window that it does not name (`worst` walks the
  sample's limits), which the older shape of the usage API is bound to. `HeadersCount` is conditional on it.
- `chmod` leaves the mtime as it is, so the token cache keeps the token or the refusal.
- A utilization above 1 is kept as it is, while a limit that the hub marks active counts as 100: an
  account whose header said 105 can drop to 100 in `worst`. `HeadersCount` allows for it.
- A batch of telemetry is gone when its post fails; one whose post timed out may have arrived. The hub
  may also take it up after the next batch, which `Telemetry` leaves out: `InOrder` is about posts
  that the hub takes while they last.

Launchers and config.json:

- Two launchers that write the route cache at once lose each other's entry, or leave a mix that
  is read as nothing. `LastAnswerStands` is about writers one after another.
- While config.json is being rewritten in place a launcher reads it as no configuration: a
  session starts on the machine's own login though failover is on. `FailoverHolds` is about
  launches during which the file was whole. Two rewrites that overlap lose a block, and one
  killed in between can lose all of them. `BlocksAreKept` says what is left.
- `FLEET_DELEGATE_SESSION` is set but never cleared: a session routed back to the machine's own
  login from inside a marked one passes the guard. `FLEET_ACCOUNT` and the proxy's
  `X-Fleet-Account` likewise stay as inherited on the static path of either launcher.
- A nested launch keeps `ANTHROPIC_BASE_URL` when the proxy it names has gone down since.
- A fleet-agent that is killed leaves its child running, and no line in the log; a process out of its
  group that holds the pipes keeps it for good, past `--minutes`.

Around the node:

- fleet-status compares with `restarts > before`: a start by hand sets the counter back and hides
  the restarts up to the old number; a pass that cannot reach a unit forgets its counter
  (`now` has no key for it), and one that finds the unit gone, or without a number, writes 0
  (`fleet-status.py:62`, 76), after which all of its restarts are told again; `status.state` is written before the lines are printed, so a pass
  that dies between the two has told nobody. `NoRestartIsLost` counts these as restarts none could tell.
- It looks for failed delegate runs of the last hour by their start, so that one that failed after
  more than an hour is never among them.
- live-session's `READY` is any session that registered since it started. Any output after
  an Enter that was lost, also one without a prompt (a question about the terminal, a spinner), ends the
  retry (`live-session.py:110`): the comment at 122-123, that an unchanged screen gets Enter again, holds
  of a screen on which nothing is drawn. Claude Code that is slower than 1.5 s
  gets a second Enter, which the next screen then has.
- live-session takes escapes out of each read by itself and keeps 4000 bytes (`live-session.py:109`).
  A heading with an escape in it that two reads share, or with 4000 bytes after it, does not match, and
  when "Enter to confirm" does, Enter is pressed on the picker. `PickersAreLeft` leaves such a heading out.
- A node that slept for longer than a minute counts on a port that the hub has taken back, until
  the hub tells it so or three keepalives are missed. `UpKeepsThePort` leaves it out.
- hub-ssh takes any ssh of 30 s or more for one that was connected (`hub-ssh.sh:10-11`). An
  endpoint at which the login hangs and then fails is such a one: hub-ssh starts again with the
  preferred endpoint and never comes to the next. `TunnelReturns` is about endpoints that do not hang.

## Not modelled

- `GET /v1/health` and `/v1/status`, `send.py --local` and `--peers`, the reading and formatting of
  units, power, load and host in `nodestatus.py`, the other checks of `fleet-status.py`, logging:
  they ask once, change nothing and keep nothing.
- `probe.py` besides its rewrite of config.json: it prompts and sends.
- The ownership guard: a match of one path against a list of rules, without state.
- Who may log in to the hub and forward which port: ssh's configuration, not behaviour of this code.
- What an installer does besides config.json: copying files, making keys, enabling units.
- Bodies that are not JSON, too large or of unknown length: they end before or where a modelled refusal does.
- That a session does not keep its inbox connection busy for ever (`socketio.py:89`): the code has
  no limit there, and the fairness of `Relay` assumes it.

## Plan

Done, in this order: `Relay` with its proofs; `Headroom`, `Decisions`, `QuotaProxy`,
`ProxyLedger`; `TokenFile`; `RouteCache`; `Telemetry`; `ConfigFile` and `Launch`; `Courier` and
`Sender` with the refinement; `Sampler`, `AgentRun`, `FleetStatus`, `LiveSession`, `HubTunnel`; the
proofs of all invariants and action properties; `Exchange` and the proof that `QuotaProxy` implements it.

Left, in order of what it would add:

1. `ProxyLedger` and `QuotaProxy` in one instance, with two windows to an account, so that
   `UsedUpIsAvoided` speaks of windows rather than of a worst percent; and `Sampler` with them, for the
   age of a reading from the usage API to the choice.
2. Abstract specifications of the smaller parts: `Telemetry` as a queue that loses, `RouteCache` as a
   register per key.
3. `HubTunnel` under `Sender`: that a message posted again reaches a session once the tunnel is back.
4. The rest of `nodestatus.py` and `fleet-status.py`, should they come to keep state.
