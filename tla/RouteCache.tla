----------------------------- MODULE RouteCache -----------------------------
(***************************************************************************)
(* Which account a new session starts on (delegate/route.py, decide): the  *)
(* hub's answer, or a cached one while the hub is away.  Every launcher on *)
(* the node runs decide in a process of its own, and they share one cache  *)
(* file, written as CACHE.tmp and renamed.  Two writers open the same      *)
(* CACHE.tmp, so files are inodes here, with the names on top.             *)
(***************************************************************************)
EXTENDS Naturals

CONSTANTS
  Procs,        \* launchers that decide at the same time
  Keys,         \* "kind:model"
  Labels,       \* the accounts of config.json
  Nobody,       \* the hub's answer when every account is over the line
  Inodes,
  Empty, Torn,  \* a file with nothing in it yet, and one with a mix of two writes
  NoKey, NoFile, NoEntry, NoVerdict,
  CacheFor,     \* CACHE_FOR, in clock ticks
  MaxClock,     \* bound
  MaxDecisions  \* bound on decisions

ASSUME TimeAssumption == CacheFor \in Nat /\ MaxClock \in Nat /\ MaxDecisions \in Nat

ASSUME NameAssumption ==
  /\ NoFile \notin Inodes /\ NoKey \notin Keys
  /\ \A l \in Labels \cup {Nobody} : [source |-> "hub", label |-> l] # NoVerdict

VARIABLES
  clock,
  inode,     \* what each file holds: entries, nothing yet, or a mix of two writes
  cache,     \* the inode that CACHE names
  tmp,       \* the inode that CACHE.tmp names
  pc, key,
  now,       \* when each decision began
  fd,        \* the inode each writer has open
  hold,      \* the entries it is about to write
  verdict,   \* what decide returned
  decisions,
  answered,  \* history: every answer of the hub
  latest,    \* history: for each key, the latest entry that was renamed into place since
             \* two writers last overlapped
  lone       \* history: the writers no other writer has overlapped since they read the cache

fileVars == <<inode, cache, tmp>>
procVars == <<pc, key, now, fd, hold, verdict>>
historyVars == <<answered, latest, lone>>
vars == <<clock, fileVars, procVars, decisions, historyVars>>

Entry   == [label : Labels \cup {Nobody}, ts : Nat]
Entries == [Keys -> Entry \cup {NoEntry}]
NoEntries == [k \in Keys |-> NoEntry]

\* A file with nothing in it, or a mix of two writes, does not read as entries.
ASSUME FileAssumption == Empty \notin Entries /\ Torn \notin Entries /\ NoEntry \notin Entry

\* json.load: a file that is missing, empty or torn counts as no entries.
Parsed(ino) ==
  IF ino = NoFile \/ inode[ino] \in {Empty, Torn} THEN NoEntries ELSE inode[ino]

Init ==
  /\ clock = 0
  /\ inode = [i \in Inodes |-> Empty]
  /\ cache = NoFile
  /\ tmp = NoFile
  /\ pc = [p \in Procs |-> "idle"]
  /\ key = [p \in Procs |-> NoKey]
  /\ now = [p \in Procs |-> 0]
  /\ fd = [p \in Procs |-> NoFile]
  /\ hold = [p \in Procs |-> NoEntries]
  /\ verdict = [p \in Procs |-> NoVerdict]
  /\ decisions = 0
  /\ answered = {}
  /\ latest = NoEntries
  /\ lone = {}

\* The decision is over: its locals go.
Leave(p) ==
  /\ pc' = [pc EXCEPT ![p] = "idle"]
  /\ fd' = [fd EXCEPT ![p] = NoFile]
  /\ hold' = [hold EXCEPT ![p] = NoEntries]
  /\ lone' = lone \ {p}

Begin(p, k) ==
  /\ pc[p] = "idle"
  /\ decisions < MaxDecisions
  /\ decisions' = decisions + 1
  /\ pc' = [pc EXCEPT ![p] = "ask"]
  /\ key' = [key EXCEPT ![p] = k]
  /\ now' = [now EXCEPT ![p] = clock]
  /\ verdict' = [verdict EXCEPT ![p] = NoVerdict]
  /\ UNCHANGED <<clock, fileVars, fd, hold, historyVars>>

\* ask_hub: an account of this node, or none.  The cache is read for the other keys.
HubAnswers(p, label) ==
  /\ pc[p] = "ask"
  /\ pc' = [pc EXCEPT ![p] = "read"]
  /\ verdict' = [verdict EXCEPT ![p] = [source |-> "hub", label |-> label]]
  /\ answered' = answered \cup {[key |-> key[p], label |-> label, ts |-> now[p]]}
  /\ UNCHANGED <<clock, fileVars, key, now, fd, hold, decisions, latest, lone>>

HubFails(p) ==
  /\ pc[p] = "ask"
  /\ pc' = [pc EXCEPT ![p] = "fallback"]
  /\ UNCHANGED <<clock, fileVars, key, now, fd, hold, verdict, decisions, historyVars>>

MutMerged(old, p) == [NoEntries EXCEPT ![key[p]] = [label |-> verdict[p].label, ts |-> now[p]]]

\* The entries with this decision's own replaced.
Merged(old, p) == [old EXCEPT ![key[p]] = [label |-> verdict[p].label, ts |-> now[p]]]

Writing == {q \in Procs : pc[q] \in {"open", "write", "replace"}}

ReadCache(p) ==
  /\ pc[p] = "read"
  /\ pc' = [pc EXCEPT ![p] = "open"]
  /\ hold' = [hold EXCEPT ![p] = Merged(Parsed(cache), p)]
  /\ lone' = IF Writing = {} THEN {p} ELSE {}
  /\ UNCHANGED <<clock, fileVars, key, now, fd, verdict, decisions, answered, latest>>

\* An inode nobody names or has open.
IsFree(i) == i # cache /\ i # tmp /\ \A p \in Procs : fd[p] # i

\* _cache_write: os.open(tmp, O_CREAT | O_TRUNC) takes the file another writer left or
\* is still writing, and empties it; if that fails, decide goes on without a cache.
OpenTmp(p) ==
  /\ pc[p] = "open"
  /\ \/ \E i \in Inodes :
          /\ IF tmp = NoFile THEN IsFree(i) ELSE i = tmp
          /\ inode' = [inode EXCEPT ![i] = Empty]
          /\ tmp' = i
          /\ fd' = [fd EXCEPT ![p] = i]
          /\ pc' = [pc EXCEPT ![p] = "write"]
          /\ UNCHANGED <<hold, lone>>
     \/ Leave(p) /\ UNCHANGED <<inode, tmp>>
  /\ UNCHANGED <<clock, cache, key, now, verdict, decisions, answered, latest>>

\* json.dump and close: the text goes to the start of the file in one write.  When
\* another writer has written since, what is longer of the older text remains behind it.
WriteTmp(p) ==
  /\ pc[p] = "write"
  /\ pc' = [pc EXCEPT ![p] = "replace"]
  /\ \/ inode' = [inode EXCEPT ![fd[p]] = hold[p]]
     \/ inode[fd[p]] \notin {Empty, hold[p]} /\ inode' = [inode EXCEPT ![fd[p]] = Torn]
  /\ UNCHANGED <<clock, cache, tmp, key, now, fd, hold, verdict, decisions, historyVars>>

\* What is known to be cached after p's rename: nothing for sure if writers overlapped.
Stored(p) ==
  IF p \in lone THEN [latest EXCEPT ![key[p]] = hold[p][key[p]]] ELSE NoEntries

\* os.replace(tmp, CACHE): whatever the name tmp stands for now; it raises when another
\* writer has renamed it already, which decide ignores.
Replace(p) ==
  /\ pc[p] = "replace"
  /\ IF tmp = NoFile
       THEN UNCHANGED <<cache, tmp, latest>>
       ELSE /\ cache' = tmp
            /\ tmp' = NoFile
            /\ latest' = Stored(p)
  /\ Leave(p)
  /\ UNCHANGED <<clock, inode, key, now, verdict, decisions, answered>>

MutStandsIn(e, p) == e # NoEntry /\ e.label \in Labels

\* A cached entry stands in while it is young and names an account.
StandsIn(e, p) == e # NoEntry /\ now[p] <= e.ts + CacheFor /\ e.label \in Labels

Fallback(p) ==
  /\ pc[p] = "fallback"
  /\ LET e == Parsed(cache)[key[p]]
     IN  verdict' = [verdict EXCEPT ![p] =
           IF StandsIn(e, p) THEN [source |-> "cache", label |-> e.label]
                             ELSE [source |-> "none", label |-> Nobody]]
  /\ Leave(p)
  /\ UNCHANGED <<clock, fileVars, key, now, decisions, answered, latest>>

\* The launcher is killed: the files stay as they are.
Crash(p) ==
  /\ pc[p] # "idle"
  /\ verdict' = [verdict EXCEPT ![p] = NoVerdict]
  /\ Leave(p)
  /\ UNCHANGED <<clock, fileVars, key, now, decisions, answered, latest>>

Tick == clock < MaxClock /\ clock' = clock + 1
        /\ UNCHANGED <<fileVars, procVars, decisions, historyVars>>

Next ==
  \/ \E p \in Procs, k \in Keys : Begin(p, k)
  \/ \E p \in Procs, label \in Labels \cup {Nobody} : HubAnswers(p, label)
  \/ \E p \in Procs : \/ HubFails(p) \/ ReadCache(p) \/ OpenTmp(p) \/ WriteTmp(p)
                      \/ Replace(p) \/ Fallback(p) \/ Crash(p)
  \/ Tick

Spec == Init /\ [][Next]_vars

-----------------------------------------------------------------------------
TypeOK ==
  /\ clock \in Nat /\ decisions \in Nat
  /\ inode \in [Inodes -> Entries \cup {Empty, Torn}]
  /\ cache \in Inodes \cup {NoFile} /\ tmp \in Inodes \cup {NoFile}
  /\ cache = tmp => cache = NoFile
  /\ pc \in [Procs -> {"idle", "ask", "read", "open", "write", "replace", "fallback"}]
  /\ key \in [Procs -> Keys \cup {NoKey}]
  /\ now \in [Procs -> Nat]
  /\ fd \in [Procs -> Inodes \cup {NoFile}]
  /\ hold \in [Procs -> Entries]
  /\ verdict \in [Procs -> [source : {"hub", "cache", "none"}, label : Labels \cup {Nobody}]
                             \cup {NoVerdict}]
  /\ answered \subseteq [key : Keys, label : Labels \cup {Nobody}, ts : Nat]
  /\ latest \in Entries
  /\ lone \subseteq Procs

\* Every entry is one of the hub's answers for its key.
Backed(entries) ==
  \A k \in Keys : entries[k] # NoEntry =>
    [key |-> k, label |-> entries[k].label, ts |-> entries[k].ts] \in answered

\* Whatever the writers do to each other's files, and wherever they are killed, a cached
\* verdict is an answer the hub gave for that kind and model, and no older than CACHE_FOR
\* (decide, "younger than CACHE_FOR seconds stands in").
FallbackIsHonest ==
  \A p \in Procs :
    verdict[p] # NoVerdict /\ verdict[p].source = "cache" =>
      \E a \in answered : /\ a.key = key[p] /\ a.label = verdict[p].label
                          /\ now[p] <= a.ts + CacheFor

\* The inductive strengthening of FallbackIsHonest: no file and no writer ever has an entry
\* that the hub did not give.
HonestInv ==
  /\ \A i \in Inodes : inode[i] \notin {Empty, Torn} => Backed(inode[i])
  /\ \A p \in Procs : Backed(hold[p])
  /\ \A p \in Procs : pc[p] # "idle" => key[p] \in Keys
  /\ \A p \in Procs : pc[p] = "read" =>
       /\ verdict[p] # NoVerdict
       /\ [key |-> key[p], label |-> verdict[p].label, ts |-> now[p]] \in answered
  /\ FallbackIsHonest

\* "when the hub cannot be reached, a cached answer younger than CACHE_FOR seconds stands
\* in": a decision without the hub gives the latest answer that was cached for its key, an
\* answer of nobody and the answers for other keys included, wherever launchers were killed
\* on the way (decide, _cache_write).  Only what launchers cache one after another: of two
\* that read and write at the same time one may take away the entry of the other.
LastAnswerStands ==
  [][\A p \in Procs :
       pc[p] = "fallback" /\ verdict'[p] # NoVerdict /\ StandsIn(latest[key[p]], p) =>
         verdict'[p] = [source |-> "cache", label |-> latest[key[p]].label]]_vars
=============================================================================
