----------------------------- MODULE TokenFile -----------------------------
(***************************************************************************)
(* One account's token file and the proxy's cache of it (quota-proxy.py,   *)
(* Accounts.token): handler threads look at the file's mtime, take the     *)
(* cached token when it is the one of that mtime, and otherwise read the   *)
(* file, while an operator replaces it, removes it or changes its mode.    *)
(***************************************************************************)
EXTENDS Naturals

CONSTANTS
  Threads,
  Tokens,      \* what the file can hold
  NoToken,     \* token() returned None, or the file holds no token
  NoCache,
  MaxWrites    \* bound on what the operator does

ASSUME WritesAssumption == MaxWrites \in Nat

VARIABLES
  file,     \* the file: is it there, its token, its mtime, and its mode
  cached,   \* Accounts._cache[path]: the mtime and the token
  pc,
  mtime,    \* the mtime each thread found
  mode,     \* the mode each thread found
  result,   \* what its call returned
  writes,
  moded,    \* history: has the mode changed since the file was last written?
  passed,   \* history: could each call have found the mode right, since it began?
  held      \* history: what the file may have given it, at some moment since it began

history == <<passed, held>>
vars == <<file, cached, pc, mtime, mode, result, writes, moded, history>>

Modes  == {"private", "public"}    \* 0600, or readable by others
File   == [there : BOOLEAN, tok : Tokens \cup {NoToken}, mtime : Nat, mode : Modes]
Cached == [mtime : Nat, tok : Tokens \cup {NoToken}]

\* What a file is worth: its token, unless it is missing or readable by others.
Worth(f) == IF f.there /\ f.mode = "private" THEN f.tok ELSE NoToken

Init ==
  /\ file \in [there : BOOLEAN, tok : Tokens, mtime : {0}, mode : {"private"}]
  /\ cached = NoCache
  /\ pc = [t \in Threads |-> "idle"]
  /\ mtime = [t \in Threads |-> 0]
  /\ mode = [t \in Threads |-> "public"]
  /\ result = [t \in Threads |-> NoToken]
  /\ writes = 0
  /\ moded = FALSE
  /\ passed = [t \in Threads |-> FALSE]
  /\ held = [t \in Threads |-> {}]

Goto(t, step) == pc' = [pc EXCEPT ![t] = step]

Return(t, tok) ==
  /\ Goto(t, "returned")
  /\ result' = [result EXCEPT ![t] = tok]

\* What the file gives at this moment: its token to a call for which the mode was right, now or
\* before; nothing while it is missing or readable by others.  When its mode has changed
\* without a write, a call may go by either mode: the mtime does not tell them apart.
Passes == file.there /\ (file.mode = "private" \/ moded)
Fails  == Worth(file) = NoToken \/ moded
Gives(pass) == (IF file.there /\ pass THEN {file.tok} ELSE {}) \cup (IF Fails THEN {NoToken} ELSE {})

\* os.stat(path).st_mtime, or None at once when there is no file.
Stat(t) ==
  /\ pc[t] = "idle"
  /\ passed' = [passed EXCEPT ![t] = Passes]
  /\ held' = [held EXCEPT ![t] = Gives(Passes)]
  /\ IF file.there
       THEN /\ mtime' = [mtime EXCEPT ![t] = file.mtime]
            /\ Goto(t, "lookup")
            /\ UNCHANGED result
       ELSE Return(t, NoToken) /\ UNCHANGED mtime
  /\ UNCHANGED <<file, cached, mode, writes, moded>>

MutIsCurrent(t) == cached # NoCache

IsCurrent(t) == cached # NoCache /\ cached.mtime = mtime[t]

\* Under the lock: the cached token, if it is of that mtime.
Lookup(t) ==
  /\ pc[t] = "lookup"
  /\ IF IsCurrent(t) THEN Return(t, cached.tok) ELSE Goto(t, "mode") /\ UNCHANGED result
  /\ UNCHANGED <<file, cached, mtime, mode, writes, moded, history>>

\* route.token looks at the mode, then opens the file.
ReadMode(t) ==
  /\ pc[t] = "mode"
  /\ Goto(t, "read")
  /\ mode' = [mode EXCEPT ![t] = IF file.there THEN file.mode ELSE "public"]
  /\ UNCHANGED <<file, cached, mtime, result, writes, moded, history>>

ReadToken(t) ==
  /\ pc[t] = "read"
  /\ Goto(t, "store")
  /\ result' = [result EXCEPT ![t] = IF mode[t] = "private" /\ file.there THEN file.tok ELSE NoToken]
  /\ UNCHANGED <<file, cached, mtime, mode, writes, moded, history>>

MutStore(t) ==
  /\ pc[t] = "store"
  /\ Goto(t, "returned")
  /\ cached' = [mtime |-> file.mtime, tok |-> result[t]]
  /\ UNCHANGED <<file, mtime, mode, result, writes, moded, history>>

\* Under the lock again: keep what was read, a refusal too, under the mtime found first.
Store(t) ==
  /\ pc[t] = "store"
  /\ Goto(t, "returned")
  /\ cached' = [mtime |-> mtime[t], tok |-> result[t]]
  /\ UNCHANGED <<file, mtime, mode, result, writes, moded, history>>

\* The caller takes the token and its next call begins.
Again(t) ==
  /\ pc[t] = "returned"
  /\ Goto(t, "idle")
  /\ result' = [result EXCEPT ![t] = NoToken]
  /\ mtime' = [mtime EXCEPT ![t] = 0]
  /\ mode' = [mode EXCEPT ![t] = "public"]
  /\ passed' = [passed EXCEPT ![t] = FALSE]
  /\ held' = [held EXCEPT ![t] = {}]
  /\ UNCHANGED <<file, cached, writes, moded>>

\* The operator: a write gives the file an mtime it never had; a chmod leaves it alone.
Operator ==
  /\ writes < MaxWrites
  /\ writes' = writes + 1
  /\ \/ /\ \E tok \in Tokens, m \in Modes :
             file' = [there |-> TRUE, tok |-> tok, mtime |-> writes + 1, mode |-> m]
        /\ moded' = FALSE
     \/ file.there /\ file' = [file EXCEPT !.there = FALSE] /\ UNCHANGED moded
     \/ /\ file.there
        /\ \E m \in Modes \ {file.mode} : file' = [file EXCEPT !.mode = m]
        /\ moded' = TRUE
  /\ passed' = [t \in Threads |-> passed[t] \/ (pc[t] # "idle" /\ Passes')]
  /\ held' = [t \in Threads |-> IF pc[t] = "idle" THEN {} ELSE held[t] \cup Gives(passed[t])']
  /\ UNCHANGED <<cached, pc, mtime, mode, result>>

Next ==
  \/ \E t \in Threads : Stat(t) \/ Lookup(t) \/ ReadMode(t) \/ ReadToken(t) \/ Store(t) \/ Again(t)
  \/ Operator

Spec == Init /\ [][Next]_vars

-----------------------------------------------------------------------------
TypeOK ==
  /\ file \in File
  /\ cached \in Cached \cup {NoCache}
  /\ pc \in [Threads -> {"idle", "lookup", "mode", "read", "store", "returned"}]
  /\ mtime \in [Threads -> Nat] /\ mode \in [Threads -> Modes]
  /\ result \in [Threads -> Tokens \cup {NoToken}]
  /\ writes \in Nat /\ moded \in BOOLEAN
  /\ passed \in [Threads -> BOOLEAN]
  /\ held \in [Threads -> SUBSET (Tokens \cup {NoToken})]

\* "tokens read on demand, re-read when a file changes" (Accounts): whatever the operator does
\* during a call and whatever overlapping calls cache, before it, meanwhile or out of order,
\* the call returns what the file gave at some moment of it: never a token from before it
\* began, and no refusal without a reason since then.
TokenIsCurrent == \A t \in Threads : pc[t] = "returned" => result[t] \in held[t]

\* Why: no mtime comes back.  What is read for an mtime that is still the file's is what the
\* file gives.  What is read or cached for one that is gone was read after every call that
\* found that mtime had begun, and so is in the history of each.
NoMtimeAhead ==
  /\ file.mtime <= writes
  /\ cached # NoCache => cached.mtime <= file.mtime
  /\ \A t \in Threads : mtime[t] <= file.mtime

HistoryIsWhole ==
  \A t \in Threads : pc[t] # "idle" => (Passes => passed[t]) /\ Gives(passed[t]) \subseteq held[t]

\* The calls that are under way with the mtime m.
With(m) == {t \in Threads : pc[t] \in {"lookup", "mode", "read", "store"} /\ mtime[t] = m}
IsFiles(m) == file.there /\ file.mtime = m

CacheIsGood ==
  cached # NoCache =>
    /\ IsFiles(cached.mtime) => cached.tok \in Gives(Passes)
    /\ \A t \in With(cached.mtime) : pc[t] = "lookup" => cached.tok \in held[t]

ModeIsGood ==
  \A t \in Threads :
    pc[t] = "read" =>
      /\ IsFiles(mtime[t]) => moded \/ mode[t] = file.mode
      /\ \A u \in With(mtime[t]) : IF mode[t] = "private" THEN passed[u] ELSE NoToken \in held[u]

ResultIsGood ==
  \A t \in Threads :
    pc[t] = "store" =>
      /\ IsFiles(mtime[t]) => result[t] \in Gives(Passes)
      /\ \A u \in With(mtime[t]) : result[t] \in held[u]

\* The inductive strengthening of TokenIsCurrent.
CurrentInv == NoMtimeAhead /\ HistoryIsWhole /\ CacheIsGood /\ ModeIsGood /\ ResultIsGood /\ TokenIsCurrent
=============================================================================
