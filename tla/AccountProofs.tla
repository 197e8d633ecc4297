---------------------------- MODULE AccountProofs ----------------------------
(***************************************************************************)
(* What holds of the two things the quota proxy keeps of one account: its  *)
(* token (Accounts.token), for any number of handler threads, tokens and   *)
(* changes of the file, and its entry in the ledger (Ledger.worst), for    *)
(* any windows, samples, headers and times.                                *)
(***************************************************************************)
EXTENDS TokenFile, ProxyLedger, WellFoundedInduction, TLAPS

\* Types hold at the start.
LEMMA TypeInit == Init => TypeOK
<1> SUFFICES ASSUME Init PROVE TypeOK
  OBVIOUS
<1>1. file \in File /\ cached \in Cached \cup {NoCache}
  BY DEF Init, File, Modes
<1>2. /\ pc \in [Threads -> {"idle", "lookup", "mode", "read", "store", "returned"}]
      /\ mtime \in [Threads -> Nat]
      /\ mode \in [Threads -> Modes]
      /\ result \in [Threads -> Tokens \cup {NoToken}]
  BY DEF Init, Modes
<1>3. /\ writes \in Nat /\ moded \in BOOLEAN
      /\ passed \in [Threads -> BOOLEAN] /\ held \in [Threads -> SUBSET (Tokens \cup {NoToken})]
  BY DEF Init
<1> QED
  BY <1>1, <1>2, <1>3 DEF TypeOK

\* What the file gives is a token or none.
LEMMA GivesTokens ==
  /\ file.tok \in Tokens \cup {NoToken} => \A pass \in BOOLEAN : Gives(pass) \in SUBSET (Tokens \cup {NoToken})
  /\ Passes \in BOOLEAN
BY DEF Gives, Passes

\* Every step keeps the types.
LEMMA TypeStep == TypeOK /\ [Next]_vars => TypeOK'
<1> SUFFICES ASSUME TypeOK, [Next]_vars PROVE TypeOK'
  OBVIOUS
<1> USE DEF TypeOK, File, Cached, Modes
<1>1. ASSUME NEW t \in Threads, Stat(t) \/ Lookup(t) PROVE TypeOK'
  <2>1. Gives(Passes) \in SUBSET (Tokens \cup {NoToken}) /\ Passes \in BOOLEAN
    BY GivesTokens
  <2>2. CASE Stat(t)
    <3>1. /\ passed' = [passed EXCEPT ![t] = Passes]
          /\ held' = [held EXCEPT ![t] = Gives(Passes)]
      BY <2>2 DEF Stat
    <3>2. passed' \in [Threads -> BOOLEAN] /\ held' \in [Threads -> SUBSET (Tokens \cup {NoToken})]
      BY <2>1, <3>1
    <3> QED
      BY <2>2, <3>2 DEF Stat, Goto, Return
  <2>3. CASE Lookup(t)
    BY <2>3 DEF Lookup, Goto, Return, IsCurrent, history
  <2> QED
    BY <1>1, <2>2, <2>3
<1>2. ASSUME NEW t \in Threads, ReadMode(t) \/ ReadToken(t) \/ Again(t) PROVE TypeOK'
  <2>1. CASE ReadMode(t)
    BY <2>1 DEF ReadMode, Goto, history
  <2>2. CASE ReadToken(t)
    BY <2>2 DEF ReadToken, Goto, history
  <2>3. CASE Again(t)
    BY <2>3 DEF Again, Goto
  <2> QED
    BY <1>2, <2>1, <2>2, <2>3
<1>3. ASSUME NEW t \in Threads, Store(t) PROVE TypeOK'
  BY <1>3 DEF Store, Goto, history
<1>4. CASE Operator
  <2>1. file' \in File
    <3>1. CASE \E tok \in Tokens, m \in Modes :
                 file' = [there |-> TRUE, tok |-> tok, mtime |-> writes + 1, mode |-> m]
      BY <3>1
    <3>2. CASE file' = [file EXCEPT !.there = FALSE]
      BY <3>2
    <3>3. CASE \E m \in Modes : file' = [file EXCEPT !.mode = m]
      BY <3>3
    <3> QED
      BY <1>4, <3>1, <3>2, <3>3 DEF Operator
  <2>2. writes' \in Nat
    BY <1>4 DEF Operator
  <2>3. moded' \in BOOLEAN
    BY <1>4, Zenon DEF Operator
  <2>4. UNCHANGED <<cached, pc, mtime, mode, result>>
    BY <1>4 DEF Operator
  <2>5. passed' = [t \in Threads |-> passed[t] \/ (pc[t] # "idle" /\ Passes')]
    BY <1>4 DEF Operator
  <2>6. passed' \in [Threads -> BOOLEAN]
    BY <2>5
  <2>7. held' = [t \in Threads |-> IF pc[t] = "idle" THEN {} ELSE held[t] \cup Gives(passed[t])']
    BY <1>4 DEF Operator
  <2>8. \A t \in Threads : Gives(passed[t])' \in SUBSET (Tokens \cup {NoToken})
    BY <2>1, <2>6 DEF Gives
  <2>9. held' \in [Threads -> SUBSET (Tokens \cup {NoToken})]
    BY <2>7, <2>8
  <2> QED
    BY <2>1, <2>2, <2>3, <2>4, <2>6, <2>9
<1>5. CASE UNCHANGED vars
  BY <1>5 DEF vars, history
<1> QED
  BY <1>1, <1>2, <1>3, <1>4, <1>5 DEF Next

\* CurrentInv holds at the start.
LEMMA CurrentInit == Init => CurrentInv
BY DEF Init, CurrentInv, NoMtimeAhead, HistoryIsWhole, CacheIsGood, ModeIsGood, ResultIsGood, TokenIsCurrent

\* A step that leaves the file alone leaves what it gives alone.
LEMMA SameFile ==
  ASSUME UNCHANGED <<file, moded>>
  PROVE  /\ Passes' = Passes /\ Fails' = Fails
         /\ \A pass : Gives(pass)' = Gives(pass)
         /\ \A m : IsFiles(m)' = IsFiles(m)
BY DEF Passes, Fails, Gives, IsFiles, Worth

\* A call that begins may be given what the file gives, and so what is read or cached for
\* its mtime.
LEMMA StatKeeps ==
  ASSUME TypeOK, CurrentInv, NEW t \in Threads, Stat(t)
  PROVE  CurrentInv'
<1>1. /\ UNCHANGED <<file, cached, mode, writes, moded>>
      /\ pc' = [pc EXCEPT ![t] = IF file.there THEN "lookup" ELSE "returned"]
      /\ mtime' = IF file.there THEN [mtime EXCEPT ![t] = file.mtime] ELSE mtime
      /\ result' = IF file.there THEN result ELSE [result EXCEPT ![t] = NoToken]
      /\ passed' = [passed EXCEPT ![t] = Passes]
      /\ held' = [held EXCEPT ![t] = Gives(Passes)]
  BY DEF Stat, Goto, Return
<1>2. /\ passed'[t] = Passes /\ held'[t] = Gives(Passes)
      /\ pc'[t] = IF file.there THEN "lookup" ELSE "returned"
      /\ file.there => mtime'[t] = file.mtime
      /\ ~file.there => result'[t] = NoToken /\ mtime'[t] = mtime[t]
  BY <1>1 DEF TypeOK
<1>3. \A u \in Threads \ {t} :
        /\ passed'[u] = passed[u] /\ held'[u] = held[u] /\ pc'[u] = pc[u]
        /\ mtime'[u] = mtime[u] /\ result'[u] = result[u] /\ mode'[u] = mode[u]
  BY <1>1 DEF TypeOK
<1>4. /\ Passes' = Passes
      /\ \A pass : Gives(pass)' = Gives(pass)
      /\ \A m : IsFiles(m)' = IsFiles(m)
  BY <1>1, SameFile
<1>5. \A m : \A u \in With(m)' : (u # t /\ u \in With(m)) \/ (u = t /\ IsFiles(m) /\ m = mtime'[t])
  BY <1>2, <1>3 DEF With, IsFiles
<1>6. NoMtimeAhead'
  BY <1>1, <1>2, <1>3 DEF CurrentInv, NoMtimeAhead, TypeOK, File
<1>7. HistoryIsWhole'
  BY <1>2, <1>3, <1>4 DEF CurrentInv, HistoryIsWhole
<1>8. CacheIsGood'
  BY <1>1, <1>2, <1>3, <1>4, <1>5 DEF CurrentInv, CacheIsGood
<1>9. ModeIsGood'
  <2> SUFFICES ASSUME NEW r \in Threads, pc'[r] = "read"
               PROVE  /\ IsFiles(mtime[r]) => moded \/ mode[r] = file.mode
                      /\ \A u \in With(mtime[r])' :
                           IF mode[r] = "private" THEN passed'[u] ELSE NoToken \in held'[u]
    BY <1>1, <1>2, <1>3, <1>4 DEF ModeIsGood
  <2>1. r # t /\ pc[r] = "read"
    BY <1>2, <1>3
  <2>2. /\ IsFiles(mtime[r]) => moded \/ mode[r] = file.mode
        /\ \A u \in With(mtime[r]) : IF mode[r] = "private" THEN passed[u] ELSE NoToken \in held[u]
    BY <2>1 DEF CurrentInv, ModeIsGood
  <2>3. IsFiles(mtime[r]) => IF mode[r] = "private" THEN Passes ELSE NoToken \in Gives(Passes)
    BY <2>2 DEF IsFiles, Passes, Gives, Fails, Worth
  <2>4. ASSUME NEW u \in With(mtime[r])'
        PROVE  IF mode[r] = "private" THEN passed'[u] ELSE NoToken \in held'[u]
    <3>1. mtime'[r] = mtime[r]
      BY <1>3, <2>1
    <3>2. CASE u # t
      <4>1. u \in With(mtime[r])
        BY <1>3, <2>4, <3>1, <3>2 DEF With
      <4> QED
        BY <1>3, <2>2, <3>2, <4>1 DEF With
    <3>3. CASE u = t
      <4>1. IsFiles(mtime[r])
        BY <1>2, <2>4, <3>1, <3>3 DEF With, IsFiles
      <4> QED
        BY <1>2, <2>3, <3>3, <4>1
    <3> QED
      BY <3>2, <3>3
  <2> QED
    BY <2>2, <2>4
<1>10. ResultIsGood'
  <2> SUFFICES ASSUME NEW r \in Threads, pc'[r] = "store"
               PROVE  /\ IsFiles(mtime[r]) => result[r] \in Gives(Passes)
                      /\ \A u \in With(mtime[r])' : result[r] \in held'[u]
    BY <1>1, <1>2, <1>3, <1>4 DEF ResultIsGood
  <2>1. r # t /\ pc[r] = "store" /\ mtime'[r] = mtime[r]
    BY <1>2, <1>3
  <2>2. /\ IsFiles(mtime[r]) => result[r] \in Gives(Passes)
        /\ \A u \in With(mtime[r]) : result[r] \in held[u]
    BY <2>1 DEF CurrentInv, ResultIsGood
  <2>3. ASSUME NEW u \in With(mtime[r])' PROVE result[r] \in held'[u]
    <3>1. CASE u # t
      BY <1>3, <2>1, <2>2, <2>3, <3>1 DEF With
    <3>2. CASE u = t
      BY <1>2, <2>1, <2>2, <2>3, <3>2 DEF With, IsFiles
    <3> QED
      BY <3>1, <3>2
  <2> QED
    BY <2>2, <2>3
<1>11. TokenIsCurrent'
  <2>1. ~file.there => NoToken \in Gives(Passes)
    BY DEF Gives, Fails, Worth
  <2> QED
    BY <1>2, <1>3, <2>1 DEF CurrentInv, TokenIsCurrent
<1> QED
  BY <1>6, <1>7, <1>8, <1>9, <1>10, <1>11 DEF CurrentInv

\* A call goes on as the cache or the file lets it, and leaves both alone.
LEMMA ReadingKeeps ==
  ASSUME TypeOK, CurrentInv, NEW t \in Threads, Lookup(t) \/ ReadMode(t) \/ ReadToken(t) \/ Again(t)
  PROVE  CurrentInv'
<1> USE DEF CurrentInv
<1>1. UNCHANGED <<file, cached, writes, moded>>
  BY DEF Lookup, ReadMode, ReadToken, Again
<1>2. \A u \in Threads \ {t} :
        /\ passed'[u] = passed[u] /\ held'[u] = held[u] /\ pc'[u] = pc[u]
        /\ mtime'[u] = mtime[u] /\ result'[u] = result[u] /\ mode'[u] = mode[u]
  BY DEF TypeOK, Lookup, ReadMode, ReadToken, Again, Goto, Return, history
<1>3. /\ Passes' = Passes
      /\ \A pass : Gives(pass)' = Gives(pass)
      /\ \A m : IsFiles(m)' = IsFiles(m)
  BY <1>1, SameFile
<1>4. CASE Again(t)
  <2>1. pc'[t] = "idle" /\ mtime'[t] = 0
    BY <1>4 DEF Again, Goto, TypeOK
  <2>2. \A m : With(m)' \subseteq With(m) \ {t}
    BY <1>2, <2>1 DEF With
  <2>3. NoMtimeAhead'
    BY <1>1, <1>2, <2>1 DEF NoMtimeAhead, TypeOK, File
  <2>4. HistoryIsWhole' /\ TokenIsCurrent'
    BY <1>2, <1>3, <2>1 DEF HistoryIsWhole, TokenIsCurrent
  <2>5. CacheIsGood'
    BY <1>1, <1>2, <1>3, <2>1 DEF CacheIsGood, With
  <2>6. ModeIsGood'
    BY <1>1, <1>2, <1>3, <2>1 DEF ModeIsGood, With
  <2>7. ResultIsGood'
    BY <1>1, <1>2, <1>3, <2>1 DEF ResultIsGood, With
  <2> QED
    BY <2>3, <2>4, <2>5, <2>6, <2>7
<1>5. ASSUME UNCHANGED history, mtime' = mtime, pc[t] # "idle", t \in With(mtime[t]),
             pc'[t] \in {"mode", "read", "store", "returned"}
      PROVE  /\ NoMtimeAhead' /\ HistoryIsWhole' /\ CacheIsGood'
             /\ \A m : With(m)' \subseteq With(m)
  <2>1. \A m : With(m)' \subseteq With(m)
    BY <1>2, <1>5 DEF With
  <2>2. NoMtimeAhead'
    BY <1>1, <1>5 DEF NoMtimeAhead
  <2>3. HistoryIsWhole'
    BY <1>2, <1>3, <1>5 DEF HistoryIsWhole, history
  <2>4. CacheIsGood'
    BY <1>1, <1>2, <1>3, <1>5 DEF CacheIsGood, With, history
  <2> QED
    BY <2>1, <2>2, <2>3, <2>4
<1>6. CASE Lookup(t)
  <2>1. /\ UNCHANGED history /\ mtime' = mtime /\ mode' = mode /\ pc[t] = "lookup" /\ t \in With(mtime[t])
        /\ pc'[t] \in {"mode", "returned"}
        /\ pc'[t] = "returned" => cached # NoCache /\ cached.mtime = mtime[t] /\ result'[t] = cached.tok
    BY <1>6 DEF Lookup, Goto, Return, IsCurrent, With, TypeOK
  <2>2. pc'[t] = "returned" => result'[t] \in held[t]
    BY <2>1 DEF CacheIsGood
  <2> QED
    BY <1>1, <1>2, <1>3, <1>5, <2>1, <2>2 DEF ModeIsGood, ResultIsGood, TokenIsCurrent, history
<1>7. CASE ReadMode(t)
  <2>1. /\ UNCHANGED history /\ mtime' = mtime /\ pc[t] = "mode" /\ t \in With(mtime[t]) /\ pc'[t] = "read"
        /\ mode'[t] = IF file.there THEN file.mode ELSE "public"
    BY <1>7 DEF ReadMode, Goto, With, TypeOK
  <2>2. \A m : \A u \in With(m) : IF mode'[t] = "private" THEN passed[u] ELSE NoToken \in held[u]
    <3> SUFFICES ASSUME NEW m, NEW u \in With(m)
                 PROVE  IF mode'[t] = "private" THEN passed[u] ELSE NoToken \in held[u]
      OBVIOUS
    <3>1. (Passes => passed[u]) /\ Gives(passed[u]) \subseteq held[u]
      BY DEF HistoryIsWhole, With
    <3>2. CASE mode'[t] = "private"
      BY <2>1, <3>1, <3>2 DEF Passes
    <3>3. CASE mode'[t] # "private"
      BY <2>1, <3>1, <3>3 DEF Gives, Fails, Worth
    <3> QED
      BY <3>2, <3>3
  <2>3. IsFiles(mtime[t]) => mode'[t] = file.mode
    BY <2>1 DEF IsFiles
  <2>4. ModeIsGood'
    BY <1>1, <1>2, <1>3, <1>5, <2>1, <2>2, <2>3 DEF ModeIsGood, history
  <2> QED
    BY <1>1, <1>2, <1>3, <1>5, <2>1, <2>4 DEF ResultIsGood, TokenIsCurrent, history
<1>8. CASE ReadToken(t)
  <2>1. /\ UNCHANGED history /\ mtime' = mtime /\ pc[t] = "read" /\ t \in With(mtime[t]) /\ pc'[t] = "store"
        /\ result'[t] = IF mode[t] = "private" /\ file.there THEN file.tok ELSE NoToken
    BY <1>8 DEF ReadToken, Goto, With, TypeOK
  <2>2. \A u \in With(mtime[t]) : result'[t] \in held[u]
    <3> SUFFICES ASSUME NEW u \in With(mtime[t]) PROVE result'[t] \in held[u]
      OBVIOUS
    <3>1. Gives(passed[u]) \subseteq held[u]
      BY DEF HistoryIsWhole, With
    <3>2. IF mode[t] = "private" THEN passed[u] ELSE NoToken \in held[u]
      BY <2>1 DEF ModeIsGood
    <3>3. CASE file.there
      BY <2>1, <3>1, <3>2, <3>3 DEF Gives
    <3>4. CASE ~file.there
      BY <2>1, <3>1, <3>4 DEF Gives, Fails, Worth
    <3> QED
      BY <3>3, <3>4
  <2>3. IsFiles(mtime[t]) => result'[t] \in Gives(Passes)
    <3>1. IsFiles(mtime[t]) => moded \/ mode[t] = file.mode
      BY <2>1 DEF ModeIsGood
    <3> QED
      BY <2>1, <3>1 DEF IsFiles, Gives, Passes, Fails, Worth
  <2>4. ResultIsGood'
    BY <1>1, <1>2, <1>3, <1>5, <2>1, <2>2, <2>3 DEF ResultIsGood, history
  <2> QED
    BY <1>1, <1>2, <1>3, <1>5, <2>1, <2>4 DEF ModeIsGood, TokenIsCurrent, history
<1> QED
  BY <1>4, <1>6, <1>7, <1>8

\* What is stored is in the history of every call that may find it.
LEMMA StoreKeeps ==
  ASSUME TypeOK, CurrentInv, NEW t \in Threads, Store(t)
  PROVE  CurrentInv'
<1> USE DEF CurrentInv
<1>1. /\ UNCHANGED <<file, mtime, mode, result, writes, moded, passed, held>>
      /\ cached' = [mtime |-> mtime[t], tok |-> result[t]]
      /\ pc[t] = "store" /\ pc'[t] = "returned" /\ \A u \in Threads \ {t} : pc'[u] = pc[u]
  BY DEF Store, Goto, history, TypeOK
<1>2. /\ Passes' = Passes
      /\ \A pass : Gives(pass)' = Gives(pass)
      /\ \A m : IsFiles(m)' = IsFiles(m)
  BY <1>1, SameFile
<1>3. \A m : With(m)' \subseteq With(m)
  BY <1>1 DEF With
<1>4. /\ IsFiles(mtime[t]) => result[t] \in Gives(Passes)
      /\ \A u \in With(mtime[t]) : result[t] \in held[u]
  BY <1>1 DEF ResultIsGood
<1>5. CacheIsGood'
  BY <1>1, <1>2, <1>3, <1>4 DEF CacheIsGood
<1>6. TokenIsCurrent'
  <2>1. t \in With(mtime[t])
    BY <1>1 DEF With
  <2> QED
    BY <1>1, <1>4, <2>1 DEF TokenIsCurrent
<1> QED
  BY <1>1, <1>2, <1>3, <1>5, <1>6 DEF NoMtimeAhead, HistoryIsWhole, ModeIsGood, ResultIsGood

\* A write takes a new mtime, a file that was removed comes back with one, and a change of
\* the mode is on record: what was good for the file's mtime is still, or no longer counts.
LEMMA OperatorKeeps ==
  ASSUME TypeOK, CurrentInv, Operator
  PROVE  CurrentInv'
<1> USE DEF CurrentInv
<1>1. /\ UNCHANGED <<cached, pc, mtime, mode, result>> /\ writes' = writes + 1
      /\ passed' = [t \in Threads |-> passed[t] \/ (pc[t] # "idle" /\ Passes')]
      /\ held' = [t \in Threads |-> IF pc[t] = "idle" THEN {} ELSE held[t] \cup Gives(passed[t])']
  BY DEF Operator
<1>2. /\ file.mtime \in Nat /\ writes \in Nat /\ file.mtime <= writes
      /\ cached # NoCache => cached.mtime \in Nat /\ cached.mtime <= file.mtime
      /\ \A t \in Threads : mtime[t] \in Nat /\ mtime[t] <= file.mtime
  BY DEF TypeOK, File, Cached, NoMtimeAhead
<1>3. \/ file'.mtime = writes + 1
      \/ ~file'.there /\ file'.mtime = file.mtime
      \/ file.there /\ file'.there /\ file'.mtime = file.mtime /\ file'.tok = file.tok /\ moded'
  BY DEF Operator, TypeOK, File
<1>4. \A m : IsFiles(m)' => \/ m = writes + 1
                            \/ IsFiles(m) /\ moded' /\ Gives(Passes) \subseteq Gives(Passes)'
  <2> SUFFICES ASSUME NEW m, IsFiles(m)', m # writes + 1
               PROVE  IsFiles(m) /\ moded' /\ Gives(Passes) \subseteq Gives(Passes)'
    OBVIOUS
  <2>1. file.there /\ file'.there /\ file'.mtime = file.mtime /\ file'.tok = file.tok /\ moded'
    BY <1>3 DEF IsFiles
  <2> QED
    BY <2>1 DEF IsFiles, Gives, Passes, Fails
<1>5. NoMtimeAhead'
  BY <1>1, <1>2, <1>3 DEF NoMtimeAhead
<1>6. \A t \in Threads : pc[t] # "idle" =>
        /\ passed'[t] = (passed[t] \/ Passes') /\ held'[t] = held[t] \cup Gives(passed[t])'
  BY <1>1
<1>7. HistoryIsWhole'
  BY <1>1, <1>6 DEF HistoryIsWhole
<1>8. \A t \in Threads : pc[t] # "idle" => (passed[t] => passed'[t]) /\ held[t] \subseteq held'[t]
  BY <1>6
<1>9. CacheIsGood'
  <2>1. ASSUME cached # NoCache, IsFiles(cached.mtime)' PROVE cached.tok \in Gives(Passes)'
    BY <1>1, <1>2, <1>4, <2>1 DEF CacheIsGood
  <2>2. ASSUME cached # NoCache, NEW t \in With(cached.mtime), pc[t] = "lookup" PROVE cached.tok \in held'[t]
    BY <1>8, <2>2 DEF CacheIsGood, With
  <2> QED
    BY <1>1, <2>1, <2>2 DEF CacheIsGood, With
<1>10. ModeIsGood'
  <2> SUFFICES ASSUME NEW t \in Threads, pc[t] = "read"
               PROVE  /\ IsFiles(mtime[t])' => moded' \/ mode[t] = file'.mode
                      /\ \A u \in With(mtime[t]) : IF mode[t] = "private" THEN passed'[u] ELSE NoToken \in held'[u]
    BY <1>1 DEF ModeIsGood, With
  <2>1. IsFiles(mtime[t])' => moded'
    BY <1>1, <1>2, <1>4
  <2>2. \A u \in With(mtime[t]) : IF mode[t] = "private" THEN passed'[u] ELSE NoToken \in held'[u]
    BY <1>8 DEF ModeIsGood, With
  <2> QED
    BY <2>1, <2>2
<1>11. ResultIsGood'
  <2> SUFFICES ASSUME NEW t \in Threads, pc[t] = "store"
               PROVE  /\ IsFiles(mtime[t])' => result[t] \in Gives(Passes)'
                      /\ \A u \in With(mtime[t]) : result[t] \in held'[u]
    BY <1>1 DEF ResultIsGood, With
  <2>1. IsFiles(mtime[t])' => result[t] \in Gives(Passes)'
    BY <1>1, <1>2, <1>4 DEF ResultIsGood
  <2>2. \A u \in With(mtime[t]) : result[t] \in held'[u]
    BY <1>8 DEF ResultIsGood, With
  <2> QED
    BY <2>1, <2>2
<1>12. TokenIsCurrent'
  BY <1>1, <1>8 DEF TokenIsCurrent
<1> QED
  BY <1>5, <1>7, <1>9, <1>10, <1>11, <1>12

\* Every step keeps CurrentInv.
LEMMA CurrentStep == TypeOK /\ CurrentInv /\ [Next]_vars => CurrentInv'
<1> SUFFICES ASSUME TypeOK, CurrentInv, [Next]_vars PROVE CurrentInv'
  OBVIOUS
<1>1. CASE UNCHANGED vars
  BY <1>1 DEF vars, history, CurrentInv, NoMtimeAhead, HistoryIsWhole, CacheIsGood, ModeIsGood, ResultIsGood,
              TokenIsCurrent, Gives, Passes, Fails, Worth, With, IsFiles
<1> QED
  BY <1>1, StatKeeps, ReadingKeeps, StoreKeeps, OperatorKeeps DEF Next

-----------------------------------------------------------------------------
\* Types of the token file's cache (Accounts.token).
THEOREM TypeCorrect == Spec => []TypeOK
<1> QED
  BY TypeInit, TypeStep, PTL DEF Spec

\* Whatever the operator does during a call, and whatever other calls cache, it returns what the
\* file gave at some moment of the call (Accounts.token).
THEOREM Current == Spec => []TokenIsCurrent
<1>1. CurrentInv => TokenIsCurrent
  BY DEF CurrentInv
<1> QED
  BY <1>1, TypeCorrect, CurrentInit, CurrentStep, PTL DEF Spec

-----------------------------------------------------------------------------
\* The greatest percent.
LEMMA PercentBound == MaxPercent \in Nat /\ MaxPercent >= 100
BY TimeAssumption, Zenon

\* Every nonempty set of percents has a greatest one.
LEMMA GreatestPercent == ASSUME NEW S \in SUBSET (0..MaxPercent), S # {}
                         PROVE  \E p \in S : \A q \in S : q <= p
<1> DEFINE Short == {MaxPercent - p : p \in S}
<1>1. Short \in SUBSET Nat /\ Short # {}
  <2>1. \A p \in S : p \in Int /\ 0 <= p /\ p <= MaxPercent
    BY PercentBound
  <2>2. \A p \in S : MaxPercent - p \in Nat
    BY <2>1, PercentBound
  <2> QED
    BY <2>2
<1>2. \E n \in Short : \A m \in Short : ~(<<m, n>> \in OpToRel(<, Nat))
  BY <1>1, NatLessThanWellFounded, WFMin
<1> HIDE DEF Short
<1>3. \A m, n \in Nat : <<m, n>> \notin OpToRel(<, Nat) => n <= m
  BY DEF OpToRel
<1>4. PICK n \in Short : \A m \in Short : n <= m
  BY <1>1, <1>2, <1>3
<1> USE DEF Short
<1>5. PICK p \in S : n = MaxPercent - p
  OBVIOUS
<1>6. ASSUME NEW q \in S PROVE q <= p
  <2>1. MaxPercent - q \in Short
    OBVIOUS
  <2>2. MaxPercent - p <= MaxPercent - q
    BY <1>4, <1>5, <2>1
  <2>3. p \in Int /\ q \in Int
    OBVIOUS
  <2> HIDE DEF Short
  <2> QED
    BY <2>2, <2>3, PercentBound
<1> QED
  BY <1>6

\* The ledger's types hold at the start.
LEMMA LedgerInitTypes == LedgerInit => LedgerTypeOK
BY DEF LedgerInit, LedgerTypeOK, NoHub

\* Every method keeps the ledger's types.
LEMMA LedgerStep == LedgerTypeOK /\ [LedgerNext]_ledgerVars => LedgerTypeOK'
<1> SUFFICES ASSUME LedgerTypeOK, [LedgerNext]_ledgerVars PROVE LedgerTypeOK'
  OBVIOUS
<1> USE TimeAssumption DEF LedgerTypeOK, Reset
<1>1. ASSUME NEW win \in Windows, NEW pct \in Percents, NEW reset \in Reset, NEW rejected \in BOOLEAN,
             NEW now \in clock - MaxLate .. clock, now >= 0,
             NoteHeaders(win, pct, reset, rejected, now)
      PROVE  LedgerTypeOK'
  <2>1. now \in Nat
    BY <1>1
  <2> QED
    BY <1>1, <2>1 DEF NoteHeaders
<1>2. ASSUME NEW win \in Windows, NEW reset \in Reset, MarkInForce(win, reset) PROVE LedgerTypeOK'
  BY <1>2 DEF MarkInForce
<1>3. ASSUME NEW limits \in HubRecords, NEW asOf \in 0..clock, HubRefresh(limits, asOf)
      PROVE  LedgerTypeOK'
  BY <1>3, HubAssumption DEF HubRefresh
<1>4. CASE Tick
  BY <1>4 DEF Tick
<1>5. CASE UNCHANGED ledgerVars
  BY <1>5 DEF ledgerVars
<1> QED
  BY <1>1, <1>2, <1>3, <1>4, <1>5 DEF LedgerNext

\* What the headers said is a percent.
LEMMA SeenArePercents ==
  ASSUME LedgerTypeOK, NEW win \in Windows
  PROVE  seen[win].pct \in 0..MaxPercent
<1>1. seen[win] \in [pct : Percents, reset : Reset, ts : {-1} \cup Nat] \cup {NoSeen}
  BY DEF LedgerTypeOK
<1>2. seen[win].pct \in Percents \/ seen[win].pct = 0
  BY <1>1 DEF NoSeen
<1>3. \A p : p \in Percents => p \in 0..MaxPercent
  BY TimeAssumption, Zenon
<1> QED
  BY <1>2, <1>3, PercentBound

\* A limit counts for a percent.
LEMMA LimitIsPercent ==
  ASSUME LedgerTypeOK, NEW l \in hub.limits
  PROVE  LimitCounts(l) \in 0..MaxPercent /\ LimitCounts(l) \in Nat
<1>1. l \in Limit
  BY DEF LedgerTypeOK
<1>2. l.pct \in Percents
  BY <1>1 DEF Limit
<1>3. \A p : p \in Percents => p \in 0..MaxPercent
  BY TimeAssumption, Zenon
<1>4. l.pct \in 0..MaxPercent
  BY <1>2, <1>3
<1>5. Overlays(l) => seen[l.name].pct \in 0..MaxPercent
  BY SeenArePercents DEF Overlays
<1> QED
  BY <1>4, <1>5, PercentBound DEF LimitCounts

\* Whatever is counted is a percent.
LEMMA CountedArePercents ==
  ASSUME LedgerTypeOK, NEW models \in SUBSET Scoped
  PROVE  Counted(models) \in SUBSET (0..MaxPercent)
<1>1. \A l \in hub.limits : LimitCounts(l) \in 0..MaxPercent
  BY LimitIsPercent
<1>2. \A win \in Windows : seen[win].pct \in 0..MaxPercent
  BY SeenArePercents
<1> QED
  BY <1>1, <1>2, PercentBound DEF Counted

\* Ledger.worst is one of the percents that count, and the greatest, if any counts.
LEMMA WorstIsGreatest ==
  ASSUME LedgerTypeOK, NEW models \in SUBSET Scoped, Counted(models) # {}
  PROVE  /\ Worst(models) \in Counted(models)
         /\ \A p \in Counted(models) : p <= Worst(models)
         /\ Worst(models) \in 0..MaxPercent
<1>1. Counted(models) \in SUBSET (0..MaxPercent)
  BY CountedArePercents
<1>2. \E p \in Counted(models) : \A q \in Counted(models) : q <= p
  BY <1>1, GreatestPercent
<1>3. Worst(models) = CHOOSE p \in Counted(models) : \A q \in Counted(models) : q <= p
  BY DEF Worst
<1> QED
  BY <1>1, <1>2, <1>3

\* A header that is newer than the hub's sample has a percent that counts for no less, or for 100.
LEMMA HeadersCountForMore ==
  ASSUME LedgerTypeOK, NEW win \in Windows, NEW models \in SUBSET Scoped,
         Fresh(seen[win].ts), seen[win].ts > hub.asOf, ~Soon(seen[win].reset),
         seen[win].reset = NoReset => \A l \in hub.limits : ~Soon(l.reset),
         Fresh(hub.asOf) => \E l \in hub.limits : l.name = win
  PROVE  \E p \in Counted(models) : p >= seen[win].pct \/ p >= 100
<1>1. seen[win].pct \in 0..MaxPercent
  BY SeenArePercents
<1>2. CASE Fresh(hub.asOf)
  <2>1. PICK l \in hub.limits : l.name = win
    BY <1>2
  <2>2. Overlays(l)
    BY <2>1 DEF Overlays, Had, Fresh
  <2>3. LimitCounts(l) >= seen[win].pct \/ LimitCounts(l) >= 100
    <3>1. CASE l.active
      BY <1>1, <3>1, PercentBound DEF LimitCounts
    <3>2. CASE ~l.active
      <4>1. LimitCounts(l) = seen[win].pct
        BY <2>1, <2>2, <3>2 DEF LimitCounts
      <4> QED
        BY <1>1, <4>1
    <3> QED
      BY <3>1, <3>2
  <2>4. LimitCounts(l) \in Counted(models)
    BY <1>2, <2>1 DEF Counted, Applies
  <2> QED
    BY <2>3, <2>4
<1>3. CASE ~Fresh(hub.asOf)
  <2>1. seen[win].pct \in Counted(models)
    BY <1>3 DEF Counted
  <2> QED
    BY <1>1, <2>1
<1> QED
  BY <1>2, <1>3

\* Types of the ledger's entry of an account.
THEOREM LedgerTypes == LedgerSpec => []LedgerTypeOK
<1> QED
  BY LedgerInitTypes, LedgerStep, PTL DEF LedgerSpec

\* docs/proxy.md "which are fresher": whatever headers, samples and rejections come in whatever
\* order, the worst percent is at least what a header newer than the hub's sample said, or full (worst).
THEOREM HeadersDecide == LedgerSpec => []HeadersCount
<1>1. LedgerTypeOK => HeadersCount
  <2> SUFFICES ASSUME LedgerTypeOK, NEW win \in Windows, NEW models \in SUBSET Scoped,
                 Fresh(seen[win].ts), seen[win].ts > hub.asOf, ~Soon(seen[win].reset),
                 seen[win].reset = NoReset => \A l \in hub.limits : ~Soon(l.reset),
                 Fresh(hub.asOf) => \E l \in hub.limits : l.name = win
               PROVE  Worst(models) # Unknown /\ (Worst(models) >= seen[win].pct \/ Worst(models) >= 100)
    BY DEF HeadersCount
  <2>1. PICK p \in Counted(models) : p >= seen[win].pct \/ p >= 100
    BY HeadersCountForMore
  <2>2. p <= Worst(models) /\ Worst(models) \in 0..MaxPercent /\ p \in 0..MaxPercent
    BY WorstIsGreatest, CountedArePercents
  <2>3. seen[win].pct \in 0..MaxPercent
    BY SeenArePercents
  <2> QED
    BY <2>1, <2>2, <2>3, TimeAssumption
<1> QED
  BY <1>1, LedgerTypes, PTL

\* "a reading older than this says nothing": every percent that decides was read within STALE
\* or belongs to a window in force (worst).
THEOREM NoneStale == LedgerSpec => []NothingStaleDecides
<1>1. LedgerTypeOK => NothingStaleDecides
  <2> SUFFICES ASSUME LedgerTypeOK, NEW models \in SUBSET Scoped,
                      Worst(models) \notin {Unknown, 0}
               PROVE  \/ \E win \in Windows : inForce[win] > clock
                      \/ \E win \in Windows : /\ clock - seen[win].ts <= Stale /\ Had(seen[win])
                                              /\ seen[win].pct = Worst(models)
                      \/ \E l \in hub.limits :
                           clock - hub.asOf <= Stale /\ (l.active \/ l.pct = Worst(models))
    BY DEF NothingStaleDecides
  <2>1. Counted(models) # {}
    BY DEF Worst
  <2>2. Worst(models) \in Counted(models)
    BY <2>1, WorstIsGreatest
  <2>3. \/ \E win \in Windows : inForce[win] > clock
        \/ /\ Fresh(hub.asOf)
           /\ \E l \in hub.limits : Applies(l, models) /\ Worst(models) = LimitCounts(l)
        \/ \E win \in Windows :
             /\ Fresh(seen[win].ts)
             /\ Worst(models) = IF Soon(seen[win].reset) THEN 0 ELSE seen[win].pct
    BY <2>2 DEF Counted
  <2>4. ASSUME Fresh(hub.asOf), NEW l \in hub.limits, Worst(models) = LimitCounts(l), ~l.active
        PROVE  \/ l.pct = Worst(models)
               \/ Overlays(l) /\ seen[l.name].pct = Worst(models)
    BY <2>4 DEF LimitCounts
  <2> QED
    BY <2>3, <2>4 DEF Fresh, Had, Overlays
<1> QED
  BY <1>1, LedgerTypes, PTL

\* A window in force makes the account full, whatever the hub and the headers say (worst);
\* module QuotaProxy's Worst takes it from here.
THEOREM FullWhileInForce == LedgerSpec => []InForceIsFull
<1>1. LedgerTypeOK => InForceIsFull
  <2> SUFFICES ASSUME LedgerTypeOK, NEW win \in Windows, NEW models \in SUBSET Scoped,
                      inForce[win] > clock
               PROVE  Worst(models) # Unknown /\ Worst(models) >= 100
    BY DEF InForceIsFull
  <2>1. 100 \in Counted(models)
    BY DEF Counted
  <2>2. Worst(models) \in 0..MaxPercent /\ 100 <= Worst(models)
    BY <2>1, WorstIsGreatest
  <2> QED
    BY <2>2, TimeAssumption
<1> QED
  BY <1>1, LedgerTypes, PTL
=============================================================================
