-------------------------- MODULE RouteCacheProofs --------------------------
(***************************************************************************)
(* What holds of the route cache for any number of launchers, kinds and    *)
(* models, accounts and files.                                             *)
(***************************************************************************)
EXTENDS RouteCache, TLAPS

\* Types hold at the start.
LEMMA TypeInit == Init => TypeOK
BY DEF Init, TypeOK, Entries, NoEntries, Entry

\* What is read from any file is a full set of entries (_cache_read).
LEMMA ParsedType == TypeOK => \A i \in Inodes \cup {NoFile} : Parsed(i) \in Entries
BY DEF TypeOK, Parsed, Entries, NoEntries

\* Every step keeps the types.
LEMMA TypeStep == TypeOK /\ HonestInv /\ [Next]_vars => TypeOK'
<1> SUFFICES ASSUME TypeOK, HonestInv, [Next]_vars PROVE TypeOK'
  OBVIOUS
<1> USE TimeAssumption, NameAssumption
<1> USE DEF TypeOK, HonestInv, fileVars, procVars, historyVars
<1>1. ASSUME NEW p \in Procs, NEW k \in Keys, Begin(p, k) PROVE TypeOK'
  BY <1>1 DEF Begin
<1>2. ASSUME NEW p \in Procs, NEW label \in Labels \cup {Nobody}, HubAnswers(p, label)
      PROVE  TypeOK'
  BY <1>2 DEF HubAnswers
<1>3. ASSUME NEW p \in Procs, HubFails(p) PROVE TypeOK'
  BY <1>3 DEF HubFails
<1>4. ASSUME NEW p \in Procs, ReadCache(p) PROVE TypeOK'
  <2>1. Parsed(cache) \in Entries
    BY ParsedType
  <2>2. verdict[p].label \in Labels \cup {Nobody} /\ now[p] \in Nat
    BY <1>4 DEF ReadCache
  <2>3. Merged(Parsed(cache), p) \in Entries
    BY <2>1, <2>2 DEF Merged, Entries, Entry
  <2> QED
    BY <1>4, <2>3 DEF ReadCache
<1>5. ASSUME NEW p \in Procs, OpenTmp(p) PROVE TypeOK'
  <2>1. CASE /\ \E i \in Inodes :
                  /\ IF tmp = NoFile THEN IsFree(i) ELSE i = tmp
                  /\ inode' = [inode EXCEPT ![i] = Empty]
                  /\ tmp' = i
                  /\ fd' = [fd EXCEPT ![p] = i]
                  /\ pc' = [pc EXCEPT ![p] = "write"]
             /\ UNCHANGED <<hold, lone>>
    <3>1. cache # tmp'
      BY <2>1 DEF IsFree
    <3> QED
      BY <1>5, <2>1, <3>1 DEF OpenTmp
  <2>2. CASE Leave(p) /\ UNCHANGED <<inode, tmp>>
    BY <1>5, <2>2 DEF OpenTmp, Leave, Entries, NoEntries
  <2> QED
    BY <1>5, <2>1, <2>2 DEF OpenTmp
<1>6. ASSUME NEW p \in Procs, WriteTmp(p) PROVE TypeOK'
  BY <1>6 DEF WriteTmp
<1>7. ASSUME NEW p \in Procs, Replace(p) PROVE TypeOK'
  BY <1>7 DEF Replace, Stored, Leave, Entries, NoEntries
<1>8. ASSUME NEW p \in Procs, Fallback(p) PROVE TypeOK'
  <2> DEFINE e == Parsed(cache)[key[p]]
  <2>1. e \in Entry \cup {NoEntry}
    BY <1>8, ParsedType DEF Fallback, Entries
  <2>2. verdict' \in [Procs -> [source : {"hub", "cache", "none"}, label : Labels \cup {Nobody}]
                                 \cup {NoVerdict}]
    <3>1. CASE StandsIn(e, p)
      BY <1>8, <2>1, <3>1 DEF Fallback, StandsIn, Entry
    <3>2. CASE ~StandsIn(e, p)
      BY <1>8, <3>2 DEF Fallback
    <3> QED
      BY <3>1, <3>2
  <2> QED
    BY <1>8, <2>2 DEF Fallback, Leave, Entries, NoEntries
<1>9. ASSUME NEW p \in Procs, Crash(p) PROVE TypeOK'
  BY <1>9 DEF Crash, Leave, Entries, NoEntries
<1>10. CASE Tick
  BY <1>10 DEF Tick
<1>11. CASE UNCHANGED vars
  BY <1>11 DEF vars
<1> QED
  BY <1>1, <1>2, <1>3, <1>4, <1>5, <1>6, <1>7, <1>8, <1>9, <1>10, <1>11 DEF Next

\* Nothing is cached, held or returned at the start.
LEMMA HonestInit == Init => HonestInv
BY DEF Init, HonestInv, FallbackIsHonest, Backed, NoEntries

\* What is read from any file is backed by the hub's answers.
LEMMA ParsedBacked == TypeOK /\ HonestInv => Backed(Parsed(cache))
BY DEF TypeOK, HonestInv, Parsed, Backed, NoEntries

\* Every step keeps HonestInv: entries come into being only with an answer, and writers
\* only copy, mix up or lose what is there.
LEMMA HonestStep == TypeOK /\ HonestInv /\ [Next]_vars => HonestInv'
<1> SUFFICES ASSUME TypeOK, HonestInv, [Next]_vars PROVE HonestInv'
  OBVIOUS
<1> USE DEF TypeOK, HonestInv, FallbackIsHonest, Backed, fileVars, procVars, historyVars
<1>1. ASSUME NEW p \in Procs, NEW k \in Keys, Begin(p, k) PROVE HonestInv'
  BY <1>1 DEF Begin
<1>2. ASSUME NEW p \in Procs, NEW label \in Labels \cup {Nobody}, HubAnswers(p, label)
      PROVE  HonestInv'
  BY <1>2, NameAssumption DEF HubAnswers
<1>3. ASSUME NEW p \in Procs, HubFails(p) PROVE HonestInv'
  BY <1>3 DEF HubFails
<1>4. ASSUME NEW p \in Procs, ReadCache(p) PROVE HonestInv'
  <2>1. Backed(Parsed(cache)) /\ Parsed(cache) \in Entries
    BY ParsedBacked, ParsedType
  <2>2. [key |-> key[p], label |-> verdict[p].label, ts |-> now[p]] \in answered
    BY <1>4 DEF ReadCache
  <2>3. Backed(Merged(Parsed(cache), p))
    BY <2>1, <2>2 DEF Merged, Entries
  <2>4. /\ hold' = [hold EXCEPT ![p] = Merged(Parsed(cache), p)]
        /\ pc' = [pc EXCEPT ![p] = "open"]
        /\ UNCHANGED <<inode, key, now, verdict, answered>>
    BY <1>4 DEF ReadCache
  <2>5. \A q \in Procs : hold'[q] = Merged(Parsed(cache), p) \/ hold'[q] = hold[q]
    BY <2>4
  <2>6. \A q \in Procs : Backed(hold'[q])
    BY <2>3, <2>5
  <2>7. \A q \in Procs : /\ pc'[q] # "idle" => pc[q] # "idle"
                         /\ pc'[q] = "read" => pc[q] = "read"
    BY <1>4, <2>4 DEF ReadCache
  <2>8. FallbackIsHonest'
    BY <2>4
  <2>9. \A i \in Inodes : inode'[i] \notin {Empty, Torn} => Backed(inode'[i])
    BY <2>4
  <2>10. \A q \in Procs : (pc'[q] # "idle" => key'[q] \in Keys)
                         /\ (pc'[q] = "read" => /\ verdict'[q] # NoVerdict
                                               /\ [key |-> key'[q], label |-> verdict'[q].label, ts |-> now'[q]] \in answered')
    BY <2>4, <2>7
  <2> QED
    BY <2>4, <2>6, <2>8, <2>9, <2>10
<1>5. ASSUME NEW p \in Procs, OpenTmp(p) PROVE HonestInv'
  BY <1>5 DEF OpenTmp, Leave, NoEntries
<1>6. ASSUME NEW p \in Procs, WriteTmp(p) PROVE HonestInv'
  BY <1>6 DEF WriteTmp
<1>7. ASSUME NEW p \in Procs, Replace(p) PROVE HonestInv'
  BY <1>7 DEF Replace, Leave, NoEntries
<1>8. ASSUME NEW p \in Procs, Fallback(p) PROVE HonestInv'
  <2> DEFINE e == Parsed(cache)[key[p]]
  <2>1. pc[p] = "fallback" /\ key[p] \in Keys /\ UNCHANGED <<inode, key, now, answered>>
    BY <1>8 DEF Fallback
  <2>2. e # NoEntry => [key |-> key[p], label |-> e.label, ts |-> e.ts] \in answered
    BY <2>1, ParsedBacked
  <2>3. FallbackIsHonest'
    <3>1. CASE StandsIn(e, p)
      <4>1. verdict' = [verdict EXCEPT ![p] = [source |-> "cache", label |-> e.label]]
        BY <1>8, <3>1 DEF Fallback
      <4>2. \E a \in answered : a.key = key[p] /\ a.label = e.label /\ now[p] <= a.ts + CacheFor
        BY <2>2, <3>1 DEF StandsIn
      <4>3. verdict'[p].label = e.label /\ \A q \in Procs \ {p} : verdict'[q] = verdict[q]
        BY <4>1
      <4> QED
        BY <2>1, <4>2, <4>3
    <3>2. CASE ~StandsIn(e, p)
      <4>1. verdict' = [verdict EXCEPT ![p] = [source |-> "none", label |-> Nobody]]
        BY <1>8, <3>2 DEF Fallback
      <4> QED
        BY <2>1, <4>1
    <3> QED
      BY <3>1, <3>2
  <2>4. \A q \in Procs : Backed(hold'[q])
    BY <1>8 DEF Fallback, Leave, NoEntries
  <2>5. \A q \in Procs : pc'[q] # "idle" => q # p /\ pc'[q] = pc[q] /\ verdict'[q] = verdict[q]
    BY <1>8 DEF Fallback, Leave
  <2> QED
    BY <2>1, <2>3, <2>4, <2>5
<1>9. ASSUME NEW p \in Procs, Crash(p) PROVE HonestInv'
  BY <1>9 DEF Crash, Leave, NoEntries
<1>10. CASE Tick
  BY <1>10 DEF Tick
<1>11. CASE UNCHANGED vars
  BY <1>11 DEF vars
<1> QED
  BY <1>1, <1>2, <1>3, <1>4, <1>5, <1>6, <1>7, <1>8, <1>9, <1>10, <1>11 DEF Next

-----------------------------------------------------------------------------
\* What a writer that no other one has overlapped is about to put in place.
LoneWriter(p) ==
  /\ pc[p] \in {"open", "write", "replace"}
  /\ Writing \subseteq {p}
  /\ \A k \in Keys : k # key[p] /\ latest[k] # NoEntry => hold[p][k] = latest[k]
  /\ pc[p] = "write" => fd[p] = tmp /\ inode[tmp] = Empty
  /\ pc[p] = "replace" => fd[p] = tmp /\ inode[tmp] = hold[p]

\* What is known to be cached is in the file that CACHE names, and no writer has that file
\* open for writing.
LatestInv ==
  /\ \A p \in Procs : pc[p] \in {"ask", "fallback"} => verdict[p] = NoVerdict
  /\ \A p \in Procs : pc[p] \in {"write", "replace"} => fd[p] \in Inodes
  /\ \A p \in lone : LoneWriter(p)
  /\ \A p \in Procs : pc[p] = "write" /\ fd[p] = cache => latest = NoEntries
  /\ \A k \in Keys : latest[k] # NoEntry =>
       cache # NoFile /\ inode[cache] \notin {Empty, Torn} /\ inode[cache][k] = latest[k]

\* Nothing is cached at the start.
LEMMA LatestInit == Init => LatestInv
BY DEF Init, LatestInv, NoEntries

\* A writer that leaves, with the files as they are.
LEMMA LatestLeaves ==
  ASSUME TypeOK, LatestInv, NEW p \in Procs, Leave(p), UNCHANGED <<fileVars, key, latest>>,
         verdict' \in [Procs -> [source : {"hub", "cache", "none"}, label : Labels \cup {Nobody}]
                                  \cup {NoVerdict}],
         \A q \in Procs : q # p => verdict'[q] = verdict[q]
  PROVE  LatestInv'
<1> USE DEF TypeOK, LatestInv, Leave, fileVars
<1>1. \A q \in Procs : q # p => pc'[q] = pc[q] /\ fd'[q] = fd[q] /\ hold'[q] = hold[q]
  OBVIOUS
<1>2. pc'[p] = "idle"
  OBVIOUS
<1>3. \A q \in lone' : LoneWriter(q)'
  BY <1>1, <1>2 DEF LoneWriter, Writing
<1> QED
  BY <1>1, <1>2, <1>3

\* Every step keeps what is known to be cached.
LEMMA LatestStep == TypeOK /\ HonestInv /\ LatestInv /\ [Next]_vars => LatestInv'
<1> SUFFICES ASSUME TypeOK, HonestInv, LatestInv, [Next]_vars PROVE LatestInv'
  OBVIOUS
<1> USE DEF TypeOK, LatestInv, fileVars, procVars, historyVars
<1>1. ASSUME NEW p \in Procs, NEW k \in Keys, Begin(p, k) PROVE LatestInv'
  <2>1. /\ \A q \in Procs : q # p => pc'[q] = pc[q] /\ key'[q] = key[q] /\ verdict'[q] = verdict[q]
        /\ pc'[p] = "ask" /\ verdict'[p] = NoVerdict /\ pc[p] = "idle"
        /\ UNCHANGED <<inode, cache, tmp, fd, hold, latest, lone>>
    BY <1>1 DEF Begin
  <2>2. \A q \in lone' : LoneWriter(q)'
    BY <2>1 DEF LoneWriter, Writing
  <2> QED
    BY <2>1, <2>2
<1>2. ASSUME NEW p \in Procs, NEW label \in Labels \cup {Nobody}, HubAnswers(p, label)
      PROVE  LatestInv'
  <2>1. /\ \A q \in Procs : q # p => pc'[q] = pc[q] /\ verdict'[q] = verdict[q]
        /\ pc'[p] = "read" /\ pc[p] = "ask"
        /\ UNCHANGED <<inode, cache, tmp, key, fd, hold, latest, lone>>
    BY <1>2 DEF HubAnswers
  <2>2. \A q \in lone' : LoneWriter(q)'
    BY <2>1 DEF LoneWriter, Writing
  <2> QED
    BY <2>1, <2>2
<1>3. ASSUME NEW p \in Procs, HubFails(p) PROVE LatestInv'
  <2>1. /\ \A q \in Procs : q # p => pc'[q] = pc[q]
        /\ pc'[p] = "fallback" /\ pc[p] = "ask"
        /\ UNCHANGED <<inode, cache, tmp, key, fd, hold, verdict, latest, lone>>
    BY <1>3 DEF HubFails
  <2>2. \A q \in lone' : LoneWriter(q)'
    BY <2>1 DEF LoneWriter, Writing
  <2> QED
    BY <2>1, <2>2
<1>4. ASSUME NEW p \in Procs, ReadCache(p) PROVE LatestInv'
  <2>1. /\ \A q \in Procs : q # p => pc'[q] = pc[q] /\ hold'[q] = hold[q]
        /\ pc'[p] = "open" /\ pc[p] = "read" /\ hold'[p] = Merged(Parsed(cache), p)
        /\ UNCHANGED <<inode, cache, tmp, key, fd, verdict, latest>>
        /\ lone' = IF Writing = {} THEN {p} ELSE {}
    BY <1>4 DEF ReadCache
  <2>2. ASSUME Writing = {} PROVE LoneWriter(p)'
    <3>1. Writing' \subseteq {p}
      BY <2>1, <2>2 DEF Writing
    <3>2. \A k \in Keys : k # key[p] /\ latest[k] # NoEntry => hold'[p][k] = latest[k]
      <4> SUFFICES ASSUME NEW k \in Keys, k # key[p], latest[k] # NoEntry
                   PROVE  hold'[p][k] = latest[k]
        OBVIOUS
      <4>1. Parsed(cache)[k] = latest[k]
        BY DEF Parsed
      <4>2. Parsed(cache) \in Entries
        BY ParsedType
      <4> QED
        BY <2>1, <4>1, <4>2 DEF Merged, Entries
    <3> QED
      BY <2>1, <3>1, <3>2 DEF LoneWriter
  <2> QED
    BY <2>1, <2>2
<1>5. ASSUME NEW p \in Procs, OpenTmp(p) PROVE LatestInv'
  <2>1. CASE Leave(p) /\ UNCHANGED <<inode, tmp>>
    BY <1>5, <2>1, LatestLeaves DEF OpenTmp
  <2>2. ASSUME NEW i \in Inodes,
               IF tmp = NoFile THEN IsFree(i) ELSE i = tmp,
               inode' = [inode EXCEPT ![i] = Empty], tmp' = i,
               fd' = [fd EXCEPT ![p] = i], pc' = [pc EXCEPT ![p] = "write"],
               UNCHANGED <<hold, lone>>
        PROVE  LatestInv'
    <3>1. /\ UNCHANGED <<cache, key, verdict, hold, lone, latest>> /\ pc[p] = "open"
          /\ \A q \in Procs : q # p => pc'[q] = pc[q] /\ fd'[q] = fd[q]
          /\ pc'[p] = "write" /\ fd'[p] = i /\ inode'[i] = Empty
      BY <1>5, <2>2 DEF OpenTmp
    <3>2. i # cache /\ (cache # NoFile => inode'[cache] = inode[cache])
      BY <2>2, NameAssumption DEF IsFree
    <3>3. ASSUME NEW q \in lone PROVE LoneWriter(q)'
      <4>1. q = p
        BY <3>1, <3>3 DEF LoneWriter, Writing
      <4>2. Writing' \subseteq {p}
        BY <3>1, <3>3, <4>1 DEF LoneWriter, Writing
      <4> QED
        BY <2>2, <3>1, <3>3, <4>1, <4>2 DEF LoneWriter
    <3>4. \A q \in Procs : pc'[q] = "write" /\ fd'[q] = cache' => latest' = NoEntries
      BY <3>1, <3>2
    <3> QED
      BY <3>1, <3>2, <3>3, <3>4
  <2> QED
    BY <1>5, <2>1, <2>2 DEF OpenTmp
<1>6. ASSUME NEW p \in Procs, WriteTmp(p) PROVE LatestInv'
  <2>1. /\ \A q \in Procs : q # p => pc'[q] = pc[q]
        /\ pc'[p] = "replace" /\ pc[p] = "write" /\ fd[p] \in Inodes
        /\ UNCHANGED <<cache, tmp, key, fd, verdict, hold, lone, latest>>
        /\ \A i \in Inodes : i # fd[p] => inode'[i] = inode[i]
        /\ inode[fd[p]] = Empty => inode'[fd[p]] = hold[p]
    BY <1>6 DEF WriteTmp
  <2>2. ASSUME NEW q \in lone PROVE LoneWriter(q)'
    <3>1. q = p
      BY <2>1, <2>2 DEF LoneWriter, Writing
    <3>2. Writing' \subseteq {p}
      BY <2>1, <2>2, <3>1 DEF LoneWriter, Writing
    <3> QED
      BY <2>1, <2>2, <3>1, <3>2 DEF LoneWriter
  <2>3. ASSUME NEW k \in Keys, latest[k] # NoEntry
        PROVE  cache # NoFile /\ inode'[cache] \notin {Empty, Torn} /\ inode'[cache][k] = latest[k]
    <3>1. fd[p] # cache
      BY <2>1, <2>3 DEF NoEntries
    <3> QED
      BY <2>1, <2>3, <3>1
  <2> QED
    BY <2>1, <2>2, <2>3
<1>7. ASSUME NEW p \in Procs, Replace(p) PROVE LatestInv'
  <2>1. CASE tmp = NoFile
    BY <1>7, <2>1, LatestLeaves DEF Replace
  <2>2. CASE tmp # NoFile
    <3>1. /\ \A q \in Procs : q # p => pc'[q] = pc[q] /\ fd'[q] = fd[q] /\ hold'[q] = hold[q]
          /\ pc'[p] = "idle" /\ pc[p] = "replace" /\ lone' = lone \ {p}
          /\ cache' = tmp /\ tmp' = NoFile /\ latest' = Stored(p)
          /\ UNCHANGED <<inode, key, verdict>>
      BY <1>7, <2>2 DEF Replace, Leave
    <3>2. CASE p \in lone
      <4>1. /\ Writing \subseteq {p} /\ inode[tmp] = hold[p]
            /\ \A k \in Keys : k # key[p] /\ latest[k] # NoEntry => hold[p][k] = latest[k]
        BY <3>1, <3>2 DEF LoneWriter
      <4>2. lone' = {}
        BY <3>1, <4>1 DEF LoneWriter, Writing
      <4>3. \A q \in Procs : pc'[q] # "write"
        BY <3>1, <4>1 DEF Writing
      <4>4. hold[p] \in Entries /\ key[p] \in Keys
        BY <3>1 DEF HonestInv
      <4>5. latest' = [latest EXCEPT ![key[p]] = hold[p][key[p]]]
        BY <3>1, <3>2 DEF Stored
      <4>6. \A k \in Keys : latest'[k] # NoEntry => hold[p][k] = latest'[k]
        BY <4>1, <4>4, <4>5 DEF Entries
      <4>7. inode'[cache'] = hold[p] /\ hold[p] \notin {Empty, Torn}
        BY <3>1, <4>1, <4>4, FileAssumption
      <4> QED
        BY <2>2, <3>1, <4>2, <4>3, <4>6, <4>7
    <3>3. CASE p \notin lone
      <4>1. latest' = NoEntries
        BY <3>1, <3>3 DEF Stored
      <4>2. lone' = {}
        BY <3>1, <3>3 DEF LoneWriter, Writing
      <4> QED
        BY <3>1, <4>1, <4>2 DEF NoEntries
    <3> QED
      BY <3>2, <3>3
  <2> QED
    BY <2>1, <2>2
<1>8. ASSUME NEW p \in Procs, Fallback(p) PROVE LatestInv'
  <2>1. TypeOK'
    BY <1>8, TypeStep DEF Next
  <2> QED
    BY <1>8, <2>1, LatestLeaves DEF Fallback
<1>9. ASSUME NEW p \in Procs, Crash(p) PROVE LatestInv'
  BY <1>9, LatestLeaves DEF Crash
<1>10. CASE Tick
  BY <1>10 DEF Tick, LoneWriter, Writing
<1>11. CASE UNCHANGED vars
  BY <1>11 DEF vars, LoneWriter, Writing
<1> QED
  BY <1>1, <1>2, <1>3, <1>4, <1>5, <1>6, <1>7, <1>8, <1>9, <1>10, <1>11 DEF Next

-----------------------------------------------------------------------------
\* Types of the route cache, and the cache's name and the temporary name never stand for
\* the same file (_cache_write).
THEOREM TypeCorrect == Spec => []TypeOK
<1> QED
  BY TypeInit, TypeStep, HonestInit, HonestStep, PTL DEF Spec

\* However many launchers write CACHE.tmp at once and wherever they are killed, a cached
\* verdict is an answer the hub gave for that kind and model within CACHE_FOR (decide).
THEOREM Honest == Spec => []FallbackIsHonest
<1>1. HonestInv => FallbackIsHonest
  BY DEF HonestInv
<1> QED
  BY <1>1, TypeInit, TypeStep, HonestInit, HonestStep, PTL DEF Spec

\* A decision that is made without the hub gives what is known to be cached for its key.
LEMMA FallbackStands ==
  ASSUME TypeOK, HonestInv, LatestInv, Next, NEW p \in Procs, pc[p] = "fallback",
         verdict'[p] # NoVerdict, StandsIn(latest[key[p]], p)
  PROVE  verdict'[p] = [source |-> "cache", label |-> latest[key[p]].label]
<1> USE DEF TypeOK, LatestInv, fileVars, procVars, historyVars
<1>1. verdict[p] = NoVerdict
  OBVIOUS
<1>2. ASSUME NEW q \in Procs, q # p,
             \/ \E k \in Keys : Begin(q, k)
             \/ \E label \in Labels \cup {Nobody} : HubAnswers(q, label)
             \/ HubFails(q) \/ ReadCache(q) \/ OpenTmp(q) \/ WriteTmp(q) \/ Replace(q)
             \/ Fallback(q) \/ Crash(q)
      PROVE  verdict'[p] = verdict[p]
  BY <1>2 DEF Begin, HubAnswers, HubFails, ReadCache, OpenTmp, WriteTmp, Replace, Fallback, Crash
<1>3. CASE Fallback(p)
  <2> DEFINE k == key[p]
             e == Parsed(cache)[k]
  <2>1. k \in Keys /\ latest[k] # NoEntry
    BY DEF HonestInv, StandsIn
  <2>2. e = latest[k]
    BY <2>1 DEF Parsed
  <2>3. StandsIn(e, p)
    BY <2>2
  <2>4. verdict' = [verdict EXCEPT ![p] = [source |-> "cache", label |-> e.label]]
    <3> HIDE DEF e
    <3> SUFFICES verdict' = [verdict EXCEPT ![p] =
                   IF StandsIn(e, p) THEN [source |-> "cache", label |-> e.label]
                                     ELSE [source |-> "none", label |-> Nobody]]
      BY <2>3
    <3> QED
      BY <1>3 DEF Fallback, e
  <2> QED
    BY <2>2, <2>4
<1>4. CASE Crash(p)
  BY <1>4 DEF Crash
<1>5. CASE Tick
  BY <1>1, <1>5 DEF Tick
<1>6. ~(\E k \in Keys : Begin(p, k)) /\ ~(\E label \in Labels \cup {Nobody} : HubAnswers(p, label))
      /\ ~HubFails(p) /\ ~ReadCache(p) /\ ~OpenTmp(p) /\ ~WriteTmp(p) /\ ~Replace(p)
  BY DEF Begin, HubAnswers, HubFails, ReadCache, OpenTmp, WriteTmp, Replace
<1>7. CASE \E q \in Procs :
             \/ \E k \in Keys : Begin(q, k)
             \/ \E label \in Labels \cup {Nobody} : HubAnswers(q, label)
             \/ HubFails(q) \/ ReadCache(q) \/ OpenTmp(q) \/ WriteTmp(q) \/ Replace(q)
             \/ Fallback(q) \/ Crash(q)
  BY <1>1, <1>2, <1>3, <1>4, <1>6, <1>7
<1> QED
  BY <1>5, <1>7 DEF Next

\* For any number of launchers, killed anywhere: without the hub a decision gives the latest
\* answer that was cached for its key by launchers that did not overlap (decide, _cache_write).
THEOREM Latest == Spec => LastAnswerStands
<1>1. TypeOK /\ HonestInv /\ LatestInv /\ [Next]_vars =>
        [\A p \in Procs :
           pc[p] = "fallback" /\ verdict'[p] # NoVerdict /\ StandsIn(latest[key[p]], p) =>
             verdict'[p] = [source |-> "cache", label |-> latest[key[p]].label]]_vars
  BY FallbackStands
<1> QED
  BY <1>1, TypeInit, TypeStep, HonestInit, HonestStep, LatestInit, LatestStep, PTL
     DEF Spec, LastAnswerStands
=============================================================================
