---------------------------- MODULE RelayProofs ----------------------------
(***************************************************************************)
(* What holds of the relay agent for any number of handlers, processes,    *)
(* sessions, messages and restarts, any skew and any bounds: the types,    *)
(* that a message is delivered at most once and never late, and that an    *)
(* answer tells the truth.  These follow from OnceInv, which says why      *)
(* SEEN may forget a message after 2 * SKEW.  ListingInv, on the registry  *)
(* files, gives that the newest session that was there all along gets the  *)
(* message, and that a 404 is said only when there was none.               *)
(***************************************************************************)
EXTENDS Relay, TLAPS

\* The initial states are well typed.
LEMMA TypeInit == Init => TypeOK
BY SidAssumption, BoundAssumption
   DEF Init, TypeOK, Steps, Idle, Answers, Entry, NoEntry, FileRec, Absent, NoReg, RegRec,
       Claimed, Unsent

\* An answer ends the call and keeps the types (_json).
LEMMA ReplyKeepsTypes ==
  ASSUME TypeOK, NEW h \in Handlers, NEW status \in Answers, Reply(h, status),
         UNCHANGED <<clock, useVars, registryVars, configVars, restarts, copies>>
  PROVE  TypeOK'
<1> USE SidAssumption DEF TypeOK
<1>1. UNCHANGED <<clock, seen, claims, file, proc, hook, current, regs, lastReg, config, rewrites,
                  restarts, copies, msg>>
  BY DEF Reply, useVars, registryVars, configVars
<1>2. /\ pc' \in [Handlers -> Steps]
      /\ answer' \in [Handlers -> Answers]
      /\ at' \in [Handlers -> Nat]
      /\ left' \in [Handlers -> SUBSET Sids]
      /\ found' \in [Handlers -> SUBSET Entry]
      /\ steady' \in [Handlers -> SUBSET Entry]
  BY DEF Reply, Steps, Idle
<1>3. target' \in [Handlers -> Entry \cup {NoEntry}]
  BY DEF Reply
<1>4. \A g \in Handlers : pc'[g] = pc[g] \/ pc'[g] = "done"
  BY DEF Reply
<1>5. \A g \in Handlers :
        /\ pc'[g] \notin Idle => msg'[g] \in Messages
        /\ pc'[g] \in Claimed \cup {"checked"} => msg'[g] \in Signed
  BY <1>1, <1>4 DEF Idle, Claimed, Unsent
<1>6. /\ clock' \in Nat /\ regs' \in Nat /\ rewrites' \in Nat /\ restarts' \in Nat
      /\ seen' \subseteq Signed /\ claims' \subseteq Signed
      /\ msg' \in [Handlers -> Messages \cup {NoMessage}]
      /\ file' \in [Sids -> FileRec]
      /\ \A s \in Sids : file'[s].state = "ok" => file'[s].proc \in Procs
      /\ proc' \in [Procs -> {"new", "live", "gone", "killed"}]
      /\ hook' \in [Procs -> Sids \cup {NoSid}]
      /\ current' \in [Procs -> Sids \cup {NoSid}]
      /\ config' \in {"missing", "ok", "torn"}
      /\ copies' \in [Messages -> Nat]
      /\ lastReg' \in [Procs -> RegRec]
  BY <1>1
<1> QED
  BY <1>2, <1>3, <1>5, <1>6

\* Every step keeps the types.
LEMMA TypeStep == TypeOK /\ [Next]_vars => TypeOK'
<1> SUFFICES ASSUME TypeOK, [Next]_vars PROVE TypeOK'
  OBVIOUS
<1> USE SidAssumption, BoundAssumption, MessageAssumption
<1> USE DEF TypeOK, Steps, Idle, Unsent, Claimed, Answers, Signed, useVars, localVars, registryVars, configVars, handlerVars
<1>1. ASSUME NEW h \in Handlers, NEW m \in Messages, Receive(h, m) PROVE TypeOK'
  BY <1>1 DEF Receive
<1>2. ASSUME NEW h \in Handlers, Check(h) PROVE TypeOK'
  <2>1. CASE Reply(h, 401)
    BY <1>2, <2>1, ReplyKeepsTypes DEF Check
  <2>2. CASE /\ msg[h].signed
             /\ Goto(h, "checked")
             /\ at' = [at EXCEPT ![h] = clock]
             /\ UNCHANGED <<left, found, target, steady>>
    BY <1>2, <2>2 DEF Check, Goto
  <2> QED
    BY <1>2, <2>1, <2>2 DEF Check
<1>3. ASSUME NEW h \in Handlers, FirstUse(h) PROVE TypeOK'
  <2>1. PICK now \in at[h]..clock :
          IF msg[h] \in Kept(now)
            THEN seen' = Kept(now) /\ Reply(h, 401) /\ UNCHANGED claims
            ELSE /\ seen' = Kept(now) \cup {msg[h]}
                 /\ claims' = claims \cup {msg[h]}
                 /\ Goto(h, "claimed")
                 /\ UNCHANGED localVars
    BY <1>3 DEF FirstUse
  <2>2. Kept(now) \subseteq Signed /\ msg[h] \in Signed
    BY <1>3 DEF Kept, FirstUse
  <2>3. UNCHANGED <<clock, registryVars, configVars, restarts, copies>>
    BY <1>3 DEF FirstUse
  <2>4. CASE msg[h] \in Kept(now)
    <3>1. seen' \subseteq Signed /\ claims' \subseteq Signed
      BY <2>1, <2>2, <2>4
    <3>2. Reply(h, 401)
      BY <2>1, <2>4
    <3> QED
      BY <2>3, <3>1, <3>2 DEF Reply, NoEntry
  <2>5. CASE msg[h] \notin Kept(now)
    <3>1. seen' \subseteq Signed /\ claims' \subseteq Signed
      BY <2>1, <2>2, <2>5
    <3>2. /\ pc' = [pc EXCEPT ![h] = "claimed"]
          /\ UNCHANGED <<msg, answer, localVars>>
      BY <2>1, <2>5 DEF Goto
    <3> QED
      BY <2>2, <2>3, <3>1, <3>2
  <2> QED
    BY <2>4, <2>5
<1>4. ASSUME NEW h \in Handlers, Parse(h) PROVE TypeOK'
  <2>1. CASE Reply(h, 400)
    BY <1>4, <2>1, ReplyKeepsTypes DEF Parse
  <2>2. CASE Goto(h, "parsed") /\ UNCHANGED localVars
    BY <1>4, <2>2 DEF Parse, Goto
  <2> QED
    BY <1>4, <2>1, <2>2 DEF Parse
<1>5. ASSUME NEW h \in Handlers, LoadEnvelope(h) PROVE TypeOK'
  <2>1. CASE Reply(h, 503) \/ Reply(h, 0)
    BY <1>5, <2>1, ReplyKeepsTypes DEF LoadEnvelope
  <2>2. CASE Goto(h, "list") /\ UNCHANGED localVars
    BY <1>5, <2>2 DEF LoadEnvelope, Goto
  <2> QED
    BY <1>5, <2>1, <2>2 DEF LoadEnvelope
<1>6. ASSUME NEW h \in Handlers, Glob(h) PROVE TypeOK'
  BY <1>6 DEF Glob, Goto, Registered, RegRec, NoReg, Entry
<1>7. ASSUME NEW h \in Handlers, ReadEntry(h) PROVE TypeOK'
  BY <1>7 DEF ReadEntry, LiveEntries, Entry, FileRec
<1>8. ASSUME NEW h \in Handlers, Select(h) PROVE TypeOK'
  <2>1. CASE Reply(h, 404)
    BY <1>8, <2>1, ReplyKeepsTypes DEF Select
  <2>2. CASE /\ \E e \in found[h] : target' = [target EXCEPT ![h] = e]
             /\ Goto(h, "connect")
             /\ UNCHANGED <<at, left, found, steady>>
    BY <1>8, <2>2 DEF Select, Goto
  <2> QED
    BY <1>8, <2>1, <2>2 DEF Select
<1>9. ASSUME NEW h \in Handlers, Connect(h) PROVE TypeOK'
  <2>1. CASE Reply(h, 502)
    BY <1>9, <2>1, ReplyKeepsTypes DEF Connect
  <2>2. CASE Goto(h, "connected") /\ UNCHANGED localVars
    BY <1>9, <2>2 DEF Connect, Goto
  <2> QED
    BY <1>9, <2>1, <2>2 DEF Connect
<1>10. ASSUME NEW h \in Handlers, Write(h) PROVE TypeOK'
  BY <1>10 DEF Write, Goto
<1>11. ASSUME NEW h \in Handlers, WriteFails(h) \/ Finish(h) PROVE TypeOK'
  BY <1>11, ReplyKeepsTypes DEF WriteFails, Finish
<1>12. ASSUME NEW p \in Procs, StartProcess(p) \/ EndProcess(p) PROVE TypeOK'
  BY <1>12 DEF StartProcess, EndProcess
<1>13. ASSUME NEW p \in Procs, NEW s \in Sids, HookOpen(p, s) PROVE TypeOK'
  <2>1. lastReg' \in [Procs -> RegRec]
    BY <1>13 DEF HookOpen, NoReg, RegRec
  <2>2. steady' \in [Handlers -> SUBSET Entry]
    BY <1>13 DEF HookOpen
  <2>3. /\ file' \in [Sids -> FileRec]
        /\ \A t \in Sids : file'[t].state = "ok" => file'[t].proc \in Procs
    BY <1>13 DEF HookOpen, Torn, FileRec
  <2>4. /\ hook' \in [Procs -> Sids \cup {NoSid}]
        /\ current' \in [Procs -> Sids \cup {NoSid}]
        /\ UNCHANGED <<clock, useVars, pc, msg, answer, at, left, found, target,
                       proc, regs, configVars, restarts, copies>>
    BY <1>13 DEF HookOpen
  <2> QED
    BY <2>1, <2>2, <2>3, <2>4
<1>14. ASSUME NEW p \in Procs, HookWrite(p) PROVE TypeOK'
  BY <1>14 DEF HookWrite, FileRec, RegRec, NoReg
<1>15. ASSUME NEW p \in Procs, HookDies(p) PROVE TypeOK'
  BY <1>15 DEF HookDies
<1>16. CASE ConfigOpen \/ ConfigWrite
  BY <1>16 DEF ConfigOpen, ConfigWrite
<1>17. CASE Restart
  BY <1>17 DEF Restart, NoEntry
<1>18. CASE Tick
  BY <1>18 DEF Tick
<1>19. CASE UNCHANGED vars
  BY <1>19 DEF vars
<1> QED
  BY <1>1, <1>2, <1>3, <1>4, <1>5, <1>6, <1>7, <1>8, <1>9, <1>10, <1>11, <1>12,
     <1>13, <1>14, <1>15, <1>16, <1>17, <1>18, <1>19 DEF Next, Handle, Around, Sessions

-----------------------------------------------------------------------------
\* Types, and that SEEN and every handler past the signature check (do_POST, the check
\* of X-Fleet-Sig) hold only messages with a good signature.
THEOREM TypeCorrect == Spec => []TypeOK
<1>1. Init => TypeOK
  BY TypeInit
<1>2. TypeOK /\ [Next]_vars => TypeOK'
  BY TypeStep
<1> QED
  BY <1>1, <1>2, PTL DEF Spec

\* Nothing is claimed, held or delivered at the start.
LEMMA OnceInit == Init => OnceInv
BY DEF Init, OnceInv, SeenCoversClaims, CheckedIsFresh, OwnersKnowCopies, OneOwner,
       CopiesAreClaimed, Owns, Sent, Claimed, Unsent

\* SEEN keeps what a handler could still bring to first_use: a message that was let
\* through before and has been forgotten is too old to have passed the freshness check.
LEMMA ForgottenIsStale ==
  ASSUME TypeOK, OnceInv, NEW h \in Handlers, pc[h] = "checked", NEW now \in at[h]..clock,
         msg[h] \notin Kept(now)
  PROVE  msg[h] \notin claims
<1> USE SkewAssumption, MessageAssumption
<1>1. /\ msg[h] \in Messages /\ msg[h].ts \in Nat
      /\ at[h] \in Nat /\ clock \in Nat /\ now \in Nat
      /\ Skew \in Nat /\ MaxLag \in Nat /\ MaxLag <= Skew
  BY DEF TypeOK, Claimed, Idle
<1>2. at[h] <= now /\ now <= clock
  BY <1>1
<1>3. clock <= at[h] + MaxLag /\ at[h] <= msg[h].ts + Skew
  BY DEF OnceInv, CheckedIsFresh
<1>4. clock <= msg[h].ts + 2 * Skew
  BY <1>1, <1>3
<1>5. msg[h] \notin seen
  <2>1. msg[h].ts + 2 * Skew >= now
    BY <1>1, <1>2, <1>4
  <2> QED
    BY <2>1 DEF Kept
<1>6. ~(clock > msg[h].ts + 2 * Skew)
  BY <1>1, <1>4
<1> QED
  BY <1>5, <1>6 DEF OnceInv, SeenCoversClaims

\* Pruning at a clock reading that is not in the future keeps SEEN long enough.
LEMMA PruningIsSafe ==
  ASSUME TypeOK, NEW now \in Nat, now <= clock, NEW m \in claims,
         m \in seen \/ clock > m.ts + 2 * Skew
  PROVE  m \in Kept(now) \/ clock > m.ts + 2 * Skew
<1>1. m.ts \in Nat /\ clock \in Nat /\ Skew \in Nat
  BY SkewAssumption, MessageAssumption DEF TypeOK, Signed
<1>2. CASE m \in seen /\ ~(m.ts + 2 * Skew >= now)
  BY <1>1, <1>2
<1> QED
  BY <1>2 DEF Kept

\* Every step keeps OnceInv.  Only first_use claims, only the write counts, and only a
\* new request, a second answer or a restart lets a message go.
LEMMA OnceStep == TypeOK /\ OnceInv /\ [Next]_vars => OnceInv'
<1> SUFFICES ASSUME TypeOK, OnceInv, [Next]_vars PROVE OnceInv'
  OBVIOUS
<1> USE SkewAssumption, MessageAssumption
<1> USE DEF TypeOK, OnceInv, SeenCoversClaims, CheckedIsFresh, OwnersKnowCopies, OneOwner,
            CopiesAreClaimed, Owns, Sent, Claimed, Unsent, Idle, Steps, Signed, useVars, localVars,
            registryVars, configVars, handlerVars
<1>1. ASSUME NEW h \in Handlers, NEW m \in Messages, Receive(h, m) PROVE OnceInv'
  BY <1>1 DEF Receive
<1>2. ASSUME NEW h \in Handlers, Check(h) PROVE OnceInv'
  BY <1>2 DEF Check, Goto, Reply, Fresh
<1>3. ASSUME NEW h \in Handlers, FirstUse(h) PROVE OnceInv'
  <2>1. PICK now \in at[h]..clock :
          IF msg[h] \in Kept(now)
            THEN seen' = Kept(now) /\ Reply(h, 401) /\ UNCHANGED claims
            ELSE /\ seen' = Kept(now) \cup {msg[h]}
                 /\ claims' = claims \cup {msg[h]}
                 /\ Goto(h, "claimed")
                 /\ UNCHANGED localVars
    BY <1>3 DEF FirstUse
  <2>2. /\ pc[h] = "checked" /\ now \in Nat /\ now <= clock
        /\ UNCHANGED <<clock, registryVars, configVars, restarts, copies>>
    BY <1>3 DEF FirstUse
  <2>3. \A m \in claims : m \in Kept(now) \/ clock > m.ts + 2 * Skew
    BY <2>2, PruningIsSafe
  <2>4. CASE msg[h] \in Kept(now)
    <3>1. Reply(h, 401) /\ seen' = Kept(now) /\ UNCHANGED claims
      BY <2>1, <2>4
    <3>2. SeenCoversClaims'
      BY <2>2, <2>3, <3>1
    <3> QED
      BY <2>2, <3>1, <3>2 DEF Reply
  <2>5. CASE msg[h] \notin Kept(now)
    <3>1. /\ seen' = Kept(now) \cup {msg[h]} /\ claims' = claims \cup {msg[h]}
          /\ pc' = [pc EXCEPT ![h] = "claimed"] /\ UNCHANGED <<msg, answer, localVars>>
      BY <2>1, <2>5 DEF Goto
    <3>2. msg[h] \notin claims
      BY <2>2, <2>5, ForgottenIsStale
    <3>3. SeenCoversClaims'
      BY <2>2, <2>3, <3>1
    <3>4. copies[msg[h]] = 0
      BY <2>2, <3>2
    <3>5. \A g \in Handlers : Owns(g) => msg[g] # msg[h]
      BY <3>2
    <3> QED
      BY <2>2, <3>1, <3>3, <3>4, <3>5
  <2> QED
    BY <2>4, <2>5
<1>4. ASSUME NEW h \in Handlers, Parse(h) \/ LoadEnvelope(h) \/ Connect(h) PROVE OnceInv'
  BY <1>4 DEF Parse, LoadEnvelope, Connect, Goto, Reply
<1>5. ASSUME NEW h \in Handlers, Glob(h) \/ ReadEntry(h) PROVE OnceInv'
  BY <1>5 DEF Glob, ReadEntry, Goto
<1>6. ASSUME NEW h \in Handlers, Select(h) PROVE OnceInv'
  BY <1>6 DEF Select, Goto, Reply
<1>7. ASSUME NEW h \in Handlers, Write(h) PROVE OnceInv'
  BY <1>7 DEF Write, Goto
<1>8. ASSUME NEW h \in Handlers, WriteFails(h) PROVE OnceInv'
  BY <1>8 DEF WriteFails, Reply
<1>9. ASSUME NEW h \in Handlers, Finish(h) PROVE OnceInv'
  BY <1>9 DEF Finish, Reply
<1>10. CASE Restart
  BY <1>10 DEF Restart
<1>11. CASE Tick
  BY <1>11 DEF Tick
<1>12. ASSUME UNCHANGED <<clock, useVars, pc, msg, answer, at, copies>> PROVE OnceInv'
  BY <1>12
<1>13. ASSUME NEW p \in Procs, StartProcess(p) \/ EndProcess(p) \/ HookWrite(p) \/ HookDies(p)
       PROVE UNCHANGED <<clock, useVars, pc, msg, answer, at, copies>>
  BY <1>13 DEF StartProcess, EndProcess, HookWrite, HookDies
<1>14. ASSUME NEW p \in Procs, NEW s \in Sids, HookOpen(p, s)
       PROVE UNCHANGED <<clock, useVars, pc, msg, answer, at, copies>>
  BY <1>14 DEF HookOpen
<1>15. ConfigOpen \/ ConfigWrite \/ UNCHANGED vars
         => UNCHANGED <<clock, useVars, pc, msg, answer, at, copies>>
  BY DEF ConfigOpen, ConfigWrite, vars
<1> QED
  BY <1>1, <1>2, <1>3, <1>4, <1>5, <1>6, <1>7, <1>8, <1>9, <1>10, <1>11, <1>12,
     <1>13, <1>14, <1>15 DEF Next, Handle, Around, Sessions

\* README "Signed, fresh, once": whatever the relay's handlers do at the same time and
\* however often a request is posted, a message is delivered at most once in one
\* lifetime of the relay (first_use).
THEOREM Once == Spec => []AtMostOnce
<1>1. Init => OnceInv
  BY OnceInit
<1>2. TypeOK /\ OnceInv /\ [Next]_vars => OnceInv'
  BY OnceStep
<1>3. OnceInv => AtMostOnce
  BY DEF OnceInv, AtMostOnce, CopiesAreClaimed, OneOwner, Owns
<1> QED
  BY <1>1, <1>2, <1>3, TypeCorrect, PTL DEF Spec

\* No lifetime of the relay lets a message through that is older than the skew allows, whatever
\* the ones before it have forgotten (do_POST, first_use).
THEOREM Window == Spec => OnlyFreshIsTaken
<1> DEFINE FreshTaken == \A m \in claims' \ claims : clock <= m.ts + Skew + MaxLag
<1>1. Init => OnceInv
  BY OnceInit
<1>2. TypeOK /\ OnceInv /\ [Next]_vars => OnceInv'
  BY OnceStep
<1>3. TypeOK /\ OnceInv /\ [Next]_vars => FreshTaken
  <2> SUFFICES ASSUME TypeOK, OnceInv, [Next]_vars, NEW m \in claims', m \notin claims
               PROVE  clock <= m.ts + Skew + MaxLag
    OBVIOUS
  <2>1. PICK h \in Handlers : FirstUse(h)
    BY DEF Next, Handle, Around, Sessions, Receive, Check, Parse, LoadEnvelope, Glob, ReadEntry, Select,
           Connect, Write, WriteFails, Finish, StartProcess, EndProcess, HookOpen, HookWrite,
           HookDies, ConfigOpen, ConfigWrite, Restart, Tick, useVars, vars
  <2>2. m = msg[h] /\ pc[h] = "checked"
    BY <2>1 DEF FirstUse
  <2>3. at[h] \in Nat /\ clock \in Nat /\ m.ts \in Nat /\ Skew \in Nat /\ MaxLag \in Nat
    BY <2>2, SkewAssumption, MessageAssumption DEF TypeOK, Claimed, Idle
  <2>4. clock <= at[h] + MaxLag /\ at[h] <= m.ts + Skew
    BY <2>2 DEF OnceInv, CheckedIsFresh
  <2> QED
    BY <2>3, <2>4
<1>4. Spec => [][FreshTaken]_vars
  BY <1>1, <1>2, <1>3, TypeCorrect, PTL DEF Spec
<1> QED
  BY <1>4 DEF OnlyFreshIsTaken

\* A 200 means that the message lies in an inbox, and a refusal that it does not
\* (do_POST, deliver).
THEOREM Truth == Spec => []AnswerIsTruth
<1>1. Init => OnceInv
  BY OnceInit
<1>2. TypeOK /\ OnceInv /\ [Next]_vars => OnceInv'
  BY OnceStep
<1>3. OnceInv => AnswerIsTruth
  BY DEF OnceInv, AnswerIsTruth, OwnersKnowCopies, Owns, Sent
<1> QED
  BY <1>1, <1>2, <1>3, TypeCorrect, PTL DEF Spec

-----------------------------------------------------------------------------
Locals(h) == <<pc[h], at[h], left[h], found[h], target[h]>>

\* A request goes on by a step, or by reading one more file.
GoesOn(h) ==
  \/ ToGo(pc'[h]) < ToGo(pc[h])
  \/ pc'[h] = pc[h] /\ left'[h] \subseteq left[h] /\ left'[h] # left[h]

\* A reply leaves nothing to do.
LEMMA RepliesEnd ==
  ASSUME TypeOK, NEW h \in Handlers, pc[h] \notin Idle, NEW status, Reply(h, status)
  PROVE  GoesOn(h)
<1>1. pc'[h] = "done"
  BY DEF Reply, TypeOK
<1>2. pc[h] \in Steps \ Idle
  BY DEF TypeOK
<1> QED
  BY <1>1, <1>2 DEF GoesOn, ToGo, Steps, Idle, Claimed, Unsent

\* Of two places of do_POST the later one has less to go.
LEMMA PlacesInOrder ==
  ASSUME TypeOK, NEW h \in Handlers, NEW step, Goto(h, step),
         <<pc[h], step>> \in { <<"received", "checked">>, <<"checked", "claimed">>,
           <<"claimed", "parsed">>, <<"parsed", "list">>, <<"list", "scan">>, <<"scan", "connect">>,
           <<"connect", "connected">>, <<"connected", "written">> }
  PROVE  GoesOn(h)
<1>1. pc'[h] = step
  BY DEF Goto, TypeOK
<1> QED
  BY <1>1 DEF GoesOn, ToGo, Idle

\* What another handler does is nothing to this one.
LEMMA OthersLeaveAlone ==
  ASSUME TypeOK, NEW g \in Handlers, NEW h \in Handlers, g # h,
         Handle(g) \/ \E m \in Messages : Receive(g, m)
  PROVE  UNCHANGED Locals(h)
<1> USE DEF TypeOK, Locals, localVars
<1>1. ASSUME NEW step, Goto(g, step) PROVE pc'[h] = pc[h]
  BY <1>1 DEF Goto
<1>2. ASSUME NEW status, Reply(g, status) PROVE UNCHANGED Locals(h)
  BY <1>2 DEF Reply
<1>3. CASE Check(g) \/ FirstUse(g)
  BY <1>1, <1>2, <1>3 DEF Check, FirstUse
<1>4. CASE Parse(g) \/ LoadEnvelope(g)
  BY <1>1, <1>2, <1>4 DEF Parse, LoadEnvelope
<1>5. CASE Glob(g) \/ ReadEntry(g)
  BY <1>1, <1>5 DEF Glob, ReadEntry
<1>6. CASE Select(g)
  BY <1>1, <1>2, <1>6 DEF Select
<1>7. CASE Connect(g) \/ Write(g) \/ WriteFails(g) \/ Finish(g)
  BY <1>1, <1>2, <1>7 DEF Connect, Write, WriteFails, Finish
<1>8. CASE \E m \in Messages : Receive(g, m)
  BY <1>8 DEF Receive
<1> QED
  BY <1>3, <1>4, <1>5, <1>6, <1>7, <1>8 DEF Handle

\* A handler's own step takes its request on.
LEMMA OwnStepGoesOn ==
  ASSUME TypeOK, NEW h \in Handlers, Handle(h)
  PROVE  GoesOn(h)
<1>1. CASE Check(h)
  BY <1>1, RepliesEnd, PlacesInOrder DEF Check, Idle
<1>2. CASE FirstUse(h)
  BY <1>2, RepliesEnd, PlacesInOrder DEF FirstUse, Idle
<1>3. CASE Parse(h) \/ LoadEnvelope(h)
  BY <1>3, RepliesEnd, PlacesInOrder DEF Parse, LoadEnvelope, Idle
<1>4. CASE Glob(h)
  BY <1>4, PlacesInOrder DEF Glob
<1>5. CASE ReadEntry(h)
  <2>1. PICK s \in left[h] : left' = [left EXCEPT ![h] = @ \ {s}]
    BY <1>5 DEF ReadEntry
  <2>2. pc' = pc /\ left'[h] = left[h] \ {s}
    BY <1>5, <2>1 DEF ReadEntry, TypeOK
  <2> QED
    BY <2>2 DEF GoesOn
<1>6. CASE Select(h)
  BY <1>6, RepliesEnd, PlacesInOrder DEF Select, Idle
<1>7. CASE Connect(h) \/ Write(h)
  BY <1>7, RepliesEnd, PlacesInOrder DEF Connect, Write, Idle
<1>8. CASE WriteFails(h) \/ Finish(h)
  BY <1>8, RepliesEnd DEF WriteFails, Finish, Idle
<1> QED
  BY <1>1, <1>2, <1>3, <1>4, <1>5, <1>6, <1>7, <1>8 DEF Handle

\* Every step of do_POST takes the request on, to a later place or past one more file of the
\* registry, and nothing else sends it back: so it ends, as the registry is finite.
THEOREM RequestsGoOn == Spec => HandlersGetOn
<1> DEFINE On ==
      \A h \in Handlers :
        pc[h] \notin Idle /\ <<pc'[h], at'[h], left'[h], found'[h], target'[h]>>
                             # <<pc[h], at[h], left[h], found[h], target[h]>>
          => \/ ToGo(pc'[h]) < ToGo(pc[h])
             \/ pc'[h] = pc[h] /\ left'[h] \subseteq left[h] /\ left'[h] # left[h]
<1>1. TypeOK /\ [Next]_vars => On
  <2> SUFFICES ASSUME TypeOK, [Next]_vars, NEW h \in Handlers, pc[h] \notin Idle, Locals(h)' # Locals(h)
               PROVE  GoesOn(h)
    BY DEF Locals, GoesOn
  <2>1. CASE \E g \in Handlers : Handle(g)
    BY <2>1, OwnStepGoesOn, OthersLeaveAlone
  <2>2. CASE \E g \in Handlers, m \in Messages : Receive(g, m)
    <3>1. PICK g \in Handlers : \E m \in Messages : Receive(g, m)
      BY <2>2
    <3>2. g # h
      BY <3>1 DEF Receive
    <3> QED
      BY <3>1, <3>2, OthersLeaveAlone
  <2>3. CASE Restart
    <3>1. pc'[h] = "idle"
      BY <2>3 DEF Restart
    <3>2. pc[h] \in Steps \ Idle
      BY DEF TypeOK
    <3> QED
      BY <3>1, <3>2 DEF GoesOn, ToGo, Steps, Idle, Claimed, Unsent
  <2>4. CASE Around \/ UNCHANGED vars
    <3>1. UNCHANGED <<pc, at, left, found, target>>
      BY <2>4 DEF Around, Sessions, StartProcess, EndProcess, HookOpen, HookWrite, HookDies, ConfigOpen,
                  ConfigWrite, Tick, handlerVars, localVars, vars
    <3> QED
      BY <3>1 DEF Locals
  <2> QED
    BY <2>1, <2>2, <2>3, <2>4 DEF Next
<1>2. Spec => [][On]_vars
  BY <1>1, TypeCorrect, PTL DEF Spec
<1> QED
  BY <1>2 DEF HandlersGetOn

-----------------------------------------------------------------------------
\* The registration a process has completed is what its file says, and no hook is at it.
FilesSayRegistered ==
  \A p \in Procs :
    lastReg[p].at > 0 =>
      /\ file[lastReg[p].sid] = [state |-> "ok", proc |-> p, at |-> lastReg[p].at]
      /\ \A q \in Procs : hook[q] # lastReg[p].sid

\* One hook at a time writes a file.
OneHook == \A p, q \in Procs : hook[p] # NoSid /\ hook[p] = hook[q] => p = q

\* Whoever has been there all the while is still there to be read, or has been.
SteadyIsSeen ==
  \A h \in Handlers :
    pc[h] = "scan" =>
      \A e \in steady[h] :
        /\ proc[e.proc] = "live"
        /\ file[e.sid] = [state |-> "ok", proc |-> e.proc, at |-> e.at]
        /\ \A q \in Procs : hook[q] # e.sid
        /\ e.sid \in left[h] \/ e \in found[h]

\* The inductive strengthening of NewestLiveWins.
ListingInv ==
  /\ FilesSayRegistered
  /\ OneHook
  /\ SteadyIsSeen
  /\ NewestLiveWins

\* The registry is empty at the start.
LEMMA ListingInit == Init => ListingInv
BY SidAssumption
   DEF Init, ListingInv, FilesSayRegistered, OneHook, SteadyIsSeen, NewestLiveWins, NoReg

\* Reading a file that has been left alone finds its registration.
LEMMA ReadFinds ==
  ASSUME TypeOK, NEW s \in Sids, NEW e \in Entry, e.sid = s, proc[e.proc] = "live",
         file[s] = [state |-> "ok", proc |-> e.proc, at |-> e.at]
  PROVE  e \in LiveEntries(s)
BY DEF LiveEntries, SocketExists, Entry

\* Every step keeps ListingInv.
LEMMA ListingStep == TypeOK /\ ListingInv /\ [Next]_vars => ListingInv'
<1> SUFFICES ASSUME TypeOK, ListingInv, [Next]_vars PROVE ListingInv'
  OBVIOUS
<1> USE SidAssumption
<1> USE DEF TypeOK, ListingInv, useVars, localVars, handlerVars, registryVars, configVars
<1>1. ASSUME NEW h \in Handlers,
             \/ \E m \in Messages : Receive(h, m)
             \/ Check(h) \/ FirstUse(h) \/ Parse(h) \/ LoadEnvelope(h)
             \/ Connect(h) \/ Write(h) \/ WriteFails(h) \/ Finish(h)
      PROVE  ListingInv'
  <2>1. UNCHANGED registryVars
    BY <1>1 DEF Receive, Check, FirstUse, Parse, LoadEnvelope, Connect, Write, WriteFails, Finish
  <2>2. \A g \in Handlers : g # h =>
          /\ pc'[g] = pc[g] /\ msg'[g] = msg[g] /\ left'[g] = left[g] /\ found'[g] = found[g]
          /\ target'[g] = target[g] /\ steady'[g] = steady[g]
    BY <1>1 DEF Receive, Check, FirstUse, Parse, LoadEnvelope, Connect, Write, WriteFails, Finish,
                Goto, Reply
  <2>3. pc'[h] \notin {"scan", "connect"}
    BY <1>1 DEF Receive, Check, FirstUse, Parse, LoadEnvelope, Connect, Write, WriteFails, Finish,
                Goto, Reply
  <2> QED
    BY <2>1, <2>2, <2>3 DEF FilesSayRegistered, OneHook, SteadyIsSeen, NewestLiveWins, Matches
<1>2. ASSUME NEW h \in Handlers, Glob(h) PROVE ListingInv'
  <2>1. /\ UNCHANGED <<registryVars, msg, found, target>>
        /\ \A g \in Handlers : g # h =>
             pc'[g] = pc[g] /\ left'[g] = left[g] /\ steady'[g] = steady[g]
        /\ pc'[h] = "scan" /\ left'[h] = {s \in Sids : file[s].state # "absent"}
        /\ steady'[h] = {e \in Registered : proc[e.proc] = "live"}
    BY <1>2 DEF Glob, Goto
  <2>2. ASSUME NEW e \in steady'[h]
        PROVE  /\ proc[e.proc] = "live"
               /\ file[e.sid] = [state |-> "ok", proc |-> e.proc, at |-> e.at]
               /\ \A q \in Procs : hook[q] # e.sid
               /\ e.sid \in left'[h]
    <3>1. PICK p \in Procs : /\ lastReg[p].at > 0
                             /\ e = [sid |-> lastReg[p].sid, proc |-> p, at |-> lastReg[p].at]
      BY <2>1 DEF Registered
    <3>2. lastReg[p].sid \in Sids
      BY <3>1 DEF RegRec, NoReg
    <3> QED
      BY <2>1, <3>1, <3>2 DEF FilesSayRegistered
  <2> QED
    BY <2>1, <2>2 DEF FilesSayRegistered, OneHook, SteadyIsSeen, NewestLiveWins, Matches
<1>3. ASSUME NEW h \in Handlers, ReadEntry(h) PROVE ListingInv'
  <2>1. PICK s \in left[h] : /\ left' = [left EXCEPT ![h] = @ \ {s}]
                             /\ found' = [found EXCEPT ![h] = @ \cup LiveEntries(s)]
    BY <1>3 DEF ReadEntry
  <2>2. /\ UNCHANGED <<registryVars, msg, pc, target, steady>> /\ pc[h] = "scan" /\ s \in Sids
    BY <1>3, <2>1 DEF ReadEntry
  <2>3. \A e \in steady[h] : e.sid \in left'[h] \/ e \in found'[h]
    <3> SUFFICES ASSUME NEW e \in steady[h], e.sid = s, e \notin found[h]
                 PROVE  e \in LiveEntries(s)
      BY <2>1, <2>2 DEF SteadyIsSeen
    <3> QED
      BY <2>2, ReadFinds DEF SteadyIsSeen
  <2> QED
    BY <2>1, <2>2, <2>3 DEF FilesSayRegistered, OneHook, SteadyIsSeen, NewestLiveWins, Matches
<1>4. ASSUME NEW h \in Handlers, Select(h) PROVE ListingInv'
  <2> DEFINE wanted == {f \in found[h] : Matches(f, msg[h])}
  <2>1. \/ Reply(h, 404)
        \/ /\ Goto(h, "connect") /\ UNCHANGED <<left, found, steady>>
           /\ \E f \in wanted : IsTarget(f, wanted) /\ target' = [target EXCEPT ![h] = f]
    BY <1>4 DEF Select
  <2>2. UNCHANGED registryVars /\ pc[h] = "scan" /\ left[h] = {}
    BY <1>4 DEF Select
  <2> HIDE DEF wanted
  <2>3. /\ UNCHANGED <<registryVars, msg>> /\ pc[h] = "scan" /\ left[h] = {}
        /\ \A g \in Handlers : g # h =>
             /\ pc'[g] = pc[g] /\ left'[g] = left[g] /\ found'[g] = found[g]
             /\ target'[g] = target[g] /\ steady'[g] = steady[g]
    BY <2>1, <2>2 DEF Goto, Reply
  <2>4. pc'[h] \in {"done", "connect"}
    BY <2>1, <2>2 DEF Goto, Reply
  <2>5. ASSUME pc'[h] = "connect", NEW e \in steady'[h], Matches(e, msg[h])
        PROVE  e.at <= target'[h].at
    <3>1. ~Reply(h, 404)
      BY <2>5 DEF Reply
    <3>2. PICK f \in wanted : IsTarget(f, wanted) /\ target' = [target EXCEPT ![h] = f]
      BY <2>1, <3>1
    <3>3. steady'[h] = steady[h]
      BY <2>1, <3>1
    <3>4. e \in wanted
      BY <2>3, <2>5, <3>3 DEF SteadyIsSeen, wanted
    <3>5. f.at >= e.at /\ f.at \in Nat /\ e.at \in Nat
      BY <3>2, <3>4 DEF IsTarget, Entry, wanted
    <3> QED
      BY <3>2, <3>5
  <2> QED
    BY <2>3, <2>4, <2>5 DEF FilesSayRegistered, OneHook, SteadyIsSeen, NewestLiveWins, Matches
<1>5. ASSUME NEW p \in Procs, StartProcess(p) PROVE ListingInv'
  <2>1. /\ UNCHANGED <<handlerVars, file, hook, lastReg>>
        /\ \A q \in Procs : proc[q] = "live" => proc'[q] = "live"
    BY <1>5 DEF StartProcess
  <2> QED
    BY <2>1 DEF FilesSayRegistered, OneHook, SteadyIsSeen, NewestLiveWins, Matches, Entry
<1>6. ASSUME NEW p \in Procs, EndProcess(p) PROVE ListingInv'
  <2>1. /\ UNCHANGED <<pc, msg, left, found, target, file, hook, lastReg>>
        /\ \A h \in Handlers : steady'[h] = {e \in steady[h] : e.proc # p}
        /\ \A q \in Procs : q # p => proc'[q] = proc[q]
    BY <1>6 DEF EndProcess
  <2> QED
    BY <2>1 DEF FilesSayRegistered, OneHook, SteadyIsSeen, NewestLiveWins, Matches, Entry
<1>7. ASSUME NEW p \in Procs, NEW s \in Sids, HookOpen(p, s) PROVE ListingInv'
  <2>1. /\ UNCHANGED <<pc, msg, left, found, target, proc>>
        /\ \A h \in Handlers : steady'[h] = {e \in steady[h] : e.sid # s}
        /\ \A q \in Procs : lastReg'[q] = IF lastReg[q].sid = s THEN NoReg ELSE lastReg[q]
        /\ \A t \in Sids : t # s => file'[t] = file[t]
        /\ \A q \in Procs : hook[q] # s
        /\ hook'[p] = s /\ \A q \in Procs : q # p => hook'[q] = hook[q]
    BY <1>7 DEF HookOpen
  <2>2. FilesSayRegistered'
    <3> SUFFICES ASSUME NEW q \in Procs, lastReg'[q].at > 0
                 PROVE  /\ file'[lastReg'[q].sid]
                             = [state |-> "ok", proc |-> q, at |-> lastReg'[q].at]
                        /\ \A r \in Procs : hook'[r] # lastReg'[q].sid
      BY DEF FilesSayRegistered
    <3>1. lastReg[q].sid # s /\ lastReg'[q] = lastReg[q] /\ lastReg[q].sid \in Sids
      BY <2>1 DEF NoReg, RegRec
    <3>2. /\ file[lastReg[q].sid] = [state |-> "ok", proc |-> q, at |-> lastReg[q].at]
          /\ \A r \in Procs : hook[r] # lastReg[q].sid
      BY <3>1 DEF FilesSayRegistered
    <3>3. file'[lastReg[q].sid] = file[lastReg[q].sid]
      BY <2>1, <3>1
    <3>4. \A r \in Procs : hook'[r] # lastReg[q].sid
      BY <2>1, <3>1, <3>2
    <3> QED
      BY <3>1, <3>2, <3>3, <3>4
  <2>3. OneHook'
    BY <2>1 DEF OneHook
  <2>4. SteadyIsSeen'
    <3> SUFFICES ASSUME NEW h \in Handlers, pc'[h] = "scan", NEW e \in steady'[h]
                 PROVE  /\ proc'[e.proc] = "live"
                        /\ file'[e.sid] = [state |-> "ok", proc |-> e.proc, at |-> e.at]
                        /\ \A q \in Procs : hook'[q] # e.sid
                        /\ e.sid \in left'[h] \/ e \in found'[h]
      BY DEF SteadyIsSeen
    <3>1. e \in steady[h] /\ e.sid \in Sids /\ e.sid # s
      BY <2>1 DEF Entry
    <3>2. /\ proc[e.proc] = "live"
          /\ file[e.sid] = [state |-> "ok", proc |-> e.proc, at |-> e.at]
          /\ \A q \in Procs : hook[q] # e.sid
          /\ e.sid \in left[h] \/ e \in found[h]
      BY <2>1, <3>1 DEF SteadyIsSeen
    <3>3. file'[e.sid] = file[e.sid]
      BY <2>1, <3>1
    <3>4. \A q \in Procs : hook'[q] # e.sid
      BY <2>1, <3>1, <3>2
    <3> QED
      BY <2>1, <3>2, <3>3, <3>4
  <2>5. NewestLiveWins'
    BY <2>1 DEF NewestLiveWins, Matches
  <2> QED
    BY <2>2, <2>3, <2>4, <2>5
<1>8. ASSUME NEW p \in Procs, HookWrite(p) PROVE ListingInv'
  <2> DEFINE s == hook[p]
  <2>1. /\ UNCHANGED <<pc, msg, left, found, target, proc, steady>>
        /\ s \in Sids /\ hook'[p] = NoSid /\ \A q \in Procs : q # p => hook'[q] = hook[q]
        /\ file'[s] = [state |-> "ok", proc |-> p, at |-> regs + 1]
        /\ \A t \in Sids : t # s => file'[t] = file[t]
        /\ lastReg'[p] = [sid |-> s, at |-> regs + 1]
        /\ \A q \in Procs : q # p => lastReg'[q] = lastReg[q]
    BY <1>8 DEF HookWrite
  <2>2. FilesSayRegistered'
    <3> SUFFICES ASSUME NEW q \in Procs, lastReg'[q].at > 0
                 PROVE  /\ file'[lastReg'[q].sid]
                             = [state |-> "ok", proc |-> q, at |-> lastReg'[q].at]
                        /\ \A r \in Procs : hook'[r] # lastReg'[q].sid
      BY DEF FilesSayRegistered
    <3>1. CASE q = p
      BY <2>1, <3>1 DEF OneHook
    <3>2. CASE q # p
      <4>1. lastReg'[q] = lastReg[q]
        BY <2>1, <3>2
      <4>2. /\ file[lastReg[q].sid] = [state |-> "ok", proc |-> q, at |-> lastReg[q].at]
            /\ \A r \in Procs : hook[r] # lastReg[q].sid
        BY <4>1 DEF FilesSayRegistered
      <4>3. lastReg[q].sid # s /\ lastReg[q].sid \in Sids
        BY <4>1, <4>2 DEF RegRec, NoReg
      <4>4. file'[lastReg[q].sid] = file[lastReg[q].sid]
        BY <2>1, <4>3
      <4>5. \A r \in Procs : hook'[r] # lastReg[q].sid
        BY <2>1, <4>2, <4>3
      <4> QED
        BY <4>1, <4>2, <4>4, <4>5
    <3> QED
      BY <3>1, <3>2
  <2>3. OneHook'
    BY <2>1 DEF OneHook
  <2>4. SteadyIsSeen'
    <3> SUFFICES ASSUME NEW h \in Handlers, pc'[h] = "scan", NEW e \in steady'[h]
                 PROVE  /\ proc'[e.proc] = "live"
                        /\ file'[e.sid] = [state |-> "ok", proc |-> e.proc, at |-> e.at]
                        /\ \A q \in Procs : hook'[q] # e.sid
                        /\ e.sid \in left'[h] \/ e \in found'[h]
      BY DEF SteadyIsSeen
    <3>1. e \in steady[h] /\ e.sid \in Sids
      BY <2>1 DEF Entry
    <3>2. /\ proc[e.proc] = "live"
          /\ file[e.sid] = [state |-> "ok", proc |-> e.proc, at |-> e.at]
          /\ \A q \in Procs : hook[q] # e.sid
          /\ e.sid \in left[h] \/ e \in found[h]
      BY <2>1, <3>1 DEF SteadyIsSeen
    <3>3. e.sid # s /\ file'[e.sid] = file[e.sid]
      BY <2>1, <3>1, <3>2
    <3>4. \A q \in Procs : hook'[q] # e.sid
      BY <2>1, <3>1, <3>2
    <3> QED
      BY <2>1, <3>2, <3>3, <3>4
  <2>5. NewestLiveWins'
    BY <2>1 DEF NewestLiveWins, Matches
  <2> QED
    BY <2>2, <2>3, <2>4, <2>5
<1>9. ASSUME NEW p \in Procs, HookDies(p) PROVE ListingInv'
  <2>1. /\ UNCHANGED <<handlerVars, file, proc, lastReg>>
        /\ hook'[p] = NoSid /\ \A q \in Procs : q # p => hook'[q] = hook[q]
    BY <1>9 DEF HookDies
  <2> QED
    BY <2>1 DEF FilesSayRegistered, OneHook, SteadyIsSeen, NewestLiveWins, Matches, Entry, RegRec, NoReg
<1>10. CASE Restart
  BY <1>10 DEF Restart, FilesSayRegistered, OneHook, SteadyIsSeen, NewestLiveWins
<1>11. CASE ConfigOpen \/ ConfigWrite \/ Tick \/ UNCHANGED vars
  BY <1>11 DEF ConfigOpen, ConfigWrite, Tick, vars, FilesSayRegistered, OneHook, SteadyIsSeen,
               NewestLiveWins, Matches
<1> QED
  BY <1>1, <1>2, <1>3, <1>4, <1>5, <1>6, <1>7, <1>8, <1>9, <1>10, <1>11
     DEF Next, Handle, Around, Sessions

\* However sessions register, end and are killed while the registry is read, the message goes to
\* the newest of those that were there all along (live_sessions).
THEOREM Newest == Spec => []NewestLiveWins
<1>1. ListingInv => NewestLiveWins
  BY DEF ListingInv
<1> QED
  BY <1>1, ListingInit, ListingStep, TypeCorrect, PTL DEF Spec

\* "no live registered session" is never said when there was one all along (live_sessions).
THEOREM NotFound == Spec => NotFoundMeansNone
<1> DEFINE TrueNone == \A h \in Handlers :
                         pc[h] = "scan" /\ pc'[h] = "done" /\ answer'[h] = 404 =>
                           \A e \in steady[h] : ~Matches(e, msg[h])
<1>1. TypeOK /\ ListingInv /\ [Next]_vars => TrueNone
  <2> SUFFICES ASSUME TypeOK, ListingInv, [Next]_vars, NEW h \in Handlers, pc[h] = "scan",
                      pc'[h] = "done", NEW e \in steady[h], Matches(e, msg[h])
               PROVE  FALSE
    OBVIOUS
  <2> USE DEF TypeOK
  <2>1. CASE \E g \in Handlers : g # h /\ (Handle(g) \/ \E m \in Messages : Receive(g, m))
    BY <2>1 DEF Handle, Receive, Check, FirstUse, Parse, LoadEnvelope, Glob, ReadEntry, Select,
                Connect, Write, WriteFails, Finish, Goto, Reply
  <2>2. CASE Around \/ Restart \/ UNCHANGED vars
    BY <2>2 DEF Around, Sessions, StartProcess, EndProcess, HookOpen, HookWrite, HookDies,
                ConfigOpen, ConfigWrite, Tick, Restart, handlerVars, vars
  <2>3. CASE Handle(h) \/ \E m \in Messages : Receive(h, m)
    <3>1. Select(h)
      BY <2>3 DEF Handle, Receive, Check, FirstUse, Parse, LoadEnvelope, Glob, ReadEntry, Connect,
                  Write, WriteFails, Finish, Goto, Idle
    <3>2. left[h] = {} /\ pc[h] = "scan"
      BY <3>1 DEF Select
    <3>3. e \in {f \in found[h] : Matches(f, msg[h])}
      BY <3>2 DEF ListingInv, SteadyIsSeen
    <3>4. Goto(h, "connect")
      BY <3>1, <3>3 DEF Select
    <3> QED
      BY <3>2, <3>4 DEF Goto
  <2> QED
    BY <2>1, <2>2, <2>3 DEF Next
<1>2. Spec => [][TrueNone]_vars
  BY <1>1, ListingInit, ListingStep, TypeCorrect, PTL DEF Spec
<1> QED
  BY <1>2 DEF NotFoundMeansNone
=============================================================================
