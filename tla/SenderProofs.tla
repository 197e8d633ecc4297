---------------------------- MODULE SenderProofs ----------------------------
(***************************************************************************)
(* send.py and the relay agent implement Courier, for any number of        *)
(* handlers, messages, sessions and restarts, any skew and any bounds.     *)
(* The step that matters is first_use: that the message is new to Courier  *)
(* when it is new to SEEN is RelayProofs' ForgottenIsStale.                *)
(***************************************************************************)
EXTENDS Sender, RelayProofs

\* The sender adds nothing to what the relay may do.
LEMMA SenderRefinesRelay ==
  /\ SenderInit => Init
  /\ [SenderNext]_senderVars => [Next]_vars
<1>1. SenderInit => Init
  BY DEF SenderInit
<1>2. [SenderNext]_senderVars => [Next]_vars
  BY DEF SenderNext, senderVars, Post, Answer, GiveUp, Hangup, Next
<1> QED
  BY <1>1, <1>2

\* A relay with senders that listen and give up is a relay: what is proved of Relay for
\* requests from anywhere holds with send.py at the other end (main, do_POST).
THEOREM SenderIsRelay == SenderSpec => Spec
<1> QED
  BY SenderRefinesRelay, PTL DEF SenderSpec, Spec

\* README "Signed, fresh, once", with send.py at the other end: the bytes one run of it signed,
\* however often and late they arrive, are delivered at most once by one process of the relay,
\* answered truly, and taken in no lifetime when they are older than the skew allows.  Another
\* run signs anew: it is another message (main, do_POST, first_use, deliver).
THEOREM SentOnce ==
  SenderSpec => []TypeOK /\ []AtMostOnce /\ []AnswerIsTruth /\ OnlyFreshIsTaken
<1> QED
  BY SenderIsRelay, TypeCorrect, Once, Truth, Window

\* Nothing is on its way at the start.
LEMMA CourierInit == SenderInit => Promise!Init
<1> SUFFICES ASSUME SenderInit PROVE Promise!Init
  OBVIOUS
<1>1. \A h \in Handlers : pc[h] = "idle"
  BY DEF SenderInit, Init
<1>2. \A h \in Handlers : Stage(h) = "none"
  BY <1>1 DEF Stage, Unsent
<1>3. [h \in Handlers |-> Stage(h)] = [h \in Handlers |-> "none"]
  BY <1>2
<1>4. /\ claims = {} /\ copies = [m \in Messages |-> 0]
      /\ msg = [h \in Handlers |-> NoMessage] /\ client = [h \in Handlers |-> "none"]
  BY DEF SenderInit, Init
<1> QED
  BY <1>3, <1>4 DEF Promise!Init

\* What clients have heard.
ClientOK == client \in [Handlers -> Clients]

LEMMA ClientStep == ClientOK /\ [SenderNext]_senderVars => ClientOK'
<1> SUFFICES ASSUME ClientOK, [SenderNext]_senderVars PROVE ClientOK'
  OBVIOUS
<1> USE DEF ClientOK, Clients
<1>1. ASSUME NEW h \in Handlers, NEW m \in Messages, Post(h, m) PROVE ClientOK'
  BY <1>1 DEF Post
<1>2. ASSUME NEW h \in Handlers, Answer(h) PROVE ClientOK'
  <2>1. client' = [client EXCEPT ![h] = Heard(answer'[h])] \/ client' = client
    BY <1>2 DEF Answer
  <2> QED
    BY <2>1 DEF Heard
<1>3. ASSUME NEW h \in Handlers, GiveUp(h) PROVE ClientOK'
  BY <1>3 DEF GiveUp
<1>4. CASE Hangup
  BY <1>4 DEF Hangup
<1>5. CASE UNCHANGED client
  BY <1>5
<1> QED
  BY <1>1, <1>2, <1>3, <1>4, <1>5 DEF SenderNext, senderVars

\* An answer that is not a 200 refuses a message that was not written.
LEMMA RefusalIsRefuse ==
  ASSUME TypeOK, ClientOK, NEW h \in Handlers, NEW status \in Answers \ {200},
         pc[h] \in {"received", "checked"} \cup Unsent,
         Reply(h, status), UNCHANGED <<claims, copies>>,
         client' = IF client[h] = "waiting" /\ pc'[h] = "done"
                     THEN [client EXCEPT ![h] = Heard(answer'[h])] ELSE client
  PROVE  Promise!Refuse(h)
<1>1. pc' = [pc EXCEPT ![h] = "done"] /\ answer' = [answer EXCEPT ![h] = status] /\ UNCHANGED msg
  BY DEF Reply
<1>2. pc \in [Handlers -> Steps] /\ answer \in [Handlers -> Answers] /\ client \in [Handlers -> Clients]
  BY DEF TypeOK, ClientOK
<1>3. pc'[h] = "done" /\ answer'[h] = status
  BY <1>1, <1>2
<1>4. \A g \in Handlers \ {h} : pc'[g] = pc[g] /\ answer'[g] = answer[g]
  BY <1>1, <1>2
<1>5. Stage(h) \in {"out", "taken"} /\ Stage(h)' = "refused"
  BY <1>3 DEF Stage, Unsent
<1>6. \A g \in Handlers \ {h} : Stage(g)' = Stage(g)
  BY <1>4 DEF Stage
<1>7. [g \in Handlers |-> Stage(g)]' = [[g \in Handlers |-> Stage(g)] EXCEPT ![h] = "refused"]
  BY <1>5, <1>6
<1>8. \E told \in {"failed", "unknown"} :
        client' = [client EXCEPT ![h] = IF @ = "waiting" THEN told ELSE @]
  <2>1. Heard(status) \in {"failed", "unknown"}
    BY DEF Heard
  <2>2. client' = [client EXCEPT ![h] = IF @ = "waiting" THEN Heard(status) ELSE @]
    BY <1>2, <1>3
  <2> QED
    BY <2>1, <2>2
<1> QED
  BY <1>1, <1>5, <1>7, <1>8 DEF Promise!Refuse, Promise!Reach, Promise!Tell

\* A step of one handler that leaves its stage as it is does not show.
LEMMA QuietIsStutter ==
  ASSUME TypeOK, NEW h \in Handlers, NEW step \in Steps, Goto(h, step), UNCHANGED <<claims, copies, client>>,
         \/ pc[h] = "received" /\ step = "checked"
         \/ pc[h] \in Unsent /\ step \in Unsent
  PROVE  UNCHANGED Promise!courierVars
<1>1. /\ pc' = [pc EXCEPT ![h] = step] /\ UNCHANGED <<msg, answer>>
      /\ pc \in [Handlers -> Steps]
  BY DEF Goto, TypeOK
<1>2. \A g \in Handlers : Stage(g)' = Stage(g)
  BY <1>1 DEF Stage, Unsent
<1> QED
  BY <1>1, <1>2 DEF Promise!courierVars

\* Every step of the relay and its senders is one of Courier's, or does not show.
LEMMA CourierStep ==
  TypeOK /\ OnceInv /\ ClientOK /\ [SenderNext]_senderVars => [Promise!Next]_(Promise!courierVars)
<1> SUFFICES ASSUME TypeOK, OnceInv, ClientOK, [SenderNext]_senderVars
             PROVE  Promise!Next \/ UNCHANGED Promise!courierVars
  BY DEF Promise!courierVars
<1> DEFINE stages == [h \in Handlers |-> Stage(h)]
<1>1. ASSUME NEW h \in Handlers, NEW m \in Messages, Post(h, m) PROVE Promise!Send(h, m)
  <2>1. /\ pc[h] \in Idle /\ pc' = [pc EXCEPT ![h] = "received"] /\ msg' = [msg EXCEPT ![h] = m]
        /\ answer' = [answer EXCEPT ![h] = 0] /\ UNCHANGED <<claims, copies>>
        /\ client' = [client EXCEPT ![h] = "waiting"]
    BY <1>1 DEF Post, Receive, useVars
  <2>2. pc \in [Handlers -> Steps] /\ answer \in [Handlers -> Answers]
    BY DEF TypeOK
  <2>3. Stage(h) \in {"none", "arrived", "refused"} /\ Stage(h)' = "out"
    BY <2>1, <2>2 DEF Stage, Idle, Unsent
  <2>4. \A g \in Handlers \ {h} : Stage(g)' = Stage(g)
    BY <2>1, <2>2 DEF Stage
  <2>5. stages' = [stages EXCEPT ![h] = "out"]
    BY <2>3, <2>4
  <2> QED
    BY <2>1, <2>3, <2>5 DEF Promise!Send, Promise!Reach
<1>2. ASSUME NEW h \in Handlers, Answer(h) PROVE Promise!Next \/ UNCHANGED Promise!courierVars
  <2>0. /\ Handle(h)
        /\ client' = IF client[h] = "waiting" /\ pc'[h] = "done"
                       THEN [client EXCEPT ![h] = Heard(answer'[h])] ELSE client
        /\ pc \in [Handlers -> Steps] /\ answer \in [Handlers -> Answers]
    BY <1>2 DEF Answer, TypeOK
  <2>1. ASSUME NEW status \in Answers \ {200}, Reply(h, status), UNCHANGED <<claims, copies>>,
               pc[h] \in {"received", "checked"} \cup Unsent
        PROVE  Promise!Next
    BY <2>0, <2>1, RefusalIsRefuse DEF Promise!Next
  <2>2. ASSUME NEW step \in Steps, Goto(h, step), UNCHANGED <<claims, copies>>,
               \/ pc[h] = "received" /\ step = "checked"
               \/ pc[h] \in Unsent /\ step \in Unsent
        PROVE  UNCHANGED Promise!courierVars
    <3>1. pc'[h] # "done"
      BY <2>0, <2>2 DEF Goto, Unsent
    <3>2. UNCHANGED client
      BY <2>0, <3>1
    <3> QED
      BY <2>2, <3>2, QuietIsStutter
  <2>3. CASE Check(h)
    BY <2>1, <2>2, <2>3 DEF Check, Steps, Answers, useVars
  <2>4. CASE FirstUse(h)
    <3>1. PICK now \in at[h]..clock :
            IF msg[h] \in Kept(now)
              THEN seen' = Kept(now) /\ Reply(h, 401) /\ UNCHANGED claims
              ELSE /\ seen' = Kept(now) \cup {msg[h]}
                   /\ claims' = claims \cup {msg[h]}
                   /\ Goto(h, "claimed")
                   /\ UNCHANGED localVars
      BY <2>4 DEF FirstUse
    <3>2. pc[h] = "checked" /\ UNCHANGED copies
      BY <2>4 DEF FirstUse
    <3>3. CASE msg[h] \in Kept(now)
      BY <2>1, <3>1, <3>2, <3>3 DEF Answers
    <3>4. CASE msg[h] \notin Kept(now)
      <4>1. msg[h] \notin claims
        BY <3>2, <3>4, ForgottenIsStale
      <4>2. /\ claims' = claims \cup {msg[h]} /\ UNCHANGED <<msg, answer>>
            /\ pc' = [pc EXCEPT ![h] = "claimed"]
        BY <3>1, <3>4 DEF Goto
      <4>3. UNCHANGED client
        BY <2>0, <4>2
      <4>4. Stage(h) = "out" /\ Stage(h)' = "taken"
        BY <2>0, <3>2, <4>2 DEF Stage, Unsent
      <4>5. \A g \in Handlers \ {h} : Stage(g)' = Stage(g)
        BY <2>0, <4>2 DEF Stage
      <4>6. stages' = [stages EXCEPT ![h] = "taken"]
        BY <4>4, <4>5
      <4>7. Promise!Take(h)
        BY <3>2, <4>1, <4>2, <4>3, <4>4, <4>6 DEF Promise!Take, Promise!Reach
      <4> QED
        BY <4>7 DEF Promise!Next
    <3> QED
      BY <3>3, <3>4
  <2>5. CASE Parse(h)
    BY <2>1, <2>2, <2>5 DEF Parse, Steps, Answers, useVars, Unsent, Claimed
  <2>6. CASE LoadEnvelope(h)
    BY <2>1, <2>2, <2>6 DEF LoadEnvelope, Steps, Answers, useVars, Unsent, Claimed
  <2>7. CASE Glob(h)
    BY <2>2, <2>7 DEF Glob, Steps, useVars, Unsent, Claimed
  <2>8. CASE ReadEntry(h)
    <3>1. UNCHANGED <<pc, msg, answer, claims, copies>>
      BY <2>8 DEF ReadEntry, useVars
    <3>2. pc[h] = "scan"
      BY <2>8 DEF ReadEntry
    <3>3. UNCHANGED client
      BY <2>0, <3>1, <3>2
    <3>4. \A g \in Handlers : Stage(g)' = Stage(g)
      BY <3>1 DEF Stage
    <3> QED
      BY <3>1, <3>3, <3>4 DEF Promise!courierVars
  <2>9. CASE Select(h)
    BY <2>1, <2>2, <2>9 DEF Select, Steps, Answers, useVars, Unsent, Claimed
  <2>10. CASE Connect(h)
    BY <2>1, <2>2, <2>10 DEF Connect, Steps, Answers, useVars, Unsent, Claimed
  <2>11. CASE Write(h)
    <3>1. /\ pc[h] = "connected" /\ copies' = [copies EXCEPT ![msg[h]] = @ + 1]
          /\ pc' = [pc EXCEPT ![h] = "written"] /\ UNCHANGED <<msg, answer, claims>>
      BY <2>11 DEF Write, Goto, useVars
    <3>2. UNCHANGED client
      BY <2>0, <3>1
    <3>3. Stage(h) = "taken" /\ Stage(h)' = "put"
      BY <2>0, <3>1 DEF Stage, Unsent
    <3>4. \A g \in Handlers \ {h} : Stage(g)' = Stage(g)
      BY <2>0, <3>1 DEF Stage
    <3>5. stages' = [stages EXCEPT ![h] = "put"]
      BY <3>3, <3>4
    <3>6. Promise!Put(h)
      BY <3>1, <3>2, <3>3, <3>5 DEF Promise!Put, Promise!Reach
    <3> QED
      BY <3>6 DEF Promise!Next
  <2>12. CASE WriteFails(h)
    BY <2>1, <2>12 DEF WriteFails, Answers, useVars, Unsent
  <2>13. CASE Finish(h)
    <3>1. /\ pc[h] = "written" /\ pc' = [pc EXCEPT ![h] = "done"]
          /\ answer' = [answer EXCEPT ![h] = 200] /\ UNCHANGED <<msg, claims, copies>>
      BY <2>13 DEF Finish, Reply, useVars
    <3>2. Stage(h) = "put" /\ Stage(h)' = "arrived"
      BY <2>0, <3>1 DEF Stage, Unsent
    <3>3. \A g \in Handlers \ {h} : Stage(g)' = Stage(g)
      BY <2>0, <3>1 DEF Stage
    <3>4. stages' = [stages EXCEPT ![h] = "arrived"]
      BY <3>2, <3>3
    <3>5. client' = [client EXCEPT ![h] = IF @ = "waiting" THEN "ok" ELSE @]
      <4>1. pc'[h] = "done" /\ answer'[h] = 200
        BY <2>0, <3>1
      <4>2. Heard(200) = "ok"
        BY DEF Heard
      <4> QED
        BY <2>0, <4>1, <4>2 DEF ClientOK
    <3>6. Promise!Confirm(h)
      BY <3>1, <3>2, <3>4, <3>5 DEF Promise!Confirm, Promise!Reach, Promise!Tell
    <3> QED
      BY <3>6 DEF Promise!Next
  <2> QED
    BY <2>0, <2>3, <2>4, <2>5, <2>6, <2>7, <2>8, <2>9, <2>10, <2>11, <2>12, <2>13 DEF Handle
<1>3. ASSUME NEW h \in Handlers, GiveUp(h) PROVE Promise!GiveUp(h)
  <2>1. UNCHANGED <<claims, copies, msg, pc, answer>> /\ client[h] = "waiting"
        /\ client' = [client EXCEPT ![h] = "unknown"]
    BY <1>3 DEF GiveUp, vars, useVars, handlerVars
  <2>2. UNCHANGED stages
    BY <2>1 DEF Stage
  <2> QED
    BY <2>1, <2>2 DEF Promise!GiveUp
<1>4. CASE Hangup
  <2>1. \A h \in Handlers : pc'[h] = "idle"
    BY <1>4 DEF Hangup, Restart
  <2>2. stages' = [h \in Handlers |-> "none"]
    BY <2>1 DEF Stage, Unsent
  <2>3. Promise!Restart
    BY <1>4, <2>2 DEF Hangup, Restart, Promise!Restart
  <2> QED
    BY <2>3 DEF Promise!Next
<1>5. ASSUME UNCHANGED <<claims, copies, msg, pc, answer, client>> PROVE UNCHANGED Promise!courierVars
  <2>1. UNCHANGED stages
    BY <1>5 DEF Stage
  <2> QED
    BY <1>5, <2>1 DEF Promise!courierVars
<1>6. Around /\ UNCHANGED client => UNCHANGED <<claims, copies, msg, pc, answer, client>>
  BY DEF Around, Sessions, StartProcess, EndProcess, HookWrite, HookDies, HookOpen, ConfigOpen, ConfigWrite,
         Tick, useVars, handlerVars
<1>7. UNCHANGED senderVars => UNCHANGED <<claims, copies, msg, pc, answer, client>>
  BY DEF senderVars, vars, useVars, handlerVars
<1> QED
  BY <1>1, <1>2, <1>3, <1>4, <1>5, <1>6, <1>7 DEF SenderNext, Promise!Next

\* send.py and the relay implement Courier: a message is taken once, and what a sender
\* hears of its request is true of it (main, do_POST, first_use, deliver).
THEOREM Implements == SenderSpec => DeliversOnce
<1>1. SenderInit => TypeOK /\ OnceInv /\ ClientOK
  BY SenderRefinesRelay, TypeInit, OnceInit DEF SenderInit, ClientOK, Clients
<1>2. TypeOK /\ OnceInv /\ ClientOK /\ [SenderNext]_senderVars => (TypeOK /\ OnceInv /\ ClientOK)'
  BY SenderRefinesRelay, TypeStep, OnceStep, ClientStep
<1> QED
  BY <1>1, <1>2, CourierInit, CourierStep, PTL DEF SenderSpec, DeliversOnce, Promise!Spec
=============================================================================
