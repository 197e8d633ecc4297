------------------------------- MODULE Sender -------------------------------
(***************************************************************************)
(* send.py at the other end of the tunnel, composed with the relay agent:  *)
(* every request a handler takes was posted by a sender that listens for   *)
(* the answer no longer than its 15 s.  Together they implement Courier.   *)
(***************************************************************************)
EXTENDS Relay

VARIABLE client    \* what the sender of each handler's request has heard

Clients == {"none", "waiting", "ok", "failed", "unknown"}

senderVars == <<vars, client>>

SenderInit == Init /\ client = [h \in Handlers |-> "none"]

MutHeard(status) == IF status = 200 THEN "ok" ELSE "failed"

\* What send.py makes of an answer: 200 is printed, any other status is "HTTP ...", and
\* a connection that ends without one is "send failed".
Heard(status) == CASE status = 200 -> "ok" [] status = 0 -> "unknown" [] OTHER -> "failed"

\* main: sign the message and post it.  m stands for the signed bytes: a run at another second
\* signs another message, and the same bytes come again from a run of the same text in the same
\* second or a copy made on the way.
Post(h, m) ==
  /\ Receive(h, m)
  /\ client' = [client EXCEPT ![h] = "waiting"]

\* The handler goes on, and whoever waits for its answer hears it.
Answer(h) ==
  /\ Handle(h)
  /\ IF client[h] = "waiting" /\ pc'[h] = "done"
       THEN client' = [client EXCEPT ![h] = Heard(answer'[h])]
       ELSE UNCHANGED client

\* urlopen's 15 s are over, or the tunnel breaks and the answer is lost: "send failed",
\* while the handler goes on.
GiveUp(h) ==
  /\ client[h] = "waiting"
  /\ client' = [client EXCEPT ![h] = "unknown"]
  /\ UNCHANGED vars

\* The relay dies, and with it every connection.
Hangup ==
  /\ Restart
  /\ client' = [h \in Handlers |-> "none"]

SenderNext ==
  \/ \E h \in Handlers, m \in Messages : Post(h, m)
  \/ \E h \in Handlers : Answer(h) \/ GiveUp(h)
  \/ Around /\ UNCHANGED client
  \/ Hangup

SenderSpec == SenderInit /\ [][SenderNext]_senderVars

-----------------------------------------------------------------------------
\* How far a request has got, in Courier's terms.
Stage(h) ==
  CASE pc[h] = "idle" -> "none"
    [] pc[h] \in {"received", "checked"} -> "out"
    [] pc[h] \in Unsent -> "taken"
    [] pc[h] = "written" -> "put"
    [] pc[h] = "done" /\ answer[h] = 200 -> "arrived"
    [] OTHER -> "refused"

Promise == INSTANCE Courier WITH
  Trips <- Handlers, taken <- claims, inbox <- copies, carries <- msg,
  stage <- [h \in Handlers |-> Stage(h)], heard <- client

\* send.py and the relay keep Courier's promise: whatever signed bytes arrive at once, again, or
\* from a sender that has stopped listening, they are taken once, and what send.py prints of it,
\* "HTTP ..." or the 200, is true of its own request (main, do_POST, first_use, deliver).
DeliversOnce == Promise!Spec
=============================================================================
