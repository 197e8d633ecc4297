------------------------------ MODULE MCRelay ------------------------------
(***************************************************************************)
(* An instance of Relay for TLC: its messages, processes and session ids.  *)
(***************************************************************************)
EXTENDS Relay, TLC

CONSTANTS h1, h2, p1, p2, ai, work

Message(ts, session, account, text, signed) ==
  [ts |-> ts, session |-> session, account |-> account, text |-> text, signed |-> signed]

MCSids2 == {1, 2}

MCAccountOf == (p1 :> ai) @@ (p2 :> work)

\* Delivery: a message to anyone, one to an account, and one without text.
DeliveryMessages ==
  { Message(0, AnySession, AnyAccount, "a", TRUE),
    Message(0, AnySession, ai, "a", TRUE),
    Message(0, AnySession, AnyAccount, Blank, TRUE) }

\* Deliveries while sessions come and go, in an instant in which the relay keeps running and
\* nobody rewrites config.json; MCSender has those steps.
DeliveryNext ==
  \/ \E h \in Handlers, m \in Messages : Receive(h, m)
  \/ \E h \in Handlers : Handle(h)
  \/ Sessions

DeliverySpec == Init /\ [][DeliveryNext]_vars /\ Fairness
=============================================================================
