------------------------------ MODULE Courier ------------------------------
(***************************************************************************)
(* What a sender may rely on when it gives a message to a peer: a message  *)
(* is taken at most once, one that was taken is put into an inbox at most  *)
(* once, "ok" is only heard of a message that was put, "failed" only of    *)
(* one that this trip will never put, and a sender that hears neither      *)
(* knows nothing.  Module Sender shows that send.py and the relay agent    *)
(* keep to it; a restart of the relay begins anew.                         *)
(***************************************************************************)
EXTENDS Naturals

CONSTANTS
  Trips,     \* exchanges that may go on at the same time
  Messages, NoMessage

VARIABLES
  taken,     \* messages some trip has taken
  inbox,     \* times each message was put into an inbox
  carries,   \* the message of each trip
  stage,     \* how far each trip got
  heard      \* what its sender has heard

courierVars == <<taken, inbox, carries, stage, heard>>

Init ==
  /\ taken = {}
  /\ inbox = [m \in Messages |-> 0]
  /\ carries = [t \in Trips |-> NoMessage]
  /\ stage = [t \in Trips |-> "none"]
  /\ heard = [t \in Trips |-> "none"]

Reach(t, s) == stage' = [stage EXCEPT ![t] = s]

\* The sender hears what the relay tells it if it still listens.
Tell(t, told) == heard' = [heard EXCEPT ![t] = IF @ = "waiting" THEN told ELSE @]

Send(t, m) ==
  /\ stage[t] \in {"none", "arrived", "refused"}
  /\ Reach(t, "out")
  /\ carries' = [carries EXCEPT ![t] = m]
  /\ heard' = [heard EXCEPT ![t] = "waiting"]
  /\ UNCHANGED <<taken, inbox>>

Take(t) ==
  /\ stage[t] = "out"
  /\ carries[t] \notin taken
  /\ taken' = taken \cup {carries[t]}
  /\ Reach(t, "taken")
  /\ UNCHANGED <<inbox, carries, heard>>

Refuse(t) ==
  /\ stage[t] \in {"out", "taken"}
  /\ Reach(t, "refused")
  /\ \E told \in {"failed", "unknown"} : Tell(t, told)
  /\ UNCHANGED <<taken, inbox, carries>>

Put(t) ==
  /\ stage[t] = "taken"
  /\ inbox' = [inbox EXCEPT ![carries[t]] = @ + 1]
  /\ Reach(t, "put")
  /\ UNCHANGED <<taken, carries, heard>>

Confirm(t) ==
  /\ stage[t] = "put"
  /\ Reach(t, "arrived")
  /\ Tell(t, "ok")
  /\ UNCHANGED <<taken, inbox, carries>>

\* It no longer listens, or the answer is lost on its way.
GiveUp(t) ==
  /\ heard[t] = "waiting"
  /\ heard' = [heard EXCEPT ![t] = "unknown"]
  /\ UNCHANGED <<taken, inbox, carries, stage>>

\* Everything the relay knew is gone, and every sender that waits hears nothing.
Restart ==
  /\ taken' = {}
  /\ inbox' = [m \in Messages |-> 0]
  /\ carries' = [t \in Trips |-> NoMessage]
  /\ stage' = [t \in Trips |-> "none"]
  /\ heard' = [t \in Trips |-> "none"]

Next ==
  \/ \E t \in Trips, m \in Messages : Send(t, m)
  \/ \E t \in Trips : Take(t) \/ Refuse(t) \/ Put(t) \/ Confirm(t) \/ GiveUp(t)
  \/ Restart

Spec == Init /\ [][Next]_courierVars
=============================================================================
