------------------------------ MODULE Exchange ------------------------------
(***************************************************************************)
(* What a session and an upstream may rely on when a quota proxy stands    *)
(* between them.  A request is tried with one credential and, when that    *)
(* one is refused, at most once more with another; each try may be sent    *)
(* again once over a new connection.  A credential the proxy lent is put   *)
(* aside, or counts as used up, only because upstream said so to a request *)
(* that carried it; one put aside is not lent; and a refusal of the first  *)
(* try is told to the session only when there is no other try to make.     *)
(* Module QuotaProxy shows that proxy/quota-proxy.py keeps to it.          *)
(*                                                                         *)
(* Two promises of its docs it does not keep, and they are not here: a 401 *)
(* to a lent credential on the second try is told (docs/proxy.md:31), and  *)
(* when every credential is used up the request goes with a lent one       *)
(* rather than with its own (docs/proxy.md:33, quota-proxy.py:20).         *)
(***************************************************************************)
EXTENDS Naturals

CONSTANTS
  Callers,     \* requests that may be under way at the same time
  Lent,        \* credentials the proxy can lend a request
  Own          \* the one it came with, and not among those

VARIABLES
  trip,        \* how far each request is, with which credential
  aside,       \* lent credentials put aside
  full         \* lent credentials that are used up

exchangeVars == <<trip, aside, full>>

At(stage, c) == [stage |-> stage, cred |-> c, again |-> 0, told |-> 0]
Told(status) == [stage |-> "answered", cred |-> Own, again |-> 0, told |-> status]
NoTrip == At("none", Own)

Init ==
  /\ trip = [r \in Callers |-> NoTrip]
  /\ aside = {}
  /\ full = {}

Stage(r) == trip[r].stage
Goes(r, t) == trip' = [trip EXCEPT ![r] = t]

Open(r) ==
  /\ Stage(r) = "none"
  /\ Goes(r, At("open", Own))
  /\ UNCHANGED <<aside, full>>

\* After a lent credential was denied the next try is the request's own; after one that
\* was used up it is another.
Try(r, c) ==
  /\ c \notin aside
  /\ \/ Stage(r) = "open" /\ Goes(r, At("first", c))
     \/ Stage(r) = "denied" /\ c = Own /\ Goes(r, At("second", c))
     \/ Stage(r) = "used up" /\ c # trip[r].cred /\ Goes(r, At("second", c))
  /\ UNCHANGED <<aside, full>>

Underway(r) == Stage(r) \in {"first", "second"}

Resend(r) ==
  /\ Underway(r) /\ trip[r].again = 0
  /\ Goes(r, [trip[r] EXCEPT !.again = 1])
  /\ UNCHANGED <<aside, full>>

\* Upstream is out of reach, on a connection that was opened for this try.
Fail(r) ==
  /\ Underway(r) /\ trip[r].again = 1
  /\ Goes(r, NoTrip)
  /\ UNCHANGED <<aside, full>>

\* A refusal on which there is another try to make.
Retriable(r) == Stage(r) = "first" /\ trip[r].cred \in Lent

\* The connection may break under a refusal; what it said stays said.
GoesOn(r, stage) == Goes(r, At(stage, trip[r].cred)) \/ Goes(r, NoTrip)

Deny(r) ==
  /\ Retriable(r)
  /\ aside' = aside \cup {trip[r].cred}
  /\ GoesOn(r, "denied")
  /\ UNCHANGED full

UseUp(r) ==
  /\ Retriable(r)
  /\ full' = full \cup {trip[r].cred}
  /\ GoesOn(r, "used up")
  /\ UNCHANGED aside

\* Any answer but a refusal on which there is another try to make.  Whatever it is, it may
\* say that the credential it was asked with is used up.
Answer(r, status) ==
  /\ Underway(r)
  /\ status \in {401, 429} => ~Retriable(r)
  /\ Goes(r, Told(status))
  /\ \/ UNCHANGED full
     \/ trip[r].cred \in Lent /\ full' = full \cup {trip[r].cred}
  /\ UNCHANGED aside

\* There is no other credential to try: the session hears of the one that is used up.
Settle(r) ==
  /\ Stage(r) = "used up"
  /\ Goes(r, Told(429))
  /\ UNCHANGED <<aside, full>>

Close(r) ==
  /\ Stage(r) = "answered"
  /\ Goes(r, NoTrip)
  /\ UNCHANGED <<aside, full>>

\* In time a credential put aside is lent again, and one that is used up has room.
Recover ==
  /\ aside' \subseteq aside /\ full' \subseteq full
  /\ UNCHANGED trip

Step(r) ==
  \/ Open(r) \/ Resend(r) \/ Fail(r) \/ Deny(r) \/ UseUp(r) \/ Settle(r) \/ Close(r)
  \/ \E c \in Lent \cup {Own} : Try(r, c)
  \/ \E status \in {200, 401, 429} : Answer(r, status)

Next == (\E r \in Callers : Step(r)) \/ Recover

Spec == Init /\ [][Next]_exchangeVars
=============================================================================
