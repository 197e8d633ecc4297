----------------------------- MODULE Telemetry -----------------------------
(***************************************************************************)
(* The proxy's telemetry (quota-proxy.py): note_headers appends to         *)
(* Ledger.events, and the hub-sync thread takes a batch and posts it to    *)
(* the hub, a round at a time (HubSync.once).  Events are numbered as they *)
(* are noted.                                                              *)
(***************************************************************************)
EXTENDS Naturals, Sequences, SequencesExt

CONSTANTS
  Limit,       \* the 500 events of one batch
  MaxEvents,   \* bound on headers noted
  MaxRestarts, \* bound on restarts of the proxy
  MaxOutages   \* bound on the times the hub goes away

ASSUME LimitAssumption == Limit \in Nat \ {0}
ASSUME BoundAssumption == MaxEvents \in Nat /\ MaxRestarts \in Nat /\ MaxOutages \in Nat

VARIABLES
  events,    \* Ledger.events
  noted,     \* headers noted so far
  pc,        \* where the hub-sync thread is in once
  batch,     \* what take_events gave it
  up,        \* the hub answers
  hub,       \* the events the hub has taken, in its order
  restarts, outages

vars == <<events, noted, pc, batch, up, hub, restarts, outages>>

Init ==
  /\ events = <<>>
  /\ noted = 0
  /\ pc = "waiting"
  /\ batch = <<>>
  /\ up \in BOOLEAN
  /\ hub = <<>>
  /\ restarts = 0
  /\ outages = 0

\* note_headers, in any handler thread, under the lock.
Note ==
  /\ noted < MaxEvents
  /\ noted' = noted + 1
  /\ events' = Append(events, noted + 1)
  /\ UNCHANGED <<pc, batch, up, hub, restarts, outages>>

\* GET /v1/accounts: without an answer the round ends here.
Ask ==
  /\ pc = "waiting"
  /\ pc' = IF up THEN "asked" ELSE "waiting"
  /\ UNCHANGED <<events, noted, batch, up, hub, restarts, outages>>

MutTakeEvents ==
  /\ pc = "asked"
  /\ LET n == IF Len(events) < Limit THEN Len(events) ELSE Limit
     IN  /\ batch' = SubSeq(events, 1, n)
         /\ events' = IF n = 0 THEN <<>> ELSE SubSeq(events, n, Len(events))
         /\ pc' = IF n = 0 THEN "waiting" ELSE "post"
  /\ UNCHANGED <<noted, up, hub, restarts, outages>>

MutTakeNone ==
  /\ pc = "asked"
  /\ batch' = IF Len(events) > Limit THEN <<>> ELSE events
  /\ events' = IF Len(events) > Limit THEN events ELSE <<>>
  /\ pc' = IF batch' = <<>> THEN "waiting" ELSE "post"
  /\ UNCHANGED <<noted, up, hub, restarts, outages>>

\* take_events, under the lock: at most Limit events leave the queue.
TakeEvents ==
  /\ pc = "asked"
  /\ LET n == IF Len(events) < Limit THEN Len(events) ELSE Limit
     IN  /\ batch' = SubSeq(events, 1, n)
         /\ events' = SubSeq(events, n + 1, Len(events))
         /\ pc' = IF n = 0 THEN "waiting" ELSE "post"
  /\ UNCHANGED <<noted, up, hub, restarts, outages>>

\* POST /v1/proxy-events.  It may time out after the hub took the events; either way
\* once raises, run goes on with the next round, and the batch is gone.
Post ==
  /\ pc = "post"
  /\ pc' = "waiting"
  /\ batch' = <<>>
  /\ \/ up /\ hub' = hub \o batch
     \/ ~up /\ UNCHANGED hub
  /\ UNCHANGED <<events, noted, up, restarts, outages>>

\* The proxy process ends and starts again; events live in memory only.
Restart ==
  /\ restarts < MaxRestarts
  /\ restarts' = restarts + 1
  /\ events' = <<>>
  /\ batch' = <<>>
  /\ pc' = "waiting"
  /\ UNCHANGED <<noted, up, hub, outages>>

HubGoes  == up /\ outages < MaxOutages /\ up' = FALSE /\ outages' = outages + 1
            /\ UNCHANGED <<events, noted, pc, batch, hub, restarts>>
HubComes == ~up /\ up' = TRUE /\ UNCHANGED <<events, noted, pc, batch, hub, restarts, outages>>

Round == Ask \/ TakeEvents \/ Post

Next == Note \/ Round \/ Restart \/ HubGoes \/ HubComes

Spec == Init /\ [][Next]_vars

-----------------------------------------------------------------------------
\* Every event is in one place: the hub's, the batch's and the queue's are one increasing
\* sequence, so the hub gets each event at most once and in the order the headers were read,
\* across lost posts and restarts; and the batch and the queue end with the latest event and
\* leave out none, so what is lost was lost with its batch or with the process, and never
\* where a queue is cut in two (take_events, once).
InOrder ==
  LET waiting == batch \o events
      all     == hub \o waiting
  IN  /\ \A i, j \in DOMAIN all : i < j => all[i] < all[j]
      /\ \A i \in DOMAIN waiting : waiting[i] = noted - Len(waiting) + i

\* Once the hub stays up, what waits reaches it, however much that is: a batch at a time.
BacklogReachesHub ==
  \A n \in 1..MaxEvents :
    [](n \in ToSet(events) /\ restarts = MaxRestarts /\ []up => <>(n \in ToSet(hub)))
=============================================================================
