---------------------------- MODULE ProxyLedger ----------------------------
(***************************************************************************)
(* What one account's entry in the quota proxy's ledger says of it: the    *)
(* hub's sample, the headers this proxy has seen itself and the windows in *)
(* force, and the percent Ledger.worst makes of them.  The entries of two  *)
(* accounts never meet, so one is modelled; every method runs under the    *)
(* ledger's lock and is one step.                                          *)
(***************************************************************************)
EXTENDS Integers

CONSTANTS
  Windows,      \* the windows the headers carry: "5h", "7d"
  Scoped,       \* the per-model windows only the hub knows
  HubRecords,   \* the lists of limits a hub sample can carry
  Percents,     \* what a header or a limit can say: nothing clamps it to 100
  MaxPercent,   \* bound: the greatest of them
  Resets,       \* times a window can reset at
  NoReset,      \* no reset named
  Unknown,
  Stale,        \* STALE, in clock ticks
  ResetSoon,    \* RESET_SOON
  Fallback,     \* the 300 s a rejection without a reset is in force
  MaxLate,      \* bound: ticks between the clock read in relay and the write under the lock
  MaxClock

ASSUME TimeAssumption ==
  /\ Stale \in Nat /\ ResetSoon \in Nat /\ Fallback \in Nat \ {0}
  /\ MaxLate \in Nat /\ MaxClock \in Nat
  /\ Resets \subseteq Nat /\ NoReset \notin Nat
  /\ MaxPercent \in Nat /\ MaxPercent >= 100
  /\ Percents \subseteq 0..MaxPercent /\ Unknown \notin Nat

Reset == Resets \cup {NoReset}
Limit == [name : Windows \cup Scoped, pct : Percents, reset : Reset, active : BOOLEAN]

\* HubRecords holds sets of limits, at most one of each name.
ASSUME HubAssumption == \A limits \in HubRecords :
  /\ limits \subseteq Limit
  /\ \A a, b \in limits : a.name = b.name => a = b

VARIABLES
  clock,
  hub,      \* Ledger.hub[label]: when the hub's sample was taken and its limits
  seen,     \* Ledger.seen[label]: the latest headers of each window
  inForce   \* Ledger.in_force: until when each window is used up

ledgerVars == <<clock, hub, seen, inForce>>

NoHub  == [asOf |-> -1, limits |-> {}]
NoSeen == [pct |-> 0, reset |-> NoReset, ts |-> -1]
Had(reading) == reading.ts >= 0

LedgerInit ==
  /\ clock = 0
  /\ hub = NoHub
  /\ seen = [win \in Windows |-> NoSeen]
  /\ inForce = [win \in Windows |-> 0]

\* note_headers: an answer with the headers of a window.  `now` was read before the
\* lock was taken, so two answers may be noted in the other order.
NoteHeaders(win, pct, reset, rejected, now) ==
  /\ seen' = [seen EXCEPT ![win] = [pct |-> pct, reset |-> reset, ts |-> now]]
  /\ inForce' = IF rejected
                  THEN [inForce EXCEPT ![win] = IF reset = NoReset THEN now + Fallback ELSE reset]
                  ELSE inForce
  /\ UNCHANGED <<clock, hub>>

\* mark_in_force: the window a quota 429 names, whether or not its headers are there.
MarkInForce(win, reset) ==
  /\ inForce' = [inForce EXCEPT ![win] = IF reset = NoReset THEN clock + Fallback ELSE reset]
  /\ UNCHANGED <<clock, hub, seen>>

\* HubSync.once: the hub's sample, taken some time before.
HubRefresh(limits, asOf) ==
  /\ hub' = [asOf |-> asOf, limits |-> limits]
  /\ UNCHANGED <<clock, seen, inForce>>

Tick == clock < MaxClock /\ clock' = clock + 1 /\ UNCHANGED <<hub, seen, inForce>>

LedgerNext ==
  \/ \E win \in Windows, pct \in Percents, reset \in Reset, rejected \in BOOLEAN,
        now \in clock - MaxLate .. clock :
       now >= 0 /\ NoteHeaders(win, pct, reset, rejected, now)
  \/ \E win \in Windows, reset \in Reset : MarkInForce(win, reset)
  \/ \E limits \in HubRecords, asOf \in 0..clock : HubRefresh(limits, asOf)
  \/ Tick

LedgerSpec == LedgerInit /\ [][LedgerNext]_ledgerVars

-----------------------------------------------------------------------------
Soon(reset) == reset # NoReset /\ reset >= clock /\ reset - clock <= ResetSoon

MutFresh(ts) == ts >= 0

Fresh(ts) == ts >= 0 /\ clock - ts <= Stale

\* The headers stand in for the hub's limit of the same window when they are newer.
MutOverlays(l) ==
  /\ l.name \in Windows
  /\ Had(seen[l.name]) /\ Fresh(seen[l.name].ts) /\ seen[l.name].ts < hub.asOf

Overlays(l) ==
  /\ l.name \in Windows
  /\ Had(seen[l.name]) /\ Fresh(seen[l.name].ts) /\ seen[l.name].ts > hub.asOf

\* What one limit of a fresh hub sample counts for.
LimitCounts(l) ==
  LET s     == seen[l.name]
      pct   == IF Overlays(l) THEN s.pct ELSE l.pct
      reset == IF Overlays(l) /\ s.reset # NoReset THEN s.reset ELSE l.reset
  IN  IF l.active THEN 100 ELSE IF Soon(reset) THEN 0 ELSE pct

\* A limit scoped to a model counts only for requests to that model.
Applies(l, models) == l.name \in Windows \/ l.name \in models

MutCounted(models) ==
  IF Fresh(hub.asOf)
    THEN {LimitCounts(l) : l \in {l \in hub.limits : Applies(l, models)}}
    ELSE {IF Soon(seen[win].reset) THEN 0 ELSE seen[win].pct
            : win \in {win \in Windows : Fresh(seen[win].ts)}}
         \cup {100 : win \in {win \in Windows : inForce[win] > clock}}

\* Every percent that counts, for requests whose model is under `models`: the hub's
\* sample while it is fresh, otherwise the fresh headers; and 100 for a window in force.
Counted(models) ==
  (IF Fresh(hub.asOf)
     THEN {LimitCounts(l) : l \in {l \in hub.limits : Applies(l, models)}}
     ELSE {IF Soon(seen[win].reset) THEN 0 ELSE seen[win].pct
             : win \in {win \in Windows : Fresh(seen[win].ts)}})
  \cup {100 : win \in {win \in Windows : inForce[win] > clock}}

\* Ledger.worst
Worst(models) ==
  IF Counted(models) = {} THEN Unknown
  ELSE CHOOSE p \in Counted(models) : \A q \in Counted(models) : q <= p

-----------------------------------------------------------------------------
LedgerTypeOK ==
  /\ clock \in Nat
  /\ hub \in [asOf : {-1} \cup Nat, limits : SUBSET Limit]
  /\ seen \in [Windows -> [pct : Percents, reset : Reset, ts : {-1} \cup Nat] \cup {NoSeen}]
  /\ inForce \in [Windows -> Nat]

\* docs/proxy.md "Overlaid with the headers the proxy sees itself ..., which are
\* fresher": when this proxy has seen a window after the hub sampled the account, the
\* worst percent is at least what it saw, or full, unless that window resets soon.  While
\* the hub's sample is fresh this is so only of a window the sample names (worst).
HeadersCount ==
  \A win \in Windows, models \in SUBSET Scoped :
    /\ Fresh(seen[win].ts) /\ seen[win].ts > hub.asOf
    /\ ~Soon(seen[win].reset) /\ (seen[win].reset = NoReset => \A l \in hub.limits : ~Soon(l.reset))
    /\ Fresh(hub.asOf) => \E l \in hub.limits : l.name = win
    => Worst(models) # Unknown /\ (Worst(models) >= seen[win].pct \/ Worst(models) >= 100)

\* "a reading older than this says nothing" (STALE): every percent that decides was
\* read within STALE, from the hub or from a header, or is a window still in force.
NothingStaleDecides ==
  \A models \in SUBSET Scoped :
    Worst(models) \notin {Unknown, 0} =>
      \/ \E win \in Windows : inForce[win] > clock
      \/ \E win \in Windows : clock - seen[win].ts <= Stale /\ Had(seen[win]) /\ seen[win].pct = Worst(models)
      \/ \E l \in hub.limits :
           clock - hub.asOf <= Stale /\ (l.active \/ l.pct = Worst(models))

\* docs/proxy.md "A quota 429 marks that window in force until its reset": till then the
\* account counts as full for every model, whatever a fresh sample of the hub or a header
\* says, and so does not look like one to move to (worst).  Module QuotaProxy builds on it.
InForceIsFull ==
  \A win \in Windows, models \in SUBSET Scoped :
    inForce[win] > clock => Worst(models) # Unknown /\ Worst(models) >= 100
=============================================================================
