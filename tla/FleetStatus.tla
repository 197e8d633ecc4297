---------------------------- MODULE FleetStatus ----------------------------
(***************************************************************************)
(* The restart counters fleet-status.py compares between passes, for one   *)
(* unit: a pass reads status.state, asks systemd, goes on to other checks, *)
(* writes status.state in place and prints.  Passes overlap (a timer and a *)
(* user) and die.  Restarts are numbered over the whole run; systemd       *)
(* counts them from the last start by hand.                                *)
(***************************************************************************)
EXTENDS Naturals

CONSTANTS
  Passes,     \* processes that may make a pass at the same time
  MaxFlaps,   \* bound on automatic restarts
  MaxStarts,  \* bound on starts by hand
  MaxPasses   \* bound on passes made

ASSUME PassAssumption == MaxFlaps \in Nat /\ MaxStarts \in Nat /\ MaxPasses \in Nat

VARIABLES
  flaps, base,  \* restarts so far, and how many there were at the last start by hand
  file,         \* what status.state has of the unit
  pass,         \* each process: where it is, `prev` and `now`
  starts, made,
  settled       \* history: restarts some pass has told of, and those that none could

statusVars == <<flaps, base, file, pass, starts, made, settled>>

\* The unit's NRestarts at some moment, or no key, or no JSON.  A counter is flaps - base; the
\* two are kept apart for the history only.
Reading == [is |-> "counter", flaps |-> flaps, base |-> base]
NoKey == [is |-> "none", flaps |-> 0, base |-> 0]

\* systemd does not know the unit, or gives no number: the counter counts as 0.
Missing == [is |-> "counter", flaps |-> base, base |-> base]

Torn  == [NoKey EXCEPT !.is = "torn"]
Known(r) == r.is = "counter"
NRestarts(r) == r.flaps - r.base

Idle == [pc |-> "idle", before |-> NoKey, now |-> NoKey]

StatusInit ==
  /\ flaps = 0 /\ base = 0
  /\ file = NoKey
  /\ pass = [p \in Passes |-> Idle]
  /\ starts = 0 /\ made = 0
  /\ settled = {}

-----------------------------------------------------------------------------
\* main: prev is what status.state holds, or empty.
Begin(p) ==
  /\ pass[p].pc = "idle" /\ made < MaxPasses
  /\ made' = made + 1
  /\ pass' = [pass EXCEPT ![p] = [@ EXCEPT !.pc = "show", !.before = IF file = Torn THEN NoKey ELSE file]]
  /\ UNCHANGED <<flaps, base, file, starts, settled>>

\* units: `moved`.
Moved(before, now) == Known(before) /\ Known(now) /\ NRestarts(now) > NRestarts(before)

\* What no pass can tell: it found no counter of the unit to compare with, or one that a start
\* by hand has set back since and that the new one does not exceed.
Untold(before, now) ==
  IF Known(now) /\ (~Known(before) \/ (before.base # now.base /\ ~Moved(before, now)))
  THEN 1..now.flaps ELSE {}

\* unit_show: an answer, one without the unit, or none in time; then there is no key in `now`.
Show(p) ==
  /\ pass[p].pc = "show"
  /\ \E now \in {Reading, Missing, NoKey} :
       /\ pass' = [pass EXCEPT ![p] = [@ EXCEPT !.pc = "open", !.now = now]]
       /\ settled' = settled \cup Untold(pass[p].before, now)
  /\ UNCHANGED <<flaps, base, file, starts, made>>

\* open(STATE, "w"), and then the text.  What another pass has written since leaves its tail.
OpenState(p) ==
  /\ pass[p].pc = "open"
  /\ file' = Torn
  /\ pass' = [pass EXCEPT ![p].pc = "write"]
  /\ UNCHANGED <<flaps, base, starts, made, settled>>

MutWriteState(p) ==
  /\ pass[p].pc = "write"
  /\ file' = IF Known(pass[p].now) THEN Reading ELSE NoKey
  /\ pass' = [pass EXCEPT ![p].pc = "print"]
  /\ UNCHANGED <<flaps, base, starts, made, settled>>

WriteState(p) ==
  /\ pass[p].pc = "write"
  /\ file' \in {pass[p].now} \cup (IF file \in {Torn, pass[p].now} THEN {} ELSE {Torn})
  /\ pass' = [pass EXCEPT ![p].pc = "print"]
  /\ UNCHANGED <<flaps, base, starts, made, settled>>

\* The restarts a pass prints a FAIL for.
Tells(p) ==
  IF Moved(pass[p].before, pass[p].now) THEN pass[p].before.flaps + 1 .. pass[p].now.flaps ELSE {}

\* The lines are printed; or the pass dies, after which nobody prints them.
PrintLines(p) ==
  /\ pass[p].pc = "print"
  /\ settled' = settled \cup Tells(p)
  /\ pass' = [pass EXCEPT ![p] = Idle]
  /\ UNCHANGED <<flaps, base, file, starts, made>>

PassDies(p) ==
  /\ pass[p].pc # "idle"
  /\ settled' = IF pass[p].pc = "print" THEN settled \cup Tells(p) ELSE settled
  /\ pass' = [pass EXCEPT ![p] = Idle]
  /\ UNCHANGED <<flaps, base, file, starts, made>>

\* systemd: Restart=always, and systemctl restart.
Flap ==
  /\ flaps < MaxFlaps
  /\ flaps' = flaps + 1
  /\ UNCHANGED <<base, file, pass, starts, made, settled>>

StartByHand ==
  /\ starts < MaxStarts
  /\ starts' = starts + 1
  /\ base' = flaps
  /\ UNCHANGED <<flaps, file, pass, made, settled>>

StatusNext ==
  \/ \E p \in Passes : \/ Begin(p) \/ Show(p) \/ OpenState(p) \/ WriteState(p)
                       \/ PrintLines(p) \/ PassDies(p)
  \/ Flap \/ StartByHand

StatusSpec == StatusInit /\ [][StatusNext]_statusVars

-----------------------------------------------------------------------------
\* "A unit only counts as healthy if it is active AND its restart counter has not moved since
\* the previous pass": with passes that overlap, tear and overwrite each other's status.state,
\* a restart that the file has taken in, so that no later pass can see it, was told of by some
\* pass, or is by one about to print, unless none could tell it: a pass without a counter to
\* compare with, a start by hand in between, a pass that dies before it prints (units, main).
NoRestartIsLost ==
  Known(file) => 1..file.flaps \subseteq
    settled \cup UNION {IF pass[p].pc = "print" THEN Tells(p) ELSE {} : p \in Passes}
=============================================================================
