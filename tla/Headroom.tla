------------------------------ MODULE Headroom ------------------------------
(***************************************************************************)
(* How quota-proxy picks an account: Ledger.choose without its locks.      *)
(* Accounts are numbered in the order config.json lists them, w[l] is the  *)
(* worst applicable percent of account l, or Unknown.                      *)
(***************************************************************************)
EXTENDS Naturals

CONSTANTS
  Labels,      \* the accounts with a token file
  NoLabel,     \* no account: the session's own login
  Unknown,     \* nothing is known about an account's windows
  SwitchAt,    \* switch_at
  Hysteresis   \* hysteresis

ASSUME LabelAssumption == Labels \subseteq Nat /\ NoLabel \notin Labels
ASSUME LineAssumption ==
  SwitchAt \in Nat /\ Hysteresis \in Nat /\ Hysteresis <= SwitchAt /\ Unknown \notin Nat

Weights == [Labels -> Nat \cup {Unknown}]

\* Nothing known counts as 50%.
Rank(pct) == IF pct = Unknown THEN 50 ELSE pct

MutOverLine(pct) == Rank(pct) >= SwitchAt - Hysteresis

\* A session leaves an account from here on.
OverLine(pct) == pct # Unknown /\ pct >= SwitchAt

\* Low enough to move to.
UnderLine(pct) == Rank(pct) <= SwitchAt - Hysteresis

\* Where a request starts: on the account it names, else where its session is, else
\* on the first account.
IsStart(l, own, stuck, usable) ==
  IF own \in usable THEN l = own
  ELSE IF stuck \in usable THEN l = stuck
  ELSE l \in usable /\ \A o \in usable : l <= o

MustMove(w, cur, avoid) == avoid = cur \/ OverLine(w[cur])

\* The accounts it may move to.
Open(w, cur, avoid, usable) == {l \in usable \ {cur, avoid} : UnderLine(w[l])}

\* min(others, key=rank): the first one of the lowest rank.
IsBest(b, w, open) ==
  /\ b \in open
  /\ \A o \in open : Rank(w[b]) < Rank(w[o]) \/ (Rank(w[b]) = Rank(w[o]) /\ b <= o)

\* choose returns l for a request that starts on cur.
Chooses(l, w, cur, avoid, usable) ==
  LET open == Open(w, cur, avoid, usable)
  IN  IF MustMove(w, cur, avoid) /\ open # {} THEN IsBest(l, w, open) ELSE l = cur

=============================================================================
