----------------------------- MODULE Decisions -----------------------------
(***************************************************************************)
(* One session's decisions, one after the other (Ledger.choose called by a *)
(* single request at a time), while what is known of the accounts changes  *)
(* between them in any way.  QuotaProxy has the requests that overlap.     *)
(***************************************************************************)
EXTENDS Headroom

CONSTANT Percents   \* the percents an account can be at

ASSUME PercentAssumption == Percents \subseteq Nat

VARIABLES
  w,         \* what is known of each account
  stuck,     \* sticky[key]
  entered,   \* history: the rank of `stuck` when the rule moved the session there
  why        \* history: what the latest decision started from

vars == <<w, stuck, entered, why>>

NotMoved == SwitchAt + 1    \* no rank the rule moves to

Init ==
  /\ w \in [Labels -> Percents \cup {Unknown}]
  /\ stuck = NoLabel
  /\ entered = NotMoved
  /\ why = "none"

\* A reading, a window's reset or its use changes what is known of an account.
Learn(l, pct) ==
  /\ w' = [w EXCEPT ![l] = pct]
  /\ why' = "none"
  /\ UNCHANGED <<stuck, entered>>

\* choose: sticky is written when the session moves and when it need not, but not when
\* it should move and has nowhere to go.
Decide(own, avoid, usable) ==
  \E cur \in usable : \E l \in usable :
    /\ IsStart(cur, own, stuck, usable)
    /\ Chooses(l, w, cur, avoid, usable)
    /\ stuck' = IF l = cur /\ MustMove(w, cur, avoid) THEN stuck ELSE l
    /\ entered' = IF l # cur THEN Rank(w[l])
                  ELSE IF stuck' = stuck THEN entered ELSE NotMoved
    /\ why' = IF cur # stuck THEN "start" ELSE IF avoid = cur THEN "refused" ELSE "sticky"
    /\ UNCHANGED w

Next ==
  \/ \E l \in Labels, pct \in Percents \cup {Unknown} : Learn(l, pct)
  \/ \E own \in Labels \cup {NoLabel}, avoid \in Labels \cup {NoLabel},
        usable \in SUBSET Labels : Decide(own, avoid, usable)

Spec == Init /\ [][Next]_vars

Types ==
  /\ w \in Weights
  /\ stuck \in Labels \cup {NoLabel}
  /\ entered \in Nat
  /\ why \in {"none", "start", "refused", "sticky"}

EnteredLow == entered # NotMoved => entered + Hysteresis <= SwitchAt

\* Types; and the rule moves a session only to an account that was under the line less
\* the hysteresis.
TypeOK == Types /\ EnteredLow

\* The point of the hysteresis: a session the rule has moved to an account leaves it
\* by the rule only after that account has risen by at least `hysteresis` points.
LeavingNeedsRise ==
  [][why' = "sticky" /\ stuck' # stuck /\ entered # NotMoved
       => Rank(w[stuck]) >= entered + Hysteresis]_vars
=============================================================================
