-------------------------- MODULE DecisionsProofs --------------------------
(***************************************************************************)
(* What holds of Ledger.choose for any accounts, percents, line and        *)
(* hysteresis.                                                             *)
(***************************************************************************)
EXTENDS Decisions, TLAPS

\* choose names another account only when it must move, and only one under the line.
LEMMA DecideMoves ==
  ASSUME NEW v \in Weights, NEW usable \in SUBSET Labels, NEW cur \in usable, NEW avoid,
         NEW l, Chooses(l, v, cur, avoid, usable), l # cur
  PROVE  l \in usable /\ UnderLine(v[l]) /\ MustMove(v, cur, avoid)
BY DEF Chooses, IsBest, Open

\* The invariant holds at the start.
LEMMA InitOK == Init => Types /\ EnteredLow
<1> SUFFICES ASSUME Init PROVE Types /\ EnteredLow
  OBVIOUS
<1>1. w \in Weights
  BY PercentAssumption DEF Init, Weights
<1>2. entered = NotMoved /\ NotMoved \in Nat
  BY LineAssumption DEF Init, NotMoved
<1> QED
  BY <1>1, <1>2 DEF Init, Types, EnteredLow

\* Every decision and every change of what is known keeps it.
LEMMA StepOK == Types /\ EnteredLow /\ [Next]_vars => Types' /\ EnteredLow'
<1> SUFFICES ASSUME Types, EnteredLow, [Next]_vars PROVE Types' /\ EnteredLow'
  OBVIOUS
<1> USE PercentAssumption, LineAssumption, LabelAssumption
<1>1. ASSUME NEW l \in Labels, NEW pct \in Percents \cup {Unknown}, Learn(l, pct)
      PROVE  Types' /\ EnteredLow'
  BY <1>1 DEF Learn, Types, EnteredLow, Weights, NotMoved
<1>2. ASSUME NEW own, NEW avoid, NEW usable \in SUBSET Labels, Decide(own, avoid, usable)
      PROVE  Types' /\ EnteredLow'
  <2>1. PICK cur \in usable, l \in usable :
          /\ Chooses(l, w, cur, avoid, usable)
          /\ stuck' = (IF l = cur /\ MustMove(w, cur, avoid) THEN stuck ELSE l)
          /\ entered' = (IF l # cur THEN Rank(w[l])
                         ELSE IF stuck' = stuck THEN entered ELSE NotMoved)
          /\ why' = (IF cur # stuck THEN "start" ELSE IF avoid = cur THEN "refused" ELSE "sticky")
          /\ w' = w
    BY <1>2 DEF Decide
  <2>2. w \in Weights /\ Rank(w[l]) \in Nat
    BY DEF Types, Weights, Rank
  <2>3. l # cur => Rank(w[l]) + Hysteresis <= SwitchAt
    BY <2>1, <2>2, DecideMoves DEF UnderLine
  <2>4. Types'
    BY <2>1, <2>2 DEF Types, NotMoved
  <2>5. EnteredLow'
    BY <2>1, <2>2, <2>3 DEF Types, EnteredLow, NotMoved
  <2> QED
    BY <2>4, <2>5
<1>3. CASE UNCHANGED vars
  BY <1>3 DEF vars, Types, EnteredLow, NotMoved
<1> QED
  BY <1>1, <1>2, <1>3 DEF Next

\* A session is always on no account or a known one, and the rank at which the rule last
\* moved it was under the line less the hysteresis (Ledger.choose).
THEOREM TypeCorrect == Spec => []TypeOK
<1> QED
  BY InitOK, StepOK, PTL DEF Spec, TypeOK

\* A session leaves an account the rule put it on only after that account has risen
\* by at least `hysteresis` points, so readings that stand still never move it twice.
THEOREM NoPingPong == Spec => LeavingNeedsRise
<1>1. Types /\ EnteredLow /\ [Next]_vars =>
        [why' = "sticky" /\ stuck' # stuck /\ entered # NotMoved
           => Rank(w[stuck]) >= entered + Hysteresis]_vars
  <2> SUFFICES ASSUME Types, EnteredLow, Next,
                      why' = "sticky", stuck' # stuck, entered # NotMoved
               PROVE  Rank(w[stuck]) >= entered + Hysteresis
    OBVIOUS
  <2>1. PICK own \in Labels \cup {NoLabel}, avoid \in Labels \cup {NoLabel},
             usable \in SUBSET Labels : Decide(own, avoid, usable)
    BY DEF Next, Learn
  <2>2. PICK cur \in usable, l \in usable :
          /\ Chooses(l, w, cur, avoid, usable)
          /\ stuck' = (IF l = cur /\ MustMove(w, cur, avoid) THEN stuck ELSE l)
          /\ why' = (IF cur # stuck THEN "start" ELSE IF avoid = cur THEN "refused" ELSE "sticky")
    BY <2>1 DEF Decide
  <2>3. cur = stuck /\ avoid # cur /\ l # cur
    BY <2>2
  <2>4. OverLine(w[stuck])
    BY <2>2, <2>3, DecideMoves DEF Types, MustMove
  <2>5. w[stuck] \in Nat /\ w[stuck] >= SwitchAt
    BY <2>3, <2>4 DEF OverLine, Types, Weights
  <2> QED
    BY <2>5, LineAssumption DEF EnteredLow, Rank, OverLine, Types
<1> QED
  BY <1>1, InitOK, StepOK, PTL DEF Spec, LeavingNeedsRise
=============================================================================
