-------------------------- MODULE QuotaProxyProofs --------------------------
(***************************************************************************)
(* What holds of the requests through a quota proxy for any number of      *)
(* them, any accounts, sessions, percents and any line.                    *)
(***************************************************************************)
EXTENDS QuotaProxy, TLAPS

\* How often a request has gone upstream, and with what, at each step of its two attempts.
Counted(q) ==
  /\ q.pc \in {"start", "weigh", "settle"} =>
       q.attempt = 1 /\ q.sends <= (IF q.avoid = NoLabel THEN 0 ELSE 2)
  /\ q.pc = "send" => q.attempt \in {1, 2} /\ q.sends <= (IF q.attempt = 1 THEN 0 ELSE 2)
  /\ q.pc = "sent" => /\ q.attempt \in {1, 2}
                      /\ q.sends <= (IF q.attempt = 1 THEN 1 ELSE 3) + q.conn
  /\ q.sends <= 4

Elsewhere(q) ==
  /\ q.avoid # NoLabel => q.spent = q.avoid
  /\ q.pc = "send" /\ q.attempt = 1 => q.avoid = NoLabel
  /\ q.chosen # NoLabel => q.usable # {}
  /\ q.pc = "sent" => q.cred = q.chosen /\ (q.attempt = 1 => q.spent = q.cred)
  /\ q.pc \in {"send", "sent"} /\ q.attempt = 2 => q.spent # NoLabel /\ q.chosen # q.spent
  /\ q.pc = "sent" /\ q.attempt = 1 => q.avoid = NoLabel
  /\ q.pc = "send" /\ q.attempt = 2 /\ q.avoid = NoLabel => q.chosen = NoLabel
  /\ q.pc \in {"start", "weigh", "settle"} /\ q.avoid # NoLabel => q.status = 429

\* Why a used-up account is avoided: choose has read 100 for what has been in force all the
\* while, and what has been roomy all the while is one of the accounts it can choose.
Weighed(q, s) ==
  /\ s.roomy \subseteq q.usable /\ q.avoid \notin s.roomy
  /\ q.pc \in {"weigh", "settle"} =>
       /\ \A l \in (q.usable \cap s.forced) \ q.left : q.w[l] = 100
       /\ \A l \in s.roomy \ q.left : UnderLine(q.w[l])
  /\ q.pc = "settle" => q.left = {}
  /\ q.pc \in {"send", "sent"} /\ q.chosen \in s.forced => s.roomy = {}
  /\ q.pc = "sent" => q.cred \notin s.aside

\* The histories say what has held till now.
UpToDate(s) ==
  /\ s.forced \subseteq {l \in Labels : inForce[l]}
  /\ s.roomy \subseteq {l \in Labels : TokenOf(l) /\ ~inForce[l] /\ UnderLine(known[l])}
  /\ s.aside \subseteq {l \in Labels : refused[l]}

Sound(q, s) == Counted(q) /\ Elsewhere(q) /\ Weighed(q, s)

RequestInv == \A r \in Slots : Sound(req[r], since[r]) /\ UpToDate(since[r])

\* The part of TypeOK about one request.
Placed(q) ==
  /\ q.pc # "idle" => q.key \in Keys
  /\ q.pc \in {"start", "weigh", "settle"} => q.usable # {}
  /\ q.pc \in {"weigh", "settle"} => q.cur \in q.usable

Within(t, s) == t.forced \subseteq s.forced /\ t.roomy \subseteq s.roomy /\ t.aside \subseteq s.aside

-----------------------------------------------------------------------------
\* What is known of a request while its history breaks off stays so.
LEMMA BreakingOff ==
  ASSUME NEW q \in Request, NEW s \in History, NEW t \in History, Sound(q, s), Within(t, s)
  PROVE  Sound(q, t)
BY DEF Sound, Weighed, Within

\* Histories only break off in a step that changes ledger or tokens, and are up to date then.
LEMMA Watched ==
  ASSUME TypeOK, RequestInv, NEW going \in SUBSET Slots, Watch(going),
         known' \in Weights, inForce' \in [Labels -> BOOLEAN],
         refused' \in [Labels -> BOOLEAN], token' \in [Labels -> BOOLEAN]
  PROVE  /\ since' \in [Slots -> History]
         /\ \A r \in Slots : Within(since'[r], since[r]) /\ UpToDate(since[r])'
         /\ \A r \in Slots : r \notin going => since'[r] = NoHistory
<1>1. since' \in [Slots -> History]
  BY DEF Watch, TypeOK, History, NoHistory
<1>2. ASSUME NEW r \in Slots
      PROVE  /\ Within(since'[r], since[r]) /\ UpToDate(since[r])'
             /\ r \notin going => since'[r] = NoHistory
  <2>1. CASE r \notin going
    BY <2>1 DEF Watch, Within, UpToDate, NoHistory
  <2>2. CASE r \in going
    <3>1. /\ since'[r].forced = {l \in since[r].forced : inForce'[l]}
          /\ since'[r].roomy = {l \in since[r].roomy :
                                  token'[l] /\ ~refused'[l] /\ ~inForce'[l] /\ UnderLine(known'[l])}
          /\ since'[r].aside = {l \in since[r].aside : refused'[l]}
      BY <2>2 DEF Watch
    <3>2. /\ since[r].forced \subseteq Labels
          /\ since[r].roomy \subseteq Labels /\ since[r].aside \subseteq Labels
      BY DEF TypeOK, History
    <3> QED
      BY <2>2, <3>1, <3>2 DEF Within, UpToDate, TokenOf
  <2> QED
    BY <2>1, <2>2
<1> QED
  BY <1>1, <1>2

\* An idle request is sound, whatever its history.
LEMMA IdleIsSound ==
  /\ IdleRequest \in Request
  /\ NoHistory \in History
  /\ Sound(IdleRequest, NoHistory)
BY LabelAssumption, LineAssumption
   DEF IdleRequest, Request, Steps, Account, Nothing, Weights, NoHistory, History, Sound, Counted,
       Elsewhere, Weighed

\* A step that gives request r the value `new`, and breaks histories off or leaves them.
LEMMA Stepped ==
  ASSUME TypeOK, RequestInv, NEW r \in Slots, NEW new \in Request,
         req' = [req EXCEPT ![r] = new],
         since' \in [Slots -> History],
         \A o \in Slots : Within(since'[o], since[o]) /\ UpToDate(since[o])',
         Sound(new, since'[r]), Placed(new),
         known' \in Weights, inForce' \in [Labels -> BOOLEAN], sticky' \in [Keys -> Account],
         refused' \in [Labels -> BOOLEAN], token' \in [Labels -> BOOLEAN], on' \in BOOLEAN,
         changes' \in Nat, requests' \in Nat
  PROVE  TypeOK' /\ RequestInv'
<1>1. ASSUME NEW o \in Slots, o # r PROVE Sound(req'[o], since'[o])
  <2>1. req'[o] = req[o] /\ req[o] \in Request /\ since[o] \in History /\ since'[o] \in History
    BY <1>1 DEF TypeOK
  <2> QED
    BY <2>1, BreakingOff DEF RequestInv
<1>2. req'[r] = new
  BY DEF TypeOK
<1>3. RequestInv'
  BY <1>1, <1>2 DEF RequestInv
<1>4. req' \in [Slots -> Request] /\ \A o \in Slots : Placed(req'[o])
  BY DEF TypeOK, Placed
<1> QED
  BY <1>3, <1>4 DEF TypeOK, Placed

\* No request is under way at the start.
LEMMA RequestInit == Init => TypeOK /\ RequestInv
<1> SUFFICES ASSUME Init PROVE TypeOK /\ RequestInv
  OBVIOUS
<1>1. TypeOK
  BY IdleIsSound, LabelAssumption DEF Init, TypeOK, Nothing, Weights, Account, IdleRequest
<1>2. RequestInv
  BY IdleIsSound DEF Init, RequestInv, UpToDate, NoHistory
<1> QED
  BY <1>1, <1>2

-----------------------------------------------------------------------------
\* A step that touches neither ledger, tokens nor histories.
LEMMA SteppedAlone ==
  ASSUME TypeOK, RequestInv, NEW r \in Slots, NEW new \in Request,
         req' = [req EXCEPT ![r] = new], Sound(new, since[r]), Placed(new),
         UNCHANGED <<ledgerVars, tokenVars, since, changes, requests>>,
         sticky' \in [Keys -> Account]
  PROVE  TypeOK' /\ RequestInv'
<1>1. UNCHANGED <<known, inForce, refused, token, on, since, changes, requests>>
  BY DEF ledgerVars, tokenVars
<1>2. \A o \in Slots : Within(since'[o], since[o]) /\ UpToDate(since[o])'
  BY <1>1 DEF Within, UpToDate, TokenOf, RequestInv
<1> QED
  BY <1>1, <1>2, Stepped DEF TypeOK

\* The request is over.
LEMMA Forgotten ==
  ASSUME TypeOK, RequestInv, NEW r \in Slots, Forget(r),
         UNCHANGED <<ledgerVars, sticky, tokenVars, changes, requests>>
  PROVE  TypeOK' /\ RequestInv'
<1>1. /\ req' = [req EXCEPT ![r] = IdleRequest]
      /\ since' = [since EXCEPT ![r] = NoHistory]
      /\ UNCHANGED <<known, inForce, refused, token, on, sticky, changes, requests>>
  BY DEF Forget, ledgerVars, tokenVars
<1>2. since' \in [Slots -> History] /\ since'[r] = NoHistory
  BY <1>1, IdleIsSound DEF TypeOK
<1>3. \A o \in Slots : Within(since'[o], since[o]) /\ UpToDate(since[o])'
  BY <1>1, <1>2 DEF Within, UpToDate, TokenOf, RequestInv, TypeOK, NoHistory
<1> QED
  BY <1>1, <1>2, <1>3, IdleIsSound, Stepped DEF TypeOK, Placed, IdleRequest

\* A request comes in (relay).
LEMMA Arrives ==
  ASSUME TypeOK, RequestInv, NEW r \in Slots, NEW k \in Keys, NEW o \in Owns,
         NEW swappable \in BOOLEAN, Arrive(r, k, o, swappable)
  PROVE  TypeOK' /\ RequestInv'
<1> DEFINE usable == {l \in Labels : TokenOf(l)}
           swap == swappable /\ on /\ usable # {}
           first == IF swap THEN "start" ELSE "send"
           new == [IdleRequest EXCEPT !.pc = first, !.key = k, !.own = o, !.usable = usable,
                                      !.attempt = 1]
           s == [forced |-> {l \in Labels : inForce[l]},
                 roomy  |-> {l \in usable : UnderLine(Worst(l))},
                 aside  |-> {l \in Labels : refused[l]}]
<1>1. /\ req' = [req EXCEPT ![r] = new] /\ since' = [since EXCEPT ![r] = s]
      /\ requests' = requests + 1
      /\ UNCHANGED <<known, inForce, refused, token, on, sticky, changes>>
  BY DEF Arrive, ledgerVars, tokenVars
<1>2. /\ first \in Steps /\ k \in Keys \cup {NoKey} /\ o \in Account /\ usable \in SUBSET Labels
      /\ 1 \in 0..2
  BY OwnAssumption DEF Steps, Account
<1>3. /\ first \in {"start", "send"} /\ (first = "start" => usable # {})
  OBVIOUS
<1>4. s \in History /\ s.roomy \subseteq usable
  BY DEF History
<1>5. UpToDate(s)
  <2>1. s.forced = {l \in Labels : inForce[l]} /\ s.aside = {l \in Labels : refused[l]}
    OBVIOUS
  <2>2. \A l \in s.roomy : l \in Labels /\ TokenOf(l) /\ ~inForce[l] /\ UnderLine(known[l])
    <3> SUFFICES ASSUME NEW l \in Labels, TokenOf(l), UnderLine(Worst(l))
                 PROVE  ~inForce[l] /\ UnderLine(known[l])
      OBVIOUS
    <3>1. CASE inForce[l]
      BY <3>1, FullAssumption DEF Worst
    <3>2. CASE ~inForce[l]
      BY <3>2 DEF Worst
    <3> QED
      BY <3>1, <3>2
  <2> HIDE DEF s
  <2> QED
    BY <2>1, <2>2 DEF UpToDate
<1> HIDE DEF s, first, usable, swap
<1>6. new \in Request
  BY <1>2, IdleIsSound, ZenonT(60) DEF Request
<1>7. /\ new.pc = first /\ new.key = k /\ new.usable = usable /\ new.avoid = NoLabel
      /\ new.chosen = NoLabel /\ new.attempt = 1 /\ new.sends = 0 /\ new.spent = NoLabel
  BY DEF IdleRequest
<1> HIDE DEF new
<1>8. Sound(new, s) /\ Placed(new)
  <2>1. NoLabel \notin s.forced /\ NoLabel \notin s.roomy
    BY <1>4, LabelAssumption DEF History
  <2>2. Counted(new) /\ Elsewhere(new) /\ Placed(new)
    BY <1>3, <1>7 DEF Counted, Elsewhere, Placed
  <2>3. Weighed(new, s)
    BY <1>3, <1>4, <1>7, <2>1 DEF Weighed
  <2> QED
    BY <2>2, <2>3 DEF Sound
<1>9. \A p \in Slots : p # r => Within(since'[p], since[p]) /\ UpToDate(since[p])'
  BY <1>1 DEF Within, UpToDate, TokenOf, RequestInv, TypeOK
<1>10. ASSUME NEW p \in Slots PROVE Sound(req'[p], since'[p]) /\ UpToDate(since[p])'
  <2>1. CASE p = r
    BY <1>1, <1>5, <1>8, <2>1 DEF UpToDate, TokenOf, TypeOK
  <2>2. CASE p # r
    BY <1>1, <1>9, <2>2 DEF TypeOK, RequestInv
  <2> QED
    BY <2>1, <2>2
<1>11. /\ req' \in [Slots -> Request] /\ since' \in [Slots -> History]
       /\ \A p \in Slots : Placed(req'[p])
  BY <1>1, <1>4, <1>6, <1>8 DEF TypeOK, Placed
<1> QED
  BY <1>1, <1>10, <1>11 DEF TypeOK, RequestInv, Placed

\* choose finds where the request starts: an account that had a token.
LEMMA Starts ==
  ASSUME TypeOK, RequestInv, NEW r \in Slots, Start(r)
  PROVE  TypeOK' /\ RequestInv'
<1>1. PICK l \in req[r].usable :
        req' = [req EXCEPT ![r].pc = "weigh", ![r].cur = l, ![r].left = req[r].usable]
  BY DEF Start
<1> DEFINE q == req[r]
           usable == q.usable
           new == [q EXCEPT !.pc = "weigh", !.cur = l, !.left = usable]
<1>2. /\ q \in Request /\ since[r] \in History /\ Sound(q, since[r]) /\ Placed(q)
      /\ q.pc = "start" /\ req' = [req EXCEPT ![r] = new] /\ UNCHANGED sticky
      /\ UNCHANGED <<ledgerVars, tokenVars, since, changes, requests>>
  BY <1>1 DEF TypeOK, RequestInv, Placed, Start
<1>3. /\ "weigh" \in Steps /\ l \in Account /\ usable \in SUBSET Labels /\ usable = q.usable
      /\ l \in usable
  BY <1>2 DEF Steps, Account, Request
<1> HIDE DEF q, usable
<1>4. new \in Request
  BY <1>2, <1>3, ZenonT(60) DEF Request
<1>5. /\ new.pc = "weigh" /\ new.key = q.key /\ new.usable = q.usable /\ new.cur = l
      /\ new.avoid = q.avoid /\ new.chosen = q.chosen /\ new.attempt = q.attempt
      /\ new.sends = q.sends /\ new.spent = q.spent /\ new.status = q.status
      /\ new.left = usable
  BY <1>2 DEF Request
<1> HIDE DEF new
<1>6. Counted(new) /\ Elsewhere(new) /\ Placed(new) /\ Weighed(new, since[r])
  BY <1>2, <1>3, <1>5 DEF Sound, Counted, Elsewhere, Placed, Weighed
<1> QED
  BY <1>2, <1>4, <1>6, SteppedAlone DEF Sound, TypeOK

\* choose reads the worst window of one account: 100 when it is in force, less than the line
\* when the account has room.
LEMMA Weighs ==
  ASSUME TypeOK, RequestInv, NEW r \in Slots, Weigh(r)
  PROVE  TypeOK' /\ RequestInv'
<1> DEFINE q == req[r]
<1>1. PICK l \in q.left : req' = [req EXCEPT ![r] = WithReading(q, l, Worst(l))]
  BY DEF Weigh
<1> DEFINE pc == IF q.left = {l} THEN "settle" ELSE "weigh"
           rest == q.left \ {l}
           w == [q.w EXCEPT ![l] = Worst(l)]
           new == [q EXCEPT !.pc = pc, !.left = rest, !.w = w]
<1>2. /\ q \in Request /\ since[r] \in History /\ Sound(q, since[r]) /\ Placed(q)
      /\ UpToDate(since[r]) /\ q.pc = "weigh" /\ req' = [req EXCEPT ![r] = new]
      /\ UNCHANGED <<ledgerVars, sticky, tokenVars, since, changes, requests>>
  BY <1>1 DEF TypeOK, RequestInv, Placed, Weigh, WithReading
<1>3. pc \in Steps /\ rest \in SUBSET Labels /\ w \in Weights /\ l \in Labels
  BY <1>2 DEF Steps, Weights, Worst, TypeOK, Request
<1>4. /\ \A o \in (q.usable \cap since[r].forced) \ rest : w[o] = 100
      /\ \A o \in since[r].roomy \ rest : UnderLine(w[o])
  <2>1. /\ since[r].roomy \subseteq Labels /\ since[r].forced \subseteq {o \in Labels : inForce[o]}
        /\ \A o \in since[r].roomy : ~inForce[o] /\ UnderLine(known[o])
        /\ \A o \in (q.usable \cap since[r].forced) \ q.left : q.w[o] = 100
        /\ \A o \in since[r].roomy \ q.left : UnderLine(q.w[o])
    BY <1>2 DEF Sound, Weighed, UpToDate
  <2>2. \A o \in Labels : w[o] = IF o = l THEN Worst(l) ELSE q.w[o]
    BY <1>2, <1>3 DEF Request, Weights
  <2>3. \A o \in Labels \ rest : o = l \/ o \in Labels \ q.left
    OBVIOUS
  <2> HIDE DEF q, w, rest
  <2> QED
    BY <2>1, <2>2, <2>3 DEF Worst
<1>5. pc \in {"weigh", "settle"} /\ (pc = "settle" => rest = {})
  OBVIOUS
<1> HIDE DEF q, w, rest, pc
<1>6. new \in Request
  BY <1>2, <1>3, ZenonT(60) DEF Request
<1>7. /\ new.pc = pc /\ new.key = q.key /\ new.usable = q.usable /\ new.cur = q.cur
      /\ new.avoid = q.avoid /\ new.chosen = q.chosen /\ new.attempt = q.attempt
      /\ new.sends = q.sends /\ new.spent = q.spent /\ new.status = q.status /\ new.w = w
      /\ new.left = rest
  BY <1>2 DEF Request
<1> HIDE DEF new
<1>8. Counted(new) /\ Elsewhere(new) /\ Placed(new)
  BY <1>2, <1>5, <1>7 DEF Sound, Counted, Elsewhere, Placed
<1>9. Weighed(new, since[r])
  BY <1>2, <1>4, <1>5, <1>7 DEF Sound, Weighed
<1> QED
  BY <1>2, <1>6, <1>8, <1>9, SteppedAlone DEF Sound, TypeOK

\* choose takes a used-up account only when no other has room.
LEMMA FullIsLeft ==
  ASSUME NEW q \in Request, NEW s \in History, Sound(q, s), q.pc = "settle",
         NEW l \in q.usable, Chooses(l, q.w, q.cur, q.avoid, q.usable), l \in s.forced
  PROVE  s.roomy = {}
<1>1. q.w[l] = 100
  BY DEF Sound, Weighed
<1> SUFFICES ASSUME NEW x \in s.roomy PROVE FALSE
  OBVIOUS
<1>2. x \in q.usable /\ x # q.avoid /\ UnderLine(q.w[x]) /\ x # l
  BY <1>1, FullAssumption DEF Sound, Weighed
<1> DEFINE open == Open(q.w, q.cur, q.avoid, q.usable)
<1>3. CASE MustMove(q.w, q.cur, q.avoid) /\ open # {}
  <2>1. l \in open
    BY <1>3 DEF Chooses, IsBest
  <2> QED
    BY <1>1, <2>1, FullAssumption DEF Open
<1>4. CASE ~(MustMove(q.w, q.cur, q.avoid) /\ open # {})
  <2>1. l = q.cur
    BY <1>4 DEF Chooses
  <2>2. MustMove(q.w, q.cur, q.avoid)
    BY <1>1, <2>1, FullAssumption DEF MustMove
  <2>3. x \in open
    BY <1>2, <2>1 DEF Open
  <2> QED
    BY <1>4, <2>2, <2>3
<1> QED
  BY <1>3, <1>4

\* choose decides: the request goes on with the account it chose, or streams what it has.
LEMMA Settles ==
  ASSUME TypeOK, RequestInv, NEW r \in Slots, Settle(r)
  PROVE  TypeOK' /\ RequestInv'
<1> DEFINE q == req[r]
           n == IF q.avoid = NoLabel THEN 1 ELSE 2
           over == [q EXCEPT !.pc = "stream", !.cur = NoLabel, !.w = Nothing]
           tries(l) == [q EXCEPT !.pc = "send", !.chosen = l, !.cur = NoLabel, !.w = Nothing,
                                 !.attempt = n, !.status = 0, !.body = "none"]
<1>1. PICK l \in q.usable :
        /\ Chooses(l, q.w, q.cur, q.avoid, q.usable)
        /\ sticky' = IF l = q.cur /\ MustMove(q.w, q.cur, q.avoid)
                       THEN sticky ELSE [sticky EXCEPT ![q.key] = l]
        /\ req' = [req EXCEPT ![r] = IF Tries(l, q.avoid) THEN tries(l) ELSE over]
  BY DEF Settle
<1> DEFINE sent == tries(l)
<1>2. /\ q \in Request /\ since[r] \in History /\ Sound(q, since[r]) /\ Placed(q)
      /\ q.pc = "settle" /\ UNCHANGED <<ledgerVars, tokenVars, since, changes, requests>>
  BY DEF TypeOK, RequestInv, Placed, Settle
<1>3. /\ "send" \in Steps /\ "stream" \in Steps /\ l \in Account /\ NoLabel \in Account
      /\ Nothing \in Weights /\ n \in 0..2 /\ 0 \in {0, 200, 401, 429}
      /\ "none" \in {"none", "unread", "read"}
  BY <1>2 DEF Steps, Account, Request, Nothing, Weights
<1>4. sticky' \in [Keys -> Account]
  BY <1>1, <1>3 DEF TypeOK
<1>5. l \in since[r].forced => since[r].roomy = {}
  BY <1>1, <1>2, FullIsLeft
<1>6. n = IF q.avoid = NoLabel THEN 1 ELSE 2
  OBVIOUS
<1>7. CASE Tries(l, q.avoid)
  <2>1. req' = [req EXCEPT ![r] = sent]
    BY <1>1, <1>7
  <2> HIDE DEF q, n
  <2>2. sent \in Request
    BY <1>2, <1>3, ZenonT(60) DEF Request
  <2>3. /\ sent.pc = "send" /\ sent.key = q.key /\ sent.usable = q.usable
        /\ sent.avoid = q.avoid /\ sent.chosen = l /\ sent.attempt = n
        /\ sent.sends = q.sends /\ sent.spent = q.spent
    BY <1>2 DEF Request
  <2> HIDE DEF sent
  <2>4. Counted(sent) /\ Elsewhere(sent) /\ Placed(sent)
    BY <1>1, <1>2, <1>6, <1>7, <2>3 DEF Sound, Counted, Elsewhere, Placed, Tries
  <2>5. Weighed(sent, since[r])
    BY <1>2, <1>5, <2>3 DEF Sound, Weighed
  <2> QED
    BY <1>2, <1>4, <2>1, <2>2, <2>4, <2>5, SteppedAlone DEF Sound
<1>8. CASE ~Tries(l, q.avoid)
  <2>1. req' = [req EXCEPT ![r] = over]
    BY <1>1, <1>8
  <2> HIDE DEF q
  <2>2. over \in Request
    BY <1>2, <1>3, ZenonT(60) DEF Request
  <2>3. /\ over.pc = "stream" /\ over.key = q.key /\ over.usable = q.usable
        /\ over.avoid = q.avoid /\ over.chosen = q.chosen
        /\ over.sends = q.sends /\ over.spent = q.spent
    BY <1>2 DEF Request
  <2> HIDE DEF over
  <2>4. Counted(over) /\ Elsewhere(over) /\ Placed(over) /\ Weighed(over, since[r])
    BY <1>2, <2>3 DEF Sound, Counted, Elsewhere, Placed, Weighed
  <2> QED
    BY <1>2, <1>4, <2>1, <2>2, <2>4, SteppedAlone DEF Sound
<1> QED
  BY <1>7, <1>8

-----------------------------------------------------------------------------
\* What is known of a request that is upstream, or about to be.
LEMMA Around ==
  ASSUME TypeOK, RequestInv, NEW r \in Slots
  PROVE  /\ req[r] \in Request /\ since[r] \in History /\ Sound(req[r], since[r])
         /\ UpToDate(since[r]) /\ Placed(req[r])
BY DEF TypeOK, RequestInv, Placed

\* The request goes upstream with a token that is not set aside, or with its own login.
LEMMA Sends ==
  ASSUME TypeOK, RequestInv, NEW r \in Slots, Send(r)
  PROVE  TypeOK' /\ RequestInv'
<1> DEFINE q == req[r]
           l == IF q.chosen \in Labels /\ TokenOf(q.chosen) THEN q.chosen ELSE NoLabel
           n == q.sends + 1
           spent == IF q.attempt = 1 THEN l ELSE q.spent
           new == [q EXCEPT !.pc = "sent", !.chosen = l, !.cred = l, !.conn = 0, !.sends = n,
                            !.spent = spent]
<1>1. /\ q \in Request /\ since[r] \in History /\ Sound(q, since[r]) /\ Placed(q)
      /\ UpToDate(since[r]) /\ q.pc = "send"
      /\ UNCHANGED <<ledgerVars, sticky, tokenVars, since, changes, requests>>
  BY Around DEF Send
<1>2. req' = [req EXCEPT ![r] = new]
  BY DEF Send
<1>3. /\ "sent" \in Steps /\ l \in Account /\ 0 \in 0..1 /\ n \in Nat /\ spent \in Account
  BY <1>1 DEF Steps, Account, Request
<1>4. /\ l = q.chosen \/ l = NoLabel
      /\ l \notin since[r].aside /\ NoLabel \notin since[r].forced
  BY <1>1, LabelAssumption DEF UpToDate, History, TokenOf
<1>5. n = q.sends + 1 /\ spent = (IF q.attempt = 1 THEN l ELSE q.spent)
  OBVIOUS
<1> HIDE DEF q, l, n, spent
<1>6. new \in Request
  BY <1>1, <1>3, ZenonT(60) DEF Request
<1>7. /\ new.pc = "sent" /\ new.key = q.key /\ new.usable = q.usable /\ new.avoid = q.avoid
      /\ new.chosen = l /\ new.cred = l /\ new.attempt = q.attempt /\ new.conn = 0
      /\ new.sends = n /\ new.spent = spent
  BY <1>1 DEF Request
<1>8. q.sends \in Nat
  BY <1>1 DEF Request
<1> HIDE DEF new
<1>9. Counted(new)
  BY <1>1, <1>5, <1>7, <1>8 DEF Sound, Counted
<1>10. Elsewhere(new) /\ Placed(new)
  BY <1>1, <1>4, <1>5, <1>7 DEF Sound, Elsewhere, Counted, Placed
<1>11. Weighed(new, since[r])
  BY <1>1, <1>4, <1>7 DEF Sound, Weighed
<1> QED
  BY <1>1, <1>2, <1>6, <1>9, <1>10, <1>11, SteppedAlone DEF Sound, TypeOK

\* The connection dies: once more over another one, or over.
LEMMA Fails ==
  ASSUME TypeOK, RequestInv, NEW r \in Slots, Dies(r)
  PROVE  TypeOK' /\ RequestInv'
<1> DEFINE q == req[r]
           n == q.sends + 1
           new == [q EXCEPT !.conn = 1, !.sends = n]
<1>1. /\ q \in Request /\ since[r] \in History /\ Sound(q, since[r]) /\ Placed(q)
      /\ q.pc = "sent" /\ UNCHANGED <<ledgerVars, sticky, tokenVars, changes, requests>>
  BY Around DEF Dies
<1>2. CASE q.conn = 0
  <2>1. req' = [req EXCEPT ![r] = new] /\ UNCHANGED since
    BY <1>2 DEF Dies, TypeOK
  <2>2. n \in Nat /\ 1 \in 0..1 /\ q \in Request
    BY <1>1 DEF Request
  <2>0. n = q.sends + 1 /\ q.sends \in Nat
    BY <1>1 DEF Request
  <2> HIDE DEF q, n
  <2>3. new \in Request
    BY <2>2, ZenonT(60) DEF Request
  <2>4. /\ new.pc = "sent" /\ new.key = q.key /\ new.usable = q.usable /\ new.avoid = q.avoid
        /\ new.chosen = q.chosen /\ new.cred = q.cred /\ new.attempt = q.attempt
        /\ new.conn = 1 /\ new.sends = n /\ new.spent = q.spent
    BY <1>1 DEF Request
  <2> HIDE DEF new
  <2>5. Counted(new)
    BY <1>1, <1>2, <2>0, <2>4 DEF Sound, Counted
  <2>6. Elsewhere(new) /\ Placed(new) /\ Weighed(new, since[r])
    BY <1>1, <2>4 DEF Sound, Elsewhere, Placed, Weighed
  <2> QED
    BY <1>1, <2>1, <2>3, <2>5, <2>6, SteppedAlone DEF Sound, TypeOK
<1>3. CASE q.conn # 0
  BY <1>1, <1>3, Forgotten DEF Dies
<1> QED
  BY <1>2, <1>3

\* A step of request r that may break histories off, after which r goes on as `new`.
LEMMA Noted ==
  ASSUME TypeOK, RequestInv, NEW r \in Slots, NEW new \in Request,
         req' = [req EXCEPT ![r] = new], Watch(Slots), Placed(new),
         known' \in Weights, inForce' \in [Labels -> BOOLEAN], refused' \in [Labels -> BOOLEAN],
         UNCHANGED <<sticky, token, on, changes, requests>>,
         Sound(new, since'[r])
  PROVE  TypeOK' /\ RequestInv'
<1>1. /\ since' \in [Slots -> History]
      /\ \A o \in Slots : Within(since'[o], since[o]) /\ UpToDate(since[o])'
  BY Watched DEF TypeOK
<1> QED
  BY <1>1, Stepped DEF TypeOK

\* The same step when the connection breaks under the refusal: the request is over.
LEMMA Broken ==
  ASSUME TypeOK, RequestInv, NEW r \in Slots,
         req' = [req EXCEPT ![r] = IdleRequest], Watch(Slots \ {r}),
         known' \in Weights, inForce' \in [Labels -> BOOLEAN], refused' \in [Labels -> BOOLEAN],
         UNCHANGED <<sticky, token, on, changes, requests>>
  PROVE  TypeOK' /\ RequestInv'
<1>1. /\ since' \in [Slots -> History]
      /\ \A o \in Slots : Within(since'[o], since[o]) /\ UpToDate(since[o])'
      /\ since'[r] = NoHistory
  BY Watched DEF TypeOK
<1>2. Placed(IdleRequest)
  BY DEF Placed, IdleRequest
<1> QED
  BY <1>1, <1>2, IdleIsSound, Stepped DEF TypeOK

LEMMA NotesTypes ==
  ASSUME TypeOK, NEW r \in Slots, NEW pct \in Percents \cup {Unknown}, NEW st \in WindowStatus,
         Notes(r, pct, st)
  PROVE  known' \in Weights /\ inForce' \in [Labels -> BOOLEAN]
BY PercentAssumption DEF TypeOK, Notes, Weights

\* What the session is about to be answered.
Answering(q, status) == [q EXCEPT !.pc = "stream", !.status = status, !.body = "unread"]

LEMMA Streamed ==
  ASSUME req \in [Slots -> Request], NEW r \in Slots, NEW status
  PROVE  [req EXCEPT ![r].pc = "stream", ![r].status = status, ![r].body = "unread"]
         = [req EXCEPT ![r] = Answering(req[r], status)]
BY DEF Answering

\* An answer goes to the session with what is known of its request.
LEMMA AnsweringIsSound ==
  ASSUME NEW q \in Request, NEW s \in History, NEW status \in {0, 200, 401, 429},
         Sound(q, s), Placed(q), q.pc = "sent"
  PROVE  /\ Answering(q, status) \in Request
         /\ Sound(Answering(q, status), s)
         /\ Placed(Answering(q, status))
<1> DEFINE new == Answering(q, status)
<1>1. "stream" \in Steps /\ "unread" \in {"none", "unread", "read"}
  BY DEF Steps
<1>2. new \in Request
  BY <1>1, ZenonT(60) DEF Request, Answering
<1>3. /\ new.pc = "stream" /\ new.key = q.key /\ new.usable = q.usable /\ new.avoid = q.avoid
      /\ new.chosen = q.chosen /\ new.sends = q.sends /\ new.spent = q.spent
  BY DEF Request, Answering
<1> HIDE DEF new
<1>4. Sound(new, s) /\ Placed(new)
  BY <1>3 DEF Sound, Counted, Elsewhere, Placed, Weighed
<1> QED
  BY <1>2, <1>4 DEF new

\* An answer whose headers are noted.
LEMMA Answers ==
  ASSUME TypeOK, RequestInv, NEW r \in Slots, NEW status \in {200, 401, 429},
         NEW pct \in Percents \cup {Unknown}, NEW st \in WindowStatus,
         Answered(r, status, pct, st)
  PROVE  TypeOK' /\ RequestInv'
<1> DEFINE new == Answering(req[r], status)
<1>1. /\ req[r].pc = "sent" /\ Watch(Slots)
      /\ UNCHANGED <<sticky, refused, token, on, changes, requests>>
  BY DEF Answered, tokenVars
<1>2. req' = [req EXCEPT ![r] = new]
  <2>1. req \in [Slots -> Request]
    BY DEF TypeOK
  <2>2. req' = [req EXCEPT ![r].pc = "stream", ![r].status = status, ![r].body = "unread"]
    BY DEF Answered
  <2>3. [req EXCEPT ![r].pc = "stream", ![r].status = status, ![r].body = "unread"]
        = [req EXCEPT ![r] = Answering(req[r], status)]
    BY <2>1, Streamed
  <2> QED
    BY <2>2, <2>3
<1>3. /\ new \in Request /\ Sound(new, since[r]) /\ Placed(new) /\ since[r] \in History
  BY <1>1, AnsweringIsSound, Around
<1>5. known' \in Weights /\ inForce' \in [Labels -> BOOLEAN]
  BY NotesTypes DEF Answered
<1>7. refused' \in [Labels -> BOOLEAN] /\ token' \in [Labels -> BOOLEAN]
  BY <1>1 DEF TypeOK
<1>6. since'[r] \in History /\ Within(since'[r], since[r])
  BY <1>1, <1>5, <1>7, Watched DEF TypeOK
<1> HIDE DEF new
<1>8. Sound(new, since'[r])
  BY <1>3, <1>6, BreakingOff
<1> QED
  BY <1>1, <1>2, <1>3, <1>5, <1>7, <1>8, Noted DEF Watch, TypeOK

\* A 401 to the first attempt: the request goes once more, with its own login.
LEMMA RefusesToken ==
  ASSUME TypeOK, RequestInv, NEW r \in Slots, TokenRefused(r)
  PROVE  TypeOK' /\ RequestInv'
<1> DEFINE q == req[r]
           new == [q EXCEPT !.pc = "send", !.chosen = NoLabel, !.attempt = 2]
<1>1. /\ q \in Request /\ since[r] \in History /\ Sound(q, since[r]) /\ q.pc = "sent" /\ Placed(q)
      /\ q.chosen # NoLabel /\ q.attempt = 1
      /\ UNCHANGED <<known, inForce, sticky, token, on, changes, requests>>
      /\ refused' \in [Labels -> BOOLEAN]
  BY Around DEF TokenRefused, FirstSwapped, ledgerVars, Refuse, TypeOK
<1>2. \/ req' = [req EXCEPT ![r] = new] /\ Watch(Slots)
      \/ req' = [req EXCEPT ![r] = IdleRequest] /\ Watch(Slots \ {r})
  BY DEF TokenRefused, Drain
<1>3. "send" \in Steps /\ NoLabel \in Account /\ 2 \in 0..2
  BY DEF Steps, Account
<1>4. NoLabel \notin since[r].forced
  BY <1>1, LabelAssumption DEF History
<1> HIDE DEF q
<1>5. new \in Request
  BY <1>1, <1>3, ZenonT(60) DEF Request
<1>6. /\ new.pc = "send" /\ new.key = q.key /\ new.usable = q.usable /\ new.avoid = q.avoid
      /\ new.chosen = NoLabel /\ new.attempt = 2 /\ new.sends = q.sends /\ new.spent = q.spent
  BY <1>1 DEF Request
<1>7. q.sends \in Nat /\ q.conn \in 0..1
  BY <1>1 DEF Request
<1> HIDE DEF new
<1>8. Counted(new)
  BY <1>1, <1>6, <1>7 DEF Sound, Counted
<1>9. Elsewhere(new) /\ Placed(new) /\ Weighed(new, since[r])
  BY <1>1, <1>4, <1>6 DEF Sound, Elsewhere, Placed, Weighed
<1>10. CASE req' = [req EXCEPT ![r] = new] /\ Watch(Slots)
  <2>1. since'[r] \in History /\ Within(since'[r], since[r])
    BY <1>1, <1>10, Watched DEF TypeOK
  <2> QED
    BY <1>1, <1>5, <1>8, <1>9, <1>10, <2>1, BreakingOff, Noted DEF TypeOK, Sound
<1>11. CASE req' = [req EXCEPT ![r] = IdleRequest] /\ Watch(Slots \ {r})
  BY <1>1, <1>11, Broken DEF TypeOK
<1> QED
  BY <1>2, <1>10, <1>11

\* A quota 429 to the first attempt: choose is asked for another account.
LEMMA RefusesQuota ==
  ASSUME TypeOK, RequestInv, NEW r \in Slots, NEW pct \in Percents \cup {Unknown},
         QuotaRefused(r, pct)
  PROVE  TypeOK' /\ RequestInv'
<1> DEFINE q == req[r]
           full == q.chosen
           quota == 429
           new == [q EXCEPT !.pc = "start", !.avoid = full, !.status = quota, !.body = "read"]
<1>1. /\ q \in Request /\ since[r] \in History /\ Sound(q, since[r]) /\ q.pc = "sent" /\ Placed(q)
      /\ full # NoLabel /\ q.attempt = 1
      /\ UNCHANGED <<refused, sticky, token, on, changes, requests>>
      /\ known' \in Weights /\ inForce' = [inForce EXCEPT ![full] = TRUE]
  <2>1. /\ FirstSwapped(r) /\ Notes(r, pct, "rejected")
        /\ UNCHANGED <<refused, sticky, token, on, changes, requests>>
    BY DEF QuotaRefused, tokenVars
  <2>2. known' \in Weights
    BY <2>1, NotesTypes DEF WindowStatus
  <2>3. q.pc = "sent" /\ full # NoLabel /\ q.attempt = 1
    BY <2>1 DEF FirstSwapped
  <2>4. inForce' = [inForce EXCEPT ![full] = TRUE]
    BY <2>1, <2>3 DEF Notes
  <2> QED
    BY <2>1, <2>2, <2>3, <2>4, Around
<1>2. \/ req' = [req EXCEPT ![r] = new] /\ Watch(Slots)
      \/ req' = [req EXCEPT ![r] = IdleRequest] /\ Watch(Slots \ {r})
  BY DEF QuotaRefused, Drain
<1>3. /\ "start" \in Steps /\ full \in Account /\ quota \in {0, 200, 401, 429}
      /\ "read" \in {"none", "unread", "read"} /\ q \in Request
  BY <1>1 DEF Steps, Request
<1>4. inForce' \in [Labels -> BOOLEAN] /\ (full \in Labels => inForce'[full])
  BY <1>1 DEF TypeOK
<1>5. full = q.chosen /\ quota = 429
  OBVIOUS
<1> HIDE DEF q, full, quota
<1>6. new \in Request
  BY <1>3, ZenonT(60) DEF Request
<1>7. /\ new.pc = "start" /\ new.key = q.key /\ new.usable = q.usable /\ new.avoid = full
      /\ new.chosen = q.chosen /\ new.attempt = q.attempt /\ new.sends = q.sends
      /\ new.spent = q.spent /\ new.status = quota /\ q.sends \in Nat /\ q.conn \in 0..1
  BY <1>1 DEF Request
<1> HIDE DEF new
<1>8. Counted(new)
  BY <1>1, <1>7 DEF Sound, Counted
<1>9. Elsewhere(new) /\ Placed(new)
  BY <1>1, <1>5, <1>7 DEF Sound, Elsewhere, Placed
<1>10. CASE req' = [req EXCEPT ![r] = new] /\ Watch(Slots)
  <2>1. /\ since'[r] \in History /\ Within(since'[r], since[r]) /\ UpToDate(since[r])'
    BY <1>1, <1>4, <1>10, Watched DEF TypeOK
  <2>2. full \notin since'[r].roomy
    BY <1>4, <2>1 DEF UpToDate
  <2>3. Weighed(new, since'[r])
    BY <1>1, <1>7, <2>1, <2>2 DEF Sound, Weighed, Within
  <2> QED
    BY <1>1, <1>4, <1>6, <1>8, <1>9, <1>10, <2>3, Noted DEF TypeOK, Sound
<1>11. CASE req' = [req EXCEPT ![r] = IdleRequest] /\ Watch(Slots \ {r})
  BY <1>1, <1>4, <1>11, Broken DEF TypeOK
<1> QED
  BY <1>2, <1>10, <1>11

\* What happens around the requests only breaks histories off.
LEMMA Surrounds ==
  ASSUME TypeOK, RequestInv, Environment
  PROVE  TypeOK' /\ RequestInv'
<1>1. Watch(Slots) /\ UNCHANGED <<sticky, req, requests>> /\ changes' \in Nat
  BY DEF Environment, TypeOK
<1>2. /\ known' \in Weights /\ inForce' \in [Labels -> BOOLEAN]
      /\ refused' \in [Labels -> BOOLEAN] /\ token' \in [Labels -> BOOLEAN] /\ on' \in BOOLEAN
  BY PercentAssumption
     DEF Environment, SwitchProxy, TypeOK, ledgerVars, tokenVars, Weights
<1>3. /\ since' \in [Slots -> History]
      /\ \A o \in Slots : Within(since'[o], since[o]) /\ UpToDate(since[o])'
  BY <1>1, <1>2, Watched
<1>4. \A o \in Slots : Sound(req[o], since'[o])
  BY <1>3, BreakingOff, Around DEF TypeOK
<1> QED
  BY <1>1, <1>2, <1>3, <1>4 DEF TypeOK, RequestInv

\* Every step of a request keeps what is known of all.
LEMMA RequestStep == TypeOK /\ RequestInv /\ [Next]_vars => TypeOK' /\ RequestInv'
<1> SUFFICES ASSUME TypeOK, RequestInv, [Next]_vars PROVE TypeOK' /\ RequestInv'
  OBVIOUS
<1>1. ASSUME NEW r \in Slots, Upstream(r) PROVE TypeOK' /\ RequestInv'
  BY <1>1, Answers, RefusesToken, RefusesQuota, Fails DEF Upstream
<1>2. ASSUME NEW r \in Slots, Stream(r) PROVE TypeOK' /\ RequestInv'
  BY <1>2, Forgotten DEF Stream
<1>3. CASE UNCHANGED vars
  BY <1>3 DEF vars, ledgerVars, tokenVars, TypeOK, RequestInv, UpToDate, TokenOf
<1> QED
  BY <1>1, <1>2, <1>3, Arrives, Starts, Weighs, Settles, Sends, Surrounds DEF Next, Relay

\* Any number of requests, accounts, sessions and changes around them.
LEMMA RequestsHold == Spec => [](TypeOK /\ RequestInv)
<1> QED
  BY RequestInit, RequestStep, PTL DEF Spec

\* Types of the requests and of what they share; a request that chooses has an account.
THEOREM TypeCorrect == Spec => []TypeOK
BY RequestsHold, PTL

\* Whatever other requests did to the session's sticky account, and whatever changed
\* around it, no request goes upstream on an account that has been used up all the while
\* when another has had room all the while (choose, mark_in_force).
THEOREM Avoided == Spec => []UsedUpIsAvoided
<1>1. TypeOK /\ RequestInv => UsedUpIsAvoided
  <2> SUFFICES ASSUME TypeOK, RequestInv, NEW r \in Slots, req[r].pc = "sent",
                      req[r].cred \in since[r].forced
               PROVE  since[r].roomy \subseteq {req[r].cred}
    BY DEF UsedUpIsAvoided
  <2> QED
    BY DEF RequestInv, Sound, Weighed, Elsewhere
<1> QED
  BY <1>1, RequestsHold, PTL

\* A token that was set aside when a request came and still is goes with none of its
\* attempts (Accounts.refuse, Accounts.token).
THEOREM Aside == Spec => []SetAsideStaysAside
<1>1. TypeOK /\ RequestInv => SetAsideStaysAside
  BY DEF RequestInv, SetAsideStaysAside, Sound, Weighed
<1> QED
  BY <1>1, RequestsHold, PTL

\* The second attempt goes out with another credential than the first, and no request goes
\* upstream more than four times (relay, Upstream.request).
THEOREM RetriedApart == Spec => []RetryIsElsewhere
<1>1. TypeOK /\ RequestInv => RetryIsElsewhere
  BY DEF RequestInv, RetryIsElsewhere, Sound, Counted, Elsewhere
<1> QED
  BY <1>1, RequestsHold, PTL

-----------------------------------------------------------------------------
\* What a step of request r shows of it, and that the others stay as they are.
Alone(r) == \A o \in Slots \ {r} : req'[o] = req[o]
Lessens(r) == Left(req'[r]) < Left(req[r])
Shortens(r) ==
  /\ Left(req'[r]) = Left(req[r])
  /\ req'[r].left \subseteq req[r].left /\ req'[r].left # req[r].left
Same(r) == Trip(req'[r]) = Trip(req[r])

LEMMA AloneGoes ==
  ASSUME NEW r \in Slots, Alone(r), NEW t, Trip(req'[r]) = t
  PROVE  Promise!Goes(r, t)
<1>1. \A o \in Slots : Trip(req[o])' = (IF o = r THEN t ELSE Trip(req[o]))
  BY DEF Alone
<1>2. [o \in Slots |-> Trip(req[o])]' = [[o \in Slots |-> Trip(req[o])] EXCEPT ![r] = t]
  BY <1>1
<1> QED
  BY <1>2 DEF Promise!Goes

LEMMA AloneSame ==
  ASSUME NEW r \in Slots, Alone(r), Same(r), UNCHANGED <<refused, inForce>>
  PROVE  UNCHANGED Promise!exchangeVars
<1>1. \A o \in Slots : Trip(req[o])' = Trip(req[o])
  BY DEF Alone, Same
<1>2. [o \in Slots |-> Trip(req[o])]' = [o \in Slots |-> Trip(req[o])]
  BY <1>1
<1> QED
  BY <1>2 DEF Promise!exchangeVars

LEMMA TripOf == ASSUME NEW r \in Slots PROVE [o \in Slots |-> Trip(req[o])][r] = Trip(req[r])
OBVIOUS

\* What Trip makes of a request that is upstream, of one that is answered, and of one that
\* is about to be tried.
LEMMA UpstreamTrip ==
  ASSUME NEW q, q.pc = "sent"
  PROVE  Trip(q) = [stage |-> IF q.attempt = 1 THEN "first" ELSE "second", cred |-> q.cred,
                    again |-> q.conn, told |-> 0]
BY DEF Trip

LEMMA AnsweredTrip ==
  ASSUME NEW q, q.pc = "stream"
  PROVE  Trip(q) = Promise!Told(q.status)
BY DEF Trip, Promise!Told

LEMMA WaitingTrip ==
  ASSUME NEW q, q.pc # "idle", q.pc # "stream", q.pc # "sent"
  PROVE  /\ q.avoid # NoLabel => Trip(q) = Promise!At("used up", q.spent)
         /\ q.avoid = NoLabel /\ q.attempt = 1 => Trip(q) = Promise!At("open", NoLabel)
         /\ q.avoid = NoLabel /\ q.attempt = 2 => Trip(q) = Promise!At("denied", q.spent)
<1>1. ASSUME q.avoid # NoLabel PROVE Trip(q) = Promise!At("used up", q.spent)
  BY <1>1 DEF Trip, Promise!At
<1>2. ASSUME q.avoid = NoLabel, q.attempt = 1 PROVE Trip(q) = Promise!At("open", NoLabel)
  BY <1>2 DEF Trip, Promise!At
<1>3. ASSUME q.avoid = NoLabel, q.attempt = 2 PROVE Trip(q) = Promise!At("denied", q.spent)
  BY <1>3 DEF Trip, Promise!At
<1> QED
  BY <1>1, <1>2, <1>3

LEMMA NoTripIs == Trip(IdleRequest) = Promise!NoTrip
BY DEF Trip, Promise!NoTrip, Promise!At, IdleRequest

\* Finding where to start and reading the windows are not seen from outside.
LEMMA ChoosingShows ==
  ASSUME TypeOK, RequestInv, NEW r \in Slots, Start(r) \/ Weigh(r)
  PROVE  Alone(r) /\ (Lessens(r) \/ Shortens(r)) /\ Same(r)
<1>1. req \in [Slots -> Request] /\ req[r] \in Request
  BY DEF TypeOK
<1>2. /\ \/ req[r].pc = "start" /\ req'[r].pc = "weigh"
         \/ req[r].pc = "weigh" /\ req'[r].pc = "settle"
         \/ /\ req[r].pc = "weigh" /\ req'[r].pc = "weigh"
            /\ req'[r].left \subseteq req[r].left /\ req'[r].left # req[r].left
      /\ req'[r].avoid = req[r].avoid /\ req'[r].attempt = req[r].attempt
      /\ req'[r].spent = req[r].spent /\ Alone(r)
  <2>1. CASE Start(r)
    <3>1. PICK l \in req[r].usable :
            req' = [req EXCEPT ![r].pc = "weigh", ![r].cur = l, ![r].left = req[r].usable]
      BY <2>1 DEF Start
    <3>2. req'[r] = [req[r] EXCEPT !.pc = "weigh", !.cur = l, !.left = req[r].usable] /\ Alone(r)
      BY <1>1, <3>1 DEF Alone
    <3>3. req[r].pc = "start"
      BY <2>1 DEF Start
    <3> QED
      BY <1>1, <3>2, <3>3 DEF Request
  <2>2. CASE Weigh(r)
    <3>1. PICK l \in req[r].left : req' = [req EXCEPT ![r] = WithReading(req[r], l, Worst(l))]
      BY <2>2 DEF Weigh
    <3>2. req'[r] = WithReading(req[r], l, Worst(l)) /\ Alone(r) /\ req[r].pc = "weigh"
      BY <1>1, <2>2, <3>1 DEF Weigh, Alone
    <3> QED
      BY <1>1, <3>2 DEF Request, WithReading
  <2> QED
    BY <2>1, <2>2
<1>3. Lessens(r) \/ Shortens(r)
  BY <1>2 DEF Lessens, Shortens, Left
<1>4. Same(r)
  BY <1>2 DEF Same, Trip
<1> QED
  BY <1>2, <1>3, <1>4

\* choose settles on an account, and a request that was refused on another or, when there is
\* no other, on the refusal.
LEMMA SettlingShows ==
  ASSUME TypeOK, RequestInv, NEW r \in Slots, Settle(r)
  PROVE  /\ Alone(r) /\ Lessens(r)
         /\ Same(r) \/ Promise!Settle(r)
<1> DEFINE q == req[r]
<1>1. req \in [Slots -> Request] /\ q \in Request /\ q.pc = "settle" /\ Sound(q, since[r])
  BY DEF TypeOK, RequestInv, Settle
<1>2. UNCHANGED <<refused, inForce>>
  BY DEF Settle, tokenVars, ledgerVars
<1>3. PICK l \in q.usable :
        req' = [req EXCEPT ![r] =
          IF Tries(l, q.avoid)
            THEN [q EXCEPT !.pc = "send", !.chosen = l, !.cur = NoLabel, !.w = Nothing,
                           !.attempt = IF q.avoid = NoLabel THEN 1 ELSE 2,
                           !.status = 0, !.body = "none"]
            ELSE [q EXCEPT !.pc = "stream", !.cur = NoLabel, !.w = Nothing]]
  BY DEF Settle
<1>4. Alone(r)
  BY <1>1, <1>3 DEF Alone
<1>5. q.attempt = 1 /\ (q.avoid # NoLabel => q.status = 429)
  BY <1>1 DEF Sound, Counted, Elsewhere
<1>6. CASE Tries(l, q.avoid)
  <2>1. /\ req'[r].pc = "send" /\ req'[r].avoid = q.avoid /\ req'[r].spent = q.spent
        /\ req'[r].attempt = IF q.avoid = NoLabel THEN 1 ELSE 2
    BY <1>1, <1>3, <1>6 DEF Request
  <2>2. Lessens(r)
    BY <1>1, <1>5, <2>1 DEF Lessens, Left
  <2>3. Same(r)
    BY <1>1, <1>5, <2>1 DEF Same, Trip
  <2> QED
    BY <1>4, <2>2, <2>3
<1>7. CASE ~Tries(l, q.avoid)
  <2>1. /\ req'[r].pc = "stream" /\ req'[r].status = q.status
    BY <1>1, <1>3, <1>7 DEF Request
  <2>2. q.avoid # NoLabel
    BY <1>1, <1>7, LabelAssumption DEF Tries, Request
  <2>3. Lessens(r)
    BY <1>1, <2>1 DEF Lessens, Left
  <2>4. Trip(req'[r]) = Promise!Told(429)
    BY <1>5, <2>1, <2>2, AnsweredTrip
  <2>5. Promise!Goes(r, Promise!Told(429))
    BY <1>4, <2>4, AloneGoes
  <2>6. Promise!Stage(r) = "used up"
    BY <1>1, <2>2, TripOf DEF Promise!Stage, Trip
  <2> QED
    BY <1>2, <1>4, <2>3, <2>5, <2>6 DEF Promise!Settle
<1> QED
  BY <1>6, <1>7

\* A request goes upstream: a try with a credential that is not set aside.
LEMMA SendingShows ==
  ASSUME TypeOK, RequestInv, NEW r \in Slots, Send(r)
  PROVE  /\ Alone(r) /\ Lessens(r)
         /\ \E c \in Labels \cup {NoLabel} : Promise!Try(r, c)
<1> DEFINE q == req[r]
           l == IF q.chosen \in Labels /\ TokenOf(q.chosen) THEN q.chosen ELSE NoLabel
           stage == IF q.attempt = 1 THEN "first" ELSE "second"
<1>1. req \in [Slots -> Request] /\ q \in Request /\ q.pc = "send" /\ Sound(q, since[r])
  BY DEF TypeOK, RequestInv, Send
<1>2. UNCHANGED <<refused, inForce>>
  BY DEF Send, tokenVars, ledgerVars
<1>3. /\ Alone(r) /\ req'[r].pc = "sent" /\ req'[r].avoid = q.avoid /\ req'[r].attempt = q.attempt
      /\ req'[r].conn = 0 /\ req'[r].cred = l
  BY <1>1 DEF Send, Alone, Request
<1>4. Lessens(r)
  BY <1>1, <1>3 DEF Lessens, Left
<1>5. l \in Labels \cup {NoLabel} /\ l \notin {x \in Labels : refused[x]}
  BY LabelAssumption DEF TokenOf
<1>6. Trip(req'[r]) = Promise!At(stage, l)
  BY <1>3, UpstreamTrip DEF Promise!At
<1>7. Promise!Goes(r, Promise!At(stage, l))
  BY <1>3, <1>6, AloneGoes
<1>8. /\ q.attempt = 1 => q.avoid = NoLabel
      /\ q.attempt \in {1, 2}
      /\ q.attempt = 2 => q.spent # NoLabel /\ q.chosen # q.spent
      /\ q.attempt = 2 /\ q.avoid = NoLabel => q.chosen = NoLabel
  BY <1>1 DEF Sound, Counted, Elsewhere
<1>9. \/ stage = "first" /\ Trip(q).stage = "open"
      \/ stage = "second" /\ Trip(q).stage = "denied" /\ l = NoLabel
      \/ stage = "second" /\ Trip(q).stage = "used up" /\ l # Trip(q).cred
  BY <1>1, <1>8 DEF Trip
<1> QED
  BY <1>2, <1>3, <1>4, <1>5, <1>7, <1>9, TripOf DEF Promise!Try, Promise!Stage

\* What a request that is upstream looks like from outside.
LEMMA UpstreamShows ==
  ASSUME TypeOK, RequestInv, NEW r \in Slots, req[r].pc = "sent"
  PROVE  /\ req \in [Slots -> Request] /\ req[r] \in Request
         /\ Promise!Underway(r)
         /\ req[r].cred = req[r].chosen /\ req[r].attempt \in {1, 2} /\ req[r].conn \in {0, 1}
         /\ req[r].attempt = 1 => req[r].avoid = NoLabel /\ req[r].spent = req[r].cred
         /\ Promise!Retriable(r) <=> FirstSwapped(r)
         /\ req[r].chosen \in Labels \cup {NoLabel} /\ Trip(req[r]).cred = req[r].chosen
         /\ Trip(req[r]) = [stage |-> IF req[r].attempt = 1 THEN "first" ELSE "second",
                            cred |-> req[r].cred, again |-> req[r].conn, told |-> 0]
<1>1. req \in [Slots -> Request] /\ req[r] \in Request /\ Sound(req[r], since[r])
  BY DEF TypeOK, RequestInv
<1>2. /\ req[r].cred = req[r].chosen /\ req[r].attempt \in {1, 2} /\ req[r].conn \in {0, 1}
      /\ req[r].attempt = 1 => req[r].avoid = NoLabel /\ req[r].spent = req[r].cred
      /\ req[r].chosen \in Labels \cup {NoLabel}
  BY <1>1 DEF Sound, Counted, Elsewhere, Request, Account
<1>3. Trip(req[r]) = [stage |-> IF req[r].attempt = 1 THEN "first" ELSE "second",
                      cred |-> req[r].cred, again |-> req[r].conn, told |-> 0]
  BY UpstreamTrip
<1>4. Promise!Underway(r)
  BY <1>3, TripOf DEF Promise!Underway, Promise!Stage
<1>5. Promise!Retriable(r) <=> FirstSwapped(r)
  BY <1>2, <1>3, TripOf, LabelAssumption DEF Promise!Retriable, Promise!Stage, FirstSwapped
<1>6. Trip(req[r]).cred = req[r].chosen
  BY <1>2, <1>3
<1> QED
  BY <1>1, <1>2, <1>3, <1>4, <1>5, <1>6

\* The connection dies: the same headers go over another one, or the session gets a 502.
LEMMA DyingShows ==
  ASSUME TypeOK, RequestInv, NEW r \in Slots, Dies(r)
  PROVE  Alone(r) /\ Lessens(r) /\ (Promise!Resend(r) \/ Promise!Fail(r))
<1> DEFINE q == req[r]
           trip == [stage |-> IF q.attempt = 1 THEN "first" ELSE "second",
                    cred |-> q.cred, again |-> q.conn, told |-> 0]
<1>1. q.pc = "sent" /\ UNCHANGED <<refused, inForce>>
  BY DEF Dies, ledgerVars, tokenVars
<1>2. /\ req \in [Slots -> Request] /\ q \in Request /\ q.conn \in {0, 1}
      /\ Promise!Underway(r) /\ Trip(q) = trip
  BY <1>1, UpstreamShows
<1>3. CASE q.conn = 0
  <2>1. req' = [req EXCEPT ![r].conn = 1, ![r].sends = @ + 1]
    BY <1>3 DEF Dies
  <2>2. Alone(r) /\ req'[r] = [q EXCEPT !.conn = 1, !.sends = @ + 1]
    BY <1>2, <2>1 DEF Alone
  <2>3. /\ req'[r].pc = "sent" /\ req'[r].attempt = q.attempt /\ req'[r].avoid = q.avoid
        /\ req'[r].cred = q.cred /\ req'[r].conn = 1
    BY <1>1, <1>2, <2>2 DEF Request
  <2>4. Lessens(r)
    BY <1>1, <1>3, <2>3 DEF Lessens, Left
  <2>5. Trip(req'[r]) = [trip EXCEPT !.again = 1]
    <3>1. Trip(req'[r]) = [stage |-> IF req'[r].attempt = 1 THEN "first" ELSE "second",
                           cred |-> req'[r].cred, again |-> req'[r].conn, told |-> 0]
      BY <2>3, UpstreamTrip
    <3> QED
      BY <2>3, <3>1
  <2>6. Promise!Goes(r, [trip EXCEPT !.again = 1])
    BY <2>2, <2>5, AloneGoes
  <2>7. trip.again = 0
    BY <1>3
  <2> HIDE DEF trip
  <2>8. Promise!Resend(r)
    BY <1>1, <1>2, <2>6, <2>7, TripOf DEF Promise!Resend
  <2> QED
    BY <2>2, <2>4, <2>8
<1>4. CASE q.conn # 0
  <2>1. Alone(r) /\ req'[r] = IdleRequest
    BY <1>2, <1>4 DEF Dies, Forget, Alone
  <2>2. Lessens(r)
    <3>1. req'[r].pc = "idle"
      BY <2>1 DEF IdleRequest
    <3> QED
      BY <1>1, <1>2, <3>1 DEF Lessens, Left
  <2>3. Promise!Goes(r, Promise!NoTrip)
    BY <2>1, AloneGoes, NoTripIs
  <2>4. trip.again = 1
    BY <1>2, <1>4
  <2> HIDE DEF trip
  <2>5. Promise!Fail(r)
    BY <1>1, <1>2, <2>3, <2>4, TripOf DEF Promise!Fail
  <2> QED
    BY <2>1, <2>2, <2>5
<1> QED
  BY <1>3, <1>4

\* An answer is told to the session; a refusal that leaves another try is none.
LEMMA AnsweringShows ==
  ASSUME TypeOK, RequestInv, NEW r \in Slots, NEW status \in {200, 401, 429},
         req[r].pc = "sent", status \in {401, 429} => ~FirstSwapped(r),
         Alone(r), req'[r] = Answering(req[r], status),
         UNCHANGED refused,
         \/ UNCHANGED inForce
         \/ req[r].chosen # NoLabel /\ inForce' = [inForce EXCEPT ![req[r].chosen] = TRUE]
  PROVE  Alone(r) /\ Lessens(r) /\ Promise!Answer(r, status)
<1> DEFINE q == req[r]
<1>1. /\ req \in [Slots -> Request] /\ q \in Request /\ q.conn \in {0, 1}
      /\ Promise!Underway(r) /\ (Promise!Retriable(r) <=> FirstSwapped(r))
      /\ Trip(q).cred = q.chosen /\ q.chosen \in Labels \cup {NoLabel}
  BY UpstreamShows
<1>2. Alone(r) /\ req'[r] = Answering(q, status)
  OBVIOUS
<1>3. req'[r].pc = "stream" /\ req'[r].status = status
  BY <1>1, <1>2 DEF Answering, Request
<1>4. Lessens(r)
  <2>1. Left(req'[r]) = 1
    BY <1>3 DEF Left
  <2>2. Left(q) = (IF q.avoid # NoLabel \/ q.attempt = 2 THEN 3 ELSE 9) - q.conn
    BY DEF Left
  <2> QED
    BY <1>1, <2>1, <2>2 DEF Lessens
<1>5. Promise!Goes(r, Promise!Told(status))
  BY <1>2, <1>3, AnsweredTrip, AloneGoes
<1>6. status \in {401, 429} => ~Promise!Retriable(r)
  BY <1>1
<1>7. \/ UNCHANGED {l \in Labels : inForce[l]}
      \/ /\ Trip(q).cred \in Labels
         /\ {l \in Labels : inForce[l]}' = {l \in Labels : inForce[l]} \cup {Trip(q).cred}
  <2>1. inForce \in [Labels -> BOOLEAN]
    BY DEF TypeOK
  <2> QED
    BY <1>1, <2>1
<1> QED
  BY <1>1, <1>2, <1>4, <1>5, <1>6, <1>7, TripOf DEF Promise!Answer

LEMMA AnswersShow ==
  ASSUME TypeOK, RequestInv, NEW r \in Slots, NEW status \in {200, 401, 429},
         NEW pct \in Percents \cup {Unknown}, NEW st \in WindowStatus,
         Answered(r, status, pct, st)
  PROVE  Alone(r) /\ Lessens(r) /\ Promise!Answer(r, status)
<1>1. /\ req[r].pc = "sent" /\ UNCHANGED refused
      /\ status \in {401, 429} => ~FirstSwapped(r)
  BY DEF Answered, tokenVars
<1>3. \/ UNCHANGED inForce
      \/ req[r].chosen # NoLabel /\ inForce' = [inForce EXCEPT ![req[r].chosen] = TRUE]
  BY Zenon DEF Answered, Notes
<1>2. Alone(r) /\ req'[r] = Answering(req[r], status)
  <2>1. req' = [req EXCEPT ![r].pc = "stream", ![r].status = status, ![r].body = "unread"]
    BY DEF Answered
  <2>2. req \in [Slots -> Request]
    BY DEF TypeOK
  <2>3. req' = [req EXCEPT ![r] = Answering(req[r], status)]
    BY <2>1, <2>2, Streamed
  <2> QED
    BY <2>2, <2>3 DEF Alone
<1> QED
  BY <1>1, <1>2, <1>3, AnsweringShows

\* A refusal of the first try: the request goes on without that credential, or its
\* connection broke under the refusal.
LEMMA RefusalShows ==
  ASSUME TypeOK, RequestInv, NEW r \in Slots, FirstSwapped(r),
         NEW new \in Request, Drain(r, new), NEW stage,
         Trip(new) = Promise!At(stage, req[r].spent), Left(new) < Left(req[r])
  PROVE  Alone(r) /\ Lessens(r) /\ Promise!GoesOn(r, stage)
<1>1. req[r].pc = "sent" /\ req[r].attempt = 1
  BY DEF FirstSwapped
<1>2. /\ req \in [Slots -> Request] /\ req[r].conn \in {0, 1}
      /\ req[r].cred = req[r].chosen /\ req[r].spent = req[r].cred
      /\ Trip(req[r]).cred = req[r].chosen
  BY <1>1, UpstreamShows
<1>3. \/ Alone(r) /\ req'[r] = new
      \/ Alone(r) /\ req'[r] = IdleRequest
  BY <1>2 DEF Drain, Alone
<1>4. CASE Alone(r) /\ req'[r] = new
  BY <1>2, <1>4, AloneGoes, TripOf DEF Lessens, Promise!GoesOn
<1>5. CASE Alone(r) /\ req'[r] = IdleRequest
  <2>1. Left(IdleRequest) = 0 /\ Left(req[r]) \in {2, 3, 8, 9}
    BY <1>1, <1>2 DEF Left, IdleRequest
  <2> QED
    BY <1>5, <2>1, AloneGoes, NoTripIs DEF Lessens, Promise!GoesOn
<1> QED
  BY <1>3, <1>4, <1>5

LEMMA TokenRefusalShows ==
  ASSUME TypeOK, RequestInv, NEW r \in Slots, TokenRefused(r)
  PROVE  Alone(r) /\ Lessens(r) /\ Promise!Deny(r)
<1> DEFINE q == req[r]
           new == [q EXCEPT !.pc = "send", !.chosen = NoLabel, !.attempt = 2]
<1>1. /\ FirstSwapped(r) /\ Drain(r, new) /\ UNCHANGED inForce
      /\ refused' = [refused EXCEPT ![q.chosen] = TRUE]
  BY DEF TokenRefused, Refuse, ledgerVars
<1>2. q.pc = "sent" /\ q.attempt = 1 /\ q.chosen # NoLabel
  BY <1>1 DEF FirstSwapped
<1>3. /\ q \in Request /\ q.avoid = NoLabel /\ q.conn \in {0, 1} /\ q.cred = q.chosen
      /\ Promise!Retriable(r) /\ Trip(q).cred = q.chosen /\ q.chosen \in Labels
  BY <1>1, <1>2, UpstreamShows
<1>4. "send" \in Steps /\ NoLabel \in Account /\ 2 \in 0..2
  BY DEF Steps, Account
<1>5. new \in Request /\ new.pc = "send" /\ new.attempt = 2 /\ new.avoid = NoLabel /\ new.spent = q.spent
  <2>0. q \in Request
    BY <1>3
  <2> HIDE DEF q
  <2>1. new \in Request
    BY <2>0, <1>4, ZenonT(60) DEF Request
  <2>2. new.pc = "send" /\ new.attempt = 2 /\ new.avoid = q.avoid /\ new.spent = q.spent
    BY <1>3 DEF Request
  <2> QED
    BY <1>3, <2>1, <2>2
<1> HIDE DEF new
<1>6. Trip(new) = Promise!At("denied", q.spent)
  <2> HIDE DEF q
  <2> QED
    BY <1>5, WaitingTrip
<1>7. Left(new) < Left(q)
  <2>1. Left(new) = 4 /\ Left(q) = 9 - q.conn
    BY <1>2, <1>3, <1>5 DEF Left
  <2> QED
    BY <1>3, <2>1
<1>8. Alone(r) /\ Lessens(r) /\ Promise!GoesOn(r, "denied")
  BY <1>1, <1>5, <1>6, <1>7, RefusalShows
<1>9. {l \in Labels : refused[l]}' = {l \in Labels : refused[l]} \cup {Trip(q).cred}
  <2>1. refused \in [Labels -> BOOLEAN]
    BY DEF TypeOK
  <2> QED
    BY <1>1, <1>3, <2>1
<1> QED
  BY <1>1, <1>3, <1>8, <1>9, TripOf DEF Promise!Deny

LEMMA QuotaRefusalShows ==
  ASSUME TypeOK, RequestInv, NEW r \in Slots, NEW pct \in Percents \cup {Unknown},
         QuotaRefused(r, pct)
  PROVE  Alone(r) /\ Lessens(r) /\ Promise!UseUp(r)
<1> DEFINE q == req[r]
           quota == 429
           new == [q EXCEPT !.pc = "start", !.avoid = q.chosen, !.status = quota, !.body = "read"]
<1>1. /\ FirstSwapped(r) /\ Drain(r, new) /\ UNCHANGED refused
      /\ q.chosen # NoLabel /\ inForce' = [inForce EXCEPT ![q.chosen] = TRUE]
  BY DEF QuotaRefused, Notes, FirstSwapped, tokenVars
<1>2. q.pc = "sent" /\ q.attempt = 1 /\ q.chosen # NoLabel
  BY <1>1 DEF FirstSwapped
<1>3. /\ q \in Request /\ q.avoid = NoLabel /\ q.conn \in {0, 1} /\ q.cred = q.chosen
      /\ Promise!Retriable(r) /\ Trip(q).cred = q.chosen /\ q.chosen \in Labels
  BY <1>1, <1>2, UpstreamShows
<1>4. /\ "start" \in Steps /\ q.chosen \in Account /\ quota \in {0, 200, 401, 429}
      /\ "read" \in {"none", "unread", "read"}
  BY <1>3 DEF Steps, Account
<1> HIDE DEF quota
<1>5. new \in Request /\ new.pc = "start" /\ new.attempt = 1 /\ new.avoid = q.chosen /\ new.spent = q.spent
  <2>0. q \in Request
    BY <1>3
  <2> HIDE DEF q
  <2>1. new \in Request
    BY <2>0, <1>4, ZenonT(60) DEF Request
  <2>2. new.pc = "start" /\ new.attempt = q.attempt /\ new.avoid = q.chosen /\ new.spent = q.spent
    BY <1>3 DEF Request
  <2> QED
    BY <1>2, <2>1, <2>2
<1> HIDE DEF new
<1>6. Trip(new) = Promise!At("used up", q.spent)
  <2>1. new.pc = "start" /\ new.avoid # NoLabel /\ new.spent = q.spent
    BY <1>2, <1>5
  <2> HIDE DEF q
  <2> QED
    BY <2>1, WaitingTrip
<1>7. Left(new) < Left(q)
  <2>1. Left(new) = 7 /\ Left(q) = 9 - q.conn
    BY <1>2, <1>3, <1>5 DEF Left
  <2> QED
    BY <1>3, <2>1
<1>8. Alone(r) /\ Lessens(r) /\ Promise!GoesOn(r, "used up")
  BY <1>1, <1>5, <1>6, <1>7, RefusalShows
<1>9. {l \in Labels : inForce[l]}' = {l \in Labels : inForce[l]} \cup {Trip(q).cred}
  <2>1. inForce \in [Labels -> BOOLEAN]
    BY DEF TypeOK
  <2> QED
    BY <1>1, <1>3, <2>1
<1> QED
  BY <1>1, <1>3, <1>8, <1>9, TripOf DEF Promise!UseUp

LEMMA StreamingShows ==
  ASSUME TypeOK, NEW r \in Slots, Stream(r)
  PROVE  Alone(r) /\ Lessens(r) /\ Promise!Close(r)
<1>1. /\ req[r].pc = "stream" /\ UNCHANGED <<refused, inForce>>
      /\ Alone(r) /\ req'[r] = IdleRequest
  BY DEF Stream, Forget, ledgerVars, tokenVars, TypeOK, Alone
<1>2. Left(req'[r]) = 0 /\ Left(req[r]) = 1
  BY <1>1 DEF Left, IdleRequest
<1>3. Promise!Goes(r, Promise!NoTrip)
  BY <1>1, AloneGoes, NoTripIs
<1>4. Promise!Stage(r) = "answered"
  BY <1>1, TripOf, AnsweredTrip DEF Promise!Stage, Promise!Told
<1> QED
  BY <1>1, <1>2, <1>3, <1>4 DEF Lessens, Promise!Close

LEMMA ArrivalShows ==
  ASSUME TypeOK, NEW r \in Slots, NEW k \in Keys, NEW o \in Owns, NEW swappable \in BOOLEAN,
         Arrive(r, k, o, swappable)
  PROVE  Alone(r) /\ req[r].pc = "idle" /\ Promise!Open(r)
<1> DEFINE usable == {l \in Labels : TokenOf(l)}
           first == IF swappable /\ on /\ usable # {} THEN "start" ELSE "send"
           new == [IdleRequest EXCEPT !.pc = first, !.key = k, !.own = o, !.usable = usable,
                                      !.attempt = 1]
<1>1. /\ req[r].pc = "idle" /\ UNCHANGED <<refused, inForce>>
      /\ req' = [req EXCEPT ![r] = new] /\ req \in [Slots -> Request]
  BY DEF Arrive, ledgerVars, tokenVars, TypeOK
<1>2. Alone(r) /\ req'[r] = new /\ first \in {"start", "send"}
  BY <1>1 DEF Alone
<1> HIDE DEF usable, first
<1>3. new.pc = first /\ new.attempt = 1 /\ new.avoid = NoLabel
  BY DEF IdleRequest
<1> HIDE DEF new
<1>4. Trip(new) = Promise!At("open", NoLabel)
  BY <1>2, <1>3, WaitingTrip
<1>5. Promise!Goes(r, Promise!At("open", NoLabel))
  BY <1>2, <1>4, AloneGoes
<1>6. Promise!Stage(r) = "none"
  BY <1>1, TripOf DEF Promise!Stage, Trip
<1> QED
  BY <1>1, <1>2, <1>5, <1>6 DEF Promise!Open

\* Samples, resets and files only give credentials back.
LEMMA SurroundingsShow ==
  ASSUME TypeOK, Environment
  PROVE  UNCHANGED req /\ Promise!Recover
<1>1. /\ UNCHANGED req
      /\ \A l \in Labels : refused'[l] => refused[l]
      /\ \A l \in Labels : inForce'[l] => inForce[l]
  BY DEF Environment, SwitchProxy, ledgerVars, tokenVars, TypeOK
<1> QED
  BY <1>1 DEF Promise!Recover

\* What each step of a request is to those outside.
LEMMA RelayShows ==
  ASSUME TypeOK, RequestInv, NEW r \in Slots, Relay(r)
  PROVE  /\ Alone(r) /\ (Lessens(r) \/ Shortens(r))
         /\ Promise!Step(r) \/ UNCHANGED Promise!exchangeVars
<1>1. CASE Start(r) \/ Weigh(r)
  <2>1. UNCHANGED <<refused, inForce>>
    BY <1>1 DEF Start, Weigh, ledgerVars, tokenVars
  <2> QED
    BY <1>1, <2>1, ChoosingShows, AloneSame
<1>2. CASE Settle(r)
  <2>1. UNCHANGED <<refused, inForce>>
    BY <1>2 DEF Settle, ledgerVars, tokenVars
  <2> QED
    BY <1>2, <2>1, SettlingShows, AloneSame DEF Promise!Step
<1>3. CASE Send(r)
  BY <1>3, SendingShows DEF Promise!Step
<1>4. CASE Upstream(r)
  <2>1. ASSUME NEW status \in {200, 401, 429}, NEW pct \in Percents \cup {Unknown},
               NEW st \in WindowStatus, Answered(r, status, pct, st)
        PROVE  Alone(r) /\ Lessens(r) /\ Promise!Step(r)
    BY <2>1, AnswersShow DEF Promise!Step
  <2>2. ASSUME NEW pct \in Percents \cup {Unknown}, QuotaRefused(r, pct)
        PROVE  Alone(r) /\ Lessens(r) /\ Promise!Step(r)
    BY <2>2, QuotaRefusalShows DEF Promise!Step
  <2>4. CASE TokenRefused(r)
    BY <2>4, TokenRefusalShows DEF Promise!Step
  <2>5. CASE Dies(r)
    BY <2>5, DyingShows DEF Promise!Step
  <2> QED
    BY <1>4, <2>1, <2>2, <2>4, <2>5 DEF Upstream
<1>5. CASE Stream(r)
  BY <1>5, StreamingShows DEF Promise!Step
<1> QED
  BY <1>1, <1>2, <1>3, <1>4, <1>5 DEF Relay

\* Whatever else happens, a handler that runs on gets on: the loops of relay and of
\* Upstream.request end after at most thirteen steps of their own, and one more for each
\* account but the first that choose asks for.
THEOREM EachGetsOn == Spec => GetsOn
<1>1. ASSUME TypeOK, RequestInv, [Next]_vars, NEW r \in Slots, req[r].pc # "idle",
             req'[r] # req[r]
      PROVE  Lessens(r) \/ Shortens(r)
  <2>1. ASSUME NEW o \in Slots, Relay(o) PROVE Lessens(r) \/ Shortens(r)
    BY <1>1, <2>1, RelayShows DEF Alone
  <2>2. ASSUME NEW o \in Slots, NEW k \in Keys, NEW w \in Owns, NEW swappable \in BOOLEAN,
               Arrive(o, k, w, swappable)
        PROVE  FALSE
    BY <1>1, <2>2, ArrivalShows DEF Alone
  <2>3. CASE Environment
    BY <1>1, <2>3, SurroundingsShow
  <2>4. CASE UNCHANGED vars
    BY <1>1, <2>4 DEF vars
  <2> QED
    BY <1>1, <2>1, <2>2, <2>3, <2>4 DEF Next
<1>2. TypeOK /\ RequestInv /\ [Next]_vars =>
        [\A r \in Slots :
           req[r].pc # "idle" /\ req'[r] # req[r] =>
             \/ Left(req'[r]) < Left(req[r])
             \/ /\ Left(req'[r]) = Left(req[r])
                /\ req'[r].left \subseteq req[r].left /\ req'[r].left # req[r].left]_vars
  BY <1>1 DEF Lessens, Shortens
<1> QED
  BY <1>2, RequestsHold, PTL DEF Spec, GetsOn

LEMMA PromiseInit == Init => Promise!Init
<1> SUFFICES ASSUME Init PROVE Promise!Init
  OBVIOUS
<1>1. \A r \in Slots : Trip(req[r]) = Promise!NoTrip
  BY NoTripIs DEF Init
<1>2. {l \in Labels : refused[l]} = {} /\ {l \in Labels : inForce[l]} = {}
  BY DEF Init
<1> QED
  BY <1>1, <1>2 DEF Promise!Init

LEMMA PromiseStep ==
  TypeOK /\ RequestInv /\ [Next]_vars => [Promise!Next]_(Promise!exchangeVars)
<1> SUFFICES ASSUME TypeOK, RequestInv, [Next]_vars
             PROVE  Promise!Next \/ UNCHANGED Promise!exchangeVars
  BY DEF Promise!exchangeVars
<1>1. ASSUME NEW r \in Slots, Relay(r) PROVE Promise!Next \/ UNCHANGED Promise!exchangeVars
  BY <1>1, RelayShows DEF Promise!Next
<1>2. ASSUME NEW r \in Slots, NEW k \in Keys, NEW o \in Owns, NEW swappable \in BOOLEAN,
             Arrive(r, k, o, swappable)
      PROVE  Promise!Next
  BY <1>2, ArrivalShows DEF Promise!Next, Promise!Step
<1>3. CASE Environment
  BY <1>3, SurroundingsShow DEF Promise!Next
<1>4. CASE UNCHANGED vars
  BY <1>4 DEF vars, ledgerVars, tokenVars, Promise!exchangeVars
<1> QED
  BY <1>1, <1>2, <1>3, <1>4 DEF Next

\* The proxy implements Exchange: for any number of requests, accounts, sessions, and
\* whatever happens around them, what upstream and the sessions see of it is one of
\* Exchange's steps or none.
THEOREM ImplementsExchange == Spec => ServesAsPromised
BY PromiseInit, PromiseStep, RequestsHold, PTL DEF Spec, ServesAsPromised, Promise!Spec
=============================================================================
