----------------------------- MODULE QuotaProxy -----------------------------
(***************************************************************************)
(* Requests that pass through one node's quota proxy at the same time      *)
(* (proxy/quota-proxy.py, Handler.relay): each chooses an account, goes    *)
(* upstream with that account's token, and is sent a second time when the  *)
(* token was refused or the account's window is used up.  They share the   *)
(* ledger, the sticky accounts and the tokens set aside; every access to   *)
(* those takes a lock of its own, so requests interleave between them.     *)
(*                                                                         *)
(* An account's windows are one number here (Ledger.worst is in module     *)
(* ProxyLedger); hub samples, resets and expiries move it by Environment.  *)
(***************************************************************************)
EXTENDS Headroom

CONSTANTS
  Slots,       \* handler threads; a slot takes one request after another
  Keys,        \* sessions, by the credential they send
  Owns,        \* values of X-Fleet-Account: labels, or NoLabel for none
  Percents,    \* readings of an account's worst window
  NoKey,
  MaxChanges,  \* bound on steps of the environment
  MaxRequests  \* bound on requests

ASSUME PercentAssumption == Percents \subseteq Nat
ASSUME OwnAssumption == Owns \subseteq Labels \cup {NoLabel}
\* A used-up window is over the line: switch_at is a percent.
ASSUME FullAssumption == OverLine(100) /\ ~UnderLine(100)
ASSUME CountAssumption == MaxChanges \in Nat /\ MaxRequests \in Nat

VARIABLES
  known,     \* Ledger.hub and Ledger.seen: the worst reading of each account
  inForce,   \* Ledger.in_force: accounts with a used-up window
  sticky,    \* Ledger.sticky
  refused,   \* Accounts.bad: tokens set aside after a 401
  token,     \* accounts whose token file is there and readable
  on,        \* no proxy.off file
  req,       \* each slot's request: the locals of relay, choose and Upstream.request
  since,     \* history: what has held without a break since each request arrived
  changes, requests

ledgerVars == <<known, inForce>>
tokenVars  == <<refused, token, on>>
vars == <<ledgerVars, sticky, tokenVars, req, since, changes, requests>>

Account == Labels \cup {NoLabel}
Nothing == [l \in Labels |-> Unknown]
Steps   == {"idle", "start", "weigh", "settle", "send", "sent", "stream"}

Request ==
  [ pc : Steps,
    key : Keys \cup {NoKey}, own : Account,
    usable : SUBSET Labels,        \* the accounts that had a token when it arrived
    cur : Account,                 \* choose: where it starts,
    avoid : Account,               \*   the account that just refused,
    left : SUBSET Labels,          \*   the accounts it is still to ask for,
    w : Weights,                   \*   and the worst windows it read
    chosen : Account,              \* the account whose token it wants; NoLabel: pass through
    cred : Account,                \* the account whose token went upstream; NoLabel: its own login
    attempt : 0..2, conn : 0..1,   \* of the loops in relay and in Upstream.request
    status : {0, 200, 401, 429}, body : {"none", "unread", "read"},   \* the answer to stream
    sends : Nat,                   \* history: times it went upstream
    spent : Account ]              \* history: the credential of its first attempt

IdleRequest ==
  [ pc |-> "idle", key |-> NoKey, own |-> NoLabel, usable |-> {}, cur |-> NoLabel,
    avoid |-> NoLabel, left |-> {}, w |-> Nothing, chosen |-> NoLabel, cred |-> NoLabel,
    attempt |-> 0, conn |-> 0, status |-> 0, body |-> "none", sends |-> 0, spent |-> NoLabel ]

History == [forced : SUBSET Labels, roomy : SUBSET Labels, aside : SUBSET Labels]
NoHistory == [forced |-> {}, roomy |-> {}, aside |-> {}]

\* Ledger.worst
Worst(l) == IF inForce[l] THEN 100 ELSE known[l]

MutTokenOf(l) == token[l]

\* Accounts.token gives one: the file is readable and the token is not set aside.
TokenOf(l) == token[l] /\ ~refused[l]

\* What a step that changes ledger or tokens breaks of each request's history: accounts
\* in force, accounts usable and under the line, tokens set aside.  `going` are the slots
\* whose request goes on.
Watch(going) ==
  since' = [r \in Slots |-> IF r \notin going THEN NoHistory ELSE
    [ forced |-> {l \in since[r].forced : inForce'[l]},
      roomy  |-> {l \in since[r].roomy :
                    token'[l] /\ ~refused'[l] /\ ~inForce'[l] /\ UnderLine(known'[l])},
      aside  |-> {l \in since[r].aside : refused'[l]} ]]

Init ==
  /\ known = Nothing
  /\ inForce = [l \in Labels |-> FALSE]
  /\ sticky = [k \in Keys |-> NoLabel]
  /\ refused = [l \in Labels |-> FALSE]
  /\ token = [l \in Labels |-> TRUE]
  /\ on \in BOOLEAN
  /\ req = [r \in Slots |-> IdleRequest]
  /\ since = [r \in Slots |-> NoHistory]
  /\ changes = 0
  /\ requests = 0

\* The request is over: its locals go, and the slot may take another.
Forget(r) ==
  /\ req' = [req EXCEPT ![r] = IdleRequest]
  /\ since' = [since EXCEPT ![r] = NoHistory]

-----------------------------------------------------------------------------
\* relay: read the request and take the accounts that have a token.  What is not
\* inference, or brings no device key, is no request to swap.
Arrive(r, k, o, swappable) ==
  /\ req[r].pc = "idle"
  /\ requests < MaxRequests
  /\ requests' = requests + 1
  /\ LET usable == {l \in Labels : TokenOf(l)}
         swap   == swappable /\ on /\ usable # {}
     IN  /\ req' = [req EXCEPT ![r] =
                      [IdleRequest EXCEPT !.pc = IF swap THEN "start" ELSE "send",
                                          !.key = k, !.own = o, !.usable = usable, !.attempt = 1]]
         /\ since' = [since EXCEPT ![r] = [forced |-> {l \in Labels : inForce[l]},
                                           roomy  |-> {l \in usable : UnderLine(Worst(l))},
                                           aside  |-> {l \in Labels : refused[l]}]]
  /\ UNCHANGED <<ledgerVars, sticky, tokenVars, changes>>

\* choose, under the lock: read sticky and find where the request starts.
Start(r) ==
  /\ req[r].pc = "start"
  /\ \E l \in req[r].usable :
       /\ IsStart(l, req[r].own, sticky[req[r].key], req[r].usable)
       /\ req' = [req EXCEPT ![r].pc = "weigh", ![r].cur = l, ![r].left = req[r].usable]
  /\ UNCHANGED <<ledgerVars, sticky, tokenVars, since, changes, requests>>

\* q once it has read pct for account l.
WithReading(q, l, pct) ==
  [q EXCEPT !.pc = IF q.left = {l} THEN "settle" ELSE "weigh",
            !.left = q.left \ {l}, !.w = [q.w EXCEPT ![l] = pct]]

MutWeigh(r) ==
  /\ req[r].pc = "weigh"
  /\ \E l \in req[r].left :
       /\ \A o \in req[r].left : l <= o
       /\ req' = [req EXCEPT ![r] = WithReading(req[r], l, known[l])]
  /\ UNCHANGED <<ledgerVars, sticky, tokenVars, since, changes, requests>>

\* choose: worst of one usable account after the other, each under a lock of its own.
Weigh(r) ==
  /\ req[r].pc = "weigh"
  /\ \E l \in req[r].left :
       /\ \A o \in req[r].left : l <= o
       /\ req' = [req EXCEPT ![r] = WithReading(req[r], l, Worst(l))]
  /\ UNCHANGED <<ledgerVars, sticky, tokenVars, since, changes, requests>>

MutTries(l, avoid) == l \in Labels

\* The first attempt goes upstream with whatever choose returns; the retry only when
\* that is another account than the one that refused.
Tries(l, avoid) == l # avoid

\* choose, under the lock again: decide and write sticky, but not when the request
\* should move and has nowhere to go.  Back in relay a retry with nowhere to go
\* streams the refusal it has.
Settle(r) ==
  /\ req[r].pc = "settle"
  /\ LET q == req[r]
     IN  \E l \in q.usable :
           /\ Chooses(l, q.w, q.cur, q.avoid, q.usable)
           /\ sticky' = IF l = q.cur /\ MustMove(q.w, q.cur, q.avoid)
                          THEN sticky ELSE [sticky EXCEPT ![q.key] = l]
           /\ req' = [req EXCEPT ![r] =
                IF Tries(l, q.avoid)
                  THEN [q EXCEPT !.pc = "send", !.chosen = l, !.cur = NoLabel, !.w = Nothing,
                                 !.attempt = IF q.avoid = NoLabel THEN 1 ELSE 2,
                                 !.status = 0, !.body = "none"]
                  ELSE [q EXCEPT !.pc = "stream", !.cur = NoLabel, !.w = Nothing]]
  /\ UNCHANGED <<ledgerVars, tokenVars, since, changes, requests>>

-----------------------------------------------------------------------------
MutSend(r) ==
  /\ req[r].pc = "send"
  /\ LET q == req[r]
     IN  req' = [req EXCEPT ![r] =
                   [q EXCEPT !.pc = "sent", !.cred = q.chosen, !.conn = 0, !.sends = @ + 1,
                             !.spent = IF q.attempt = 1 THEN q.chosen ELSE @]]
  /\ UNCHANGED <<ledgerVars, sticky, tokenVars, since, changes, requests>>

\* Ask for the chosen account's token once more; without one, pass through.
Send(r) ==
  /\ req[r].pc = "send"
  /\ LET q == req[r]
         l == IF q.chosen \in Labels /\ TokenOf(q.chosen) THEN q.chosen ELSE NoLabel
     IN  req' = [req EXCEPT ![r] =
                   [q EXCEPT !.pc = "sent", !.chosen = l, !.cred = l, !.conn = 0, !.sends = @ + 1,
                             !.spent = IF q.attempt = 1 THEN l ELSE @]]
  /\ UNCHANGED <<ledgerVars, sticky, tokenVars, since, changes, requests>>

MutDies(r) ==
  /\ req[r].pc = "sent"
  /\ req' = [req EXCEPT ![r].conn = 1 - @]
  /\ UNCHANGED <<ledgerVars, sticky, tokenVars, since, changes, requests>>

\* Upstream.request: when the connection dies it is opened again once and the request
\* sent again, with the headers it had; the second time the session gets a 502.
Dies(r) ==
  /\ req[r].pc = "sent"
  /\ IF req[r].conn = 0
       THEN req' = [req EXCEPT ![r].conn = 1, ![r].sends = @ + 1] /\ UNCHANGED since
       ELSE Forget(r)
  /\ UNCHANGED <<ledgerVars, sticky, tokenVars, changes, requests>>

\* The headers of an answer say where the account it came from stands (note_headers): how
\* much is used, Unknown when they are not there, and its status.  A window that is rejected is
\* in force from then on.
WindowStatus == {"allowed", "rejected"}
Notes(r, pct, st) ==
  LET l == req[r].chosen
  IN  /\ known' = IF l = NoLabel \/ pct = Unknown THEN known ELSE [known EXCEPT ![l] = pct]
      /\ inForce' = IF l = NoLabel \/ st # "rejected" THEN inForce ELSE [inForce EXCEPT ![l] = TRUE]

FirstSwapped(r) == req[r].pc = "sent" /\ req[r].chosen # NoLabel /\ req[r].attempt = 1

\* The session's answer: any but a 401 or a quota 429 to a first attempt.  A burst 429 and an
\* error count as 200 here; whatever the status, the headers may say that a window is
\* rejected (usage over it is paid for, the request failed for another reason).
Answered(r, status, pct, st) ==
  /\ req[r].pc = "sent"
  /\ status \in {401, 429} => ~FirstSwapped(r)
  /\ st = "rejected" => pct # Unknown
  /\ Notes(r, pct, st)
  /\ req' = [req EXCEPT ![r].pc = "stream", ![r].status = status, ![r].body = "unread"]
  /\ UNCHANGED <<sticky, tokenVars, changes, requests>>
  /\ Watch(Slots)

\* relay reads the refusal to its end and goes on with q; when the connection breaks
\* under it, the session gets a 502 and what was noted stays noted.
Drain(r, q) ==
  \/ req' = [req EXCEPT ![r] = q] /\ Watch(Slots)
  \/ req' = [req EXCEPT ![r] = IdleRequest] /\ Watch(Slots \ {r})

\* Accounts.refuse: set the token aside.
Refuse(l) == refused' = [refused EXCEPT ![l] = TRUE]

\* 401 to a swapped-in token on the first attempt: set the token aside and send the
\* request as it came.
TokenRefused(r) ==
  /\ FirstSwapped(r)
  /\ Refuse(req[r].chosen)
  /\ UNCHANGED <<ledgerVars, sticky, token, on, changes, requests>>
  /\ Drain(r, [req[r] EXCEPT !.pc = "send", !.chosen = NoLabel, !.attempt = 2])

\* A quota 429 to the first attempt: the window is in force, the body is read off the
\* connection, and choose is asked for another account.
QuotaRefused(r, pct) ==
  /\ FirstSwapped(r)
  /\ Notes(r, pct, "rejected")
  /\ UNCHANGED <<sticky, tokenVars, changes, requests>>
  /\ Drain(r, [req[r] EXCEPT !.pc = "start", !.avoid = req[r].chosen,
                             !.status = 429, !.body = "read"])

\* _stream: the status and the headers, then what is left of the body.
Stream(r) ==
  /\ req[r].pc = "stream"
  /\ Forget(r)
  /\ UNCHANGED <<ledgerVars, sticky, tokenVars, changes, requests>>

-----------------------------------------------------------------------------
\* quota-proxy --off puts proxy.off there, --on removes it, with the proxy running.
SwitchProxy == on' = ~on /\ UNCHANGED <<ledgerVars, refused, token>>

\* Around the requests: a hub sample or a reset gives a reading another value, a
\* window in force resets, a token comes back after ten minutes, a token file goes
\* or comes, the proxy is switched off or on.
Environment ==
  /\ changes < MaxChanges
  /\ changes' = changes + 1
  /\ \/ /\ \E l \in Labels, pct \in Percents \cup {Unknown} : known' = [known EXCEPT ![l] = pct]
        /\ UNCHANGED <<inForce, tokenVars>>
     \/ /\ \E l \in Labels : inForce[l] /\ inForce' = [inForce EXCEPT ![l] = FALSE]
        /\ UNCHANGED <<known, tokenVars>>
     \/ /\ \E l \in Labels : refused[l] /\ refused' = [refused EXCEPT ![l] = FALSE]
        /\ UNCHANGED <<ledgerVars, token, on>>
     \/ /\ \E l \in Labels : token' = [token EXCEPT ![l] = ~@]
        /\ UNCHANGED <<ledgerVars, refused, on>>
     \/ SwitchProxy
  /\ Watch(Slots)
  /\ UNCHANGED <<sticky, req, requests>>

Upstream(r) ==
  \/ \E pct \in Percents \cup {Unknown} :
       \/ \E status \in {200, 401, 429}, st \in WindowStatus : Answered(r, status, pct, st)
       \/ QuotaRefused(r, pct)
  \/ TokenRefused(r) \/ Dies(r)

Relay(r) == Start(r) \/ Weigh(r) \/ Settle(r) \/ Send(r) \/ Upstream(r) \/ Stream(r)

Next ==
  \/ \E r \in Slots, k \in Keys, o \in Owns, swappable \in BOOLEAN : Arrive(r, k, o, swappable)
  \/ \E r \in Slots : Relay(r)
  \/ Environment

Spec == Init /\ [][Next]_vars

\* A handler thread runs on, and upstream answers or fails within UPSTREAM_TIMEOUT.
FairSpec == Spec /\ \A r \in Slots : WF_vars(Relay(r))

-----------------------------------------------------------------------------
TypeOK ==
  /\ known \in Weights
  /\ inForce \in [Labels -> BOOLEAN]
  /\ sticky \in [Keys -> Account]
  /\ refused \in [Labels -> BOOLEAN] /\ token \in [Labels -> BOOLEAN] /\ on \in BOOLEAN
  /\ req \in [Slots -> Request]
  /\ since \in [Slots -> History]
  /\ changes \in Nat /\ requests \in Nat
  /\ \A r \in Slots :
       /\ req[r].pc # "idle" => req[r].key \in Keys
       /\ req[r].pc \in {"start", "weigh", "settle"} => req[r].usable # {}
       /\ req[r].pc \in {"weigh", "settle"} => req[r].cur \in req[r].usable

\* docs/proxy.md "A quota 429 marks that window in force until its reset": no request
\* goes upstream on an account whose window has been in force ever since it arrived
\* while another has been usable and under the line all that time, whatever other
\* requests did to the session's sticky account in between (choose, mark_in_force).
UsedUpIsAvoided ==
  \A r \in Slots :
    req[r].pc = "sent" /\ req[r].cred \in since[r].forced => since[r].roomy \subseteq {req[r].cred}

\* docs/proxy.md "that token is left alone for 10 minutes": a request that arrives while
\* a token is set aside is at no attempt sent with it (Accounts.refuse, Accounts.token).
SetAsideStaysAside ==
  \A r \in Slots : req[r].pc = "sent" => req[r].cred \notin since[r].aside

\* A second attempt never goes out with the credential that was just refused, and a
\* request goes upstream at most four times: two attempts, each over two connections.
RetryIsElsewhere ==
  \A r \in Slots :
    /\ req[r].pc = "sent" /\ req[r].attempt = 2 => req[r].cred # req[r].spent
    /\ req[r].sends <= 4

\* Every request is answered: by upstream, or with a 502.
EveryRequestEnds == \A r \in Slots : req[r].pc # "idle" ~> req[r].pc = "idle"

\* docs/proxy.md "A 401 on a swapped-in token is never shown to the session".
NoSwapped401 ==
  \A r \in Slots : req[r].pc = "stream" /\ req[r].status = 401 => req[r].cred = NoLabel

\* _stream "The upstream answer, status, headers and body": the body is still there to
\* be streamed when the headers that announce it go out.
AnswersAreWhole == \A r \in Slots : req[r].pc = "stream" => req[r].body = "unread"

-----------------------------------------------------------------------------
\* What is left to a request until it is answered, in steps that are its own: at most this
\* many, and one more for each account but the first that choose asks for.  A request that
\* was refused has less left than any that was not.
Left(q) ==
  LET again == q.avoid # NoLabel \/ q.attempt = 2
  IN  CASE q.pc = "idle"   -> 0
        [] q.pc = "stream" -> 1
        [] q.pc = "sent"   -> (IF again THEN 3 ELSE 9) - q.conn
        [] q.pc = "send"   -> IF again THEN 4 ELSE 10
        [] q.pc = "settle" -> IF again THEN 5 ELSE 11
        [] q.pc = "weigh"  -> IF again THEN 6 ELSE 12
        [] OTHER           -> IF again THEN 7 ELSE 13

\* The loops in relay and in Upstream.request come to an end whatever the other requests
\* and the ledger do between their steps: no step of a request leaves it as much to do as
\* it had, or as much and as many accounts to ask for.
GetsOn ==
  [][\A r \in Slots :
       req[r].pc # "idle" /\ req'[r] # req[r] =>
         \/ Left(req'[r]) < Left(req[r])
         \/ /\ Left(req'[r]) = Left(req[r])
            /\ req'[r].left \subseteq req[r].left /\ req'[r].left # req[r].left]_vars

-----------------------------------------------------------------------------
\* How far a request has got, in Exchange's terms.
Trip(q) ==
  [ stage  |-> CASE q.pc = "idle"   -> "none"
                 [] q.pc = "stream" -> "answered"
                 [] q.pc = "sent"   -> IF q.attempt = 1 THEN "first" ELSE "second"
                 [] OTHER -> IF q.avoid # NoLabel THEN "used up"
                             ELSE IF q.attempt = 1 THEN "open" ELSE "denied",
    cred   |-> CASE q.pc = "sent" -> q.cred
                 [] q.pc \in {"idle", "stream"} -> NoLabel
                 [] OTHER -> IF q.avoid = NoLabel /\ q.attempt = 1 THEN NoLabel ELSE q.spent,
    again  |-> IF q.pc = "sent" THEN q.conn ELSE 0,
    told   |-> IF q.pc = "stream" THEN q.status ELSE 0 ]

Promise == INSTANCE Exchange WITH
  Callers <- Slots, Lent <- Labels, Own <- NoLabel,
  trip <- [r \in Slots |-> Trip(req[r])],
  aside <- {l \in Labels : refused[l]}, full <- {l \in Labels : inForce[l]}

\* quota-proxy keeps Exchange's promise, however requests interleave: what is lent, denied,
\* used up, tried again and told to a session is what upstream's answers to it allow (relay,
\* Accounts.refuse, Accounts.token, mark_in_force, Upstream.request).
ServesAsPromised == Promise!Spec
=============================================================================
