------------------------------ MODULE Sampler ------------------------------
(***************************************************************************)
(* How one account's usage gets from the usage API to a quota proxy: the   *)
(* relay's sampler thread (nodestatus.py) asks for one account after       *)
(* another and keeps the last good limits beside a failure, the hub copies *)
(* the node's status, and the proxy's hub-sync thread copies the hub's     *)
(* (HubSync.once).  The three places pass on as_of, the time a sample was  *)
(* recorded; it is an age here, and beside it stands the true age.         *)
(***************************************************************************)
EXTENDS Integers

CONSTANTS
  N,            \* number of accounts, in the order of config.json
  Source,       \* each account's "source"
  Old,          \* ages from here on are not told apart
  MaxAsk,       \* bound: ticks from the API's reading to the record of it
  MaxDowns      \* bound on restarts of the relay and of the proxy

Accounts == 1..N

ASSUME NAssumption == N \in Nat \ {0}
ASSUME SourceAssumption == Source \in [Accounts -> {"claude-login", "token-headers"}]
ASSUME AgeAssumption == Old \in Nat /\ MaxAsk \in 0..Old /\ MaxDowns \in Nat

VARIABLES
  watched,    \* the account whose records are followed; those of the others go the same way
  results,    \* Sampler.results
  due,        \* accounts whose `due` has come
  at,         \* the account the for loop is at; 0: sleeping between two rounds
  got,        \* what sample_login or sample_headers made of the answer; "none" before that
  reading,    \* the age of what the answer says
  hubHas,     \* the hub's copy of results
  ledger,     \* the proxy's Ledger.hub
  downs       \* restarts so far

sampledVars == <<watched, results, due, at, got, reading>>
sampleVars == <<sampledVars, hubHas, ledger, downs>>

Never == -1
Ages  == 0..Old

\* The age a record claims for its limits (as_of), and the age they have.
Record == [state : {"none", "ok", "bad"}, age : Ages \cup {Never}, truth : Ages \cup {Never}]
NoRecord == [state |-> "none", age |-> Never, truth |-> Never]

\* An answer of the usage API: is there a token to ask with, the HTTP status (0: no
\* answer), and whether the body or the headers name limits.
Answers == [token : BOOLEAN, status : {0, 200, 401, 429}, limits : {"some", "none", "broken"}]

SampleInit ==
  /\ watched \in Accounts
  /\ results = NoRecord
  /\ due = Accounts
  /\ at = 1
  /\ got = "none"
  /\ reading = 0
  /\ hubHas = NoRecord
  /\ ledger = NoRecord
  /\ downs = 0

\* The next account of the for loop, or the sleep after it.
Following(a) == IF a = N THEN 0 ELSE a + 1

-----------------------------------------------------------------------------
\* sample_login: no login or an expired one, no answer, or any status but 200, is a
\* failure; what is not JSON raises.  An answer without limits is a good one.
SampleLogin(x) ==
  IF ~x.token \/ x.status # 200 THEN "bad" ELSE IF x.limits = "broken" THEN "raise" ELSE "ok"

\* sample_headers: the rate-limit headers count whatever the status, but for a refused token.
SampleHeaders(x) ==
  IF ~x.token \/ x.status \in {0, 401} \/ x.limits = "none" THEN "bad"
  ELSE IF x.limits = "broken" THEN "raise" ELSE "ok"

\* run: an account that is not due is passed over.
Skip ==
  /\ at # 0 /\ got = "none" /\ at \notin due
  /\ at' = Following(at)
  /\ UNCHANGED <<watched, results, due, got, reading, hubHas, ledger, downs>>

AskApi ==
  /\ at # 0 /\ got = "none" /\ at \in due
  /\ \E x \in Answers :
       got' = IF Source[at] = "claude-login" THEN SampleLogin(x) ELSE SampleHeaders(x)
  /\ reading' = 0
  /\ UNCHANGED <<watched, results, due, at, hubHas, ledger, downs>>

MutFailed(prev) == [state |-> "bad", age |-> 0, truth |-> prev.truth]
MutForgets(prev) == [state |-> "bad", age |-> Never, truth |-> Never]

\* A failure keeps the last good limits and their as_of, whether sample reports it or raises.
Failed(prev) == [state |-> "bad", age |-> prev.age, truth |-> prev.truth]

MutRecordResult ==
  /\ got # "none"
  /\ results' = IF at # watched THEN results
                ELSE IF got = "ok" THEN [state |-> "ok", age |-> 0, truth |-> reading]
                ELSE Failed(results)
  /\ due' = IF got = "raise" THEN due ELSE due \ {at}
  /\ at' = IF got = "raise" THEN 0 ELSE Following(at)
  /\ got' = "none"
  /\ reading' = 0
  /\ UNCHANGED <<watched, hubHas, ledger, downs>>

\* sample, under the lock: as_of is the time of the record, not of the reading.  Then run
\* puts the account off, also after an exception.
RecordResult ==
  /\ got # "none"
  /\ results' = IF at # watched THEN results
                ELSE IF got = "ok" THEN [state |-> "ok", age |-> 0, truth |-> reading]
                ELSE Failed(results)
  /\ due' = due \ {at}
  /\ at' = Following(at)
  /\ got' = "none"
  /\ reading' = 0
  /\ UNCHANGED <<watched, hubHas, ledger, downs>>

\* time.sleep(10) is over.
Wake ==
  /\ at = 0
  /\ at' = 1
  /\ UNCHANGED <<watched, results, due, got, reading, hubHas, ledger, downs>>

Loop == Skip \/ AskApi \/ RecordResult \/ Wake

\* An account's time comes.
ComeDue(a) ==
  /\ a \notin due
  /\ due' = due \cup {a}
  /\ UNCHANGED <<watched, results, at, got, reading, hubHas, ledger, downs>>

-----------------------------------------------------------------------------
\* The hub reads GET /v1/status: a snapshot of all results.
HubPoll ==
  /\ hubHas' = results
  /\ UNCHANGED <<sampledVars, ledger, downs>>

\* once takes a sample only if it is a good one with a time.
Takes(r) == r.state = "ok" /\ r.age # Never

\* HubSync.once, when the hub answers.
Sync ==
  /\ ledger' = IF Takes(hubHas) THEN hubHas ELSE ledger
  /\ UNCHANGED <<sampledVars, hubHas, downs>>

\* The relay, and with it the sampler, starts again; so may the proxy.
RelayRestarts ==
  /\ downs < MaxDowns
  /\ downs' = downs + 1
  /\ results' = NoRecord
  /\ due' = Accounts
  /\ at' = 1
  /\ got' = "none"
  /\ reading' = 0
  /\ UNCHANGED <<watched, hubHas, ledger>>

ProxyRestarts ==
  /\ downs < MaxDowns
  /\ downs' = downs + 1
  /\ ledger' = NoRecord
  /\ UNCHANGED <<sampledVars, hubHas>>

Older(age) == IF age \in {Never, Old} THEN age ELSE age + 1
Aged(r) == [state |-> r.state, age |-> Older(r.age), truth |-> Older(r.truth)]

\* Time passes everywhere, but no request takes more than MaxAsk ticks.
SampleTick ==
  /\ got # "none" => reading < MaxAsk
  /\ reading' = IF got = "none" THEN 0 ELSE reading + 1
  /\ results' = Aged(results)
  /\ hubHas' = Aged(hubHas)
  /\ ledger' = Aged(ledger)
  /\ UNCHANGED <<watched, due, at, got, downs>>

SampleNext ==
  \/ Loop
  \/ \E a \in Accounts : ComeDue(a)
  \/ HubPoll \/ Sync \/ RelayRestarts \/ ProxyRestarts \/ SampleTick

SampleSpec == SampleInit /\ [][SampleNext]_sampleVars

-----------------------------------------------------------------------------
SampleTypeOK ==
  /\ watched \in Accounts /\ results \in Record
  /\ due \subseteq Accounts
  /\ at \in 0..N
  /\ got \in {"none", "ok", "bad", "raise"} /\ (got # "none" => at # 0)
  /\ reading \in 0..MaxAsk
  /\ hubHas \in Record
  /\ ledger \in Record
  /\ downs \in 0..MaxDowns

Honest(r) == r.truth <= r.age + MaxAsk /\ (r.age = Never <=> r.truth = Never)

\* docs/setup.md "the last good numbers stay, with `as_of` giving their age": wherever a
\* sample lies, on the node, on the hub or in a proxy's ledger, its limits are no older than
\* its as_of says, but for the time the request took; through failures, exceptions and
\* restarts in any order (sample, run, once).
AgeIsHonest == Honest(results) /\ Honest(hubHas) /\ Honest(ledger)

Keeps(old, new) == old.truth # Never => new.truth # Never /\ new.truth <= Older(old.truth)

\* "A failed sample keeps the last good limits": no failure costs the node the limits it has,
\* and neither a failure nor a restart of the relay costs the proxy its sample or gives it an
\* older one back (sample, run, once).
NewestStays ==
  [][/\ RelayRestarts \/ Keeps(results, results')
     /\ ProxyRestarts \/ Keeps(ledger, ledger')]_sampleVars

\* "a sampler must not die": every account is asked for again and again, whatever the
\* answers for the others are (run).
EveryAccountAgain == \A a \in Accounts : []<>(at = a /\ got # "none")
=============================================================================
