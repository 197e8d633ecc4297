----------------------------- MODULE NodeProofs -----------------------------
(***************************************************************************)
(* What holds of the small programs of a node for any batch size, any      *)
(* number of accounts, processes and passes, and any bounds: the hub gets  *)
(* the events in order and each at most once; a sample is never taken for  *)
(* fresher than it is and never replaced by an older one; an agent run is  *)
(* logged ok only if it was done in time; fleet-status keeps no restart    *)
(* to itself; live-session sends no Enter to a picker; and the hub leaves  *)
(* the port to a tunnel that is up.                                        *)
(***************************************************************************)
EXTENDS Telemetry, Sampler, AgentRun, FleetStatus, LiveSession, HubTunnel, TLAPS

Rising(s) == \A i, j \in DOMAIN s : i < j => s[i] < s[j]
Ahead(s, t) == \A i \in DOMAIN s, j \in DOMAIN t : s[i] < t[j]
UpTo(s, n) == \A i \in DOMAIN s : s[i] <= n
Latest(s, n) == \A i \in DOMAIN s : s[i] = n - Len(s) + i

\* Why the hub's order holds: what the hub has is older than the batch, that is older than
\* the queue, and the queue is older than the next event; a batch is there to be posted only.
\* Batch and queue are the latest events, none left out.
OrderInv ==
  /\ noted \in Nat
  /\ hub \in Seq(Nat) /\ batch \in Seq(Nat) /\ events \in Seq(Nat)
  /\ pc # "post" => batch = <<>>
  /\ Rising(hub) /\ Rising(batch) /\ Rising(events)
  /\ Ahead(hub, batch) /\ Ahead(hub, events) /\ Ahead(batch, events)
  /\ UpTo(hub, noted) /\ UpTo(batch, noted) /\ UpTo(events, noted)
  /\ Latest(events, noted) /\ Latest(batch, noted - Len(events))

\* Two rising sequences, one ahead of the other, make a rising one.
LEMMA Joined ==
  ASSUME NEW s \in Seq(Nat), NEW t \in Seq(Nat), Rising(s), Rising(t), Ahead(s, t)
  PROVE  s \o t \in Seq(Nat) /\ Rising(s \o t)
<1>1. s \o t \in Seq(Nat) /\ Len(s \o t) = Len(s) + Len(t)
  OBVIOUS
<1>2. \A i \in DOMAIN (s \o t) : (s \o t)[i] = IF i <= Len(s) THEN s[i] ELSE t[i - Len(s)]
  OBVIOUS
<1> SUFFICES ASSUME NEW i \in DOMAIN (s \o t), NEW j \in DOMAIN (s \o t), i < j
             PROVE  (s \o t)[i] < (s \o t)[j]
  BY <1>1 DEF Rising
<1>3. i \in 1 .. Len(s) + Len(t) /\ j \in 1 .. Len(s) + Len(t)
  BY <1>1
<1>4. CASE j <= Len(s)
  BY <1>2, <1>3, <1>4 DEF Rising
<1>5. CASE i <= Len(s) /\ j > Len(s)
  BY <1>2, <1>3, <1>5 DEF Ahead
<1>6. CASE i > Len(s)
  BY <1>2, <1>3, <1>6 DEF Rising
<1> QED
  BY <1>3, <1>4, <1>5, <1>6

\* Nothing is anywhere at the start.
LEMMA OrderInit == Init => OrderInv
BY DEF Init, OrderInv, Rising, Ahead, UpTo, Latest

\* Every step keeps OrderInv: an event moves on to the next place, or is lost.
LEMMA OrderStep == OrderInv /\ [Next]_vars => OrderInv'
<1> SUFFICES ASSUME OrderInv, [Next]_vars PROVE OrderInv'
  OBVIOUS
<1> USE DEF OrderInv
<1>1. CASE Note
  <2>1. events' = Append(events, noted + 1) /\ noted' = noted + 1 /\ UNCHANGED <<pc, batch, hub>>
    BY <1>1 DEF Note
  <2>2. /\ events' \in Seq(Nat) /\ Len(events') = Len(events) + 1
        /\ \A i \in DOMAIN events' :
             events'[i] = IF i <= Len(events) THEN events[i] ELSE noted + 1
    BY <2>1
  <2>3. Latest(events', noted') /\ Latest(batch', noted' - Len(events'))
    <3>1. Len(events) \in Nat /\ noted' = noted + 1 /\ Len(events') = Len(events) + 1
      BY <2>1, <2>2
    <3>2. ASSUME NEW i \in DOMAIN events' PROVE events'[i] = noted' - Len(events') + i
      <4>1. i \in 1 .. Len(events) + 1
        BY <2>2
      <4>2. CASE i <= Len(events)
        <5>1. i \in DOMAIN events /\ events'[i] = events[i]
          BY <2>2, <4>1, <4>2
        <5>2. events[i] = noted - Len(events) + i
          BY <5>1 DEF Latest
        <5> QED
          BY <3>1, <4>1, <5>1, <5>2
      <4>3. CASE i = Len(events) + 1
        BY <2>2, <3>1, <4>3
      <4> QED
        BY <3>1, <4>1, <4>2, <4>3
    <3>3. noted' - Len(events') = noted - Len(events)
      BY <3>1
    <3> QED
      BY <2>1, <3>2, <3>3 DEF Latest
  <2>4. \A i \in DOMAIN events' :
          \/ i \in DOMAIN events /\ events'[i] = events[i]
          \/ i = Len(events) + 1 /\ events'[i] = noted + 1
    BY <2>2
  <2>5. Rising(events')
    BY <2>4 DEF Rising, UpTo
  <2>6. Ahead(hub, events') /\ Ahead(batch, events') /\ UpTo(events', noted')
    BY <2>1, <2>4 DEF Ahead, UpTo
  <2>7. UpTo(hub, noted') /\ UpTo(batch, noted')
    BY <2>1 DEF UpTo
  <2> QED
    BY <2>1, <2>2, <2>3, <2>5, <2>6, <2>7
<1>2. CASE TakeEvents
  <2> DEFINE n == IF Len(events) < Limit THEN Len(events) ELSE Limit
  <2>1. /\ batch' = SubSeq(events, 1, n) /\ events' = SubSeq(events, n + 1, Len(events))
        /\ pc' = IF n = 0 THEN "waiting" ELSE "post"
        /\ UNCHANGED <<noted, hub>>
    BY <1>2 DEF TakeEvents
  <2>2. n \in Nat /\ n <= Len(events)
    BY LimitAssumption
  <2> HIDE DEF n
  <2>3. /\ batch' \in Seq(Nat) /\ Len(batch') = n
        /\ \A i \in DOMAIN batch' : i \in DOMAIN events /\ i <= n /\ batch'[i] = events[i]
    <3>1. batch' = SubSeq(events, 1, n)
      BY <2>1
    <3>2. batch' \in Seq(Nat) /\ Len(batch') = n
      BY <2>2, <3>1
    <3> QED
      BY <2>2, <3>1, <3>2
  <2>4. /\ events' \in Seq(Nat) /\ Len(events') = Len(events) - n
        /\ \A i \in DOMAIN events' : i + n \in DOMAIN events /\ events'[i] = events[i + n]
    <3>1. events' = SubSeq(events, n + 1, Len(events))
      BY <2>1
    <3>2. events' \in Seq(Nat) /\ Len(events') = Len(events) - n
      BY <2>2, <3>1
    <3>3. \A i \in 1 .. Len(events) - n : i + n \in DOMAIN events /\ events'[i] = events[i + n]
      BY <2>2, <3>1
    <3> QED
      BY <3>2, <3>3
  <2>5. Ahead(batch', events')
    <3> SUFFICES ASSUME NEW i \in DOMAIN batch', NEW j \in DOMAIN events'
                 PROVE  batch'[i] < events'[j]
      BY DEF Ahead
    <3>1. i \in DOMAIN events /\ j + n \in DOMAIN events /\ i < j + n
      BY <2>2, <2>3, <2>4
    <3> QED
      BY <2>3, <2>4, <3>1 DEF Rising
  <2>6. Rising(batch') /\ Rising(events')
    <3>1. ASSUME NEW i \in DOMAIN events', NEW j \in DOMAIN events', i < j
          PROVE  events'[i] < events'[j]
      <4>1. i + n \in DOMAIN events /\ j + n \in DOMAIN events /\ i + n < j + n
        BY <2>2, <2>4, <3>1
      <4> QED
        BY <2>4, <4>1 DEF Rising
    <3> QED
      BY <2>3, <3>1 DEF Rising
  <2>7. Ahead(hub', batch') /\ Ahead(hub', events') /\ Rising(hub')
    BY <2>1, <2>3, <2>4 DEF Ahead
  <2>8. UpTo(hub', noted') /\ UpTo(batch', noted') /\ UpTo(events', noted')
    BY <2>1, <2>3, <2>4 DEF UpTo
  <2>9. pc' # "post" => batch' = <<>>
    BY <2>1, <2>3
  <2>10. Latest(events', noted') /\ Latest(batch', noted' - Len(events'))
    <3>1. Len(events) \in Nat /\ noted' = noted
      BY <2>1
    <3>2. ASSUME NEW i \in DOMAIN events' PROVE events'[i] = noted' - Len(events') + i
      <4>1. i \in Nat /\ events'[i] = events[i + n] /\ events[i + n] = noted - Len(events) + (i + n)
        BY <2>4 DEF Latest
      <4> QED
        BY <2>2, <2>4, <3>1, <4>1
    <3>3. ASSUME NEW i \in DOMAIN batch'
          PROVE  batch'[i] = (noted' - Len(events')) - Len(batch') + i
      <4>1. i \in Nat /\ batch'[i] = events[i] /\ events[i] = noted - Len(events) + i
        BY <2>3 DEF Latest
      <4> QED
        BY <2>2, <2>3, <2>4, <3>1, <4>1
    <3> QED
      BY <3>2, <3>3 DEF Latest
  <2> QED
    BY <2>1, <2>3, <2>4, <2>5, <2>6, <2>7, <2>8, <2>9, <2>10
<1>3. CASE Post
  <2>1. batch' = <<>> /\ UNCHANGED <<events, noted>>
    BY <1>3 DEF Post
  <2>0. Latest(events', noted') /\ Latest(batch', noted' - Len(events'))
    BY <2>1 DEF Latest
  <2>2. CASE up /\ hub' = hub \o batch
    <3>1. hub' \in Seq(Nat) /\ Rising(hub')
      BY <2>2, Joined
    <3>2. /\ Len(hub') = Len(hub) + Len(batch)
          /\ \A i \in DOMAIN hub' : hub'[i] = IF i <= Len(hub) THEN hub[i] ELSE batch[i - Len(hub)]
      BY <2>2
    <3>3. \A i \in DOMAIN hub' :
            \/ i \in DOMAIN hub /\ hub'[i] = hub[i]
            \/ i - Len(hub) \in DOMAIN batch /\ hub'[i] = batch[i - Len(hub)]
      <4> SUFFICES ASSUME NEW i \in DOMAIN hub'
                   PROVE  \/ i \in DOMAIN hub /\ hub'[i] = hub[i]
                          \/ i - Len(hub) \in DOMAIN batch /\ hub'[i] = batch[i - Len(hub)]
        OBVIOUS
      <4>1. i \in 1 .. Len(hub) + Len(batch)
        BY <3>1, <3>2
      <4> QED
        BY <3>2, <4>1
    <3>4. Ahead(hub', events) /\ UpTo(hub', noted)
      BY <3>3 DEF Ahead, UpTo
    <3> QED
      BY <2>0, <2>1, <3>1, <3>4 DEF Rising, Ahead, UpTo
  <2>3. CASE UNCHANGED hub
    BY <2>0, <2>1, <2>3 DEF Rising, Ahead, UpTo
  <2> QED
    BY <1>3, <2>2, <2>3 DEF Post
<1>4. CASE Restart
  BY <1>4 DEF Restart, Rising, Ahead, UpTo, Latest
<1>5. CASE Ask
  BY <1>5 DEF Ask, Rising, Ahead, UpTo, Latest
<1>6. CASE HubGoes \/ HubComes \/ UNCHANGED vars
  BY <1>6 DEF HubGoes, HubComes, vars, Rising, Ahead, UpTo, Latest
<1> QED
  BY <1>1, <1>2, <1>3, <1>4, <1>5, <1>6 DEF Next, Round

\* The hub gets each telemetry event at most once and in the order the headers were read,
\* across lost posts and restarts of the proxy, and none is lost from the queue but with the
\* process (take_events, once).
THEOREM EventsStayInOrder == Spec => []InOrder
<1>1. Init => OrderInv
  BY OrderInit
<1>2. OrderInv /\ [Next]_vars => OrderInv'
  BY OrderStep
<1>3. OrderInv => InOrder
  <2> SUFFICES ASSUME OrderInv PROVE InOrder
    OBVIOUS
  <2> USE DEF OrderInv
  <2> DEFINE waiting == batch \o events
  <2>1. waiting \in Seq(Nat) /\ Rising(waiting) /\ Len(waiting) = Len(batch) + Len(events)
    BY Joined
  <2>2. \A i \in DOMAIN waiting :
          waiting[i] = IF i <= Len(batch) THEN batch[i] ELSE events[i - Len(batch)]
    OBVIOUS
  <2>3. \A i \in DOMAIN waiting :
          \/ i \in DOMAIN batch /\ waiting[i] = batch[i]
          \/ i - Len(batch) \in DOMAIN events /\ waiting[i] = events[i - Len(batch)]
    <3> SUFFICES ASSUME NEW i \in DOMAIN waiting
                 PROVE  \/ i \in DOMAIN batch /\ waiting[i] = batch[i]
                        \/ i - Len(batch) \in DOMAIN events /\ waiting[i] = events[i - Len(batch)]
      OBVIOUS
    <3>1. i \in 1 .. Len(batch) + Len(events)
      BY <2>1
    <3> QED
      BY <2>2, <3>1
  <2> HIDE DEF waiting
  <2>4. Ahead(hub, waiting)
    BY <2>3 DEF Ahead
  <2>5. Rising(hub \o waiting)
    BY <2>1, <2>4, Joined
  <2>6. ASSUME NEW i \in DOMAIN waiting PROVE waiting[i] = noted - Len(waiting) + i
    <3>1. /\ i \in Nat /\ Len(batch) \in Nat /\ Len(events) \in Nat
          /\ Len(waiting) = Len(batch) + Len(events)
      BY <2>1
    <3>2. CASE i \in DOMAIN batch /\ waiting[i] = batch[i]
      <4>1. batch[i] = (noted - Len(events)) - Len(batch) + i
        BY <3>2 DEF Latest
      <4> QED
        BY <3>1, <3>2, <4>1
    <3>3. CASE i - Len(batch) \in DOMAIN events /\ waiting[i] = events[i - Len(batch)]
      <4>1. events[i - Len(batch)] = noted - Len(events) + (i - Len(batch))
        BY <3>3 DEF Latest
      <4> QED
        BY <3>1, <3>3, <4>1
    <3> QED
      BY <2>3, <3>2, <3>3
  <2> QED
    BY <2>5, <2>6 DEF InOrder, Rising, waiting
<1> QED
  BY <1>1, <1>2, <1>3, PTL DEF Spec

-----------------------------------------------------------------------------
\* Why no sample gives way to an older one: what is behind is never newer than what it came
\* from, and what is being asked for is newer than all of it.
NotAfter(old, new) == old.truth # Never /\ new.truth # Never => new.truth <= old.truth

NewestInv ==
  /\ NotAfter(ledger, hubHas) /\ NotAfter(ledger, results) /\ NotAfter(hubHas, results)
  /\ got # "none" => \A r \in {results, hubHas, ledger} : r.truth # Never => reading <= r.truth

SampleInv == SampleTypeOK /\ AgeIsHonest /\ NewestInv

\* An aged record is a record, and keeps its honesty and its place among the others.
LEMMA Ageing ==
  ASSUME NEW r \in Record
  PROVE  /\ Aged(r) \in Record
         /\ Honest(r) => Honest(Aged(r))
         /\ Aged(r).truth = Older(r.truth)
         /\ Aged(r).age = Older(r.age)
         /\ \A q \in Record : NotAfter(q, r) => NotAfter(Aged(q), Aged(r))
<1> USE AgeAssumption
<1>1. ASSUME NEW q \in Record
      PROVE  /\ Aged(q) \in Record
             /\ Aged(q).truth = Older(q.truth) /\ Aged(q).age = Older(q.age)
  <2>1. /\ q.state \in {"none", "ok", "bad"}
        /\ Older(q.age) \in Ages \cup {Never} /\ Older(q.truth) \in Ages \cup {Never}
    BY DEF Record, Older, Never, Ages
  <2> QED
    BY <2>1 DEF Aged, Record
<1>2. \A a, b \in Ages \cup {Never} :
        /\ Older(a) \in Ages \cup {Never} /\ (Older(a) = Never <=> a = Never)
        /\ a <= b /\ a # Never => Older(a) <= Older(b)
        /\ a <= b + MaxAsk /\ b # Never => Older(a) <= Older(b) + MaxAsk
  BY DEF Older, Never, Ages
<1>3. \A q \in Record : q.age \in Ages \cup {Never} /\ q.truth \in Ages \cup {Never}
  BY DEF Record
<1>4. Honest(r) => Honest(Aged(r))
  BY <1>1, <1>2, <1>3 DEF Honest, Never, Ages
<1>5. \A q \in Record : NotAfter(q, r) => NotAfter(Aged(q), Aged(r))
  <2> SUFFICES ASSUME NEW q \in Record, NotAfter(q, r), Aged(q).truth # Never, Aged(r).truth # Never
               PROVE  Aged(r).truth <= Aged(q).truth
    BY DEF NotAfter
  <2>1. Aged(q).truth = Older(q.truth) /\ Aged(r).truth = Older(r.truth)
    BY <1>1
  <2>2. q.truth \in Ages \cup {Never} /\ r.truth \in Ages \cup {Never}
    BY <1>3
  <2>3. q.truth # Never /\ r.truth # Never
    BY <1>2, <2>1, <2>2
  <2> QED
    BY <1>2, <2>1, <2>2, <2>3 DEF NotAfter
<1> QED
  BY <1>1, <1>4, <1>5

\* No account has been asked for at the start.
LEMMA SampleInitially == SampleInit => SampleInv
BY NAssumption, AgeAssumption
   DEF SampleInit, SampleInv, SampleTypeOK, AgeIsHonest, NewestInv, NotAfter, Honest, Record,
       NoRecord, Never, Ages, Accounts

\* Every step keeps SampleInv.
LEMMA SampleStep == SampleInv /\ [SampleNext]_sampleVars => SampleInv'
<1> SUFFICES ASSUME SampleInv, [SampleNext]_sampleVars PROVE SampleInv'
  OBVIOUS
<1> USE NAssumption, SourceAssumption, AgeAssumption
<1> USE DEF SampleInv, SampleTypeOK, AgeIsHonest, NewestInv, Accounts, sampledVars
<1>1. CASE Skip \/ Wake
  <2>1. /\ UNCHANGED <<watched, results, due, got, reading, hubHas, ledger, downs>>
        /\ got = "none" \/ at = 0
        /\ at' \in 0..N
    BY <1>1 DEF Skip, Wake, Following
  <2>2. SampleTypeOK'
    BY <2>1
  <2>3. AgeIsHonest' /\ NewestInv'
    BY <2>1 DEF NotAfter, Honest
  <2> QED
    BY <2>2, <2>3
<1>2. CASE AskApi
  <2>1. PICK x \in Answers :
          got' = IF Source[at] = "claude-login" THEN SampleLogin(x) ELSE SampleHeaders(x)
    BY <1>2 DEF AskApi
  <2>2. got' \in {"ok", "bad", "raise"}
    BY <2>1 DEF SampleLogin, SampleHeaders
  <2>3. reading' = 0 /\ at # 0 /\ UNCHANGED <<watched, results, due, at, hubHas, ledger, downs>>
    BY <1>2 DEF AskApi
  <2> QED
    BY <2>2, <2>3 DEF Record, Ages, Never, NotAfter, Honest
<1>3. CASE RecordResult
  <2>1. /\ got # "none" /\ got' = "none" /\ reading' = 0
        /\ due' \subseteq Accounts /\ at' \in 0..N
        /\ UNCHANGED <<watched, hubHas, ledger, downs>>
    BY <1>3 DEF RecordResult, Following
  <2>2. CASE results' = [state |-> "ok", age |-> 0, truth |-> reading]
    BY <2>1, <2>2 DEF Record, Ages, Never, NotAfter, Honest
  <2>3. CASE results' = Failed(results)
    BY <2>1, <2>3 DEF Failed, Record, Ages, Never, NotAfter, Honest
  <2>4. CASE results' = results
    BY <2>1, <2>4
  <2> QED
    BY <1>3, <2>2, <2>3, <2>4 DEF RecordResult
<1>4. ASSUME NEW a \in Accounts, ComeDue(a) PROVE SampleInv'
  BY <1>4 DEF ComeDue
<1>5. CASE HubPoll
  BY <1>5 DEF HubPoll, NotAfter, Record, Ages, Never
<1>6. CASE Sync
  BY <1>6 DEF Sync, NotAfter, Record, Ages, Never
<1>7. CASE RelayRestarts \/ ProxyRestarts
  <2>1. NoRecord \in Record /\ Honest(NoRecord) /\ NoRecord.truth = Never
    BY DEF NoRecord, Record, Honest, Never, Ages
  <2>2. CASE RelayRestarts
    BY <2>1, <2>2 DEF RelayRestarts, NotAfter
  <2>3. CASE ProxyRestarts
    BY <2>1, <2>3 DEF ProxyRestarts, NotAfter
  <2> QED
    BY <1>7, <2>2, <2>3
<1>8. CASE SampleTick
  <2>1. /\ results' = Aged(results) /\ hubHas' = Aged(hubHas) /\ ledger' = Aged(ledger)
        /\ got # "none" => reading < MaxAsk
        /\ reading' = (IF got = "none" THEN 0 ELSE reading + 1)
        /\ UNCHANGED <<watched, due, at, got, downs>>
    BY <1>8 DEF SampleTick
  <2>2. results \in Record /\ hubHas \in Record /\ ledger \in Record
    OBVIOUS
  <2>3. SampleTypeOK'
    BY <2>1, <2>2, Ageing
  <2>4. AgeIsHonest'
    BY <2>1, <2>2, Ageing
  <2>5. \A r \in {results, hubHas, ledger} :
          got # "none" /\ Aged(r).truth # Never => reading' <= Aged(r).truth
    BY <2>1, <2>2, Ageing DEF Older, Record, Ages, Never
  <2>6. NewestInv'
    BY <2>1, <2>2, <2>5, Ageing
  <2> QED
    BY <2>3, <2>4, <2>6
<1>9. CASE UNCHANGED sampleVars
  BY <1>9 DEF sampleVars
<1> QED
  BY <1>1, <1>2, <1>3, <1>4, <1>5, <1>6, <1>7, <1>8, <1>9 DEF SampleNext, Loop

\* Along every behaviour of the sampler.
LEMMA SampleAlways == SampleSpec => []SampleInv
<1>1. SampleInit => SampleInv
  BY SampleInitially
<1>2. SampleInv /\ [SampleNext]_sampleVars => SampleInv'
  BY SampleStep
<1> QED
  BY <1>1, <1>2, PTL DEF SampleSpec

\* Types of the samples, wherever they lie.
THEOREM SampleTypes == SampleSpec => []SampleTypeOK
<1>1. SampleInv => SampleTypeOK
  BY DEF SampleInv
<1> QED
  BY <1>1, SampleAlways, PTL

\* Wherever a sample lies, its limits are no older than its as_of says, but for the time the
\* request took (sample, run, HubSync.once).
THEOREM AgesAreHonest == SampleSpec => []AgeIsHonest
<1>1. SampleInv => AgeIsHonest
  BY DEF SampleInv
<1> QED
  BY <1>1, SampleAlways, PTL

\* No failure costs the node its limits, and nothing gives the proxy an older sample than it
\* has (sample, run, HubSync.once).
THEOREM NewestSampleStays == SampleSpec => NewestStays
<1> DEFINE Kept == /\ RelayRestarts \/ Keeps(results, results')
                   /\ ProxyRestarts \/ Keeps(ledger, ledger')
<1>1. SampleInv /\ [SampleNext]_sampleVars => [Kept]_sampleVars
  <2> SUFFICES ASSUME SampleInv, SampleNext PROVE Kept
    BY DEF Keeps
  <2> USE AgeAssumption
  <2> USE DEF SampleInv, SampleTypeOK, AgeIsHonest, NewestInv, sampledVars
  <2>1. results \in Record /\ hubHas \in Record /\ ledger \in Record
    OBVIOUS
  <2>2. \A r \in Record : Keeps(r, r) /\ Keeps(r, Aged(r))
    BY Ageing DEF Keeps, Older, Record, Ages, Never
  <2>3. CASE RecordResult
    <3>1. UNCHANGED ledger /\ got # "none"
      BY <2>3 DEF RecordResult
    <3>2. \/ results' = [state |-> "ok", age |-> 0, truth |-> reading]
          \/ results' = Failed(results)
          \/ results' = results
      BY <2>3 DEF RecordResult
    <3>3. Keeps(results, results')
      BY <2>1, <3>1, <3>2 DEF Keeps, Failed, Older, Record, Ages, Never
    <3> QED
      BY <2>1, <2>2, <3>1, <3>3
  <2>4. CASE Sync
    <3>1. UNCHANGED results /\ (ledger' = ledger \/ (Takes(hubHas) /\ ledger' = hubHas))
      BY <2>4 DEF Sync
    <3>2. Keeps(ledger, ledger')
      BY <2>1, <3>1 DEF Keeps, Takes, NotAfter, Honest, Older, Record, Ages, Never
    <3> QED
      BY <2>1, <2>2, <3>1, <3>2
  <2>5. CASE SampleTick
    BY <2>1, <2>2, <2>5 DEF SampleTick
  <2>6. CASE Skip \/ AskApi \/ Wake \/ HubPoll \/ \E a \in Accounts : ComeDue(a)
    BY <2>1, <2>2, <2>6 DEF Skip, AskApi, Wake, HubPoll, ComeDue
  <2>7. CASE RelayRestarts
    BY <2>1, <2>2, <2>7 DEF RelayRestarts
  <2>8. CASE ProxyRestarts
    BY <2>1, <2>2, <2>8 DEF ProxyRestarts
  <2> QED
    BY <2>3, <2>4, <2>5, <2>6, <2>7, <2>8 DEF SampleNext, Loop
<1>2. SampleSpec => [][Kept]_sampleVars
  BY <1>1, SampleAlways, PTL DEF SampleSpec
<1> QED
  BY <1>2 DEF NewestStays

-----------------------------------------------------------------------------
\* A run that is in its first wait has stopped nobody, and a line is the end of it.
AgentInv ==
  /\ agent = "communicate" => termed = {}
  /\ line = "ok" => agent = "exited"
  /\ OkMeansDone

\* However long fleet-agent's child, what it starts and SIGTERM take: a run is logged ok only if
\* it was done in time, by itself (main).
THEOREM OkIsDone == AgentSpec => []OkMeansDone
<1>1. AgentInit => AgentInv
  BY DEF AgentInit, AgentInv, OkMeansDone
<1>2. AgentInv /\ [AgentNext]_agentVars => AgentInv'
  <2> SUFFICES ASSUME AgentInv, [AgentNext]_agentVars PROVE AgentInv'
    OBVIOUS
  <2> USE DEF AgentInv, OkMeansDone, Done
  <2>1. CASE ChildPrints
    BY <2>1 DEF ChildPrints
  <2>2. CASE ChildForks
    BY <2>2 DEF ChildForks
  <2>3. CASE ChildEnds
    BY <2>3 DEF ChildEnds
  <2>4. CASE KinEnds \/ StrayEnds \/ AgentTick
    BY <2>4 DEF KinEnds, StrayEnds, AgentTick
  <2>5. CASE TimesOut
    BY <2>5 DEF TimesOut
  <2>6. CASE Finishes
    BY <2>6 DEF Finishes, Ok
  <2>7. CASE AgentKilled
    BY <2>7 DEF AgentKilled
  <2>8. CASE UNCHANGED agentVars
    BY <2>8 DEF agentVars
  <2> QED
    BY <2>1, <2>2, <2>3, <2>4, <2>5, <2>6, <2>7, <2>8 DEF AgentNext
<1>3. AgentInv => OkMeansDone
  BY DEF AgentInv
<1> QED
  BY <1>1, <1>2, <1>3, PTL DEF AgentSpec

-----------------------------------------------------------------------------
\* Restarts that were told of, that none could tell of, or that a pass is about to print.
Told == settled \cup UNION {IF pass[p].pc = "print" THEN Tells(p) ELSE {} : p \in Passes}

Counters == [is : {"counter", "none", "torn"}, flaps : Nat, base : Nat]

PassTold(p) ==
  /\ pass[p].pc # "idle" /\ Known(pass[p].before) => 1..pass[p].before.flaps \subseteq Told
  /\ pass[p].pc \in {"open", "write", "print"} /\ Known(pass[p].now) =>
       1..pass[p].now.flaps \subseteq Told \cup Tells(p)

\* Whatever a counter somebody holds has taken in was told of, or the pass that read it will
\* tell of it.
StatusInv ==
  /\ flaps \in Nat /\ base \in Nat
  /\ file \in Counters
  /\ pass \in [Passes -> [pc : {"idle", "show", "open", "write", "print"},
                          before : Counters, now : Counters]]
  /\ Known(file) => 1..file.flaps \subseteq Told
  /\ \A p \in Passes : PassTold(p)

\* What is about to be told or was told stays so through a step of one pass that tells what it
\* was about to.
LEMMA ToldGrows ==
  ASSUME NEW p \in Passes, settled \subseteq settled',
         \A q \in Passes : q # p => pass'[q] = pass[q],
         pass[p].pc = "print" => Tells(p) \subseteq settled'
  PROVE  Told \subseteq Told'
<1>1. \A q \in Passes : q # p => (Tells(q))' = Tells(q)
  BY DEF Tells, Moved, Known, NRestarts
<1> QED
  BY <1>1 DEF Told

\* It is enough to look at the file and at the pass that makes the step.
LEMMA OnePassMoves ==
  ASSUME StatusInv, NEW p \in Passes, Told \subseteq Told', UNCHANGED <<flaps, base>>,
         \A q \in Passes : q # p => pass'[q] = pass[q],
         pass' \in [Passes -> [pc : {"idle", "show", "open", "write", "print"},
                              before : Counters, now : Counters]],
         file' = file \/ (file' \in Counters /\ (Known(file') => 1..file'.flaps \subseteq Told')),
         PassTold(p)'
  PROVE  StatusInv'
<1>1. \A q \in Passes : q # p => (Tells(q))' = Tells(q)
  BY DEF Tells, Moved, Known, NRestarts
<1>2. ASSUME NEW q \in Passes, q # p PROVE PassTold(q)'
  BY <1>1, <1>2 DEF StatusInv, PassTold, Known
<1>3. \A q \in Passes : PassTold(q)'
  BY <1>2
<1> QED
  BY <1>3 DEF StatusInv, Known

\* Every step of the passes and of systemd keeps StatusInv.
LEMMA StatusStep == StatusInv /\ [StatusNext]_statusVars => StatusInv'
<1> SUFFICES ASSUME StatusInv, [StatusNext]_statusVars PROVE StatusInv'
  OBVIOUS
<1> USE DEF StatusInv, Counters
<1>1. ASSUME NEW p \in Passes, Begin(p) PROVE StatusInv'
  <2>1. /\ UNCHANGED <<flaps, base, file, settled>> /\ pass[p].pc = "idle"
        /\ \A q \in Passes : q # p => pass'[q] = pass[q]
        /\ pass'[p].pc = "show" /\ pass'[p].before = (IF file = Torn THEN NoKey ELSE file)
        /\ pass' \in [Passes -> [pc : {"idle", "show", "open", "write", "print"},
                                 before : Counters, now : Counters]]
    BY <1>1 DEF Begin, Torn, NoKey
  <2>2. Told \subseteq Told'
    BY <2>1, ToldGrows
  <2>3. PassTold(p)'
    BY <2>1, <2>2 DEF PassTold, Known, NoKey
  <2> QED
    BY <2>1, <2>2, <2>3, OnePassMoves
<1>2. ASSUME NEW p \in Passes, Show(p) PROVE StatusInv'
  <2>1. PICK now \in {Reading, Missing, NoKey} :
          /\ pass' = [pass EXCEPT ![p] = [@ EXCEPT !.pc = "open", !.now = now]]
          /\ settled' = settled \cup Untold(pass[p].before, now)
    BY <1>2 DEF Show
  <2>2. now \in Counters
    BY DEF Reading, Missing, NoKey
  <2>3. /\ UNCHANGED <<flaps, base, file>> /\ pass[p].pc = "show"
        /\ \A q \in Passes : q # p => pass'[q] = pass[q]
        /\ pass'[p].pc = "open" /\ pass'[p].before = pass[p].before /\ pass'[p].now = now
        /\ pass' \in [Passes -> [pc : {"idle", "show", "open", "write", "print"},
                                 before : Counters, now : Counters]]
    BY <1>2, <2>1, <2>2 DEF Show
  <2>4. Told \subseteq Told' /\ settled' \subseteq Told'
    BY <2>1, <2>3, ToldGrows DEF Told
  <2>5. Known(pass[p].before) => 1..pass[p].before.flaps \subseteq Told'
    BY <2>3, <2>4 DEF PassTold
  <2>6. (Tells(p))' = IF Moved(pass[p].before, now) THEN pass[p].before.flaps + 1 .. now.flaps ELSE {}
    BY <2>3 DEF Tells, Moved, Known, NRestarts
  <2>7. Known(now) => 1..now.flaps \subseteq Told' \cup (Tells(p))'
    <3> SUFFICES ASSUME Known(now) PROVE 1..now.flaps \subseteq Told' \cup (Tells(p))'
      OBVIOUS
    <3> DEFINE before == pass[p].before
    <3>1. before \in Counters /\ now.flaps \in Nat /\ now.base \in Nat
      BY <2>2
    <3>2. CASE ~Known(before) \/ (before.base # now.base /\ ~Moved(before, now))
      BY <2>1, <2>4, <3>2 DEF Untold
    <3>3. CASE Known(before) /\ Moved(before, now)
      <4>1. 1..before.flaps \subseteq Told'
        BY <2>5, <3>3
      <4> QED
        BY <2>6, <3>1, <3>3, <4>1
    <3>4. CASE Known(before) /\ before.base = now.base /\ ~Moved(before, now)
      <4>1. now.flaps <= before.flaps
        BY <3>1, <3>4 DEF Moved, NRestarts
      <4>2. 1..before.flaps \subseteq Told'
        BY <2>5, <3>4
      <4> QED
        BY <3>1, <4>1, <4>2
    <3> QED
      BY <3>2, <3>3, <3>4
  <2>8. PassTold(p)'
    BY <2>3, <2>5, <2>7 DEF PassTold, Known
  <2> QED
    BY <2>3, <2>4, <2>8, OnePassMoves
<1>3. ASSUME NEW p \in Passes, OpenState(p) \/ WriteState(p) PROVE StatusInv'
  <2>1. /\ UNCHANGED <<flaps, base, settled>> /\ pass[p].pc \in {"open", "write"}
        /\ \A q \in Passes : q # p => pass'[q] = pass[q]
        /\ pass'[p].before = pass[p].before /\ pass'[p].now = pass[p].now
        /\ pass'[p].pc \in {"write", "print"}
        /\ pass' \in [Passes -> [pc : {"idle", "show", "open", "write", "print"},
                                 before : Counters, now : Counters]]
    BY <1>3 DEF OpenState, WriteState
  <2>2. Told \subseteq Told'
    BY <2>1, ToldGrows
  <2>3. \A q \in Passes : (Tells(q))' = Tells(q)
    BY <2>1 DEF Tells, Moved, Known, NRestarts
  <2>4. file' = Torn \/ (file' = pass[p].now /\ pass'[p].pc = "print")
    BY <1>3 DEF OpenState, WriteState
  <2>5. pass'[p].pc = "print" => Tells(p) \subseteq Told'
    BY <2>3 DEF Told
  <2>6. file' \in Counters /\ (Known(file)' => 1..file'.flaps \subseteq Told')
    <3>1. CASE file' = Torn
      BY <3>1 DEF Known, Torn, NoKey
    <3>2. CASE file' = pass[p].now /\ pass'[p].pc = "print"
      BY <2>1, <2>2, <2>5, <3>2 DEF Known, PassTold
    <3> QED
      BY <2>4, <3>1, <3>2
  <2>7. PassTold(p)'
    BY <2>1, <2>2, <2>3 DEF PassTold, Known
  <2> QED
    BY <2>1, <2>2, <2>6, <2>7, OnePassMoves
<1>4. ASSUME NEW p \in Passes, PrintLines(p) \/ PassDies(p) PROVE StatusInv'
  <2>1. /\ UNCHANGED <<flaps, base, file>> /\ settled \subseteq settled'
        /\ \A q \in Passes : q # p => pass'[q] = pass[q]
        /\ pass'[p] = Idle
        /\ pass[p].pc = "print" => Tells(p) \subseteq settled'
    BY <1>4 DEF PrintLines, PassDies
  <2>2. Told \subseteq Told'
    BY <2>1, ToldGrows
  <2>3. Idle \in [pc : {"idle", "show", "open", "write", "print"}, before : Counters, now : Counters]
    BY DEF Idle, NoKey
  <2>4. pass' = [pass EXCEPT ![p] = Idle]
    BY <1>4 DEF PrintLines, PassDies
  <2>5. PassTold(p)'
    BY <2>1 DEF PassTold, Idle
  <2>6. pass' \in [Passes -> [pc : {"idle", "show", "open", "write", "print"},
                             before : Counters, now : Counters]]
    BY <2>3, <2>4
  <2> QED
    BY <2>1, <2>2, <2>5, <2>6, OnePassMoves
<1>5. CASE Flap \/ StartByHand \/ UNCHANGED statusVars
  <2>1. UNCHANGED <<file, pass, settled>> /\ flaps' \in Nat /\ base' \in Nat
    BY <1>5 DEF Flap, StartByHand, statusVars
  <2>2. Told' = Told /\ \A q \in Passes : (Tells(q))' = Tells(q)
    BY <2>1 DEF Told, Tells, Moved, Known, NRestarts
  <2> QED
    BY <2>1, <2>2 DEF PassTold, Known
<1> QED
  BY <1>1, <1>2, <1>3, <1>4, <1>5 DEF StatusNext

\* However many passes of fleet-status overlap and die: a restart that status.state has taken in
\* is told of by some pass, unless none could (units, main).
THEOREM RestartsAreTold == StatusSpec => []NoRestartIsLost
<1>1. StatusInit => StatusInv
  BY DEF StatusInit, StatusInv, PassTold, Counters, Idle, NoKey, Known
<1>2. StatusInv => NoRestartIsLost
  BY DEF StatusInv, NoRestartIsLost, Told
<1> QED
  BY <1>1, <1>2, StatusStep, PTL DEF StatusSpec

-----------------------------------------------------------------------------
Shown == Head(screens)
InLoop == loop \in {"look", "act"}

\* At most one Enter is on its way, before the "exit" typed in the end, and none once the loop
\* may press the next.
KeysInv ==
  /\ keys \in {<<>>, <<"enter">>, <<"exit">>, <<"enter", "exit">>}
  /\ loop \in {"look", "act", "left"} => keys \in {<<>>, <<"enter">>}
  /\ InLoop /\ since >= 1 => keys = <<>>
  /\ keys # <<>> /\ Head(keys) = "enter" => Shown \notin Pickers \/ Shown \in hidden

\* Why no Enter is pressed at a picker: its heading has been read, or it is not drawn yet and the
\* last Enter is too recent, or nothing was pressed yet and no "Enter to confirm" was read that
\* had no heading before it.  Or the heading was drawn and did not stay in recent.
PickerInv ==
  InLoop /\ Shown \in Pickers /\ Shown \notin hidden =>
    /\ undrawn = Texts(Shown) \/ Shown \in recent \cup pty
    /\ \/ Shown \in recent
       \/ since = 0
       \/ /\ ~unanswered
          /\ "prompt" \in recent => Shown \in recent
          /\ "prompt" \in pty => Shown \in recent \cup pty

LiveInv ==
  /\ since \in 0..2
  /\ unanswered \in BOOLEAN
  /\ alive => KeysInv /\ PickerInv
  /\ PickersAreLeft

\* A picker's heading is the first of its texts.
LEMMA HeadingComesFirst ==
  ASSUME NEW screen \in Pickers
  PROVE  /\ Texts(screen) # <<>> /\ Head(Texts(screen)) = screen
         /\ screen # "prompt" /\ screen \in ToSet(Texts(screen))
<1>1. Texts(screen) = <<screen, "prompt">>
  BY DEF Texts
<1>2. 1 \in DOMAIN <<screen, "prompt">> /\ <<screen, "prompt">>[1] = screen
  OBVIOUS
<1>3. screen \in ToSet(<<screen, "prompt">>)
  BY <1>2 DEF ToSet
<1> QED
  BY <1>1, <1>3 DEF Pickers

\* What becomes of the keys that are on their way.
LEMMA KeyQueues ==
  /\ Tail(<<"enter">>) = <<>> /\ Tail(<<"exit">>) = <<>>
  /\ Tail(<<"enter", "exit">>) = <<"exit">>
  /\ Append(<<>>, "exit") = <<"exit">> /\ Append(<<"enter">>, "exit") = <<"enter", "exit">>
<1>1. Tail(<<"enter">>) = <<>> /\ Tail(<<"exit">>) = <<>>
  OBVIOUS
<1>2. Tail(<<"enter", "exit">>) = <<"exit">>
  OBVIOUS
<1>3. Append(<<>>, "exit") = <<"exit">>
  OBVIOUS
<1>4. Append(<<"enter">>, "exit") = <<"enter", "exit">>
  <2> DEFINE s == Append(<<"enter">>, "exit")
             t == <<"enter", "exit">>
  <2>1. <<"enter">> \in Seq({"enter", "exit"}) /\ t \in Seq({"enter", "exit"}) /\ Len(t) = 2
    OBVIOUS
  <2>2. s \in Seq({"enter", "exit"}) /\ Len(s) = 2 /\ s[1] = "enter" /\ s[2] = "exit"
    BY <2>1
  <2>3. t[1] = "enter" /\ t[2] = "exit"
    OBVIOUS
  <2> HIDE DEF s, t
  <2>4. \A i \in 1..2 : s[i] = t[i]
    BY <2>2, <2>3
  <2>5. s = t
    BY <2>1, <2>2, <2>4
  <2> QED
    BY <2>5 DEF s, t
<1> QED
  BY <1>1, <1>2, <1>3, <1>4

\* main and Claude Code keep LiveInv, if Claude Code is Quick.
LEMMA LiveStep == Quick /\ LiveInv /\ [LiveNext]_liveVars => LiveInv'
<1> SUFFICES ASSUME Quick, LiveInv, [LiveNext]_liveVars PROVE LiveInv'
  OBVIOUS
<1> USE DEF LiveInv, claudeVars
<1>1. CASE Draw
  <2>1. /\ UNCHANGED <<screens, alive, keys, loop, recent, since, unanswered, hit, hidden>> /\ alive
        /\ pty' = pty \cup {Head(undrawn)}
    BY <1>1 DEF Draw
  <2>2. PickerInv'
    BY <2>1, HeadingComesFirst DEF PickerInv, Shown, InLoop
  <2> QED
    BY <2>1, <2>2 DEF KeysInv, Shown, InLoop, PickersAreLeft
<1>2. CASE Redraw \/ Chatter
  <2>1. /\ UNCHANGED <<screens, undrawn, alive, keys, loop, recent, since, unanswered, hit, hidden>> /\ alive
        /\ pty' = pty \cup ToSet(Texts(Shown)) \/ (pty = {} /\ pty' = {"other"})
    BY <1>2 DEF Redraw, Chatter, Shown
  <2>2. PickerInv'
    BY <2>1, HeadingComesFirst DEF PickerInv, Shown, InLoop
  <2> QED
    BY <2>1, <2>2 DEF KeysInv, Shown, InLoop, PickersAreLeft
<1>3. CASE HandleKey
  <2>1. /\ UNCHANGED <<alive, loop, pty, recent, since, unanswered, hidden>> /\ alive
        /\ keys # <<>> /\ keys' = Tail(keys)
        /\ UNCHANGED <<screens, undrawn>> \/ (Shown = "prompt" /\ undrawn' = Texts(Shown)')
        /\ hit' = hit \/ (Shown \in Pickers /\ hit' = hit \cup {<<Head(keys), Shown>>})
    BY <1>3 DEF HandleKey, Shown
  <2>2. keys' \in {<<>>, <<"exit">>} /\ (keys = <<"enter">> => keys' = <<>>)
    <3>1. keys \in {<<"enter">>, <<"exit">>, <<"enter", "exit">>}
      BY <2>1 DEF KeysInv
    <3> QED
      BY <2>1, <3>1, KeyQueues, Zenon
  <2>3. KeysInv'
    BY <2>1, <2>2 DEF KeysInv, InLoop
  <2>4. InLoop => keys = <<"enter">> /\ since = 0
    BY <2>1 DEF KeysInv, InLoop
  <2>5. PickerInv'
    BY <2>1, <2>4 DEF PickerInv, InLoop, Shown
  <2>6. PickersAreLeft'
    BY <2>1 DEF KeysInv, PickersAreLeft
  <2> QED
    BY <2>1, <2>3, <2>5, <2>6
<1>4. CASE Look
  <2>1. /\ UNCHANGED <<screens, undrawn, alive, keys, since, hit>> /\ loop = "look"
        /\ unanswered' \in BOOLEAN /\ (unanswered' => unanswered)
        /\ hidden \subseteq hidden' /\ pty' = {}
        /\ recent' \subseteq recent \cup pty
        /\ \A p \in Pickers : p \in recent \cup pty => p \in recent' \/ p \in hidden'
    BY <1>4 DEF Look, Read
  <2>2. alive => PickerInv'
    BY <2>1 DEF PickerInv, Shown, InLoop
  <2> QED
    BY <2>1, <2>2 DEF KeysInv, Shown, InLoop, PickersAreLeft
<1>5. CASE Press
  <2>1. /\ UNCHANGED <<screens, undrawn, alive, pty, hit, hidden>> /\ loop = "act" /\ loop' = "look"
        /\ recent \cap Pickers = {} /\ WantsEnter
        /\ keys' = Append(keys, "enter") /\ since' = 0 /\ unanswered' = TRUE
    BY <1>5 DEF Press
  <2>2. since >= 1
    BY <2>1 DEF WantsEnter
  <2>3. alive => Shown \notin Pickers \/ Shown \in hidden
    BY <2>1, <2>2 DEF PickerInv, InLoop, WantsEnter
  <2>4. alive => keys' = <<"enter">>
    BY <2>1, <2>2 DEF KeysInv, InLoop
  <2>5. alive => KeysInv'
    BY <2>1, <2>3, <2>4 DEF KeysInv, Shown, InLoop
  <2>6. alive => PickerInv'
    BY <2>1, <2>3 DEF PickerInv, Shown
  <2> QED
    BY <2>1, <2>5, <2>6 DEF PickersAreLeft
<1>6. CASE LiveTick
  <2>1. /\ UNCHANGED <<screens, undrawn, alive, keys, pty, loop, recent, unanswered, hit, hidden>>
        /\ since' = since + 1 /\ since < 2 /\ pty = {}
        /\ alive => keys = <<>> /\ undrawn = <<>>
    BY <1>6 DEF LiveTick
  <2>2. alive => PickerInv'
    BY <2>1, HeadingComesFirst DEF PickerInv, Shown, InLoop
  <2> QED
    BY <2>1, <2>2 DEF KeysInv, PickersAreLeft
<1>7. CASE Stop \/ Deadline
  <2>1. UNCHANGED <<screens, undrawn, alive, keys, since, unanswered, hit, hidden>> /\ loop' = "left" /\ InLoop
    BY <1>7 DEF Stop, Deadline, InLoop
  <2> QED
    BY <2>1 DEF KeysInv, PickerInv, Shown, InLoop, PickersAreLeft
<1>8. CASE TypeExit
  <2>1. /\ UNCHANGED <<screens, undrawn, alive, since, unanswered, hit, hidden>>
        /\ loop = "left" /\ loop' = "leaving" /\ keys' = Append(keys, "exit")
    BY <1>8 DEF TypeExit
  <2>2. alive => keys \in {<<>>, <<"enter">>}
    BY <2>1 DEF KeysInv
  <2>3. keys = <<>> => keys' = <<"exit">>
    BY <2>1, KeyQueues, Zenon
  <2>4. keys = <<"enter">> => keys' = <<"enter", "exit">>
    BY <2>1, KeyQueues, Zenon
  <2>5. alive => KeysInv'
    BY <2>1, <2>2, <2>3, <2>4 DEF KeysInv, Shown, InLoop
  <2> QED
    BY <2>1, <2>5 DEF PickerInv, InLoop, PickersAreLeft
<1>9. CASE Leave \/ ClaudeEnds
  BY <1>9 DEF Leave, ClaudeEnds, PickersAreLeft
<1>10. CASE GoOn
  BY <1>10 DEF GoOn, PickersAreLeft, KeysInv, PickerInv, Shown, InLoop
<1>11. CASE Listens \/ Registers \/ UNCHANGED liveVars
  BY <1>11 DEF Listens, Registers, liveVars, PickersAreLeft, KeysInv, PickerInv, Shown, InLoop
<1> QED
  BY <1>1, <1>2, <1>3, <1>4, <1>5, <1>6, <1>7, <1>8, <1>9, <1>10, <1>11 DEF LiveNext, Main, Claude

\* Whatever screens come in whatever order, whatever else is drawn, and whether the first Enter
\* was lost or not, no Enter comes upon a picker whose heading stays in recent once it is drawn,
\* if Claude Code is done with a key within 1.5 s (main).
THEOREM NoEnterAtPickers == LiveSpec => []PickersAreLeft
<1>1. LiveInit => LiveInv
  <2> SUFFICES ASSUME LiveInit PROVE LiveInv
    OBVIOUS
  <2>1. KeysInv
    BY DEF LiveInit, KeysInv
  <2>2. PickerInv
    BY DEF LiveInit, PickerInv, Shown
  <2> QED
    BY <2>1, <2>2, 2 \in 0..2 DEF LiveInit, LiveInv, PickersAreLeft
<1>2. CASE Quick
  <2>1. LiveInv /\ [LiveNext]_liveVars => LiveInv'
    BY <1>2, LiveStep
  <2>2. LiveInv => PickersAreLeft
    BY DEF LiveInv, PickersAreLeft
  <2> QED
    BY <1>1, <2>1, <2>2, PTL DEF LiveSpec
<1>3. CASE ~Quick
  <2>1. PickersAreLeft
    BY <1>3 DEF PickersAreLeft
  <2> QED
    BY <2>1, PTL
<1> QED
  BY <1>2, <1>3

-----------------------------------------------------------------------------
\* Why the port is kept: both ends count the same silence, while the node is awake.
BothCount ==
  ssh = "up" =>
    /\ holder \in {ep, Free} /\ ~gone
    /\ slept \/ (awake /\ holder = ep /\ mute = deaf)

TunnelInv == TunnelTypeOK /\ BothCount

LEMMA TunnelInitially == TunnelInit => TunnelInv
<1> SUFFICES ASSUME TunnelInit PROVE TunnelInv
  OBVIOUS
<1>1. 0 \in Endpoints /\ 0 \in 0..While /\ 0 \in 0..Deaf /\ 0 \in 0..Mute
  BY EndpointAssumption DEF Endpoints, While, Deaf, Mute
<1> QED
  BY <1>1 DEF TunnelInit, TunnelInv, TunnelTypeOK, BothCount

\* An ssh that ends leaves no tunnel that is up.
LEMMA EndingKeeps ==
  ASSUME TunnelInv, SshEnds
  PROVE  /\ ssh' \in {"down", "connecting"} /\ ep' \in Endpoints /\ ran' \in 0..While
         /\ deaf' \in 0..Deaf /\ slept' = FALSE
<1>1. ran' = 0 /\ deaf' = 0 /\ slept' = FALSE
  BY DEF SshEnds
<1>2. CASE ssh' = "down" /\ ep' = ep
  BY <1>1, <1>2 DEF TunnelInv, TunnelTypeOK, While, Deaf
<1>3. CASE ep # Fallbacks /\ ssh' = "connecting" /\ ep' = ep + 1
  <2>1. ep \in 0..Fallbacks
    BY DEF TunnelInv, TunnelTypeOK, Endpoints
  <2>2. ep' \in Endpoints
    BY <1>3, <2>1, EndpointAssumption DEF Endpoints
  <2> QED
    BY <1>1, <1>3, <2>2 DEF While, Deaf
<1> QED
  BY <1>2, <1>3 DEF SshEnds

\* Every step keeps the types, and the two counts together: the hub's reaches four only
\* where the node's has reached three, and then ssh is no longer up, or where the node slept.
LEMMA TunnelStep == TunnelInv /\ [TunnelNext]_tunnelVars => TunnelInv'
<1> SUFFICES ASSUME TunnelInv, [TunnelNext]_tunnelVars PROVE TunnelInv'
  OBVIOUS
<1> USE DEF TunnelInv, TunnelTypeOK, BothCount
<1>0. 0 \in Endpoints /\ 0 \in 0..While /\ 0 \in 0..Deaf /\ 0 \in 0..Mute
  BY EndpointAssumption DEF Endpoints, While, Deaf, Mute
<1>1. CASE Restarts
  BY <1>0, <1>1 DEF Restarts, hubVars, sleepVars
<1>2. CASE awake /\ Connects
  BY <1>0, <1>2 DEF Connects, sleepVars
<1>3. CASE Refused \/ HangEnds
  BY <1>3, EndingKeeps DEF Refused, HangEnds, hubVars
<1>4. CASE GivesUp \/ IsTold
  BY <1>4, EndingKeeps DEF GivesUp, IsTold, hubVars
<1>5. CASE Reaps
  <2>1. ssh # "up" \/ slept
    BY <1>5 DEF Reaps, Deaf, Mute
  <2> QED
    BY <1>0, <1>5, <2>1 DEF Reaps, Released, sleepVars
<1>6. CASE NetChanges
  <2>0. netChanges' \in Nat
    BY <1>6 DEF NetChanges
  <2>1. CASE /\ links' \in [Endpoints -> {"cut", "hangs", "open"}]
             /\ moved' \in {moved, holder # Free}
             /\ UNCHANGED <<ssh, ep, ran, deaf, holder, gone, mute, sleepVars>>
    <3>1. moved' \in BOOLEAN
      BY <2>1, Zenon
    <3> QED
      BY <2>0, <2>1, <3>1 DEF sleepVars
  <2>2. CASE SshEnds /\ Released /\ UNCHANGED <<links, awake>>
    BY <1>0, <2>0, <2>2, EndingKeeps DEF Released
  <2> QED
    BY <1>6, <2>1, <2>2 DEF NetChanges
<1>7. CASE TunnelTick
  <2>1. /\ ran' = Capped(ran, While)
        /\ deaf' = IF ~awake THEN deaf ELSE IF ssh = "up" /\ ~Hears THEN deaf + 1 ELSE 0
        /\ mute' = IF holder # Free /\ ~Hears THEN Capped(mute, Mute) ELSE 0
        /\ slept' = (slept /\ ~Hears)
        /\ awake /\ ssh = "up" => deaf < Deaf
        /\ UNCHANGED <<links, ssh, ep, holder, gone, moved, awake, netChanges>>
    BY <1>7 DEF TunnelTick
  <2>2. ran' \in 0..While
    BY <2>1 DEF Capped, While
  <2>3. deaf' \in 0..Deaf
    BY <2>1 DEF Deaf
  <2>4. mute' \in 0..Mute
    BY <2>1 DEF Capped, Mute
  <2>5. slept' \in BOOLEAN
    BY <2>1
  <2>6. ASSUME ssh = "up", ~slept' PROVE awake /\ holder = ep /\ mute' = deaf'
    <3>1. CASE Hears
      <4>1. awake /\ holder # Free
        BY <3>1 DEF Hears
      <4> QED
        BY <2>1, <2>6, <3>1, <4>1
    <3>2. CASE ~Hears
      <4>1. awake /\ holder = ep /\ mute = deaf
        BY <2>1, <2>6, <3>2
      <4>2. holder # Free /\ deaf < 3
        BY <2>1, <2>6, <4>1, EndpointAssumption DEF Endpoints, Free, Deaf
      <4> QED
        BY <2>1, <2>6, <3>2, <4>1, <4>2 DEF Capped, Deaf, Mute
    <3> QED
      BY <3>1, <3>2
  <2> QED
    BY <2>1, <2>2, <2>3, <2>4, <2>5, <2>6
<1>8. CASE Sleeps
  <2>1. /\ UNCHANGED <<links, ssh, ep, ran, deaf, holder, gone, moved, mute>>
        /\ netChanges' = netChanges + 1
    BY <1>8 DEF Sleeps, hubVars
  <2>2. awake' \in BOOLEAN /\ slept' \in BOOLEAN /\ (ssh = "up" => slept')
    BY <1>8, Zenon DEF Sleeps
  <2>3. netChanges' \in Nat
    BY <2>1
  <2> QED
    BY <2>1, <2>2, <2>3
<1>9. CASE Wakes
  BY <1>9 DEF Wakes, hubVars
<1>10. CASE UNCHANGED tunnelVars
  BY <1>10 DEF tunnelVars, hubVars, sleepVars
<1> QED
  BY <1>1, <1>2, <1>3, <1>4, <1>5, <1>6, <1>7, <1>8, <1>9, <1>10 DEF TunnelNext, HubSsh

\* However the network changes, the hub reaps no session of an ssh that is still up, but while
\* the node sleeps.
THEOREM PortIsKept == TunnelSpec => []UpKeepsThePort
<1>1. TunnelInv => UpKeepsThePort
  BY DEF TunnelInv, BothCount, UpKeepsThePort
<1> QED
  BY <1>1, TunnelInitially, TunnelStep, PTL DEF TunnelSpec
=============================================================================
