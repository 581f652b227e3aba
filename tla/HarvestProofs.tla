---------------------------- MODULE HarvestProofs ----------------------------
(***************************************************************************)
(* Proofs about module Harvest, for any kinds, capacities, groups of       *)
(* triggers and numbers of transactions: the channel of a run is closed    *)
(* after its last sender has stopped, what is gathered is neither lost     *)
(* nor, but for the span events, sent again, and rules for metrics make    *)
(* the daemon forget how often these were refused.                         *)
(***************************************************************************)
EXTENDS Harvest, FiniteSetTheorems, TLAPS

\* A leaf is given to Zenon for a second, to the SMT solver, and to both again.
USE ZenonT(1), SMTT(60), ZenonT(60), SMTT(90)

\* The members before the turn have stopped.
Stopped ==
  /\ Member \in Seq(Members)
  /\ trig \in [Members -> {"select", "send", "confirm", "done"}]
  /\ turn \in Nat \ {0}
  /\ \A i \in 1..Len(Member) : i < turn => trig[Member[i]] = "done"
  /\ closer = "closed" => turn > Len(Member)

\* Span events are harvested with the default data and kept.
Keeping == custom /\ kind = "span_events"

Payload ==
  [h : Nat, items : SUBSET Nat, fails : Nat, shared : BOOLEAN, failed : BOOLEAN]

\* Transactions are numbered as they come; what is held, sent or under way is
\* one of them; payloads that share the harvest's collection own nothing.
Held ==
  /\ \E k \in Nat : got = 1..k
  /\ fwd \in {"none"} \cup Members
  /\ data \in [items : SUBSET Nat, fails : Nat]
  /\ payloads \in SUBSET Payload
  /\ data.items \subseteq got /\ sent \subseteq got
  /\ \A p \in payloads : p.items \subseteq got /\ (p.shared => p.items = {})

\* No two places hold the same transaction.
Apart ==
  ~Keeping =>
    /\ \A p \in payloads : ~p.shared
    /\ \A p \in payloads : p.items \cap data.items = {} /\ p.items \cap sent = {}
    /\ \A p \in payloads, q \in payloads : p # q => p.items \cap q.items = {}
    /\ sent \cap data.items = {}

DataInv == Held /\ Apart /\ NothingLost

----------------------------------------------------------------------------
\* The goroutines of the triggers start in their selects (NewAppHarvest).
LEMMA StoppedInit == ASSUME Init PROVE Stopped
<1>1. Member \in Seq(Members)
  <2>1. CASE custom
    <3>1. Group[kind] \in Seq({"default"} \cup EventKind)
      BY HarvestAssumption DEF Init
    <3> QED BY <2>1, <3>1 DEF Member, Members
  <2>2. CASE ~custom
    BY <2>2 DEF Member, Members
  <2> QED BY <2>1, <2>2
<1>2. trig \in [Members -> {"select", "send", "confirm", "done"}] /\ turn = 1
  BY DEF Init
<1> QED BY <1>1, <1>2 DEF Stopped, Init

\* A trigger that has stopped does not start again, and only the last
\* confirmation lets Close go on (app_harvest.go:50).
LEMMA StoppedNext == ASSUME Stopped, [Next]_vars PROVE Stopped'
<1> USE DEF Stopped
<1>0. UNCHANGED setting => Member' = Member /\ Members' = Members
  BY DEF setting, Member, Members
<1>1. ASSUME NEW t \in HarvestType, Tick(t) PROVE Stopped'
  BY <1>0, <1>1 DEF Tick
<1>2. ASSUME NEW t \in HarvestType, Forward(t) PROVE Stopped'
  BY <1>0, <1>2 DEF Forward
<1>3. CASE CancelGroup
  BY <1>0, <1>3 DEF CancelGroup
<1>4. CASE CancelMember
  BY <1>0, <1>4 DEF CancelMember
<1>5. CASE ConfirmMember
  BY <1>0, <1>5 DEF ConfirmMember
<1>6. CASE CloseChannels
  BY <1>0, <1>6 DEF CloseChannels
<1>7. ASSUME NEW n \in Txn, ProcessTxnData(n) PROVE Stopped'
  BY <1>0, <1>7 DEF ProcessTxnData, channels
<1>8. CASE DoHarvest
  BY <1>0, <1>8 DEF DoHarvest
<1>9. CASE RemoveInactive
  BY <1>0, <1>9 DEF RemoveInactive, ShutdownAppHarvest
<1>10. ASSUME NEW p \in payloads, Deliver(p) PROVE Stopped'
  BY <1>0, <1>10 DEF Deliver, channels
<1>11. ASSUME NEW p \in payloads, ProcessHarvestError(p) PROVE Stopped'
  BY <1>0, <1>11 DEF ProcessHarvestError, ShutdownAppHarvest
<1>12. CASE UNCHANGED vars
  BY <1>0, <1>12 DEF vars, channels
<1> QED BY <1>1, <1>2, <1>3, <1>4, <1>5, <1>6, <1>7, <1>8, <1>9, <1>10, <1>11, <1>12 DEF Next

\* For any group of triggers, none is left that could send once Close has closed
\* the channel (app_harvest.go:52).
THEOREM ChannelClosedLast == Spec => []NoSendAfterClose
<1>1. Init => Stopped
  BY StoppedInit
<1>2. Stopped /\ [Next]_vars => Stopped'
  BY StoppedNext
<1>3. Stopped => NoSendAfterClose
  <2> SUFFICES ASSUME Stopped, closer = "closed", NEW t \in Members
               PROVE trig[t] = "done"
    BY DEF NoSendAfterClose
  <2>1. PICK i \in 1..Len(Member) : t = Member[i]
    BY DEF Members, Stopped
  <2> QED BY <2>1 DEF Stopped
<1> QED BY <1>1, <1>2, <1>3, PTL DEF Spec

----------------------------------------------------------------------------
\* What a collection takes is among what it is given (AddEvent, Merge).
LEMMA HoldKeeps ==
  ASSUME NEW items, NEW fails, Hold(items, fails)
  PROVE  \E fit \in SUBSET items : /\ data' = [items |-> fit, fails |-> fails]
                                   /\ dropped' = dropped \cup (items \ fit)
<1>1. \A fit \in Fit(items) : fit \in SUBSET items
  BY DEF Fit
<1> QED BY <1>1 DEF Hold

\* Rules leave out metrics, if any, and add none (MetricTable.ApplyRules).
LEMMA RulesKeep ==
  ASSUME NEW table \in ApplyRules, data \in [items : SUBSET Nat, fails : Nat]
  PROVE  /\ table \in [items : SUBSET Nat, fails : Nat] /\ table.items \subseteq data.items
         /\ rules => table.fails = 0
<1>1. CASE rules
  <2>1. table \in [items : SUBSET data.items, fails : {0}]
    BY <1>1 DEF ApplyRules
  <2> QED BY <2>1
<1>2. CASE ~rules
  BY <1>2 DEF ApplyRules
<1> QED BY <1>1, <1>2

\* However a collection is split, the parts are disjoint and make it up (Split).
LEMMA PartsPartition ==
  ASSUME NEW items, NEW parts \in Parts(items)
  PROVE  /\ UNION parts = items
         /\ \A s \in parts, r \in parts : s # r => s \cap r = {}
<1>1. CASE parts = {items}
  BY <1>1
<1>2. ASSUME NEW h \in SUBSET items, parts = {h, items \ h}
      PROVE  /\ UNION parts = items
             /\ \A s \in parts, r \in parts : s # r => s \cap r = {}
  BY <1>2
<1>3. parts = {items} \/ \E h \in SUBSET items : parts = {h, items \ h}
  BY DEF Parts
<1> QED BY <1>1, <1>2, <1>3

\* A run starts with nothing gathered and nothing under way (NewAppHarvest).
LEMMA DataInit == ASSUME Init PROVE DataInv
<1>1. got = 1..0 /\ fwd = "none" /\ data = New /\ payloads = {} /\ sent = {}
  BY DEF Init
<1>2. New \in [items : SUBSET Nat, fails : Nat] /\ New.items = {}
  BY DEF New
<1> QED BY <1>1, <1>2 DEF DataInv, Held, Apart, NothingLost

\* A transaction that is aggregated is new (processTxnData).
LEMMA DataProcessTxnData ==
  ASSUME DataInv, NEW n \in Txn, ProcessTxnData(n) PROVE DataInv'
<1>1. PICK k \in Nat : got = 1..k
  BY DEF DataInv, Held
<1>2. n = k + 1
  <2>1. Cardinality(1..k) = k
    BY FS_Interval
  <2> QED BY <1>1, <2>1 DEF ProcessTxnData
<1>3. got' = 1..(k + 1) /\ n \notin got /\ got \subseteq got' /\ n \in got'
  BY <1>1, <1>2 DEF ProcessTxnData
<1>4. PICK fit \in SUBSET (data.items \cup {n}) :
        /\ data' = [items |-> fit, fails |-> data.fails]
        /\ dropped' = dropped \cup ((data.items \cup {n}) \ fit)
  BY HoldKeeps DEF ProcessTxnData
<1>5. UNCHANGED <<setting, fwd, payloads, sent>>
  BY DEF ProcessTxnData, channels
<1>6. Members' = Members /\ Keeping' = Keeping
  BY <1>5 DEF setting, Members, Member, Keeping
<1>7. data'.items = fit /\ data' \in [items : SUBSET Nat, fails : Nat]
  BY <1>2, <1>4 DEF DataInv, Held
<1>8. Held'
  BY <1>3, <1>5, <1>6, <1>7 DEF DataInv, Held
<1>9. Apart'
  BY <1>3, <1>5, <1>6, <1>7 DEF DataInv, Held, Apart
<1>10. NothingLost'
  BY <1>4, <1>5, <1>7 DEF DataInv, NothingLost, ProcessTxnData
<1> QED BY <1>8, <1>9, <1>10 DEF DataInv

\* A payload is accepted, or it failed and keeps its data (harvestPayload).
LEMMA DataDeliver ==
  ASSUME DataInv, NEW p \in payloads, Deliver(p) PROVE DataInv'
<1>1. UNCHANGED <<setting, fwd, got, data, dropped>>
  BY DEF Deliver, channels
<1>2. Members' = Members /\ Keeping' = Keeping
  BY <1>1 DEF setting, Members, Member, Keeping
<1>3. p \in Payload
  BY DEF DataInv, Held
<1>4. CASE /\ payloads' = payloads \ {p}
           /\ \E s \in IF p.shared THEN SUBSET data.items ELSE {p.items} :
                sent' = sent \cup s
  <2>1. PICK s \in IF p.shared THEN SUBSET data.items ELSE {p.items} :
          sent' = sent \cup s
    BY <1>4
  <2>2. Held'
    BY <1>1, <1>2, <1>4, <2>1 DEF DataInv, Held
  <2>3. Apart'
    BY <1>1, <1>2, <1>4, <2>1 DEF DataInv, Apart
  <2>4. p.items \subseteq sent'
    BY <2>1 DEF DataInv, Held
  <2>5. NothingLost'
    BY <1>1, <1>4, <2>1, <2>4 DEF DataInv, NothingLost
  <2> QED BY <2>2, <2>3, <2>5 DEF DataInv
<1>5. CASE /\ payloads' = (payloads \ {p}) \cup {[p EXCEPT !.failed = TRUE]}
           /\ UNCHANGED sent
  <2> DEFINE q == [p EXCEPT !.failed = TRUE]
  <2>1. q \in Payload /\ q.items = p.items /\ q.shared = p.shared
    BY <1>3 DEF Payload
  <2> HIDE DEF q
  <2>2. payloads' = (payloads \ {p}) \cup {q}
    BY <1>5 DEF q
  <2>3. Held'
    BY <1>1, <1>2, <1>5, <2>1, <2>2 DEF DataInv, Held
  <2>4. Apart'
    BY <1>1, <1>2, <1>5, <2>1, <2>2 DEF DataInv, Apart
  <2>5. NothingLost'
    BY <1>1, <1>5, <2>1, <2>2 DEF DataInv, NothingLost
  <2> QED BY <2>3, <2>4, <2>5 DEF DataInv
<1> QED BY <1>4, <1>5 DEF Deliver

\* The data of a refused payload goes back or is given up (processHarvestError).
LEMMA DataProcessHarvestError ==
  ASSUME DataInv, NEW p \in payloads, ProcessHarvestError(p) PROVE DataInv'
<1>1. UNCHANGED <<setting, fwd, got, sent>> /\ payloads' = payloads \ {p}
  BY DEF ProcessHarvestError
<1>2. Members' = Members /\ Keeping' = Keeping
  BY <1>1 DEF setting, Members, Member, Keeping
<1>3. p \in Payload
  BY DEF DataInv, Held
<1>4. CASE GiveUp(p) /\ UNCHANGED data
  <2>1. Held' /\ Apart'
    BY <1>1, <1>2, <1>4 DEF DataInv, Held, Apart
  <2>2. NothingLost'
    BY <1>1, <1>4 DEF DataInv, NothingLost, GiveUp
  <2> QED BY <2>1, <2>2 DEF DataInv
<1>5. ASSUME NEW fails \in Nat, Hold(data.items \cup p.items, fails) PROVE DataInv'
  <2>1. PICK fit \in SUBSET (data.items \cup p.items) :
          /\ data' = [items |-> fit, fails |-> fails]
          /\ dropped' = dropped \cup ((data.items \cup p.items) \ fit)
    BY <1>5, HoldKeeps
  <2>2. data'.items = fit /\ data' \in [items : SUBSET Nat, fails : Nat]
    BY <1>3, <2>1 DEF DataInv, Held, Payload
  <2>3. Held'
    BY <1>1, <1>2, <2>2 DEF DataInv, Held
  <2>4. Apart'
    BY <1>1, <1>2, <2>2 DEF DataInv, Apart
  <2>5. NothingLost'
    BY <1>1, <2>1, <2>2 DEF DataInv, NothingLost
  <2> QED BY <2>3, <2>4, <2>5 DEF DataInv
<1>6. data.fails \in Nat /\ p.fails \in Nat
  BY <1>3 DEF DataInv, Held, Payload
<1>7. ASSUME FailedHarvest(p) PROVE DataInv'
  <2> DEFINE fails == 1 + (IF p.shared THEN data.fails ELSE p.fails)
  <2>1. fails \in Nat
    BY <1>6
  <2> QED BY <1>4, <1>5, <1>7, <2>1 DEF FailedHarvest
<1> QED BY <1>4, <1>7 DEF ProcessHarvestError

\* A harvest by type hands the collection over and starts a new one, or, with
\* the span events, sends it and goes on (harvestByType).
LEMMA DataDoHarvest == ASSUME DataInv, DoHarvest PROVE DataInv'
<1>1. UNCHANGED <<setting, got, sent>> /\ fwd' = "none" /\ HarvestByType(fwd)
  BY DEF DoHarvest
<1>2. Members' = Members /\ Keeping' = Keeping
  BY <1>1 DEF setting, Members, Member, Keeping
<1>3. data \in [items : SUBSET Nat, fails : Nat]
  BY DEF DataInv, Held
<1> DEFINE own(h, s, n) ==
             [h |-> h, items |-> s, fails |-> n, shared |-> FALSE, failed |-> FALSE]
           alias(h) ==
             [h |-> h, items |-> {}, fails |-> 0, shared |-> TRUE, failed |-> FALSE]
<1>4. Numbers \subseteq Nat
  BY HarvestAssumption DEF Numbers
<1>5. CASE Replaces(fwd)
  <2>1. Sends(fwd)
    BY <1>5 DEF Replaces
  <2>2. PICK h \in Numbers, table \in ApplyRules : \E parts \in Parts(table.items) :
          /\ payloads' = {Detached(p) : p \in payloads}
                         \cup {own(h, s, table.fails) : s \in parts \ {{}}}
          /\ data' = New
          /\ dropped' = dropped \cup (data.items \ table.items)
    BY <1>1, <1>5, <2>1 DEF HarvestByType
  <2> DEFINE mine(s) == own(h, s, table.fails)
  <2>3. PICK parts \in Parts(table.items) :
          payloads' = {Detached(p) : p \in payloads} \cup {mine(s) : s \in parts \ {{}}}
    BY <2>2
  <2>4. /\ UNION parts = table.items
        /\ \A s \in parts, r \in parts : s # r => s \cap r = {}
    BY PartsPartition
  <2>5. /\ table \in [items : SUBSET Nat, fails : Nat]
        /\ table.items \subseteq data.items
    BY <1>3, RulesKeep
  <2>6. \A s \in parts : mine(s) \in Payload /\ mine(s).items = s /\ ~mine(s).shared
    BY <1>4, <2>4, <2>5 DEF Payload
  <2>7. data'.items = {} /\ data' \in [items : SUBSET Nat, fails : Nat]
    BY <2>2 DEF New
  <2>8. ASSUME NEW p \in payloads
        PROVE  /\ Detached(p) \in Payload /\ ~Detached(p).shared
               /\ Detached(p).items = IF p.shared THEN data.items ELSE p.items
    <3>1. p \in Payload
      BY DEF DataInv, Held
    <3> QED BY <1>3, <3>1 DEF Detached, Payload
  <2> HIDE DEF own, mine
  <2>9. ASSUME NEW q \in payloads'
        PROVE  \/ \E p \in payloads : q = Detached(p)
               \/ \E s \in parts : q = mine(s)
    BY <2>3
  <2>10. ASSUME NEW q \in payloads'
         PROVE  q \in Payload /\ q.items \subseteq got /\ ~q.shared
    <3>1. CASE \E p \in payloads : q = Detached(p)
      BY <2>8, <3>1 DEF DataInv, Held
    <3>2. CASE \E s \in parts : q = mine(s)
      BY <2>4, <2>5, <2>6, <3>2 DEF DataInv, Held
    <3> QED BY <2>9, <3>1, <3>2
  <2>11. Held'
    BY <1>1, <1>2, <2>7, <2>10 DEF DataInv, Held
  <2>12. Apart'
    <3> SUFFICES ASSUME ~Keeping PROVE Apart'
      BY <1>2 DEF Apart
    <3>1. \A p \in payloads : Detached(p) = p
      BY DEF Detached, DataInv, Apart
    <3>2. ASSUME NEW q \in payloads'
          PROVE  q \in payloads \/ \E s \in parts : q = mine(s)
      BY <2>9, <3>1
    <3>3. ASSUME NEW q \in payloads'
          PROVE  q.items \cap sent = {}
      BY <2>4, <2>5, <2>6, <3>2 DEF DataInv, Apart
    <3>4. ASSUME NEW q \in payloads', NEW r \in payloads', q # r
          PROVE  q.items \cap r.items = {}
      <4>1. CASE q \in payloads /\ r \in payloads
        BY <3>4, <4>1 DEF DataInv, Apart
      <4>2. ASSUME NEW a \in payloads, NEW s \in parts
            PROVE  a.items \cap mine(s).items = {}
        BY <2>4, <2>5, <2>6 DEF DataInv, Apart
      <4>3. CASE (\E s \in parts : q = mine(s)) /\ (\E s \in parts : r = mine(s))
        BY <2>4, <2>6, <3>4, <4>3
      <4> QED BY <3>2, <4>1, <4>2, <4>3
    <3> QED BY <1>1, <2>7, <2>10, <3>3, <3>4 DEF Apart
  <2>13. NothingLost'
    <3>1. \A p \in payloads : ~p.shared => Detached(p) \in payloads' /\ Detached(p).items = p.items
      BY <2>3, <2>8
    <3>2. \A p \in payloads : p.items \subseteq UNION {q.items : q \in payloads'}
      BY <3>1 DEF DataInv, Held
    <3>3. \A s \in parts : s \subseteq UNION {q.items : q \in payloads'}
      BY <2>3, <2>6
    <3>4. data.items \subseteq dropped' \cup UNION {q.items : q \in payloads'}
      BY <2>2, <2>4, <3>3
    <3> QED BY <1>1, <2>2, <2>7, <3>2, <3>4 DEF DataInv, NothingLost
  <2> QED BY <2>11, <2>12, <2>13 DEF DataInv
<1>6. CASE ~Replaces(fwd)
  <2>1. PICK h \in Numbers :
          /\ UNCHANGED <<data, dropped>>
          /\ payloads' = payloads \cup
                         (IF Sends(fwd) /\ data.items # {} THEN {alias(h)} ELSE {})
    BY <1>1, <1>6 DEF HarvestByType
  <2>2. alias(h) \in Payload /\ alias(h).items = {} /\ alias(h).shared
    BY <1>4 DEF Payload
  <2> HIDE DEF alias
  <2>3. Held'
    BY <1>1, <1>2, <2>1, <2>2 DEF DataInv, Held
  <2>4. NothingLost'
    BY <1>1, <2>1 DEF DataInv, NothingLost
  <2>5. ASSUME ~Keeping PROVE payloads' = payloads
    <3>1. CASE custom
      <4>1. ~Sends(fwd)
        BY <1>6, <2>5, <3>1 DEF Replaces, Keeping
      <4> QED BY <2>1, <4>1
    <3>2. CASE ~custom
      <4>1. Members = {"all"}
        BY <3>2 DEF Members, Member
      <4>2. fwd = "all"
        BY <4>1 DEF DoHarvest, DataInv, Held
      <4> QED BY <1>6, <4>2 DEF Replaces, Sends
    <3> QED BY <3>1, <3>2
  <2>6. Apart'
    BY <1>1, <1>2, <2>1, <2>5 DEF DataInv, Apart
  <2> QED BY <2>3, <2>4, <2>6 DEF DataInv
<1> QED BY <1>5, <1>6

\* The steps of triggers and channels leave the data alone (app_harvest.go).
LEMMA DataNext == ASSUME DataInv, [Next]_vars PROVE DataInv'
<1>1. ASSUME UNCHANGED <<setting, collected>>, fwd' \in {fwd, "none"} \cup Members
      PROVE  DataInv'
  BY <1>1 DEF DataInv, Held, Apart, NothingLost, Keeping, Members, Member, setting, collected
<1>2. ASSUME NEW t \in HarvestType, Tick(t) \/ Forward(t) PROVE DataInv'
  BY <1>1, <1>2 DEF Tick, Forward
<1>3. CASE CancelGroup \/ CancelMember \/ ConfirmMember \/ CloseChannels
  BY <1>1, <1>3 DEF CancelGroup, CancelMember, ConfirmMember, CloseChannels
<1>4. CASE RemoveInactive
  BY <1>1, <1>4 DEF RemoveInactive
<1>5. CASE UNCHANGED vars
  BY <1>1, <1>5 DEF vars, channels
<1> QED BY <1>2, <1>3, <1>4, <1>5, DataProcessTxnData, DataDoHarvest, DataDeliver,
           DataProcessHarvestError DEF Next

\* Whatever is harvested, split, refused and merged, every transaction that was
\* aggregated is held, under way, accepted or given up (harvestByType).
THEOREM NothingIsLost == Spec => []NothingLost
<1>1. DataInv => NothingLost
  BY DEF DataInv
<1> QED BY <1>1, DataInit, DataNext, PTL DEF Spec

\* Nothing that the collector has accepted is sent again, but for the span
\* events of an application with periods of its own (processor.go:546).
THEOREM AcceptedOnce == Spec => []SentOnce
<1>1. DataInv => SentOnce
  BY DEF DataInv, Apart, Keeping, SentOnce
<1> QED BY <1>1, DataInit, DataNext, PTL DEF Spec

----------------------------------------------------------------------------
\* No metric table on its way has failed before, as far as it knows.
RetriesUncounted ==
  rules => data.fails <= 1 /\ \A p \in payloads : p.fails = 0

\* Only metrics have rules, and no payload of metrics is shared.
MetricRules == rules => kind = "metrics" /\ \A p \in payloads : ~p.shared

CountInv == DataInv /\ MetricRules /\ RetriesUncounted

\* A refused table is merged with its count, which is one; harvesting makes it
\* zero again (MergeFailed, ApplyRules).
LEMMA CountNext == ASSUME CountInv, [Next]_vars PROVE CountInv'
<1>1. DataInv'
  BY DataNext DEF CountInv
<1>2. rules' = rules /\ kind' = kind
  BY DEF Next, vars, setting, Tick, Forward, CancelGroup, CancelMember, ConfirmMember,
         CloseChannels, ProcessTxnData, DoHarvest, RemoveInactive, Deliver,
         ProcessHarvestError
<1> SUFFICES ASSUME rules PROVE (MetricRules /\ RetriesUncounted)'
  BY <1>1, <1>2 DEF CountInv, MetricRules, RetriesUncounted
<1>3. /\ kind = "metrics" /\ data.fails <= 1
      /\ \A p \in payloads : p \in Payload /\ ~p.shared /\ p.fails = 0
  BY DEF CountInv, MetricRules, RetriesUncounted, DataInv, Held
<1>4. ASSUME data'.fails <= 1, \A p \in payloads' : ~p.shared /\ p.fails = 0
      PROVE  (MetricRules /\ RetriesUncounted)'
  BY <1>2, <1>3, <1>4 DEF MetricRules, RetriesUncounted
<1>5. CASE UNCHANGED <<data, payloads>>
  BY <1>3, <1>4, <1>5
<1>6. ASSUME NEW n \in Txn, ProcessTxnData(n) PROVE (MetricRules /\ RetriesUncounted)'
  <2>1. data'.fails = data.fails /\ payloads' = payloads
    BY <1>6 DEF ProcessTxnData, Hold
  <2> QED BY <1>3, <1>4, <2>1
<1>7. CASE DoHarvest
  <2>1. CASE Replaces(fwd)
    <3>1. PICK h \in Numbers, table \in ApplyRules : \E parts \in Parts(table.items) :
            /\ payloads' = {Detached(p) : p \in payloads} \cup
                 {[h |-> h, items |-> s, fails |-> table.fails, shared |-> FALSE,
                   failed |-> FALSE] : s \in IF Sends(fwd) THEN parts \ {{}} ELSE {}}
            /\ data' = New
      BY <1>7, <2>1 DEF DoHarvest, HarvestByType
    <3>2. table.fails = 0
      BY RulesKeep DEF CountInv, DataInv, Held
    <3>3. \A p \in payloads : Detached(p) = p
      BY <1>3 DEF Detached
    <3>4. \A q \in payloads' : q \in payloads \/ (~q.shared /\ q.fails = 0)
      BY <3>1, <3>2, <3>3
    <3>5. data'.fails = 0
      BY <3>1 DEF New
    <3> QED BY <1>3, <1>4, <3>4, <3>5
  <2>2. CASE ~Replaces(fwd)
    <3>1. ~Sends(fwd)
      BY <1>3, <2>2 DEF Replaces
    <3>2. UNCHANGED <<data, payloads>>
      BY <1>7, <2>2, <3>1 DEF DoHarvest, HarvestByType
    <3> QED BY <1>5, <3>2
  <2> QED BY <2>1, <2>2
<1>8. ASSUME NEW p \in payloads, Deliver(p) PROVE (MetricRules /\ RetriesUncounted)'
  <2> DEFINE q == [p EXCEPT !.failed = TRUE]
  <2>1. ~q.shared /\ q.fails = 0
    BY <1>3 DEF Payload
  <2> HIDE DEF q
  <2>2. payloads' \subseteq payloads \cup {q} /\ data' = data
    BY <1>8 DEF Deliver, q
  <2> QED BY <1>3, <1>4, <2>1, <2>2
<1>9. ASSUME NEW p \in payloads, ProcessHarvestError(p)
      PROVE  (MetricRules /\ RetriesUncounted)'
  <2>1. payloads' \subseteq payloads
    BY <1>9 DEF ProcessHarvestError
  <2>2. data' = data \/ data'.fails = 1
    BY <1>3, <1>9 DEF ProcessHarvestError, FailedHarvest, Hold
  <2> QED BY <1>3, <1>4, <2>1, <2>2
<1> QED BY <1>5, <1>6, <1>7, <1>8, <1>9 DEF Next, vars, collected, Tick, Forward,
           CancelGroup, CancelMember, ConfirmMember, CloseChannels, RemoveInactive

\* Metrics that rules apply to are never known to have failed more than once:
\* MergeFailed, whose limit is at least one, does not discard them (metrics.go:153).
THEOREM RulesForgetFailures == Spec => []RetriesUncounted
<1>1. Init => CountInv
  <2> SUFFICES ASSUME Init PROVE CountInv
    OBVIOUS
  <2>1. rules => kind = "metrics"
    BY DEF Init
  <2>2. payloads = {} /\ data.fails = 0
    BY DEF Init, New
  <2> QED BY <2>1, <2>2, DataInit DEF CountInv, MetricRules, RetriesUncounted
<1>2. CountInv => RetriesUncounted
  BY DEF CountInv
<1> QED BY <1>1, <1>2, CountNext, PTL DEF Spec
=============================================================================
