------------------------------- MODULE Harvest -------------------------------
(***************************************************************************)
(* One run of an application in the daemon: the goroutines and channels    *)
(* that trigger its harvests (harvest_trigger.go, app_harvest.go), and the *)
(* data it gathers, sends and takes back when the collector refuses it     *)
(* (processor.go, harvest.go, analytics_events.go, metrics.go). The kinds  *)
(* of data do not interact: a behaviour follows one of them. Module        *)
(* Processor has the tables the run is part of.                            *)
(***************************************************************************)
EXTENDS Naturals, Sequences, FiniteSets

CONSTANTS
  Kind,       \* the kinds of data that are looked at
  MaxTxns,    \* bounds on the transactions with data of each kind
  Group,      \* the triggers of a group, in order, to follow with each kind
  Cap,        \* the capacity of each kind's collection
  FailLimit,  \* FailedEventsAttemptsLimit, FailedMetricAttemptsLimit
  SplitAt,    \* half of MaxTxnEvents
  MaxHarvests \* bound on the harvests with payloads under way

\* Kinds with a period of their own, the ones harvested as default data, and the
\* ones a refused payload of which is merged into the next harvest.
EventKind == {"txn_events", "custom_events", "error_events", "span_events"}
DefaultKind == {"metrics", "errors", "slow_sqls", "txn_traces"}
Saved == EventKind \cup {"metrics"}

Txn == UNION {1..MaxTxns[k] : k \in Kind}

ASSUME HarvestAssumption ==
  /\ Kind \subseteq EventKind \cup DefaultKind
  /\ MaxTxns \in [Kind -> Nat] /\ Cap \in [Kind -> Nat] /\ FailLimit \in Nat
  /\ Group \in [Kind -> Seq({"default"} \cup EventKind)]
  /\ SplitAt \in Nat \ {0} /\ MaxHarvests \in Nat

VARIABLES
  custom,    \* the collector asked for periods of their own
  split,     \* distributed tracing is on: large payloads are split
  rules,     \* the collector gave rules to rename metrics
  kind,      \* the kind of data
  trig,      \* of each trigger goroutine: where it is
  fwd,       \* the type the forwarding goroutine wants to hand over, or "none"
  closer,    \* the goroutine of Close
  turn,      \* the member of the group that is cancelled next
  open,      \* the processor knows the run
  got,       \* transactions that were aggregated
  data,      \* what the harvest holds, and its failed attempts
  payloads,  \* goroutines that send a payload (items, fails) of harvest h or,
             \* if failed, wait to report an error; shared: the payload is the
             \* collection the harvest still adds to, with nothing of its own
  sent,      \* what the collector has accepted with no error
  dropped    \* what was given up

setting == <<custom, split, rules, kind>>
channels == <<trig, fwd, closer, turn>>
collected == <<got, data, payloads, sent, dropped>>
vars == <<setting, open, channels, collected>>

\* One trigger for everything, or one for each period: default, txn_events,
\* custom_events, error_events and span_events, in this order.
Member ==
  IF custom THEN Group[kind] ELSE <<"all">>

HarvestType == {"all"} \cup UNION {{Group[k][i] : i \in DOMAIN Group[k]} : k \in Kind}

Members == {Member[i] : i \in DOMAIN Member}

New == [items |-> {}, fails |-> 0]

----------------------------------------------------------------------------
Init ==
  /\ custom \in BOOLEAN /\ kind \in Kind
  /\ split \in IF kind = "txn_events" THEN BOOLEAN ELSE {FALSE}
  /\ rules \in IF kind = "metrics" THEN BOOLEAN ELSE {FALSE}
  /\ trig = [t \in Members |-> "select"]
  /\ fwd = "none" /\ closer = "none" /\ turn = 1
  /\ open = TRUE
  /\ got = {} /\ data = New /\ payloads = {}
  /\ sent = {} /\ dropped = {}

\* A ticker fires; the goroutine leaves its select to send on the channel.
Tick(t) ==
  /\ t \in Members /\ trig[t] = "select"
  /\ trig' = [trig EXCEPT ![t] = "send"]
  /\ UNCHANGED <<setting, open, fwd, closer, turn, collected>>

\* Mutant: nothing is forwarded once the run is being closed.
ForwardUntilClosing(t) ==
  /\ t \in Members /\ trig[t] = "send" /\ fwd = "none" /\ closer = "none"
  /\ fwd' = t /\ trig' = [trig EXCEPT ![t] = "select"]
  /\ UNCHANGED <<setting, open, closer, turn, collected>>

\* The forwarding goroutine receives it (the channels have no buffer).
Forward(t) ==
  /\ t \in Members /\ trig[t] = "send" /\ fwd = "none" /\ closer # "closed"
  /\ fwd' = t /\ trig' = [trig EXCEPT ![t] = "select"]
  /\ UNCHANGED <<setting, open, closer, turn, collected>>

\* Close hands its message to the goroutine that broadcasts to the group. A
\* single trigger has no such goroutine and takes the message itself.
CancelGroup ==
  /\ closer = "cancel"
  /\ closer' = "waiting"
  /\ UNCHANGED <<setting, open, trig, fwd, turn, collected>>

\* A member receives the message in its select and stops its ticker.
CancelMember ==
  /\ closer = "waiting" /\ turn <= Len(Member)
  /\ trig[Member[turn]] = "select"
  /\ trig' = [trig EXCEPT ![Member[turn]] = "confirm"]
  /\ UNCHANGED <<setting, open, fwd, closer, turn, collected>>

ConfirmMember ==
  /\ closer = "waiting" /\ turn <= Len(Member)
  /\ trig[Member[turn]] = "confirm"
  /\ trig' = [trig EXCEPT ![Member[turn]] = "done"]
  /\ turn' = turn + 1
  /\ UNCHANGED <<setting, open, fwd, closer, collected>>

\* Mutant: the channels are closed before the last member has confirmed.
CloseChannelsEarly ==
  /\ closer = "waiting" /\ turn >= Len(Member)
  /\ closer' = "closed"
  /\ UNCHANGED <<setting, open, trig, fwd, turn, collected>>

\* Every member has confirmed: Close closes the channels.
CloseChannels ==
  /\ closer = "waiting" /\ turn > Len(Member)
  /\ closer' = "closed"
  /\ UNCHANGED <<setting, open, trig, fwd, turn, collected>>

----------------------------------------------------------------------------
\* The processor. shutdownAppHarvest starts Close in a goroutine.
ShutdownAppHarvest ==
  IF open
  THEN /\ open' = FALSE
       /\ closer' = IF custom THEN "cancel" ELSE "waiting"
  ELSE UNCHANGED <<open, closer>>

\* Additions to a collection that is full leave any of the elements out: the
\* ones of lowest priority.
Fit(items) ==
  IF Cardinality(items) <= Cap[kind] THEN {items}
  ELSE {s \in SUBSET items : Cardinality(s) = Cap[kind]}

Hold(items, fails) ==
  \E fit \in Fit(items) :
    /\ data' = [items |-> fit, fails |-> fails]
    /\ dropped' = dropped \cup (items \ fit)

ProcessTxnData(n) ==
  /\ open /\ n = Cardinality(got) + 1 /\ n <= MaxTxns[kind]
  /\ got' = got \cup {n}
  /\ Hold(data.items \cup {n}, data.fails)
  /\ UNCHANGED <<setting, open, channels, payloads, sent>>

\* Rules copy the metrics to a new table: its count of failed attempts is zero,
\* and if the old one was full it may have no room for some of them, since the
\* metrics of the daemon itself are copied with them, in any order.
ApplyRules ==
  LET full == Cardinality(data.items) >= Cap[kind]
  IN IF rules THEN [items : IF full THEN SUBSET data.items ELSE {data.items}, fails : {0}]
     ELSE {data}

\* The parts a collection is sent in: large ones of transaction events are split.
Parts(items) ==
  LET n == Cardinality(items)
      halves == {s \in SUBSET items : Cardinality(s) = n \div 2}
  IN IF kind = "txn_events" /\ split /\ n >= SplitAt
     THEN {{h, items \ h} : h \in halves} ELSE {{items}}

\* Whether a harvest of type t sends the data, and whether it starts anew. The
\* default data is sent with the span events, which are not replaced.
Sends(t) ==
  \/ t = "all"
  \/ t = "default" /\ kind \in DefaultKind \cup {"span_events"}
  \/ t = kind /\ Cap[kind] # 0

\* Mutant: the default data does not replace what it sends.
ReplacesOwn(t) == t \in {"all", kind}
\* Mutant: the default data replaces all that there is.
ReplacesAll(t) == Sends(t) \/ t = "default"

Replaces(t) == Sends(t) /\ ~(t = "default" /\ kind = "span_events")

\* A payload that shared the collection keeps it when the harvest gets a new one.
Detached(p) ==
  IF p.shared THEN [p EXCEPT !.shared = FALSE, !.items = data.items, !.fails = data.fails]
  ELSE p

\* A number for a harvest: the first that no payload under way has.
Numbers ==
  LET taken == {p.h : p \in payloads}
  IN {h \in (1..MaxHarvests) \ taken : 1..(h - 1) \subseteq taken}

\* Nothing is sent of a collection that is empty.
HarvestByType(t) ==
  \E h \in Numbers :
    LET own(s, n) == [h |-> h, items |-> s, fails |-> n, shared |-> FALSE, failed |-> FALSE]
        alias == [h |-> h, items |-> {}, fails |-> 0, shared |-> TRUE, failed |-> FALSE]
    IN IF Replaces(t)
       THEN \E table \in ApplyRules : \E parts \in Parts(table.items) :
              /\ payloads' = {Detached(p) : p \in payloads} \cup
                   {own(s, table.fails) : s \in IF Sends(t) THEN parts \ {{}} ELSE {}}
              /\ data' = New
              /\ dropped' = dropped \cup (data.items \ table.items)
       ELSE /\ payloads' = payloads \cup
                 (IF Sends(t) /\ data.items # {} THEN {alias} ELSE {})
            /\ UNCHANGED <<data, dropped>>

\* The event of a trigger reaches the processor, which does not look whether it
\* still has the run.
DoHarvest ==
  /\ fwd # "none" /\ fwd' = "none"
  /\ HarvestByType(fwd)
  /\ UNCHANGED <<setting, open, trig, closer, turn, got, sent>>

\* The same when no agent has asked about the application for too long.
RemoveInactive ==
  /\ fwd # "none" /\ fwd' = "none"
  /\ ShutdownAppHarvest
  /\ UNCHANGED <<setting, trig, turn, collected>>

\* The collector accepts a payload, or its goroutine waits to report an error.
\* A shared collection is read while the processor may be adding to it.
Deliver(p) ==
  /\ p \in payloads /\ ~p.failed
  /\ \/ /\ payloads' = payloads \ {p}
        /\ \E s \in IF p.shared THEN SUBSET data.items ELSE {p.items} :
             sent' = sent \cup s
     \/ /\ payloads' = (payloads \ {p}) \cup {[p EXCEPT !.failed = TRUE]}
        /\ UNCHANGED sent
  /\ UNCHANGED <<setting, open, channels, got, data, dropped>>

\* What is lost with a payload: nothing when the harvest still has it.
GiveUp(p) == dropped' = dropped \cup p.items

\* Mutant: the attempts are not counted.
FailedHarvestUncounted(p) ==
  IF kind \notin Saved THEN GiveUp(p) /\ UNCHANGED data
  ELSE Hold(data.items \cup p.items, 0)

\* The data of a payload goes back into the harvest, unless it failed too often
\* or is of a kind that is not kept. The count of the payload replaces the
\* harvest's own. Of a shared collection, merged into itself, only the count
\* changes here: how often an event is in it is not kept.
FailedHarvest(p) ==
  LET fails == 1 + (IF p.shared THEN data.fails ELSE p.fails)
  IN IF kind \notin Saved \/ fails > FailLimit
     THEN GiveUp(p) /\ UNCHANGED data
     ELSE Hold(data.items \cup p.items, fails)

\* The run has ended, the error ends it, the payload was too large, or the data
\* is kept for the next time.
ProcessHarvestError(p) ==
  /\ p \in payloads /\ p.failed /\ payloads' = payloads \ {p}
  /\ \/ ~open /\ GiveUp(p) /\ UNCHANGED <<open, closer, data>>
     \/ open /\ ShutdownAppHarvest /\ GiveUp(p) /\ UNCHANGED data
     \/ open /\ GiveUp(p) /\ UNCHANGED <<open, closer, data>>
     \/ open /\ FailedHarvest(p) /\ UNCHANGED <<open, closer>>
  /\ UNCHANGED <<setting, trig, fwd, turn, got, sent>>

Next ==
  \/ \E t \in HarvestType : Tick(t) \/ Forward(t)
  \/ CancelGroup \/ CancelMember \/ ConfirmMember \/ CloseChannels
  \/ \E n \in Txn : ProcessTxnData(n)
  \/ DoHarvest \/ RemoveInactive
  \/ \E p \in payloads : Deliver(p) \/ ProcessHarvestError(p)

Spec == Init /\ [][Next]_vars

\* Tickers fire, goroutines run, and calls to the collector return. A channel
\* serves its senders in order, and a select takes each ready case some time:
\* hence strong fairness for what waits for a goroutine to come back to one.
FairSpec ==
  /\ Spec
  /\ \A t \in HarvestType : WF_vars(Tick(t)) /\ SF_vars(Forward(t))
  /\ WF_vars(CancelGroup) /\ SF_vars(CancelMember)
  /\ WF_vars(ConfirmMember) /\ WF_vars(CloseChannels)
  /\ WF_vars(DoHarvest \/ RemoveInactive)
  /\ WF_vars(\E p \in payloads : Deliver(p) \/ ProcessHarvestError(p))

----------------------------------------------------------------------------
\* Every transaction the processor aggregated is still in the harvest,
\* on its way to the collector, accepted, or given up for one of the
\* reasons the code has: no harvest by type and no merge loses data
\* (processor.go:497).
NothingLost ==
  got \subseteq data.items \cup sent \cup dropped \cup UNION {p.items : p \in payloads}

\* What the collector has accepted is neither in the harvest nor in a payload,
\* and so not sent twice, whatever failed and was merged again; except for span
\* events when they have a period of their own (processor.go:546).
SentOnce ==
  ~(custom /\ kind = "span_events")
    => sent \cap (data.items \cup UNION {p.items : p \in payloads}) = {}

\* No trigger can send on the channel once it is closed, which would end the
\* daemon: Close waits for every member of the group (app_harvest.go:50).
NoSendAfterClose ==
  closer = "closed" => \A t \in Members : trig[t] = "done"

\* A run that is shut down comes to its end: every trigger is stopped, also one
\* that waits to hand over its event, and the channels are closed
\* (processor.go:237).
Over ==
  closer = "closed" /\ fwd = "none" /\ \A t \in Members : trig[t] = "done"
CloseEnds == ~open ~> Over

\* In a run that stays open and, as MaxTxns has it, gets no more transactions,
\* data does not stay for ever even when the collector never accepts anything:
\* the count of failed attempts ends every retry (analytics_events.go:132);
\* except for metrics that rules apply to, whose count starts again with every
\* harvest (metrics.go:364).
EventuallySettled ==
  \A n \in Txn : n \in got /\ ~rules ~> (n \in sent \cup dropped \/ ~open)
=============================================================================
