-------------------------- MODULE TxnRecordProofs --------------------------
(***************************************************************************)
(* Proofs that what a transaction keeps agrees with the calls made on it,  *)
(* for any keys, metrics, priorities, options, payloads and limits and any *)
(* number of calls (module TxnRecord). Each property is inductive once it  *)
(* is known how the flags of the transaction follow from the history.      *)
(***************************************************************************)
EXTENDS TxnRecord, TLAPS

\* A leaf is given to Zenon for a second, to the SMT solver, and to both again.
USE ZenonT(1), SMTT(60), ZenonT(60), SMTT(90)

Arg == Int \cup Key \cup Metric \cup {Nil}

CallRecord == [op : CallName, arg : Arg, ok : BOOLEAN]

Ignored == \E j \in DOMAIN hist : hist[j].op = "ignore"

\* While it is active a transaction records unless it was ignored.
HistInv ==
  /\ hist \in Seq(CallRecord)
  /\ phase = "active" => recording = ~Ignored

\* The path is the last one given, or the one at the start, and frozen only at
\* the end.
PathInv ==
  /\ IF NamesGiven(hist) = {} THEN pathType \in {0, 3} /\ path = 0
     ELSE /\ pathType = 5 /\ path \in NamesGiven(hist)
          /\ \A i \in NamesGiven(hist) : i <= path
  /\ phase = "active" => name = Nil

\* The error kept is a record, and errors are noticed with a number.
ErrorInv ==
  /\ error = Nil \/ error \in ErrorRecord
  /\ \A i \in DOMAIN hist : hist[i].op = "error" => hist[i].arg \in Int
  /\ ErrorIsHighest

\* Attributes are held for finitely many keys, each with the number of a call.
AttributesInv ==
  /\ attrs \in [Key -> Nat \cup {Nil}]
  /\ IsFiniteSet(Held)
  /\ AttributesAgree

\* The events recorded, of which the reservoir holds a sample, are finitely
\* many.
ReservoirInv ==
  /\ seen \in Nat
  /\ events \in Seq(Nat)
  /\ IsFiniteSet(Taken)
  /\ ReservoirIsSample

\* An outbound payload leaves its mark in the metrics, whatever their limit.
MarkInv == payloads # {} => "create_success" \in metrics

----------------------------------------------------------------------------
\* The history

\* What Append does to a sequence.
LEMMA Appended ==
  ASSUME NEW S, NEW s \in Seq(S), NEW e \in S
  PROVE  /\ Append(s, e) \in Seq(S)
         /\ Len(s) \in Nat /\ Len(Append(s, e)) = Len(s) + 1
         /\ DOMAIN s = 1..Len(s)
         /\ DOMAIN Append(s, e) = DOMAIN s \cup {Len(s) + 1}
         /\ \A i \in DOMAIN s : Append(s, e)[i] = s[i]
         /\ Append(s, e)[Len(s) + 1] = e
OBVIOUS

\* A call is added at the end of the history and leaves the rest alone.
LEMMA Made ==
  ASSUME hist \in Seq(CallRecord),
         NEW op, NEW arg \in Arg, NEW ok \in BOOLEAN, Called(op, arg, ok)
  PROVE  /\ ThisCall \in Nat \ {0}
         /\ hist' \in Seq(CallRecord)
         /\ DOMAIN hist' = DOMAIN hist \cup {ThisCall}
         /\ \A i \in DOMAIN hist : /\ hist'[i] = hist[i]
                                   /\ i \in Nat /\ i < ThisCall /\ i # ThisCall
         /\ hist'[ThisCall].op = op
         /\ hist'[ThisCall].arg = arg
         /\ hist'[ThisCall].ok = ok
         /\ phase = "active"
<1> DEFINE e == [op |-> op, arg |-> arg, ok |-> ok]
<1>1. op \in CallName /\ e \in CallRecord
  BY RecordAssumption DEF Called, CallRecord
<1>2. hist' = Append(hist, e) /\ phase = "active"
  BY DEF Called
<1>3. e.op = op /\ e.arg = arg /\ e.ok = ok
  OBVIOUS
<1> HIDE DEF e
<1>4. /\ hist' \in Seq(CallRecord)
      /\ Len(hist) \in Nat /\ DOMAIN hist = 1..Len(hist)
      /\ DOMAIN hist' = DOMAIN hist \cup {Len(hist) + 1}
      /\ \A i \in DOMAIN hist : hist'[i] = hist[i]
      /\ hist'[Len(hist) + 1] = e
  BY <1>1, <1>2, Appended
<1>5. \A i \in DOMAIN hist : i \in Nat /\ i < ThisCall /\ i # ThisCall
  BY <1>4 DEF ThisCall
<1>6. ThisCall \in Nat \ {0}
  BY <1>4 DEF ThisCall
<1>7. QED
  BY <1>2, <1>3, <1>4, <1>5, <1>6 DEF ThisCall

\* What a call adds to the calls of a kind that took their argument.
LEMMA CallsMade ==
  ASSUME hist \in Seq(CallRecord), NEW o,
         NEW op, NEW arg \in Arg, NEW ok \in BOOLEAN, Called(op, arg, ok)
  PROVE  Calls(hist', o) =
           IF op = o /\ ok THEN Calls(hist, o) \cup {ThisCall}
                           ELSE Calls(hist, o)
<1>1. /\ DOMAIN hist' = DOMAIN hist \cup {ThisCall}
      /\ \A i \in DOMAIN hist : hist'[i] = hist[i] /\ i # ThisCall
      /\ hist'[ThisCall].op = op /\ hist'[ThisCall].ok = ok
  BY Made
<1>2. QED
  BY <1>1 DEF Calls

\* What a call adds to those of a kind that were recorded: itself, if the
\* transaction was not ignored before.
LEMMA RecordedMade ==
  ASSUME hist \in Seq(CallRecord), NEW o, o # "ignore",
         NEW op, NEW arg \in Arg, NEW ok \in BOOLEAN, Called(op, arg, ok)
  PROVE  Recorded(hist', o) =
           IF op = o /\ ok /\ ~Ignored THEN Recorded(hist, o) \cup {ThisCall}
                                       ELSE Recorded(hist, o)
<1>1. /\ DOMAIN hist' = DOMAIN hist \cup {ThisCall}
      /\ \A i \in DOMAIN hist : /\ hist'[i] = hist[i]
                                /\ i \in Nat /\ i < ThisCall
      /\ hist'[ThisCall].op = op /\ ThisCall \in Nat
  BY Made
<1>2. Calls(hist', o) = IF op = o /\ ok THEN Calls(hist, o) \cup {ThisCall}
                                        ELSE Calls(hist, o)
  BY CallsMade
<1>3. Calls(hist, o) \subseteq DOMAIN hist
  BY DEF Calls
<1>4. ASSUME NEW i \in Calls(hist, o)
      PROVE  i \in Recorded(hist', o) <=> i \in Recorded(hist, o)
  <2>1. i < ThisCall /\ i \in Calls(hist', o) /\ i \in DOMAIN hist
    BY <1>1, <1>2, <1>3
  <2>2. (\A j \in DOMAIN hist' : hist'[j].op = "ignore" => i < j)
        <=> (\A j \in DOMAIN hist : hist[j].op = "ignore" => i < j)
    BY <1>1, <2>1
  <2>3. QED
    BY <2>1, <2>2 DEF Recorded
<1>5. ASSUME op = o, ok
      PROVE  ThisCall \in Recorded(hist', o) <=> ~Ignored
  <2>1. ThisCall \in Calls(hist', o)
    BY <1>2, <1>5
  <2>2. (\A j \in DOMAIN hist' : hist'[j].op = "ignore" => ThisCall < j)
        <=> (\A j \in DOMAIN hist : hist[j].op # "ignore")
    BY <1>1, <1>5
  <2>3. QED
    BY <2>1, <2>2 DEF Recorded, Ignored
<1>6. /\ Recorded(hist', o) \subseteq Calls(hist', o)
      /\ Recorded(hist, o) \subseteq Calls(hist, o)
  BY DEF Recorded
<1>7. CASE op = o /\ ok
  <2>1. Calls(hist', o) = Calls(hist, o) \cup {ThisCall}
    BY <1>2, <1>7
  <2>2. ThisCall \in Recorded(hist', o) <=> ~Ignored
    BY <1>5, <1>7
  <2>3. CASE Ignored
    <3>1. Recorded(hist', o) = Recorded(hist, o)
      BY <1>4, <1>6, <2>1, <2>2, <2>3
    <3>2. QED
      BY <2>3, <3>1
  <2>4. CASE ~Ignored
    <3>1. Recorded(hist', o) = Recorded(hist, o) \cup {ThisCall}
      BY <1>4, <1>6, <2>1, <2>2, <2>4
    <3>2. QED
      BY <1>7, <2>4, <3>1
  <2>5. QED
    BY <2>3, <2>4
<1>8. CASE ~(op = o /\ ok)
  BY <1>2, <1>4, <1>6, <1>8
<1>9. QED
  BY <1>7, <1>8

\* Recorded calls are calls of their kind, at places of the history.
LEMMA RecordedCalls ==
  ASSUME hist \in Seq(CallRecord), NEW o
  PROVE  /\ Recorded(hist, o) \subseteq DOMAIN hist
         /\ \A i \in DOMAIN hist : i \in Nat
         /\ \A i \in Recorded(hist, o) : hist[i].op = o
BY DEF Recorded, Calls

\* A call of some kind is added, with an argument of those calls have.
Adds(op) == \E arg \in Arg, ok \in BOOLEAN : Called(op, arg, ok)

\* Which call each of the operations adds.
LEMMA WhatIsAdded ==
  ASSUME hist \in Seq(CallRecord)
  PROVE  /\ \A given \in BOOLEAN : SetTransactionName(given) => Adds("name")
         /\ IgnoreTransaction => Adds("ignore")
         /\ \A p \in Priority, given \in BOOLEAN :
              NoticeError(p, given) => Adds("error")
         /\ \A k \in Key \cup {Nil}, valid \in BOOLEAN :
              AddAttribute(k, valid) => Adds("attribute")
         /\ \A m \in Metric, finite \in BOOLEAN :
              RecordCustomMetric(m, finite) => Adds("metric")
         /\ \A valid \in BOOLEAN : RecordCustomEvent(valid) => Adds("event")
         /\ \A own \in BOOLEAN : CreatePayload(own) => Adds("create")
         /\ \A p \in Inbound, transport \in Transport :
              AcceptPayload(p, transport) => Adds("accept")
         /\ \A transport \in Transport :
              AcceptUndecodable(transport) => Adds("accept")
<1>1. ThisCall \in Arg /\ Nil \in Arg /\ Key \subseteq Arg
      /\ Metric \subseteq Arg /\ Priority \subseteq Arg
  BY RecordAssumption DEF ThisCall, Arg
<1>2. ASSUME NEW given \in BOOLEAN, SetTransactionName(given)
      PROVE  Adds("name")
  BY <1>1, <1>2 DEF SetTransactionName, Adds
<1>3. ASSUME IgnoreTransaction PROVE Adds("ignore")
  BY <1>1, <1>3 DEF IgnoreTransaction, Adds
<1>4. ASSUME NEW p \in Priority, NEW given \in BOOLEAN, NoticeError(p, given)
      PROVE  Adds("error")
  BY <1>1, <1>4 DEF NoticeError, Adds
<1>5. ASSUME NEW k \in Key \cup {Nil}, NEW valid \in BOOLEAN,
             AddAttribute(k, valid)
      PROVE  Adds("attribute")
  BY <1>1, <1>5 DEF AddAttribute, AddAttributeInternal, Adds
<1>6. ASSUME NEW m \in Metric, NEW finite \in BOOLEAN,
             RecordCustomMetric(m, finite)
      PROVE  Adds("metric")
  BY <1>1, <1>6 DEF RecordCustomMetric, Adds
<1>7. ASSUME NEW valid \in BOOLEAN, RecordCustomEvent(valid)
      PROVE  Adds("event")
  BY <1>1, <1>7 DEF RecordCustomEvent, Adds
<1>8. ASSUME NEW own \in BOOLEAN, CreatePayload(own)
      PROVE  Adds("create")
  BY <1>1, <1>8 DEF CreatePayload, Adds
<1>9. ASSUME NEW p \in Inbound, NEW transport \in Transport,
             AcceptPayload(p, transport)
      PROVE  Adds("accept")
  BY <1>1, <1>9 DEF AcceptPayload, Adds
<1>10. ASSUME NEW transport \in Transport, AcceptUndecodable(transport)
       PROVE  Adds("accept")
  BY <1>1, <1>10 DEF AcceptUndecodable, Adds
<1>11. QED
  BY <1>2, <1>3, <1>4, <1>5, <1>6, <1>7, <1>8, <1>9, <1>10

\* No call, or one of another kind than o.
Quiet(o) == hist' = hist \/ \E op \in CallName \ {o} : Adds(op)

\* Which operations touch what: all others leave it and are quiet about it.
LEMMA Frame ==
  ASSUME hist \in Seq(CallRecord), [Next]_vars
  PROVE  /\ opt' = opt
         /\ \/ IgnoreTransaction
            \/ \E found, ruled, delivered \in BOOLEAN :
                 EndTransaction(found, ruled, delivered)
            \/ UNCHANGED <<phase, recording>> /\ Quiet("ignore")
         /\ \/ \E given \in BOOLEAN : SetTransactionName(given)
            \/ \E found, ruled, delivered \in BOOLEAN :
                 EndTransaction(found, ruled, delivered)
            \/ UNCHANGED <<pathType, path, name, phase>> /\ Quiet("name")
         /\ \/ \E p \in Priority, given \in BOOLEAN : NoticeError(p, given)
            \/ UNCHANGED error /\ Quiet("error")
         /\ \/ \E k \in Key \cup {Nil}, valid \in BOOLEAN :
                 AddAttribute(k, valid)
            \/ UNCHANGED <<attrs, numUser>> /\ Quiet("attribute")
         /\ \/ \E valid \in BOOLEAN : RecordCustomEvent(valid)
            \/ UNCHANGED <<seen, events>> /\ Quiet("event")
<1>1. CASE UNCHANGED vars
  BY <1>1 DEF vars, Quiet
<1>2. CASE IgnoreTransaction
  BY <1>2, WhatIsAdded DEF IgnoreTransaction, Quiet, CallName
<1>3. CASE \E given \in BOOLEAN : SetTransactionName(given)
  BY <1>3, WhatIsAdded DEF SetTransactionName, Quiet, CallName
<1>4. CASE \E p \in Priority, given \in BOOLEAN : NoticeError(p, given)
  BY <1>4, WhatIsAdded DEF NoticeError, Quiet, CallName
<1>5. CASE \E k \in Key \cup {Nil}, valid \in BOOLEAN : AddAttribute(k, valid)
  BY <1>5, WhatIsAdded DEF AddAttribute, Quiet, CallName
<1>6. CASE \E m \in Metric, finite \in BOOLEAN : RecordCustomMetric(m, finite)
  BY <1>6, WhatIsAdded DEF RecordCustomMetric, Quiet, CallName
<1>7. CASE \E valid \in BOOLEAN : RecordCustomEvent(valid)
  BY <1>7, WhatIsAdded DEF RecordCustomEvent, Quiet, CallName
<1>8. CASE \E own \in BOOLEAN : CreatePayload(own)
  BY <1>8, WhatIsAdded DEF CreatePayload, Quiet, CallName
<1>9. CASE \E p \in Inbound, transport \in Transport :
             AcceptPayload(p, transport)
  BY <1>9, WhatIsAdded DEF AcceptPayload, Quiet, CallName
<1>10. CASE \E transport \in Transport : AcceptUndecodable(transport)
  BY <1>10, WhatIsAdded DEF AcceptUndecodable, Quiet, CallName
<1>11. CASE \E found, ruled, delivered \in BOOLEAN :
             EndTransaction(found, ruled, delivered)
  BY <1>11, WhatIsAdded DEF EndTransaction, Quiet, CallName
<1>12. QED
  BY <1>1, <1>2, <1>3, <1>4, <1>5, <1>6, <1>7, <1>8, <1>9, <1>10, <1>11
     DEF Next

----------------------------------------------------------------------------
\* Recording

\* The transaction records until newrelic_ignore_transaction or
\* newrelic_end_transaction.
LEMMA HistNext ==
  ASSUME HistInv, [Next]_vars
  PROVE  HistInv'
<1>1. CASE IgnoreTransaction
  <2>1. PICK arg \in Arg, ok \in BOOLEAN : Called("ignore", arg, ok)
    BY <1>1, WhatIsAdded DEF HistInv, Adds
  <2>2. /\ hist' \in Seq(CallRecord)
        /\ ThisCall \in DOMAIN hist'
        /\ hist'[ThisCall].op = "ignore"
    BY <2>1, Made DEF HistInv
  <2>3. Ignored' /\ recording' = FALSE
    BY <1>1, <2>2 DEF Ignored, IgnoreTransaction
  <2>4. QED
    BY <2>2, <2>3 DEF HistInv
<1>2. CASE \E found, ruled, delivered \in BOOLEAN :
             EndTransaction(found, ruled, delivered)
  BY <1>2 DEF EndTransaction, HistInv
<1>3. CASE UNCHANGED <<phase, recording, hist>>
  BY <1>3 DEF HistInv, Ignored
<1>4. ASSUME NEW op \in CallName \ {"ignore"}, Adds(op),
             UNCHANGED <<phase, recording>>
      PROVE  HistInv'
  <2>1. PICK arg \in Arg, ok \in BOOLEAN : Called(op, arg, ok)
    BY <1>4 DEF Adds
  <2>2. /\ hist' \in Seq(CallRecord)
        /\ DOMAIN hist' = DOMAIN hist \cup {ThisCall}
        /\ \A i \in DOMAIN hist : hist'[i] = hist[i]
        /\ hist'[ThisCall].op = op
    BY <2>1, Made DEF HistInv
  <2>3. Ignored' <=> Ignored
    BY <2>2 DEF Ignored
  <2>4. QED
    BY <1>4, <2>2, <2>3 DEF HistInv
<1>5. QED
  BY <1>1, <1>2, <1>3, <1>4, Frame DEF HistInv, Quiet

\* The history and the recording flag agree in every state.
LEMMA HistAlways == Spec => []HistInv
<1>1. ASSUME Init PROVE HistInv
  <2>1. hist = <<>> /\ recording = TRUE
    BY <1>1 DEF Init
  <2>2. hist \in Seq(CallRecord) /\ DOMAIN hist = {}
    BY <2>1
  <2>3. QED
    BY <2>1, <2>2 DEF HistInv, Ignored
<1>2. HistInv /\ [Next]_vars => HistInv'
  BY HistNext
<1>3. QED
  BY <1>1, <1>2, PTL DEF Spec

----------------------------------------------------------------------------
\* The name

\* Calls that give no name leave the path.
LEMMA PathStays ==
  ASSUME HistInv, PathInv,
         Quiet("name"), UNCHANGED <<pathType, path, name, phase>>
  PROVE  PathInv'
<1>1. NamesGiven(hist') = NamesGiven(hist)
  <2>1. CASE hist' = hist
    BY <2>1
  <2>2. ASSUME NEW op \in CallName \ {"name"}, Adds(op)
        PROVE  NamesGiven(hist') = NamesGiven(hist)
    <3>1. PICK arg \in Arg, ok \in BOOLEAN : Called(op, arg, ok)
      BY <2>2 DEF Adds
    <3>2. /\ DOMAIN hist' = DOMAIN hist \cup {ThisCall}
          /\ \A i \in DOMAIN hist : hist'[i] = hist[i]
          /\ hist'[ThisCall].op # "name"
      BY <3>1, Made DEF HistInv
    <3>3. QED
      BY <3>2 DEF NamesGiven
  <2>3. QED
    BY <2>1, <2>2 DEF Quiet
<1>2. QED
  BY <1>1 DEF PathInv

\* A call of newrelic_set_transaction_name makes its name the path, or is
\* refused.
LEMMA PathSet ==
  ASSUME HistInv, PathInv, NEW given \in BOOLEAN, SetTransactionName(given)
  PROVE  PathInv'
<1>1. pathType \in {0, 3, 5}
  BY DEF PathInv
<1>2. SetPathAllowed(5)
  BY <1>1 DEF SetPathAllowed
<1>3. Called("name", IF given THEN ThisCall ELSE Nil, given)
  BY <1>2 DEF SetTransactionName
<1>4. /\ pathType' = IF given THEN 5 ELSE pathType
      /\ path' = IF given THEN ThisCall ELSE path
      /\ name' = name /\ phase' = phase
  BY <1>2 DEF SetTransactionName
<1>5. (IF given THEN ThisCall ELSE Nil) \in Arg
  BY DEF Arg, ThisCall, HistInv
<1>6. /\ DOMAIN hist' = DOMAIN hist \cup {ThisCall}
      /\ \A i \in DOMAIN hist : /\ hist'[i] = hist[i]
                                /\ i \in Nat /\ i < ThisCall
      /\ hist'[ThisCall].op = "name"
      /\ hist'[ThisCall].arg = IF given THEN ThisCall ELSE Nil
      /\ ThisCall \in Nat \ {0}
  BY <1>3, <1>5, Made DEF HistInv
<1>7. NamesGiven(hist') = IF given THEN NamesGiven(hist) \cup {ThisCall}
                                   ELSE NamesGiven(hist)
  BY <1>6, RecordAssumption DEF NamesGiven
<1>8. \A i \in NamesGiven(hist) : i \in Nat /\ i < ThisCall
  BY <1>6 DEF NamesGiven
<1>9. CASE given
  <2>1. \A i \in NamesGiven(hist') : i <= ThisCall
    BY <1>6, <1>7, <1>8, <1>9
  <2>2. QED
    BY <1>4, <1>7, <1>9, <2>1 DEF PathInv
<1>10. CASE ~given
  BY <1>4, <1>7, <1>10 DEF PathInv
<1>11. QED
  BY <1>9, <1>10

\* The end of the transaction leaves the path, and no call comes after it.
LEMMA PathEnd ==
  ASSUME PathInv, NEW found, NEW ruled, NEW delivered,
         EndTransaction(found, ruled, delivered)
  PROVE  PathInv'
<1>1. phase' # "active" /\ UNCHANGED <<pathType, path, hist>>
  BY DEF EndTransaction
<1>2. QED
  BY <1>1 DEF PathInv

\* The path and the name in every state.
LEMMA PathAlways == Spec => []PathInv
<1>1. ASSUME Init PROVE PathInv
  <2>1. hist = <<>>
    BY <1>1 DEF Init
  <2>2. DOMAIN hist = {}
    BY <2>1
  <2>3. NamesGiven(hist) = {}
    BY <2>2 DEF NamesGiven
  <2>4. QED
    BY <1>1, <2>3 DEF Init, PathInv
<1>2. ASSUME HistInv, PathInv, [Next]_vars
      PROVE  PathInv'
  BY <1>2, Frame, PathStays, PathSet, PathEnd DEF HistInv
<1>3. QED
  BY <1>1, <1>2, HistAlways, PTL DEF Spec

\* A named transaction has the last name newrelic_set_transaction_name gave it,
\* or its first: for any number of calls in any order.
THEOREM NameLast == Spec => []NameIsLastGiven
<1>1. Init => NameIsLastGiven
  BY DEF Init, NameIsLastGiven
<1>2. ASSUME HistInv, PathInv, PathInv', NameIsLastGiven, [Next]_vars
      PROVE  NameIsLastGiven'
  <2>1. ASSUME NEW found \in BOOLEAN, NEW ruled \in BOOLEAN,
               NEW delivered \in BOOLEAN,
               EndTransaction(found, ruled, delivered)
        PROVE  NameIsLastGiven'
    <3>1. /\ name = Nil /\ hist' = hist /\ opt' = opt
          /\ name' = name \/ name' = FrozenName
      BY <1>2, <2>1 DEF EndTransaction, PathInv
    <3>2. FrozenName.type = pathType /\ FrozenName.path = path
          /\ FrozenName.web = opt.web
      BY DEF FrozenName
    <3>3. QED
      BY <1>2, <3>1, <3>2 DEF NameIsLastGiven, PathInv
  <2>2. ASSUME UNCHANGED name, phase = "active", phase' = phase
        PROVE  NameIsLastGiven'
    BY <1>2, <2>2 DEF PathInv, NameIsLastGiven
  <2>3. ASSUME NEW given \in BOOLEAN, SetTransactionName(given)
        PROVE  NameIsLastGiven'
    BY <2>2, <2>3 DEF SetTransactionName, Called
  <2>4. ASSUME UNCHANGED name, Quiet("name")
        PROVE  NameIsLastGiven'
    <3>1. CASE hist' = hist
      BY <1>2, <2>4, <3>1, Frame DEF NameIsLastGiven, HistInv
    <3>2. CASE hist' # hist
      <4>1. phase = "active"
        BY <2>4, <3>2 DEF Quiet, Adds, Called
      <4>2. QED
        BY <1>2, <2>4, <4>1 DEF NameIsLastGiven, PathInv
    <3>3. QED
      BY <3>1, <3>2
  <2>5. QED
    BY <1>2, <2>1, <2>3, <2>4, Frame DEF HistInv
<1>3. QED
  BY <1>1, <1>2, HistAlways, PathAlways, PTL DEF Spec

----------------------------------------------------------------------------
\* The trace

\* Only three operations touch the trace, the payloads made or the metrics
\* that tell of them, and none removes a metric.
LEMMA TraceFrame ==
  ASSUME [Next]_vars
  PROVE  \/ \E own \in BOOLEAN : CreatePayload(own)
         \/ \E p \in Inbound, transport \in Transport :
              AcceptPayload(p, transport)
         \/ UNCHANGED <<payloads, trace>> /\ metrics \subseteq metrics'
<1>1. CASE UNCHANGED vars
  BY <1>1 DEF vars
<1>2. CASE \E m \in Metric, finite \in BOOLEAN : RecordCustomMetric(m, finite)
  BY <1>2 DEF RecordCustomMetric, AddMetric
<1>3. CASE \E transport \in Transport : AcceptUndecodable(transport)
  BY <1>3 DEF AcceptUndecodable, ForceAdd
<1>4. CASE \/ \E given \in BOOLEAN : SetTransactionName(given)
           \/ IgnoreTransaction
           \/ \E p \in Priority, given \in BOOLEAN : NoticeError(p, given)
  BY <1>4 DEF SetTransactionName, IgnoreTransaction, NoticeError
<1>5. CASE \/ \E k \in Key \cup {Nil}, valid \in BOOLEAN :
                AddAttribute(k, valid)
           \/ \E valid \in BOOLEAN : RecordCustomEvent(valid)
  BY <1>5 DEF AddAttribute, RecordCustomEvent
<1>6. CASE \E found, ruled, delivered \in BOOLEAN :
             EndTransaction(found, ruled, delivered)
  BY <1>6 DEF EndTransaction
<1>7. QED
  BY <1>1, <1>2, <1>3, <1>4, <1>5, <1>6 DEF Next

\* Every outbound payload tells of the trace the transaction ends in: once
\* newrelic_create_distributed_trace_payload has made one, no inbound payload
\* is accepted, whatever the limit of the metric table.
THEOREM TraceOne == Spec => []TraceIsOne
<1>1. Init => TraceIsOne /\ MarkInv
  BY DEF Init, TraceIsOne, MarkInv
<1>2. ASSUME TraceIsOne, MarkInv, [Next]_vars
      PROVE  TraceIsOne' /\ MarkInv'
  <2>1. ASSUME NEW own \in BOOLEAN, CreatePayload(own)
        PROVE  TraceIsOne' /\ MarkInv'
    <3> DEFINE q == [id |-> trace.id, sampled |-> trace.sampled]
    <3>1. \/ payloads' = payloads \cup {q} /\ "create_success" \in metrics'
          \/ payloads' = payloads /\ metrics \subseteq metrics'
      BY <2>1 DEF CreatePayload, ForceAdd
    <3>2. trace' = trace /\ q.id = trace.id /\ q.sampled = trace.sampled
      BY <2>1 DEF CreatePayload
    <3> HIDE DEF q
    <3>3. QED
      BY <1>2, <3>1, <3>2 DEF TraceIsOne, MarkInv
  <2>2. ASSUME NEW p \in Inbound, NEW transport \in Transport,
               AcceptPayload(p, transport)
        PROVE  TraceIsOne' /\ MarkInv'
    <3>1. payloads' = payloads /\ metrics \subseteq metrics'
      BY <2>2 DEF AcceptPayload, ForceAdd
    <3>2. trace' = trace \/ Verdict(p) = "accept_success"
      BY <2>2 DEF AcceptPayload
    <3>3. Verdict(p) = "accept_success" => "create_success" \notin metrics
      BY DEF Verdict
    <3>4. QED
      BY <1>2, <3>1, <3>2, <3>3 DEF TraceIsOne, MarkInv
  <2>3. ASSUME UNCHANGED <<payloads, trace>>, metrics \subseteq metrics'
        PROVE  TraceIsOne' /\ MarkInv'
    BY <1>2, <2>3 DEF TraceIsOne, MarkInv
  <2>4. QED
    BY <1>2, <2>1, <2>2, <2>3, TraceFrame
<1>3. QED
  BY <1>1, <1>2, PTL DEF Spec

----------------------------------------------------------------------------
\* The error

\* Calls that notice no error leave the one kept the highest.
LEMMA ErrorStays ==
  ASSUME HistInv, ErrorInv, Quiet("error"), UNCHANGED <<error, opt>>
  PROVE  ErrorInv'
<1>1. CASE hist' = hist
  BY <1>1 DEF ErrorInv, ErrorIsHighest
<1>2. ASSUME NEW op \in CallName \ {"error"}, Adds(op)
      PROVE  ErrorInv'
  <2>1. PICK arg \in Arg, ok \in BOOLEAN : Called(op, arg, ok)
    BY <1>2 DEF Adds
  <2>2. /\ DOMAIN hist' = DOMAIN hist \cup {ThisCall}
        /\ \A i \in DOMAIN hist : hist'[i] = hist[i]
        /\ hist'[ThisCall].op # "error"
    BY <2>1, Made DEF HistInv
  <2>3. Recorded(hist', "error") = Recorded(hist, "error")
    BY <2>1, RecordedMade DEF HistInv
  <2>4. \A i \in Recorded(hist, "error") : hist'[i] = hist[i]
    BY <2>2, RecordedCalls DEF HistInv
  <2>5. ErrorIsHighest'
    BY <2>3, <2>4 DEF ErrorInv, ErrorIsHighest
  <2>6. QED
    BY <2>2, <2>5 DEF ErrorInv
<1>3. QED
  BY <1>1, <1>2 DEF Quiet

\* newrelic_notice_error keeps the greater of the error it is given and the one
\* it has.
LEMMA ErrorNoticed ==
  ASSUME HistInv, ErrorInv, NEW p \in Priority, NEW given \in BOOLEAN,
         NoticeError(p, given)
  PROVE  ErrorInv'
<1> DEFINE n == ThisCall
           new == [prio |-> p, call |-> n]
           R == Recorded(hist, "error")
           Q == Recorded(hist', "error")
<1>1. /\ Called("error", p, given)
      /\ p \in Int /\ p \in Arg
      /\ opt' = opt
      /\ error' = IF given /\ ErrorWorthy(p) THEN new ELSE error
  BY RecordAssumption DEF NoticeError, Arg
<1>2. /\ n \in Nat
      /\ DOMAIN hist' = DOMAIN hist \cup {n}
      /\ \A i \in DOMAIN hist : hist'[i] = hist[i] /\ i \in Nat /\ i < n
      /\ hist'[n].arg = p /\ hist'[n].op = "error"
      /\ phase = "active"
  BY <1>1, Made DEF HistInv
<1>3. Q = IF given /\ ~Ignored THEN R \cup {n} ELSE R
  BY <1>1, RecordedMade DEF HistInv
<1>4. recording = ~Ignored
  BY <1>2 DEF HistInv
<1>5. /\ R \subseteq DOMAIN hist
      /\ \A i \in R : hist'[i] = hist[i] /\ hist[i].arg \in Int
  BY <1>2, RecordedCalls DEF HistInv, ErrorInv
<1>6. /\ new \in ErrorRecord /\ new # Nil
      /\ new.prio = p /\ new.call = n
  BY <1>1, <1>2, RecordAssumption DEF ErrorRecord
<1>7. error # Nil => error.prio \in Int /\ error.call \in Nat
  BY DEF ErrorInv, ErrorRecord
<1> HIDE DEF n, new, R, Q
<1>8. /\ error' = Nil \/ error' \in ErrorRecord
      /\ \A i \in DOMAIN hist' : hist'[i].op = "error" => hist'[i].arg \in Int
  BY <1>1, <1>2, <1>6 DEF ErrorInv
<1>9. CASE ~given \/ ~recording
  <2>1. Q = R /\ error' = error
    BY <1>1, <1>3, <1>4, <1>9 DEF ErrorWorthy
  <2>2. ErrorIsHighest'
    BY <1>1, <1>5, <2>1 DEF ErrorInv, ErrorIsHighest, Q, R
  <2>3. QED
    BY <1>8, <2>2 DEF ErrorInv
<1>10. CASE ~opt.err
  <2>1. error' = error /\ error = Nil
    BY <1>1, <1>10 DEF ErrorWorthy, ErrorInv, ErrorIsHighest
  <2>2. QED
    BY <1>1, <1>8, <1>10, <2>1 DEF ErrorInv, ErrorIsHighest
<1>11. CASE given /\ recording /\ opt.err /\ (error = Nil \/ p >= error.prio)
  <2>1. Q = R \cup {n} /\ error' = new
    BY <1>1, <1>3, <1>4, <1>11 DEF ErrorWorthy
  <2>2. \A i \in R : hist[i].arg <= p /\ i <= n /\ i \in Nat
    BY <1>1, <1>2, <1>5, <1>7, <1>11 DEF ErrorInv, ErrorIsHighest, R
  <2>3. \A i \in Q : \/ hist'[i].arg < p
                     \/ hist'[i].arg = p /\ i <= n
    BY <1>1, <1>2, <1>5, <2>1, <2>2
  <2>4. ErrorIsHighest'
    BY <1>1, <1>2, <1>6, <1>11, <2>1, <2>3 DEF ErrorIsHighest, Q
  <2>5. QED
    BY <1>8, <2>4 DEF ErrorInv
<1>12. CASE given /\ recording /\ opt.err /\ ~(error = Nil \/ p >= error.prio)
  <2>1. Q = R \cup {n} /\ error' = error /\ error # Nil
    BY <1>1, <1>3, <1>4, <1>12 DEF ErrorWorthy
  <2>2. p < error.prio
    BY <1>1, <1>7, <1>12
  <2>3. /\ error.call \in R /\ error.prio = hist[error.call].arg
        /\ \A i \in R : \/ hist[i].arg < error.prio
                        \/ hist[i].arg = error.prio /\ i <= error.call
    BY <2>1 DEF ErrorInv, ErrorIsHighest, R
  <2>4. ErrorIsHighest'
    BY <1>1, <1>2, <1>5, <1>12, <2>1, <2>2, <2>3 DEF ErrorIsHighest, Q
  <2>5. QED
    BY <1>8, <2>4 DEF ErrorInv
<1>13. QED
  BY <1>9, <1>10, <1>11, <1>12

\* The error kept is the latest of the highest priority among those that
\* newrelic_notice_error was given before the transaction was ignored.
THEOREM ErrorHighest == Spec => []ErrorIsHighest
<1>1. ASSUME Init PROVE ErrorInv
  <2>1. hist = <<>> /\ error = Nil
    BY <1>1 DEF Init
  <2>2. DOMAIN hist = {}
    BY <2>1
  <2>3. Recorded(hist, "error") = {}
    BY <2>2 DEF Recorded, Calls
  <2>4. QED
    BY <2>1, <2>2, <2>3 DEF ErrorInv, ErrorIsHighest
<1>2. ASSUME HistInv, ErrorInv, [Next]_vars
      PROVE  ErrorInv'
  BY <1>2, Frame, ErrorStays, ErrorNoticed DEF HistInv
<1>3. ErrorInv => ErrorIsHighest
  BY DEF ErrorInv
<1>4. QED
  BY <1>1, <1>2, <1>3, HistAlways, PTL DEF Spec

----------------------------------------------------------------------------
\* The attributes

INSTANCE FiniteSetTheorems

\* Calls that add no attribute leave those there are.
LEMMA AttributesStay ==
  ASSUME HistInv, AttributesInv, UNCHANGED <<attrs, numUser>>,
         \A k \in Key : GivenTo(hist', k) = GivenTo(hist, k)
  PROVE  AttributesInv'
<1>1. Held' = Held
  BY DEF Held
<1>2. AttributesAgree'
  BY <1>1 DEF AttributesInv, AttributesAgree
<1>3. QED
  BY <1>1, <1>2 DEF AttributesInv

\* A call that adds no attribute, or is refused, gives no key a value.
LEMMA NoneGiven ==
  ASSUME HistInv, NEW op, NEW arg \in Arg, NEW ok \in BOOLEAN,
         Called(op, arg, ok), op # "attribute" \/ ~ok, NEW k \in Key
  PROVE  GivenTo(hist', k) = GivenTo(hist, k)
<1>1. Calls(hist', "attribute") = Calls(hist, "attribute")
  <2>1. Calls(hist', "attribute") =
          IF op = "attribute" /\ ok
            THEN Calls(hist, "attribute") \cup {ThisCall}
            ELSE Calls(hist, "attribute")
    BY CallsMade DEF HistInv
  <2>2. QED
    BY <2>1
<1>2. \A i \in Calls(hist, "attribute") : hist'[i] = hist[i]
  BY Made DEF HistInv, Calls
<1>3. QED
  BY <1>1, <1>2 DEF GivenTo

\* nr_attributes_add_internal: a new value takes the place of the old one, or
\* a place of its own while there is one.
LEMMA AttributeAdded ==
  ASSUME HistInv, AttributesInv, NEW k \in Key, AddAttributeInternal(k)
  PROVE  AttributesInv'
<1> DEFINE n == ThisCall
<1>1. k \in Arg
  BY DEF Arg
<1>2. /\ numUser = Cardinality(Held) /\ numUser <= AttrLimit
      /\ numUser \in Nat /\ AttrLimit \in Nat
      /\ IsFiniteSet(Held)
      /\ (k \in Held) <=> (attrs[k] # Nil)
      /\ n \in Nat /\ n # Nil
  BY FS_CardinalityType, RecordAssumption
     DEF AttributesInv, AttributesAgree, Held, HistInv, ThisCall
<1>3. CASE NumberWithout(k) = AttrLimit
  <2>1. attrs[k] = Nil /\ NumberWithout(k) = numUser
    BY <1>2, <1>3 DEF NumberWithout
  <2>2. /\ attrs' = [attrs EXCEPT ![k] = Nil]
        /\ numUser' = numUser /\ Called("attribute", k, FALSE)
    BY <1>3, <2>1 DEF AddAttributeInternal
  <2>3. attrs' = attrs
    BY <2>1, <2>2 DEF AttributesInv
  <2>4. \A q \in Key : GivenTo(hist', q) = GivenTo(hist, q)
    BY <1>1, <2>2, NoneGiven
  <2>5. QED
    BY <2>2, <2>3, <2>4, AttributesStay
<1>4. CASE NumberWithout(k) # AttrLimit
  <2>1. /\ attrs' = [attrs EXCEPT ![k] = n]
        /\ numUser' = NumberWithout(k) + 1
        /\ Called("attribute", k, TRUE)
    BY <1>4 DEF AddAttributeInternal
  <2>2. /\ attrs' \in [Key -> Nat \cup {Nil}]
        /\ attrs'[k] = n /\ \A q \in Key \ {k} : attrs'[q] = attrs[q]
    BY <1>2, <2>1 DEF AttributesInv
  <2>3. Calls(hist', "attribute") = Calls(hist, "attribute") \cup {n}
    BY <1>1, <2>1, CallsMade DEF HistInv
  <2>4. /\ \A i \in Calls(hist, "attribute") :
             hist'[i] = hist[i] /\ i \in Nat /\ i < n
        /\ hist'[n].arg = k
    BY <1>1, <2>1, Made DEF HistInv, Calls
  <2> HIDE DEF n
  <2>5. GivenTo(hist', k) = GivenTo(hist, k) \cup {n}
    BY <2>3, <2>4 DEF GivenTo
  <2>6. \A q \in Key \ {k} : GivenTo(hist', q) = GivenTo(hist, q)
    BY <2>3, <2>4 DEF GivenTo
  <2>7. \A i \in GivenTo(hist', k) : i <= n
    BY <1>2, <2>4, <2>5 DEF GivenTo
  <2>8. Held' = Held \cup {k}
    BY <1>2, <2>2 DEF Held
  <2>9. /\ IsFiniteSet(Held')
        /\ Cardinality(Held') = IF k \in Held THEN numUser ELSE numUser + 1
    BY <1>2, <2>8, FS_AddElement
  <2>10. numUser' = Cardinality(Held') /\ numUser' <= AttrLimit
    BY <1>2, <1>4, <2>1, <2>9 DEF NumberWithout
  <2>11. \A q \in Key :
           IF GivenTo(hist', q) = {} THEN attrs'[q] = Nil
           ELSE /\ attrs'[q] \in GivenTo(hist', q)
                /\ \A i \in GivenTo(hist', q) : i <= attrs'[q]
    BY <2>2, <2>5, <2>6, <2>7 DEF AttributesInv, AttributesAgree
  <2>12. QED
    BY <2>2, <2>9, <2>10, <2>11 DEF AttributesInv, AttributesAgree
<1>5. QED
  BY <1>3, <1>4

\* The attributes agree with the calls that gave them, at the limit of their
\* number too (nr_attributes_add_internal).
THEOREM AttributesAgreeWithCalls == Spec => []AttributesAgree
<1>1. ASSUME Init PROVE AttributesInv
  <2>1. hist = <<>> /\ attrs = [k \in Key |-> Nil] /\ numUser = 0
    BY <1>1 DEF Init
  <2>2. DOMAIN hist = {} /\ Held = {}
    BY <2>1 DEF Held
  <2>3. \A k \in Key : GivenTo(hist, k) = {}
    BY <2>2 DEF GivenTo, Calls
  <2>4. QED
    BY <2>1, <2>2, <2>3, FS_EmptySet, RecordAssumption
       DEF AttributesInv, AttributesAgree
<1>2. ASSUME HistInv, AttributesInv, [Next]_vars
      PROVE  AttributesInv'
  <2>1. ASSUME NEW k \in Key \cup {Nil}, NEW valid \in BOOLEAN,
               AddAttribute(k, valid)
        PROVE  AttributesInv'
    <3>1. CASE k # Nil /\ valid /\ ~opt.secure /\ opt.params
      BY <1>2, <2>1, <3>1, AttributeAdded DEF AddAttribute
    <3>2. CASE ~(k # Nil /\ valid /\ ~opt.secure /\ opt.params)
      <4>1. UNCHANGED <<attrs, numUser>> /\ Called("attribute", k, FALSE)
        BY <2>1, <3>2 DEF AddAttribute
      <4>2. k \in Arg
        BY DEF Arg
      <4>3. \A q \in Key : GivenTo(hist', q) = GivenTo(hist, q)
        BY <1>2, <4>1, <4>2, NoneGiven
      <4>4. QED
        BY <1>2, <4>1, <4>3, AttributesStay
    <3>3. QED
      BY <3>1, <3>2
  <2>2. ASSUME UNCHANGED <<attrs, numUser>>, Quiet("attribute")
        PROVE  AttributesInv'
    <3>1. \A k \in Key : GivenTo(hist', k) = GivenTo(hist, k)
      BY <1>2, <2>2, NoneGiven DEF Quiet, Adds
    <3>2. QED
      BY <1>2, <2>2, <3>1, AttributesStay
  <2>3. QED
    BY <1>2, <2>1, <2>2, Frame DEF HistInv
<1>3. AttributesInv => AttributesAgree
  BY DEF AttributesInv
<1>4. QED
  BY <1>1, <1>2, <1>3, HistAlways, PTL DEF Spec

----------------------------------------------------------------------------
\* The events

\* Calls that record no event leave the sample.
LEMMA ReservoirStays ==
  ASSUME ReservoirInv, UNCHANGED <<seen, events>>, Taken' = Taken
  PROVE  ReservoirInv'
BY DEF ReservoirInv, ReservoirIsSample

\* A place of a sequence gets a new value.
LEMMA Replaced ==
  ASSUME NEW s \in Seq(Nat), NEW i \in DOMAIN s, NEW n \in Nat
  PROVE  /\ [s EXCEPT ![i] = n] \in Seq(Nat)
         /\ Len([s EXCEPT ![i] = n]) = Len(s)
         /\ DOMAIN [s EXCEPT ![i] = n] = DOMAIN s
         /\ \A j \in DOMAIN s :
              [s EXCEPT ![i] = n][j] = IF j = i THEN n ELSE s[j]
OBVIOUS

\* nr_analytics_events_add_event: an event that is seen fills the reservoir or
\* takes the place of another or is passed over.
LEMMA EventAdded ==
  ASSUME ReservoirInv, NEW n \in Nat, n \notin Taken, n = ThisCall,
         Taken' = Taken \cup {n},
         seen' = seen + 1, NEW i \in 1..(seen + 1), AddEvent(i)
  PROVE  ReservoirInv'
<1> DEFINE T == Taken
<1>1. /\ seen \in Nat /\ events \in Seq(Nat) /\ IsFiniteSet(T)
      /\ seen = Cardinality(T)
      /\ Len(events) = IF seen < EventLimit THEN seen ELSE EventLimit
      /\ \A j \in DOMAIN events : events[j] \in T
      /\ \A j, k \in DOMAIN events : events[j] = events[k] => j = k
  BY DEF ReservoirInv, ReservoirIsSample
<1>2. /\ EventLimit \in Nat \ {0}
      /\ DOMAIN events = 1..Len(events) /\ Len(events) \in Nat
  BY <1>1, RecordAssumption
<1>3. /\ seen' \in Nat /\ IsFiniteSet(Taken')
      /\ seen' = Cardinality(Taken')
  BY <1>1, FS_AddElement
<1> HIDE DEF T
<1>4. SUFFICES /\ events' \in Seq(Nat)
               /\ Len(events') = IF seen' < EventLimit THEN seen'
                                                       ELSE EventLimit
               /\ \A j \in DOMAIN events' : events'[j] \in T \cup {n}
               /\ \A j, k \in DOMAIN events' :
                    events'[j] = events'[k] => j = k
  BY <1>3 DEF ReservoirInv, ReservoirIsSample, T
<1>5. CASE Len(events) < EventLimit
  <2>1. events' = Append(events, n)
    BY <1>5 DEF AddEvent
  <2>2. /\ events' \in Seq(Nat)
        /\ Len(events') = Len(events) + 1
        /\ DOMAIN events' = DOMAIN events \cup {Len(events) + 1}
        /\ \A j \in DOMAIN events : events'[j] = events[j]
        /\ events'[Len(events) + 1] = n
    BY <1>1, <2>1, Appended
  <2>3. Len(events') = IF seen' < EventLimit THEN seen' ELSE EventLimit
    BY <1>1, <1>2, <1>5, <2>2
  <2>4. QED
    BY <1>1, <2>2, <2>3 DEF T
<1>6. CASE ~(Len(events) < EventLimit) /\ i <= EventLimit
  <2>1. events' = [events EXCEPT ![i] = n]
    BY <1>6 DEF AddEvent
  <2>2. i \in DOMAIN events /\ Len(events) = EventLimit
    BY <1>1, <1>2, <1>6
  <2>3. /\ events' \in Seq(Nat) /\ Len(events') = Len(events)
        /\ DOMAIN events' = DOMAIN events
        /\ \A j \in DOMAIN events :
             events'[j] = IF j = i THEN n ELSE events[j]
    BY <1>1, <2>1, <2>2, Replaced
  <2>4. Len(events') = IF seen' < EventLimit THEN seen' ELSE EventLimit
    BY <1>1, <1>2, <1>6, <2>2, <2>3
  <2>5. QED
    BY <1>1, <2>3, <2>4 DEF T
<1>7. CASE ~(Len(events) < EventLimit) /\ ~(i <= EventLimit)
  <2>1. events' = events
    BY <1>7 DEF AddEvent
  <2>2. Len(events') = IF seen' < EventLimit THEN seen' ELSE EventLimit
    BY <1>1, <1>2, <1>7, <2>1
  <2>3. QED
    BY <1>1, <2>1, <2>2
<1>8. QED
  BY <1>5, <1>6, <1>7

\* Whatever is drawn, the reservoir holds a sample of the events recorded, as
\* large as it has room for (newrelic_record_custom_event).
THEOREM ReservoirSample == Spec => []ReservoirIsSample
<1>1. ASSUME Init PROVE ReservoirInv
  <2>1. hist = <<>> /\ events = <<>> /\ seen = 0
    BY <1>1 DEF Init
  <2>2. DOMAIN hist = {}
    BY <2>1
  <2>3. Taken = {}
    BY <2>2 DEF Taken, Recorded, Calls
  <2>4. QED
    BY <2>1, <2>3, FS_EmptySet, RecordAssumption
       DEF ReservoirInv, ReservoirIsSample
<1>2. ASSUME HistInv, ReservoirInv, [Next]_vars
      PROVE  ReservoirInv'
  <2>1. ASSUME NEW valid \in BOOLEAN, RecordCustomEvent(valid)
        PROVE  ReservoirInv'
    <3> DEFINE taken == valid /\ recording /\ ~opt.secure /\ opt.events
    <3>1. Called("event", Nil, valid) /\ opt' = opt /\ Nil \in Arg
      BY <2>1 DEF RecordCustomEvent, Arg
    <3>2. /\ Recorded(hist', "event") =
               IF valid /\ ~Ignored
                 THEN Recorded(hist, "event") \cup {ThisCall}
                 ELSE Recorded(hist, "event")
          /\ phase = "active"
          /\ ThisCall \in Nat /\ ThisCall \notin DOMAIN hist
      BY <1>2, <3>1, Made, RecordedMade DEF HistInv
    <3>3. recording = ~Ignored
      BY <1>2, <3>2 DEF HistInv
    <3>4. ThisCall \notin Taken
      BY <1>2, <3>2, RecordedCalls DEF Taken, HistInv
    <3>5. CASE taken
      <4>1. seen' = seen + 1 /\ \E i \in 1..(seen + 1) : AddEvent(i)
        BY <2>1, <3>5 DEF RecordCustomEvent
      <4>2. Taken' = Taken \cup {ThisCall}
        BY <3>1, <3>2, <3>3, <3>5 DEF Taken
      <4>3. QED
        BY <1>2, <3>2, <3>4, <4>1, <4>2, EventAdded
    <3>6. CASE ~taken
      <4>1. UNCHANGED <<seen, events>>
        BY <2>1, <3>6 DEF RecordCustomEvent
      <4>2. Taken' = Taken
        BY <3>1, <3>2, <3>3, <3>6 DEF Taken
      <4>3. QED
        BY <1>2, <4>1, <4>2, ReservoirStays
    <3>7. QED
      BY <3>5, <3>6
  <2>2. ASSUME UNCHANGED <<seen, events>>, Quiet("event"), opt' = opt
        PROVE  ReservoirInv'
    <3>1. Recorded(hist', "event") = Recorded(hist, "event")
      BY <1>2, <2>2, RecordedMade DEF HistInv, Quiet, Adds
    <3>2. Taken' = Taken
      BY <2>2, <3>1 DEF Taken
    <3>3. QED
      BY <1>2, <2>2, <3>2, ReservoirStays
  <2>3. QED
    BY <1>2, <2>1, <2>2, Frame DEF HistInv
<1>3. ReservoirInv => ReservoirIsSample
  BY DEF ReservoirInv
<1>4. QED
  BY <1>1, <1>2, <1>3, HistAlways, PTL DEF Spec
=============================================================================
