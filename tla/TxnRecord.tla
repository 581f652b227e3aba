----------------------------- MODULE TxnRecord -----------------------------
(***************************************************************************)
(* What one transaction gathers between newrelic_start_transaction and     *)
(* newrelic_end_transaction: its name, one error, user attributes, custom  *)
(* metrics, custom events and its place in a distributed trace.            *)
(*                                                                         *)
(* Calls hold the transaction's lock (SdkTransaction), so each is one      *)
(* action. The n-th call stands for the strings it passes: a name, a       *)
(* value or a trace is the number of the call that gave it, 0 is the one   *)
(* the transaction started with. hist is what the application did and saw; *)
(* the code keeps no such thing and no action reads it but for its length. *)
(***************************************************************************)
EXTENDS Integers, Sequences, FiniteSets

CONSTANTS
  Key,          \* attribute names the agent takes
  Metric,       \* names of custom metrics
  Priority,     \* error priorities
  Options,      \* the settings nr_txn_begin may leave in txn->options
  Call,         \* the calls the application makes
  Inbound,      \* the payloads and transport types it gets from others
  Transport,
  AttrLimit,    \* NR_ATTRIBUTE_USER_LIMIT (64)
  MetricLimit,  \* NR_METRIC_DEFAULT_LIMIT (2000)
  EventLimit,   \* the application's limit of custom events
  MaxCalls,     \* bound on the calls made on the transaction
  Nil

OptionRecord ==
  [err : BOOLEAN, params : BOOLEAN, events : BOOLEAN, analytics : BOOLEAN,
   spans : BOOLEAN, dt : BOOLEAN, secure : BOOLEAN, web : BOOLEAN]

\* Metrics the agent itself keeps in the transaction's table.
Supportability ==
  {"create_success", "create_exception", "accept_success", "accept_exception",
   "accept_multiple", "create_before_accept", "parse_exception", "untrusted",
   "transport_duration", "metrics_dropped"}

\* An inbound payload: whether it parses and has what it must have, whether
\* its account is trusted, and what it says of sampling, if anything.
Payload == [valid : BOOLEAN, trusted : BOOLEAN, sampled : BOOLEAN \cup {Nil}]

\* The error kept: its priority and the call that noticed it.
ErrorRecord == [prio : Int, call : Nat]

CallName ==
  {"name", "ignore", "error", "attribute", "metric", "event", "create",
   "accept"}

ASSUME RecordAssumption ==
  /\ Call \subseteq CallName
  /\ Inbound \subseteq Payload
  /\ Priority \subseteq Int
  /\ Options \subseteq OptionRecord
  /\ AttrLimit \in Nat /\ MetricLimit \in Nat /\ MaxCalls \in Nat
  /\ EventLimit \in Nat \ {0}
  /\ Nil \notin Key /\ Nil \notin Nat /\ Nil \notin ErrorRecord
  /\ Metric \cap Supportability = {}

VARIABLES
  opt,        \* txn->options, and whether it is a web transaction
  recording,  \* txn->status.recording
  ignore,     \* txn->status.ignore
  pathType,   \* txn->status.path_type: 0 unknown, 3 action, 5 custom
  path,       \* txn->path
  name,       \* txn->name, or Nil
  error,      \* txn->error, or Nil
  attrs,      \* user attributes: the value of each key, Nil for none
  numUser,    \* attributes->num_user_attributes
  metrics,    \* names in txn->unscoped_metrics
  seen,       \* custom_events->events_seen
  events,     \* custom_events->events
  trace,      \* txn->distributed_trace
  payloads,   \* what outbound payloads said
  phase,      \* "active", or how the transaction ended
  hist        \* the calls made

vars == <<opt, recording, ignore, pathType, path, name, error, attrs, numUser,
          metrics, seen, events, trace, payloads, phase, hist>>

\* nr_txn_begin and the start of newrelic_start_transaction. An empty name
\* is refused by nr_txn_set_path and leaves the path unknown.
Init ==
  /\ opt \in Options
  /\ recording = TRUE /\ ignore = FALSE
  /\ pathType \in {0, 3}
  /\ path = 0 /\ name = Nil
  /\ error = Nil
  /\ attrs = [k \in Key |-> Nil] /\ numUser = 0
  /\ metrics = {}
  /\ seen = 0 /\ events = <<>>
  /\ trace \in [id : {0}, sampled : BOOLEAN, inbound : {FALSE},
               transport : {"none"}]
  /\ payloads = {}
  /\ phase = "active"
  /\ hist = <<>>

\* A call on the transaction: which, with what, and whether it took its
\* argument (for calls with a result: whether it answered true).
Called(op, arg, ok) ==
  /\ op \in Call
  /\ phase = "active"
  /\ Len(hist) < MaxCalls
  /\ hist' = Append(hist, [op |-> op, arg |-> arg, ok |-> ok])

ThisCall == Len(hist) + 1

----------------------------------------------------------------------------
\* Names

\* Mutant: a name of the same kind is not replaced.
SetPathOnce(ptype) == ptype > pathType

\* nr_txn_set_path with NR_OK_TO_OVERWRITE; the path is frozen only at the end.
SetPathAllowed(ptype) == ptype >= pathType

\* newrelic_set_transaction_name; an empty or NULL name is refused.
SetTransactionName(given) ==
  LET set == given /\ SetPathAllowed(5) IN
  /\ Called("name", IF given THEN ThisCall ELSE Nil, set)
  /\ pathType' = IF set THEN 5 ELSE pathType
  /\ path' = IF set THEN ThisCall ELSE path
  /\ UNCHANGED <<opt, recording, ignore, name, error, attrs, numUser, metrics,
                 seen, events, trace, payloads, phase>>

\* newrelic_ignore_transaction
IgnoreTransaction ==
  /\ Called("ignore", Nil, TRUE)
  /\ ignore' = TRUE
  /\ recording' = FALSE
  /\ UNCHANGED <<opt, pathType, path, name, error, attrs, numUser, metrics,
                 seen, events, trace, payloads, phase>>

----------------------------------------------------------------------------
\* Errors

\* Mutant: the last error wins, whatever its priority.
ErrorAlwaysWorthy(p) == opt.err /\ recording

\* nr_txn_record_error_worthy, which newrelic_notice_error repeats.
ErrorWorthy(p) ==
  /\ opt.err
  /\ recording
  /\ error = Nil \/ p >= error.prio

\* newrelic_notice_error; a NULL or empty message or class is refused first.
NoticeError(p, given) ==
  /\ Called("error", p, given)
  /\ error' = IF given /\ ErrorWorthy(p)
                THEN [prio |-> p, call |-> ThisCall] ELSE error
  /\ UNCHANGED <<opt, recording, ignore, pathType, path, name, attrs, numUser,
                 metrics, seen, events, trace, payloads, phase>>

----------------------------------------------------------------------------
\* Attributes

\* Mutant: the attribute that is replaced stays counted.
RemovedUncounted(k) == numUser

\* nr_attributes_remove_duplicate: the count once k is removed.
NumberWithout(k) == IF attrs[k] # Nil THEN numUser - 1 ELSE numUser

\* nr_attributes_add_internal, for user attributes: the old value of the key
\* goes before the limit is looked at.
AddAttributeInternal(k) ==
  LET left == NumberWithout(k) IN
  IF left = AttrLimit
    THEN /\ attrs' = [attrs EXCEPT ![k] = Nil]
         /\ numUser' = left
         /\ Called("attribute", k, FALSE)
    ELSE /\ attrs' = [attrs EXCEPT ![k] = ThisCall]
         /\ numUser' = left + 1
         /\ Called("attribute", k, TRUE)

\* newrelic_add_attribute and its typed callers. Nil is a NULL, empty or
\* overlong key; a NULL, NaN or infinite value is not valid. The agent does
\* not ask whether the transaction still records.
AddAttribute(k, valid) ==
  /\ IF k # Nil /\ valid /\ ~opt.secure /\ opt.params
       THEN AddAttributeInternal(k)
       ELSE UNCHANGED <<attrs, numUser>> /\ Called("attribute", k, FALSE)
  /\ UNCHANGED <<opt, recording, ignore, pathType, path, name, error, metrics,
                 seen, events, trace, payloads, phase>>

----------------------------------------------------------------------------
\* Metrics and events

\* nrm_find_or_create without force: a full table takes only the metric that
\* says so.
AddMetric(table, m) ==
  IF m \in table \/ Cardinality(table) < MetricLimit
    THEN table \cup {m} ELSE table \cup {"metrics_dropped"}

\* Mutant: the metrics of the agent meet the limit too.
AddUnforced(table, m) ==
  IF m \in table \/ Cardinality(table) < MetricLimit
    THEN table \cup {m} ELSE table

\* nrm_find_or_create with force
ForceAdd(table, m) == table \cup {m}

\* newrelic_record_custom_metric; finite says that the value is a number.
RecordCustomMetric(m, finite) ==
  LET taken == recording /\ finite IN
  /\ Called("metric", m, taken)
  /\ metrics' = IF taken THEN AddMetric(metrics, m) ELSE metrics
  /\ UNCHANGED <<opt, recording, ignore, pathType, path, name, error, attrs,
                 numUser, seen, events, trace, payloads, phase>>

\* Mutant: an event that is seen when the reservoir is full replaces one even
\* when the draw falls outside of it, which overruns it.
AddEventAt(i) ==
  events' = IF i > Len(events) THEN Append(events, ThisCall)
                               ELSE [events EXCEPT ![i] = ThisCall]

\* nr_analytics_events_add_event, i being the random draw among those seen.
AddEvent(i) ==
  events' = IF Len(events) < EventLimit THEN Append(events, ThisCall)
            ELSE IF i <= EventLimit THEN [events EXCEPT ![i] = ThisCall]
            ELSE events

\* newrelic_record_custom_event; valid says that the type is of the form the
\* agent takes.
RecordCustomEvent(valid) ==
  LET taken == valid /\ recording /\ ~opt.secure /\ opt.events IN
  /\ Called("event", Nil, valid)
  /\ IF taken
       THEN seen' = seen + 1 /\ \E i \in 1..(seen + 1) : AddEvent(i)
       ELSE UNCHANGED <<seen, events>>
  /\ UNCHANGED <<opt, recording, ignore, pathType, path, name, error, attrs,
                 numUser, metrics, trace, payloads, phase>>

----------------------------------------------------------------------------
\* Distributed tracing

\* newrelic_create_distributed_trace_payload and its http-safe form; own says
\* that the segment given, if any, is one of this transaction.
CreatePayload(own) ==
  LET made == opt.dt /\ (opt.spans \/ opt.analytics) /\ own IN
  /\ Called("create", Nil, made)
  /\ payloads' = payloads \cup
       IF made THEN {[id |-> trace.id, sampled |-> trace.sampled]} ELSE {}
  /\ metrics' = ForceAdd(metrics, IF made THEN "create_success"
                                         ELSE "create_exception")
  /\ UNCHANGED <<opt, recording, ignore, pathType, path, name, error, attrs,
                 numUser, seen, events, trace, phase>>

\* The checks of nr_txn_accept_distributed_trace_payload, in their order, by
\* the metric each leaves.
Verdict(p) ==
  IF ~opt.dt THEN "accept_exception"
  ELSE IF trace.inbound THEN "accept_multiple"
  ELSE IF "create_success" \in metrics THEN "create_before_accept"
  ELSE IF ~p.valid THEN "parse_exception"
  ELSE IF ~p.trusted THEN "untrusted"
  ELSE "accept_success"

\* nr_distributed_trace_inbound_set_transport_type, and the default chosen
\* before it is called.
TransportOf(transport) ==
  IF transport = Nil THEN IF opt.web THEN "HTTP" ELSE "Unknown"
  ELSE IF transport \in {"HTTP", "Kafka"} THEN transport
  ELSE "Unknown"

\* newrelic_accept_distributed_trace_payload; its http-safe form fails before
\* any of the checks when the payload does not decode.
AcceptPayload(p, transport) ==
  LET verdict == Verdict(p)
      taken == verdict = "accept_success"
  IN
  /\ Called("accept", IF transport = Nil THEN Nil ELSE ThisCall, taken)
  /\ trace' = IF taken
                THEN [id |-> ThisCall,
                      sampled |-> IF p.sampled = Nil THEN trace.sampled
                                  ELSE p.sampled,
                      inbound |-> TRUE,
                      transport |-> TransportOf(transport)]
                ELSE trace
  /\ metrics' = LET counted == ForceAdd(metrics, verdict) IN
                IF taken THEN ForceAdd(counted, "transport_duration")
                         ELSE counted
  /\ UNCHANGED <<opt, recording, ignore, pathType, path, name, error, attrs,
                 numUser, seen, events, payloads, phase>>

AcceptUndecodable(transport) ==
  /\ Called("accept", IF transport = Nil THEN Nil ELSE ThisCall, FALSE)
  /\ metrics' = ForceAdd(metrics, "parse_exception")
  /\ UNCHANGED <<opt, recording, ignore, pathType, path, name, error, attrs,
                 numUser, seen, events, trace, payloads, phase>>

----------------------------------------------------------------------------
\* The end

\* What nr_txn_freeze_name_update_apdex makes of path and kind.
FrozenName == [type |-> pathType, path |-> path, web |-> opt.web]

\* newrelic_end_transaction sends what is not ignored.
Sends(ignored) == ~ignored

\* newrelic_end_transaction: nr_txn_end, the data sent to the daemon, and the
\* transaction freed. found: nr_app_verify_id knows the run the transaction
\* belongs to; ruled: a rule of the application has it ignored; delivered: the
\* message could be written. A transaction whose run is gone is not named but
\* is sent all the same.
EndTransaction(found, ruled, delivered) ==
  LET frozen == ~ignore /\ found
      ignored == ignore \/ (frozen /\ ruled)
  IN
  /\ phase = "active"
  /\ recording' = FALSE
  /\ ignore' = ignored
  /\ name' = IF frozen THEN FrozenName ELSE name
  /\ phase' = IF ~Sends(ignored) THEN "dropped"
              ELSE IF delivered THEN "sent" ELSE "failed"
  /\ UNCHANGED <<opt, pathType, path, error, attrs, numUser, metrics, seen,
                 events, trace, payloads, hist>>

Next ==
  \/ \E given \in BOOLEAN : SetTransactionName(given)
  \/ IgnoreTransaction
  \/ \E p \in Priority, given \in BOOLEAN : NoticeError(p, given)
  \/ \E k \in Key \cup {Nil}, valid \in BOOLEAN : AddAttribute(k, valid)
  \/ \E m \in Metric, finite \in BOOLEAN : RecordCustomMetric(m, finite)
  \/ \E valid \in BOOLEAN : RecordCustomEvent(valid)
  \/ \E own \in BOOLEAN : CreatePayload(own)
  \/ \E p \in Inbound, transport \in Transport : AcceptPayload(p, transport)
  \/ \E transport \in Transport : AcceptUndecodable(transport)
  \/ \E found, ruled, delivered \in BOOLEAN :
       EndTransaction(found, ruled, delivered)

Spec == Init /\ [][Next]_vars

----------------------------------------------------------------------------
\* Properties

\* The calls of one kind in the history h that took their argument.
Calls(h, op) == {i \in DOMAIN h : h[i].op = op /\ h[i].ok}

\* Those of them made before the transaction was ignored.
Recorded(h, op) ==
  {i \in Calls(h, op) : \A j \in DOMAIN h : h[j].op = "ignore" => i < j}

\* The error a transaction keeps is, of those noticed before it was ignored,
\* one of the highest priority, and the latest of these: newrelic_notice_error
\* never lets a lesser error replace a greater one.
ErrorIsHighest ==
  IF ~opt.err \/ Recorded(hist, "error") = {} THEN error = Nil
  ELSE /\ error # Nil
       /\ error.call \in Recorded(hist, "error")
       /\ error.prio = hist[error.call].arg
       /\ \A i \in Recorded(hist, "error") :
            \/ hist[i].arg < error.prio
            \/ hist[i].arg = error.prio /\ i <= error.call

\* The calls in the history h that gave the key k a value.
GivenTo(h, k) == {i \in Calls(h, "attribute") : h[i].arg = k}

\* The keys the transaction has an attribute for.
Held == {k \in Key : attrs[k] # Nil}

\* The attributes are, for every key, the last value that was accepted for it,
\* no more than the limit, and counted exactly: replacing a value at the limit
\* neither loses the key nor takes a second place
\* (nr_attributes_add_internal).
AttributesAgree ==
  /\ \A k \in Key :
       IF GivenTo(hist, k) = {} THEN attrs[k] = Nil
       ELSE /\ attrs[k] \in GivenTo(hist, k)
            /\ \A i \in GivenTo(hist, k) : i <= attrs[k]
  /\ numUser = Cardinality(Held)
  /\ numUser <= AttrLimit

\* Every outbound payload says of the trace what the transaction itself
\* reports at its end: an inbound payload is taken at most once and never
\* after an outbound one was made
\* (nr_txn_accept_distributed_trace_payload), even when the metric that
\* remembers it meets a full table.
TraceIsOne ==
  \A p \in payloads : p.id = trace.id /\ p.sampled = trace.sampled

\* The events recorded, if the settings let them be.
Taken ==
  IF opt.secure \/ ~opt.events THEN {} ELSE Recorded(hist, "event")

\* The reservoir of custom events keeps as many of the events recorded as it
\* has room for, none twice (nr_analytics_events_add_event).
ReservoirIsSample ==
  /\ seen = Cardinality(Taken)
  /\ Len(events) = IF seen < EventLimit THEN seen ELSE EventLimit
  /\ \A i \in DOMAIN events : events[i] \in Taken
  /\ \A i, j \in DOMAIN events : events[i] = events[j] => i = j

\* The calls in the history h that gave the transaction a name.
NamesGiven(h) == {i \in DOMAIN h : h[i].op = "name" /\ h[i].arg # Nil}

\* A transaction that gets a name gets the last one the application gave it
\* (newrelic_set_transaction_name), or the one it was started with.
NameIsLastGiven ==
  name # Nil =>
    /\ name.web = opt.web
    /\ IF NamesGiven(hist) = {} THEN name.type # 5 /\ name.path = 0
       ELSE /\ name.type = 5
            /\ name.path \in NamesGiven(hist)
            /\ \A i \in NamesGiven(hist) : i <= name.path
=============================================================================
