----------------------------- MODULE TxnOptions -----------------------------
(***************************************************************************)
(* From the configuration of an application to the options of its          *)
(* transactions: the program fills in a newrelic_app_config_t, creates the *)
(* application with it and may change or destroy it afterwards             *)
(* (config.c, app.c); newrelic_start_transaction turns the application's   *)
(* copy into options, and nr_txn_begin narrows these by what the collector *)
(* said when the application connected.                                    *)
(***************************************************************************)
EXTENDS Naturals, FiniteSets

CONSTANTS
  Micros,      \* durations, in microseconds
  HalfSecond,  \* the default threshold, one of Micros
  Reply,       \* the connect replies the collector may give
  MaxEdits,    \* bound on the changes the program makes to its configuration
  Nil

Sql == {"off", "obfuscated", "raw"}

\* newrelic_app_config_t; record_sql is an enumeration of C and may hold a
\* number that names nothing.
Config ==
  [tt_enabled : BOOLEAN, threshold : {"apdex", "over_duration"},
   duration : Micros, stack : Micros, ds_enabled : BOOLEAN,
   ds_threshold : Micros, record_sql : Sql \cup {"other"},
   instance : BOOLEAN, dbname : BOOLEAN, dt : BOOLEAN, span : BOOLEAN]

\* The events a transaction may have, what a security policy may refuse and
\* what the account may collect. "err" are errors, "error" error events.
Event == {"analytics", "custom", "error", "span"}
Refusable == {"custom", "raw_messages", "parameters"}
Collectable == {"analytics", "custom", "error", "err"}

\* What the connect reply says: which event limits are positive, what the
\* security policies refuse, the one on sql ("none" where there is no such
\* policy) and the flags of the account.
ReplyRecord ==
  [limit : SUBSET Event, sql_policy : {"none", "off", "on"},
   refused : SUBSET Refusable, collect : SUBSET (Collectable \cup {"traces"}),
   apdex : Micros]

ASSUME OptionsAssumption ==
  /\ Micros \subseteq Nat /\ {0, HalfSecond} \subseteq Micros
  /\ Reply \subseteq ReplyRecord
  /\ MaxEdits \in Nat
  /\ Nil \notin Config \cup ReplyRecord

VARIABLES
  given,     \* the program's configuration, Nil if there is none
  config,    \* the application's copy, Nil before there is one
  creation,  \* what the program's said when it created the application
  reply,     \* the connect reply, or Nil
  opts,      \* the options of the last transaction, or Nil
  edits

vars == <<given, config, creation, reply, opts, edits>>

----------------------------------------------------------------------------
\* What newrelic_create_app_config fills in.
Defaults ==
  [tt_enabled |-> TRUE, threshold |-> "apdex", duration |-> 0,
   stack |-> HalfSecond, ds_enabled |-> TRUE, ds_threshold |-> HalfSecond,
   record_sql |-> "obfuscated", instance |-> TRUE, dbname |-> TRUE,
   dt |-> FALSE, span |-> TRUE]

Init ==
  /\ given = Nil /\ config = Nil /\ creation = Nil
  /\ reply = Nil /\ opts = Nil
  /\ edits = 0

\* newrelic_create_app_config
CreateAppConfig ==
  /\ given = Nil
  /\ given' = Defaults
  /\ UNCHANGED <<config, creation, reply, opts, edits>>

\* The program changes a field.
Edit(f, v) ==
  /\ given # Nil
  /\ edits < MaxEdits
  /\ [given EXCEPT ![f] = v] \in Config
  /\ given' = [given EXCEPT ![f] = v]
  /\ edits' = edits + 1
  /\ UNCHANGED <<config, creation, reply, opts>>

\* newrelic_destroy_app_config
DestroyAppConfig ==
  /\ given # Nil
  /\ given' = Nil
  /\ UNCHANGED <<config, creation, reply, opts, edits>>

\* Mutant: distributed tracing is left at its default.
CopyNoTrace(g) ==
  [g EXCEPT !.instance = Defaults.instance, !.dbname = Defaults.dbname,
            !.dt = Defaults.dt]

\* The copy that newrelic_create_app makes: the defaults, with the transaction
\* tracer, distributed tracing and span events of the configuration it is given.
Copy(g) ==
  [g EXCEPT !.instance = Defaults.instance, !.dbname = Defaults.dbname]

CreateApp ==
  /\ given # Nil /\ config = Nil
  /\ config' = Copy(given)
  /\ creation' = given
  /\ \E r \in Reply : reply' = r
  /\ UNCHANGED <<given, opts, edits>>

\* newrelic_destroy_app
DestroyApp ==
  /\ config # Nil
  /\ config' = Nil /\ creation' = Nil /\ reply' = Nil /\ opts' = Nil
  /\ UNCHANGED <<given, edits>>

\* newrelic_validate_recordsql
ValidateRecordsql(s) == IF s \in Sql THEN s ELSE "obfuscated"

\* newrelic_get_default_options and newrelic_get_transaction_options.
TransactionOptions(c) ==
  [tt_enabled |-> c.tt_enabled,
   tt_slowsql |-> c.ds_enabled,
   tt_recordsql |-> ValidateRecordsql(c.record_sql),
   tt_is_apdex_f |-> c.threshold = "apdex",
   tt_threshold |-> IF c.threshold = "apdex" THEN 0 ELSE c.duration,
   ep_threshold |-> c.ds_threshold,
   ss_threshold |-> c.stack,
   instance |-> c.instance, dbname |-> c.dbname,
   dt |-> c.dt,
   enabled |-> (Event \cup Refusable \cup Collectable) \
               (IF c.span THEN {} ELSE {"span"})]

\* Mutant: raw sql is obfuscated only where the policy switches sql off.
PolicyLoose(r, s) == IF r.sql_policy = "off" THEN "obfuscated" ELSE s

\* nr_txn_enforce_security_settings: the format of sql.
PolicySql(r, s) ==
  IF r.sql_policy = "off" THEN "off"
  ELSE IF r.sql_policy = "on" /\ s = "raw" THEN "obfuscated"
  ELSE s

\* The events, errors, messages and parameters that stay enabled.
Kept(r, e) ==
  e \ ((Event \ r.limit) \cup r.refused \cup (Collectable \ r.collect))

\* nr_txn_begin and nr_txn_enforce_security_settings.
Narrow(r, o) ==
  [o EXCEPT !.tt_threshold = IF o.tt_is_apdex_f THEN 4 * r.apdex ELSE @,
            !.enabled = Kept(r, @),
            !.tt_recordsql = PolicySql(r, @),
            !.tt_enabled = @ /\ "traces" \in r.collect,
            !.tt_slowsql = @ /\ "traces" \in r.collect]

\* newrelic_start_transaction
StartTransaction ==
  /\ config # Nil
  /\ opts' = Narrow(reply, TransactionOptions(config))
  /\ UNCHANGED <<given, config, creation, reply, edits>>

Next ==
  \/ \E f \in {"tt_enabled", "ds_enabled", "instance", "dbname", "dt", "span"},
        v \in BOOLEAN : Edit(f, v)
  \/ \E f \in {"duration", "stack", "ds_threshold"}, v \in Micros : Edit(f, v)
  \/ \E v \in Sql \cup {"other"} : Edit("record_sql", v)
  \/ \E v \in {"apdex", "over_duration"} : Edit("threshold", v)
  \/ CreateAppConfig
  \/ DestroyAppConfig
  \/ CreateApp
  \/ DestroyApp
  \/ StartTransaction

Spec == Init /\ [][Next]_vars

----------------------------------------------------------------------------
\* Properties

\* Of what newrelic_create_app copies (the transaction tracer, distributed tracing
\* and span events), a transaction never records more than the program asked for
\* when it created the application, nor more than the collector and its policies
\* allow: raw sql needs both; events, errors, messages and parameters need the
\* collector (nr_txn_begin narrows, and later changes of the program's
\* configuration have no effect). The instance and database names of datastore
\* segments are excepted: they are not copied (app.c:40) and are reported even if
\* the program said no.
NeverMore ==
  opts # Nil =>
    /\ opts.tt_enabled => creation.tt_enabled /\ "traces" \in reply.collect
    /\ opts.tt_slowsql => creation.ds_enabled /\ "traces" \in reply.collect
    /\ opts.tt_recordsql = "raw" =>
         creation.record_sql = "raw" /\ reply.sql_policy = "none"
    /\ opts.tt_recordsql # "off" =>
         creation.record_sql # "off" /\ reply.sql_policy # "off"
    /\ opts.enabled \cap Event \subseteq reply.limit
    /\ opts.enabled \cap Collectable \subseteq reply.collect
    /\ opts.enabled \cap reply.refused = {}
    /\ "span" \in opts.enabled => creation.span
    /\ opts.dt => creation.dt

\* Where the collector allows everything, a transaction has the transaction
\* tracer, distributed tracing and span events that the program asked for
\* (newrelic_create_app and newrelic_get_transaction_options).
AllowedIsGranted ==
  opts # Nil =>
    /\ "traces" \in reply.collect =>
         /\ opts.tt_enabled = creation.tt_enabled
         /\ opts.tt_slowsql = creation.ds_enabled
    /\ reply.sql_policy = "none" /\ creation.record_sql \in Sql =>
         opts.tt_recordsql = creation.record_sql
    /\ "span" \in reply.limit => ("span" \in opts.enabled <=> creation.span)
    /\ (Event \cup Refusable \cup Collectable) \ {"span"} \subseteq
         opts.enabled \cup (Event \ reply.limit) \cup reply.refused
           \cup (Collectable \ reply.collect)
    /\ opts.tt_threshold = IF creation.threshold = "apdex" THEN 4 * reply.apdex
                           ELSE creation.duration
    /\ <<opts.ep_threshold, opts.ss_threshold, opts.dt>> =
         <<creation.ds_threshold, creation.stack, creation.dt>>
=============================================================================
