-------------------------- MODULE TxnOptionsProofs --------------------------
(***************************************************************************)
(* Proofs that the options of a transaction are those the program and the  *)
(* collector agreed to, but for the reporting of instance and database     *)
(* names, for any durations and any connect replies. The inductive         *)
(* invariant says where the options came from: the application's copy is a *)
(* Copy of the configuration at its creation, and the options are that     *)
(* copy, narrowed by the reply.                                            *)
(***************************************************************************)
EXTENDS TxnOptions, TLAPS

\* A leaf is given to Zenon for a second, to the SMT solver, and to both again.
USE ZenonT(1), SMTT(60), ZenonT(60), SMTT(90)

Provenance ==
  /\ given \in Config \cup {Nil}
  /\ creation \in Config \cup {Nil} /\ (creation = Nil <=> config = Nil)
  /\ reply \in Reply \cup {Nil}
  /\ creation # Nil => reply # Nil /\ config = Copy(creation)
  /\ opts # Nil =>
       creation # Nil /\ opts = Narrow(reply, TransactionOptions(config))

\* newrelic_create_app_config gives a configuration.
LEMMA DefaultsTyped == Defaults \in Config
BY OptionsAssumption DEF Defaults, Config, Sql

\* The copy that newrelic_create_app makes is a configuration.
LEMMA CopyTyped == ASSUME NEW g \in Config PROVE Copy(g) \in Config
BY DEF Copy, Defaults, Config

\* The program's configuration, the application's copy and the options stay in
\* step, whatever the program does to its configuration in between.
THEOREM ProvenanceKept == Spec => []Provenance
<1>1. Init => Provenance
  BY DEF Init, Provenance
<1>2. Provenance /\ [Next]_vars => Provenance'
  <2> SUFFICES ASSUME Provenance, [Next]_vars PROVE Provenance'
    OBVIOUS
  <2>1. ASSUME NEW f, NEW v, Edit(f, v) PROVE Provenance'
    BY <2>1 DEF Provenance, Edit
  <2>2. CASE CreateAppConfig
    BY <2>2, DefaultsTyped DEF Provenance, CreateAppConfig
  <2>3. CASE DestroyAppConfig
    BY <2>3 DEF Provenance, DestroyAppConfig
  <2>4. CASE CreateApp
    <3>1. given \in Config /\ Copy(given) \in Config
      BY <2>4, CopyTyped DEF CreateApp, Provenance
    <3>2. given # Nil /\ Copy(given) # Nil
      BY <3>1, OptionsAssumption
    <3>3. reply' \in Reply /\ reply' # Nil
      BY <2>4, OptionsAssumption DEF CreateApp
    <3> QED BY <2>4, <3>1, <3>2, <3>3 DEF Provenance, CreateApp
  <2>5. CASE DestroyApp
    BY <2>5 DEF Provenance, DestroyApp
  <2>6. CASE StartTransaction
    BY <2>6 DEF Provenance, StartTransaction
  <2>7. CASE UNCHANGED vars
    BY <2>7 DEF Provenance, vars
  <2> QED BY <2>1, <2>2, <2>3, <2>4, <2>5, <2>6, <2>7 DEF Next
<1> QED BY <1>1, <1>2, PTL DEF Spec

\* What the options are, field by field: nr_txn_begin after
\* newrelic_get_transaction_options.
LEMMA Fields ==
  ASSUME NEW g \in Config, NEW r \in ReplyRecord
  PROVE  LET o == Narrow(r, TransactionOptions(Copy(g))) IN
         /\ o.tt_enabled = (g.tt_enabled /\ "traces" \in r.collect)
         /\ o.tt_slowsql = (g.ds_enabled /\ "traces" \in r.collect)
         /\ o.tt_recordsql = PolicySql(r, ValidateRecordsql(g.record_sql))
         /\ o.tt_threshold = IF g.threshold = "apdex" THEN 4 * r.apdex
                             ELSE g.duration
         /\ o.ep_threshold = g.ds_threshold
         /\ o.ss_threshold = g.stack
         /\ o.dt = g.dt
         /\ o.enabled = Kept(r, (Event \cup Refusable \cup Collectable) \
                                (IF g.span THEN {} ELSE {"span"}))
<1> DEFINE c == Copy(g)
<1>1. /\ c.tt_enabled = g.tt_enabled /\ c.ds_enabled = g.ds_enabled
      /\ c.record_sql = g.record_sql /\ c.threshold = g.threshold
      /\ c.duration = g.duration /\ c.ds_threshold = g.ds_threshold
      /\ c.stack = g.stack /\ c.dt = g.dt /\ c.span = g.span
  BY DEF Copy, Config
<1> HIDE DEF c
<1>2. LET o == Narrow(r, TransactionOptions(c)) IN
         /\ o.tt_enabled = (c.tt_enabled /\ "traces" \in r.collect)
         /\ o.tt_slowsql = (c.ds_enabled /\ "traces" \in r.collect)
         /\ o.tt_recordsql = PolicySql(r, ValidateRecordsql(c.record_sql))
         /\ o.tt_threshold = IF c.threshold = "apdex" THEN 4 * r.apdex
                             ELSE c.duration
         /\ o.ep_threshold = c.ds_threshold
         /\ o.ss_threshold = c.stack
         /\ o.dt = c.dt
         /\ o.enabled = Kept(r, (Event \cup Refusable \cup Collectable) \
                                (IF c.span THEN {} ELSE {"span"}))
  BY DEF Narrow, TransactionOptions
<1> QED BY <1>1, <1>2 DEF c

\* But for the instance and database names of datastore segments, a transaction
\* never records more than the program asked for and the collector allows
\* (newrelic_start_transaction, nr_txn_begin), for all durations, replies and
\* sequences of changes to the configuration.
THEOREM NothingMore == Spec => []NeverMore
<1>1. Provenance => NeverMore
  <2> SUFFICES ASSUME Provenance, opts # Nil PROVE NeverMore
    BY DEF NeverMore
  <2>1. /\ creation \in Config /\ reply \in ReplyRecord
        /\ opts = Narrow(reply, TransactionOptions(Copy(creation)))
    BY OptionsAssumption DEF Provenance
  <2>2. /\ opts.tt_enabled => creation.tt_enabled /\ "traces" \in reply.collect
        /\ opts.tt_slowsql => creation.ds_enabled /\ "traces" \in reply.collect
        /\ opts.dt => creation.dt
    BY <2>1, Fields, ZenonT(60)
  <2>3. opts.tt_recordsql =
          PolicySql(reply, ValidateRecordsql(creation.record_sql))
    BY <2>1, Fields
  <2>4. /\ opts.tt_recordsql = "raw" =>
             creation.record_sql = "raw" /\ reply.sql_policy = "none"
        /\ opts.tt_recordsql # "off" =>
             creation.record_sql # "off" /\ reply.sql_policy # "off"
    BY <2>1, <2>3 DEF PolicySql, ValidateRecordsql, Sql, Config, ReplyRecord
  <2>5. opts.enabled =
          Kept(reply, (Event \cup Refusable \cup Collectable) \
                      (IF creation.span THEN {} ELSE {"span"}))
    BY <2>1, Fields
  <2>6. /\ opts.enabled \cap Event \subseteq reply.limit
        /\ opts.enabled \cap Collectable \subseteq reply.collect
        /\ opts.enabled \cap reply.refused = {}
        /\ "span" \in opts.enabled => creation.span
    BY <2>5 DEF Kept
  <2> QED BY <2>2, <2>4, <2>6 DEF NeverMore
<1> QED BY <1>1, ProvenanceKept, PTL

\* Where the collector allows it, a transaction has what the program asked for
\* (newrelic_create_app copies all of it but the datastore tracer).
THEOREM NothingLess == Spec => []AllowedIsGranted
<1>1. Provenance => AllowedIsGranted
  <2> SUFFICES ASSUME Provenance, opts # Nil PROVE AllowedIsGranted
    BY DEF AllowedIsGranted
  <2>1. /\ creation \in Config /\ reply \in ReplyRecord
        /\ opts = Narrow(reply, TransactionOptions(Copy(creation)))
    BY OptionsAssumption DEF Provenance
  <2>2. creation.tt_enabled \in BOOLEAN /\ creation.ds_enabled \in BOOLEAN
    BY <2>1 DEF Config
  <2>3. "traces" \in reply.collect =>
          /\ opts.tt_enabled = creation.tt_enabled
          /\ opts.tt_slowsql = creation.ds_enabled
    BY <2>1, <2>2, Fields
  <2>4. opts.tt_recordsql =
          PolicySql(reply, ValidateRecordsql(creation.record_sql))
    BY <2>1, Fields
  <2>5. reply.sql_policy = "none" /\ creation.record_sql \in Sql =>
          opts.tt_recordsql = creation.record_sql
    BY <2>4 DEF PolicySql, ValidateRecordsql
  <2>6. opts.enabled =
          Kept(reply, (Event \cup Refusable \cup Collectable) \
                      (IF creation.span THEN {} ELSE {"span"}))
    BY <2>1, Fields
  <2>7. /\ "span" \in reply.limit => ("span" \in opts.enabled <=> creation.span)
        /\ (Event \cup Refusable \cup Collectable) \ {"span"} \subseteq
             opts.enabled \cup (Event \ reply.limit) \cup reply.refused
               \cup (Collectable \ reply.collect)
    <3>1. reply.refused \subseteq Refusable
      BY <2>1 DEF ReplyRecord
    <3> QED BY <2>6, <3>1 DEF Kept, Event, Refusable, Collectable
  <2>8. /\ opts.tt_threshold = IF creation.threshold = "apdex"
                              THEN 4 * reply.apdex ELSE creation.duration
        /\ <<opts.ep_threshold, opts.ss_threshold, opts.dt>> =
             <<creation.ds_threshold, creation.stack, creation.dt>>
    BY <2>1, Fields
  <2> QED BY <2>3, <2>5, <2>7, <2>8 DEF AllowedIsGranted
<1> QED BY <1>1, ProvenanceKept, PTL

\* Transactions report the names of instances and databases.
NamesReported == opts # Nil => opts.instance /\ opts.dbname

\* What a program says of the names of instances and databases has no effect:
\* its datastore_tracer is not copied (app.c:40), and nothing narrows it later.
THEOREM DatastoreTracerIgnored == Spec => []NamesReported
<1>1. ASSUME NEW g \in Config
      PROVE  Copy(g).instance = TRUE /\ Copy(g).dbname = TRUE
  BY DEF Copy, Defaults, Config
<1>2. ASSUME NEW c, NEW r
      PROVE  LET o == Narrow(r, TransactionOptions(c)) IN
             o.instance = c.instance /\ o.dbname = c.dbname
  BY DEF Narrow, TransactionOptions
<1>3. Provenance => NamesReported
  <2> SUFFICES ASSUME Provenance, opts # Nil PROVE opts.instance /\ opts.dbname
    BY DEF NamesReported
  <2>1. /\ creation \in Config /\ config = Copy(creation)
        /\ opts = Narrow(reply, TransactionOptions(config))
    BY DEF Provenance
  <2> QED BY <1>1, <1>2, <2>1
<1> QED BY <1>3, ProvenanceKept, PTL
=============================================================================
