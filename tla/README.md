# TLA+ models of the New Relic C SDK, its agent library and its daemon

Paths are relative to the repository; `axiom/` stands for
`src/vendor/newrelic/axiom/`, `newrelic/` and `daemon/` for the directories of
that name under `src/vendor/newrelic/src/`, and `sdk/` for `src/src/`.

## 1. The system

An instrumented program links the C SDK (`sdk/`), a thin API over the *axiom*
agent library. Axiom records a transaction as a tree of segments with what the
program noted on it, and sends the finished transaction over a local socket to
a *daemon* written in Go. The daemon aggregates what all agents send, connects
each application to the *collector* over HTTPS and harvests every minute.

    program threads -> C SDK -> axiom: transaction, segments, list of applications
                                  |
                                  |  one socket per process: APPINFO query and
                                  v  reply, TXNDATA
        watcher -> worker: listener -> Processor <-> ConnectApplication goroutines
                                          ^   |          -> collector
                       harvest triggers --+   +-> harvestPayload goroutines
                                                         -> collector

### Inventory

| part | source | state | operations | what makes it hard |
|---|---|---|---|---|
| Processor | `newrelic/processor.go`, `app.go` | `p.apps`, `p.harvests`, the App objects, goroutines under way | the handlers of `Run`, `CleanExit` | connect attempts overlap and answer late; harvest events of runs that were shut down; agents keep run ids across restarts |
| SDK calls on a transaction | `sdk/transaction.c`, `segment.c`, `datastore.c`, `external.c` | the transaction's lock, the wrappers the program holds | start, reparent, time and end segments; end, ignore, name the transaction | threads share a transaction, and not every path takes its lock |
| Segment tree | `axiom/nr_segment*.c`, `util_stack.c`, `nr_txn.c` | parents, children, stacks of current segments, `segment_count` | start, set parent, end, discard, deinit | segments end in any order, move while the tree grows and vanish from its middle |
| Transaction record | `axiom/nr_txn.c`, `nr_errors.c`, `nr_attributes.c`, `nr_analytics_events.c`, `util_metrics.c`, `nr_distributed_trace.c`, `sdk/error.c`, `attribute.c`, `custom_*.c`, `distributed_trace.c` | name, error, attributes, metrics, events, trace | the recording calls, the decision to send | limits, priorities, and payloads made and taken in any order |
| Options | `sdk/config.c`, `sdk/app.c`, `axiom/nr_txn.c` | the configuration, its copy, the connect reply | change, copy, derive, narrow | the program may change or free its configuration; limits, policies and flags narrow one record |
| Applications of a process | `axiom/nr_app.c`, `cmd_appinfo_transmit.c`, `sdk/app*.c` | the list, two kinds of locks, run ids, back-off | create, refresh, start and end a transaction | locks are held while the daemon is waited for; one path takes none |
| Connection | `axiom/nr_agent.c`, `cmd_*_transmit.c` | the descriptor, its state, the mutex | connect, exchange, close | the descriptor is fetched, used and closed in three critical sections; answers come late |
| Adaptive sampling | `axiom/nr_app_harvest.c` | counters of a harvest cycle | decide, next cycle | unsigned conversions of real powers |
| Traces, spans, exclusive time | `axiom/nr_segment_traces.c`, `nr_span_event.c`, `nr_exclusive_time.c`, `util_minmax_heap.c` | heaps, intervals | walks of the tree | limits; overlapping children |
| Harvest triggers | `newrelic/harvest_trigger.go`, `app_harvest.go` | channels, tickers | trigger, cancel, drain | channels that block both ways while a run is closed |
| Harvested data | `newrelic/harvest.go`, `analytics_events.go`, `*_events.go`, `metrics.go`, `txn_traces.go`, `slow_sqls.go` | reservoirs, heaps, tables of a run | add, merge after a failure, harvest by type | the goroutine that sends reads what the processor may still change |
| Supervision | `daemon/*.go`, `newrelic/pidfile.go` | processes, the pid file | spawn, respawn, exit | races of several daemons for one file |
| Listener, messages, collector client | `newrelic/listener.go`, `commands.go`, `client.go`, `collector/` | connections | frame, decode, post | encodings and I/O |
| Initialisation and exit | `sdk/global.c` | log, connection, handler at exit | configure the log, init, shut down | only an initialisation that succeeded registers the handler that closes things |
| Example programs | `src/examples/*.c` | what a program owns; the request and response files | the statements of each `main` | any call may fail; client and server talk through two files and either may be killed |
| Rules, containers, strings | `axiom/nr_rules.c`, `util_*.c`, `sdk/stack.c`, `version.c` | none shared | string rewriting, data structures | sequential |

`PROJECT.json` has the same list with what is modelled of each, and the hazards
with the line at which each bites and the properties that watch it.

## 2. The modules

Each component has a module `M` with its state, actions and properties; `MCM`
adds what TLC needs (symmetry, values of structured constants); `MProofs` has
the theorems (those about SegmentTree are in SdkTransactionProofs, whose last theorems rest
on them). The comments name the C or Go function that a definition stands
for; `map` in `PROJECT.json` gives its lines. Definitions marked *Mutant* are
deliberate mistakes that the properties must notice; no specification uses
them.

**Processor.** One action per message that the select loop of `Run` receives,
since a handler runs to its end before the next receive: `processAppInfo` (an
application that is known, new, or beyond the limit), `processTxnData`,
`processConnectAttempt` (success and each refusal), `processHarvestError`
(restart and final), `doHarvest` (with and without removal of an idle
application), and the goroutines that feed them, as counters of what is still
to be received. Each App has two flags for its two clocks, whether the last
connect attempt is younger than the back-off and the last activity younger than
the timeout; actions let them expire at any time. `CleanExit` and the loss of all
tables when the worker respawns are actions too. External: what the collector
answers.

**AppRuns** is the abstract specification of the daemon as agents see it: per
application the runs that were given, those that are alive and the one that is told.
A run is given once, ends once, and is told only while it is alive. Processor
implements it (`ImplementsRuns`, an `INSTANCE` whose mapping reads the three
functions off `p.apps`, `p.harvests` and the App objects), and AgentApp has an instance
of it as its daemon, so that what is shown of an agent holds with the
real processor behind it.

**Harvest.** One run inside the daemon, which Processor knows only as an open entry.
The goroutines of `harvest_trigger.go` (a ticker each, a group when the collector asks
for different periods), the one that forwards to the processor and the one of
`Close`, over unbuffered channels; and the data: what the processor aggregates,
`harvestByType`, the payload goroutines, refusals, merges and giving up. The kinds of
data do not interact, so a behaviour follows one of them. Payloads have the number of
their harvest, so that two goroutines which send the same stay two. The span events that
a harvest of default data sends without replacing the collection are a payload
*shared* with the harvest: the sender reads any part of what is there. Where the
collector gave rules to rename metrics, `ApplyRules` sends a new table in place of the
old one, without its count of failed attempts.

**SegmentTree.** `parent`, `children` (how often each segment occurs in each
array: the order is abstracted, doubled entries are not), the stack of every
async context, `segment_count` and the transaction's status. The loop of
`nr_segment_set_parent` along the ancestors is stated as membership in every
set that is closed under parents, which needs no recursion and can be proved
about.

**SdkTransaction** extends SegmentTree with threads. A call is: take the lock (if
the call finds one), body, unlock, and what it does to the wrapper afterwards.
Custom, datastore and external segments differ in their locks and in what they own.
`nr_segment_set_parent` is two steps, its check and its change, because without
a lock another call may come between them. `ImplementsTree` says that this
specification implements SegmentTree's (the refinement mapping is the
identity on the tree's variables).

**TxnRecord.** One action per recording call, atomic because the transaction's
lock is held. The n-th call stands for the strings it passes, so "the last name
given" is a number; `hist` records what the program did and which calls were
accepted, and the properties compare what the transaction holds with it.
`EndTransaction` models `newrelic_end_transaction`: rules, freezing of the name and the
three ways it ends.

**TxnOptions.** The configuration the program edits, the copy
`newrelic_create_app` takes, the options `newrelic_get_transaction_options`
derives and their narrowing in `nr_txn_begin` by limits, security policies and
account flags.

**AgentApp.** Threads that search and extend the list of applications under its lock
and each application's, ask the daemon at the times that
`nr_agent_should_do_app_daemon_query` says, and start and end transactions. Time
is the age of the last query of each application; it may jump back. The exchange
with the daemon is one step that may fail; the daemon itself is AppRuns, which gives,
ends and withdraws runs and starts anew at any time. `overlapped` remembers that two
calls were under way at once, which `newrelic_start_transaction` is not made for
(section 4).

**DaemonConnection.** The same threads one level down: the descriptor, its mutex,
the commands and answers on the way on each socket. The daemon answers in
order and at any time, the deadline of a query may pass at any time, and the
program opens and closes files of its own that reuse descriptors. What happens
under the mutex without waiting is one step.

**ExamplePrograms.** Every example is the sequence of the calls of its `main`, each
with what happens when it fails (the program goes on, returns or crashes). A call
allocates, opens and frees what the SDK's code does on success and on failure; at the
end the handler runs if one was registered. The two distributed tracing examples run
together as well, with the two files they share, and may be killed and started again.

How they fit together: SdkTransaction composes the tree with the threads that use
it. AgentApp treats an exchange with the daemon as one step that may fail, and
DaemonConnection shows when that is a fair picture: always with one thread
(theorem `SingleThread`), with several as long as no thread gives up an answer it
waits for (theorem `PatientThreads`), and not once one has (run
`daemon_connection_answers`). AppRuns stands between AgentApp and Processor: the one
relies on it and the other implements it. Harvest details one run of Processor, from
its first tick to the end of its channels.

## 3. The runs

| run | instance | checks | states |
|---|---|---|---|
| `processor` | two applications, two App objects, one run id, room for one application, two connect attempts at a time | `TablesAgree`, `ConnectedHasHarvest`, that agents see what AppRuns promises (`ImplementsRuns`), that waiting applications are answered (`EventuallyAnswered`) and idle runs end (`InactiveRunEnds`) | 172,398 |
| `processor_clean_exit` | one of each | *violated:* `CleanExitReturns` | |
| `segment_tree` | four segments under a root, two contexts | the tree is one (`TreeConsistent`, `Acyclic`, `Rooted`), its current segments live (`StackLive`), its count exact (`CountMatches`) | 28,780 |
| `sdk_transaction` | two threads, two segments of any kind (only custom ones are reparented) under a root, six calls of every kind | the whole implements SegmentTree (`ImplementsTree`), wrappers point to live segments (`OwnedIsLive`), what is freed leaks nothing (`NothingLeaks`) and every call returns (`CallsReturn`) | 267,785 |
| `sdk_transaction_cycle` | two threads, two datastore segments | *violated:* `Acyclic` | |
| `txn_record` | three calls of every kind on a transaction with room for two attributes, one metric and two events | five properties that relate what is kept to the history of calls | 926,888 |
| `daemon_connection` | two threads, three calls, two descriptors, a good or malformed address | `OneConnection`, `CallsReturn` | 105,401 |
| `daemon_connection_answers` | two threads, two applications | *violated:* `AnswersMatch` | |
| `agent_app` | two threads, two handles, two names, room for one, two runs, one fault (a lost exchange, a run or application the daemon drops, a restart of the daemon, a clock set back) | the list is a set, what is found is had by one thread, no thread waits for ever for a lock (`NeverStuck`), transactions carry runs that were given (`RunIsGiven`) and are refused only if the daemon said so (`RefusedUnlessOk`), an unknown application recovers (`Recovers`) | 511,205 |
| `txn_options` | three changes to the configuration, six kinds of replies | transactions record what both sides agreed to, no more and no less, but for the names of instances and databases | 125,682 |
| `harvest` | metrics, errors, transaction events and span events, each alone, with one trigger or a group of two or three, one or two transactions, collections that overflow or are split, metrics with rules or without, two attempts, payloads of two harvests at a time | no data is lost (`NothingLost`) or accepted twice (`SentOnce`), nothing is sent on a closed channel (`NoSendAfterClose`), a run that is shut down ends (`CloseEnds`), retries end, but for metrics with rules (`EventuallySettled`) | 61,099 |
| `examples` | each of the nine examples alone with every call failing or not; client and server together, three runs of each, one kill | memory, log and socket are released (`FreedAtExit`), a response means the request was handled (`HandledWhenReleased`), a waiting client is released (`ClientReleased`) | 285,336 |

**Why the bounds are enough.** Two threads are enough for every race that the
modules show, because each is between one call and one other that comes between
two of its steps; in `segment_tree` three segments make a cycle that no pair does,
and the fourth gives a subtree that moves. `sdk_transaction` is about the interleaving
of calls and has two segments besides the root, enough for each thread to move one
under the other. `AppLimit` is 0 in `processor` since the code
admits one application more than the limit: with two keys both sides of the
comparison occur. One run id keeps the liveness check small; runs that follow
one another are covered by the theorems, which hold for any set of run ids. In
`txn_record` every limit is below the number of calls, so every table
overflows. In `agent_app` the periods are the smallest that keep their order: the
back-off (1) grows once to its limit (2), which is below the refresh period (3). Its one
fault comes at any step of either thread; a daemon that has not connected yet, or answers
later, is no fault and as frequent as it likes. In `harvest` the
group has a member that touches the kind of data, the default one and, with errors, a
third, so that a member waits to send while another is being cancelled; one span event
is enough since it is never replaced. Payloads of up to two harvests are under way at a
time (`MaxHarvests`), enough for refusals to arrive in either order and for a shared payload
beside one that was replaced; with three TLC takes 14 minutes and finds no error. `CHECK_DEADLOCK FALSE` is
set where the bound on calls, or the exit of the process, ends every behaviour.

**Symmetry** is used in runs without liveness or action properties only.

**Fairness.**
- *Processor:* Go runs every goroutine that can run, HTTP requests have a
  timeout, tickers fire. Agents without a live run ask again, as
  `nr_agent_should_do_app_daemon_query` makes them (`agent_app` shows it).
  Success of a connect attempt has strong fairness: an application is answered if
  the collector does not fail every attempt. `Quit` and `Respawn` have none.
- *SdkTransaction, DaemonConnection, AgentApp:* a thread inside a call goes on;
  taking a mutex that is free again and again has strong fairness, and so has
  giving up after `newrelic_create_app`'s time limit. The daemon owes
  DaemonConnection nothing, since every exchange has a deadline; for
  `Recovers` it connects at last, time passes and the program goes on calling. A last query
  further in the future than the ages that are followed need not come nearer, since the
  clock may be set back by any amount: the code has to notice it.
- *Harvest:* tickers fire, goroutines run and calls to the collector return. A Go
  channel serves its senders in order and a `select` takes each of its ready cases
  some time, so a trigger that wants to send is received from (strong fairness of
  `Forward`) and the cancellation of a member that comes back to its `select` again
  and again is taken (strong fairness of `CancelMember`).
- *ExamplePrograms:* a process that is not waiting runs on, and a file that is there
  is seen by the next poll. Nobody has to start a program, and kills have no fairness.

## 4. What the models show that a text of the repository denies

Runs with a counterexample:

- **`CleanExit` may never return** (`newrelic/processor.go:450`). Called in
  blocking mode, `harvestPayload` sends a collector error on a channel whose only
  reader, `Run`'s loop, has just been ended.
- **Two threads can close a cycle in the segment tree** (`sdk/datastore.c:107`,
  also external.c). These two start functions leave the wrapper's `txn_lock` NULL,
  so `newrelic_set_segment_parent` locks nothing and the check of one call and the
  change of another interleave.
- **An answer can go to the wrong query** (`axiom/cmd_appinfo_transmit.c:455`).
  A connection that timed out is closed after the mutex is released; a thread that
  had fetched the descriptor before asks on it and reads the late answer.

The following come out of the same modules with other constants or a one-line
property. They have no run of their own.

- `DaemonConnection` with `Address = {"unresolvable"}` violates `CallsReturn`:
  `nr_agent_initialize_daemon_connection_parameters` returns with the mutex locked
  when the host name does not resolve (`axiom/nr_agent.c:304`).
- With two threads it violates `NoStrayWrite`: between fetching the descriptor and
  writing to it, it may be closed and reused (`sdk/transaction.c:80`). The header
  of `nr_get_daemon_fd` warns of this.
- `AgentApp` violates `RunIsGiven` and `RefusedUnlessOk` without their condition that
  no calls overlap:
  `newrelic_start_transaction` refreshes the application without its lock
  (`sdk/transaction.c:110`), so another may copy the run while it is replaced or
  find the application unknown during the exchange.
- `newrelic_create_app` also succeeds with an application that is invalid
  (action `Connected`; `axiom/nr_app.c:487`, the header says NULL).
- `SdkTransaction` with a segment started after the transaction was ignored sets
  `crashed`: `newrelic_start_segment` stores through a NULL wrapper when the segment
  was refused (`sdk/segment.c:116`). `newrelic_ignore_transaction` and
  `newrelic_set_transaction_name` take no lock (`sdk/transaction.c:159`).
- `TxnRecord`: a NULL transport type gives a web transaction `HTTP`, the header
  says `Unknown` (`axiom/nr_txn.c:2671`); `newrelic_record_custom_metric` answers
  true for a metric that a full table drops (`axiom/nr_txn.c:2487`).
- `TxnOptions`: `newrelic_create_app` does not copy `datastore_tracer`
  (`sdk/app.c:40`), so `instance` and `dbname` stay true; the header calls them
  "Configuration which controls whether datastore instance names are reported"
  (`libnewrelic.h:286`). `NeverMore` and `AllowedIsGranted` except the two, and theorem
  `DatastoreTracerIgnored` shows that no configuration has an effect on them.
- `TxnRecord`: when the run that a transaction began with is gone at its end, its name is
  not built and it is sent without one (`axiom/nr_txn.c:778`), which `NameIsLastGiven`
  allows.
- `Processor`: AppLimit + 1 applications are admitted (`processor.go:323`); a
  connect attempt that fails late marks a connected application as unknown or
  refused while its run lives on, and the harvest event of a run that was shut down removes
  the application that is now filed under the key (`processor.go:374`, `:596`).
  `ConnectedHasHarvest` is the direction that still holds.
- `Harvest`: a comment says that the default data comprises four kinds
  (`processor.go:519`); span events are sent with it too, and not reset (`:533`, `:546`),
  so with periods of their own they are sent again, which is why `SentOnce` excepts
  them. The failures of the payload that was merged last replace the harvest's own
  count (`analytics_events.go:139`), so an event may be retried more often than
  the limit says; `EventuallySettled` shows that retries end all the same once no more
  transactions come.
- `Harvest`: refused metrics are retried for ever where the collector gave rules for
  metrics. `EventuallySettled` without its condition `~rules` is violated under
  `FairSpec`: harvest, refusal, merge and again. "If FailedMetricAttemptsLimit attempts
  have been made, the metrics in from are discarded" (`metrics.go:149`), but every harvest
  copies them to a table whose `failedHarvests` is 0 (`metrics.go:364`,
  `processor.go:485`, `:527`). Theorem `RulesForgetFailures` proves that no table
  of such metrics ever knows of more than one failed attempt.
- `ExamplePrograms`: "When passed to newrelic_record_custom_event, the custom event will
  be freed" (`libnewrelic.h:1001`) is not so with a NULL transaction
  (`sdk/custom_event.c:26`). The options are leaked when `nr_txn_begin` fails
  (`sdk/transaction.c:126`). An initialisation that failed leaves the log, and perhaps a
  socket that is connecting, without a handler that closes them (`sdk/global.c:98`). The
  examples use `config` without a check and end there when the license has not 40
  characters; ex_distributed_tracing_server.c reads the request's payload a second time and
  leaks that buffer (`:102`). `FreedAtExit` says
  what may be left and when. With files left over by an earlier client, a client that
  was killed or a request that takes longer than a second to write, a response
  may be one to another request: the conditions of `HandledWhenReleased`.

## 5. What is proved

TLAPS checks these for every value of the constants, under the named `ASSUME`s of
each module (the bounds are natural numbers, `Nil` is apart, the root is
a segment). No set of keys, segments, threads or runs is assumed to be finite.

- **ProcessorProofs.** `TypeCorrect`, `ConnectedRunIsLive` and `TablesAlwaysAgree`.
  `ConnectedHasHarvest` is not inductive: an event names a run, and the handler
  changes the application of that run. `TablesAgree` says that the two lead to
  each other (an App is filed under its key, a run belongs to the App that
  got it). The conjunction with `TypeOK` is inductive; there is a lemma per handler,
  and three lemmas for the shapes the handlers share (an App changes, a run ends,
  an idle application goes). `RunsImplemented`: the processor implements AppRuns. Each
  handler changes what agents see by one abstract step or not at all; the lemmas say
  what the three mapped functions are before and after for the same
  shapes. The delicate ones are a late failure of a connect attempt, which withdraws a
  run that stays alive, and the restart after a harvest error, which ends a run
  and may withdraw a newer one. `RunsStayOwn` carries over what AppRuns itself keeps:
  a run is of one application, and what is told is alive and was given.
- **DaemonConnectionProofs.** `TypeCorrect`, `AlwaysOne` (`OneConnection`, and the
  socket is never one of the program's files) and, under the hypothesis that there is
  one thread, `SingleThread`: `AnswersMatch` and `NoStrayWrite`. Its invariant says
  that whenever the thread is not waiting, nothing on the connection will be
  answered any more, and that while it waits exactly the last command will be.
  `PatientThreads` is `AnswersMatch` for any number of threads, in behaviours where no
  `Receive` step fails (`NoneGivesUp`); its invariant says the same of the thread that
  holds the mutex, and that nobody else is in an exchange.
- **TxnOptionsProofs.** `NothingMore` and `NothingLess`, from `ProvenanceKept`:
  what a transaction has is a function of the configuration at the creation of the
  application and of the reply, whatever the program did to its own since. Both except the
  reporting of instance and database names; `DatastoreTracerIgnored` says why.
- **AgentAppProofs.** `OneEntryEach` and `FoundForOne`. The invariant says where a thread
  is: while it searches it has the list's lock, nothing it has passed is what it looks
  for and the list is as long as when it began; where it counts on having an
  application for itself it holds its lock. The first gives that an
  application is added only if it is in no place, the second that two threads never have
  the same. The refresh in `newrelic_start_transaction`, which takes no lock, changes
  neither the list's length nor a name.
  `LocksAreReturned` (`NeverStuck`) needs the converse, who has a lock: the list's is
  had by a thread that searches, an application's by one that found it, that of a
  `newrelic_app_t` by one that copies the run. The last two need no
  lock, so a chain of waiting threads has at most two links and a call that returned has
  left none locked. `RunsAreGiven`: as long as calls do not
  overlap, the one thread that is in a call has read of its application what the
  application still has, an application that is known has a run that the daemon gave it,
  and so has every transaction. What was given stays given when the daemon ends runs,
  withdraws them or starts anew. `RefusedOnlyUntold` (`RefusedUnlessOk`, an action property): an
  application which the daemon said is connected is known, or some thread is asking about it
  again; where calls do not overlap that thread is the one that would be refused, and
  it has its answer by then.
- **SdkTransactionProofs.** First the tree itself (module SegmentTree): `AlwaysTree`, `NeverCyclic`, `AlwaysRooted`, `CurrentIsLive`,
  `CountIsExact`, `TypeCorrect`. They need each other: a discarded segment on a stack would become
  a parent again, a cycle would make a subtree unreachable, so the inductive
  invariant is all of them with the root's state. That reparenting closes no cycle
  is the heart: the set of p's ancestors is closed and without s, so a set without
  an exit would have been one before. That discarding closes none goes the other way: the
  set with the discarded segment added would have had no exit before.
  Then the calls of any number of threads on it (module SdkTransaction). `UseInv` says who uses what: a call that starts or ends a segment has it for
  itself, one that moves it uses wrappers the program owns, an owned wrapper points to a live
  segment until the call that ends it is past its body. It gives `WrappersAreLive`
  (`OwnedIsLive`) and `FreedWhole` (`NothingLeaks`). `LockInv` and `CompleteInv` say that
  a call that takes the lock of the transaction has it from its body to its unlock, that what
  `nr_segment_set_parent` looked at is still so when it changes the tree, and that the call
  which ends the transaction is alone. With these every step is one of SegmentTree or
  changes nothing of the tree: `CallsAreAtomic` (`ImplementsTree`). It has the hypothesis that
  only custom segments are moved (`Moved \subseteq {"custom"}`), as in the run: without it
  ApplyInv fails and so does the theorem (run `sdk_transaction_cycle`). `TreeUnderThreads` then
  carries the theorems about the tree over to the threads.
- **TxnRecordProofs.** The five properties of TxnRecord, for any limits, keys, priorities and
  number of calls. A call is appended to the history, so each proof says what the
  set of calls in question becomes: `NameLast` (`NameIsLastGiven`) from the path before the
  end, `ErrorHighest` (`ErrorIsHighest`) from the fact that a transaction records until it is
  ignored, `AttributesAgreeWithCalls` and `ReservoirSample` with the finite sets whose sizes the
  counters are, and `TraceOne` (`TraceIsOne`) from `MarkInv`: an outbound
  payload has left its metric behind, which a full table does not drop.
- **HarvestProofs.** `ChannelClosedLast`: the members before the one whose turn it is are
  done, so all are when the channels are closed. `NothingIsLost` and `AcceptedOnce`: the
  harvest, the payloads and what was accepted are apart and together with what was given
  up are all there is; a split of a payload is a partition, a merge moves a payload back.
  They hold for any group of triggers, capacity, limit of attempts and number of
  transactions. `RulesForgetFailures`: with rules a payload's count is always 0, so that of
  the harvest, which is merged from one payload, is at most 1.
- **ExampleProgramsProofs.** `ExamplesFree` (`FreedAtExit`): the eight programs that come to an
  end have one shape (`Text`), early statements, the start of the application and of the
  transaction, the work, and their ends. `Does` says what each call of the SDK may change,
  failed or not; `Stage` says for every place what a process may hold there. In the
  work the delicate part is that what is held still has its end before it (`Working`),
  also after the client's jump over its file operations. `Sound` ties the handler at exit to the
  list of applications: where no handler runs there is no list and no application either. `ReleasedMeansHandled` (`HandledWhenReleased`): the inductive invariant `FileInv` says
  that a request which exists is of the client that is running, that it is gone before
  there is a response, and that a server which has opened a request and not answered yet
  works for the client that is waiting. It holds until a fault the property excuses: a client
  that is killed while the server works for it is followed by one that would take the
  response for its own. Both hold for any set of programs, smooth or not, and any bound on
  runs and kills.

**Only model-checked:** the liveness properties (`EventuallyAnswered`, `InactiveRunEnds`,
`CallsReturn`, `Recovers`, `ClientReleased`, `CloseEnds`, `EventuallySettled`), because fairness
is beyond the prover. Every safety property that a passing run checks has a theorem. `NeverStuck`
is stated with the locks rather than with ENABLED, so that it can be proved; that a thread which
is in a call and needs no lock has a step to take can be seen in the guards of `Step`.

## 6. What is not modelled

Encodings (flatbuffers, JSON, obfuscation), HTTPS, the text of metric names and what
rules make of it, what is logged, the containers of axiom, and what the utilization data contains:
sequential code or pure I/O, in which the order of steps does not matter. Times and
durations are modelled where they decide something (back-off, timeouts, the age of a
query) and left out where they are only reported.

- *Harvested data:* which of several events a full reservoir or heap keeps is a choice
  (any of them may go), and the sums of metrics are not kept. That a payload the
  collector accepted may be reported as failed, because its answer got lost, is left out:
  the code cannot tell and sends it again.
- *Example programs:* one client at a time; the file protocol has one pair of files.
- *Adaptive sampling* (`axiom/nr_app_harvest.c`): its threshold is a difference of real
  powers.
- *Traces, spans and exclusive time* (`axiom/nr_segment_traces.c`, `nr_span_event.c`,
  `nr_exclusive_time.c`, `util_minmax_heap.c`): sequential walks of a finished tree.
- *Supervision* (`daemon/*.go`, `newrelic/pidfile.go`): only that the worker's tables are
  lost when it respawns.

## 7. Plan

1. *AdaptiveSampling*, with the threshold as a decreasing function.
2. *MinMaxHeap*, *ExclusiveTime* and the walk of the segment tree as operators
   against reference definitions.
3. *Supervision*: at most one daemon holds the pid file.
4. The composition of Harvest with Processor: a run's harvest events are those of its
   own triggers.
