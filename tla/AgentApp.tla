------------------------------ MODULE AgentApp ------------------------------
(***************************************************************************)
(* The agent's list of applications (nr_app.c) as the threads of a program *)
(* use it: newrelic_create_app finds or adds an application and waits for  *)
(* the daemon to connect it, newrelic_start_transaction refreshes what is  *)
(* known of it and copies its agent run into a transaction, and            *)
(* newrelic_end_transaction finds it again by that run to name the         *)
(* transaction. The exchange with the daemon is one step here;             *)
(* DaemonConnection has its details. What the daemon answers is AppRuns,   *)
(* which Processor implements.                                             *)
(***************************************************************************)
EXTENDS Integers, Sequences, FiniteSets

CONSTANTS
  Thread,        \* the threads of the process
  Handle,        \* the newrelic_app_t of the program
  Info,          \* names (with licenses) of applications
  Creation,      \* which thread creates which newrelic_app_t with what name
  Limit,         \* NR_APP_LIMIT
  Backoff,       \* NR_APP_UNKNOWN_QUERY_BACKOFF_SECONDS
  BackoffLimit,  \* NR_APP_UNKNOWN_QUERY_BACKOFF_LIMIT_SECONDS
  Refresh,       \* NR_APP_REFRESH_QUERY_PERIOD_SECONDS
  MaxRuns,       \* bound on the runs of an application, one for each loss
  MaxFaults,     \* bound on lost exchanges, restarts and clock changes
  Nil

ASSUME AppAssumption ==
  /\ {Limit, Backoff, BackoffLimit, Refresh, MaxRuns, MaxFaults} \subseteq Nat
  /\ Limit > 0
  /\ 0 < Backoff /\ Backoff <= BackoffLimit /\ BackoffLimit <= Refresh
  /\ MaxRuns > MaxFaults
  /\ Creation \subseteq Thread \X Handle \X Info
  /\ Nil \notin Thread

VARIABLES
  listLock,    \* nr_agent_applist->applist_lock
  apps,        \* nr_agent_applist->apps
  appLock,     \* the app_lock of each
  handle,      \* the app of each newrelic_app_t, 0 if there is none
  handleLock,  \* the lock of each newrelic_app_t
  txn,         \* the transaction of each thread, or Nil
  pc, call,    \* where each thread is, and in which call
  given, live, current,  \* the runs the daemon keeps (AppRuns)
  refusal,     \* why the daemon has no run for an application
  faults,
  overlapped   \* two calls were under way at the same time, at some time

\* Run ids. They are only compared; the n-th of an application is called that.
RunID == Info \X (1..MaxRuns)

Runs == INSTANCE AppRuns WITH Key <- Info

appVars == <<listLock, apps, appLock>>
daemonVars == <<given, live, current, refusal>>
envVars == <<daemonVars, faults, overlapped>>
vars == <<appVars, handle, handleLock, txn, pc, call, envVars>>

\* The age of a query that is due. The seconds since the last query are followed
\* as far as they matter; they are negative after the clock was set back.
Overdue == Refresh + 1

NoCall == [op |-> "none", h |-> Nil, info |-> Nil, i |-> 0, num |-> 0,
           run |-> Nil, named |-> FALSE]

Init ==
  /\ listLock = Nil /\ apps = <<>> /\ appLock = <<>>
  /\ handle = [h \in Handle |-> 0]
  /\ handleLock = [h \in Handle |-> Nil]
  /\ txn = [t \in Thread |-> Nil]
  /\ pc = [t \in Thread |-> "idle"]
  /\ call = [t \in Thread |-> NoCall]
  /\ Runs!Init
  /\ refusal = [n \in Info |-> "unknown"]
  /\ faults = 0 /\ overlapped = FALSE

Go(t, at) == pc' = [pc EXCEPT ![t] = at]

Done(t) == Go(t, "idle") /\ call' = [call EXCEPT ![t] = NoCall]

App(t) == apps[call[t].i]

Fault == faults < MaxFaults /\ faults' = faults + 1

----------------------------------------------------------------------------
\* Calls. A newrelic_app_t is made by one thread, and not destroyed while it
\* is used.

Unused(h) == \A t \in Thread : call[t].h # h

Enter(t, c, at) ==
  /\ pc[t] = "idle"
  /\ call' = [call EXCEPT ![t] = c]
  /\ Go(t, at)
  /\ overlapped' = (overlapped \/ \E u \in Thread : pc[u] # "idle")
  /\ UNCHANGED <<appVars, handle, handleLock, txn, daemonVars, faults>>

\* newrelic_create_app
CallCreate(t, h, n) ==
  /\ <<t, h, n>> \in Creation
  /\ handle[h] = 0 /\ Unused(h)
  /\ Enter(t, [NoCall EXCEPT !.op = "create", !.h = h, !.info = n], "list")

\* newrelic_start_transaction, which takes no lock before its query.
CallStart(t, h) ==
  /\ txn[t] = Nil
  /\ handle[h] # 0
  /\ Enter(t, [NoCall EXCEPT !.op = "start", !.h = h, !.i = handle[h]],
           "consider")

\* newrelic_end_transaction, up to nr_app_verify_id.
CallEnd(t) ==
  /\ txn[t] # Nil
  /\ Enter(t, [NoCall EXCEPT !.op = "end", !.run = txn[t].run], "list")

\* newrelic_destroy_app: the application stays in the list.
DestroyApp(t, h) ==
  /\ pc[t] = "idle"
  /\ handle[h] # 0 /\ Unused(h)
  /\ handle' = [handle EXCEPT ![h] = 0]
  /\ UNCHANGED <<appVars, handleLock, txn, pc, call, envVars>>

----------------------------------------------------------------------------
\* nr_app_find_or_add_app and nr_app_verify_id

\* Mutant: the list is searched without its lock.
LockListNot(t) ==
  /\ pc[t] = "list"
  /\ Go(t, "search")
  /\ call' = [call EXCEPT ![t].i = 1, ![t].num = Len(apps)]
  /\ UNCHANGED <<appVars, handle, handleLock, txn, envVars>>

LockList(t) ==
  /\ pc[t] = "list"
  /\ listLock = Nil
  /\ listLock' = t
  /\ Go(t, "search")
  /\ call' = [call EXCEPT ![t].i = 1, ![t].num = Len(apps)]
  /\ UNCHANGED <<apps, appLock, handle, handleLock, txn, envVars>>

\* nr_app_match, and the test of nr_app_verify_id.
Matches(t) ==
  IF call[t].op = "create" THEN App(t).info = call[t].info
  ELSE App(t).state = "ok" /\ App(t).run = call[t].run

\* Mutant: the application that was found is not locked.
SearchUnlocked(t) ==
  /\ pc[t] = "search"
  /\ call[t].i <= call[t].num
  /\ appLock[call[t].i] = Nil
  /\ IF Matches(t)
       THEN /\ listLock' = Nil
            /\ Go(t, IF call[t].op = "create" THEN "consider" ELSE "rules")
            /\ UNCHANGED call
       ELSE /\ call' = [call EXCEPT ![t].i = @ + 1]
            /\ UNCHANGED <<listLock, pc>>
  /\ UNCHANGED <<apps, appLock, handle, handleLock, txn, envVars>>

\* One turn of the loop: waits for the application's lock, with the list
\* locked, and keeps it if this is the application that is looked for.
Search(t) ==
  /\ pc[t] = "search"
  /\ call[t].i <= call[t].num
  /\ appLock[call[t].i] = Nil
  /\ IF Matches(t)
       THEN /\ appLock' = [appLock EXCEPT ![call[t].i] = t]
            /\ listLock' = Nil
            /\ Go(t, IF call[t].op = "create" THEN "consider" ELSE "rules")
            /\ UNCHANGED call
       ELSE /\ call' = [call EXCEPT ![t].i = @ + 1]
            /\ UNCHANGED <<appLock, listLock, pc>>
  /\ UNCHANGED <<apps, handle, handleLock, txn, envVars>>

\* create_new_app; told says, for the properties, that the last query was
\* answered with a run.
NewApp(n) == [info |-> n, state |-> "unknown", run |-> Nil, age |-> Overdue,
              failed |-> 0, told |-> FALSE]

\* The application is not in the list: it is added, locked, if there is room.
\* A transaction whose run is in no application is not named.
NotFound(t) ==
  /\ pc[t] = "search"
  /\ call[t].i > call[t].num
  /\ listLock' = Nil
  /\ IF call[t].op = "end"
       THEN Go(t, "send") /\ UNCHANGED <<apps, appLock, call>>
     ELSE IF call[t].num >= Limit THEN Done(t) /\ UNCHANGED <<apps, appLock>>
     ELSE /\ apps' = Append(apps, NewApp(call[t].info))
          /\ appLock' = Append(appLock, t)
          /\ Go(t, "consider")
          /\ UNCHANGED call
  /\ UNCHANGED <<handle, handleLock, txn, envVars>>

----------------------------------------------------------------------------
\* nr_app_consider_appinfo and nr_cmd_appinfo_tx

Period(a) ==
  IF a.state # "unknown" THEN Refresh
  ELSE IF (1 + a.failed) * Backoff > BackoffLimit THEN BackoffLimit
  ELSE (1 + a.failed) * Backoff

\* Mutant: a last query that lies in the future is waited for.
PastOnly(a) == a.state # "invalid" /\ a.age > Period(a)

\* nr_agent_should_do_app_daemon_query
ShouldQuery(a) ==
  a.state # "invalid" /\ (a.age > Period(a) \/ a.age < -Refresh)

\* The count of failures is followed as far as Period tells it apart.
Counted(a) ==
  [a EXCEPT !.failed = IF a.state = "ok" THEN 0
                       ELSE IF @ < BackoffLimit THEN @ + 1 ELSE @]

SetApp(t, a) == apps' = [apps EXCEPT ![call[t].i] = a]

\* Asks if it is time to. Without a connection nothing is sent and the state
\* stays; otherwise the application is unknown until the answer is there.
Consider(t) ==
  /\ pc[t] = "consider"
  /\ \/ /\ ~ShouldQuery(App(t))
        /\ Go(t, "decide")
        /\ UNCHANGED <<apps, call, faults>>
     \/ /\ ShouldQuery(App(t))
        /\ Fault
        /\ SetApp(t, Counted([App(t) EXCEPT !.age = 0]))
        /\ Go(t, "decide")
        /\ UNCHANGED call
     \/ /\ ShouldQuery(App(t))
        /\ SetApp(t, [App(t) EXCEPT !.age = 0, !.state = "unknown"])
        /\ call' = [call EXCEPT ![t].run = App(t).run]
        /\ Go(t, "exchange")
        /\ UNCHANGED faults
  /\ UNCHANGED <<listLock, appLock, handle, handleLock, txn, daemonVars,
                 overlapped>>

\* nr_cmd_appinfo_process_reply: the state that the status answered gives.
ReplyState(status) ==
  CASE status = "unknown" -> "unknown"
    [] status \in {"disconnected", "invalid_license"} -> "invalid"
    [] status = "connected" -> "ok"

\* The answer does not come.
Lost(t) ==
  SetApp(t, [App(t) EXCEPT !.state = "unknown", !.told = FALSE])

\* The answer. For a run that is new to the agent the old one is freed first.
Exchange(t) ==
  /\ pc[t] = "exchange"
  /\ LET run == Runs!Answer(App(t).info, call[t].run)
         state == ReplyState(IF run # Nil THEN "connected"
                             ELSE refusal[App(t).info])
     IN
     \/ Fault /\ Lost(t) /\ Go(t, "count") /\ UNCHANGED call
     \/ /\ IF run \notin {Nil, call[t].run}
             THEN /\ SetApp(t, [App(t) EXCEPT !.run = Nil])
                  /\ call' = [call EXCEPT ![t].run = run]
                  /\ Go(t, "store")
             ELSE /\ SetApp(t, [App(t) EXCEPT !.state = state,
                                              !.told = state = "ok"])
                  /\ Go(t, "count")
                  /\ UNCHANGED call
        /\ UNCHANGED faults
  /\ UNCHANGED <<listLock, appLock, handle, handleLock, txn, daemonVars,
                 overlapped>>

\* Mutant: the new run is not stored.
StoreNoRun(t, run) == [App(t) EXCEPT !.state = "ok", !.told = TRUE]

\* Mutant: the state stays what it was during the query.
StoreNoState(t, run) == [App(t) EXCEPT !.run = run, !.told = TRUE]

\* The full reply, from the run on.
StoreReply(t, run) == [App(t) EXCEPT !.run = run, !.state = "ok", !.told = TRUE]

Store(t) ==
  /\ pc[t] = "store"
  /\ SetApp(t, StoreReply(t, call[t].run))
  /\ Go(t, "count")
  /\ UNCHANGED <<listLock, appLock, handle, handleLock, txn, call, envVars>>

\* The end of nr_app_consider_appinfo.
Count(t) ==
  /\ pc[t] = "count"
  /\ SetApp(t, Counted(App(t)))
  /\ Go(t, "decide")
  /\ UNCHANGED <<listLock, appLock, handle, handleLock, txn, call, envVars>>

----------------------------------------------------------------------------
\* After the query

Unlocked(i) == [appLock EXCEPT ![i] = Nil]

\* Mutant: giving up leaves the application locked.
GiveUpLocked(t) ==
  /\ pc[t] = "decide" /\ call[t].op = "create"
  /\ App(t).state = "unknown"
  /\ Done(t)
  /\ UNCHANGED <<appVars, handle, handleLock, txn, envVars>>

\* nr_agent_find_or_add_app: the time is up, newrelic_create_app fails.
GiveUp(t) ==
  /\ pc[t] = "decide" /\ call[t].op = "create"
  /\ App(t).state = "unknown"
  /\ appLock' = Unlocked(call[t].i)
  /\ Done(t)
  /\ UNCHANGED <<listLock, apps, handle, handleLock, txn, envVars>>

\* It is not: after a sleep, the question is considered again.
Retry(t) ==
  /\ pc[t] = "decide" /\ call[t].op = "create"
  /\ App(t).state = "unknown"
  /\ Go(t, "consider")
  /\ UNCHANGED <<appVars, handle, handleLock, txn, call, envVars>>

\* newrelic_connect_app has an application, which may be an invalid one.
Connected(t) ==
  /\ pc[t] = "decide" /\ call[t].op = "create"
  /\ App(t).state # "unknown"
  /\ handle' = [handle EXCEPT ![call[t].h] = call[t].i]
  /\ appLock' = Unlocked(call[t].i)
  /\ Done(t)
  /\ UNCHANGED <<listLock, apps, handleLock, txn, envVars>>

\* newrelic_start_transaction goes on with the lock of the newrelic_app_t,
\* and nr_txn_begin looks at the state of the application.
Begin(t) ==
  /\ pc[t] = "decide" /\ call[t].op = "start"
  /\ handleLock[call[t].h] = Nil
  /\ IF App(t).state = "ok"
       THEN /\ handleLock' = [handleLock EXCEPT ![call[t].h] = t]
            /\ Go(t, "copy")
            /\ UNCHANGED call
       ELSE Done(t) /\ UNCHANGED handleLock
  /\ UNCHANGED <<appVars, handle, txn, envVars>>

\* nr_txn_begin copies the run.
Copy(t) ==
  /\ pc[t] = "copy"
  /\ txn' = [txn EXCEPT ![t] = [info |-> App(t).info, run |-> App(t).run]]
  /\ handleLock' = [handleLock EXCEPT ![call[t].h] = Nil]
  /\ Done(t)
  /\ UNCHANGED <<appVars, handle, envVars>>

\* nr_txn_freeze_name_update_apdex applies the rules of the application.
ApplyRules(t) ==
  /\ pc[t] = "rules"
  /\ appLock' = Unlocked(call[t].i)
  /\ call' = [call EXCEPT ![t].named = TRUE]
  /\ Go(t, "send")
  /\ UNCHANGED <<listLock, apps, handle, handleLock, txn, envVars>>

\* The rest of newrelic_end_transaction.
Send(t) ==
  /\ pc[t] = "send"
  /\ txn' = [txn EXCEPT ![t] = Nil]
  /\ Done(t)
  /\ UNCHANGED <<appVars, handle, handleLock, envVars>>

----------------------------------------------------------------------------
\* The daemon, the collector and the clock

\* The collector connects an application that the daemon was asked about. That
\* it was connected before, for another process, makes no difference to this one.
DaemonConnects(n) ==
  /\ \E i \in DOMAIN apps : apps[i].info = n
  /\ refusal[n] = "unknown" /\ current[n] = Nil
  /\ \E j \in 1..MaxRuns : j = Cardinality(given[n]) + 1 /\ Runs!Give(n, <<n, j>>)
  /\ UNCHANGED <<appVars, handle, handleLock, txn, pc, call, refusal, faults,
                 overlapped>>

\* The daemon forgets the application or ends a run of it, or the collector
\* rejects it.
DaemonLoses(n) ==
  /\ Fault
  /\ Runs!Withdraw(n) \/ \E r \in RunID : Runs!End(n, r)
  /\ \E s \in {"unknown", "disconnected", "invalid_license"} :
       refusal' = [refusal EXCEPT ![n] = s]
  /\ daemonVars' # daemonVars
  /\ UNCHANGED <<appVars, handle, handleLock, txn, pc, call, overlapped>>

\* The daemon's worker is replaced by a new one.
DaemonRestarts ==
  /\ Fault
  /\ Runs!Restart
  /\ refusal' = [n \in Info |-> "unknown"]
  /\ daemonVars' # daemonVars
  /\ UNCHANGED <<appVars, handle, handleLock, txn, pc, call, overlapped>>

Aged(d) ==
  [i \in DOMAIN apps |->
     [apps[i] EXCEPT !.age = IF @ + d < -Overdue THEN -Overdue
                             ELSE IF @ + d > Overdue THEN Overdue ELSE @ + d]]

Tick ==
  /\ apps' = Aged(1)
  /\ UNCHANGED <<listLock, appLock, handle, handleLock, txn, pc, call, envVars>>

ClockSetBack ==
  /\ Fault
  /\ \E d \in 1..(2 * Overdue) : apps' = Aged(-d)
  /\ UNCHANGED <<listLock, appLock, handle, handleLock, txn, pc, call,
                 daemonVars, overlapped>>

----------------------------------------------------------------------------

\* The steps that take a lock.
Acquire(t) == LockList(t) \/ Search(t) \/ Begin(t)

Step(t) ==
  \/ Acquire(t)
  \/ NotFound(t)
  \/ Consider(t)
  \/ Exchange(t)
  \/ Store(t)
  \/ Count(t)
  \/ GiveUp(t)
  \/ Retry(t)
  \/ Connected(t)
  \/ Copy(t)
  \/ ApplyRules(t)
  \/ Send(t)

Call(t) ==
  \/ \E h \in Handle, n \in Info : CallCreate(t, h, n)
  \/ \E h \in Handle : CallStart(t, h)
  \/ CallEnd(t)

Next ==
  \/ \E t \in Thread :
       \/ Call(t)
       \/ Step(t)
       \/ \E h \in Handle : DestroyApp(t, h)
  \/ \E n \in Info : DaemonConnects(n) \/ DaemonLoses(n)
  \/ DaemonRestarts
  \/ Tick
  \/ ClockSetBack

Spec == Init /\ [][Next]_vars

\* A call that is entered is run, a lock that is free again and again is
\* obtained and newrelic_create_app has a time limit. The collector answers the
\* daemon at last. Time passes, but a query that lies further in the future than
\* is followed need not come nearer: the clock was set back by any amount.
FairSpec ==
  /\ Spec
  /\ \A t \in Thread :
       WF_vars(Step(t)) /\ SF_vars(Acquire(t)) /\ SF_vars(GiveUp(t))
  /\ \A n \in Info : WF_vars(DaemonConnects(n))
  /\ WF_vars(Tick /\ \A i \in DOMAIN apps : apps[i].age # -Overdue)

----------------------------------------------------------------------------
\* Properties

\* No application is in the list twice, however many threads create it at the
\* same time, and the list stays within NR_APP_LIMIT (nr_app_find_or_add_app).
ListIsSet ==
  /\ Len(apps) <= Limit
  /\ \A i, j \in DOMAIN apps : apps[i].info = apps[j].info => i = j

\* Where a thread counts on having the application for itself.
Exclusive(t) ==
  \/ call[t].op = "create" /\ pc[t] \in {"consider", "exchange", "store",
                                         "count", "decide"}
  \/ pc[t] = "rules"

\* Two threads that found the same application never have it at the same time
\* (the application is returned locked).
FoundIsExclusive ==
  \A t, u \in Thread :
    Exclusive(t) /\ Exclusive(u) /\ call[t].i = call[u].i => t = u

\* While the program's calls do not overlap, a transaction carries a run that
\* the daemon gave for its application, never one that was freed, not yet
\* given or another application's (nr_txn_begin copies what nr_cmd_appinfo_
\* process_reply stored).
RunIsGiven ==
  ~overlapped =>
    \A t \in Thread : txn[t] # Nil => txn[t].run \in given[txn[t].info]

\* While the program's calls do not overlap, a transaction is refused only if
\* the daemon, when asked last, did not say that the application is connected
\* (newrelic_start_transaction).
RefusedUnlessOk ==
  [][\A t \in Thread :
       /\ ~overlapped
       /\ pc[t] = "decide" /\ call[t].op = "start" /\ pc'[t] = "idle"
       => ~App(t).told]_vars

\* The thread that has the lock which t needs for its next step, or Nil.
Blocker(t) ==
  CASE pc[t] = "list" -> listLock
    [] pc[t] = "search" /\ call[t].i <= call[t].num -> appLock[call[t].i]
    [] pc[t] = "decide" /\ call[t].op = "start" -> handleLock[call[t].h]
    [] OTHER -> Nil

GoesOn(t) == pc[t] # "idle" /\ Blocker(t) = Nil

\* No thread waits for ever for a lock, with the list locked while an
\* application is waited for and an application locked while the daemon is
\* (nr_app_find_or_add_app, nr_agent_find_or_add_app): whoever has the lock is
\* in a call and needs none, or only one that such a thread has. No lock is
\* left behind by a call that returned.
NeverStuck ==
  \A t \in Thread :
    LET u == Blocker(t)
    IN u # Nil => GoesOn(u) \/ (Blocker(u) # Nil /\ GoesOn(Blocker(u)))

\* An application that the program goes on using does not stay unknown:
\* whatever the clock, the failures and the waiting periods, the daemon is
\* asked again and its answer taken (nr_agent_should_do_app_daemon_query).
Recovers ==
  \A i \in 1..Limit :
    []<>(\E t \in Thread : pc[t] = "consider" /\ call[t].i = i) =>
      []<>(i \in DOMAIN apps /\ apps[i].state # "unknown")
=============================================================================
