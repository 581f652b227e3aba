--------------------------- MODULE AgentAppProofs ---------------------------
(***************************************************************************)
(* Proofs about module AgentApp, for any number of threads, handles and    *)
(* applications and any limit: the list has every application once, a      *)
(* thread that found one has it for itself, the locks stop nobody for      *)
(* ever, the run of a transaction is one the daemon gave its application   *)
(* and a transaction is refused only if the daemon gave none.              *)
(***************************************************************************)
EXTENDS AgentApp, TLAPS

\* A leaf is given to Zenon for a second, to the SMT solver, and to both again.
USE ZenonT(1), SMTT(60), ZenonT(60), SMTT(90)

AppRecord ==
  [info : Info, state : {"unknown", "ok", "invalid"}, run : RunID \cup {Nil},
   age : Int, failed : Nat, told : BOOLEAN]

CallRecord ==
  [op : {"none", "create", "start", "end"}, h : Handle \cup {Nil},
   info : Info \cup {Nil}, i : Nat, num : Nat, run : RunID \cup {Nil},
   named : BOOLEAN]

Querying == {"consider", "exchange", "store", "count", "decide"}

\* Every variable that matters here has its type.
AppTypes ==
  /\ apps \in Seq(AppRecord)
  /\ appLock \in Seq(Thread \cup {Nil}) /\ Len(appLock) = Len(apps)
  /\ handle \in [Handle -> Nat]
  /\ txn \in [Thread -> [info : Info, run : RunID \cup {Nil}] \cup {Nil}]
  /\ pc \in [Thread -> Querying \cup {"idle", "list", "search", "copy", "rules", "send"}]
  /\ call \in [Thread -> CallRecord]

\* The daemon's runs (module AppRuns).
RunTypes ==
  /\ given \in [Info -> SUBSET RunID]
  /\ live \in [Info -> SUBSET RunID]
  /\ current \in [Info -> RunID \cup {Nil}]
  /\ refusal \in [Info -> {"unknown", "disconnected", "invalid_license"}]

\* Where a thread is: it searches with the list locked, and has not passed what
\* it looks for; past the search it is at an application of the list.
Placed(t) ==
  /\ pc[t] \in {"list", "search"} =>
       \/ call[t].op = "create" /\ call[t].info \in Info
       \/ call[t].op = "end"
  /\ pc[t] = "search" =>
       /\ listLock = t /\ call[t].num = Len(apps)
       /\ call[t].i \in 1..(Len(apps) + 1)
       /\ call[t].op = "create" =>
            \A j \in 1..Len(apps) : j < call[t].i => apps[j].info # call[t].info
  /\ pc[t] \in Querying => call[t].op \in {"create", "start"}
  /\ pc[t] = "copy" => call[t].op = "start"
  /\ pc[t] = "rules" => call[t].op = "end"
  /\ pc[t] \in Querying \cup {"copy", "rules"} => call[t].i \in 1..Len(apps)
  /\ Exclusive(t) => appLock[call[t].i] = t

ListInv ==
  /\ AppTypes /\ RunTypes
  /\ \A h \in Handle : handle[h] <= Len(apps)
  /\ \A t \in Thread : Placed(t)
  /\ ListIsSet

----------------------------------------------------------------------------
\* The list is empty at first (nr_agent_applist).
LEMMA ListInit == ASSUME Init PROVE ListInv
<1>1. NoCall \in CallRecord
  BY DEF NoCall, CallRecord
<1>2. AppTypes
  BY <1>1 DEF Init, AppTypes, Querying
<1>3. RunTypes
  BY DEF Init, Runs!Init, RunTypes
<1>4. \A t \in Thread : Placed(t)
  BY DEF Init, Placed, Exclusive, Querying
<1>5. ListIsSet
  BY AppAssumption DEF Init, ListIsSet
<1>6. \A h \in Handle : handle[h] <= Len(apps)
  BY DEF Init
<1> QED BY <1>2, <1>3, <1>4, <1>5, <1>6 DEF ListInv

\* A thread in a query, or about to copy its result, is at an application of
\* the list (nr_app_consider_appinfo).
LEMMA AtApp ==
  ASSUME ListInv, NEW t \in Thread, pc[t] \in Querying \cup {"copy"}
  PROVE  call[t].i \in 1..Len(apps) /\ App(t) \in AppRecord /\ App(t).info \in Info
<1>1. call[t].i \in 1..Len(apps)
  BY DEF ListInv, Placed
<1>2. App(t) \in AppRecord
  BY <1>1 DEF ListInv, AppTypes, App
<1> QED BY <1>1, <1>2 DEF AppRecord

\* A call begins outside the list (newrelic_create_app and the others).
LEMMA ListEnter ==
  ASSUME ListInv, NEW t \in Thread, NEW c \in CallRecord, NEW at, Enter(t, c, at),
         \/ at = "list" /\ (c.op = "end" \/ (c.op = "create" /\ c.info \in Info))
         \/ at = "consider" /\ c.op = "start" /\ c.i \in 1..Len(apps)
  PROVE  ListInv'
<1>1. AppTypes' /\ RunTypes'
  BY DEF ListInv, AppTypes, RunTypes, Enter, Go, Querying, appVars, daemonVars
<1>2. ListIsSet' /\ \A h \in Handle : handle'[h] <= Len(apps')
  BY DEF ListInv, ListIsSet, Enter, appVars
<1>3. \A u \in Thread : u # t => pc'[u] = pc[u] /\ call'[u] = call[u]
  BY DEF ListInv, AppTypes, Enter, Go
<1>4. pc'[t] = at /\ call'[t] = c /\ UNCHANGED appVars
  BY DEF ListInv, AppTypes, Enter, Go
<1>5. \A u \in Thread : Placed(u)'
  BY <1>3, <1>4 DEF ListInv, Placed, Exclusive, appVars, Querying
<1> QED BY <1>1, <1>2, <1>5 DEF ListInv

\* A thread that takes the list's lock starts at its first application
\* (nr_app_find_or_add_app, nr_app_verify_id).
LEMMA ListLock == ASSUME ListInv, NEW t \in Thread, LockList(t) PROVE ListInv'
<1>1. /\ pc' = [pc EXCEPT ![t] = "search"]
      /\ call' = [call EXCEPT ![t] = [call[t] EXCEPT !.i = 1, !.num = Len(apps)]]
      /\ pc[t] = "list" /\ listLock = Nil /\ listLock' = t
  BY ZenonT(60) DEF LockList, Go, ListInv, AppTypes
<1>2. call[t] \in CallRecord /\ Len(apps) \in Nat
  BY DEF ListInv, AppTypes
<1>3. [call[t] EXCEPT !.i = 1, !.num = Len(apps)] \in CallRecord
  BY <1>2, ZenonT(60) DEF CallRecord
<1>4. /\ call'[t].i = 1 /\ call'[t].num = Len(apps)
      /\ call'[t].op = call[t].op /\ call'[t].info = call[t].info /\ pc'[t] = "search"
  BY <1>1, <1>2 DEF CallRecord, ListInv, AppTypes
<1>5. UNCHANGED <<apps, appLock, handle>>
  BY DEF LockList
<1>6. AppTypes' /\ RunTypes'
  BY <1>1, <1>3 DEF LockList, ListInv, AppTypes, RunTypes, envVars, daemonVars
<1>7. ListIsSet' /\ \A h \in Handle : handle'[h] <= Len(apps')
  BY <1>5 DEF ListInv, ListIsSet
<1>8. Placed(t)'
  BY <1>1, <1>4, <1>5 DEF ListInv, AppTypes, Placed, Exclusive, Querying
<1>9. ASSUME NEW u \in Thread, u # t PROVE Placed(u)'
  <2>1. pc'[u] = pc[u] /\ call'[u] = call[u] /\ pc[u] # "search"
    BY <1>1, <1>9, AppAssumption DEF ListInv, AppTypes, Placed
  <2> QED BY <1>5, <2>1 DEF ListInv, Placed, Exclusive
<1> QED BY <1>6, <1>7, <1>8, <1>9 DEF ListInv

\* A turn of the search ends at a locked application or passes it.
LEMMA ListSearch == ASSUME ListInv, NEW t \in Thread, Search(t) PROVE ListInv'
<1>1. /\ pc[t] = "search" /\ listLock = t
      /\ call[t].i \in 1..Len(apps) /\ call[t].num = Len(apps)
      /\ appLock[call[t].i] = Nil /\ call[t] \in CallRecord
      /\ call[t].op \in {"create", "end"}
  BY DEF Search, ListInv, AppTypes, Placed
<1>2. UNCHANGED <<apps, handle, txn, overlapped, given, live, current, refusal>>
  BY DEF Search, envVars, daemonVars
<1>3. ListIsSet' /\ RunTypes' /\ \A h \in Handle : handle'[h] <= Len(apps')
  BY <1>2 DEF ListInv, ListIsSet, RunTypes
<1>4. ASSUME NEW u \in Thread, u # t PROVE pc[u] # "search"
  BY <1>1, <1>4 DEF ListInv, Placed
<1>5. CASE Matches(t)
  <2>1. /\ appLock' = [appLock EXCEPT ![call[t].i] = t] /\ listLock' = Nil /\ call' = call
        /\ pc' = [pc EXCEPT ![t] = IF call[t].op = "create" THEN "consider" ELSE "rules"]
    BY <1>5 DEF Search, Go
  <2>2. AppTypes'
    BY <1>1, <1>2, <2>1 DEF ListInv, AppTypes, Querying
  <2>3. Placed(t)'
    BY <1>1, <1>2, <2>1 DEF ListInv, AppTypes, Placed, Exclusive, Querying
  <2>4. ASSUME NEW u \in Thread, u # t PROVE Placed(u)'
    <3>1. pc'[u] = pc[u] /\ call'[u] = call[u] /\ pc[u] # "search"
      BY <1>4, <2>1, <2>4 DEF ListInv, AppTypes
    <3>2. Exclusive(u) => call[u].i \in 1..Len(apps) /\ call[u].i # call[t].i
      BY <1>1, AppAssumption DEF ListInv, Placed, Exclusive, Querying
    <3>3. Exclusive(u)' => appLock'[call'[u].i] = u
      BY <1>1, <2>1, <3>1, <3>2 DEF ListInv, AppTypes, Placed, Exclusive
    <3> QED BY <1>2, <2>1, <3>1, <3>3 DEF ListInv, Placed, Exclusive
  <2> QED BY <1>3, <2>2, <2>3, <2>4 DEF ListInv
<1>6. CASE ~Matches(t)
  <2>1. /\ call' = [call EXCEPT ![t] = [call[t] EXCEPT !.i = call[t].i + 1]]
        /\ UNCHANGED <<appLock, listLock, pc>>
    BY <1>6 DEF Search, ListInv, AppTypes
  <2>2. /\ call'[t] \in CallRecord /\ call'[t].i = call[t].i + 1
        /\ call'[t].num = call[t].num /\ call'[t].op = call[t].op
        /\ call'[t].info = call[t].info
    <3> DEFINE c == [call[t] EXCEPT !.i = call[t].i + 1]
    <3>1. call[t].i + 1 \in Nat
      BY <1>1 DEF ListInv, AppTypes
    <3>2. /\ c \in CallRecord /\ c.i = call[t].i + 1 /\ c.num = call[t].num
          /\ c.op = call[t].op /\ c.info = call[t].info
      BY <1>1, <3>1 DEF CallRecord
    <3> HIDE DEF c
    <3>3. call'[t] = c
      BY <2>1 DEF c, ListInv, AppTypes
    <3> QED BY <3>2, <3>3
  <2>3. AppTypes'
    BY <1>2, <2>1, <2>2 DEF ListInv, AppTypes
  <2>4. call[t].op = "create" => apps[call[t].i].info # call[t].info
    BY <1>6 DEF Matches, App
  <2>5. Placed(t)'
    BY <1>1, <1>2, <2>1, <2>2, <2>4 DEF ListInv, Placed, Exclusive, Querying
  <2>6. ASSUME NEW u \in Thread, u # t PROVE Placed(u)'
    <3>1. pc'[u] = pc[u] /\ call'[u] = call[u]
      BY <2>1, <2>6 DEF ListInv, AppTypes
    <3> QED BY <1>2, <2>1, <3>1, ZenonT(60) DEF ListInv, Placed, Exclusive
  <2> QED BY <1>3, <2>3, <2>5, <2>6 DEF ListInv
<1> QED BY <1>5, <1>6

\* What was not found is added at the end of the list, while no other thread
\* can, and only if there is room (nr_app_find_or_add_app).
LEMMA ListNotFound == ASSUME ListInv, NEW t \in Thread, NotFound(t) PROVE ListInv'
<1>1. /\ pc[t] = "search" /\ listLock = t /\ call[t] \in CallRecord
      /\ call[t].i = Len(apps) + 1 /\ call[t].num = Len(apps)
  BY DEF NotFound, ListInv, AppTypes, Placed
<1>2. UNCHANGED <<handle, txn, overlapped, given, live, current, refusal>>
  BY DEF NotFound, envVars, daemonVars
<1>3. RunTypes'
  BY <1>2 DEF ListInv, RunTypes
<1>4. ASSUME NEW u \in Thread, u # t PROVE pc[u] # "search"
  BY <1>1, <1>4 DEF ListInv, Placed
<1>5. NoCall \in CallRecord
  BY DEF NoCall, CallRecord
<1>6. ASSUME NEW at \in {"idle", "send"}, pc' = [pc EXCEPT ![t] = at],
             call' = call \/ call' = [call EXCEPT ![t] = NoCall], UNCHANGED <<apps, appLock>>
      PROVE  ListInv'
  <2>1. AppTypes'
    BY <1>2, <1>5, <1>6 DEF ListInv, AppTypes, Querying
  <2>2. ListIsSet' /\ \A h \in Handle : handle'[h] <= Len(apps')
    BY <1>2, <1>6 DEF ListInv, ListIsSet
  <2>3. Placed(t)'
    BY <1>6 DEF ListInv, AppTypes, Placed, Exclusive, Querying
  <2>4. ASSUME NEW u \in Thread, u # t PROVE Placed(u)'
    <3>1. pc'[u] = pc[u] /\ call'[u] = call[u] /\ pc[u] # "search"
      BY <1>4, <1>6, <2>4 DEF ListInv, AppTypes
    <3> QED BY <1>6, <3>1 DEF ListInv, Placed, Exclusive
  <2> QED BY <1>3, <2>1, <2>2, <2>3, <2>4 DEF ListInv
<1>7. CASE call[t].op = "end"
  BY <1>6, <1>7 DEF NotFound, Go
<1>8. CASE call[t].op # "end" /\ call[t].num >= Limit
  BY <1>6, <1>8 DEF NotFound, Done, Go
<1>9. CASE call[t].op # "end" /\ ~(call[t].num >= Limit)
  <2>1. /\ apps' = Append(apps, NewApp(call[t].info))
        /\ appLock' = Append(appLock, t)
        /\ pc' = [pc EXCEPT ![t] = "consider"] /\ call' = call
    BY <1>9 DEF NotFound, Go
  <2>2. call[t].op = "create" /\ call[t].info \in Info
    BY <1>1, <1>9 DEF ListInv, Placed
  <2>3. \A j \in 1..Len(apps) : apps[j].info # call[t].info
    BY <1>1, <2>2 DEF ListInv, Placed
  <2>4. NewApp(call[t].info) \in AppRecord /\ NewApp(call[t].info).info = call[t].info
    BY <2>2, AppAssumption DEF NewApp, AppRecord, Overdue
  <2>5. apps \in Seq(AppRecord) /\ appLock \in Seq(Thread \cup {Nil}) /\ Len(appLock) = Len(apps)
    BY DEF ListInv, AppTypes
  <2>6. /\ apps' \in Seq(AppRecord) /\ Len(apps') = Len(apps) + 1
        /\ \A j \in 1..Len(apps) : apps'[j] = apps[j]
        /\ apps'[Len(apps) + 1] = NewApp(call[t].info)
    BY <2>1, <2>4, <2>5
  <2>7. /\ appLock' \in Seq(Thread \cup {Nil}) /\ Len(appLock') = Len(apps) + 1
        /\ \A j \in 1..Len(apps) : appLock'[j] = appLock[j]
        /\ appLock'[Len(apps) + 1] = t
    BY <2>1, <2>5
  <2>8. AppTypes'
    BY <1>2, <2>1, <2>6, <2>7 DEF ListInv, AppTypes, Querying
  <2>9. Len(apps) \in Nat /\ Len(apps) < Limit
    BY <1>1, <1>9, <2>5, AppAssumption
  <2>10. ListIsSet'
    <3>1. \A i, j \in 1..Len(apps) : apps[i].info = apps[j].info => i = j
      BY <2>5 DEF ListInv, ListIsSet
    <3>2. \A i, j \in 1..(Len(apps) + 1) : apps'[i].info = apps'[j].info => i = j
      BY <2>3, <2>4, <2>6, <2>9, <3>1
    <3> QED BY <2>6, <2>9, <3>2, AppAssumption DEF ListIsSet
  <2>11. \A h \in Handle : handle'[h] <= Len(apps')
    BY <1>2, <2>6, <2>9 DEF ListInv, AppTypes
  <2>12. Placed(t)'
    BY <1>1, <2>1, <2>2, <2>6, <2>7, <2>9 DEF ListInv, AppTypes, Placed, Exclusive, Querying
  <2>13. ASSUME NEW u \in Thread, u # t PROVE Placed(u)'
    <3>1. pc'[u] = pc[u] /\ call'[u] = call[u] /\ pc[u] # "search"
      BY <1>4, <2>1, <2>13 DEF ListInv, AppTypes
    <3>2. Exclusive(u) => call[u].i \in 1..Len(apps)
      BY DEF ListInv, Placed, Exclusive, Querying
    <3> QED BY <2>6, <2>7, <2>9, <3>1, <3>2 DEF ListInv, Placed, Exclusive
  <2> QED BY <1>3, <2>8, <2>10, <2>11, <2>12, <2>13 DEF ListInv
<1> QED BY <1>7, <1>8, <1>9

\* A step of a thread that changes no name and takes no lock of an application
\* leaves the list what it is (the steps after the search).
LEMMA ListKept ==
  ASSUME ListInv, AppTypes', RunTypes', NEW t \in Thread, pc[t] # "search",
         Len(apps') = Len(apps), listLock' = listLock,
         \A h \in Handle : handle'[h] <= Len(apps),
         \A j \in 1..Len(apps) : apps'[j].info = apps[j].info,
         \A u \in Thread : u # t => pc'[u] = pc[u] /\ call'[u] = call[u],
         \A u \in Thread : u # t /\ Exclusive(u) => appLock'[call[u].i] = u,
         Placed(t)'
  PROVE  ListInv'
<1>1. DOMAIN apps = 1..Len(apps) /\ DOMAIN apps' = 1..Len(apps)
  BY DEF ListInv, AppTypes
<1>2. ListIsSet' /\ \A h \in Handle : handle'[h] <= Len(apps')
  BY <1>1 DEF ListInv, ListIsSet
<1>3. ASSUME NEW u \in Thread, u # t PROVE Placed(u)'
  <2>1. pc'[u] = pc[u] /\ call'[u] = call[u]
    BY <1>3
  <2> QED BY <1>3, <2>1 DEF ListInv, AppTypes, Placed, Exclusive
<1> QED BY <1>2, <1>3 DEF ListInv

\* Setting an application changes that one.
LEMMA SetAppKeeps ==
  ASSUME ListInv, NEW t \in Thread, call[t].i \in 1..Len(apps),
         NEW a \in AppRecord, SetApp(t, a), a.info = App(t).info
  PROVE  /\ apps' \in Seq(AppRecord) /\ Len(apps') = Len(apps)
         /\ apps'[call[t].i] = a
         /\ \A j \in 1..Len(apps) : j # call[t].i => apps'[j] = apps[j]
         /\ \A j \in 1..Len(apps) : apps'[j].info = apps[j].info
  BY DEF SetApp, App, ListInv, AppTypes

\* An application that is counted is otherwise the same.
LEMMA CountedKeeps ==
  ASSUME NEW a \in AppRecord
  PROVE  /\ Counted(a) \in AppRecord /\ Counted(a).info = a.info
         /\ Counted(a).state = a.state /\ Counted(a).run = a.run
  BY AppAssumption DEF Counted, AppRecord

\* A step with an application that keeps its lock and its name, as all of
\* nr_app_consider_appinfo does.
LEMMA ListSet ==
  ASSUME ListInv, NEW t \in Thread, pc[t] \in Querying, NEW at \in Querying,
         Go(t, at), NEW a \in AppRecord, a.info = App(t).info, SetApp(t, a),
         UNCHANGED <<listLock, appLock, handle, txn, daemonVars>>,
         NEW r \in RunID \cup {Nil}, call' = [call EXCEPT ![t] = [call[t] EXCEPT !.run = r]]
  PROVE  /\ ListInv' /\ pc'[t] = at
         /\ call'[t].run = r /\ call'[t].i = call[t].i /\ call'[t].op = call[t].op
<1>1. call[t].i \in 1..Len(apps) /\ call[t] \in CallRecord
  BY DEF ListInv, AppTypes, Placed
<1>2. /\ apps' \in Seq(AppRecord) /\ Len(apps') = Len(apps)
      /\ \A j \in 1..Len(apps) : apps'[j].info = apps[j].info
  BY <1>1, SetAppKeeps
<1> DEFINE c == [call[t] EXCEPT !.run = r]
<1>3. /\ c \in CallRecord /\ c.i = call[t].i /\ c.op = call[t].op /\ c.run = r
  BY <1>1 DEF CallRecord
<1> HIDE DEF c
<1>4. /\ call' = [call EXCEPT ![t] = c] /\ pc' = [pc EXCEPT ![t] = at]
      /\ call'[t] = c /\ pc'[t] = at
  BY DEF c, Go, ListInv, AppTypes
<1>5. AppTypes' /\ RunTypes'
  BY <1>2, <1>3, <1>4, ZenonT(60) DEF ListInv, AppTypes, RunTypes, daemonVars
<1>6. Placed(t)'
  BY <1>1, <1>2, <1>3, <1>4 DEF ListInv, AppTypes, Placed, Exclusive, Querying
<1>7. \A u \in Thread : u # t => pc'[u] = pc[u] /\ call'[u] = call[u]
  BY <1>4 DEF ListInv, AppTypes
<1>8. \A u \in Thread : Exclusive(u) => appLock'[call[u].i] = u
  BY DEF ListInv, Placed
<1>9. pc[t] # "search" /\ \A h \in Handle : handle'[h] <= Len(apps)
  BY DEF Querying, ListInv
<1>10. ListInv'
  BY <1>2, <1>5, <1>6, <1>7, <1>8, <1>9, ListKept
<1> QED BY <1>3, <1>4, <1>10

\* A step that leaves the applications and their locks alone.
LEMMA ListStay ==
  ASSUME ListInv, NEW t \in Thread, pc[t] # "search",
         NEW at \in Querying \cup {"idle", "copy", "send"}, Go(t, at),
         at \in Querying => pc[t] \in Querying,
         at = "copy" => pc[t] \in Querying /\ call[t].op = "start",
         at \in {"idle", "send"} \/ call' = call, call' \in [Thread -> CallRecord],
         \A u \in Thread : u # t => call'[u] = call[u],
         handle' \in [Handle -> Nat], \A h \in Handle : handle'[h] <= Len(apps),
         txn' \in [Thread -> [info : Info, run : RunID \cup {Nil}] \cup {Nil}],
         UNCHANGED <<listLock, apps, daemonVars>>,
         \/ UNCHANGED appLock
         \/ Exclusive(t) /\ at \in {"idle", "send"} /\ appLock' = Unlocked(call[t].i)
  PROVE  ListInv'
<1>2. Exclusive(t) => call[t].i \in 1..Len(apps) /\ appLock[call[t].i] = t
  BY DEF ListInv, Placed, Exclusive, Querying
<1>3. appLock' \in Seq(Thread \cup {Nil}) /\ Len(appLock') = Len(apps)
  <2>1. appLock \in Seq(Thread \cup {Nil}) /\ Len(appLock) = Len(apps)
    BY DEF ListInv, AppTypes
  <2>2. CASE UNCHANGED appLock
    BY <2>1, <2>2
  <2>3. CASE Exclusive(t) /\ appLock' = [appLock EXCEPT ![call[t].i] = Nil]
    BY <1>2, <2>1, <2>3
  <2> QED BY <2>2, <2>3 DEF Unlocked
<1>4. AppTypes' /\ RunTypes'
  <2>1. pc' \in [Thread -> Querying \cup {"idle", "list", "search", "copy", "rules", "send"}]
    BY DEF Go, ListInv, AppTypes
  <2>2. AppTypes'
    BY <1>3, <2>1 DEF ListInv, AppTypes
  <2> QED BY <2>2 DEF ListInv, RunTypes, daemonVars
<1>5. \A u \in Thread : u # t => pc'[u] = pc[u] /\ call'[u] = call[u]
  BY DEF Go, ListInv, AppTypes
<1>6. pc'[t] = at
  BY DEF Go, ListInv, AppTypes
<1>7. Placed(t)'
  <2>1. CASE at \in {"idle", "send"}
    BY <1>6, <2>1 DEF Placed, Exclusive, Querying
  <2>2. CASE at \notin {"idle", "send"}
    BY <1>6, <2>2 DEF ListInv, Placed, Exclusive, Querying
  <2> QED BY <2>1, <2>2
<1>8. ASSUME NEW u \in Thread, u # t, Exclusive(u) PROVE appLock'[call[u].i] = u
  <2>1. call[u].i \in 1..Len(apps) /\ appLock[call[u].i] = u
    BY <1>8 DEF ListInv, Placed, Exclusive, Querying
  <2> QED BY <1>2, <1>8, <2>1 DEF Unlocked, ListInv, AppTypes
<1> QED BY <1>4, <1>5, <1>7, <1>8, ListKept

\* An application that is asked about is unknown and otherwise the same.
LEMMA QueriedKeeps ==
  ASSUME NEW a \in AppRecord
  PROVE  /\ [a EXCEPT !.age = 0, !.state = "unknown"] \in AppRecord
         /\ [a EXCEPT !.age = 0, !.state = "unknown"].info = a.info
         /\ [a EXCEPT !.age = 0, !.state = "unknown"].run = a.run
         /\ [a EXCEPT !.age = 0, !.state = "unknown"].state = "unknown"
<1> DEFINE b == [a EXCEPT !.age = 0]
<1>1. b \in AppRecord /\ b.info = a.info /\ b.run = a.run
  BY DEF AppRecord
<1>2. [a EXCEPT !.age = 0, !.state = "unknown"] = [b EXCEPT !.state = "unknown"]
  OBVIOUS
<1> HIDE DEF b
<1>3. /\ [b EXCEPT !.state = "unknown"] \in AppRecord
      /\ [b EXCEPT !.state = "unknown"].info = b.info
      /\ [b EXCEPT !.state = "unknown"].run = b.run
      /\ [b EXCEPT !.state = "unknown"].state = "unknown"
  BY <1>1 DEF AppRecord
<1> QED BY <1>1, <1>2, <1>3

\* A call whose run is not set keeps the one it has.
LEMMA SameCall ==
  ASSUME ListInv, NEW t \in Thread
  PROVE  /\ call[t].run \in RunID \cup {Nil}
         /\ call = [call EXCEPT ![t] = [call[t] EXCEPT !.run = call[t].run]]
<1>1. call[t] \in CallRecord /\ call \in [Thread -> CallRecord]
  BY DEF ListInv, AppTypes
<1>2. call[t].run \in RunID \cup {Nil}
  BY <1>1 DEF CallRecord
<1>3. [call[t] EXCEPT !.run = call[t].run] = call[t]
  BY <1>1 DEF CallRecord
<1> QED BY <1>1, <1>2, <1>3

\* Asking the daemon (nr_app_consider_appinfo, nr_cmd_appinfo_tx).
LEMMA ListConsider == ASSUME ListInv, NEW t \in Thread, Consider(t) PROVE ListInv'
<1>1. pc[t] = "consider" /\ call[t].i \in 1..Len(apps) /\ call[t] \in CallRecord
  BY AtApp DEF Consider, ListInv, AppTypes, Querying
<1>2. App(t) \in AppRecord
  BY <1>1, AtApp DEF Querying
<1>3. UNCHANGED <<listLock, appLock, handle, txn, daemonVars>>
  BY DEF Consider
<1>4. CASE Go(t, "decide") /\ UNCHANGED <<apps, call>>
  BY <1>1, <1>3, <1>4, ListStay DEF ListInv, AppTypes, Querying
<1>5. ASSUME NEW a \in AppRecord, a.info = App(t).info, SetApp(t, a), UNCHANGED call,
             Go(t, "decide")
      PROVE  ListInv'
  <2>1. /\ call[t].run \in RunID \cup {Nil}
        /\ call' = [call EXCEPT ![t] = [call[t] EXCEPT !.run = call[t].run]]
    BY <1>5, SameCall
  <2> QED BY <1>1, <1>3, <1>5, <2>1, ListSet, ZenonT(60) DEF Querying
<1>6. CASE SetApp(t, Counted([App(t) EXCEPT !.age = 0])) /\ UNCHANGED call /\ Go(t, "decide")
  <2>1. [App(t) EXCEPT !.age = 0] \in AppRecord /\ [App(t) EXCEPT !.age = 0].info = App(t).info
    BY <1>2 DEF AppRecord
  <2> QED BY <1>5, <1>6, <2>1, CountedKeeps, ZenonT(60)
<1>7. CASE /\ SetApp(t, [App(t) EXCEPT !.age = 0, !.state = "unknown"])
           /\ call' = [call EXCEPT ![t].run = App(t).run]
           /\ Go(t, "exchange")
  <2> DEFINE a == [App(t) EXCEPT !.age = 0, !.state = "unknown"]
  <2>1. a \in AppRecord /\ a.info = App(t).info
    BY <1>2, QueriedKeeps, ZenonT(60)
  <2>4. App(t).run \in RunID \cup {Nil}
    BY <1>2 DEF AppRecord
  <2>2. call' = [call EXCEPT ![t] = [call[t] EXCEPT !.run = App(t).run]]
    BY <1>7
  <2>3. SetApp(t, a)
    BY <1>7
  <2> HIDE DEF a
  <2> QED BY <1>1, <1>3, <1>7, <2>1, <2>2, <2>3, <2>4, ListSet, ZenonT(60) DEF Querying
<1> QED BY <1>4, <1>6, <1>7 DEF Consider

\* What the daemon answers is a run or none (processAppInfo).
LEMMA AnswerType ==
  ASSUME RunTypes, NEW n \in Info, NEW id
  PROVE  Runs!Answer(n, id) \in RunID \cup {Nil}
  BY DEF RunTypes, Runs!Answer

\* Any status gives a state (nr_cmd_appinfo_process_reply).
LEMMA ReplyStateType ==
  ASSUME NEW s \in {"unknown", "disconnected", "invalid_license", "connected"}
  PROVE  ReplyState(s) \in {"unknown", "ok", "invalid"}
  BY DEF ReplyState

\* The answer (nr_cmd_appinfo_process_reply).
LEMMA ListExchange == ASSUME ListInv, NEW t \in Thread, Exchange(t) PROVE ListInv'
<1> DEFINE run == Runs!Answer(App(t).info, call[t].run)
           state == ReplyState(IF run # Nil THEN "connected" ELSE refusal[App(t).info])
<1>1. pc[t] = "exchange" /\ call[t].i \in 1..Len(apps)
  BY AtApp DEF Exchange, Querying
<1>2. App(t) \in AppRecord /\ App(t).info \in Info
  BY <1>1, AtApp DEF Querying
<1>3. UNCHANGED <<listLock, appLock, handle, txn, daemonVars>>
  BY DEF Exchange
<1>4. run \in RunID \cup {Nil}
  BY <1>2, AnswerType DEF ListInv
<1>5. state \in {"unknown", "ok", "invalid"}
  <2>1. refusal[App(t).info] \in {"unknown", "disconnected", "invalid_license"}
    BY <1>2 DEF ListInv, RunTypes
  <2> QED BY <2>1, ReplyStateType
<1>6. ASSUME NEW a \in AppRecord, a.info = App(t).info, SetApp(t, a), UNCHANGED call,
             Go(t, "count")
      PROVE  ListInv'
  <2>1. /\ call[t].run \in RunID \cup {Nil}
        /\ call' = [call EXCEPT ![t] = [call[t] EXCEPT !.run = call[t].run]]
    BY <1>6, SameCall
  <2> QED BY <1>1, <1>3, <1>6, <2>1, ListSet, ZenonT(60) DEF Querying
<1>7. CASE Lost(t) /\ UNCHANGED call /\ Go(t, "count")
  <2> DEFINE a == [App(t) EXCEPT !.state = "unknown", !.told = FALSE]
  <2>1. a \in AppRecord /\ a.info = App(t).info
    BY <1>2, ZenonT(60) DEF AppRecord
  <2>2. SetApp(t, a)
    BY <1>7 DEF Lost
  <2> QED BY <1>6, <1>7, <2>1, <2>2, ZenonT(60)
<1>8. CASE /\ SetApp(t, [App(t) EXCEPT !.run = Nil])
           /\ call' = [call EXCEPT ![t].run = run] /\ Go(t, "store")
  <2> DEFINE a == [App(t) EXCEPT !.run = Nil]
  <2>1. a \in AppRecord /\ a.info = App(t).info
    BY <1>2 DEF AppRecord
  <2>2. SetApp(t, a)
    BY <1>8
  <2>3. call' = [call EXCEPT ![t] = [call[t] EXCEPT !.run = run]]
    BY <1>8
  <2> HIDE DEF a, run
  <2> QED BY <1>1, <1>3, <1>4, <1>8, <2>1, <2>2, <2>3, ListSet, ZenonT(60) DEF Querying
<1>9. CASE /\ SetApp(t, [App(t) EXCEPT !.state = state, !.told = state = "ok"])
           /\ UNCHANGED call /\ Go(t, "count")
  <2> DEFINE a == [App(t) EXCEPT !.state = state, !.told = state = "ok"]
  <2>0. SetApp(t, a)
    BY <1>9
  <2> HIDE DEF state
  <2>1. a \in AppRecord /\ a.info = App(t).info
    BY <1>2, <1>5, ZenonT(60) DEF AppRecord
  <2> QED BY <1>6, <1>9, <2>0, <2>1, ZenonT(60)
<1> QED BY <1>7, <1>8, <1>9 DEF Exchange

\* The answer is stored, and the query counted (nr_app_consider_appinfo).
LEMMA ListStore == ASSUME ListInv, NEW t \in Thread, Store(t) \/ Count(t) PROVE ListInv'
<1>1. pc[t] \in Querying /\ call[t].i \in 1..Len(apps)
  BY AtApp DEF Store, Count, Querying
<1>2. App(t) \in AppRecord
  BY <1>1, AtApp
<1>3. UNCHANGED <<listLock, appLock, handle, txn, daemonVars, call>>
  BY DEF Store, Count, envVars
<1>4. /\ call[t].run \in RunID \cup {Nil}
      /\ call' = [call EXCEPT ![t] = [call[t] EXCEPT !.run = call[t].run]]
  BY <1>3, SameCall
<1>5. CASE Store(t)
  <2>1. /\ StoreReply(t, call[t].run) \in AppRecord
        /\ StoreReply(t, call[t].run).info = App(t).info
    BY <1>2, <1>4, ZenonT(60) DEF AppRecord, StoreReply
  <2> QED BY <1>1, <1>3, <1>4, <1>5, <2>1, ListSet, ZenonT(60) DEF Store, Querying
<1>6. CASE Count(t)
  BY <1>1, <1>2, <1>3, <1>4, <1>6, CountedKeeps, ListSet, ZenonT(60) DEF Count, Querying
<1> QED BY <1>5, <1>6

\* The steps that leave a call or go on without asking again
\* (nr_agent_find_or_add_app, newrelic_start_transaction and
\* newrelic_end_transaction).
LEMMA ListLeave ==
  ASSUME ListInv, NEW t \in Thread,
         \/ GiveUp(t) \/ Retry(t) \/ Connected(t) \/ Begin(t) \/ Copy(t)
         \/ ApplyRules(t) \/ Send(t)
  PROVE  ListInv'
<1>1. call \in [Thread -> CallRecord] /\ call[t] \in CallRecord
  BY DEF ListInv, AppTypes
<1>2. NoCall \in CallRecord
  BY DEF NoCall, CallRecord
<1>3. ASSUME Done(t)
      PROVE  /\ Go(t, "idle") /\ call' \in [Thread -> CallRecord]
             /\ \A u \in Thread : u # t => call'[u] = call[u]
  BY <1>1, <1>2, <1>3 DEF Done
<1>4. /\ handle \in [Handle -> Nat] /\ \A h \in Handle : handle[h] <= Len(apps)
      /\ txn \in [Thread -> [info : Info, run : RunID \cup {Nil}] \cup {Nil}]
  BY DEF ListInv, AppTypes
<1>5. pc[t] \in Querying \cup {"copy"} => call[t].i \in 1..Len(apps) /\ App(t) \in AppRecord
  BY AtApp
<1> DEFINE Txns == [Thread -> [info : Info, run : RunID \cup {Nil}] \cup {Nil}]
<1>a. ASSUME pc[t] # "search", NEW at \in {"idle", "send"}, Go(t, at),
             call' \in [Thread -> CallRecord], \A u \in Thread : u # t => call'[u] = call[u],
             handle' \in [Handle -> Nat], \A h \in Handle : handle'[h] <= Len(apps),
             txn' \in Txns, UNCHANGED <<listLock, apps, daemonVars>>,
             \/ UNCHANGED appLock
             \/ Exclusive(t) /\ appLock' = Unlocked(call[t].i)
      PROVE  ListInv'
  <2>1. /\ at \in Querying \cup {"idle", "copy", "send"}
        /\ at \notin Querying /\ at # "copy"
    BY <1>a DEF Querying
  <2> QED BY <1>a, <2>1, ListStay
<1>b. ASSUME pc[t] \in Querying, NEW at \in Querying \cup {"copy"}, Go(t, at),
             at = "copy" => call[t].op = "start",
             UNCHANGED <<appVars, handle, txn, call, daemonVars>>
      PROVE  ListInv'
  <2>1. at \in Querying \cup {"idle", "copy", "send"} /\ pc[t] # "search"
    BY <1>b DEF Querying
  <2>2. UNCHANGED <<listLock, apps, appLock, handle, txn, call, daemonVars>>
    BY <1>b DEF appVars
  <2> QED BY <1>1, <1>4, <1>b, <2>1, <2>2, ListStay
<1>6. CASE GiveUp(t)
  <2>1. /\ pc[t] # "search" /\ Done(t) /\ Exclusive(t) /\ appLock' = Unlocked(call[t].i)
        /\ UNCHANGED <<listLock, apps, handle, txn, daemonVars>>
    BY <1>6, ZenonT(60) DEF GiveUp, Exclusive, envVars
  <2> QED BY <1>3, <1>4, <1>a, <2>1, ZenonT(60)
<1>7. CASE Retry(t)
  BY <1>7, <1>b, ZenonT(60) DEF Retry, envVars, Querying
<1>8. CASE Connected(t)
  <2>1. call[t].i \in 1..Len(apps) /\ handle' = [handle EXCEPT ![call[t].h] = call[t].i]
    BY <1>5, <1>8, ZenonT(60) DEF Connected, Querying
  <2>2. handle' \in [Handle -> Nat] /\ \A h \in Handle : handle'[h] <= Len(apps)
    <3>1. call[t].i \in Nat /\ call[t].i <= Len(apps)
      BY <2>1 DEF ListInv, AppTypes
    <3> QED BY <1>4, <2>1, <3>1, ZenonT(60)
  <2>3. /\ pc[t] # "search" /\ Done(t) /\ Exclusive(t) /\ appLock' = Unlocked(call[t].i)
        /\ UNCHANGED <<listLock, apps, txn, daemonVars>>
    BY <1>8 DEF Connected, Exclusive, envVars
  <2> QED BY <1>3, <1>4, <1>a, <2>2, <2>3, ZenonT(60)
<1>9. CASE Begin(t)
  <2>1. CASE Go(t, "copy") /\ UNCHANGED call
    BY <1>9, <1>b, <2>1 DEF Begin, envVars, Querying
  <2>2. CASE Done(t)
    <3>1. pc[t] # "search" /\ UNCHANGED <<listLock, apps, appLock, handle, txn, daemonVars>>
      BY <1>9 DEF Begin, appVars, envVars
    <3> QED BY <1>3, <1>4, <1>a, <2>2, <3>1
  <2> QED BY <1>9, <2>1, <2>2 DEF Begin
<1>10. CASE Copy(t)
  <2>1. pc[t] = "copy" /\ Done(t) /\ UNCHANGED <<appVars, handle, envVars>>
    BY <1>10 DEF Copy
  <2>2. App(t) \in AppRecord
    BY <1>5, <2>1
  <2>3. [info |-> App(t).info, run |-> App(t).run] \in [info : Info, run : RunID \cup {Nil}]
    BY <2>2 DEF AppRecord
  <2>4. txn' \in [Thread -> [info : Info, run : RunID \cup {Nil}] \cup {Nil}]
    BY <1>4, <1>10, <2>3, ZenonT(60) DEF Copy
  <2>5. pc[t] # "search" /\ UNCHANGED <<listLock, apps, appLock, handle, daemonVars>>
    BY <2>1 DEF appVars, envVars
  <2> QED BY <1>3, <1>4, <1>a, <2>1, <2>4, <2>5, ZenonT(60)
<1>11. CASE ApplyRules(t)
  <2> DEFINE c == [call[t] EXCEPT !.named = TRUE]
  <2>1. c \in CallRecord
    BY <1>1, ZenonT(60) DEF CallRecord
  <2>2. call' = [call EXCEPT ![t] = c]
    BY <1>11 DEF ApplyRules
  <2> HIDE DEF c
  <2>3. call' \in [Thread -> CallRecord] /\ \A u \in Thread : u # t => call'[u] = call[u]
    BY <1>1, <2>1, <2>2
  <2>4. /\ pc[t] # "search" /\ Go(t, "send") /\ Exclusive(t)
        /\ appLock' = Unlocked(call[t].i)
        /\ UNCHANGED <<listLock, apps, handle, txn, daemonVars>>
    BY <1>11 DEF ApplyRules, Exclusive, envVars
  <2> QED BY <1>4, <1>a, <2>3, <2>4
<1>12. CASE Send(t)
  <2>1. txn' \in [Thread -> [info : Info, run : RunID \cup {Nil}] \cup {Nil}]
    BY <1>4, <1>12 DEF Send
  <2>2. /\ pc[t] # "search" /\ Done(t)
        /\ UNCHANGED <<listLock, apps, appLock, handle, daemonVars>>
    BY <1>12 DEF Send, appVars, envVars
  <2> QED BY <1>3, <1>4, <1>a, <2>1, <2>2
<1> QED BY <1>6, <1>7, <1>8, <1>9, <1>10, <1>11, <1>12

\* The calls of the program.
LEMMA ListCall == ASSUME ListInv, NEW t \in Thread, Call(t) PROVE ListInv'
<1>2. ASSUME NEW h \in Handle, NEW n \in Info, CallCreate(t, h, n) PROVE ListInv'
  <2> DEFINE c == [NoCall EXCEPT !.op = "create", !.h = h, !.info = n]
  <2>1. c \in CallRecord /\ c.op = "create" /\ c.info = n
    BY ZenonT(60) DEF NoCall, CallRecord
  <2>2. Enter(t, c, "list")
    BY <1>2 DEF CallCreate
  <2> HIDE DEF c
  <2> QED BY <2>1, <2>2, ListEnter
<1>3. ASSUME NEW h \in Handle, CallStart(t, h) PROVE ListInv'
  <2> DEFINE c == [NoCall EXCEPT !.op = "start", !.h = h, !.i = handle[h]]
  <2>1. handle[h] \in Nat /\ handle[h] \in 1..Len(apps)
    BY <1>3 DEF ListInv, AppTypes, CallStart
  <2>2. c \in CallRecord /\ c.op = "start" /\ c.i = handle[h]
    BY <2>1, ZenonT(60) DEF NoCall, CallRecord
  <2>3. Enter(t, c, "consider")
    BY <1>3 DEF CallStart
  <2> HIDE DEF c
  <2> QED BY <2>1, <2>2, <2>3, ListEnter
<1>4. CASE CallEnd(t)
  <2>1. txn[t].run \in RunID \cup {Nil}
    BY <1>4 DEF CallEnd, ListInv, AppTypes
  <2>2. PICK c \in CallRecord : c.op = "end" /\ Enter(t, c, "list")
    <3> DEFINE e == [NoCall EXCEPT !.op = "end", !.run = txn[t].run]
    <3>1. e \in CallRecord /\ e.op = "end"
      BY <2>1, ZenonT(60) DEF NoCall, CallRecord
    <3>2. Enter(t, e, "list")
      BY <1>4 DEF CallEnd
    <3> HIDE DEF e
    <3> QED BY <3>1, <3>2
  <2> QED BY <2>2, ListEnter
<1> QED BY <1>2, <1>3, <1>4 DEF Call

\* A handle that is destroyed, the daemon and the clock leave names and locks
\* alone (newrelic_destroy_app).
LEMMA ListOthers ==
  ASSUME ListInv,
         \/ \E t \in Thread, h \in Handle : DestroyApp(t, h)
         \/ \E n \in Info : DaemonConnects(n) \/ DaemonLoses(n)
         \/ DaemonRestarts \/ Tick \/ ClockSetBack
  PROVE  ListInv'
<1>1. ASSUME UNCHANGED <<listLock, appLock, pc, call, txn>>, apps' \in Seq(AppRecord),
             Len(apps') = Len(apps), RunTypes',
             \A j \in 1..Len(apps) : apps'[j].info = apps[j].info,
             handle' \in [Handle -> Nat], \A h \in Handle : handle'[h] <= Len(apps)
      PROVE  ListInv'
  <2>1. AppTypes'
    BY <1>1 DEF ListInv, AppTypes
  <2>2. DOMAIN apps = 1..Len(apps) /\ DOMAIN apps' = 1..Len(apps)
    BY <1>1 DEF ListInv, AppTypes
  <2>3. ListIsSet' /\ \A h \in Handle : handle'[h] <= Len(apps')
    BY <1>1, <2>2 DEF ListInv, ListIsSet
  <2>4. ASSUME NEW t \in Thread PROVE Placed(t)'
    BY <1>1 DEF ListInv, Placed, Exclusive
  <2> QED BY <1>1, <2>1, <2>3, <2>4 DEF ListInv
<1>2. /\ apps \in Seq(AppRecord) /\ handle \in [Handle -> Nat]
      /\ \A h \in Handle : handle[h] <= Len(apps)
  BY DEF ListInv, AppTypes
<1>3. ASSUME NEW t \in Thread, NEW h \in Handle, DestroyApp(t, h) PROVE ListInv'
  <2>1. Len(apps) \in Nat /\ handle' = [handle EXCEPT ![h] = 0]
    BY <1>2, <1>3 DEF DestroyApp
  <2>2. handle' \in [Handle -> Nat] /\ \A k \in Handle : handle'[k] <= Len(apps)
    BY <1>2, <2>1
  <2>3. UNCHANGED <<listLock, apps, appLock, txn, pc, call, given, live, current, refusal>>
    BY <1>3 DEF DestroyApp, appVars, envVars, daemonVars
  <2>4. RunTypes'
    BY <2>3 DEF ListInv, RunTypes
  <2> QED BY <1>1, <1>2, <2>2, <2>3, <2>4
<1>4. ASSUME UNCHANGED <<appVars, handle, txn, pc, call>>, RunTypes' PROVE ListInv'
  BY <1>1, <1>2, <1>4 DEF appVars
<1>5. ASSUME NEW n \in Info, DaemonConnects(n) PROVE ListInv'
  <2>1. RunTypes'
    <3>1. PICK j \in 1..MaxRuns : Runs!Give(n, <<n, j>>)
      BY <1>5 DEF DaemonConnects
    <3> DEFINE r == <<n, j>>
    <3>2. r \in RunID /\ Runs!Give(n, r) /\ refusal' = refusal
      BY <1>5, <3>1 DEF DaemonConnects, RunID
    <3> HIDE DEF r
    <3>3. /\ given' = [given EXCEPT ![n] = given[n] \cup {r}]
          /\ live' = [live EXCEPT ![n] = live[n] \cup {r}]
          /\ current' = [current EXCEPT ![n] = r]
      BY <3>2 DEF Runs!Give
    <3> QED BY <3>2, <3>3 DEF ListInv, RunTypes
  <2> QED BY <1>4, <1>5, <2>1 DEF DaemonConnects
<1>6. ASSUME NEW n \in Info, DaemonLoses(n) PROVE ListInv'
  <2>1. RunTypes'
    BY <1>6 DEF DaemonLoses, Runs!Withdraw, Runs!End, ListInv, RunTypes
  <2> QED BY <1>4, <1>6, <2>1 DEF DaemonLoses
<1>7. CASE DaemonRestarts
  <2>1. RunTypes'
    BY <1>7 DEF DaemonRestarts, Runs!Restart, ListInv, RunTypes
  <2> QED BY <1>4, <1>7, <2>1 DEF DaemonRestarts
<1>8. ASSUME NEW d \in Int, apps' = Aged(d),
             UNCHANGED <<listLock, appLock, handle, txn, pc, call, daemonVars>>
      PROVE  ListInv'
  <2>1. RunTypes'
    BY <1>8 DEF daemonVars, ListInv, RunTypes
  <2> DEFINE a(i) == [apps[i] EXCEPT !.age = IF @ + d < -Overdue THEN -Overdue
                                     ELSE IF @ + d > Overdue THEN Overdue ELSE @ + d]
  <2>2. Overdue \in Int
    BY AppAssumption DEF Overdue
  <2>3. ASSUME NEW i \in 1..Len(apps) PROVE a(i) \in AppRecord /\ a(i).info = apps[i].info
    <3>1. apps[i] \in AppRecord
      BY <1>2
    <3> QED BY <2>2, <3>1 DEF AppRecord
  <2>4. apps' = [i \in 1..Len(apps) |-> a(i)]
    BY <1>2, <1>8 DEF Aged
  <2> HIDE DEF a
  <2>5. /\ apps' \in Seq(AppRecord) /\ Len(apps') = Len(apps)
        /\ \A j \in 1..Len(apps) : apps'[j].info = apps[j].info
    BY <1>2, <2>3, <2>4
  <2> QED BY <1>1, <1>2, <1>8, <2>1, <2>5
<1>9. CASE Tick
  BY <1>8, <1>9 DEF Tick, envVars
<1>10. CASE ClockSetBack
  <2>1. PICK d \in 1..(2 * Overdue) : apps' = Aged(-d)
    BY <1>10 DEF ClockSetBack
  <2>2. -d \in Int
    BY AppAssumption DEF Overdue
  <2> QED BY <1>8, <1>10, <2>1, <2>2 DEF ClockSetBack
<1> QED BY <1>3, <1>5, <1>6, <1>7, <1>9, <1>10

\* Every step of threads, daemon and clock keeps the list in order.
LEMMA ListNext == ASSUME ListInv, [Next]_vars PROVE ListInv'
<1>1. CASE UNCHANGED vars
  <2>1. UNCHANGED <<listLock, apps, appLock, handle, txn, pc, call, given, live, current, refusal>>
    BY <1>1 DEF vars, appVars, envVars, daemonVars
  <2>2. AppTypes' /\ RunTypes' /\ ListIsSet' /\ \A h \in Handle : handle'[h] <= Len(apps')
    BY <2>1 DEF ListInv, AppTypes, RunTypes, ListIsSet
  <2>3. \A t \in Thread : Placed(t)'
    BY <2>1, ZenonT(60) DEF ListInv, Placed, Exclusive
  <2> QED BY <2>2, <2>3 DEF ListInv
<1>2. ASSUME NEW t \in Thread, Step(t) PROVE ListInv'
  BY <1>2, ListLock, ListSearch, ListNotFound, ListConsider, ListExchange, ListStore,
     ListLeave DEF Step, Acquire
<1>3. ASSUME NEW t \in Thread, Call(t) PROVE ListInv'
  BY <1>3, ListCall
<1> QED BY <1>1, <1>2, <1>3, ListOthers DEF Next

\* The list is in order whatever threads do (nr_app_find_or_add_app).
LEMMA ListAlways == Spec => []ListInv
  BY ListInit, ListNext, PTL DEF Spec

\* However many threads create applications at the same time, each is in the
\* list once and the list within its limit (nr_app_find_or_add_app).
THEOREM OneEntryEach == Spec => []ListIsSet
<1>1. ListInv => ListIsSet
  BY DEF ListInv
<1> QED BY <1>1, ListAlways, PTL

\* Of any number of threads, one at a time has an application that was found
\* (nr_app_find_or_add_app, nr_app_verify_id).
THEOREM FoundForOne == Spec => []FoundIsExclusive
<1>1. ListInv => FoundIsExclusive
  BY ZenonT(60) DEF ListInv, Placed, FoundIsExclusive
<1> QED BY <1>1, ListAlways, PTL
------------------------------------------------------------------------------

\* An application that is known has a run the daemon gave it.
AppsGiven ==
  \A i \in 1..Len(apps) : apps[i].state = "ok" => apps[i].run \in given[apps[i].info]

\* What a thread in the middle of a query has read is what the application has.
Told(t) ==
  /\ pc[t] = "exchange" => App(t).run = call[t].run /\ App(t).state = "unknown"
  /\ pc[t] = "store" => call[t].run \in given[App(t).info] /\ App(t).state = "unknown"
  /\ pc[t] = "copy" => App(t).state = "ok"

TxnGiven(t) == txn[t] # Nil => txn[t].run \in given[txn[t].info]

RunInv ==
  /\ \A n \in Info : live[n] \subseteq given[n]
  /\ \A n \in Info : current[n] # Nil => current[n] \in given[n]
  /\ ~overlapped =>
       /\ \A t \in Thread, u \in Thread : pc[t] # "idle" /\ pc[u] # "idle" => t = u
       /\ AppsGiven
       /\ \A t \in Thread : Told(t) /\ TxnGiven(t)

\* The daemon has given no run at first.
LEMMA RunsInit == ASSUME Init PROVE RunInv
  BY DEF Init, Runs!Init, RunInv, AppsGiven, Told, TxnGiven

\* A step of the one call that is under way.
LEMMA RunsStep ==
  ASSUME ListInv, ListInv', RunInv, NEW t \in Thread, pc[t] # "idle",
         \A u \in Thread : u # t => pc'[u] = pc[u] /\ txn'[u] = txn[u],
         UNCHANGED <<given, live, current, overlapped>>,
         ~overlapped => AppsGiven' /\ Told(t)' /\ TxnGiven(t)'
  PROVE  RunInv'
<1>1. CASE overlapped
  BY <1>1 DEF RunInv
<1>2. CASE ~overlapped
  <2>1. \A u \in Thread : u # t => pc[u] = "idle" /\ pc'[u] = "idle"
    BY <1>2 DEF RunInv
  <2>2. \A u \in Thread, v \in Thread : pc'[u] # "idle" /\ pc'[v] # "idle" => u = v
    BY <2>1
  <2>3. ASSUME NEW u \in Thread, u # t PROVE Told(u)' /\ TxnGiven(u)'
    BY <1>2, <2>1, <2>3 DEF RunInv, Told, TxnGiven
  <2> QED BY <1>2, <2>2, <2>3 DEF RunInv
<1> QED BY <1>1, <1>2

\* A step that leaves every application alone.
LEMMA RunsStay ==
  ASSUME ListInv, ListInv', RunInv, NEW t \in Thread, pc[t] # "idle",
         NEW at \in {"idle", "search", "consider", "decide", "rules", "send", "copy"},
         pc' = [pc EXCEPT ![t] = at],
         at = "copy" => call' = call /\ App(t).state = "ok",
         UNCHANGED <<apps, given, live, current, overlapped>>,
         txn' = txn \/ txn' = [txn EXCEPT ![t] = Nil]
  PROVE  RunInv'
<1>1. /\ \A u \in Thread : u # t => pc'[u] = pc[u] /\ txn'[u] = txn[u]
      /\ pc'[t] = at /\ txn'[t] \in {txn[t], Nil}
  BY DEF ListInv, AppTypes
<1>2. ASSUME ~overlapped PROVE AppsGiven' /\ TxnGiven(t)'
  BY <1>1, <1>2 DEF RunInv, AppsGiven, TxnGiven
<1>3. Told(t)'
  BY <1>1 DEF Told, App
<1> QED BY <1>1, <1>2, <1>3, RunsStep

\* A query of an application, whatever becomes of it.
LEMMA RunsSet ==
  ASSUME ListInv, ListInv', RunInv, NEW t \in Thread, pc[t] \in Querying,
         NEW at \in Querying, Go(t, at), NEW a \in AppRecord, a.info = App(t).info,
         SetApp(t, a), UNCHANGED <<txn, given, live, current, overlapped>>,
         call'[t].i = call[t].i,
         ~overlapped => (a.state = "ok" => a.run \in given[a.info]),
         ~overlapped /\ at = "exchange" => a.run = call'[t].run /\ a.state = "unknown",
         ~overlapped /\ at = "store" => call'[t].run \in given[a.info] /\ a.state = "unknown"
  PROVE  RunInv'
<1>1. call[t].i \in 1..Len(apps)
  BY ZenonT(60) DEF ListInv, Placed
<1>2. /\ Len(apps') = Len(apps) /\ apps'[call[t].i] = a
      /\ \A j \in 1..Len(apps) : j # call[t].i => apps'[j] = apps[j]
  BY <1>1, SetAppKeeps, ZenonT(60)
<1>3. /\ \A u \in Thread : u # t => pc'[u] = pc[u] /\ txn'[u] = txn[u]
      /\ pc'[t] = at /\ pc[t] # "idle" /\ at # "copy"
  BY ZenonT(60) DEF Go, ListInv, AppTypes, Querying
<1>4. ASSUME ~overlapped PROVE AppsGiven'
  BY <1>1, <1>2, <1>4, ZenonT(60) DEF RunInv, AppsGiven
<1>5. ASSUME ~overlapped PROVE Told(t)'
  <2>1. App(t)' = a
    BY <1>2 DEF App
  <2> QED BY <1>3, <1>5, <2>1 DEF Told
<1>6. ASSUME ~overlapped PROVE TxnGiven(t)'
  BY <1>6 DEF RunInv, TxnGiven
<1> QED BY <1>3, <1>4, <1>5, <1>6, RunsStep, ZenonT(60)

\* The steps of a query (nr_app_consider_appinfo, nr_cmd_appinfo_process_reply).
LEMMA RunsQuery ==
  ASSUME ListInv, ListInv', RunInv, NEW t \in Thread,
         Consider(t) \/ Exchange(t) \/ Store(t) \/ Count(t)
  PROVE  RunInv'
<1>1. pc[t] \in Querying /\ pc[t] # "idle"
  BY DEF Consider, Exchange, Store, Count, Querying
<1>2. call[t].i \in 1..Len(apps) /\ App(t) \in AppRecord
  BY <1>1, AtApp
<1>3. ~overlapped => (App(t).state = "ok" => App(t).run \in given[App(t).info])
  BY <1>2, ZenonT(60) DEF RunInv, AppsGiven, App
<1>4. UNCHANGED <<txn, given, live, current, refusal, overlapped>>
  BY DEF Consider, Exchange, Store, Count, envVars, daemonVars
<1>5. ASSUME NEW r PROVE [call EXCEPT ![t].run = r][t].i = call[t].i /\ [call EXCEPT ![t].run = r][t].run = r
  <2>1. call[t] \in CallRecord /\ call \in [Thread -> CallRecord]
    BY DEF ListInv, AppTypes
  <2>2. [call[t] EXCEPT !.run = r].i = call[t].i /\ [call[t] EXCEPT !.run = r].run = r
    BY <2>1 DEF CallRecord
  <2> QED BY <2>1, <2>2
<1>6. App(t).info \in Info
  BY <1>2 DEF AppRecord
<1>7. CASE Consider(t)
  <2>1. CASE Go(t, "decide") /\ UNCHANGED <<apps, call>>
    BY <1>1, <1>4, <2>1, RunsStay, ZenonT(60) DEF Go
  <2>2. CASE SetApp(t, Counted([App(t) EXCEPT !.age = 0])) /\ UNCHANGED call /\ Go(t, "decide")
    <3> DEFINE b == [App(t) EXCEPT !.age = 0]
    <3>1. b \in AppRecord /\ b.info = App(t).info /\ b.run = App(t).run /\ b.state = App(t).state
      BY <1>2 DEF AppRecord
    <3>2. SetApp(t, Counted(b)) /\ UNCHANGED call /\ Go(t, "decide") /\ "decide" \in Querying
      BY <2>2 DEF Querying
    <3> HIDE DEF b
    <3>3. /\ Counted(b) \in AppRecord /\ Counted(b).info = App(t).info
          /\ Counted(b).state = App(t).state /\ Counted(b).run = App(t).run
      BY <3>1, CountedKeeps
    <3> QED BY <1>1, <1>3, <1>4, <3>2, <3>3, RunsSet, ZenonT(60)
  <2>3. CASE /\ SetApp(t, [App(t) EXCEPT !.age = 0, !.state = "unknown"])
             /\ call' = [call EXCEPT ![t].run = App(t).run]
             /\ Go(t, "exchange")
    <3> DEFINE a == [App(t) EXCEPT !.age = 0, !.state = "unknown"]
    <3>1. /\ a \in AppRecord /\ a.info = App(t).info /\ a.run = App(t).run
          /\ a.state = "unknown"
      BY <1>2, QueriedKeeps, ZenonT(60)
    <3>2. SetApp(t, a) /\ Go(t, "exchange") /\ "exchange" \in Querying
      BY <2>3 DEF Querying
    <3>3. call'[t].i = call[t].i /\ call'[t].run = App(t).run
      BY <1>5, <2>3
    <3> HIDE DEF a
    <3> QED BY <1>1, <1>4, <3>1, <3>2, <3>3, RunsSet
  <2> QED BY <1>7, <2>1, <2>2, <2>3 DEF Consider
<1>8. CASE Exchange(t)
  <2> DEFINE run == Runs!Answer(App(t).info, call[t].run)
             state == ReplyState(IF run # Nil THEN "connected" ELSE refusal[App(t).info])
  <2>1. run # Nil => run \in given[App(t).info]
    BY <1>6 DEF RunInv, Runs!Answer
  <2>2. /\ state = "ok" => run # Nil
        /\ state \in {"unknown", "ok", "invalid"}
    <3>1. refusal[App(t).info] \in {"unknown", "disconnected", "invalid_license"}
      BY <1>6, ZenonT(60) DEF ListInv, RunTypes
    <3> QED BY <3>1 DEF ReplyState
  <2>3. ~overlapped => App(t).run = call[t].run /\ App(t).state = "unknown"
    BY <1>8 DEF Exchange, RunInv, Told
  <2>4. CASE Lost(t) /\ UNCHANGED call /\ Go(t, "count")
    <3> DEFINE a == [App(t) EXCEPT !.state = "unknown", !.told = FALSE]
    <3>1. a \in AppRecord /\ a.info = App(t).info /\ a.state = "unknown"
      BY <1>2, ZenonT(60) DEF AppRecord
    <3>2. SetApp(t, a) /\ UNCHANGED call /\ Go(t, "count") /\ "count" \in Querying
      BY <2>4 DEF Lost, Querying
    <3> HIDE DEF a
    <3> QED BY <1>1, <1>4, <3>1, <3>2, RunsSet
  <2>5. CASE /\ run \notin {Nil, call[t].run}
             /\ SetApp(t, [App(t) EXCEPT !.run = Nil])
             /\ call' = [call EXCEPT ![t].run = run] /\ Go(t, "store")
    <3> DEFINE a == [App(t) EXCEPT !.run = Nil]
    <3>1. a \in AppRecord /\ a.info = App(t).info /\ a.state = App(t).state
      BY <1>2 DEF AppRecord
    <3>2. SetApp(t, a) /\ Go(t, "store") /\ "store" \in Querying
      BY <2>5 DEF Querying
    <3>3. call'[t].i = call[t].i /\ call'[t].run = run
      BY <1>5, <2>5
    <3> HIDE DEF a, run
    <3>4. run \in given[App(t).info]
      BY <2>1, <2>5
    <3> QED BY <1>1, <1>4, <2>3, <3>1, <3>2, <3>3, <3>4, RunsSet
  <2>6. CASE /\ run \in {Nil, call[t].run}
             /\ SetApp(t, [App(t) EXCEPT !.state = state, !.told = state = "ok"])
             /\ UNCHANGED call /\ Go(t, "count")
    <3> DEFINE a == [App(t) EXCEPT !.state = state, !.told = state = "ok"]
    <3>1. SetApp(t, a) /\ UNCHANGED call /\ Go(t, "count") /\ "count" \in Querying
      BY <2>6 DEF Querying
    <3> HIDE DEF state
    <3>2. a \in AppRecord /\ a.info = App(t).info /\ a.state = state /\ a.run = App(t).run
      BY <1>2, <2>2, ZenonT(60) DEF AppRecord
    <3> HIDE DEF a, run
    <3>3. ~overlapped => (a.state = "ok" => a.run \in given[a.info])
      BY <2>1, <2>2, <2>3, <2>6, <3>2
    <3> QED BY <1>1, <1>4, <3>1, <3>2, <3>3, RunsSet
  <2> QED BY <1>8, <2>4, <2>5, <2>6 DEF Exchange
<1>9. CASE Store(t)
  <2> DEFINE a == StoreReply(t, call[t].run)
  <2>1. call[t].run \in RunID \cup {Nil}
    BY SameCall
  <2>2. a \in AppRecord /\ a.info = App(t).info /\ a.run = call[t].run
    BY <1>2, <2>1, ZenonT(60) DEF AppRecord, StoreReply
  <2>3. SetApp(t, a) /\ UNCHANGED call /\ Go(t, "count") /\ "count" \in Querying
    BY <1>9 DEF Store, Querying
  <2>4. ~overlapped => a.run \in given[a.info]
    BY <1>9, <2>2, ZenonT(60) DEF Store, RunInv, Told
  <2> HIDE DEF a
  <2> QED BY <1>1, <1>4, <2>2, <2>3, <2>4, RunsSet
<1>10. CASE Count(t)
  <2>1. /\ Counted(App(t)) \in AppRecord /\ Counted(App(t)).info = App(t).info
        /\ Counted(App(t)).state = App(t).state /\ Counted(App(t)).run = App(t).run
    BY <1>2, CountedKeeps
  <2>2. SetApp(t, Counted(App(t))) /\ UNCHANGED call /\ Go(t, "decide") /\ "decide" \in Querying
    BY <1>10 DEF Count, Querying
  <2> QED BY <1>1, <1>3, <1>4, <2>1, <2>2, RunsSet
<1> QED BY <1>7, <1>8, <1>9, <1>10

\* The steps of a call other than the query.
LEMMA RunsLeave ==
  ASSUME ListInv, ListInv', RunInv, NEW t \in Thread,
         \/ LockList(t) \/ Search(t) \/ NotFound(t) \/ GiveUp(t) \/ Retry(t)
         \/ Connected(t) \/ Begin(t) \/ Copy(t) \/ ApplyRules(t) \/ Send(t)
  PROVE  RunInv'
<1>1. UNCHANGED <<given, live, current, overlapped>> /\ pc[t] # "idle"
  BY DEF LockList, Search, NotFound, GiveUp, Retry, Connected, Begin, Copy, ApplyRules,
         Send, envVars, daemonVars
<1>2. ASSUME NEW at \in {"idle", "search", "consider", "rules", "send"}, Go(t, at),
             UNCHANGED apps, txn' = txn \/ txn' = [txn EXCEPT ![t] = Nil]
      PROVE  RunInv'
  BY <1>1, <1>2, RunsStay, ZenonT(60) DEF Go
<1>3. CASE LockList(t)
  BY <1>2, <1>3 DEF LockList
<1>4. CASE Search(t)
  <2>1. CASE Matches(t)
    BY <1>2, <1>4, <2>1 DEF Search
  <2>2. CASE ~Matches(t)
    <3>1. pc' = [pc EXCEPT ![t] = "search"] /\ UNCHANGED <<apps, txn>>
      BY <1>4, <2>2 DEF Search, ListInv, AppTypes
    <3> QED BY <1>1, <3>1, RunsStay, ZenonT(60)
  <2> QED BY <2>1, <2>2
<1>5. CASE NotFound(t)
  <2>1. UNCHANGED txn
    BY <1>5 DEF NotFound
  <2>2. CASE UNCHANGED apps /\ (Go(t, "send") \/ Go(t, "idle"))
    BY <1>2, <2>1, <2>2
  <2>3. CASE apps' = Append(apps, NewApp(call[t].info)) /\ Go(t, "consider")
    <3>1. apps \in Seq(AppRecord) /\ NewApp(call[t].info).state # "ok"
      BY ZenonT(60) DEF ListInv, AppTypes, NewApp
    <3>2. ~overlapped => AppsGiven'
      BY <1>1, <2>3, <3>1 DEF RunInv, AppsGiven
    <3>3. pc'[t] = "consider" /\ \A u \in Thread : u # t => pc'[u] = pc[u] /\ txn'[u] = txn[u]
      BY <2>1, <2>3, ZenonT(60) DEF Go, ListInv, AppTypes
    <3>4. Told(t)'
      BY <3>3, ZenonT(60) DEF Told
    <3>5. ~overlapped => TxnGiven(t)'
      BY <1>1, <2>1, ZenonT(60) DEF RunInv, TxnGiven
    <3> QED BY <1>1, <3>2, <3>3, <3>4, <3>5, RunsStep
  <2> QED BY <1>5, <2>2, <2>3 DEF NotFound, Done
<1>6. CASE GiveUp(t) \/ Connected(t) \/ ApplyRules(t) \/ Send(t)
  BY <1>2, <1>6 DEF GiveUp, Connected, ApplyRules, Send, Done, appVars
<1>7. CASE Retry(t)
  BY <1>2, <1>7 DEF Retry, appVars
<1>8. CASE Begin(t)
  <2>1. CASE App(t).state = "ok"
    BY <1>1, <1>8, <2>1, RunsStay, ZenonT(60) DEF Begin, Go, appVars
  <2>2. CASE App(t).state # "ok"
    BY <1>2, <1>8, <2>2 DEF Begin, Done, appVars
  <2> QED BY <2>1, <2>2
<1>9. CASE Copy(t)
  <2>1. pc[t] = "copy" /\ call[t].i \in 1..Len(apps) /\ UNCHANGED apps
    BY <1>9, ZenonT(60) DEF Copy, ListInv, Placed, appVars
  <2>2. /\ \A u \in Thread : u # t => pc'[u] = pc[u] /\ txn'[u] = txn[u]
        /\ pc'[t] = "idle" /\ txn'[t] = [info |-> App(t).info, run |-> App(t).run]
    BY <1>9, ZenonT(60) DEF Copy, Done, Go, ListInv, AppTypes
  <2>3. Told(t)'
    BY <2>2 DEF Told
  <2>4. ASSUME ~overlapped PROVE AppsGiven' /\ TxnGiven(t)'
    <3>1. App(t).run \in given[App(t).info]
      BY <2>1, <2>4, ZenonT(60) DEF RunInv, Told, AppsGiven, App
    <3>2. TxnGiven(t)'
      <4>1. txn'[t].run = App(t).run /\ txn'[t].info = App(t).info
        BY <2>2
      <4> QED BY <1>1, <3>1, <4>1, ZenonT(60) DEF TxnGiven
    <3> QED BY <1>1, <2>1, <2>4, <3>2, ZenonT(60) DEF RunInv, AppsGiven
  <2> QED BY <1>1, <2>1, <2>2, <2>3, <2>4, RunsStep, ZenonT(60)
<1> QED BY <1>3, <1>4, <1>5, <1>6, <1>7, <1>8, <1>9

\* A call that begins while none is under way (newrelic_start_transaction and
\* the others).
LEMMA RunsCall == ASSUME ListInv, RunInv, NEW t \in Thread, Call(t) PROVE RunInv'
<1>1. PICK at \in {"list", "consider"} : \E c : Enter(t, c, at)
  BY ZenonT(60) DEF Call, CallCreate, CallStart, CallEnd
<1>2. /\ UNCHANGED <<apps, txn, given, live, current>> /\ pc' = [pc EXCEPT ![t] = at]
      /\ overlapped' = (overlapped \/ \E u \in Thread : pc[u] # "idle")
  BY <1>1 DEF Enter, Go, appVars, daemonVars
<1>3. \A n \in Info : live'[n] \subseteq given'[n] /\ (current'[n] # Nil => current'[n] \in given'[n])
  BY <1>2 DEF RunInv
<1>4. ASSUME ~overlapped'
      PROVE  /\ \A u \in Thread, v \in Thread : pc'[u] # "idle" /\ pc'[v] # "idle" => u = v
             /\ AppsGiven'
             /\ \A u \in Thread : Told(u)' /\ TxnGiven(u)'
  <2>1. ~overlapped /\ \A u \in Thread : pc[u] = "idle"
    BY <1>2, <1>4, ZenonT(60)
  <2>2. \A u \in Thread : (u # t => pc'[u] = "idle") /\ pc'[u] \in {"idle", "list", "consider"}
    BY <1>2, <2>1 DEF ListInv, AppTypes
  <2>3. AppsGiven' /\ \A u \in Thread : TxnGiven(u)'
    BY <1>2, <2>1 DEF RunInv, AppsGiven, TxnGiven
  <2>4. \A u \in Thread : Told(u)'
    BY <2>2 DEF Told
  <2> QED BY <2>2, <2>3, <2>4
<1> QED BY <1>3, <1>4, ZenonT(60) DEF RunInv

\* Runs that the daemon gives and withdraws stay given, and the clock changes no
\* run (processConnectAttempt, processHarvestError).
LEMMA RunsOthers ==
  ASSUME ListInv, ListInv', RunInv,
         \/ \E t \in Thread, h \in Handle : DestroyApp(t, h)
         \/ \E n \in Info : DaemonConnects(n) \/ DaemonLoses(n)
         \/ DaemonRestarts \/ Tick \/ ClockSetBack
  PROVE  RunInv'
<1>1. ASSUME UNCHANGED <<txn, pc, call, overlapped>>, Len(apps') = Len(apps),
             \A i \in 1..Len(apps) : /\ apps'[i].state = apps[i].state
                                     /\ apps'[i].run = apps[i].run
                                     /\ apps'[i].info = apps[i].info,
             \A n \in Info : given[n] \subseteq given'[n],
             \A n \in Info : live'[n] \subseteq given'[n],
             \A n \in Info : current'[n] # Nil => current'[n] \in given'[n]
      PROVE  RunInv'
  <2>1. ASSUME ~overlapped PROVE AppsGiven'
    <3>1. ASSUME NEW i \in 1..Len(apps) PROVE apps[i].info \in Info
      <4>1. apps[i] \in AppRecord
        BY DEF ListInv, AppTypes
      <4> QED BY <4>1 DEF AppRecord
    <3> QED BY <1>1, <2>1, <3>1, ZenonT(60) DEF RunInv, AppsGiven
  <2>2. ASSUME ~overlapped, NEW t \in Thread PROVE TxnGiven(t)'
    <3>1. txn[t] # Nil => txn[t].info \in Info
      BY DEF ListInv, AppTypes
    <3>2. txn[t] # Nil => txn[t].run \in given[txn[t].info]
      BY <2>2 DEF RunInv, TxnGiven
    <3> QED BY <1>1, <3>1, <3>2 DEF TxnGiven
  <2>3. ASSUME ~overlapped, NEW t \in Thread PROVE Told(t)'
    <3>1. pc[t] \in Querying \cup {"copy"} => call[t].i \in 1..Len(apps) /\ App(t).info \in Info
      BY AtApp
    <3> QED BY <1>1, <2>3, <3>1, ZenonT(60) DEF RunInv, Told, App, Querying
  <2> QED BY <1>1, <2>1, <2>2, <2>3 DEF RunInv
<1>2. ASSUME UNCHANGED <<appVars, txn, pc, call, overlapped>>,
             \A n \in Info : given[n] \subseteq given'[n],
             \A n \in Info : live'[n] \subseteq given'[n],
             \A n \in Info : current'[n] # Nil => current'[n] \in given'[n]
      PROVE  RunInv'
  BY <1>1, <1>2, ZenonT(60) DEF appVars
<1>3. ASSUME NEW t \in Thread, NEW h \in Handle, DestroyApp(t, h) PROVE RunInv'
  BY <1>2, <1>3, ZenonT(60) DEF DestroyApp, envVars, daemonVars, RunInv
<1>4. ASSUME NEW n \in Info, DaemonConnects(n) PROVE RunInv'
  <2>1. PICK r : Runs!Give(n, r)
    BY <1>4 DEF DaemonConnects
  <2>2. UNCHANGED <<appVars, txn, pc, call, overlapped>>
    BY <1>4 DEF DaemonConnects
  <2> QED BY <1>2, <2>1, <2>2 DEF Runs!Give, ListInv, RunTypes, RunInv
<1>5. ASSUME NEW n \in Info, DaemonLoses(n) PROVE RunInv'
  BY <1>2, <1>5 DEF DaemonLoses, Runs!Withdraw, Runs!End, ListInv, RunTypes, RunInv
<1>6. CASE DaemonRestarts
  BY <1>2, <1>6, ZenonT(60) DEF DaemonRestarts, Runs!Restart, RunInv
<1>7. ASSUME NEW d, apps' = Aged(d),
             UNCHANGED <<txn, pc, call, overlapped, given, live, current>>
      PROVE  RunInv'
  <2>1. apps \in Seq(AppRecord) /\ Len(apps') = Len(apps)
    BY <1>7 DEF ListInv, AppTypes, Aged
  <2>2. ASSUME NEW i \in 1..Len(apps)
        PROVE  /\ apps'[i].state = apps[i].state /\ apps'[i].run = apps[i].run
               /\ apps'[i].info = apps[i].info
    <3>1. apps[i] \in AppRecord
      BY <2>1
    <3> QED BY <1>7, <2>1, <3>1 DEF Aged, AppRecord
  <2> QED BY <1>1, <1>7, <2>1, <2>2, ZenonT(60) DEF RunInv
<1>8. CASE Tick
  BY <1>7, <1>8 DEF Tick, envVars, daemonVars
<1>9. CASE ClockSetBack
  BY <1>7, <1>9 DEF ClockSetBack, daemonVars
<1> QED BY <1>3, <1>4, <1>5, <1>6, <1>8, <1>9

\* Every step of threads, daemon and clock keeps the runs in order.
LEMMA RunsNext == ASSUME ListInv, RunInv, [Next]_vars PROVE RunInv'
<1>1. ListInv'
  BY ListNext
<1>2. CASE UNCHANGED vars
  <2>1. UNCHANGED <<apps, txn, pc, call, given, live, current, overlapped>>
    BY <1>2 DEF vars, appVars, envVars, daemonVars
  <2> QED BY <2>1 DEF RunInv, AppsGiven, Told, TxnGiven, App
<1>3. ASSUME NEW t \in Thread, Step(t) PROVE RunInv'
  BY <1>1, <1>3, RunsQuery, RunsLeave DEF Step, Acquire
<1>4. ASSUME NEW t \in Thread, Call(t) PROVE RunInv'
  BY <1>4, RunsCall
<1> QED BY <1>1, <1>2, <1>3, <1>4, RunsOthers DEF Next

\* For any number of threads and applications, a transaction that was started
\* while calls did not overlap carries a run the daemon gave its application
\* (nr_txn_begin, nr_cmd_appinfo_process_reply).
THEOREM RunsAreGiven == Spec => []RunIsGiven
<1>1. RunInv => RunIsGiven
  BY DEF RunInv, RunIsGiven, TxnGiven
<1>2. Spec => []RunInv
  BY ListAlways, RunsInit, RunsNext, PTL DEF Spec
<1> QED BY <1>1, <1>2, PTL
------------------------------------------------------------------------------
\* What the daemon said

Asking == {"exchange", "store"}

\* An application that the daemon said is connected is known, or being asked
\* about again.
HeardInv ==
  \A i \in 1..Len(apps) :
    apps[i].told /\ apps[i].state # "ok" =>
      \E t \in Thread : pc[t] \in Asking /\ call[t].i = i

\* A step of a thread that is not asking, and leaves what was said.
LEMMA HeardStay ==
  ASSUME ListInv, HeardInv, NEW t \in Thread, pc[t] \notin Asking,
         \A u \in Thread \ {t} : pc'[u] = pc[u] /\ call'[u] = call[u],
         \A i \in 1..Len(apps') :
           apps'[i].told =>
             i \in 1..Len(apps) /\ apps[i].told /\ apps'[i].state = apps[i].state
  PROVE  HeardInv'
<1>1. SUFFICES ASSUME NEW i \in 1..Len(apps'), apps'[i].told, apps'[i].state # "ok"
               PROVE  \E u \in Thread : pc'[u] \in Asking /\ call'[u].i = i
  BY DEF HeardInv
<1>2. PICK u \in Thread : pc[u] \in Asking /\ call[u].i = i
  BY <1>1 DEF HeardInv
<1> QED BY <1>2

\* A step of a query sets one application.
LEMMA HeardSet ==
  ASSUME ListInv, HeardInv, NEW t \in Thread, pc[t] \in Querying,
         NEW at \in Querying, Go(t, at), NEW a \in AppRecord, SetApp(t, a),
         \A u \in Thread \ {t} : call'[u] = call[u], call'[t].i = call[t].i,
         a.told /\ a.state # "ok" =>
           \/ at \in Asking
           \/ pc[t] \notin Asking /\ App(t).told /\ App(t).state # "ok"
  PROVE  HeardInv'
<1>1. call[t].i \in 1..Len(apps)
  BY ZenonT(60) DEF ListInv, Placed
<1>2. /\ Len(apps') = Len(apps) /\ apps'[call[t].i] = a
      /\ \A j \in 1..Len(apps) : j # call[t].i => apps'[j] = apps[j]
  BY <1>1 DEF SetApp, ListInv, AppTypes
<1>3. pc'[t] = at /\ \A u \in Thread \ {t} : pc'[u] = pc[u]
  BY ZenonT(60) DEF Go, ListInv, AppTypes
<1>4. SUFFICES ASSUME NEW i \in 1..Len(apps), apps'[i].told, apps'[i].state # "ok"
               PROVE  \E u \in Thread : pc'[u] \in Asking /\ call'[u].i = i
  BY <1>2 DEF HeardInv
<1>5. CASE i = call[t].i /\ at \in Asking
  BY <1>3, <1>5
<1>6. CASE i = call[t].i /\ at \notin Asking
  <2>1. pc[t] \notin Asking /\ apps[i].told /\ apps[i].state # "ok"
    BY <1>2, <1>4, <1>6 DEF App
  <2>2. PICK u \in Thread : pc[u] \in Asking /\ call[u].i = i
    BY <1>4, <2>1 DEF HeardInv
  <2> QED BY <1>3, <2>1, <2>2
<1>7. CASE i # call[t].i
  <2>1. PICK u \in Thread : pc[u] \in Asking /\ call[u].i = i
    BY <1>2, <1>4, <1>7 DEF HeardInv
  <2> QED BY <1>3, <1>7, <2>1
<1> QED BY <1>5, <1>6, <1>7

\* nr_app_consider_appinfo counts failures and leaves what was said.
LEMMA CountedTold ==
  ASSUME NEW a \in AppRecord
  PROVE  Counted(a).told = a.told /\ Counted(a).state = a.state
BY DEF Counted, AppRecord

\* The steps of a query.
LEMMA HeardQuery ==
  ASSUME ListInv, HeardInv, NEW t \in Thread,
         Consider(t) \/ Exchange(t) \/ Store(t) \/ Count(t)
  PROVE  HeardInv'
<1>1. pc[t] \in Querying
  BY DEF Consider, Exchange, Store, Count, Querying
<1>2. call[t].i \in 1..Len(apps) /\ App(t) \in AppRecord
  BY <1>1, AtApp
<1>3. ASSUME NEW r, call' = [call EXCEPT ![t].run = r]
      PROVE  /\ \A u \in Thread \ {t} : call'[u] = call[u]
             /\ call'[t].i = call[t].i
  <2>1. call[t] \in CallRecord /\ call \in [Thread -> CallRecord]
    BY DEF ListInv, AppTypes
  <2>2. [call[t] EXCEPT !.run = r].i = call[t].i
    BY <2>1 DEF CallRecord
  <2> QED BY <1>3, <2>1, <2>2
<1>4. {"exchange", "store", "count", "decide"} \subseteq Querying
      /\ "exchange" \in Asking /\ "store" \in Asking
  BY DEF Querying, Asking
<1>5. CASE Consider(t)
  <2>0. pc[t] \notin Asking
    BY <1>5 DEF Consider, Asking
  <2>1. CASE Go(t, "decide") /\ UNCHANGED <<apps, call>>
    <3>1. \A u \in Thread \ {t} : pc'[u] = pc[u] /\ call'[u] = call[u]
      BY <2>1, ZenonT(60) DEF Go, ListInv, AppTypes
    <3> QED BY <2>0, <2>1, <3>1, HeardStay
  <2>2. CASE SetApp(t, Counted([App(t) EXCEPT !.age = 0])) /\ UNCHANGED call /\ Go(t, "decide")
    <3> DEFINE b == [App(t) EXCEPT !.age = 0]
    <3>1. b \in AppRecord /\ b.told = App(t).told /\ b.state = App(t).state
      BY <1>2 DEF AppRecord
    <3>2. SetApp(t, Counted(b)) /\ UNCHANGED call /\ Go(t, "decide")
      BY <2>2
    <3> HIDE DEF b
    <3>3. /\ Counted(b) \in AppRecord
          /\ Counted(b).state = App(t).state /\ Counted(b).told = App(t).told
      BY <3>1, CountedKeeps, CountedTold
    <3> QED BY <1>1, <1>4, <2>0, <3>2, <3>3, HeardSet
  <2>3. CASE /\ SetApp(t, [App(t) EXCEPT !.age = 0, !.state = "unknown"])
             /\ call' = [call EXCEPT ![t].run = App(t).run]
             /\ Go(t, "exchange")
    <3> DEFINE a == [App(t) EXCEPT !.age = 0, !.state = "unknown"]
    <3>1. a \in AppRecord
      BY <1>2, QueriedKeeps, ZenonT(60)
    <3>2. SetApp(t, a) /\ Go(t, "exchange")
      BY <2>3
    <3>3. /\ \A u \in Thread \ {t} : call'[u] = call[u]
          /\ call'[t].i = call[t].i
      BY <1>3, <2>3
    <3> HIDE DEF a
    <3> QED BY <1>1, <1>4, <3>1, <3>2, <3>3, HeardSet
  <2> QED BY <1>5, <2>1, <2>2, <2>3 DEF Consider
<1>6. CASE Exchange(t)
  <2> DEFINE run == Runs!Answer(App(t).info, call[t].run)
             state == ReplyState(IF run # Nil THEN "connected" ELSE refusal[App(t).info])
  <2>1. state \in {"unknown", "ok", "invalid"}
    <3>1. refusal[App(t).info] \in {"unknown", "disconnected", "invalid_license"}
      BY <1>2, ZenonT(60) DEF ListInv, RunTypes, AppRecord
    <3> QED BY <3>1 DEF ReplyState
  <2>2. CASE Lost(t) /\ UNCHANGED call /\ Go(t, "count")
    <3> DEFINE a == [App(t) EXCEPT !.state = "unknown", !.told = FALSE]
    <3>1. a \in AppRecord /\ a.told = FALSE
      BY <1>2, ZenonT(60) DEF AppRecord
    <3>2. SetApp(t, a) /\ UNCHANGED call /\ Go(t, "count")
      BY <2>2 DEF Lost
    <3> HIDE DEF a
    <3> QED BY <1>1, <1>4, <3>1, <3>2, HeardSet
  <2>3. CASE /\ SetApp(t, [App(t) EXCEPT !.run = Nil])
             /\ call' = [call EXCEPT ![t].run = run] /\ Go(t, "store")
    <3> DEFINE a == [App(t) EXCEPT !.run = Nil]
    <3>1. a \in AppRecord
      BY <1>2 DEF AppRecord
    <3>2. SetApp(t, a) /\ Go(t, "store")
      BY <2>3
    <3>3. /\ \A u \in Thread \ {t} : call'[u] = call[u]
          /\ call'[t].i = call[t].i
      BY <1>3, <2>3
    <3> HIDE DEF a
    <3> QED BY <1>1, <1>4, <3>1, <3>2, <3>3, HeardSet
  <2>4. CASE /\ SetApp(t, [App(t) EXCEPT !.state = state, !.told = state = "ok"])
             /\ UNCHANGED call /\ Go(t, "count")
    <3> DEFINE a == [App(t) EXCEPT !.state = state, !.told = state = "ok"]
    <3>1. SetApp(t, a) /\ UNCHANGED call /\ Go(t, "count")
      BY <2>4
    <3> HIDE DEF state
    <3>2. a \in AppRecord /\ a.state = state /\ a.told = (state = "ok")
      BY <1>2, <2>1, ZenonT(60) DEF AppRecord
    <3> HIDE DEF a
    <3> QED BY <1>1, <1>4, <3>1, <3>2, HeardSet
  <2> QED BY <1>6, <2>2, <2>3, <2>4 DEF Exchange
<1>7. CASE Store(t)
  <2> DEFINE a == StoreReply(t, call[t].run)
  <2>1. call[t].run \in RunID \cup {Nil}
    BY SameCall
  <2>2. a \in AppRecord /\ a.state = "ok"
    BY <1>2, <2>1, ZenonT(60) DEF AppRecord, StoreReply
  <2>3. SetApp(t, a) /\ UNCHANGED call /\ Go(t, "count")
    BY <1>7 DEF Store
  <2> HIDE DEF a
  <2> QED BY <1>1, <1>4, <2>2, <2>3, HeardSet
<1>8. CASE Count(t)
  <2>1. /\ Counted(App(t)) \in AppRecord /\ Counted(App(t)).told = App(t).told
        /\ Counted(App(t)).state = App(t).state
    BY <1>2, CountedKeeps, CountedTold
  <2>2. /\ SetApp(t, Counted(App(t))) /\ UNCHANGED call /\ Go(t, "decide")
        /\ pc[t] \notin Asking
    BY <1>8 DEF Count, Asking
  <2> QED BY <1>1, <1>4, <2>1, <2>2, HeardSet
<1> QED BY <1>5, <1>6, <1>7, <1>8

\* The other steps of a thread ask nothing of the daemon.
LEMMA HeardThread ==
  ASSUME ListInv, HeardInv, NEW t \in Thread, Step(t) \/ Call(t)
  PROVE  HeardInv'
<1>0. pc = [u \in Thread |-> pc[u]] /\ call \in [Thread -> CallRecord] /\ apps \in Seq(AppRecord)
  BY DEF ListInv, AppTypes
<1>1. ASSUME NEW at, Go(t, at) \/ UNCHANGED pc, NEW c,
             call' = [call EXCEPT ![t] = c] \/ UNCHANGED call
      PROVE  \A u \in Thread \ {t} : pc'[u] = pc[u] /\ call'[u] = call[u]
  BY <1>0, <1>1, ZenonT(60) DEF Go
<1>2. ASSUME pc[t] \notin Asking, UNCHANGED apps,
             \A u \in Thread \ {t} : pc'[u] = pc[u] /\ call'[u] = call[u]
      PROVE  HeardInv'
  BY <1>2, HeardStay
<1>3. ASSUME NEW at, Go(t, at), NEW c, call' = [call EXCEPT ![t] = c] \/ UNCHANGED call,
             pc[t] \notin Asking, UNCHANGED apps
      PROVE  HeardInv'
  BY <1>1, <1>2, <1>3, ZenonT(60)
<1>4. \A x \in {"idle", "list", "search", "decide", "copy", "rules", "send"} : x \notin Asking
  BY DEF Asking
<1>5. CASE Call(t)
  BY <1>3, <1>4, <1>5, ZenonT(60) DEF Call, CallCreate, CallStart, CallEnd, Enter, appVars
<1>6. CASE LockList(t)
  BY <1>3, <1>4, <1>6, ZenonT(60) DEF LockList
<1>7. CASE Search(t)
  BY <1>1, <1>2, <1>4, <1>7, ZenonT(60) DEF Search
<1>8. CASE Begin(t) \/ Copy(t) \/ Send(t) \/ Retry(t)
  BY <1>3, <1>4, <1>8, ZenonT(60) DEF Begin, Copy, Send, Retry, Done, appVars
<1>9. CASE GiveUp(t) \/ Connected(t) \/ ApplyRules(t)
  BY <1>3, <1>4, <1>9, ZenonT(60) DEF GiveUp, Connected, ApplyRules, Done
<1>10. CASE NotFound(t)
  <2>1. CASE UNCHANGED apps
    BY <1>3, <1>4, <1>10, <2>1, ZenonT(60) DEF NotFound, Done
  <2>2. CASE apps' = Append(apps, NewApp(call[t].info)) /\ Go(t, "consider") /\ UNCHANGED call
    <3>1. \A i \in 1..Len(apps') :
            apps'[i].told =>
              i \in 1..Len(apps) /\ apps[i].told /\ apps'[i].state = apps[i].state
      BY <1>0, <2>2 DEF NewApp
    <3>2. pc[t] \notin Asking
      BY <1>4, <1>10 DEF NotFound
    <3> QED BY <1>1, <2>2, <3>1, <3>2, HeardStay
  <2> QED BY <1>10, <2>1, <2>2, ZenonT(60) DEF NotFound
<1> QED BY <1>5, <1>6, <1>7, <1>8, <1>9, <1>10, HeardQuery DEF Step, Acquire

\* The clock changes when the daemon is asked, and not what it said.
LEMMA HeardAged ==
  ASSUME ListInv, HeardInv, NEW d, apps' = Aged(d), UNCHANGED <<pc, call>>
  PROVE  HeardInv'
<1>1. apps \in Seq(AppRecord) /\ Len(apps') = Len(apps)
  BY DEF ListInv, AppTypes, Aged
<1>2. ASSUME NEW i \in 1..Len(apps)
      PROVE  apps'[i].state = apps[i].state /\ apps'[i].told = apps[i].told
  <2>1. apps[i] \in AppRecord
    BY <1>1
  <2> QED BY <1>1, <2>1 DEF Aged, AppRecord
<1> QED BY <1>1, <1>2, ZenonT(60) DEF HeardInv

\* Every step keeps what was said with the state it was stored in.
LEMMA HeardNext == ASSUME ListInv, HeardInv, [Next]_vars PROVE HeardInv'
<1>1. ASSUME UNCHANGED <<apps, pc, call>> PROVE HeardInv'
  BY <1>1 DEF HeardInv
<1>2. CASE UNCHANGED vars
  BY <1>1, <1>2 DEF vars, appVars, envVars
<1>3. ASSUME NEW t \in Thread, Call(t) \/ Step(t) \/ \E h \in Handle : DestroyApp(t, h)
      PROVE  HeardInv'
  BY <1>1, <1>3, HeardThread DEF DestroyApp, appVars
<1>4. ASSUME NEW n \in Info, DaemonConnects(n) \/ DaemonLoses(n) PROVE HeardInv'
  BY <1>1, <1>4 DEF DaemonConnects, DaemonLoses, appVars
<1>5. CASE DaemonRestarts
  BY <1>1, <1>5 DEF DaemonRestarts, appVars
<1>6. CASE Tick \/ ClockSetBack
  BY <1>6, HeardAged DEF Tick, ClockSetBack
<1> QED BY <1>2, <1>3, <1>4, <1>5, <1>6 DEF Next

\* A call of newrelic_start_transaction that stops after its query finds the
\* application in another state than NR_APP_OK (nr_txn_begin).
LEMMA RefusedAt ==
  ASSUME ListInv, [Next]_vars, NEW t \in Thread,
         pc[t] = "decide", call[t].op = "start", pc'[t] = "idle"
  PROVE  App(t).state # "ok"
<1>0. pc = [u \in Thread |-> pc[u]]
  BY DEF ListInv, AppTypes
<1>1. ASSUME UNCHANGED pc PROVE FALSE
  BY <1>1
<1>2. ASSUME NEW u \in Thread \ {t}, NEW at, Go(u, at) PROVE FALSE
  BY <1>0, <1>2, ZenonT(60) DEF Go
<1>3. ASSUME NEW u \in Thread \ {t}, Step(u) \/ Call(u) PROVE FALSE
  BY <1>1, <1>2, <1>3, ZenonT(60)
     DEF Step, Acquire, LockList, Search, Begin, NotFound, Consider, Exchange, Store,
         Count, GiveUp, Retry, Connected, Copy, ApplyRules, Send, Done, Call, CallCreate,
         CallStart, CallEnd, Enter
<1>4. CASE Step(t) \/ Call(t)
  <2>1. Begin(t)
    BY <1>4 DEF Step, Acquire, LockList, Search, NotFound, Consider, Exchange, Store,
         Count, GiveUp, Retry, Connected, Copy, ApplyRules, Send, Call, CallCreate,
         CallStart, CallEnd, Enter
  <2>2. ASSUME Go(t, "copy") PROVE FALSE
    BY <1>0, <2>2 DEF Go
  <2> QED BY <2>1, <2>2, ZenonT(60) DEF Begin
<1> QED BY <1>1, <1>3, <1>4
        DEF Next, vars, DestroyApp, DaemonConnects, DaemonLoses, DaemonRestarts, Tick,
            ClockSetBack

\* For any number of threads and applications: while the calls of the program
\* do not overlap, newrelic_start_transaction refuses a transaction only if the
\* last answer of the daemon did not say that the application is connected.
THEOREM RefusedOnlyUntold == Spec => RefusedUnlessOk
<1>1. ASSUME ListInv, RunInv, HeardInv, [Next]_vars, NEW t \in Thread,
             ~overlapped, pc[t] = "decide", call[t].op = "start", pc'[t] = "idle"
      PROVE  ~App(t).told
  <2>1. App(t).state # "ok"
    BY <1>1, RefusedAt
  <2>2. call[t].i \in 1..Len(apps)
    BY <1>1, AtApp DEF Querying
  <2>3. \A u \in Thread \ {t} : pc[u] = "idle"
    BY <1>1 DEF RunInv
  <2> QED BY <1>1, <2>1, <2>2, <2>3 DEF HeardInv, App, Asking
<1>2. Init => HeardInv
  BY DEF Init, HeardInv
<1>3. Spec => [](ListInv /\ RunInv /\ HeardInv)
  BY <1>2, ListAlways, RunsInit, RunsNext, HeardNext, PTL DEF Spec
<1>4. ListInv /\ RunInv /\ HeardInv /\ [Next]_vars =>
        [\A t \in Thread :
           /\ ~overlapped
           /\ pc[t] = "decide" /\ call[t].op = "start" /\ pc'[t] = "idle"
           => ~App(t).told]_vars
  BY <1>1
<1> QED BY <1>3, <1>4, PTL DEF Spec, RefusedUnlessOk

----------------------------------------------------------------------------
\* Who has the locks

\* Where a thread has the application it found for itself: Exclusive, of a place
\* and a call.
Found(at, c) == (at \in Querying /\ c.op = "create") \/ at = "rules"

\* The list is locked by a thread that searches it, an application by one that
\* found it and a newrelic_app_t by one that starts a transaction.
HolderInv ==
  /\ handleLock \in [Handle -> Thread \cup {Nil}]
  /\ listLock # Nil => listLock \in Thread /\ pc[listLock] = "search"
  /\ \A i \in 1..Len(appLock) :
       appLock[i] # Nil =>
         Found(pc[appLock[i]], call[appLock[i]]) /\ call[appLock[i]].i = i
  /\ \A h \in Handle :
       handleLock[h] # Nil =>
         pc[handleLock[h]] = "copy" /\ call[handleLock[h]].h = h

\* What a thread does not have by where it is.
LEMMA HoldsNot ==
  ASSUME ListInv, HolderInv, NEW t \in Thread
  PROVE  /\ pc[t] # "search" => listLock # t
         /\ ~Found(pc[t], call[t]) => \A i \in 1..Len(appLock) : appLock[i] # t
         /\ \A i \in 1..Len(appLock) : i # call[t].i => appLock[i] # t
         /\ pc[t] # "copy" => \A h \in Handle : handleLock[h] # t
         /\ \A h \in Handle : h # call[t].h => handleLock[h] # t
<1>1. t # Nil
  BY AppAssumption
<1>2. pc[t] # "search" => listLock # t
  BY <1>1, ZenonT(60) DEF HolderInv
<1>3. ASSUME NEW i \in 1..Len(appLock), appLock[i] = t
      PROVE  Found(pc[t], call[t]) /\ i = call[t].i
  BY <1>1, <1>3 DEF HolderInv
<1>4. ASSUME NEW h \in Handle, handleLock[h] = t
      PROVE  pc[t] = "copy" /\ h = call[t].h
  BY <1>1, <1>4 DEF HolderInv
<1> QED BY <1>2, <1>3, <1>4, ZenonT(60)

\* A step of one thread: the locks it has afterwards are those of its place.
LEMMA HolderStep ==
  ASSUME ListInv, ListInv', HolderInv, NEW t \in Thread,
         \A u \in Thread \ {t} : pc'[u] = pc[u] /\ call'[u] = call[u],
         handleLock' \in [Handle -> Thread \cup {Nil}],
         listLock' # Nil =>
           \/ listLock' = t /\ pc'[t] = "search"
           \/ listLock' = listLock /\ listLock # t,
         \A i \in 1..Len(appLock') :
           appLock'[i] # Nil =>
             \/ appLock'[i] = t /\ Found(pc'[t], call'[t]) /\ call'[t].i = i
             \/ i \in 1..Len(appLock) /\ appLock'[i] = appLock[i] /\ appLock[i] # t,
         \A h \in Handle :
           handleLock'[h] # Nil =>
             \/ handleLock'[h] = t /\ pc'[t] = "copy" /\ call'[t].h = h
             \/ handleLock'[h] = handleLock[h] /\ handleLock[h] # t
  PROVE  HolderInv'
<1>1. listLock' # Nil => listLock' \in Thread /\ pc'[listLock'] = "search"
  BY DEF HolderInv
<1>2. ASSUME NEW i \in 1..Len(appLock'), appLock'[i] # Nil
      PROVE  Found(pc'[appLock'[i]], call'[appLock'[i]]) /\ call'[appLock'[i]].i = i
  <2>1. CASE appLock'[i] = t
    BY <1>2, <2>1, ZenonT(60)
  <2>2. CASE appLock'[i] # t
    <3>1. i \in 1..Len(appLock) /\ appLock'[i] = appLock[i]
      BY <1>2, <2>2, ZenonT(60)
    <3>2. appLock[i] \in Thread \ {t}
      BY <1>2, <2>2, <3>1 DEF ListInv, AppTypes
    <3>3. Found(pc[appLock[i]], call[appLock[i]]) /\ call[appLock[i]].i = i
      BY <1>2, <3>1 DEF HolderInv
    <3>4. pc'[appLock[i]] = pc[appLock[i]] /\ call'[appLock[i]] = call[appLock[i]]
      BY <3>2
    <3> QED BY <3>1, <3>3, <3>4
  <2> QED BY <2>1, <2>2
<1>3. ASSUME NEW h \in Handle, handleLock'[h] # Nil
      PROVE  pc'[handleLock'[h]] = "copy" /\ call'[handleLock'[h]].h = h
  <2>1. CASE handleLock'[h] = t
    BY <1>3, <2>1, ZenonT(60)
  <2>2. CASE handleLock'[h] # t
    <3>1. handleLock'[h] = handleLock[h] /\ handleLock[h] \in Thread \ {t}
      BY <1>3, <2>2 DEF HolderInv
    <3>2. pc[handleLock[h]] = "copy" /\ call[handleLock[h]].h = h
      BY <1>3, <3>1 DEF HolderInv
    <3> QED BY <3>1, <3>2
  <2> QED BY <2>1, <2>2
<1> QED BY <1>1, <1>2, <1>3, ZenonT(60) DEF HolderInv

\* A step that takes and returns no lock, of a thread that goes on in its place
\* with what it has or has nothing.
LEMMA HolderStay ==
  ASSUME ListInv, ListInv', HolderInv, NEW t \in Thread,
         \A u \in Thread \ {t} : pc'[u] = pc[u] /\ call'[u] = call[u],
         UNCHANGED <<listLock, appLock, handleLock>>,
         pc[t] = "search" => pc'[t] = "search",
         Found(pc[t], call[t]) =>
           Found(pc'[t], call'[t]) /\ call'[t].i = call[t].i,
         pc[t] # "copy"
  PROVE  HolderInv'
<1>1. handleLock' \in [Handle -> Thread \cup {Nil}]
  BY DEF HolderInv
<1>2. listLock' # Nil =>
           \/ listLock' = t /\ pc'[t] = "search"
           \/ listLock' = listLock /\ listLock # t
  BY HoldsNot, ZenonT(60)
<1>3. \A i \in 1..Len(appLock') :
           appLock'[i] # Nil =>
             \/ appLock'[i] = t /\ Found(pc'[t], call'[t]) /\ call'[t].i = i
             \/ i \in 1..Len(appLock) /\ appLock'[i] = appLock[i] /\ appLock[i] # t
  BY HoldsNot, ZenonT(60) DEF HolderInv
<1>4. \A h \in Handle : handleLock'[h] = handleLock[h] /\ handleLock[h] # t
  BY HoldsNot, ZenonT(60)
<1> QED BY <1>1, <1>2, <1>3, <1>4, HolderStep, ZenonT(60)

\* newrelic_create_app and newrelic_end_transaction take the lock of the list,
\* and hand it on for that of an application or let it go (nr_app_find_or_add_app).
LEMMA HolderSearch ==
  ASSUME ListInv, ListInv', HolderInv, NEW t \in Thread,
         LockList(t) \/ Search(t) \/ NotFound(t)
  PROVE  HolderInv'
<1>0. /\ pc = [u \in Thread |-> pc[u]] /\ call \in [Thread -> CallRecord]
      /\ appLock \in Seq(Thread \cup {Nil}) /\ Len(appLock) = Len(apps)
      /\ handleLock \in [Handle -> Thread \cup {Nil}]
  BY DEF ListInv, AppTypes, HolderInv
<1>1. UNCHANGED handleLock /\ pc[t] \in {"list", "search"}
  BY DEF LockList, Search, NotFound
<1>2. /\ \A h \in Handle : handleLock'[h] = handleLock[h] /\ handleLock[h] # t
      /\ \A i \in 1..Len(appLock) : appLock[i] # t
  BY <1>1, HoldsNot DEF Found, Querying
<1>3. \A u \in Thread \ {t} : pc'[u] = pc[u] /\ call'[u] = call[u]
  BY <1>0, ZenonT(60) DEF LockList, Search, NotFound, Go, Done
<1>4. ASSUME listLock' # Nil => listLock' = t /\ pc'[t] = "search",
             \A i \in 1..Len(appLock') :
               \/ appLock'[i] = t /\ Found(pc'[t], call'[t]) /\ call'[t].i = i
               \/ i \in 1..Len(appLock) /\ appLock'[i] = appLock[i]
      PROVE  HolderInv'
  <2>1. handleLock' \in [Handle -> Thread \cup {Nil}]
    BY <1>0, <1>1
  <2> QED BY <1>2, <1>3, <1>4, <2>1, HolderStep, ZenonT(60)
<1>5. ASSUME NEW at, Go(t, at) PROVE pc'[t] = at
  BY <1>0, <1>5, ZenonT(60) DEF Go
<1>6. CASE LockList(t)
  <2>1. listLock' = t /\ pc'[t] = "search" /\ UNCHANGED appLock
    BY <1>5, <1>6 DEF LockList
  <2> QED BY <1>4, <2>1
<1>7. CASE Search(t) /\ ~Matches(t)
  <2>1. UNCHANGED <<listLock, appLock, pc>> /\ pc[t] = "search" /\ listLock = t
    BY <1>7 DEF Search, ListInv, Placed
  <2> QED BY <1>4, <2>1
<1>8. CASE Search(t) /\ Matches(t)
  <2>1. /\ listLock' = Nil /\ appLock' = [appLock EXCEPT ![call[t].i] = t]
        /\ UNCHANGED call /\ Go(t, IF call[t].op = "create" THEN "consider" ELSE "rules")
    BY <1>8 DEF Search
  <2>2. pc'[t] = IF call[t].op = "create" THEN "consider" ELSE "rules"
    BY <1>5, <2>1
  <2>3. Found(pc'[t], call'[t])
    BY <2>1, <2>2 DEF Found, Querying
  <2>4. \A i \in 1..Len(appLock') :
               \/ appLock'[i] = t /\ call'[t].i = i
               \/ i \in 1..Len(appLock) /\ appLock'[i] = appLock[i]
    BY <1>0, <2>1
  <2> QED BY <1>4, <2>1, <2>3, <2>4, ZenonT(60)
<1>9. CASE NotFound(t)
  <2>1. listLock' = Nil
    BY <1>9 DEF NotFound
  <2>2. CASE UNCHANGED appLock
    BY <1>4, <2>1, <2>2
  <2>3. CASE /\ call[t].op # "end" /\ appLock' = Append(appLock, t) /\ Go(t, "consider")
             /\ UNCHANGED call
    <3>1. pc[t] = "search" /\ call[t].i > call[t].num
      BY <1>9 DEF NotFound
    <3>2. call[t].op = "create" /\ call[t].i = Len(appLock) + 1
      BY <1>0, <2>3, <3>1 DEF ListInv, Placed
    <3>3. Found(pc'[t], call'[t]) /\ call'[t].i = Len(appLock) + 1
      BY <1>5, <2>3, <3>2 DEF Found, Querying
    <3>4. \A i \in 1..Len(appLock') :
               \/ appLock'[i] = t /\ i = Len(appLock) + 1
               \/ i \in 1..Len(appLock) /\ appLock'[i] = appLock[i]
      BY <1>0, <2>3
    <3> QED BY <1>4, <2>1, <3>3, <3>4, ZenonT(60)
  <2> QED BY <1>9, <2>2, <2>3, ZenonT(60) DEF NotFound
<1> QED BY <1>6, <1>7, <1>8, <1>9

\* A query and the sleep after it keep the application locked
\* (nr_app_consider_appinfo, nr_agent_find_or_add_app).
LEMMA HolderQuery ==
  ASSUME ListInv, ListInv', HolderInv, NEW t \in Thread,
         Consider(t) \/ Exchange(t) \/ Store(t) \/ Count(t) \/ Retry(t)
  PROVE  HolderInv'
<1>0. pc = [u \in Thread |-> pc[u]] /\ call \in [Thread -> CallRecord]
  BY DEF ListInv, AppTypes
<1>1. pc[t] \in Querying /\ UNCHANGED <<listLock, appLock, handleLock>>
  BY DEF Consider, Exchange, Store, Count, Retry, Querying, appVars
<1>2. \E at \in Querying : Go(t, at)
  BY ZenonT(60) DEF Consider, Exchange, Store, Count, Retry, Querying
<1>3. UNCHANGED call \/ \E r : call' = [call EXCEPT ![t].run = r]
  BY ZenonT(60) DEF Consider, Exchange, Store, Count, Retry
<1>4. /\ \A u \in Thread \ {t} : pc'[u] = pc[u] /\ call'[u] = call[u]
      /\ pc'[t] \in Querying
  BY <1>0, <1>2, <1>3, ZenonT(60) DEF Go
<1>5. call'[t].op = call[t].op /\ call'[t].i = call[t].i
  <2>1. ASSUME NEW r, call' = [call EXCEPT ![t].run = r]
        PROVE  call'[t].op = call[t].op /\ call'[t].i = call[t].i
    <3>1. call'[t] = [call[t] EXCEPT !.run = r] /\ call[t] \in CallRecord
      BY <1>0, <2>1, ZenonT(60)
    <3> QED BY <3>1 DEF CallRecord
  <2> QED BY <1>3, <2>1
<1>6. Found(pc[t], call[t]) => Found(pc'[t], call'[t])
  BY <1>1, <1>4, <1>5 DEF Found, Querying
<1> QED BY <1>1, <1>4, <1>5, <1>6, HolderStay DEF Querying

\* newrelic_create_app and newrelic_end_transaction return with the application
\* unlocked.
LEMMA HolderUnlock ==
  ASSUME ListInv, ListInv', HolderInv, NEW t \in Thread,
         GiveUp(t) \/ Connected(t) \/ ApplyRules(t)
  PROVE  HolderInv'
<1>0. /\ pc = [u \in Thread |-> pc[u]] /\ call = [u \in Thread |-> call[u]]
      /\ appLock \in Seq(Thread \cup {Nil})
  BY DEF ListInv, AppTypes
<1>1. /\ pc[t] \notin {"search", "copy"} /\ UNCHANGED <<listLock, handleLock>>
      /\ appLock' = Unlocked(call[t].i)
  BY DEF GiveUp, Connected, ApplyRules
<1>2. \A u \in Thread \ {t} : pc'[u] = pc[u] /\ call'[u] = call[u]
  BY <1>0, ZenonT(60) DEF GiveUp, Connected, ApplyRules, Go, Done
<1>3. \A i \in 1..Len(appLock') :
        appLock'[i] # Nil =>
          i \in 1..Len(appLock) /\ appLock'[i] = appLock[i] /\ i # call[t].i
  BY <1>0, <1>1 DEF Unlocked
<1>4. listLock # t /\ \A h \in Handle : handleLock'[h] = handleLock[h] /\ handleLock[h] # t
  BY <1>1, HoldsNot, ZenonT(60)
<1>5. \A i \in 1..Len(appLock') :
        appLock'[i] # Nil =>
          i \in 1..Len(appLock) /\ appLock'[i] = appLock[i] /\ appLock[i] # t
  BY <1>3, HoldsNot, ZenonT(60)
<1>6. handleLock' \in [Handle -> Thread \cup {Nil}]
  BY <1>1 DEF HolderInv
<1> QED BY <1>1, <1>2, <1>4, <1>5, <1>6, HolderStep, ZenonT(60)

\* newrelic_start_transaction has the lock of the newrelic_app_t only while it
\* copies the run.
LEMMA HolderStart ==
  ASSUME ListInv, ListInv', HolderInv, NEW t \in Thread,
         Begin(t) \/ Copy(t) \/ Send(t) \/ Call(t)
  PROVE  HolderInv'
<1>0. /\ pc = [u \in Thread |-> pc[u]] /\ call = [u \in Thread |-> call[u]]
      /\ handleLock \in [Handle -> Thread \cup {Nil}]
  BY DEF ListInv, AppTypes, HolderInv
<1>1. UNCHANGED <<listLock, appLock>>
  BY ZenonT(60) DEF Begin, Copy, Send, Call, CallCreate, CallStart, CallEnd, Enter, appVars
<1>2. \A u \in Thread \ {t} : pc'[u] = pc[u] /\ call'[u] = call[u]
  BY <1>0, ZenonT(60) DEF Begin, Copy, Send, Call, CallCreate, CallStart, CallEnd, Enter, Go, Done
<1>3. pc[t] # "search" /\ ~Found(pc[t], call[t])
  BY DEF Begin, Copy, Send, Call, CallCreate, CallStart, CallEnd, Enter, Found, Querying
<1>4. listLock # t /\ \A i \in 1..Len(appLock) : appLock[i] # t
  BY <1>3, HoldsNot, ZenonT(60)
<1>5. ASSUME handleLock' \in [Handle -> Thread \cup {Nil}],
             \A h \in Handle :
               handleLock'[h] # Nil =>
                 \/ handleLock'[h] = t /\ pc'[t] = "copy" /\ call'[t].h = h
                 \/ handleLock'[h] = handleLock[h] /\ handleLock[h] # t
      PROVE  HolderInv'
  BY <1>1, <1>2, <1>4, <1>5, HolderStep, ZenonT(60)
<1>6. CASE UNCHANGED handleLock /\ pc[t] # "copy"
  <2>1. \A h \in Handle : handleLock'[h] = handleLock[h] /\ handleLock[h] # t
    BY <1>6, HoldsNot, ZenonT(60)
  <2> QED BY <1>0, <1>5, <1>6, <2>1
<1>7. CASE Begin(t) /\ App(t).state = "ok"
  <2>1. /\ handleLock' = [handleLock EXCEPT ![call[t].h] = t] /\ Go(t, "copy")
        /\ UNCHANGED call /\ pc[t] = "decide"
    BY <1>7 DEF Begin
  <2>2. pc'[t] = "copy" /\ call'[t].h = call[t].h
    BY <1>0, <2>1, ZenonT(60) DEF Go
  <2>3. \A h \in Handle : handleLock[h] # t
    BY <2>1, HoldsNot
  <2>4. /\ handleLock' \in [Handle -> Thread \cup {Nil}]
        /\ \A h \in Handle :
             \/ handleLock'[h] = t /\ call[t].h = h
             \/ handleLock'[h] = handleLock[h]
    BY <1>0, <2>1
  <2> QED BY <1>5, <2>2, <2>3, <2>4, ZenonT(60)
<1>8. CASE Copy(t)
  <2>1. handleLock' = [handleLock EXCEPT ![call[t].h] = Nil]
    BY <1>8 DEF Copy
  <2>2. /\ handleLock' \in [Handle -> Thread \cup {Nil}]
        /\ \A h \in Handle :
             \/ handleLock'[h] = Nil
             \/ handleLock'[h] = handleLock[h] /\ h # call[t].h
    BY <1>0, <2>1
  <2> QED BY <1>5, <2>2, HoldsNot, ZenonT(60)
<1>9. CASE (Begin(t) /\ App(t).state # "ok") \/ Send(t) \/ Call(t)
  BY <1>6, <1>9 DEF Begin, Send, Call, CallCreate, CallStart, CallEnd, Enter
<1> QED BY <1>7, <1>8, <1>9

\* Every step keeps the locks with the threads that are in their places.
LEMMA HolderNext == ASSUME ListInv, HolderInv, [Next]_vars PROVE HolderInv'
<1>0. ListInv'
  BY ListNext
<1>1. ASSUME UNCHANGED <<listLock, appLock, handleLock, pc, call>> PROVE HolderInv'
  BY <1>1 DEF HolderInv
<1>2. CASE UNCHANGED vars
  BY <1>1, <1>2 DEF vars, appVars
<1>3. ASSUME NEW t \in Thread, Call(t) \/ Step(t) PROVE HolderInv'
  BY <1>0, <1>3, HolderSearch, HolderQuery, HolderUnlock, HolderStart DEF Step, Acquire
<1>4. ASSUME NEW t \in Thread, NEW h \in Handle, DestroyApp(t, h) PROVE HolderInv'
  BY <1>1, <1>4 DEF DestroyApp, appVars
<1>5. ASSUME NEW n \in Info, DaemonConnects(n) \/ DaemonLoses(n) PROVE HolderInv'
  BY <1>1, <1>5 DEF DaemonConnects, DaemonLoses, appVars
<1>6. CASE DaemonRestarts
  BY <1>1, <1>6 DEF DaemonRestarts, appVars
<1>7. CASE Tick \/ ClockSetBack
  BY <1>1, <1>7 DEF Tick, ClockSetBack
<1> QED BY <1>2, <1>3, <1>4, <1>5, <1>6, <1>7 DEF Next

\* A transaction is started with a newrelic_app_t of the program.
StartsWithHandle == \A t \in Thread : call[t].op = "start" => call[t].h \in Handle

\* A call keeps the newrelic_app_t it was given.
LEMMA HandleKept ==
  ASSUME ListInv, StartsWithHandle, [Next]_vars PROVE StartsWithHandle'
<1>0. call \in [Thread -> CallRecord]
  BY DEF ListInv, AppTypes
<1>1. ASSUME NEW t \in Thread, NEW c, call' = [call EXCEPT ![t] = c],
             c.op = "start" => c.h \in Handle
      PROVE  StartsWithHandle'
  BY <1>0, <1>1, ZenonT(60) DEF StartsWithHandle
<1>2. ASSUME UNCHANGED call PROVE StartsWithHandle'
  BY <1>2 DEF StartsWithHandle
<1>3. ASSUME NEW t \in Thread, NEW c, c.op = call[t].op, c.h = call[t].h,
             call' = [call EXCEPT ![t] = c]
      PROVE  StartsWithHandle'
  BY <1>1, <1>3 DEF StartsWithHandle
<1>4. NoCall.op # "start"
  BY DEF NoCall
<1>5. ASSUME NEW t \in Thread, Call(t) PROVE StartsWithHandle'
  <2>1. ASSUME NEW h \in Handle, NEW n \in Info, CallCreate(t, h, n)
        PROVE  StartsWithHandle'
    BY <1>1, <2>1 DEF CallCreate, Enter, NoCall
  <2>2. ASSUME NEW h \in Handle, CallStart(t, h) PROVE StartsWithHandle'
    BY <1>1, <2>2 DEF CallStart, Enter, NoCall
  <2>3. CASE CallEnd(t)
    BY <1>1, <2>3 DEF CallEnd, Enter, NoCall
  <2> QED BY <1>5, <2>1, <2>2, <2>3 DEF Call
<1>6. ASSUME NEW t \in Thread, Step(t) PROVE StartsWithHandle'
  <2>1. call[t] \in CallRecord
    BY <1>0
  <2>2. ASSUME NEW r, call' = [call EXCEPT ![t].run = r] PROVE StartsWithHandle'
    BY <1>3, <2>1, <2>2 DEF CallRecord
  <2>3. CASE Consider(t) \/ Exchange(t) \/ Store(t) \/ Count(t) \/ Retry(t)
    BY <1>2, <2>2, <2>3, ZenonT(60) DEF Consider, Exchange, Store, Count, Retry
  <2>4. CASE LockList(t)
    <3> DEFINE c == [[call[t] EXCEPT !.i = 1] EXCEPT !.num = Len(apps)]
    <3>1. call' = [call EXCEPT ![t] = c]
      BY <1>0, <2>4 DEF LockList
    <3>2. c.op = call[t].op /\ c.h = call[t].h
      BY <2>1 DEF CallRecord
    <3> QED BY <1>3, <3>1, <3>2
  <2>5. CASE Search(t)
    BY <1>2, <1>3, <2>1, <2>5 DEF Search, CallRecord
  <2>6. CASE ApplyRules(t)
    BY <1>3, <2>1, <2>6 DEF ApplyRules, CallRecord
  <2>7. CASE NotFound(t) \/ GiveUp(t) \/ Connected(t) \/ Begin(t) \/ Copy(t) \/ Send(t)
    BY <1>1, <1>2, <1>4, <2>7, ZenonT(60)
       DEF NotFound, GiveUp, Connected, Begin, Copy, Send, Done
  <2> QED BY <1>6, <2>3, <2>4, <2>5, <2>6, <2>7 DEF Step, Acquire
<1> QED BY <1>2, <1>5, <1>6
        DEF Next, vars, DestroyApp, DaemonConnects, DaemonLoses, DaemonRestarts, Tick,
            ClockSetBack

\* For any number of threads, handles and applications: a thread that waits for
\* a lock waits for one that needs none, or for one that waits for such a
\* thread. The locks of the list, of an application and of a newrelic_app_t are
\* taken in an order (nr_app_find_or_add_app, newrelic_start_transaction).
THEOREM LocksAreReturned == Spec => []NeverStuck
<1>1. ASSUME ListInv, HolderInv, StartsWithHandle PROVE NeverStuck
  <2>1. ASSUME NEW u \in Thread, pc[u] = "copy" \/ Found(pc[u], call[u])
        PROVE  GoesOn(u)
    <3>1. pc[u] \notin {"idle", "list", "search"} /\ ~(pc[u] = "decide" /\ call[u].op = "start")
      BY <2>1 DEF Found, Querying
    <3> QED BY <3>1 DEF GoesOn, Blocker
  <2>2. ASSUME NEW u \in Thread, pc[u] # "list", Blocker(u) # Nil
        PROVE  GoesOn(Blocker(u))
    <3>1. CASE pc[u] = "search" /\ call[u].i <= call[u].num
      <4>1. Blocker(u) = appLock[call[u].i]
        BY <3>1 DEF Blocker
      <4>2. call[u].i \in 1..Len(appLock)
        BY <1>1, <3>1 DEF ListInv, AppTypes, Placed
      <4>3. appLock[call[u].i] \in Thread /\ Found(pc[appLock[call[u].i]], call[appLock[call[u].i]])
        BY <1>1, <2>2, <4>1, <4>2 DEF ListInv, AppTypes, HolderInv
      <4> QED BY <2>1, <4>1, <4>3
    <3>2. CASE pc[u] = "decide" /\ call[u].op = "start"
      <4>1. Blocker(u) = handleLock[call[u].h]
        BY <3>2 DEF Blocker
      <4>2. call[u].h \in Handle
        BY <1>1, <3>2 DEF StartsWithHandle
      <4>3. handleLock[call[u].h] \in Thread /\ pc[handleLock[call[u].h]] = "copy"
        BY <1>1, <2>2, <4>1, <4>2 DEF HolderInv
      <4> QED BY <2>1, <4>1, <4>3
    <3> QED BY <2>2, <3>1, <3>2 DEF Blocker
  <2>3. ASSUME NEW t \in Thread, Blocker(t) # Nil
        PROVE  \/ GoesOn(Blocker(t))
               \/ Blocker(Blocker(t)) # Nil /\ GoesOn(Blocker(Blocker(t)))
    <3>1. CASE pc[t] # "list"
      BY <2>2, <2>3, <3>1
    <3>2. CASE pc[t] = "list"
      <4>1. Blocker(t) = listLock
        BY <3>2 DEF Blocker
      <4>2. listLock \in Thread /\ pc[listLock] = "search"
        BY <1>1, <2>3, <4>1 DEF HolderInv
      <4>3. Blocker(listLock) = Nil => GoesOn(listLock)
        BY <4>2 DEF GoesOn
      <4>4. Blocker(listLock) # Nil => GoesOn(Blocker(listLock))
        BY <2>2, <4>2
      <4> QED BY <4>1, <4>3, <4>4
    <3> QED BY <3>1, <3>2
  <2> QED BY <2>3 DEF NeverStuck
<1>2. Init => HolderInv /\ StartsWithHandle
  BY DEF Init, HolderInv, StartsWithHandle, NoCall
<1>3. Spec => [](ListInv /\ HolderInv /\ StartsWithHandle)
  BY <1>2, ListAlways, HolderNext, HandleKept, PTL DEF Spec
<1> QED BY <1>1, <1>3, PTL
=============================================================================
