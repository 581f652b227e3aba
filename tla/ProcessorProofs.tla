--------------------------- MODULE ProcessorProofs ---------------------------
(* Proofs about the processor, for any sets of keys, Apps and run ids.     *)
EXTENDS Processor, TLAPS

\* A leaf is given to Zenon for a second, to the SMT solver, and to both again.
USE ZenonT(1), SMTT(60), ZenonT(60), SMTT(90)

IInv == TypeOK /\ TablesAgree /\ ConnectedHasHarvest

\* The daemon starts with empty tables (NewProcessor).
LEMMA InitIInv == Init => IInv
<1> SUFFICES ASSUME Init PROVE IInv
  OBVIOUS
<1>1. util \in BOOLEAN /\ phase \in Phase
  BY DEF Init, Phase
<1>2. Unallocated \in AppRecord
  BY NilAssumption DEF Unallocated, AppRecord, AppState
<1>3. TypeOK
  BY <1>1, <1>2 DEF Init, TypeOK
<1>4. TablesAgree
  BY DEF Init, TablesAgree, Unallocated
<1>5. ConnectedHasHarvest
  BY DEF Init, ConnectedHasHarvest
<1> QED BY <1>3, <1>4, <1>5 DEF IInv

\* Marking an App active changes nothing else of it (processAppInfo,
\* processTxnData).
LEMMA ActiveLemma ==
  ASSUME NEW x \in AppRecord
  PROVE  LET a == [x EXCEPT !.active = TRUE]
         IN a \in AppRecord /\ a.key = x.key /\ a.run = x.run /\ a.state = x.state
  BY DEF AppRecord

\* considerConnect stamps at most the back-off of the App it is given and
\* keeps connecting a function to the naturals.
LEMMA ConsiderConnectLemma ==
  ASSUME TypeOK, NEW o \in App, NEW a \in AppRecord, a.key \in Key,
         ConsiderConnect(o, a)
  PROVE  /\ connecting' \in [Key -> Nat]
         /\ \E b \in BOOLEAN :
              app' = [app EXCEPT ![o] = [a EXCEPT !.backoff = b]]
<1>1. CASE ShouldConnect(a)
  <2>1. connecting' \in [Key -> Nat]
    BY <1>1 DEF ConsiderConnect, TypeOK
  <2>2. app' = [app EXCEPT ![o] = [a EXCEPT !.backoff = TRUE]]
    BY <1>1 DEF ConsiderConnect
  <2> QED BY <2>1, <2>2
<1>2. CASE ~ShouldConnect(a)
  <2>1. a = [a EXCEPT !.backoff = a.backoff]
    BY DEF AppRecord
  <2>2. app' = [app EXCEPT ![o] = [a EXCEPT !.backoff = a.backoff]]
    BY <1>2, <2>1 DEF ConsiderConnect
  <2>3. a.backoff \in BOOLEAN
    BY DEF AppRecord
  <2>4. connecting' \in [Key -> Nat]
    BY <1>2 DEF ConsiderConnect, TypeOK
  <2> QED BY <2>2, <2>3, <2>4
<1> QED BY <1>1, <1>2

\* Replacing the fields of one App by fields of the right type, with the key
\* and the run it had, keeps the tables in agreement; it keeps
\* ConnectedHasHarvest when the App was Connected before or is not after.
LEMMA UpdateAppLemma ==
  ASSUME IInv, NEW o \in App, NEW a \in AppRecord,
         a.key = app[o].key, a.run = app[o].run,
         a.state = "Connected" => app[o].state = "Connected",
         app' = [app EXCEPT ![o] = a],
         UNCHANGED <<apps, harvests, runApp, open, flush>>
  PROVE  /\ app' \in [App -> AppRecord]
         /\ TablesAgree'
         /\ ConnectedHasHarvest'
<1>1. app' \in [App -> AppRecord]
  BY DEF IInv, TypeOK
<1>2. \A p \in App : /\ app'[p].key = app[p].key
                     /\ app'[p].run = app[p].run
                     /\ app'[p].state = "Connected" => app[p].state = "Connected"
  BY DEF IInv, TypeOK
<1>3. TablesAgree'
  BY <1>2 DEF IInv, TablesAgree, TypeOK
<1>4. ConnectedHasHarvest'
  BY <1>2 DEF IInv, ConnectedHasHarvest, TypeOK
<1> QED BY <1>1, <1>3, <1>4

\* The same when run r of App o leaves p.harvests and o is not Connected
\* afterwards (processHarvestError).
LEMMA EndRunLemma ==
  ASSUME IInv, NEW r \in harvests, NEW a \in AppRecord,
         a.key = app[runApp[r]].key, a.run = app[runApp[r]].run,
         a.state # "Connected",
         app' = [app EXCEPT ![runApp[r]] = a],
         harvests' = harvests \ {r},
         UNCHANGED <<apps, runApp, open, flush>>
  PROVE  /\ app' \in [App -> AppRecord]
         /\ TablesAgree'
         /\ ConnectedHasHarvest'
<1> DEFINE o == runApp[r]
<1>0. o \in App
  BY DEF IInv, TypeOK, TablesAgree
<1>1. app' \in [App -> AppRecord]
  BY <1>0 DEF IInv, TypeOK
<1>2. \A p \in App : /\ app'[p].key = app[p].key
                     /\ app'[p].run = app[p].run
                     /\ app'[p].state = "Connected"
                          => p # o /\ app[p].state = "Connected"
  BY <1>0 DEF IInv, TypeOK
<1>3. TablesAgree'
  BY <1>2 DEF IInv, TablesAgree, TypeOK
<1>4. ConnectedHasHarvest'
  <2> SUFFICES ASSUME NEW k \in Key, apps[k] # Nil,
                      app'[apps[k]].state = "Connected"
               PROVE  app'[apps[k]].run \in harvests'
    BY DEF ConnectedHasHarvest
  <2> DEFINE p == apps[k]
  <2>1. p \in App /\ p # o /\ app[p].state = "Connected" /\ app'[p].run = app[p].run
    BY <1>2 DEF IInv, TypeOK
  <2>2. app[p].run \in harvests
    BY <2>1 DEF IInv, ConnectedHasHarvest
  <2>3. app[p].run # Nil
    BY <2>2, NilAssumption DEF IInv, TypeOK
  <2>4. runApp[app[p].run] = p
    BY <2>1, <2>3 DEF IInv, TablesAgree
  <2>5. app[p].run # r
    BY <2>1, <2>4
  <2> QED BY <2>1, <2>2, <2>5
<1> QED BY <1>1, <1>3, <1>4

\* doHarvest removing the inactive App of run r.
LEMMA RemoveInactiveLemma ==
  ASSUME IInv, NEW r \in RunID, runApp[r] # Nil, RemoveInactive(r),
         flush' \subseteq flush
  PROVE  /\ apps' \in [Key -> App \cup {Nil}]
         /\ TablesAgree'
         /\ ConnectedHasHarvest'
<1> DEFINE o == runApp[r]
<1>0. o \in App /\ app[o].key \in Key
  BY DEF IInv, TypeOK, TablesAgree, AppRecord
<1>1. apps' \in [Key -> App \cup {Nil}]
  BY DEF RemoveInactive, IInv, TypeOK
<1>2. \A k \in Key : apps'[k] # Nil => apps'[k] = apps[k] /\ apps[k] # o
  BY <1>0 DEF RemoveInactive, IInv, TypeOK, TablesAgree
<1>3. TablesAgree'
  BY <1>2 DEF RemoveInactive, IInv, TablesAgree
<1>4. ConnectedHasHarvest'
  <2> SUFFICES ASSUME NEW k \in Key, apps'[k] # Nil,
                      app'[apps'[k]].state = "Connected"
               PROVE  app'[apps'[k]].run \in harvests'
    BY DEF ConnectedHasHarvest
  <2> DEFINE p == apps[k]
  <2>1. p \in App /\ p # o /\ apps'[k] = p /\ app' = app
    BY <1>2 DEF IInv, TypeOK, RemoveInactive
  <2>2. app[p].run \in harvests
    BY <2>1 DEF IInv, ConnectedHasHarvest
  <2>3. app[p].run # Nil
    BY <2>2, NilAssumption DEF IInv, TypeOK
  <2>4. runApp[app[p].run] = p
    BY <2>1, <2>3 DEF IInv, TablesAgree
  <2> QED BY <2>1, <2>2, <2>4 DEF RemoveInactive
<1> QED BY <1>1, <1>3, <1>4

\* processAppInfo keeps the tables in step when it finds the application.
LEMMA AppInfoKnownIInv ==
  ASSUME IInv, NEW k \in Key, NEW id, AppInfoKnown(k, id)
  PROVE  IInv'
<1> DEFINE o == apps[k]
           a == [app[o] EXCEPT !.active = TRUE]
<1>1. o \in App /\ app[o].key = k
  BY DEF AppInfoKnown, IInv, TypeOK, TablesAgree
<1>2. a \in AppRecord /\ a.key = k /\ a.run = app[o].run /\ a.state = app[o].state
  BY <1>1 DEF IInv, TypeOK, AppRecord
<1>3. ConsiderConnect(o, a)
  BY DEF AppInfoKnown
<1> HIDE DEF a
<1>4. PICK b \in BOOLEAN : app' = [app EXCEPT ![o] = [a EXCEPT !.backoff = b]]
  BY <1>1, <1>2, <1>3, ConsiderConnectLemma DEF IInv
<1>5. connecting' \in [Key -> Nat]
  BY <1>1, <1>2, <1>3, ConsiderConnectLemma DEF IInv
<1> DEFINE c == [a EXCEPT !.backoff = b]
<1>6. c \in AppRecord /\ c.key = app[o].key /\ c.run = app[o].run
      /\ c.state = app[o].state
  BY <1>1, <1>2 DEF AppRecord
<1>7. app' = [app EXCEPT ![o] = c]
  BY <1>4
<1> HIDE DEF c
<1>8. UNCHANGED <<util, apps, harvests, runApp, open, sending, phase, flush>>
  BY DEF AppInfoKnown
<1>9. app' \in [App -> AppRecord] /\ TablesAgree' /\ ConnectedHasHarvest'
  BY <1>1, <1>6, <1>7, <1>8, UpdateAppLemma
<1>10. TypeOK'
  BY <1>5, <1>8, <1>9 DEF IInv, TypeOK
<1> QED BY <1>9, <1>10 DEF IInv

\* So does processAppInfo when it makes a new App.
LEMMA AppInfoNewIInv ==
  ASSUME IInv, NEW k \in Key, NEW id, AppInfoNew(k, id)
  PROVE  IInv'
<1>1. PICK o \in App : /\ app[o].key = Nil
                      /\ apps' = [apps EXCEPT ![k] = o]
                      /\ ConsiderConnect(o, NewApp(k))
  BY DEF AppInfoNew
<1> DEFINE a == NewApp(k)
<1>2. a \in AppRecord /\ a.key = k /\ a.run = Nil /\ a.state = "Unknown"
  BY DEF NewApp, AppRecord, AppState
<1> HIDE DEF a
<1>3. PICK b \in BOOLEAN : app' = [app EXCEPT ![o] = [a EXCEPT !.backoff = b]]
  BY <1>1, <1>2, ConsiderConnectLemma DEF IInv, a
<1>4. connecting' \in [Key -> Nat]
  BY <1>1, <1>2, ConsiderConnectLemma DEF IInv, a
<1> DEFINE c == [a EXCEPT !.backoff = b]
<1>5. c \in AppRecord /\ c.key = k /\ c.run = Nil /\ c.state = "Unknown"
  BY <1>2 DEF AppRecord
<1>6. app' = [app EXCEPT ![o] = c]
  BY <1>3
<1> HIDE DEF c
<1>7. UNCHANGED <<util, harvests, runApp, open, sending, phase, flush>>
  BY DEF AppInfoNew
<1>8. TypeOK'
  BY <1>1, <1>4, <1>5, <1>6, <1>7 DEF IInv, TypeOK
<1>9. \A r \in RunID : runApp[r] # o
  BY <1>1, NilAssumption DEF IInv, TypeOK, TablesAgree
<1>10. \A j \in Key : j # k => apps'[j] = apps[j] /\ apps[j] # o
  BY <1>1, NilAssumption DEF IInv, TypeOK, TablesAgree
<1>11. apps'[k] = o
  BY <1>1 DEF IInv, TypeOK
<1>12. \A p \in App : p # o => app'[p] = app[p]
  BY <1>6 DEF IInv, TypeOK
<1>13. app'[o] = c
  BY <1>6 DEF IInv, TypeOK
<1>14. TablesAgree'
  <2>1. \A j \in Key : apps'[j] # Nil => app'[apps'[j]].key = j
    BY <1>5, <1>10, <1>11, <1>12, <1>13 DEF IInv, TypeOK, TablesAgree
  <2>2. \A p \in App : app'[p].run # Nil => runApp'[app'[p].run] = p
    BY <1>5, <1>7, <1>12, <1>13 DEF IInv, TablesAgree
  <2>3. \A r \in RunID : runApp'[r] # Nil => app'[runApp'[r]].key # Nil
    BY <1>7, <1>9, <1>12 DEF IInv, TypeOK, TablesAgree
  <2> QED BY <1>7, <2>1, <2>2, <2>3 DEF IInv, TablesAgree
<1>15. ConnectedHasHarvest'
  BY <1>5, <1>7, <1>10, <1>11, <1>12, <1>13 DEF IInv, TypeOK, ConnectedHasHarvest
<1> QED BY <1>8, <1>14, <1>15 DEF IInv

\* So does processConnectAttempt when the collector refused the application.
LEMMA ConnectFailedIInv ==
  ASSUME IInv, NEW k \in Key, NEW err, ConnectFailed(k, err)
  PROVE  IInv'
<1> DEFINE o == apps[k]
           a == [app[o] EXCEPT !.state = StateOfError(err)]
<1>1. o \in App
  BY DEF ConnectFailed, IInv, TypeOK
<1>2. a \in AppRecord /\ a.key = app[o].key /\ a.run = app[o].run
      /\ a.state # "Connected"
  BY <1>1 DEF IInv, TypeOK, AppRecord, StateOfError, AppState
<1>3. app' = [app EXCEPT ![o] = a]
  BY <1>1 DEF ConnectFailed, IInv, TypeOK
<1> HIDE DEF a
<1>4. UNCHANGED <<util, apps, harvests, runApp, open, sending, phase, flush>>
  BY DEF ConnectFailed
<1>5. app' \in [App -> AppRecord] /\ TablesAgree' /\ ConnectedHasHarvest'
  BY <1>1, <1>2, <1>3, <1>4, UpdateAppLemma
<1>6. connecting' \in [Key -> Nat]
  BY DEF ConnectFailed, ConnectAnswered, IInv, TypeOK
<1>7. TypeOK'
  BY <1>4, <1>5, <1>6 DEF IInv, TypeOK
<1> QED BY <1>5, <1>7 DEF IInv

\* So does processConnectAttempt when it starts a new run.
LEMMA ConnectSucceededIInv ==
  ASSUME IInv, NEW k \in Key, NEW r \in RunID, ConnectSucceeded(k, r)
  PROVE  IInv'
<1> DEFINE o == apps[k]
           a == [app[o] EXCEPT !.state = "Connected", !.run = r]
<1>1. o \in App
  BY DEF ConnectSucceeded, IInv, TypeOK
<1>2. a \in AppRecord /\ a.key = app[o].key /\ a.run = r
  <2> DEFINE b == [app[o] EXCEPT !.state = "Connected"]
  <2>1. b \in AppRecord /\ b.key = app[o].key
    BY <1>1 DEF IInv, TypeOK, AppRecord, AppState
  <2>2. a = [b EXCEPT !.run = r]
    BY <1>1 DEF IInv, TypeOK, AppRecord
  <2> HIDE DEF a, b
  <2> QED BY <2>1, <2>2 DEF AppRecord
<1>3. app' = [app EXCEPT ![o] = a]
  BY <1>1 DEF ConnectSucceeded, IInv, TypeOK
<1> HIDE DEF a
<1>4. /\ runApp[r] = Nil
      /\ harvests' = harvests \cup {r}
      /\ runApp' = [runApp EXCEPT ![r] = o]
      /\ open' = open \cup {r}
      /\ UNCHANGED <<util, apps, sending, phase, flush>>
      /\ connecting' \in [Key -> Nat]
  BY DEF ConnectSucceeded, ConnectAnswered, IInv, TypeOK
<1>5. TypeOK'
  BY <1>1, <1>2, <1>3, <1>4 DEF IInv, TypeOK
<1>6. /\ app'[o] = a
      /\ \A p \in App : p # o => app'[p] = app[p]
      /\ \A p \in App : app'[p].key = app[p].key
  BY <1>1, <1>2, <1>3 DEF IInv, TypeOK
<1>7. /\ runApp'[r] = o
      /\ \A q \in RunID : q # r => runApp'[q] = runApp[q]
  BY <1>4 DEF IInv, TypeOK
<1>8. TablesAgree'
  <2>1. \A j \in Key : apps'[j] # Nil => app'[apps'[j]].key = j
    BY <1>4, <1>6 DEF IInv, TypeOK, TablesAgree
  <2>2. \A p \in App : app'[p].run # Nil => runApp'[app'[p].run] = p
    <3> SUFFICES ASSUME NEW p \in App, app'[p].run # Nil
                 PROVE  runApp'[app'[p].run] = p
      OBVIOUS
    <3>1. CASE p = o
      BY <3>1, <1>2, <1>6, <1>7
    <3>2. CASE p # o
      <4>1. app'[p].run = app[p].run /\ app[p].run \in RunID
        BY <3>2, <1>6 DEF IInv, TypeOK, AppRecord
      <4>2. runApp[app[p].run] = p
        BY <4>1 DEF IInv, TablesAgree
      <4>3. app[p].run # r
        BY <4>2, <1>4, NilAssumption
      <4> QED BY <4>1, <4>2, <4>3, <1>7
    <3> QED BY <3>1, <3>2
  <2>3. \A q \in RunID : runApp'[q] # Nil => app'[runApp'[q]].key # Nil
    <3>1. app[o].key = k /\ k # Nil
      BY <1>1, NilAssumption DEF ConnectSucceeded, IInv, TablesAgree
    <3> QED BY <3>1, <1>1, <1>6, <1>7 DEF IInv, TypeOK, TablesAgree
  <2>4. \A q \in open' \cup harvests' \cup flush' : runApp'[q] # Nil
    <3>1. \A q \in open \cup harvests \cup flush : q \in RunID /\ runApp[q] # Nil
      BY DEF IInv, TypeOK, TablesAgree
    <3>2. o # Nil
      BY <1>1, NilAssumption
    <3> QED BY <1>4, <1>7, <3>1, <3>2
  <2>5. harvests' \subseteq open'
    BY <1>4 DEF IInv, TablesAgree
  <2> QED BY <2>1, <2>2, <2>3, <2>4, <2>5 DEF TablesAgree
<1>9. ConnectedHasHarvest'
  BY <1>1, <1>2, <1>4, <1>6 DEF IInv, TypeOK, ConnectedHasHarvest
<1> QED BY <1>5, <1>8, <1>9 DEF IInv

\* So does processHarvestError when the run ends for good.
LEMMA HarvestErrorFatalIInv ==
  ASSUME IInv, NEW r \in RunID, NEW err, HarvestErrorFatal(r, err)
  PROVE  IInv'
<1> DEFINE o == runApp[r]
           a == [app[o] EXCEPT !.state = StateOfError(err)]
<1>1. r \in harvests /\ o \in App
  BY DEF HarvestErrorFatal, IInv, TypeOK, TablesAgree
<1>2. a \in AppRecord /\ a.key = app[o].key /\ a.run = app[o].run
      /\ a.state # "Connected"
  BY <1>1 DEF IInv, TypeOK, AppRecord, StateOfError, AppState
<1>3. app' = [app EXCEPT ![o] = a]
  BY <1>1 DEF HarvestErrorFatal, IInv, TypeOK
<1> HIDE DEF a
<1>4. harvests' = harvests \ {r}
      /\ UNCHANGED <<util, apps, runApp, open, connecting, phase, flush>>
  BY DEF HarvestErrorFatal
<1>5. app' \in [App -> AppRecord] /\ TablesAgree' /\ ConnectedHasHarvest'
  BY <1>1, <1>2, <1>3, <1>4, EndRunLemma
<1>6. sending' \in [RunID -> Nat]
  BY DEF HarvestErrorFatal, HarvestErrorReceived, IInv, TypeOK
<1>7. TypeOK'
  BY <1>4, <1>5, <1>6 DEF IInv, TypeOK
<1> QED BY <1>5, <1>7 DEF IInv

\* So does processHarvestError when the application has to connect again.
LEMMA HarvestErrorRestartIInv ==
  ASSUME IInv, NEW r \in RunID, HarvestErrorRestart(r)
  PROVE  IInv'
<1> DEFINE o == runApp[r]
           a == [app[o] EXCEPT !.state = "Unknown"]
<1>1. r \in harvests /\ o \in App /\ app[o].key \in Key
  BY DEF HarvestErrorRestart, IInv, TypeOK, TablesAgree, AppRecord
<1>2. a \in AppRecord /\ a.key = app[o].key /\ a.run = app[o].run
      /\ a.state = "Unknown"
  BY <1>1 DEF IInv, TypeOK, AppRecord, AppState
<1>3. ConsiderConnect(o, a)
  BY DEF HarvestErrorRestart
<1> HIDE DEF a
<1>4. PICK b \in BOOLEAN : app' = [app EXCEPT ![o] = [a EXCEPT !.backoff = b]]
  BY <1>1, <1>2, <1>3, ConsiderConnectLemma DEF IInv
<1>5. connecting' \in [Key -> Nat]
  BY <1>1, <1>2, <1>3, ConsiderConnectLemma DEF IInv
<1> DEFINE c == [a EXCEPT !.backoff = b]
<1>6. c \in AppRecord /\ c.key = app[o].key /\ c.run = app[o].run
      /\ c.state # "Connected"
  BY <1>2 DEF AppRecord
<1>7. app' = [app EXCEPT ![o] = c]
  BY <1>4
<1> HIDE DEF c
<1>8. harvests' = harvests \ {r}
      /\ UNCHANGED <<util, apps, runApp, open, phase, flush>>
  BY DEF HarvestErrorRestart
<1>9. app' \in [App -> AppRecord] /\ TablesAgree' /\ ConnectedHasHarvest'
  BY <1>1, <1>6, <1>7, <1>8, EndRunLemma
<1>10. sending' \in [RunID -> Nat]
  BY DEF HarvestErrorRestart, HarvestErrorReceived, IInv, TypeOK
<1>11. TypeOK'
  BY <1>5, <1>8, <1>9, <1>10 DEF IInv, TypeOK
<1> QED BY <1>9, <1>11 DEF IInv

\* An action that changes one App's back-off or activity flag only.
LEMMA FlagIInv ==
  ASSUME IInv, NEW o \in App, NEW a \in AppRecord,
         a.key = app[o].key, a.run = app[o].run, a.state = app[o].state,
         app' = [app EXCEPT ![o] = a],
         UNCHANGED <<util, apps, harvests, runApp, open, connecting, sending,
                     phase, flush>>
  PROVE  IInv'
<1>1. app' \in [App -> AppRecord] /\ TablesAgree' /\ ConnectedHasHarvest'
  BY UpdateAppLemma
<1>2. TypeOK'
  BY <1>1 DEF IInv, TypeOK
<1> QED BY <1>1, <1>2 DEF IInv

\* An action that touches neither table, nor any App.
LEMMA TablesUnchangedIInv ==
  ASSUME IInv, UNCHANGED <<apps, app, harvests, runApp>>,
         util' \in BOOLEAN, connecting' \in [Key -> Nat],
         sending' \in [RunID -> Nat], phase' \in Phase,
         harvests \subseteq open', open' \subseteq open,
         flush' \subseteq flush \cup harvests
  PROVE  IInv'
<1>1. TypeOK'
  BY DEF IInv, TypeOK
<1>2. TablesAgree'
  BY DEF IInv, TypeOK, TablesAgree
<1>3. ConnectedHasHarvest'
  BY DEF IInv, ConnectedHasHarvest
<1> QED BY <1>1, <1>2, <1>3 DEF IInv

\* Every step of the processor, its workers and the collector keeps the
\* tables in step.
LEMMA NextIInv == IInv /\ [Next]_vars => IInv'
<1> SUFFICES ASSUME IInv, [Next]_vars PROVE IInv'
  OBVIOUS
<1>0. /\ util \in BOOLEAN /\ phase \in Phase
      /\ connecting \in [Key -> Nat] /\ sending \in [RunID -> Nat]
      /\ harvests \subseteq open
  BY DEF IInv, TypeOK, TablesAgree
<1>1. CASE UNCHANGED vars
  BY <1>0, <1>1, TablesUnchangedIInv DEF vars
<1>2. CASE GatherUtilization
  <2>1. util' \in BOOLEAN
    BY <1>2 DEF GatherUtilization
  <2> QED BY <1>0, <1>2, <2>1, TablesUnchangedIInv DEF GatherUtilization
<1>3. ASSUME NEW k \in Key, NEW id \in AgentRunIDs(k), ProcessAppInfo(k, id)
      PROVE  IInv'
  <2>1. CASE AppInfoRunIDValid(k, id) \/ AppInfoLimit(k, id)
    BY <1>0, <2>1, TablesUnchangedIInv DEF AppInfoRunIDValid, AppInfoLimit, vars
  <2>2. CASE AppInfoKnown(k, id)
    BY <2>2, AppInfoKnownIInv
  <2>3. CASE AppInfoNew(k, id)
    BY <2>3, AppInfoNewIInv
  <2> QED BY <1>3, <2>1, <2>2, <2>3 DEF ProcessAppInfo
<1>4. ASSUME NEW k \in Key, ProcessConnectAttempt(k)
      PROVE  IInv'
  <2>1. CASE ConnectDropped(k)
    <3>1. connecting' \in [Key -> Nat]
      BY <1>0, <2>1 DEF ConnectDropped, ConnectAnswered
    <3> QED BY <1>0, <2>1, <3>1, TablesUnchangedIInv DEF ConnectDropped
  <2>2. CASE \E err \in {"disconnect", "license", "error"} : ConnectFailed(k, err)
    BY <2>2, ConnectFailedIInv
  <2>3. CASE \E r \in RunID : ConnectSucceeded(k, r)
    BY <2>3, ConnectSucceededIInv
  <2> QED BY <1>4, <2>1, <2>2, <2>3 DEF ProcessConnectAttempt
<1>5. ASSUME NEW r \in RunID, ProcessTxnData(r)
      PROVE  IInv'
  <2> DEFINE o == runApp[r]
             a == [app[o] EXCEPT !.active = TRUE]
  <2>1. o \in App
    BY <1>5 DEF ProcessTxnData, IInv, TypeOK, TablesAgree
  <2>2. a \in AppRecord /\ a.key = app[o].key /\ a.run = app[o].run
        /\ a.state = app[o].state
    BY <2>1, ActiveLemma DEF IInv, TypeOK
  <2>3. app' = [app EXCEPT ![o] = a]
    BY <1>5, <2>1 DEF ProcessTxnData, IInv, TypeOK
  <2> HIDE DEF a
  <2> QED BY <1>5, <2>1, <2>2, <2>3, FlagIInv DEF ProcessTxnData
<1>6. ASSUME NEW r \in RunID, DoHarvestInactive(r)
      PROVE  IInv'
  <2>1. runApp[r] # Nil /\ RemoveInactive(r) /\ flush' \subseteq flush
    BY <1>6 DEF DoHarvestInactive, IInv, TablesAgree
  <2>2. apps' \in [Key -> App \cup {Nil}] /\ TablesAgree' /\ ConnectedHasHarvest'
    BY <2>1, RemoveInactiveLemma
  <2>3. TypeOK'
    BY <1>6, <2>1, <2>2 DEF DoHarvestInactive, RemoveInactive, IInv, TypeOK
  <2> QED BY <2>2, <2>3 DEF IInv
<1>7. ASSUME NEW r \in RunID, DoHarvest(r) \/ PayloadAccepted(r)
             \/ HarvestErrorUnknown(r) \/ HarvestErrorOther(r)
      PROVE  IInv'
  <2>1. sending' \in [RunID -> Nat]
    BY <1>0, <1>7 DEF DoHarvest, PayloadAccepted,
       HarvestErrorUnknown, HarvestErrorOther, HarvestErrorReceived
  <2> QED BY <1>0, <1>7, <2>1, TablesUnchangedIInv
          DEF DoHarvest, PayloadAccepted, HarvestErrorUnknown, HarvestErrorOther
<1>8. ASSUME NEW r \in RunID, ProcessHarvestError(r)
      PROVE  IInv'
  BY <1>7, <1>8, HarvestErrorFatalIInv, HarvestErrorRestartIInv
     DEF ProcessHarvestError
<1>9. ASSUME NEW r \in RunID, Close(r)
      PROVE  IInv'
  BY <1>0, <1>9, TablesUnchangedIInv DEF Close
<1>10. ASSUME NEW r \in RunID, FlushRun(r)
       PROVE  IInv'
  <2>1. runApp[r] # Nil /\ flush' \subseteq flush
    BY <1>10 DEF FlushRun, IInv, TablesAgree
  <2>2. CASE RemoveInactive(r)
    <3>1. apps' \in [Key -> App \cup {Nil}] /\ TablesAgree' /\ ConnectedHasHarvest'
      BY <2>1, <2>2, RemoveInactiveLemma
    <3>2. TypeOK'
      BY <1>10, <2>1, <2>2, <3>1 DEF FlushRun, RemoveInactive, IInv, TypeOK
    <3> QED BY <3>1, <3>2 DEF IInv
  <2>3. CASE UNCHANGED <<util, apps, app, harvests, runApp, open, connecting>>
    BY <1>0, <1>10, <2>1, <2>3, TablesUnchangedIInv DEF FlushRun
  <2> QED BY <1>10, <2>2, <2>3 DEF FlushRun
<1>11. ASSUME NEW r \in RunID, FlushStuck(r)
       PROVE  IInv'
  <2>1. phase' \in Phase
    BY <1>11 DEF FlushStuck, Phase
  <2> QED BY <1>0, <1>11, <2>1, TablesUnchangedIInv DEF FlushStuck
<1>12. ASSUME NEW o \in App, BackoffExpires(o)
       PROVE  IInv'
  <2> DEFINE a == [app[o] EXCEPT !.backoff = FALSE]
  <2>1. a \in AppRecord /\ a.key = app[o].key /\ a.run = app[o].run
        /\ a.state = app[o].state
    BY DEF IInv, TypeOK, AppRecord
  <2>2. app' = [app EXCEPT ![o] = a]
    BY <1>12 DEF BackoffExpires, IInv, TypeOK
  <2> HIDE DEF a
  <2> QED BY <1>12, <2>1, <2>2, FlagIInv DEF BackoffExpires
<1>13. ASSUME NEW o \in App, ActivityExpires(o)
       PROVE  IInv'
  <2> DEFINE a == [app[o] EXCEPT !.active = FALSE]
  <2>1. a \in AppRecord /\ a.key = app[o].key /\ a.run = app[o].run
        /\ a.state = app[o].state
    BY DEF IInv, TypeOK, AppRecord
  <2>2. app' = [app EXCEPT ![o] = a]
    BY <1>13 DEF ActivityExpires, IInv, TypeOK
  <2> HIDE DEF a
  <2> QED BY <1>13, <2>1, <2>2, FlagIInv DEF ActivityExpires
<1>14. CASE Quit \/ Exit
  <2>1. phase' \in Phase
    BY <1>14 DEF Quit, Exit, Phase
  <2> QED BY <1>0, <1>14, <2>1, TablesUnchangedIInv DEF Quit, Exit
<1>15. CASE Respawn
  <2>1. util' \in BOOLEAN
    BY <1>15 DEF Respawn
  <2>2. TypeOK'
    BY <1>15, <2>1 DEF Respawn, IInv, TypeOK
  <2>3. TablesAgree'
    BY <1>15 DEF Respawn, IInv, TablesAgree
  <2>4. ConnectedHasHarvest'
    BY <1>15 DEF Respawn, ConnectedHasHarvest
  <2> QED BY <2>2, <2>3, <2>4 DEF IInv
<1> QED BY <1>1, <1>2, <1>3, <1>4, <1>5, <1>6, <1>7, <1>8, <1>9, <1>10, <1>11,
           <1>12, <1>13, <1>14, <1>15 DEF Next

\* Every variable of the processor keeps its type, whatever the agents, the
\* collector and the clocks do.
THEOREM TypeCorrect == Spec => []TypeOK
<1>1. IInv => TypeOK
  BY DEF IInv
<1> QED BY <1>1, InitIInv, NextIInv, PTL DEF Spec

\* An application shown as Connected has its current run in p.harvests: the
\* run id processAppInfo answers with is one whose data processTxnData keeps,
\* for any number of agents, late connect answers, stale harvest events,
\* collector errors and worker respawns.
THEOREM ConnectedRunIsLive == Spec => []ConnectedHasHarvest
<1>1. IInv => ConnectedHasHarvest
  BY DEF IInv
<1> QED BY <1>1, InitIInv, NextIInv, PTL DEF Spec

\* The tables and the App objects agree (the invariant the theorem above
\* rests on).
THEOREM TablesAlwaysAgree == Spec => []TablesAgree
<1>1. IInv => TablesAgree
  BY DEF IInv
<1> QED BY <1>1, InitIInv, NextIInv, PTL DEF Spec

------------------------------------------------------------------------------
\* The processor implements AppRuns.

\* The run that is told for an application, read off the tables.
Told(k) ==
  IF apps[k] # Nil /\ app[apps[k]].state = "Connected"
  THEN app[apps[k]].run ELSE Nil

\* processAppInfo tells an agent without a run that of the connected App.
LEMMA CurrentLemma == IInv => CurrentRun = [k \in Key |-> Told(k)]
<1> SUFFICES ASSUME IInv, NEW k \in Key PROVE AppInfoReply(k, Nil).run = Told(k)
  BY DEF CurrentRun
<1>1. Nil \notin harvests
  BY NilAssumption DEF IInv, TypeOK
<1> QED BY <1>1 DEF AppInfoReply, Told

\* So it does after the step.
LEMMA CurrentAfterLemma == IInv' => CurrentRun' = [k \in Key |-> Told(k)']
<1> SUFFICES ASSUME IInv', NEW k \in Key
             PROVE  AppInfoReply(k, Nil).run' = Told(k)'
  BY DEF CurrentRun
<1>1. Nil \notin harvests'
  BY NilAssumption DEF IInv, TypeOK
<1> QED BY <1>1 DEF AppInfoReply, Told

\* The runs given to an application, read off the tables.
LEMMA GivenLemma ==
  GivenRuns = [k \in Key |-> {r \in RunID : /\ runApp[r] # Nil
                                           /\ app[runApp[r]].key = k}]
<1> SUFFICES ASSUME NEW k \in Key
             PROVE  AgentRunIDs(k) \ {Nil} =
                      {r \in RunID : runApp[r] # Nil /\ app[runApp[r]].key = k}
  BY DEF GivenRuns
<1> QED BY NilAssumption DEF AgentRunIDs

\* An App keeps its key and a run its App.
KeysKept ==
  /\ runApp' = runApp
  /\ \A o \in App : app[o].key # Nil => app'[o].key = app[o].key

\* Steps that keep keys and Apps give no run.
LEMMA GivenKept == ASSUME IInv, KeysKept PROVE GivenRuns' = GivenRuns
<1>1. \A r \in RunID : runApp[r] # Nil =>
        /\ app'[runApp[r]].key = app[runApp[r]].key
        /\ runApp'[r] = runApp[r]
  BY DEF IInv, TypeOK, TablesAgree, KeysKept
<1>2. GivenRuns' = [k \in Key |-> {r \in RunID : /\ runApp'[r] # Nil
                                                /\ app'[runApp'[r]].key = k}]
  BY NilAssumption DEF GivenRuns, AgentRunIDs
<1> QED BY <1>1, <1>2, GivenLemma DEF KeysKept

\* Those that leave p.harvests alone too start and end no run.
LEMMA LiveKept ==
  ASSUME IInv, KeysKept, harvests' = harvests
  PROVE  LiveRuns' = LiveRuns
<1>1. \A r \in harvests : app'[runApp[r]].key = app[runApp[r]].key
  BY DEF IInv, TypeOK, TablesAgree, KeysKept
<1> QED BY <1>1 DEF LiveRuns, KeysKept

\* A run that leaves p.harvests is alive no more; the others are.
LEMMA LiveEnds ==
  ASSUME IInv, KeysKept, NEW r \in harvests, harvests' = harvests \ {r}
  PROVE  LET k == app[runApp[r]].key
         IN /\ k \in Key
            /\ r \in LiveRuns[k]
            /\ LiveRuns' = [LiveRuns EXCEPT ![k] = @ \ {r}]
<1> DEFINE k == app[runApp[r]].key
<1>1. \A q \in harvests : app'[runApp[q]].key = app[runApp[q]].key
  BY DEF IInv, TypeOK, TablesAgree, KeysKept
<1>2. k \in Key
  BY DEF IInv, TypeOK, TablesAgree, AppRecord
<1>3. r \in LiveRuns[k]
  BY <1>2 DEF LiveRuns
<1>4. LiveRuns' = [j \in Key |-> {q \in harvests \ {r} : app[runApp[q]].key = j}]
  BY <1>1 DEF LiveRuns, KeysKept
<1>5. \A j \in Key : {q \in harvests \ {r} : app[runApp[q]].key = j} =
                       IF j = k THEN LiveRuns[j] \ {r} ELSE LiveRuns[j]
  BY DEF LiveRuns
<1>6. LiveRuns' = [LiveRuns EXCEPT ![k] = @ \ {r}]
  BY <1>2, <1>4, <1>5 DEF LiveRuns
<1> QED BY <1>2, <1>3, <1>6

\* A step after which agents see the same.
LEMMA StutterLemma ==
  ASSUME IInv, IInv', KeysKept, harvests' = harvests,
         \A k \in Key : Told(k)' = Told(k)
  PROVE  UNCHANGED Runs!runVars
<1>1. CurrentRun' = CurrentRun
  BY CurrentLemma, CurrentAfterLemma
<1> QED BY <1>1, GivenKept, LiveKept DEF Runs!runVars

\* A step that makes an application be told of no run, and changes no other.
LEMMA WithdrawLemma ==
  ASSUME IInv, IInv', KeysKept, harvests' = harvests, NEW k \in Key,
         Told(k)' = Nil, \A j \in Key \ {k} : Told(j)' = Told(j)
  PROVE  Runs!Next
<1>1. CurrentRun' = [CurrentRun EXCEPT ![k] = Nil]
  BY CurrentLemma, CurrentAfterLemma
<1>2. Runs!Withdraw(k)
  BY <1>1, GivenKept, LiveKept DEF Runs!Withdraw
<1> QED BY <1>2 DEF Runs!Next

\* A step that shuts run r down, after which its application is told of no run
\* or of the one it was, which is another.
LEMMA EndLemma ==
  ASSUME IInv, IInv', KeysKept, NEW r \in RunID, r \in harvests,
         harvests' = harvests \ {r},
         NEW k \in Key, k = app[runApp[r]].key,
         Told(k)' \in {Told(k), Nil} \ {r},
         \A j \in Key \ {k} : Told(j)' = Told(j)
  PROVE  Runs!Next
<1>1. /\ r \in LiveRuns[k]
      /\ LiveRuns' = [LiveRuns EXCEPT ![k] = @ \ {r}]
  BY LiveEnds
<1>2. CurrentRun[k] = Told(k)
  BY CurrentLemma
<1>3. CurrentRun' = [CurrentRun EXCEPT ![k] = Told(k)']
  BY CurrentLemma, CurrentAfterLemma
<1>4. Runs!End(k, r)
  BY <1>1, <1>2, <1>3, GivenKept DEF Runs!End
<1> QED BY <1>4 DEF Runs!Next

\* App o gets the fields a, with the key it had: keys are kept.
LEMMA KeysKeptLemma ==
  ASSUME IInv, NEW o \in App, NEW a, a.key = app[o].key,
         app' = [app EXCEPT ![o] = a], runApp' = runApp
  PROVE  /\ KeysKept
         /\ \A p \in App : app'[p] = IF p = o THEN a ELSE app[p]
  BY DEF IInv, TypeOK, KeysKept

\* A step that changes one App, neither its key nor its run nor whether it is
\* connected, and no table.
LEMMA FieldsLemma ==
  ASSUME IInv, IInv', NEW o \in App, NEW a, a.key = app[o].key,
         a.run = app[o].run, a.state = app[o].state,
         app' = [app EXCEPT ![o] = a],
         UNCHANGED <<apps, harvests, runApp>>
  PROVE  UNCHANGED Runs!runVars
<1>1. KeysKept /\ \A p \in App : app'[p] = IF p = o THEN a ELSE app[p]
  BY KeysKeptLemma
<1>2. \A k \in Key : Told(k)' = Told(k)
  BY <1>1 DEF Told, IInv, TypeOK
<1> QED BY <1>1, <1>2, StutterLemma

\* processConnectAttempt with an error withdraws the application.
LEMMA ConnectFailedRuns ==
  ASSUME IInv, IInv', NEW k \in Key, NEW err, ConnectFailed(k, err)
  PROVE  Runs!Next
<1> DEFINE o == apps[k]
           a == [app[o] EXCEPT !.state = StateOfError(err)]
<1>1. o \in App
  BY DEF ConnectFailed, IInv, TypeOK
<1>2. a.key = app[o].key /\ a.state # "Connected"
  BY <1>1 DEF IInv, TypeOK, AppRecord, StateOfError
<1>3. app' = [app EXCEPT ![o] = a] /\ UNCHANGED <<apps, harvests, runApp>>
  BY <1>1 DEF ConnectFailed, IInv, TypeOK
<1> HIDE DEF a
<1>4. KeysKept /\ \A p \in App : app'[p] = IF p = o THEN a ELSE app[p]
  BY <1>1, <1>2, <1>3, KeysKeptLemma
<1>5. \A j \in Key \ {k} : apps[j] # Nil => apps[j] # o
  BY <1>1 DEF IInv, TypeOK, TablesAgree, ConnectFailed
<1>6. Told(k)' = Nil /\ \A j \in Key \ {k} : Told(j)' = Told(j)
  BY <1>1, <1>2, <1>3, <1>4, <1>5 DEF Told, IInv, TypeOK
<1> QED BY <1>3, <1>4, <1>6, WithdrawLemma

\* processConnectAttempt with a connect reply gives the application a run.
LEMMA ConnectSucceededRuns ==
  ASSUME IInv, IInv', NEW k \in Key, NEW r \in RunID, ConnectSucceeded(k, r)
  PROVE  Runs!Next
<1> DEFINE o == apps[k]
<1>1. o \in App /\ o # Nil /\ app[o].key = k /\ runApp[r] = Nil
  BY NilAssumption DEF ConnectSucceeded, IInv, TypeOK, TablesAgree
<1>2. /\ \A p \in App : app'[p].key = app[p].key
      /\ \A p \in App \ {o} : app'[p] = app[p]
      /\ app'[o].state = "Connected" /\ app'[o].run = r
  BY <1>1 DEF ConnectSucceeded, IInv, TypeOK, AppRecord
<1>3. /\ runApp'[r] = o
      /\ \A q \in RunID \ {r} : runApp'[q] = runApp[q]
      /\ harvests' = harvests \cup {r}
      /\ apps' = apps
  BY DEF ConnectSucceeded, IInv, TypeOK
<1>4. \A q \in RunID : runApp[q] # Nil => runApp[q] \in App
  BY DEF IInv, TypeOK
<1>5. \A q \in harvests : q \in RunID /\ runApp[q] \in App /\ q # r
  BY <1>1 DEF IInv, TypeOK, TablesAgree
<1>6. \A j \in Key : r \notin GivenRuns[j]
  BY <1>1, GivenLemma
<1>7. GivenRuns' = [GivenRuns EXCEPT ![k] = @ \cup {r}]
  <2>1. GivenRuns' = [j \in Key |-> {q \in RunID : /\ runApp'[q] # Nil
                                                  /\ app'[runApp'[q]].key = j}]
    BY NilAssumption DEF GivenRuns, AgentRunIDs
  <2>2. \A j \in Key :
          {q \in RunID : runApp'[q] # Nil /\ app'[runApp'[q]].key = j} =
            IF j = k THEN GivenRuns[j] \cup {r} ELSE GivenRuns[j]
    BY <1>1, <1>2, <1>3, <1>4, GivenLemma
  <2> QED BY <2>1, <2>2, GivenLemma
<1>8. LiveRuns' = [LiveRuns EXCEPT ![k] = @ \cup {r}]
  <2>1. LiveRuns' = [j \in Key |-> {q \in harvests \cup {r} :
                                       app'[runApp'[q]].key = j}]
    BY <1>3 DEF LiveRuns
  <2>2. \A j \in Key :
          {q \in harvests \cup {r} : app'[runApp'[q]].key = j} =
            IF j = k THEN LiveRuns[j] \cup {r} ELSE LiveRuns[j]
    BY <1>1, <1>2, <1>3, <1>5 DEF LiveRuns
  <2> QED BY <2>1, <2>2 DEF LiveRuns
<1>9. Told(k)' = r /\ \A j \in Key \ {k} : Told(j)' = Told(j)
  <2>1. \A j \in Key \ {k} : apps[j] # Nil => apps[j] \in App \ {o}
    BY <1>1 DEF IInv, TypeOK, TablesAgree
  <2> QED BY <1>1, <1>2, <1>3, <2>1 DEF Told
<1>10. CurrentRun' = [CurrentRun EXCEPT ![k] = r]
  BY <1>9, CurrentLemma, CurrentAfterLemma
<1>11. Runs!Give(k, r)
  BY <1>6, <1>7, <1>8, <1>10 DEF Runs!Give
<1> QED BY <1>11 DEF Runs!Next

\* doHarvest of an idle App ends its run, if it is still alive, and forgets the
\* application filed under its key.
LEMMA RemoveInactiveRuns ==
  ASSUME IInv, IInv', NEW r \in RunID, runApp[r] # Nil, RemoveInactive(r)
  PROVE  Runs!Next
<1>1. runApp[r] \in App /\ app[runApp[r]].key \in Key
  BY DEF IInv, TypeOK, TablesAgree, AppRecord
<1>2. PICK k \in Key : k = app[runApp[r]].key
  BY <1>1
<1>3. /\ app' = app /\ runApp' = runApp /\ harvests' = harvests \ {r}
      /\ apps'[k] = Nil /\ \A j \in Key \ {k} : apps'[j] = apps[j]
  BY <1>2 DEF RemoveInactive, IInv, TypeOK
<1>4. KeysKept
  BY <1>3 DEF KeysKept
<1>5. Told(k)' = Nil /\ \A j \in Key \ {k} : Told(j)' = Told(j)
  BY <1>3 DEF Told
<1>6. CASE r \in harvests
  BY <1>2, <1>3, <1>4, <1>5, <1>6, NilAssumption, EndLemma
<1>7. CASE r \notin harvests
  <2>1. harvests' = harvests
    BY <1>3, <1>7
  <2> QED BY <1>4, <1>5, <2>1, WithdrawLemma
<1> QED BY <1>6, <1>7

\* processHarvestError that ends run r leaves its App unconnected: the
\* application is told of no run, or of one of another App.
LEMMA HarvestErrorRuns ==
  ASSUME IInv, IInv', NEW r \in RunID, r \in harvests, NEW a,
         a.key = app[runApp[r]].key, a.state # "Connected",
         app' = [app EXCEPT ![runApp[r]] = a],
         harvests' = harvests \ {r}, UNCHANGED <<apps, runApp>>
  PROVE  Runs!Next
<1> DEFINE o == runApp[r]
<1>1. o \in App /\ app[o].key \in Key
  BY DEF IInv, TypeOK, TablesAgree, AppRecord
<1>2. PICK k \in Key : k = app[o].key
  BY <1>1
<1>3. KeysKept /\ \A p \in App : app'[p] = IF p = o THEN a ELSE app[p]
  BY <1>1, KeysKeptLemma
<1>4. \A j \in Key \ {k} : apps[j] # Nil => apps[j] \in App \ {o}
  BY <1>2 DEF IInv, TypeOK, TablesAgree
<1>5. \A j \in Key \ {k} : Told(j)' = Told(j)
  BY <1>3, <1>4 DEF Told
<1>6. Told(k)' \in {Told(k), Nil} \ {r}
  <2>1. CASE apps[k] = o \/ apps[k] = Nil
    BY <1>1, <1>3, <2>1, NilAssumption DEF Told
  <2>2. CASE apps[k] # o /\ apps[k] # Nil
    <3>1. apps[k] \in App /\ app'[apps[k]] = app[apps[k]]
      BY <1>3, <2>2 DEF IInv, TypeOK
    <3>2. Told(k)' = Told(k)
      BY <3>1 DEF Told
    <3>3. app[apps[k]].run # Nil => runApp[app[apps[k]].run] = apps[k]
      BY <3>1 DEF IInv, TablesAgree
    <3>4. Told(k) # r
      BY <2>2, <3>3, NilAssumption DEF Told
    <3> QED BY <3>2, <3>4
  <2> QED BY <2>1, <2>2
<1> QED BY <1>2, <1>3, <1>5, <1>6, EndLemma

\* processAppInfo changes nothing that agents see: an App it finds keeps key,
\* state and run, and one it makes has no run to tell.
LEMMA AppInfoRuns ==
  ASSUME IInv, IInv', NEW k \in Key, NEW id, ProcessAppInfo(k, id)
  PROVE  UNCHANGED Runs!runVars
<1>1. CASE AppInfoRunIDValid(k, id) \/ AppInfoLimit(k, id)
  <2>1. UNCHANGED <<apps, app, harvests, runApp>>
    BY <1>1 DEF AppInfoRunIDValid, AppInfoLimit, vars
  <2> QED BY <2>1, StutterLemma DEF KeysKept, Told
<1>2. CASE AppInfoKnown(k, id)
  <2> DEFINE o == apps[k]
             a == [app[o] EXCEPT !.active = TRUE]
  <2>1. o \in App /\ app[o].key = k
    BY <1>2 DEF AppInfoKnown, IInv, TypeOK, TablesAgree
  <2>2. a \in AppRecord /\ a.key = k /\ a.run = app[o].run
        /\ a.state = app[o].state
    BY <2>1, ActiveLemma DEF IInv, TypeOK
  <2>3. ConsiderConnect(o, a)
    BY <1>2 DEF AppInfoKnown
  <2> HIDE DEF a
  <2>4. PICK b \in BOOLEAN : app' = [app EXCEPT ![o] = [a EXCEPT !.backoff = b]]
    BY <2>1, <2>2, <2>3, ConsiderConnectLemma DEF IInv
  <2> DEFINE c == [a EXCEPT !.backoff = b]
  <2>5. c.key = app[o].key /\ c.run = app[o].run /\ c.state = app[o].state
    BY <2>1, <2>2 DEF AppRecord
  <2>6. app' = [app EXCEPT ![o] = c]
    BY <2>4
  <2> HIDE DEF c
  <2>7. UNCHANGED <<apps, harvests, runApp>>
    BY <1>2 DEF AppInfoKnown
  <2> QED BY <2>1, <2>5, <2>6, <2>7, FieldsLemma
<1>3. CASE AppInfoNew(k, id)
  <2>1. PICK o \in App : /\ app[o].key = Nil
                        /\ apps' = [apps EXCEPT ![k] = o]
                        /\ ConsiderConnect(o, NewApp(k))
    BY <1>3 DEF AppInfoNew
  <2> DEFINE a == NewApp(k)
  <2>2. a \in AppRecord /\ a.key = k /\ a.state = "Unknown"
    BY DEF NewApp, AppRecord, AppState
  <2> HIDE DEF a
  <2>3. PICK b \in BOOLEAN : app' = [app EXCEPT ![o] = [a EXCEPT !.backoff = b]]
    BY <2>1, <2>2, ConsiderConnectLemma DEF IInv, a
  <2>4. app'[o].state = "Unknown" /\ \A p \in App \ {o} : app'[p] = app[p]
    BY <2>2, <2>3 DEF IInv, TypeOK, AppRecord
  <2>5. UNCHANGED <<harvests, runApp>> /\ apps[k] = Nil
    BY <1>3 DEF AppInfoNew
  <2>6. KeysKept
    BY <2>1, <2>4, <2>5 DEF KeysKept
  <2>7. /\ apps'[k] = o
        /\ \A j \in Key \ {k} : /\ apps'[j] = apps[j]
                                /\ apps[j] # Nil => apps[j] \in App \ {o}
    BY <2>1, NilAssumption DEF IInv, TypeOK, TablesAgree
  <2>8. \A j \in Key : Told(j)' = Told(j)
    BY <2>4, <2>5, <2>7 DEF Told
  <2> QED BY <2>5, <2>6, <2>8, StutterLemma
<1> QED BY <1>1, <1>2, <1>3 DEF ProcessAppInfo

\* A step that touches neither p.apps, nor an App, nor p.harvests.
LEMMA TablesUnchangedRuns ==
  ASSUME IInv, IInv', UNCHANGED <<apps, app, harvests, runApp>>
  PROVE  UNCHANGED Runs!runVars
  BY StutterLemma DEF KeysKept, Told

\* The worker is replaced: no run is alive and none is told.
LEMMA RespawnRuns ==
  ASSUME IInv, IInv', Respawn
  PROVE  Runs!Next
<1>1. KeysKept /\ harvests' = {} /\ \A k \in Key : apps'[k] = Nil
  BY DEF Respawn, KeysKept
<1>2. LiveRuns' = [k \in Key |-> {}]
  BY <1>1 DEF LiveRuns
<1>3. \A k \in Key : Told(k)' = Nil
  BY <1>1 DEF Told
<1>4. CurrentRun' = [k \in Key |-> Nil]
  BY <1>3, CurrentAfterLemma
<1>5. Runs!Restart
  BY <1>1, <1>2, <1>4, GivenKept DEF Runs!Restart
<1> QED BY <1>5 DEF Runs!Next

\* Every step of the processor, its workers and the collector is one that
\* AppRuns allows, or one that agents do not see.
LEMMA NextRuns == IInv /\ IInv' /\ [Next]_vars => [Runs!Next]_(Runs!runVars)
<1> SUFFICES ASSUME IInv, IInv', [Next]_vars
             PROVE  Runs!Next \/ UNCHANGED Runs!runVars
  OBVIOUS
<1>1. CASE UNCHANGED vars \/ GatherUtilization \/ Quit \/ Exit
  <2>1. UNCHANGED <<apps, app, harvests, runApp>>
    BY <1>1 DEF vars, GatherUtilization, Quit, Exit
  <2> QED BY <2>1, TablesUnchangedRuns
<1>2. ASSUME NEW k \in Key, NEW id \in AgentRunIDs(k), ProcessAppInfo(k, id)
      PROVE  UNCHANGED Runs!runVars
  BY <1>2, AppInfoRuns
<1>3. ASSUME NEW k \in Key, ProcessConnectAttempt(k)
      PROVE  Runs!Next \/ UNCHANGED Runs!runVars
  <2>1. CASE ConnectDropped(k)
    <3>1. UNCHANGED <<apps, app, harvests, runApp>>
      BY <2>1 DEF ConnectDropped
    <3> QED BY <3>1, TablesUnchangedRuns
  <2>2. CASE \E err \in {"disconnect", "license", "error"} : ConnectFailed(k, err)
    BY <2>2, ConnectFailedRuns
  <2>3. CASE \E r \in RunID : ConnectSucceeded(k, r)
    BY <2>3, ConnectSucceededRuns
  <2> QED BY <1>3, <2>1, <2>2, <2>3 DEF ProcessConnectAttempt
<1>4. ASSUME NEW o \in App, NEW f \in {"active", "backoff"}, NEW b \in BOOLEAN,
             app' = [app EXCEPT ![o] = [app[o] EXCEPT ![f] = b]],
             UNCHANGED <<apps, harvests, runApp>>
      PROVE  UNCHANGED Runs!runVars
  <2> DEFINE a == [app[o] EXCEPT ![f] = b]
  <2>1. a.key = app[o].key /\ a.run = app[o].run /\ a.state = app[o].state
    BY DEF IInv, TypeOK, AppRecord
  <2> HIDE DEF a
  <2>2. app' = [app EXCEPT ![o] = a]
    BY <1>4 DEF a
  <2> QED BY <1>4, <2>1, <2>2, FieldsLemma
<1>5. ASSUME NEW r \in RunID, ProcessTxnData(r)
      PROVE  UNCHANGED Runs!runVars
  <2>1. runApp[r] \in App
    BY <1>5 DEF ProcessTxnData, IInv, TypeOK, TablesAgree
  <2>2. /\ app' = [app EXCEPT ![runApp[r]] =
                               [app[runApp[r]] EXCEPT !["active"] = TRUE]]
        /\ UNCHANGED <<apps, harvests, runApp>>
    BY <1>5, <2>1 DEF ProcessTxnData, IInv, TypeOK
  <2> QED BY <1>4, <2>1, <2>2
<1>6. ASSUME NEW o \in App, BackoffExpires(o) \/ ActivityExpires(o)
      PROVE  UNCHANGED Runs!runVars
  <2>1. PICK f \in {"active", "backoff"} :
          /\ app' = [app EXCEPT ![o] = [app[o] EXCEPT ![f] = FALSE]]
          /\ UNCHANGED <<apps, harvests, runApp>>
    BY <1>6 DEF BackoffExpires, ActivityExpires, IInv, TypeOK
  <2> QED BY <1>4, <2>1
<1>7. ASSUME NEW r \in RunID, DoHarvestInactive(r)
      PROVE  Runs!Next
  BY <1>7, RemoveInactiveRuns DEF DoHarvestInactive, IInv, TablesAgree
<1>8. ASSUME NEW r \in RunID,
             \/ DoHarvest(r) \/ PayloadAccepted(r) \/ Close(r) \/ FlushStuck(r)
             \/ HarvestErrorUnknown(r) \/ HarvestErrorOther(r)
      PROVE  UNCHANGED Runs!runVars
  <2>1. UNCHANGED <<apps, app, harvests, runApp>>
    BY <1>8 DEF DoHarvest, PayloadAccepted, Close, FlushStuck,
                HarvestErrorUnknown, HarvestErrorOther
  <2> QED BY <2>1, TablesUnchangedRuns
<1>9. ASSUME NEW r \in RunID, FlushRun(r)
      PROVE  Runs!Next \/ UNCHANGED Runs!runVars
  <2>1. CASE RemoveInactive(r)
    BY <1>9, <2>1, RemoveInactiveRuns DEF FlushRun, IInv, TablesAgree
  <2>2. CASE UNCHANGED <<util, apps, app, harvests, runApp, open, connecting>>
    BY <2>2, TablesUnchangedRuns
  <2> QED BY <1>9, <2>1, <2>2 DEF FlushRun
<1>10. ASSUME NEW r \in RunID, NEW err, HarvestErrorFatal(r, err)
       PROVE  Runs!Next
  <2> DEFINE a == [app[runApp[r]] EXCEPT !.state = StateOfError(err)]
  <2>1. r \in harvests /\ runApp[r] \in App
    BY <1>10 DEF HarvestErrorFatal, IInv, TypeOK, TablesAgree
  <2>2. a.key = app[runApp[r]].key /\ a.state # "Connected"
    BY <2>1 DEF IInv, TypeOK, AppRecord, StateOfError
  <2>3. app' = [app EXCEPT ![runApp[r]] = a]
    BY <1>10, <2>1 DEF HarvestErrorFatal, IInv, TypeOK
  <2> HIDE DEF a
  <2> QED BY <1>10, <2>1, <2>2, <2>3, HarvestErrorRuns DEF HarvestErrorFatal
<1>11. ASSUME NEW r \in RunID, HarvestErrorRestart(r)
       PROVE  Runs!Next
  <2> DEFINE o == runApp[r]
             a == [app[o] EXCEPT !.state = "Unknown"]
  <2>1. r \in harvests /\ o \in App /\ app[o].key \in Key
    BY <1>11 DEF HarvestErrorRestart, IInv, TypeOK, TablesAgree, AppRecord
  <2>2. a \in AppRecord /\ a.key = app[o].key /\ a.state = "Unknown"
    BY <2>1 DEF IInv, TypeOK, AppRecord, AppState
  <2>3. ConsiderConnect(o, a)
    BY <1>11 DEF HarvestErrorRestart
  <2> HIDE DEF a
  <2>4. PICK b \in BOOLEAN : app' = [app EXCEPT ![o] = [a EXCEPT !.backoff = b]]
    BY <2>1, <2>2, <2>3, ConsiderConnectLemma DEF IInv
  <2> DEFINE c == [a EXCEPT !.backoff = b]
  <2>5. c.key = app[o].key /\ c.state # "Connected"
    BY <2>2 DEF AppRecord
  <2>6. app' = [app EXCEPT ![o] = c]
    BY <2>4
  <2> HIDE DEF c
  <2> QED BY <1>11, <2>1, <2>5, <2>6, HarvestErrorRuns DEF HarvestErrorRestart
<1>12. CASE Respawn
  BY <1>12, RespawnRuns
<1>13. ASSUME NEW r \in RunID, ProcessHarvestError(r)
       PROVE  Runs!Next \/ UNCHANGED Runs!runVars
  BY <1>8, <1>10, <1>11, <1>13 DEF ProcessHarvestError
<1> QED BY <1>1, <1>2, <1>3, <1>5, <1>6, <1>7, <1>8, <1>9, <1>12, <1>13 DEF Next

\* The daemon starts with no run given (NewProcessor).
LEMMA InitRuns == Init => Runs!Init
<1> SUFFICES ASSUME Init PROVE Runs!Init
  OBVIOUS
<1>1. GivenRuns = [k \in Key |-> {}]
  BY GivenLemma DEF Init
<1>2. LiveRuns = [k \in Key |-> {}]
  BY DEF Init, LiveRuns
<1>3. CurrentRun = [k \in Key |-> Nil]
  BY InitIInv, CurrentLemma DEF Init, Told
<1> QED BY <1>1, <1>2, <1>3 DEF Runs!Init

\* The processor implements AppRuns: for any number of agents, overlapping
\* connect attempts, late answers, stale harvest events, collector errors and
\* respawns, what processAppInfo tells agents and what processTxnData keeps are
\* those of a keeper of runs that are given once, to one application, and end.
THEOREM RunsImplemented == Spec => ImplementsRuns
<1> QED BY InitIInv, NextIInv, InitRuns, NextRuns, PTL
        DEF Spec, ImplementsRuns, Runs!Spec
----------------------------------------------------------------------------
\* What agents see of the runs are functions on the keys.
RunTypes ==
  /\ GivenRuns \in [Key -> SUBSET RunID]
  /\ LiveRuns \in [Key -> SUBSET RunID]
  /\ CurrentRun \in [Key -> RunID \cup {Nil}]

\* A new daemon has no run (NewProcessor).
LEMMA InitOwn == Runs!Init => RunTypes /\ Runs!RunsAreOwn
  BY DEF Runs!Init, RunTypes, Runs!RunsAreOwn

\* Runs that begin and end, and applications that are forgotten, leave every
\* run with its application and every run that is told alive.
LEMMA NextOwn ==
  ASSUME RunTypes, Runs!RunsAreOwn, [Runs!Next]_(Runs!runVars)
  PROVE  RunTypes' /\ Runs!RunsAreOwn'
<1>1. CASE UNCHANGED Runs!runVars
  BY <1>1 DEF RunTypes, Runs!RunsAreOwn, Runs!runVars
<1>2. ASSUME NEW k \in Key, NEW r \in RunID, Runs!Give(k, r)
      PROVE  RunTypes' /\ Runs!RunsAreOwn'
  <2>1. RunTypes'
    BY <1>2 DEF RunTypes, Runs!Give
  <2> QED BY <1>2, <2>1 DEF RunTypes, Runs!RunsAreOwn, Runs!Give
<1>3. ASSUME NEW k \in Key, NEW r \in RunID, Runs!End(k, r)
      PROVE  RunTypes' /\ Runs!RunsAreOwn'
  <2>1. RunTypes'
    BY <1>3 DEF RunTypes, Runs!End
  <2> QED BY <1>3, <2>1 DEF RunTypes, Runs!RunsAreOwn, Runs!End
<1>4. ASSUME NEW k \in Key, Runs!Withdraw(k)
      PROVE  RunTypes' /\ Runs!RunsAreOwn'
  BY <1>4 DEF RunTypes, Runs!RunsAreOwn, Runs!Withdraw
<1>5. CASE Runs!Restart
  BY <1>5 DEF RunTypes, Runs!RunsAreOwn, Runs!Restart
<1> QED BY <1>1, <1>2, <1>3, <1>4, <1>5 DEF Runs!Next

\* A run is of one application, the run that is told is alive and what is
\* alive was given, whatever the processor is asked and told: an agent that
\* uses what processAppInfo answered sends data that processTxnData keeps, and
\* keeps as its own.
THEOREM RunsStayOwn == Spec => []Runs!RunsAreOwn
<1>1. Spec => Runs!Spec
  BY RunsImplemented DEF ImplementsRuns
<1>2. Runs!Spec => [](RunTypes /\ Runs!RunsAreOwn)
  BY InitOwn, NextOwn, PTL DEF Runs!Spec
<1> QED BY <1>1, <1>2, PTL
=============================================================================
