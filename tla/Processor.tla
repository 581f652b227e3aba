------------------------------ MODULE Processor ------------------------------
(***************************************************************************)
(* The processor of the New Relic daemon (newrelic/processor.go): one      *)
(* goroutine that owns the table of applications and the table of live     *)
(* agent runs, and that is fed through channels by agents, by the          *)
(* goroutines that talk to the collector and by the harvest triggers.      *)
(*                                                                         *)
(* Every message the select loop of Run receives is one action here, since *)
(* a handler runs to completion before the next receive.  Time is abstract:*)
(* an App carries two flags, whether its last connect attempt is younger   *)
(* than the back-off and whether its last activity is younger than the     *)
(* application timeout, and two actions let them expire at any moment.     *)
(***************************************************************************)
EXTENDS Naturals, FiniteSets

CONSTANTS
  Key,            \* the AppKeys agents may present
  App,            \* the *App objects the daemon may allocate
  RunID,          \* the agent run ids the collector may hand out
  Nil,
  AppLimit,       \* limits.AppLimit
  MaxConnecting,  \* bound: concurrent ConnectApplication goroutines of a key
  MaxSending      \* bound: concurrent harvestPayload goroutines of a run

ASSUME NilAssumption == Nil \notin App /\ Nil \notin RunID /\ Nil \notin Key
ASSUME BoundAssumption ==
  AppLimit \in Nat /\ MaxConnecting \in Nat /\ MaxSending \in Nat

VARIABLES
  util,        \* p.util is set: the utilization data has been gathered
  apps,        \* p.apps
  app,         \* the App objects; those with key Nil are not allocated yet
  harvests,    \* the keys of p.harvests
  runApp,      \* AppHarvest.App of every run id handed out so far
  open,        \* runs whose trigger and forwarder goroutines are alive
  connecting,  \* ConnectApplication goroutines not yet received from
  sending,     \* harvestPayload goroutines whose collector call is pending
  phase,       \* "run" while Run loops, then CleanExit's progress
  flush        \* the runs CleanExit has yet to harvest

vars == <<util, apps, app, harvests, runApp, open, connecting, sending,
          phase, flush>>

AppState == {"Unknown", "Connected", "InvalidLicense", "Disconnected"}

AppRecord == [key: Key \cup {Nil}, state: AppState, backoff: BOOLEAN,
              active: BOOLEAN, run: RunID \cup {Nil}]

Phase == {"run", "exiting", "stuck", "exited"}

\* The zero App: memory nobody has allocated yet.
Unallocated == [key |-> Nil, state |-> "Unknown", backoff |-> FALSE,
                active |-> FALSE, run |-> Nil]

\* NewApp: lastConnectAttempt is the zero time, LastActivity is now.
NewApp(k) == [key |-> k, state |-> "Unknown", backoff |-> FALSE,
              active |-> TRUE, run |-> Nil]

Registered == {k \in Key : apps[k] # Nil}

Init ==
  /\ util = FALSE
  /\ apps = [k \in Key |-> Nil]
  /\ app = [o \in App |-> Unallocated]
  /\ harvests = {}
  /\ runApp = [r \in RunID |-> Nil]
  /\ open = {}
  /\ connecting = [k \in Key |-> 0]
  /\ sending = [r \in RunID |-> 0]
  /\ phase = "run"
  /\ flush = {}

----------------------------------------------------------------------------
(* Handlers of the select loop.                                            *)

\* The utilization goroutine has finished.
GatherUtilization ==
  /\ phase = "run"
  /\ ~util
  /\ util' = TRUE
  /\ UNCHANGED <<apps, app, harvests, runApp, open, connecting, sending,
                 phase, flush>>

ShouldConnect(a) == util /\ a.state = "Unknown" /\ ~a.backoff

\* considerConnect on object o whose fields are now those of a: stamp
\* lastConnectAttempt and start the goroutine that talks to the collector.
ConsiderConnect(o, a) ==
  IF ShouldConnect(a)
  THEN /\ connecting[a.key] < MaxConnecting
       /\ connecting' = [connecting EXCEPT ![a.key] = @ + 1]
       /\ app' = [app EXCEPT ![o] = [a EXCEPT !.backoff = TRUE]]
  ELSE /\ app' = [app EXCEPT ![o] = a]
       /\ UNCHANGED connecting

\* What processAppInfo answers to an agent of key k presenting run id.
AppInfoReply(k, id) ==
  IF id \in harvests THEN [status |-> "StillValid", run |-> id]
  ELSE IF apps[k] = Nil THEN [status |-> "Unknown", run |-> Nil]
  ELSE [status |-> app[apps[k]].state,
        run |-> IF app[apps[k]].state = "Connected"
                THEN app[apps[k]].run ELSE Nil]

\* processAppInfo, the run id presented is live: nothing else is looked at.
AppInfoRunIDValid(k, id) ==
  /\ phase = "run"
  /\ id \in harvests
  /\ UNCHANGED vars

\* Mutant: an application already in the table is not considered for a
\* connect.
AppInfoKnownForgets(k, id) ==
  /\ phase = "run"
  /\ id \notin harvests
  /\ apps[k] # Nil
  /\ app' = [app EXCEPT ![apps[k]].active = TRUE]
  /\ UNCHANGED <<util, apps, harvests, runApp, open, connecting, sending,
                 phase, flush>>

\* processAppInfo for an application already in the table.
AppInfoKnown(k, id) ==
  /\ phase = "run"
  /\ id \notin harvests
  /\ apps[k] # Nil
  /\ ConsiderConnect(apps[k], [app[apps[k]] EXCEPT !.active = TRUE])
  /\ UNCHANGED <<util, apps, harvests, runApp, open, sending, phase, flush>>

\* processAppInfo when the table is full: the answer is Unknown.
AppInfoLimit(k, id) ==
  /\ phase = "run"
  /\ id \notin harvests
  /\ apps[k] = Nil
  /\ Cardinality(Registered) > AppLimit
  /\ UNCHANGED vars

\* processAppInfo adding an application.
AppInfoNew(k, id) ==
  /\ phase = "run"
  /\ id \notin harvests
  /\ apps[k] = Nil
  /\ ~(Cardinality(Registered) > AppLimit)
  /\ \E o \in App :
       /\ app[o].key = Nil
       /\ apps' = [apps EXCEPT ![k] = o]
       /\ ConsiderConnect(o, NewApp(k))
  /\ UNCHANGED <<util, harvests, runApp, open, sending, phase, flush>>

ProcessAppInfo(k, id) ==
  \/ AppInfoRunIDValid(k, id)
  \/ AppInfoKnown(k, id)
  \/ AppInfoLimit(k, id)
  \/ AppInfoNew(k, id)

\* processTxnData: data of a live run counts as activity of its App.  Data
\* of any other run is dropped.
ProcessTxnData(r) ==
  /\ phase = "run"
  /\ r \in harvests
  /\ app' = [app EXCEPT ![runApp[r]].active = TRUE]
  /\ UNCHANGED <<util, apps, harvests, runApp, open, connecting, sending,
                 phase, flush>>

\* The state an error answered by the collector puts an application in.
StateOfError(err) ==
  CASE err = "disconnect" -> "Disconnected"
    [] err = "license"    -> "InvalidLicense"
    [] OTHER              -> "Unknown"

\* Mutant: an answer nobody asked for is counted off.
ConnectAnsweredTwice(k) ==
  /\ phase = "run"
  /\ connecting' = [connecting EXCEPT ![k] = @ - 1]

\* One ConnectApplication goroutine of key k hands its result over.  The
\* result names the key only, not the App object the attempt was made for.
ConnectAnswered(k) ==
  /\ phase = "run"
  /\ connecting[k] > 0
  /\ connecting' = [connecting EXCEPT ![k] = @ - 1]

\* processConnectAttempt: the application is gone, the answer is dropped.
ConnectDropped(k) ==
  /\ ConnectAnswered(k)
  /\ apps[k] = Nil
  /\ UNCHANGED <<util, apps, app, harvests, runApp, open, sending, phase,
                 flush>>

\* processConnectAttempt with rep.Err set; p.harvests is not looked at.
ConnectFailed(k, err) ==
  /\ ConnectAnswered(k)
  /\ apps[k] # Nil
  /\ app' = [app EXCEPT ![apps[k]].state = StateOfError(err)]
  /\ UNCHANGED <<util, apps, harvests, runApp, open, sending, phase, flush>>

\* processConnectAttempt with a connect reply carrying the fresh run id r:
\* the App becomes Connected and NewAppHarvest starts its goroutines.
ConnectSucceeded(k, r) ==
  /\ ConnectAnswered(k)
  /\ apps[k] # Nil
  /\ runApp[r] = Nil
  /\ app' = [app EXCEPT ![apps[k]].state = "Connected", ![apps[k]].run = r]
  /\ harvests' = harvests \cup {r}
  /\ runApp' = [runApp EXCEPT ![r] = apps[k]]
  /\ open' = open \cup {r}
  /\ UNCHANGED <<util, apps, sending, phase, flush>>

\* Mutant: the idle App is removed and its run is not shut down.
RemoveInactiveKeepsRun(r) ==
  /\ ~app[runApp[r]].active
  /\ apps' = [apps EXCEPT ![app[runApp[r]].key] = Nil]
  /\ UNCHANGED <<util, app, harvests, runApp, open, connecting>>

\* doHarvest of an event forwarded for run r, whose App has been idle for
\* longer than AppTimeout: the run is shut down and whatever the table holds
\* under the App's key is removed.
RemoveInactive(r) ==
  /\ ~app[runApp[r]].active
  /\ harvests' = harvests \ {r}
  /\ apps' = [apps EXCEPT ![app[runApp[r]].key] = Nil]
  /\ UNCHANGED <<util, app, runApp, open, connecting>>

DoHarvestInactive(r) ==
  /\ phase = "run"
  /\ r \in open
  /\ RemoveInactive(r)
  /\ UNCHANGED <<sending, phase, flush>>

\* doHarvest of a live App: harvestByType hands what the harvest holds to a
\* goroutine that sends it.  The event need not be of a run in p.harvests.
DoHarvest(r) ==
  /\ phase = "run"
  /\ r \in open
  /\ app[runApp[r]].active
  /\ sending[r] < MaxSending
  /\ sending' = [sending EXCEPT ![r] = @ + 1]
  /\ UNCHANGED <<util, apps, app, harvests, runApp, open, connecting, phase,
                 flush>>

\* harvestPayload: the collector accepted the payload.
PayloadAccepted(r) ==
  /\ sending[r] > 0
  /\ sending' = [sending EXCEPT ![r] = @ - 1]
  /\ UNCHANGED <<util, apps, app, harvests, runApp, open, connecting, phase,
                 flush>>

HarvestErrorReceived(r) ==
  /\ phase = "run"
  /\ sending[r] > 0
  /\ sending' = [sending EXCEPT ![r] = @ - 1]

\* Mutant: the data that was not sent brings the run back.
HarvestErrorRevives(r) ==
  /\ HarvestErrorReceived(r)
  /\ r \notin harvests
  /\ harvests' = harvests \cup {r}
  /\ UNCHANGED <<util, apps, app, runApp, open, connecting, phase, flush>>

\* processHarvestError for a run that has been shut down meanwhile.
HarvestErrorUnknown(r) ==
  /\ HarvestErrorReceived(r)
  /\ r \notin harvests
  /\ UNCHANGED <<util, apps, app, harvests, runApp, open, connecting, phase,
                 flush>>

\* processHarvestError: the collector ends the run for good.
HarvestErrorFatal(r, err) ==
  /\ HarvestErrorReceived(r)
  /\ r \in harvests
  /\ err \in {"disconnect", "license"}
  /\ app' = [app EXCEPT ![runApp[r]].state = StateOfError(err)]
  /\ harvests' = harvests \ {r}
  /\ UNCHANGED <<util, apps, runApp, open, connecting, phase, flush>>

\* Mutant: the run is shut down and the App is left as it was.
HarvestErrorRestartKeepsState(r) ==
  /\ HarvestErrorReceived(r)
  /\ r \in harvests
  /\ harvests' = harvests \ {r}
  /\ ConsiderConnect(runApp[r], app[runApp[r]])
  /\ UNCHANGED <<util, apps, runApp, open, phase, flush>>

\* processHarvestError: the collector asks for a new run.
HarvestErrorRestart(r) ==
  /\ HarvestErrorReceived(r)
  /\ r \in harvests
  /\ harvests' = harvests \ {r}
  /\ ConsiderConnect(runApp[r], [app[runApp[r]] EXCEPT !.state = "Unknown"])
  /\ UNCHANGED <<util, apps, runApp, open, phase, flush>>

\* processHarvestError: payload too large (dropped) or any other error (the
\* data is merged back, which module Harvest describes).
HarvestErrorOther(r) ==
  /\ HarvestErrorReceived(r)
  /\ r \in harvests
  /\ UNCHANGED <<util, apps, app, harvests, runApp, open, connecting, phase,
                 flush>>

----------------------------------------------------------------------------
(* Goroutines and clocks around the loop.                                  *)

\* Mutant: the goroutines of a run end while the run is still in the table.
CloseEarly(r) ==
  /\ r \in open
  /\ open' = open \ {r}
  /\ UNCHANGED <<util, apps, app, harvests, runApp, connecting, sending,
                 phase, flush>>

\* AppHarvest.Close, started by shutdownAppHarvest, has stopped the trigger
\* and the forwarder (module Harvest describes how).
Close(r) ==
  /\ r \in open \ harvests
  /\ open' = open \ {r}
  /\ UNCHANGED <<util, apps, app, harvests, runApp, connecting, sending,
                 phase, flush>>

\* AppConnectAttemptBackoff has passed since the last connect attempt.
BackoffExpires(o) ==
  /\ app[o].backoff
  /\ app' = [app EXCEPT ![o].backoff = FALSE]
  /\ UNCHANGED <<util, apps, harvests, runApp, open, connecting, sending,
                 phase, flush>>

\* AppTimeout has passed since the last activity.
ActivityExpires(o) ==
  /\ app[o].active
  /\ app' = [app EXCEPT ![o].active = FALSE]
  /\ UNCHANGED <<util, apps, harvests, runApp, open, connecting, sending,
                 phase, flush>>

----------------------------------------------------------------------------
(* CleanExit.                                                              *)

\* CleanExit: Run's loop receives the quit message; CleanExit then ranges
\* over the harvests.
Quit ==
  /\ phase = "run"
  /\ phase' = "exiting"
  /\ flush' = harvests
  /\ UNCHANGED <<util, apps, app, harvests, runApp, open, connecting,
                 sending>>

\* CleanExit's blocking doHarvest of run r, completed.
FlushRun(r) ==
  /\ phase = "exiting"
  /\ r \in flush
  /\ flush' = flush \ {r}
  /\ \/ RemoveInactive(r)
     \/ /\ app[runApp[r]].active
        /\ UNCHANGED <<util, apps, app, harvests, runApp, open, connecting>>
  /\ UNCHANGED <<sending, phase>>

\* CleanExit's blocking doHarvest of run r, the collector answering with an
\* error: harvestPayload sends on harvestErrorChannel, from which only Run's
\* loop, now over, receives.
FlushStuck(r) ==
  /\ phase = "exiting"
  /\ r \in flush
  /\ app[runApp[r]].active
  /\ phase' = "stuck"
  /\ UNCHANGED <<util, apps, app, harvests, runApp, open, connecting,
                 sending, flush>>

\* CleanExit returns and the worker process ends.
Exit ==
  /\ phase = "exiting"
  /\ flush = {}
  /\ phase' = "exited"
  /\ UNCHANGED <<util, apps, app, harvests, runApp, open, connecting,
                 sending, flush>>

\* The worker process dies (a panic caught by crashGuard, or a signal other
\* than SIGTERM) and the watcher spawns a new one.  The tables start empty;
\* agents keep the run ids they were given.
Respawn ==
  /\ phase = "run"
  /\ util' = FALSE
  /\ apps' = [k \in Key |-> Nil]
  /\ harvests' = {}
  /\ open' = {}
  /\ connecting' = [k \in Key |-> 0]
  /\ sending' = [r \in RunID |-> 0]
  /\ UNCHANGED <<app, runApp, phase, flush>>

----------------------------------------------------------------------------
\* The run ids an agent of key k may present: none, or one it was given.
AgentRunIDs(k) ==
  {Nil} \cup {r \in RunID : runApp[r] # Nil /\ app[runApp[r]].key = k}

ProcessConnectAttempt(k) ==
  \/ ConnectDropped(k)
  \/ \E err \in {"disconnect", "license", "error"} : ConnectFailed(k, err)
  \/ \E r \in RunID : ConnectSucceeded(k, r)

ProcessHarvestError(r) ==
  \/ HarvestErrorUnknown(r)
  \/ \E err \in {"disconnect", "license"} : HarvestErrorFatal(r, err)
  \/ HarvestErrorRestart(r)
  \/ HarvestErrorOther(r)

Next ==
  \/ GatherUtilization
  \/ \E k \in Key : \E id \in AgentRunIDs(k) : ProcessAppInfo(k, id)
  \/ \E k \in Key : ProcessConnectAttempt(k)
  \/ \E r \in RunID :
       \/ ProcessTxnData(r)
       \/ DoHarvestInactive(r)
       \/ DoHarvest(r)
       \/ PayloadAccepted(r)
       \/ ProcessHarvestError(r)
       \/ Close(r)
       \/ FlushRun(r)
       \/ FlushStuck(r)
  \/ \E o \in App : BackoffExpires(o) \/ ActivityExpires(o)
  \/ Quit
  \/ Exit
  \/ Respawn

Spec == Init /\ [][Next]_vars

\* Go runs every runnable goroutine: the utilization goroutine ends, every
\* collector call returns (HarvestTimeout), the processor serves its
\* channels, tickers keep firing and CleanExit keeps going.  Agents without
\* a live run keep asking, and the collector does not refuse for ever.
Fairness ==
  /\ WF_vars(GatherUtilization)
  /\ WF_vars(Exit)
  /\ \A k \in Key :
       /\ WF_vars(AppInfoKnown(k, Nil))
       /\ WF_vars(ProcessConnectAttempt(k))
       /\ SF_vars(\E r \in RunID : ConnectSucceeded(k, r))
  /\ \A r \in RunID :
       /\ WF_vars(PayloadAccepted(r) \/ ProcessHarvestError(r))
       /\ WF_vars(DoHarvestInactive(r))
       /\ WF_vars(Close(r))
       /\ WF_vars(FlushRun(r) \/ FlushStuck(r))
  /\ \A o \in App : WF_vars(BackoffExpires(o))

FairSpec == Spec /\ Fairness

----------------------------------------------------------------------------
\* Every variable has its type.
TypeOK ==
  /\ util \in BOOLEAN
  /\ apps \in [Key -> App \cup {Nil}]
  /\ app \in [App -> AppRecord]
  /\ harvests \subseteq RunID
  /\ runApp \in [RunID -> App \cup {Nil}]
  /\ open \subseteq RunID
  /\ connecting \in [Key -> Nat]
  /\ sending \in [RunID -> Nat]
  /\ phase \in Phase
  /\ flush \subseteq RunID

\* An application the table shows as Connected has the run it would give to
\* an agent in p.harvests: an agent that processAppInfo answers "connected"
\* is never given a run id whose data processTxnData drops.
ConnectedHasHarvest ==
  \A k \in Key :
    (apps[k] # Nil /\ app[apps[k]].state = "Connected")
      => app[apps[k]].run \in harvests

\* The inductive invariant behind ConnectedHasHarvest: p.apps files every App
\* under its own key, a run belongs to the App whose connect reply named it,
\* and every run with goroutines or in a table was handed out to an App.
TablesAgree ==
  /\ \A k \in Key : apps[k] # Nil => app[apps[k]].key = k
  /\ \A o \in App : app[o].run # Nil => runApp[app[o].run] = o
  /\ \A r \in RunID : runApp[r] # Nil => app[runApp[r]].key # Nil
  /\ \A r \in open \cup harvests \cup flush : runApp[r] # Nil
  /\ harvests \subseteq open

\* An application waiting for its first run is not forgotten: it gets one,
\* or a final refusal, or is removed (RunID is a bound of the model: without
\* fresh ids the collector cannot answer).
EventuallyAnswered ==
  \A k \in Key :
    (phase = "run" /\ apps[k] # Nil /\ app[apps[k]].state = "Unknown")
      ~> \/ phase # "run"
         \/ apps[k] = Nil
         \/ app[apps[k]].state # "Unknown"
         \/ \A r \in RunID : runApp[r] # Nil

\* A run whose App has been idle for AppTimeout is shut down by the next
\* harvest event, unless data arrives first.
InactiveRunEnds ==
  \A r \in RunID :
    (phase = "run" /\ r \in harvests /\ ~app[runApp[r]].active)
      ~> (phase # "run" \/ r \notin harvests \/ app[runApp[r]].active)

\* What agents see of the tables: the runs of each application, those whose
\* data is kept, and the one that is told to who has none.
GivenRuns == [k \in Key |-> AgentRunIDs(k) \ {Nil}]

LiveRuns == [k \in Key |-> {r \in harvests : app[runApp[r]].key = k}]

CurrentRun == [k \in Key |-> AppInfoReply(k, Nil).run]

Runs == INSTANCE AppRuns WITH
  given <- GivenRuns, live <- LiveRuns, current <- CurrentRun

\* To agents the processor is a keeper of runs: whatever late connect answers,
\* stale harvest events, collector errors and respawns do to p.apps, the Apps
\* and p.harvests, a run is given once and to one application, the run
\* processAppInfo tells is the newest one given and is alive until it ends.
ImplementsRuns == Runs!Spec

\* CleanExit "terminates p.Run()'s loop and iterates over the processor's
\* harvests": once asked to, the worker exits.
CleanExitReturns == (phase = "exiting") ~> (phase = "exited")
=============================================================================
