-------------------------- MODULE DaemonConnection --------------------------
(***************************************************************************)
(* The one connection that a process has to the daemon (axiom/nr_agent.c)  *)
(* and the commands its threads exchange over it (cmd_appinfo_transmit.c,  *)
(* cmd_txndata_transmit.c), from newrelic_init, newrelic_create_app,       *)
(* newrelic_start_transaction, newrelic_end_transaction and                *)
(* newrelic_destroy_app.                                                   *)
(*                                                                         *)
(* nr_agent_daemon_mutex guards the connection's variables, and each       *)
(* exchange on its own: the descriptor is fetched before the exchange and  *)
(* a connection that failed is closed after it. Nothing but the mutex's    *)
(* holder sees the connection change, so what runs under the mutex without *)
(* waiting for the daemon is one step.                                     *)
(***************************************************************************)
EXTENDS Integers, Sequences, FiniteSets

CONSTANTS
  Thread,
  App,       \* the applications the process reports for
  Address,   \* what kinds of daemon address newrelic_init is given
  MaxFd,     \* bound on the descriptors in use at a time
  MaxCalls,  \* bound on the number of calls
  Nil

ASSUME ConnectionAssumption ==
  /\ Nil \notin Thread \cup App
  /\ Address \subseteq {"good", "malformed", "unresolvable"}
  /\ MaxFd \in Nat \ {0} /\ MaxCalls \in Nat

VARIABLES
  mutex,    \* nr_agent_daemon_mutex: the thread that holds it, or Nil
  fd,       \* nr_agent_daemon_fd, 0 for -1
  state,    \* nr_agent_connection_state
  applist,  \* whether nr_agent_applist is set
  open,     \* the sockets that are open
  files,    \* the descriptors of the application's own files
  stray,    \* whether a command was written to one of these
  asked,    \* the commands on the way to the daemon, of each socket
  answers,  \* its answers on the way back
  pc,       \* where a thread is
  call,     \* what it does, for which application, on which descriptor
  calls     \* the number of calls made

agentVars == <<mutex, fd, state, applist, open>>
wireVars == <<asked, answers>>
fileVars == <<files, stray>>
vars == <<agentVars, wireVars, fileVars, pc, call, calls>>

Fd == 1..MaxFd
NoCall == [op |-> "none", app |-> Nil, fd |-> 0, addr |-> "good", got |-> Nil]

Init ==
  /\ mutex = Nil
  /\ fd = 0 /\ state = "start" /\ applist = FALSE
  /\ open = {}
  /\ files = {} /\ stray = FALSE
  /\ asked = [f \in Fd |-> <<>>] /\ answers = [f \in Fd |-> <<>>]
  /\ pc = [t \in Thread |-> "idle"]
  /\ call = [t \in Thread |-> NoCall]
  /\ calls = 0

----------------------------------------------------------------------------
\* Calls. The process is initialised before it has several threads.

Alone(t) == \A u \in Thread \ {t} : pc[u] = "idle"

Enter(t, c, at) ==
  /\ pc[t] = "idle"
  /\ calls < MaxCalls
  /\ calls' = calls + 1
  /\ call' = [call EXCEPT ![t] = c]
  /\ pc' = [pc EXCEPT ![t] = at]

Go(t, at) == pc' = [pc EXCEPT ![t] = at]

\* The call returns.
Done(t) ==
  /\ Go(t, "idle")
  /\ call' = [call EXCEPT ![t] = NoCall]

\* newrelic_init: refused once there is an application list.
CallInit(t, addr) ==
  /\ Alone(t)
  /\ Enter(t, [NoCall EXCEPT !.op = "init", !.addr = addr],
           IF applist THEN "return" ELSE "params")
  /\ UNCHANGED <<agentVars, wireVars, fileVars>>

\* newrelic_create_app, which initialises the process if need be
\* (newrelic_ensure_init) and then asks the daemon for the application.
CallCreate(t, a) ==
  /\ applist \/ Alone(t)
  /\ Enter(t, [NoCall EXCEPT !.op = "create", !.app = a],
           IF applist THEN "fetch" ELSE "params")
  /\ UNCHANGED <<agentVars, wireVars, fileVars>>

\* newrelic_start_transaction when the application is due for a query.
CallQuery(t, a) ==
  /\ applist
  /\ Enter(t, [NoCall EXCEPT !.op = "query", !.app = a], "fetch")
  /\ UNCHANGED <<agentVars, wireVars, fileVars>>

\* newrelic_end_transaction
CallSend(t, a) ==
  /\ applist
  /\ Enter(t, [NoCall EXCEPT !.op = "send", !.app = a], "fetch")
  /\ UNCHANGED <<agentVars, wireVars, fileVars>>

\* newrelic_destroy_app
CallDestroy(t) ==
  /\ applist
  /\ Enter(t, [NoCall EXCEPT !.op = "destroy"], "close")
  /\ UNCHANGED <<agentVars, wireVars, fileVars>>

Return(t) ==
  /\ pc[t] = "return"
  /\ Done(t)
  /\ UNCHANGED <<agentVars, wireVars, fileVars, calls>>

----------------------------------------------------------------------------
\* nr_agent.c

\* nr_conn_params_init and nr_agent_initialize_daemon_connection_parameters.
\* When the host name does not resolve, the latter returns with the mutex
\* locked.
InitParams(t) ==
  /\ pc[t] = "params"
  /\ IF call[t].addr = "malformed"
       THEN Go(t, "return") /\ UNCHANGED mutex
       ELSE /\ mutex = Nil
            /\ IF call[t].addr = "unresolvable"
                 THEN mutex' = t /\ Go(t, "return")
                 ELSE Go(t, "connect") /\ UNCHANGED mutex
  /\ UNCHANGED <<fd, state, applist, open, wireVars, fileVars, call, calls>>

\* What connect may say of the socket.
ConnectResult == {"connected", "in_progress", "failed"}

\* Mutant: the socket that could not connect stays open.
AfterConnectLeaks(f, result) ==
  IF result = "failed"
    THEN fd' = 0 /\ state' = "start" /\ open' = open \cup {f}
    ELSE fd' = f /\ state' = result /\ open' = open \cup {f}

\* Mutant: a failure is remembered as a state of its own.
AfterConnectRaw(f, result) ==
  IF result = "failed"
    THEN fd' = 0 /\ state' = result /\ open' = open \ {f}
    ELSE fd' = f /\ state' = result /\ open' = open \cup {f}

\* The end of nr_get_daemon_fd_internal, f being the socket it connected.
AfterConnect(f, result) ==
  IF result = "failed"
    THEN fd' = 0 /\ state' = "start" /\ open' = open \ {f}
    ELSE fd' = f /\ state' = result /\ open' = open \cup {f}

\* The descriptor that socket() gives: the least that is free.
FreeFd ==
  LET free == Fd \ (open \cup files)
  IN  {f \in free : \A g \in free : f <= g}

\* nr_get_daemon_fd_internal: a connection that is made is used; otherwise a
\* socket is made if there is none and connected, again if it is in progress.
\* A new socket has nothing on the way.
GetDaemonFdInternal(result) ==
  IF state = "connected"
    THEN result = "connected" /\ UNCHANGED <<fd, state, open, wireVars>>
    ELSE \E f \in IF fd # 0 THEN {fd} ELSE FreeFd :
           /\ AfterConnect(f, result)
           /\ IF fd # 0 THEN UNCHANGED wireVars
              ELSE /\ asked' = [asked EXCEPT ![f] = <<>>]
                   /\ answers' = [answers EXCEPT ![f] = <<>>]

\* nr_agent_try_daemon_connect and the end of newrelic_do_init. The second
\* attempt, after the time limit, decides.
TryConnect(t) ==
  /\ pc[t] = "connect"
  /\ mutex = Nil
  /\ \E result \in ConnectResult :
       /\ GetDaemonFdInternal(result)
       /\ applist' = (applist \/ result = "connected")
       /\ Go(t, IF result = "connected" /\ call[t].op = "create"
                  THEN "fetch" ELSE "return")
  /\ UNCHANGED <<mutex, fileVars, call, calls>>

\* Where a call goes whose command failed, or was answered by a daemon that
\* does not know the application yet.
Failed(t) == IF call[t].op = "create" THEN "give_up" ELSE "return"

\* nr_get_daemon_fd, before the exchange. Without a descriptor the command
\* fails.
Fetch(t) ==
  /\ pc[t] = "fetch"
  /\ mutex = Nil
  /\ \E result \in ConnectResult :
       /\ GetDaemonFdInternal(result)
       /\ IF result = "connected"
            THEN /\ call' = [call EXCEPT ![t].fd = fd']
                 /\ Go(t, "lock")
            ELSE Go(t, Failed(t)) /\ UNCHANGED call
  /\ UNCHANGED <<mutex, applist, fileVars, calls>>

----------------------------------------------------------------------------
\* nr_cmd_appinfo_tx and nr_cmd_txndata_tx

\* nr_agent_lock_daemon_mutex
Lock(t) ==
  /\ pc[t] = "lock"
  /\ mutex = Nil
  /\ mutex' = t
  /\ Go(t, "write")
  /\ UNCHANGED <<fd, state, applist, open, wireVars, fileVars, call, calls>>

\* nr_write_message, to the descriptor fetched before. It fails when that was
\* closed and may fail otherwise, by its deadline or because the daemon went.
Write(t) ==
  /\ pc[t] = "write"
  /\ LET f == call[t].fd IN
     \/ /\ f \in open
        /\ asked' = [asked EXCEPT ![f] = Append(@, [op |-> call[t].op,
                                                    app |-> call[t].app])]
        /\ Go(t, IF call[t].op = "send" THEN "unlock" ELSE "receive")
        /\ UNCHANGED stray
     \/ /\ f \in files
        /\ stray' = TRUE
        /\ Go(t, IF call[t].op = "send" THEN "unlock" ELSE "receive")
        /\ UNCHANGED asked
     \/ Go(t, "unlock_failed") /\ UNCHANGED <<asked, stray>>
  /\ UNCHANGED <<agentVars, answers, files, call, calls>>

\* nr_network_receive
Receive(t) ==
  /\ pc[t] = "receive"
  /\ LET f == call[t].fd IN
     \/ /\ f \in open
        /\ answers[f] # <<>>
        /\ call' = [call EXCEPT ![t].got = Head(answers[f])]
        /\ answers' = [answers EXCEPT ![f] = Tail(@)]
        /\ Go(t, "unlock")
     \/ /\ Go(t, "unlock_failed")
        /\ UNCHANGED <<call, answers>>
  /\ UNCHANGED <<agentVars, asked, fileVars, calls>>

\* Mutant: the mutex is released only when the exchange went well.
UnlockForgets(t) ==
  /\ pc[t] \in {"unlock", "unlock_failed"}
  /\ mutex' = IF pc[t] = "unlock" THEN Nil ELSE mutex
  /\ Go(t, IF pc[t] = "unlock" THEN "return" ELSE "close")
  /\ UNCHANGED <<fd, state, applist, open, wireVars, fileVars, call, calls>>

\* nr_agent_unlock_daemon_mutex; what failed is closed after it. An answer
\* may say that the application is not known yet.
Unlock(t) ==
  /\ pc[t] \in {"unlock", "unlock_failed"}
  /\ mutex' = Nil
  /\ IF pc[t] = "unlock" THEN Go(t, "return") \/ Go(t, Failed(t))
                          ELSE Go(t, "close")
  /\ UNCHANGED <<fd, state, applist, open, wireVars, fileVars, call, calls>>

\* nr_set_daemon_fd(-1): closes the connection there is, which may no longer
\* be the one that failed. What was under way on it is lost.
CloseConnection ==
  /\ open' = open \ {fd} /\ fd' = 0 /\ state' = "start"
  /\ asked' = [f \in Fd |-> IF f = fd THEN <<>> ELSE asked[f]]
  /\ answers' = [f \in Fd |-> IF f = fd THEN <<>> ELSE answers[f]]

\* nr_agent_close_daemon_connection, after a failed exchange and from
\* newrelic_destroy_app.
Close(t) ==
  /\ pc[t] = "close"
  /\ mutex = Nil
  /\ CloseConnection
  /\ Go(t, Failed(t))
  /\ UNCHANGED <<mutex, applist, fileVars, call, calls>>

\* nr_agent_find_or_add_app asks again until the time the caller gave is up;
\* newrelic_create_app then destroys the application it could not connect.
Retry(t) ==
  /\ pc[t] = "give_up"
  /\ Go(t, "fetch")
  /\ call' = [call EXCEPT ![t].fd = 0, ![t].got = Nil]
  /\ UNCHANGED <<agentVars, wireVars, fileVars, calls>>

GiveUp(t) ==
  /\ pc[t] = "give_up"
  /\ mutex = Nil
  /\ CloseConnection
  /\ Go(t, "return")
  /\ UNCHANGED <<mutex, applist, fileVars, call, calls>>

\* The application itself opens and closes files.
AppOpens ==
  /\ Cardinality(open \cup files) < MaxFd - 1
  /\ files' = files \cup FreeFd
  /\ UNCHANGED <<agentVars, wireVars, stray, pc, call, calls>>

AppCloses ==
  /\ \E f \in files : files' = files \ {f}
  /\ UNCHANGED <<agentVars, wireVars, stray, pc, call, calls>>

\* The daemon reads a command and answers it if it is a query. A connection
\* is served by one goroutine: answers come in the order of the commands.
DaemonAnswers(f) ==
  /\ f \in open
  /\ asked[f] # <<>>
  /\ asked' = [asked EXCEPT ![f] = Tail(@)]
  /\ answers' = IF Head(asked[f]).op = "send" THEN answers
                ELSE [answers EXCEPT ![f] = Append(@, Head(asked[f]).app)]
  /\ UNCHANGED <<agentVars, fileVars, pc, call, calls>>

\* The steps that take the mutex.
Acquire(t) ==
  InitParams(t) \/ TryConnect(t) \/ Fetch(t) \/ Lock(t) \/ Close(t)

Step(t) ==
  \/ Return(t)
  \/ InitParams(t)
  \/ TryConnect(t)
  \/ Fetch(t)
  \/ Lock(t)
  \/ Write(t)
  \/ Receive(t)
  \/ Unlock(t)
  \/ Close(t)
  \/ Retry(t)
  \/ GiveUp(t)

Next ==
  \/ \E t \in Thread :
       \/ \E addr \in Address : CallInit(t, addr)
       \/ \E a \in App : CallCreate(t, a) \/ CallQuery(t, a) \/ CallSend(t, a)
       \/ CallDestroy(t)
       \/ Step(t)
  \/ \E f \in Fd : DaemonAnswers(f)
  \/ AppOpens
  \/ AppCloses

Spec == Init /\ [][Next]_vars

\* Threads go on with a call they are in; a mutex that is free again and
\* again is obtained, every exchange has a deadline and every retry too.
FairSpec ==
  /\ Spec
  /\ \A t \in Thread :
       /\ WF_vars(Step(t))
       /\ SF_vars(Acquire(t))
       /\ SF_vars(GiveUp(t))

----------------------------------------------------------------------------
\* Properties

Place == {"idle", "params", "connect", "fetch", "lock", "write", "receive",
          "unlock", "unlock_failed", "close", "give_up", "return"}

CallRecord ==
  [op : {"none", "init", "create", "query", "send", "destroy"},
   app : App \cup {Nil}, fd : 0..MaxFd,
   addr : {"good", "malformed", "unresolvable"}, got : App \cup {Nil}]

\* Every variable has its type.
TypeOK ==
  /\ mutex \in Thread \cup {Nil}
  /\ fd \in 0..MaxFd
  /\ state \in {"start", "in_progress", "connected"}
  /\ applist \in BOOLEAN
  /\ open \subseteq Fd /\ files \subseteq Fd /\ stray \in BOOLEAN
  /\ asked \in [Fd -> Seq([op : {"create", "query", "send"}, app : App])]
  /\ answers \in [Fd -> Seq(App)]
  /\ pc \in [Thread -> Place]
  /\ call \in [Thread -> CallRecord]
  /\ calls \in 0..MaxCalls

\* The connection's descriptor and state agree, and its socket is the only one
\* the process has: reconnecting after a failure loses no descriptor
\* (nr_get_daemon_fd_internal, nr_set_daemon_fd).
OneConnection ==
  /\ fd = 0 <=> state = "start"
  /\ open = IF fd = 0 THEN {} ELSE {fd}

\* An answer goes to the query it answers, never to another thread or to a
\* later query (nr_agent_lock_daemon_mutex exists to ensure it).
AnswersMatch ==
  \A t \in Thread : call[t].got # Nil => call[t].got = call[t].app

\* A command is written to the daemon's connection and to nothing else, even
\* if the connection is closed and its descriptor reused while a thread waits
\* to write.
NoStrayWrite == ~stray

\* Every call returns, whatever the daemon does.
CallsReturn == \A t \in Thread : pc[t] # "idle" ~> pc[t] = "idle"
=============================================================================
