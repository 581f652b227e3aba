--------------------------- MODULE ExamplePrograms ---------------------------
(***************************************************************************)
(* The programs of the examples directory, as the statements of their main *)
(* functions: what each call of the SDK allocates, opens and frees when it *)
(* succeeds and when it fails (global.c, config.c, app.c, transaction.c,   *)
(* segment.c, custom_event.c), and the two files by which the client and   *)
(* the server of the distributed tracing example talk to each other.       *)
(***************************************************************************)
EXTENDS Naturals, Sequences, FiniteSets

CONSTANTS
  Sessions,   \* what may be run on the machine: see Session
  MaxRuns,    \* bound on the runs of each program
  MaxKills    \* bound on the processes that are killed

\* A call of a program: the operation, the segment it is about and what main
\* does when the call gives false or NULL.
Statement(op, seg, onFail) == [op |-> op, seg |-> seg, onFail |-> onFail]
Call(op) == Statement(op, "none", "goes on")
OrReturn(op) == Statement(op, "none", "returns")
OrCrash(op) == Statement(op, "none", "crashes")
On(op, seg) == Statement(op, seg, "goes on")

----------------------------------------------------------------------------
\* The programs. "get_env" is get_app_name or get_license_key; a call that
\* owns nothing keeps its name and has no effect here.
Configured ==
  <<Call("example_init"), OrReturn("get_env"), OrReturn("get_env"),
    Call("create_app_config"), Call("customize_config")>>

\* The assignments through config, which no example guards.
Traced == <<OrCrash("set_field")>>

\* ex_simple does without the helpers of common.c.
Initialised ==
  <<Call("create_app_config"), OrReturn("configure_log"), OrReturn("init")>>

Started ==
  <<Call("create_app"), Call("destroy_app_config"), Call("start_transaction")>>

Ended == <<Call("end_transaction"), Call("destroy_app"), Call("return")>>

\* Every program but the server works within one transaction.
Example(opening, work) == opening \o Started \o work \o Ended

OneSegment(seg) == <<On("start_segment", seg), On("end_segment", seg)>>

CustomWork ==
  <<On("start_segment", "seg"), Call("record_custom_metric"),
    Call("create_custom_event"), Call("add_attributes"),
    Call("record_custom_event"), On("end_segment", "seg")>>

TimingWork ==
  <<Call("set_transaction_timing"), On("start_segment", "seg"),
    On("set_segment_timing", "seg"), On("end_segment", "seg")>>

NoticeErrorWork == <<Call("add_attribute_int"), Call("notice_error")>>

SegmentWork ==
  <<Call("set_transaction_timing"),
    On("start_segment", "seg"), On("end_segment", "seg"),
    On("start_segment", "seg_a"), On("start_segment", "seg"),
    On("start_segment", "seg_c"), On("set_segment_parent", "seg_c"),
    On("set_segment_timing", "seg_c"), On("end_segment", "seg_c"),
    On("start_segment", "seg_d"), On("set_segment_parent_root", "seg_d"),
    On("end_segment", "seg_d"), On("end_segment", "seg"),
    On("end_segment", "seg_a")>>

ClientWork ==
  <<On("start_segment", "external"), Call("unlink_request"),
    Call("create_request"), Call("write_request"), Call("await_response"),
    Call("unlink_response"), On("end_segment", "external")>>

ExSimple == Example(Initialised, OneSegment("seg"))
ExCustom == Example(Configured \o Traced, CustomWork)
ExTiming == Example(Configured \o Traced, TimingWork)
ExDatastore == Example(Configured \o Traced, OneSegment("datastore"))
ExExternal == Example(Configured \o Traced, OneSegment("external"))
ExNoticeError == Example(Configured, NoticeErrorWork)
ExSegment == Example(Configured \o Traced, SegmentWork)
ExClient == Example(Configured \o Traced, ClientWork)

\* Mutant: the response is created before the request is read.
ServerWorkAnswersFirst ==
  <<Call("create_app"), Call("destroy_app_config"), Call("unlink_response"),
    Call("await_request"), Call("create_response"), Call("start_transaction"),
    Call("read_request"), Call("unlink_request"), Call("end_transaction"),
    Call("again")>>
ServerWork ==
  <<Call("create_app"), Call("destroy_app_config"), Call("unlink_response"),
    Call("await_request"), Call("start_transaction"), Call("read_request"),
    Call("unlink_request"), Call("create_response"), Call("end_transaction"),
    Call("again")>>

\* The server starts a transaction for every request.
ExServer == Configured \o Traced \o ServerWork

Program ==
  [simple |-> ExSimple, custom |-> ExCustom, timing |-> ExTiming,
   datastore |-> ExDatastore, external |-> ExExternal,
   notice_error |-> ExNoticeError, segment |-> ExSegment,
   client |-> ExClient, server |-> ExServer]

Name == DOMAIN Program

\* The programs a user runs, and whether all that they need is there, so that
\* each call gives what it gives when nothing fails.
Session == [programs : SUBSET Name, smooth : BOOLEAN]

ASSUME ProgramsAssumption ==
  /\ Sessions \subseteq Session
  /\ MaxRuns \in Nat /\ MaxKills \in Nat

\* Where a statement stands in a program that has it once.
Place(p, op) == CHOOSE i \in DOMAIN Program[p] : Program[p][i].op = op

----------------------------------------------------------------------------
\* What a process may hold: memory of the SDK its main points to (config, app,
\* txn, event and the segments; a pointer is NULL when its object is not held),
\* options, which newrelic_start_transaction allocates, the list of applications,
\* the socket and the log file. began records that a transaction was started;
\* the rest is the SDK's state.
Unused == [held |-> {}, logged |-> FALSE, atexit |-> FALSE, began |-> FALSE]

\* A file is named by the run of the client that made it, 0 is one that was
\* there before.
NoFile == MaxRuns + 1

VARIABLES
  session,   \* the programs that are run
  proc,      \* of each program: place (0 when not running), SDK, how it ended
  runs,      \* of each program: how often it was started
  request,   \* the file of the name /tmp/request, or NoFile
  response,  \* whether /tmp/response exists
  opened,    \* the file the server has open, or NoFile
  whole,     \* the files a client has closed
  handled,   \* the files the server has read after they were closed
  released,  \* the runs of the client that saw a response
  faults,    \* what went wrong so far
  kills

files == <<request, response, opened, whole, handled, released, faults>>
vars == <<session, proc, runs, files, kills>>

----------------------------------------------------------------------------
\* The calls of the SDK: each gives the set of its possible results.
Result(ok, s) == [ok |-> ok, sdk |-> s]
Only(ok, s) == {Result(ok, s)}
Holds(s, r) == r \in s.held
Take(s, r) == [s EXCEPT !.held = @ \cup r]
Free(s, r) == [s EXCEPT !.held = @ \ r]

\* The use of nr_get_daemon_fd, which opens a socket that is closed. A failure
\* closes it, or leaves it open with the connection still in progress.
Exchange(s) ==
  {Result(ok, Take(s, {"connection"})) : ok \in BOOLEAN}
  \cup Only(FALSE, Free(s, {"connection"}))

ConfigureLog(s) ==
  Only(FALSE, s) \cup Only(TRUE, [Take(s, {"log"}) EXCEPT !.logged = TRUE])

\* Nothing is undone when the daemon cannot be reached; the list is made and the
\* handler at exit registered only when it can.
DoInit(s) ==
  LET logs == IF s.logged THEN Only(TRUE, s) ELSE ConfigureLog(s)
      up(t) == [Take(t, {"applist"}) EXCEPT !.atexit = TRUE]
      connect(t) == {IF e.ok THEN Result(TRUE, up(e.sdk)) ELSE e : e \in Exchange(t)}
  IN UNION {IF r.ok THEN connect(r.sdk) ELSE {r} : r \in logs}

InitSdk(s) == IF Holds(s, "applist") THEN Only(FALSE, s) ELSE DoInit(s)
EnsureInit(s) == IF Holds(s, "applist") THEN Only(TRUE, s) ELSE DoInit(s)

ExampleInit(s) ==
  UNION {IF r.ok THEN InitSdk(r.sdk) ELSE {r} : r \in ConfigureLog(s)}

CreateAppConfig(s) == Only(FALSE, s) \cup Only(TRUE, Take(s, {"config"}))

DestroyAppConfig(s) == Only(Holds(s, "config"), Free(s, {"config"}))

DestroyApp(s) ==
  IF Holds(s, "app") THEN Only(TRUE, Free(s, {"app", "connection", "log"}))
  ELSE Only(FALSE, s)

\* The application that cannot be connected is destroyed again, with all that
\* newrelic_destroy_app closes.
CreateApp(s) ==
  IF ~Holds(s, "config") THEN Only(FALSE, s)
  ELSE Only(FALSE, s)
       \cup UNION {IF ~r.ok THEN {r}
                   ELSE Only(TRUE, Take(r.sdk, {"app", "connection"}))
                        \cup {Result(FALSE, d.sdk)
                                : d \in DestroyApp(Take(r.sdk, {"app"}))}
                     : r \in EnsureInit(s)}

\* The daemon may be asked about the application first. When nr_txn_begin fails
\* the wrapper is freed and the options are not.
StartTransaction(s) ==
  LET begun(t) == [Take(t, {"txn"}) EXCEPT !.began = TRUE]
  IN IF ~Holds(s, "app") THEN Only(FALSE, s)
     ELSE UNION {Only(FALSE, r.sdk) \cup Only(FALSE, Take(r.sdk, {"options"}))
                 \cup Only(TRUE, begun(r.sdk))
                   : r \in Only(TRUE, s) \cup Exchange(s)}

EndTransaction(s) ==
  IF ~Holds(s, "txn") THEN Only(FALSE, s)
  ELSE {Result(r.ok, Free(r.sdk, {"txn"})) : r \in Exchange(s)}

\* A transaction that is recording gives a segment to every start.
StartSegment(s, seg) ==
  IF Holds(s, "txn") THEN Only(TRUE, Take(s, {seg})) ELSE Only(FALSE, s)

\* The wrapper is freed also when there is no transaction.
EndSegment(s, seg) ==
  IF ~Holds(s, seg) THEN Only(FALSE, s)
  ELSE Only(Holds(s, "txn"), Free(s, {seg}))

CreateCustomEvent(s) == Only(TRUE, Take(s, {"event"}))

\* Mutant: the event is not freed once it is recorded.
RecordCustomEventOnly(s) == Only(Holds(s, "txn"), s)
RecordCustomEvent(s) ==
  IF Holds(s, "txn") THEN Only(TRUE, Free(s, {"event"})) ELSE Only(FALSE, s)

Shutdown(s) ==
  [Free(s, {"connection", "applist", "log"}) EXCEPT !.logged = FALSE]

\* What a call gives; the ones not named own nothing.
Outcomes(stmt, s) ==
  CASE stmt.op = "example_init"        -> ExampleInit(s)
    [] stmt.op = "configure_log"       -> ConfigureLog(s)
    [] stmt.op = "init"                -> InitSdk(s)
    [] stmt.op = "get_env"             -> Only(TRUE, s) \cup Only(FALSE, s)
    [] stmt.op = "create_app_config"   -> CreateAppConfig(s)
    [] stmt.op = "set_field"           -> Only(Holds(s, "config"), s)
    [] stmt.op = "create_app"          -> CreateApp(s)
    [] stmt.op = "destroy_app_config"  -> DestroyAppConfig(s)
    [] stmt.op = "start_transaction"   -> StartTransaction(s)
    [] stmt.op = "start_segment"       -> StartSegment(s, stmt.seg)
    [] stmt.op = "end_segment"         -> EndSegment(s, stmt.seg)
    [] stmt.op = "create_custom_event" -> CreateCustomEvent(s)
    [] stmt.op = "record_custom_event" -> RecordCustomEvent(s)
    [] stmt.op = "end_transaction"     -> EndTransaction(s)
    [] stmt.op = "destroy_app"         -> DestroyApp(s)
    [] OTHER                           -> Only(TRUE, s)

Possible(stmt, s) ==
  LET all == Outcomes(stmt, s)
      good == {r \in all : r.ok}
  IN IF session.smooth /\ good # {} THEN good ELSE all

----------------------------------------------------------------------------
Init ==
  /\ session \in Sessions
  /\ proc = [p \in Name |-> [at |-> 0, sdk |-> Unused, end |-> "none"]]
  /\ runs = [p \in Name |-> 0]
  /\ request \in {0, NoFile} /\ response \in BOOLEAN
  /\ opened = NoFile /\ whole = {0} /\ handled = {} /\ released = {}
  /\ faults = IF request = 0 \/ response THEN {"leftover"} ELSE {}
  /\ kills = 0

Running(p) == proc[p].at # 0
At(p, op) == Running(p) /\ Program[p][proc[p].at].op = op
Goto(p, i) == proc' = [proc EXCEPT ![p].at = i]
Proceed(p) == Goto(p, proc[p].at + 1)
Stop(p, sdk, how) == proc' = [proc EXCEPT ![p] = [at |-> 0, sdk |-> sdk, end |-> how]]

Fault(f) == faults' = faults \cup {f}

\* The user starts a program; one run of each at a time.
Launch(p) ==
  /\ p \in session.programs /\ ~Running(p) /\ runs[p] < MaxRuns
  /\ proc' = [proc EXCEPT ![p] = [at |-> 1, sdk |-> Unused, end |-> "none"]]
  /\ runs' = [runs EXCEPT ![p] = @ + 1]
  /\ UNCHANGED <<session, files, kills>>

\* The handler newrelic_do_init registered runs when main returns.
Exit(p, s, how) == Stop(p, IF s.atexit THEN Shutdown(s) ELSE s, how)

FileOps ==
  {"unlink_request", "create_request", "write_request", "await_response",
   "unlink_response", "await_request", "read_request", "create_response", "again"}

SdkCall(p) ==
  /\ Running(p)
  /\ LET stmt == Program[p][proc[p].at]
     IN /\ stmt.op \notin FileOps \cup {"return"}
        /\ \E r \in Possible(stmt, proc[p].sdk) :
             \/ /\ r.ok \/ stmt.onFail = "goes on"
                /\ proc' = [proc EXCEPT ![p].at = @ + 1, ![p].sdk = r.sdk]
             \/ ~r.ok /\ stmt.onFail = "returns" /\ Exit(p, r.sdk, "error")
             \/ ~r.ok /\ stmt.onFail = "crashes" /\ Stop(p, Unused, "crash")
  /\ UNCHANGED <<session, runs, files, kills>>

Return(p) ==
  /\ At(p, "return") /\ Exit(p, proc[p].sdk, "done")
  /\ UNCHANGED <<session, runs, files, kills>>

\* unlink takes the name, not the file another process has open.
UnlinkRequest(p) ==
  /\ At(p, "unlink_request") /\ Proceed(p)
  /\ request' = NoFile
  /\ opened' = IF p = "server" THEN NoFile ELSE opened
  /\ UNCHANGED <<session, runs, response, whole, handled, released, faults, kills>>

UnlinkResponse(p) ==
  /\ At(p, "unlink_response") /\ Proceed(p)
  /\ response' = FALSE
  /\ UNCHANGED <<session, runs, request, opened, whole, handled, released,
                 faults, kills>>

\* fopen for writing. The client that cannot open its request notices an error
\* and goes on to the end of its segment.
CreateRequest ==
  /\ At("client", "create_request")
  /\ \/ Proceed("client") /\ request' = runs["client"]
     \/ /\ Goto("client", Place("client", "unlink_response") + 1)
        /\ UNCHANGED request
  /\ UNCHANGED <<session, runs, response, opened, whole, handled, released,
                 faults, kills>>

\* The payload leaves the buffer of the stream when the file is closed.
WriteRequest ==
  /\ At("client", "write_request") /\ Proceed("client")
  /\ whole' = whole \cup {runs["client"]}
  /\ UNCHANGED <<session, runs, request, response, opened, handled, released,
                 faults, kills>>

\* The poll that finds the response; the others change nothing.
AwaitResponse ==
  /\ At("client", "await_response") /\ response /\ Proceed("client")
  /\ released' = released \cup {runs["client"]}
  /\ UNCHANGED <<session, runs, request, response, opened, whole, handled,
                 faults, kills>>

AwaitRequest ==
  /\ At("server", "await_request") /\ request # NoFile /\ Proceed("server")
  /\ opened' = request
  /\ UNCHANGED <<session, runs, request, response, whole, handled, released,
                 faults, kills>>

\* After a second's sleep. A client that has not closed its file by then was
\* slow, and the server reads an empty payload.
ReadRequest ==
  /\ At("server", "read_request") /\ Proceed("server")
  /\ handled' = handled \cup (whole \cap {opened})
  /\ IF opened \in whole THEN UNCHANGED faults ELSE Fault("slow")
  /\ UNCHANGED <<session, runs, request, response, opened, whole, released, kills>>

\* fopen for writing; when it fails the server notices an error.
CreateResponse ==
  /\ At("server", "create_response") /\ Proceed("server")
  /\ \/ response' = TRUE /\ UNCHANGED faults
     \/ Fault("unanswered") /\ UNCHANGED response
  /\ UNCHANGED <<session, runs, request, opened, whole, handled, released, kills>>

\* Mutant: left-over responses are removed in every round.
AgainCleansUp ==
  /\ At("server", "again") /\ Goto("server", Place("server", "unlink_response"))
  /\ UNCHANGED <<session, runs, files, kills>>
Again ==
  /\ At("server", "again") /\ Goto("server", Place("server", "await_request"))
  /\ UNCHANGED <<session, runs, files, kills>>

\* A process is killed; what it has open is closed unwritten.
Kill(p) ==
  /\ p \in {"client", "server"} /\ Running(p) /\ kills < MaxKills
  /\ Stop(p, Unused, "killed") /\ kills' = kills + 1
  /\ Fault(p)
  /\ opened' = IF p = "server" THEN NoFile ELSE opened
  /\ UNCHANGED <<session, runs, request, response, whole, handled, released>>

ClientStep == CreateRequest \/ WriteRequest \/ AwaitResponse
ServerStep == AwaitRequest \/ ReadRequest \/ CreateResponse \/ Again
CommonStep(p) == SdkCall(p) \/ Return(p) \/ UnlinkRequest(p) \/ UnlinkResponse(p)

Next ==
  \/ \E p \in Name : Launch(p) \/ CommonStep(p) \/ Kill(p)
  \/ ClientStep
  \/ ServerStep

Spec == Init /\ [][Next]_vars

\* A process that is not waiting runs on, and a poll that would succeed is
\* made again and again until it does; nobody has to start a program.
FairSpec ==
  /\ Spec
  /\ \A p \in Name : WF_vars(CommonStep(p))
  /\ WF_vars(ClientStep) /\ WF_vars(ServerStep)

----------------------------------------------------------------------------
\* Whatever calls failed, an example that comes to its end after it started a
\* transaction has freed its memory and closed its socket and its log. Without
\* a transaction some may be left: the log and a socket that is connecting,
\* when the SDK was never initialised and no handler runs (global.c:98), the
\* options of the attempt (transaction.c:126) and the event that could not be
\* recorded (custom_event.c:26). A program that returns early keeps at most
\* the first and its configuration (ex_simple.c:24).
FreedAtExit ==
  \A p \in Name :
    LET s == proc[p].sdk
        open == IF s.atexit THEN {} ELSE {"log", "connection"}
    IN /\ proc[p].end = "done" /\ s.began => s.held = {}
       /\ proc[p].end = "done" => s.held \subseteq open \cup {"options", "event"}
       /\ proc[p].end = "error" => s.held \subseteq open \cup {"config"}

\* "The creation of a response file indicates, that the request file was
\* handled" (ex_distributed_tracing_client.c:3): a client that saw a response
\* had its payload read by the server, also when the server was killed and
\* started again; not when a client was killed, left files behind or took more
\* than a second to write its request (server.c:87).
HandledWhenReleased ==
  faults \cap {"leftover", "slow", "client"} = {} => released \subseteq handled

\* A waiting client is released by a server that serves, whatever clients were
\* killed or left behind before, unless the server is killed or cannot create
\* its response.
Waiting == At("client", "await_response")
Serving == Running("server") /\ proc["server"].at > Place("server", "unlink_response")
ClientReleased ==
  Waiting /\ Serving ~> ~Waiting \/ faults \cap {"server", "unanswered"} # {}
=============================================================================
