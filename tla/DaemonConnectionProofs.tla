----------------------- MODULE DaemonConnectionProofs -----------------------
(***************************************************************************)
(* Proofs about the connection to the daemon, for any number of threads,   *)
(* applications, descriptors and calls: it is of its type, and there is    *)
(* one socket at most. With one thread an answer is always that of the     *)
(* query and a command is written to the daemon only; TLC shows that this  *)
(* is not so with two.                                                     *)
(***************************************************************************)
EXTENDS DaemonConnection, TLAPS

\* A leaf is given to Zenon for a second, to the SMT solver, and to both again.
USE ZenonT(1), SMTT(60), ZenonT(60), SMTT(90)

Command == {"create", "query", "send"}

\* Which calls are where: what TypeOK needs to be inductive.
Shape ==
  \A t \in Thread :
    /\ call[t].op \in Command => call[t].app \in App
    /\ pc[t] \in {"fetch", "lock", "write", "receive", "unlock",
                  "unlock_failed"} => call[t].op \in Command
    /\ pc[t] = "give_up" => call[t].op = "create"

----------------------------------------------------------------------------
\* The facts about sequences that the proofs use.
LEMMA Empty == ASSUME NEW S PROVE <<>> \in Seq(S)
OBVIOUS

\* Appending, and taking the head, keep to the elements' type.
LEMMA SeqFacts ==
  ASSUME NEW S, NEW s \in Seq(S), NEW e \in S
  PROVE  /\ Append(s, e) \in Seq(S)
         /\ s # <<>> => Head(s) \in S /\ Tail(s) \in Seq(S)
OBVIOUS

\* The head and the tail of what is on the way have its type.
LEMMA HeadFacts ==
  ASSUME NEW S, NEW s \in Seq(S), s # <<>>
  PROVE  Head(s) \in S /\ Tail(s) \in Seq(S)
OBVIOUS

\* What connecting does to the connection's variables.
LEMMA ConnectTyped ==
  ASSUME TypeOK, NEW result \in ConnectResult, GetDaemonFdInternal(result)
  PROVE  /\ fd' \in 0..MaxFd
         /\ state' \in {"start", "in_progress", "connected"}
         /\ open' \subseteq Fd
         /\ asked' \in [Fd -> Seq([op : Command, app : App])]
         /\ answers' \in [Fd -> Seq(App)]
<1>t. /\ fd \in 0..MaxFd /\ open \subseteq Fd
      /\ state \in {"start", "in_progress", "connected"}
      /\ asked \in [Fd -> Seq([op : Command, app : App])]
      /\ answers \in [Fd -> Seq(App)]
  BY DEF TypeOK, Command
<1>1. CASE state = "connected"
  BY <1>1, <1>t DEF GetDaemonFdInternal, wireVars
<1>2. CASE state # "connected"
  <2>1. PICK f \in IF fd # 0 THEN {fd} ELSE FreeFd :
          /\ AfterConnect(f, result)
          /\ IF fd # 0 THEN UNCHANGED wireVars
             ELSE /\ asked' = [asked EXCEPT ![f] = <<>>]
                  /\ answers' = [answers EXCEPT ![f] = <<>>]
    BY <1>2 DEF GetDaemonFdInternal
  <2>2. f \in Fd
    BY <2>1, <1>t DEF FreeFd, Fd
  <2>3. f \in 0..MaxFd /\ 0 \in 0..MaxFd
    BY <2>2, ConnectionAssumption DEF Fd
  <2>w. /\ asked' \in [Fd -> Seq([op : Command, app : App])]
        /\ answers' \in [Fd -> Seq(App)]
    <3>1. CASE fd # 0
      BY <2>1, <3>1, <1>t DEF wireVars
    <3>2. CASE fd = 0
      <4>1. /\ asked' = [asked EXCEPT ![f] = <<>>]
            /\ answers' = [answers EXCEPT ![f] = <<>>]
        BY <2>1, <3>2
      <4>2. asked' \in [Fd -> Seq([op : Command, app : App])]
        BY <4>1, <1>t, Empty
      <4>3. answers' \in [Fd -> Seq(App)]
        BY <4>1, <1>t, Empty
      <4> QED BY <4>2, <4>3
    <3> QED BY <3>1, <3>2
  <2>4. CASE result = "failed"
    <3>1. fd' = 0 /\ state' = "start" /\ open' = open \ {f}
      BY <2>1, <2>4 DEF AfterConnect
    <3>2. fd' \in 0..MaxFd /\ open' \subseteq Fd /\ state' = "start"
      BY <3>1, <2>3, <1>t
    <3> QED BY <3>2, <2>w
  <2>5. CASE result \in {"connected", "in_progress"}
    <3>1. fd' = f /\ state' = result /\ open' = open \cup {f}
      BY <2>1, <2>5 DEF AfterConnect
    <3>2. fd' \in 0..MaxFd /\ open' \subseteq Fd
      BY <3>1, <2>2, <2>3, <1>t
    <3> QED BY <3>1, <3>2, <2>5, <2>w
  <2> QED BY <2>4, <2>5 DEF ConnectResult
<1> QED BY <1>1, <1>2

\* Closing keeps them typed.
LEMMA CloseTyped ==
  ASSUME TypeOK, CloseConnection
  PROVE  /\ fd' \in 0..MaxFd
         /\ state' \in {"start", "in_progress", "connected"}
         /\ open' \subseteq Fd
         /\ asked' \in [Fd -> Seq([op : Command, app : App])]
         /\ answers' \in [Fd -> Seq(App)]
<1>1. /\ fd' \in 0..MaxFd /\ open' \subseteq Fd
      /\ state' \in {"start", "in_progress", "connected"}
  BY ConnectionAssumption DEF TypeOK, CloseConnection, Fd
<1>2. asked' \in [Fd -> Seq([op : Command, app : App])]
  BY Empty DEF TypeOK, CloseConnection, Command
<1>3. answers' \in [Fd -> Seq(App)]
  BY Empty DEF TypeOK, CloseConnection
<1> QED BY <1>1, <1>2, <1>3

\* Entering a call keeps the threads' variables typed and shaped.
LEMMA EnterTyped ==
  ASSUME TypeOK, Shape, NEW t \in Thread, NEW c, NEW at, Enter(t, c, at),
         c \in CallRecord,
         at \in {"params", "fetch", "close", "return"},
         c.op \in Command => c.app \in App,
         at = "fetch" => c.op \in Command,
         UNCHANGED <<agentVars, wireVars, fileVars>>
  PROVE  TypeOK' /\ Shape'
<1>1. /\ pc' = [pc EXCEPT ![t] = at] /\ call' = [call EXCEPT ![t] = c]
      /\ calls' \in 0..MaxCalls
  BY ConnectionAssumption DEF Enter, TypeOK
<1>2. TypeOK'
  BY <1>1 DEF TypeOK, agentVars, wireVars, fileVars, Place
<1>3. Shape'
  BY <1>1 DEF TypeOK, Shape
<1> QED BY <1>2, <1>3

\* A thread that is in no call has a record of a call all the same.
LEMMA NoCallTyped ==
  NoCall \in CallRecord
BY ConnectionAssumption DEF NoCall, CallRecord

\* A step that moves a thread and leaves its call.
LEMMA GoTyped ==
  ASSUME TypeOK, Shape, NEW t \in Thread, NEW at, Go(t, at), UNCHANGED call,
         at \in {"connect", "fetch", "lock", "write", "receive", "unlock",
                "unlock_failed", "close", "give_up", "return"},
         at \in {"fetch", "lock", "write", "receive", "unlock",
                "unlock_failed"} => call[t].op \in Command,
         at = "give_up" => call[t].op = "create"
  PROVE  /\ pc' \in [Thread -> Place]
         /\ Shape'
<1>1. pc' = [pc EXCEPT ![t] = at] /\ call' = call
  BY DEF Go
<1>2. pc \in [Thread -> Place]
  BY DEF TypeOK
<1>3. Shape'
  BY <1>1, <1>2 DEF Shape
<1> QED BY <1>1, <1>2, <1>3 DEF Place

\* Every step keeps the types and the shape.
LEMMA TypeStep == TypeOK /\ Shape /\ [Next]_vars => TypeOK' /\ Shape'
<1> SUFFICES ASSUME TypeOK, Shape, [Next]_vars PROVE TypeOK' /\ Shape'
  OBVIOUS
<1>1. ASSUME NEW t \in Thread, NEW addr \in Address, CallInit(t, addr)
      PROVE  TypeOK' /\ Shape'
  <2> DEFINE c == [NoCall EXCEPT !.op = "init", !.addr = addr]
             at == IF applist THEN "return" ELSE "params"
  <2>1. /\ c \in CallRecord
        /\ c.op = "init"
    BY NoCallTyped, ConnectionAssumption DEF NoCall, CallRecord
  <2>2. Enter(t, c, at) /\ UNCHANGED <<agentVars, wireVars, fileVars>>
    BY <1>1 DEF CallInit
  <2>3. at \in {"params", "return"} /\ c.op \notin Command
    BY <2>1 DEF Command
  <2> HIDE DEF c, at
  <2> QED BY <2>1, <2>2, <2>3, EnterTyped
<1>2. ASSUME NEW t \in Thread, NEW a \in App, CallCreate(t, a)
      PROVE  TypeOK' /\ Shape'
  <2> DEFINE c == [NoCall EXCEPT !.op = "create", !.app = a]
             at == IF applist THEN "fetch" ELSE "params"
  <2>1. /\ c \in CallRecord
        /\ c.op = "create" /\ c.app = a
    BY NoCallTyped DEF NoCall, CallRecord
  <2>2. Enter(t, c, at) /\ UNCHANGED <<agentVars, wireVars, fileVars>>
    BY <1>2 DEF CallCreate
  <2>3. at \in {"params", "fetch"} /\ c.op \in Command
    BY <2>1 DEF Command
  <2> HIDE DEF c, at
  <2> QED BY <2>1, <2>2, <2>3, EnterTyped
<1>3. ASSUME NEW t \in Thread, NEW a \in App, CallQuery(t, a) \/ CallSend(t, a)
      PROVE  TypeOK' /\ Shape'
  <2>1. PICK op \in {"query", "send"} :
          /\ Enter(t, [NoCall EXCEPT !.op = op, !.app = a], "fetch")
          /\ UNCHANGED <<agentVars, wireVars, fileVars>>
    BY <1>3 DEF CallQuery, CallSend
  <2> DEFINE c == [NoCall EXCEPT !.op = op, !.app = a]
  <2>2. /\ c \in CallRecord
        /\ c.op = op /\ c.app = a
    BY NoCallTyped DEF NoCall, CallRecord
  <2>3. Enter(t, c, "fetch") /\ c.op \in Command
    BY <2>1, <2>2 DEF Command
  <2> HIDE DEF c
  <2> QED BY <2>1, <2>2, <2>3, EnterTyped
<1>4. ASSUME NEW t \in Thread, CallDestroy(t) PROVE TypeOK' /\ Shape'
  <2> DEFINE c == [NoCall EXCEPT !.op = "destroy"]
  <2>1. /\ c \in CallRecord
        /\ c.op = "destroy"
    BY NoCallTyped DEF NoCall, CallRecord
  <2>2. Enter(t, c, "close") /\ UNCHANGED <<agentVars, wireVars, fileVars>>
    BY <1>4 DEF CallDestroy
  <2>3. c.op \notin Command
    BY <2>1 DEF Command
  <2> HIDE DEF c
  <2> QED BY <2>1, <2>2, <2>3, EnterTyped
<1>5. ASSUME NEW t \in Thread, Return(t) PROVE TypeOK' /\ Shape'
  <2>1. /\ pc' = [pc EXCEPT ![t] = "idle"] /\ call' = [call EXCEPT ![t] = NoCall]
        /\ UNCHANGED <<agentVars, wireVars, fileVars, calls>>
    BY <1>5 DEF Return, Done, Go
  <2>2. TypeOK'
    BY <2>1, NoCallTyped DEF TypeOK, agentVars, wireVars, fileVars, Place
  <2>3. NoCall.op = "none"
    BY DEF NoCall
  <2>4. Shape'
    BY <2>1, <2>3 DEF Shape, TypeOK, Command
  <2> QED BY <2>2, <2>4
<1>6. ASSUME NEW t \in Thread, InitParams(t) PROVE TypeOK' /\ Shape'
  <2>1. PICK at \in {"return", "connect"} : Go(t, at) /\ UNCHANGED call
    BY <1>6 DEF InitParams
  <2>2. mutex' \in Thread \cup {Nil}
    BY <1>6 DEF InitParams, TypeOK
  <2>3. UNCHANGED <<fd, state, applist, open, wireVars, fileVars, calls>>
    BY <1>6 DEF InitParams
  <2> QED BY <2>1, <2>2, <2>3, GoTyped DEF TypeOK, wireVars, fileVars
<1>7. ASSUME NEW t \in Thread, TryConnect(t) PROVE TypeOK' /\ Shape'
  <2>1. PICK result \in ConnectResult :
          /\ GetDaemonFdInternal(result)
          /\ applist' = (applist \/ result = "connected")
          /\ Go(t, IF result = "connected" /\ call[t].op = "create"
                     THEN "fetch" ELSE "return")
    BY <1>7 DEF TryConnect
  <2>2. UNCHANGED <<mutex, fileVars, call, calls>>
    BY <1>7 DEF TryConnect
  <2>3. PICK at \in {"fetch", "return"} :
          Go(t, at) /\ (at = "fetch" => call[t].op \in Command)
    BY <2>1 DEF Command
  <2>4. applist' \in BOOLEAN
    BY <2>1 DEF TypeOK
  <2>5. Shape' /\ pc' \in [Thread -> Place]
    BY <2>2, <2>3, GoTyped
  <2> QED BY <2>1, <2>2, <2>4, <2>5, ConnectTyped DEF TypeOK, fileVars, Command
<1>8. ASSUME NEW t \in Thread, Fetch(t) PROVE TypeOK' /\ Shape'
  <2>1. PICK result \in ConnectResult :
          /\ GetDaemonFdInternal(result)
          /\ IF result = "connected"
               THEN /\ call' = [call EXCEPT ![t].fd = fd']
                    /\ Go(t, "lock")
               ELSE Go(t, Failed(t)) /\ UNCHANGED call
    BY <1>8 DEF Fetch
  <2>2. UNCHANGED <<mutex, applist, fileVars, calls>> /\ pc[t] = "fetch"
    BY <1>8 DEF Fetch
  <2>3. /\ fd' \in 0..MaxFd
        /\ state' \in {"start", "in_progress", "connected"}
        /\ open' \subseteq Fd
        /\ asked' \in [Fd -> Seq([op : Command, app : App])]
        /\ answers' \in [Fd -> Seq(App)]
    BY <2>1, ConnectTyped
  <2>4. CASE result = "connected"
    <3>1. call' = [call EXCEPT ![t].fd = fd'] /\ pc' = [pc EXCEPT ![t] = "lock"]
      BY <2>1, <2>4 DEF Go
    <3>2. call' \in [Thread -> CallRecord]
      BY <3>1, <2>3, ZenonT(60) DEF TypeOK, CallRecord
    <3>3. \A u \in Thread : call'[u].op = call[u].op /\ call'[u].app = call[u].app
      BY <3>1 DEF TypeOK
    <3>4. Shape'
      BY <3>1, <3>3, <2>2 DEF Shape, TypeOK
    <3>5. pc' \in [Thread -> Place]
      BY <3>1 DEF TypeOK, Place
    <3> QED BY <2>2, <2>3, <3>2, <3>4, <3>5 DEF TypeOK, fileVars, Command
  <2>5. CASE result # "connected"
    <3>1. PICK at \in {"give_up", "return"} :
            /\ Go(t, at) /\ UNCHANGED call
            /\ at = "give_up" => call[t].op = "create"
      BY <2>1, <2>5 DEF Failed
    <3>2. Shape' /\ pc' \in [Thread -> Place]
      BY <3>1, GoTyped
    <3> QED BY <2>2, <2>3, <3>1, <3>2 DEF TypeOK, fileVars, Command
  <2> QED BY <2>4, <2>5
<1>9. ASSUME NEW t \in Thread, Lock(t) PROVE TypeOK' /\ Shape'
  <2>1. /\ Go(t, "write") /\ mutex' = t /\ pc[t] = "lock"
        /\ UNCHANGED <<fd, state, applist, open, wireVars, fileVars, call, calls>>
    BY <1>9 DEF Lock
  <2>2. call[t].op \in Command
    BY <2>1 DEF Shape
  <2> QED BY <2>1, <2>2, GoTyped DEF TypeOK, wireVars, fileVars
<1>10. ASSUME NEW t \in Thread, Write(t) PROVE TypeOK' /\ Shape'
  <2> DEFINE f == call[t].fd
  <2>1. /\ pc[t] = "write"
        /\ UNCHANGED <<agentVars, answers, files, call, calls>>
    BY <1>10 DEF Write
  <2>2. call[t].op \in Command /\ call[t].app \in App
    BY <2>1 DEF Shape
  <2>3. PICK at \in {"unlock", "receive", "unlock_failed"} : Go(t, at)
    BY <1>10 DEF Write
  <2>4. Shape' /\ pc' \in [Thread -> Place]
    BY <2>1, <2>2, <2>3, GoTyped
  <2>5. stray' \in BOOLEAN
    BY <1>10 DEF Write, TypeOK
  <2>6. asked' \in [Fd -> Seq([op : Command, app : App])]
    <3>1. asked \in [Fd -> Seq([op : Command, app : App])]
      BY DEF TypeOK, Command
    <3>2. CASE UNCHANGED asked
      BY <3>1, <3>2
    <3>3. CASE /\ f \in open
               /\ asked' = [asked EXCEPT ![f] = Append(@, [op |-> call[t].op,
                                                          app |-> call[t].app])]
      <4>1. f \in Fd
        BY <3>3 DEF TypeOK
      <4>2. [op |-> call[t].op, app |-> call[t].app] \in [op : Command, app : App]
        BY <2>2
      <4> DEFINE e == [op |-> call[t].op, app |-> call[t].app]
      <4>3. e \in [op : Command, app : App]
        BY <4>2
      <4>4. asked' = [asked EXCEPT ![f] = Append(@, e)]
        BY <3>3
      <4> HIDE DEF e, f
      <4>5. Append(asked[f], e) \in Seq([op : Command, app : App])
        BY <4>1, <4>3, <3>1, SeqFacts
      <4> QED BY <4>1, <4>4, <4>5, <3>1
    <3> QED BY <1>10, <3>2, <3>3 DEF Write
  <2> QED BY <2>1, <2>4, <2>5, <2>6 DEF TypeOK, agentVars, Command
<1>11. ASSUME NEW t \in Thread, Receive(t) PROVE TypeOK' /\ Shape'
  <2> DEFINE f == call[t].fd
  <2>1. /\ pc[t] = "receive"
        /\ UNCHANGED <<agentVars, asked, fileVars, calls>>
    BY <1>11 DEF Receive
  <2>2. call[t].op \in Command /\ call[t].app \in App
    BY <2>1 DEF Shape
  <2>3. CASE Go(t, "unlock_failed") /\ UNCHANGED <<call, answers>>
    BY <2>1, <2>2, <2>3, GoTyped DEF TypeOK, agentVars, fileVars
  <2>4. CASE /\ f \in open /\ answers[f] # <<>>
             /\ call' = [call EXCEPT ![t].got = Head(answers[f])]
             /\ answers' = [answers EXCEPT ![f] = Tail(@)]
             /\ Go(t, "unlock")
    <3>1. f \in Fd /\ answers[f] \in Seq(App)
      BY <2>4 DEF TypeOK
    <3> HIDE DEF f
    <3>2. Head(answers[f]) \in App /\ Tail(answers[f]) \in Seq(App)
      BY <3>1, <2>4
    <3>3. answers' \in [Fd -> Seq(App)]
      BY <3>1, <3>2, <2>4 DEF TypeOK
    <3>4. call' \in [Thread -> CallRecord]
      BY <3>2, <2>4, ZenonT(60) DEF TypeOK, CallRecord
    <3>5. \A u \in Thread : call'[u].op = call[u].op /\ call'[u].app = call[u].app
      BY <2>4 DEF TypeOK
    <3>6. pc' = [pc EXCEPT ![t] = "unlock"]
      BY <2>4 DEF Go
    <3>7. Shape'
      BY <3>5, <3>6, <2>2 DEF Shape, TypeOK
    <3>8. pc' \in [Thread -> Place]
      BY <3>6 DEF TypeOK, Place
    <3> QED BY <2>1, <3>3, <3>4, <3>7, <3>8 DEF TypeOK, agentVars, fileVars
  <2> QED BY <1>11, <2>3, <2>4 DEF Receive
<1>12. ASSUME NEW t \in Thread, Unlock(t) PROVE TypeOK' /\ Shape'
  <2>1. /\ mutex' = Nil /\ pc[t] \in {"unlock", "unlock_failed"}
        /\ UNCHANGED <<fd, state, applist, open, wireVars, fileVars, call, calls>>
    BY <1>12 DEF Unlock
  <2>2. PICK at \in {"return", "give_up", "close"} :
          Go(t, at) /\ (at = "give_up" => call[t].op = "create")
    BY <1>12 DEF Unlock, Failed
  <2> QED BY <2>1, <2>2, GoTyped DEF TypeOK, wireVars, fileVars
<1>13. ASSUME NEW t \in Thread, Close(t) \/ GiveUp(t) PROVE TypeOK' /\ Shape'
  <2>1. CloseConnection /\ UNCHANGED <<mutex, applist, fileVars, call, calls>>
    BY <1>13 DEF Close, GiveUp
  <2>2. PICK at \in {"return", "give_up"} :
          Go(t, at) /\ (at = "give_up" => call[t].op = "create")
    BY <1>13 DEF Close, GiveUp, Failed
  <2>3. Shape' /\ pc' \in [Thread -> Place]
    BY <2>1, <2>2, GoTyped
  <2> QED BY <2>1, <2>3, CloseTyped DEF TypeOK, fileVars, Command
<1>14. ASSUME NEW t \in Thread, Retry(t) PROVE TypeOK' /\ Shape'
  <2>1. /\ pc[t] = "give_up" /\ pc' = [pc EXCEPT ![t] = "fetch"]
        /\ call' = [call EXCEPT ![t].fd = 0, ![t].got = Nil]
        /\ UNCHANGED <<agentVars, wireVars, fileVars, calls>>
    BY <1>14 DEF Retry, Go
  <2>2. call' \in [Thread -> CallRecord]
    <3> DEFINE c == [call[t] EXCEPT !.fd = 0, !.got = Nil]
    <3>1. call' = [call EXCEPT ![t] = c]
      BY <2>1 DEF TypeOK
    <3>2. c \in CallRecord
      <4>1. call[t] \in CallRecord
        BY DEF TypeOK
      <4>2. 0 \in 0..MaxFd /\ Nil \in App \cup {Nil}
        BY ConnectionAssumption
      <4> QED BY <4>1, <4>2 DEF CallRecord
    <3> HIDE DEF c
    <3> QED BY <3>1, <3>2 DEF TypeOK
  <2>3. \A u \in Thread : call'[u].op = call[u].op /\ call'[u].app = call[u].app
    BY <2>1 DEF TypeOK
  <2>4. Shape'
    BY <2>1, <2>3 DEF Shape, TypeOK, Command
  <2> QED BY <2>1, <2>2, <2>4 DEF TypeOK, agentVars, wireVars, fileVars, Place
<1>15. ASSUME AppOpens \/ AppCloses PROVE TypeOK' /\ Shape'
  <2>1. files' \subseteq Fd
    BY <1>15 DEF AppOpens, AppCloses, FreeFd, TypeOK
  <2>2. UNCHANGED <<agentVars, wireVars, stray, pc, call, calls>>
    BY <1>15 DEF AppOpens, AppCloses
  <2> QED BY <2>1, <2>2 DEF TypeOK, Shape, agentVars, wireVars
<1>16. ASSUME NEW f \in Fd, DaemonAnswers(f) PROVE TypeOK' /\ Shape'
  <2>1. /\ asked[f] # <<>> /\ asked' = [asked EXCEPT ![f] = Tail(@)]
        /\ answers' = IF Head(asked[f]).op = "send" THEN answers
                      ELSE [answers EXCEPT ![f] = Append(@, Head(asked[f]).app)]
        /\ UNCHANGED <<agentVars, fileVars, pc, call, calls>>
    BY <1>16 DEF DaemonAnswers
  <2>2. asked[f] \in Seq([op : Command, app : App]) /\ answers[f] \in Seq(App)
    BY DEF TypeOK, Command
  <2>3. /\ Head(asked[f]) \in [op : Command, app : App]
        /\ Tail(asked[f]) \in Seq([op : Command, app : App])
    BY <2>1, <2>2, HeadFacts
  <2>4. asked' \in [Fd -> Seq([op : Command, app : App])]
    BY <2>1, <2>3 DEF TypeOK, Command
  <2>5. Append(answers[f], Head(asked[f]).app) \in Seq(App)
    BY <2>2, <2>3
  <2>6. answers' \in [Fd -> Seq(App)]
    BY <2>1, <2>5 DEF TypeOK
  <2> QED BY <2>1, <2>4, <2>6 DEF TypeOK, Shape, agentVars, fileVars, Command
<1>17. CASE UNCHANGED vars
  BY <1>17 DEF TypeOK, Shape, vars, agentVars, wireVars, fileVars
<1> QED
  BY <1>1, <1>2, <1>3, <1>4, <1>5, <1>6, <1>7, <1>8, <1>9, <1>10, <1>11, <1>12,
     <1>13, <1>14, <1>15, <1>16, <1>17 DEF Next, Step

\* The calls are where their commands may be.
LEMMA ShapeKept == Spec => [](TypeOK /\ Shape)
<1>1. Init => TypeOK /\ Shape
  <2> SUFFICES ASSUME Init PROVE TypeOK /\ Shape
    OBVIOUS
  <2>1. /\ asked \in [Fd -> Seq([op : Command, app : App])]
        /\ answers \in [Fd -> Seq(App)]
    BY Empty DEF Init
  <2>2. \A t \in Thread : call[t].op = "none"
    BY DEF Init, NoCall
  <2>3. TypeOK
    <3>1. call \in [Thread -> CallRecord]
      BY NoCallTyped DEF Init
    <3>2. 0 \in 0..MaxFd /\ 0 \in 0..MaxCalls
      BY ConnectionAssumption
    <3> QED BY <2>1, <3>1, <3>2 DEF Init, TypeOK, Command, Place
  <2>4. Shape
    BY <2>2 DEF Init, Shape, Command
  <2> QED BY <2>3, <2>4
<1> QED BY <1>1, TypeStep, PTL DEF Spec

\* The variables of nr_agent.c and of the calls under way have their types,
\* for any number of threads, applications, descriptors and calls.
THEOREM TypeCorrect == Spec => []TypeOK
BY ShapeKept, PTL

----------------------------------------------------------------------------
\* The socket of the connection is not one of the application's files.
Apart == open \cap files = {}

\* Connecting keeps the connection one.
LEMMA ConnectOne ==
  ASSUME TypeOK, OneConnection, Apart, NEW result \in ConnectResult,
         GetDaemonFdInternal(result), UNCHANGED files
  PROVE  OneConnection' /\ Apart'
<1>1. CASE state = "connected"
  BY <1>1 DEF GetDaemonFdInternal, OneConnection, Apart
<1>2. CASE state # "connected"
  <2>1. PICK f \in IF fd # 0 THEN {fd} ELSE FreeFd : AfterConnect(f, result)
    BY <1>2 DEF GetDaemonFdInternal
  <2>2. f \in Fd /\ f \notin files /\ f # 0 /\ open \subseteq {f}
    BY <2>1, ConnectionAssumption DEF TypeOK, FreeFd, Fd, OneConnection, Apart
  <2>3. CASE result = "failed"
    <3>1. fd' = 0 /\ state' = "start" /\ open' = open \ {f}
      BY <2>1, <2>3 DEF AfterConnect
    <3> QED BY <3>1, <2>2 DEF OneConnection, Apart
  <2>4. CASE result \in {"connected", "in_progress"}
    <3>1. fd' = f /\ state' = result /\ open' = open \cup {f}
      BY <2>1, <2>4 DEF AfterConnect
    <3> QED BY <3>1, <2>2, <2>4 DEF OneConnection, Apart
  <2> QED BY <2>3, <2>4 DEF ConnectResult
<1> QED BY <1>1, <1>2

\* Every step keeps the connection one.
LEMMA OneStep ==
  TypeOK /\ OneConnection /\ Apart /\ [Next]_vars => OneConnection' /\ Apart'
<1> SUFFICES ASSUME TypeOK, OneConnection, Apart, [Next]_vars
             PROVE  OneConnection' /\ Apart'
  OBVIOUS
<1>1. CASE UNCHANGED <<fd, state, open, files>>
  BY <1>1 DEF OneConnection, Apart
<1>2. ASSUME NEW t \in Thread, TryConnect(t) \/ Fetch(t)
      PROVE  OneConnection' /\ Apart'
  BY <1>2, ConnectOne DEF TryConnect, Fetch, fileVars
<1>3. ASSUME NEW t \in Thread, Close(t) \/ GiveUp(t)
      PROVE  OneConnection' /\ Apart'
  <2>1. /\ open' = open \ {fd} /\ fd' = 0 /\ state' = "start"
        /\ UNCHANGED files
    BY <1>3 DEF Close, GiveUp, CloseConnection, fileVars
  <2> QED BY <2>1 DEF OneConnection, Apart
<1>4. CASE AppOpens \/ AppCloses
  <2>1. UNCHANGED <<fd, state, open>>
    BY <1>4 DEF AppOpens, AppCloses, agentVars
  <2>2. open \cap files' = {}
    BY <1>4 DEF AppOpens, AppCloses, FreeFd, Apart
  <2> QED BY <2>1, <2>2 DEF OneConnection, Apart
<1>5. ASSUME NEW t \in Thread,
             \/ \E addr \in Address : CallInit(t, addr)
             \/ \E a \in App :
                  CallCreate(t, a) \/ CallQuery(t, a) \/ CallSend(t, a)
             \/ CallDestroy(t) \/ Return(t) \/ InitParams(t) \/ Lock(t)
             \/ Write(t) \/ Receive(t) \/ Unlock(t) \/ Retry(t)
      PROVE  UNCHANGED <<fd, state, open, files>>
  BY <1>5 DEF CallInit, CallCreate, CallQuery, CallSend, CallDestroy, Return,
     InitParams, Lock, Write, Receive, Unlock, Retry, agentVars, fileVars
<1>6. ASSUME NEW f \in Fd, DaemonAnswers(f)
      PROVE  UNCHANGED <<fd, state, open, files>>
  BY <1>6 DEF DaemonAnswers, agentVars, fileVars
<1>7. CASE UNCHANGED vars
  BY <1>1, <1>7 DEF vars, agentVars, fileVars
<1> QED BY <1>1, <1>2, <1>3, <1>4, <1>5, <1>6, <1>7 DEF Next, Step

\* The descriptor and the state of the connection agree and its socket is the
\* only one: connecting again after a failure, closing by other threads and
\* retrying lose no descriptor (nr_get_daemon_fd_internal, nr_set_daemon_fd).
THEOREM AlwaysOne == Spec => [](OneConnection /\ Apart)
<1>1. Init => OneConnection /\ Apart
  BY DEF Init, OneConnection, Apart
<1> QED BY <1>1, OneStep, TypeCorrect, PTL DEF Spec

----------------------------------------------------------------------------
\* With one thread, what is under way on the connection is settled whenever
\* the thread is not waiting for an answer.

\* Nothing in s is answered.
Sends(s) == \A i \in 1..Len(s) : s[i].op = "send"

\* The last command of s, and only that, is answered, for a.
LastAsks(s, a) ==
  /\ Len(s) > 0 /\ s[Len(s)].op # "send" /\ s[Len(s)].app = a
  /\ \A i \in 1..(Len(s) - 1) : s[i].op = "send"

Settled == fd # 0 => answers[fd] = <<>> /\ Sends(asked[fd])

ExchangeOf(t) ==
  /\ call[t].got # Nil => call[t].got = call[t].app
  /\ pc[t] \in {"lock", "write", "receive"} => call[t].fd = fd /\ fd # 0
  /\ pc[t] = "receive" =>
       \/ answers[fd] = <<call[t].app>> /\ Sends(asked[fd])
       \/ answers[fd] = <<>> /\ LastAsks(asked[fd], call[t].app)
  /\ pc[t] \notin {"receive", "unlock_failed", "close"} => Settled

Exchange == ~stray /\ \A t \in Thread : ExchangeOf(t)

\* What a command appended to unanswered ones, and reading one, do.
LEMMA SendsFacts ==
  ASSUME NEW S, NEW s \in Seq(S), NEW e \in S, Sends(s)
  PROVE  /\ e.op = "send" => Sends(Append(s, e))
         /\ e.op # "send" => LastAsks(Append(s, e), e.app)
         /\ s # <<>> => Head(s).op = "send" /\ Sends(Tail(s))
<1>1. /\ Len(Append(s, e)) = Len(s) + 1 /\ Len(s) \in Nat
      /\ \A i \in 1..Len(s) : Append(s, e)[i] = s[i]
      /\ Append(s, e)[Len(s) + 1] = e
  OBVIOUS
<1>2. e.op = "send" => Sends(Append(s, e))
  BY <1>1 DEF Sends
<1>3. e.op # "send" => LastAsks(Append(s, e), e.app)
  BY <1>1 DEF Sends, LastAsks
<1>4. ASSUME s # <<>> PROVE Head(s).op = "send" /\ Sends(Tail(s))
  <2>1. /\ Len(s) \in Nat \ {0} /\ Head(s) = s[1]
        /\ Len(Tail(s)) = Len(s) - 1
        /\ \A i \in 1..Len(Tail(s)) : Tail(s)[i] = s[i + 1]
    BY <1>4
  <2> QED BY <2>1 DEF Sends
<1> QED BY <1>2, <1>3, <1>4

\* What reading a command does when only the last is answered.
LEMMA LastAsksFacts ==
  ASSUME NEW S, NEW s \in Seq(S), NEW a, LastAsks(s, a)
  PROVE  /\ s # <<>>
         /\ Head(s).op = "send" => LastAsks(Tail(s), a)
         /\ Head(s).op # "send" => Head(s).app = a /\ Sends(Tail(s))
<1>1. /\ Len(s) \in Nat \ {0} /\ s # <<>> /\ Head(s) = s[1]
      /\ Len(Tail(s)) = Len(s) - 1
      /\ \A i \in 1..Len(Tail(s)) : Tail(s)[i] = s[i + 1]
  BY DEF LastAsks
<1>2. ASSUME Head(s).op = "send" PROVE LastAsks(Tail(s), a)
  <2>1. Len(s) > 1
    BY <1>1, <1>2 DEF LastAsks
  <2>2. Tail(s)[Len(Tail(s))] = s[Len(s)]
    BY <1>1, <2>1
  <2>3. \A i \in 1..(Len(Tail(s)) - 1) : Tail(s)[i].op = "send"
    BY <1>1, <2>1 DEF LastAsks
  <2> QED BY <1>1, <2>1, <2>2, <2>3 DEF LastAsks
<1>3. ASSUME Head(s).op # "send" PROVE Head(s).app = a /\ Sends(Tail(s))
  <2>1. Len(s) = 1
    BY <1>1, <1>3 DEF LastAsks
  <2>2. Head(s).app = a
    BY <1>1, <2>1 DEF LastAsks
  <2>3. Len(Tail(s)) = 0
    BY <1>1, <2>1
  <2>4. Sends(Tail(s))
    BY <2>3 DEF Sends
  <2> QED BY <2>2, <2>4
<1> QED BY <1>1, <1>2, <1>3

\* An answer alone on its way.
LEMMA OneAnswer ==
  ASSUME NEW S, NEW a \in S
  PROVE  /\ Append(<<>>, a) = <<a>> /\ Head(<<a>>) = a
         /\ Tail(<<a>>) = <<>> /\ <<a>> # <<>>
OBVIOUS

\* Connecting leaves the connection settled.
LEMMA ConnectSettled ==
  ASSUME TypeOK, Settled, NEW result \in ConnectResult,
         GetDaemonFdInternal(result)
  PROVE  Settled' /\ (result = "connected" /\ OneConnection => fd' # 0)
<1>t. /\ fd \in 0..MaxFd
      /\ asked \in [Fd -> Seq([op : Command, app : App])]
      /\ answers \in [Fd -> Seq(App)]
  BY DEF TypeOK, Command
<1>1. CASE state = "connected"
  <2>1. UNCHANGED <<fd, asked, answers>>
    BY <1>1 DEF GetDaemonFdInternal, wireVars
  <2> QED BY <1>1, <2>1 DEF Settled, OneConnection
<1>2. CASE state # "connected"
  <2>1. PICK f \in IF fd # 0 THEN {fd} ELSE FreeFd :
          /\ AfterConnect(f, result)
          /\ IF fd # 0 THEN UNCHANGED wireVars
             ELSE /\ asked' = [asked EXCEPT ![f] = <<>>]
                  /\ answers' = [answers EXCEPT ![f] = <<>>]
    BY <1>2 DEF GetDaemonFdInternal
  <2>2. f \in Fd /\ f # 0
    BY <2>1, <1>t DEF FreeFd, Fd
  <2>3. fd' \in {0, f} /\ (result = "connected" => fd' = f)
    BY <2>1 DEF AfterConnect
  <2>4. CASE fd # 0
    <3>1. f = fd /\ UNCHANGED <<asked, answers>>
      BY <2>1, <2>4 DEF wireVars
    <3> QED BY <3>1, <2>2, <2>3, <2>4 DEF Settled
  <2>5. CASE fd = 0
    <3>1. asked'[f] = <<>> /\ answers'[f] = <<>>
      BY <2>1, <2>2, <2>5, <1>t
    <3>2. Sends(asked'[f])
      BY <3>1 DEF Sends
    <3> QED BY <3>1, <3>2, <2>2, <2>3 DEF Settled
  <2> QED BY <2>4, <2>5
<1> QED BY <1>1, <1>2

\* A step of the only thread.
LEMMA ExchangeStep ==
  ASSUME NEW t \in Thread, TypeOK, Shape, OneConnection, Apart, ~stray,
         ExchangeOf(t),
         \/ \E addr \in Address : CallInit(t, addr)
         \/ \E a \in App :
              CallCreate(t, a) \/ CallQuery(t, a) \/ CallSend(t, a)
         \/ CallDestroy(t)
         \/ Step(t)
  PROVE  ~stray' /\ ExchangeOf(t)'
<1>t. /\ fd \in 0..MaxFd /\ pc \in [Thread -> Place]
      /\ call \in [Thread -> CallRecord]
      /\ asked \in [Fd -> Seq([op : Command, app : App])]
      /\ answers \in [Fd -> Seq(App)]
  BY DEF TypeOK, Command
<1>g. ASSUME NEW at, Go(t, at) PROVE pc'[t] = at
  BY <1>g, <1>t DEF Go
<1>w. ASSUME UNCHANGED <<fd, asked, answers>> PROVE Settled' <=> Settled
  BY <1>w DEF Settled
<1>1. ASSUME NEW c, NEW at \in {"params", "return", "fetch", "close"},
             Enter(t, c, at), c.got = Nil,
             UNCHANGED <<agentVars, wireVars, fileVars>>
      PROVE  ~stray' /\ ExchangeOf(t)'
  <2>1. pc[t] = "idle" /\ pc'[t] = at /\ call'[t] = c
    BY <1>1, <1>t DEF Enter
  <2>2. UNCHANGED <<fd, asked, answers, stray>>
    BY <1>1 DEF agentVars, wireVars, fileVars
  <2>3. Settled'
    BY <2>1, <2>2, <1>w DEF ExchangeOf
  <2> QED BY <1>1, <2>1, <2>2, <2>3 DEF ExchangeOf
<1>2. CASE \/ \E addr \in Address : CallInit(t, addr)
           \/ \E a \in App :
                CallCreate(t, a) \/ CallQuery(t, a) \/ CallSend(t, a)
           \/ CallDestroy(t)
  BY <1>2, <1>1 DEF CallInit, CallCreate, CallQuery, CallSend, CallDestroy,
     NoCall
\* The steps that leave the connection and the call as they are.
<1>3. ASSUME NEW at \in Place \ {"receive", "write"}, Go(t, at),
             UNCHANGED <<fd, asked, answers, stray, call>>,
             at = "lock" => call[t].fd = fd /\ fd # 0,
             \/ at \in {"unlock_failed", "close"}
             \/ pc[t] \notin {"receive", "unlock_failed", "close"}
      PROVE  ~stray' /\ ExchangeOf(t)'
  BY <1>3, <1>g, <1>w DEF ExchangeOf
<1>4. CASE Return(t)
  <2>1. pc[t] = "return" /\ pc'[t] = "idle" /\ call'[t] = NoCall
    BY <1>4, <1>t DEF Return, Done, Go
  <2>2. UNCHANGED <<fd, asked, answers, stray>>
    BY <1>4 DEF Return, agentVars, wireVars, fileVars
  <2>3. Settled'
    BY <2>1, <2>2, <1>w DEF ExchangeOf
  <2> QED BY <2>1, <2>2, <2>3 DEF ExchangeOf, NoCall
<1>5. CASE InitParams(t)
  <2>1. /\ pc[t] = "params" /\ UNCHANGED <<fd, asked, answers, stray, call>>
        /\ Go(t, "return") \/ Go(t, "connect")
    BY <1>5 DEF InitParams, wireVars, fileVars
  <2> QED BY <2>1, <1>3 DEF Place
<1>6. CASE TryConnect(t)
  <2>1. PICK result \in ConnectResult :
          /\ GetDaemonFdInternal(result)
          /\ Go(t, IF result = "connected" /\ call[t].op = "create"
                     THEN "fetch" ELSE "return")
    BY <1>6 DEF TryConnect
  <2>2. pc[t] = "connect" /\ UNCHANGED <<stray, call>>
    BY <1>6 DEF TryConnect, fileVars
  <2>3. Settled /\ pc'[t] \in {"fetch", "return"}
    BY <2>1, <2>2, <1>g DEF ExchangeOf
  <2>4. Settled'
    BY <2>1, <2>3, ConnectSettled
  <2> QED BY <2>2, <2>3, <2>4 DEF ExchangeOf
<1>7. CASE Fetch(t)
  <2>1. PICK result \in ConnectResult :
          /\ GetDaemonFdInternal(result)
          /\ IF result = "connected"
               THEN call' = [call EXCEPT ![t].fd = fd'] /\ Go(t, "lock")
               ELSE Go(t, Failed(t)) /\ UNCHANGED call
    BY <1>7 DEF Fetch
  <2>2. pc[t] = "fetch" /\ UNCHANGED stray
    BY <1>7 DEF Fetch, fileVars
  <2>3. Settled
    BY <2>2 DEF ExchangeOf
  <2>4. Settled' /\ (result = "connected" => fd' # 0)
    BY <2>1, <2>3, ConnectSettled
  <2>5. CASE result = "connected"
    <3>1. pc'[t] = "lock" /\ call'[t] = [call[t] EXCEPT !.fd = fd']
      BY <2>1, <2>5, <1>g, <1>t
    <3>2. /\ call'[t].fd = fd' /\ call'[t].got = call[t].got
          /\ call'[t].app = call[t].app
      BY <3>1, <1>t DEF CallRecord
    <3> QED BY <3>1, <3>2, <2>2, <2>4, <2>5 DEF ExchangeOf
  <2>6. CASE result # "connected"
    <3>1. pc'[t] \in {"give_up", "return"} /\ UNCHANGED call
      BY <2>1, <2>6, <1>g DEF Failed
    <3> QED BY <3>1, <2>2, <2>4 DEF ExchangeOf
  <2> QED BY <2>5, <2>6
<1>8. CASE Lock(t)
  <2>1. /\ pc[t] = "lock" /\ UNCHANGED <<fd, asked, answers, stray, call>>
        /\ Go(t, "write")
    BY <1>8 DEF Lock, wireVars, fileVars
  <2> QED BY <2>1, <1>g, <1>w DEF ExchangeOf
<1>9. CASE Write(t)
  <2>1. /\ pc[t] = "write" /\ call[t].fd = fd /\ fd # 0 /\ Settled
        /\ call[t].op \in Command /\ call[t].app \in App
        /\ UNCHANGED <<fd, answers, call>>
    BY <1>9 DEF Write, agentVars, ExchangeOf, Shape
  <2>2. fd \in Fd /\ fd \notin files
    BY <2>1, <1>t DEF OneConnection, Apart, Fd
  <2>3. CASE Go(t, "unlock_failed") /\ UNCHANGED <<asked, stray>>
    BY <2>1, <2>3, <1>3 DEF Place
  <2>4. CASE /\ asked' = [asked EXCEPT ![fd] =
                            Append(@, [op |-> call[t].op, app |-> call[t].app])]
             /\ Go(t, IF call[t].op = "send" THEN "unlock" ELSE "receive")
             /\ UNCHANGED stray
    <3> DEFINE e == [op |-> call[t].op, app |-> call[t].app]
    <3>1. e \in [op : Command, app : App] /\ asked'[fd] = Append(asked[fd], e)
      BY <2>1, <2>2, <2>4, <1>t
    <3>2. e.op = call[t].op /\ e.app = call[t].app
      OBVIOUS
    <3>3. /\ asked[fd] \in Seq([op : Command, app : App]) /\ Sends(asked[fd])
          /\ answers[fd] = <<>>
      BY <2>1, <2>2, <1>t DEF Settled
    <3> HIDE DEF e
    <3>4. /\ e.op = "send" => Sends(asked'[fd])
          /\ e.op # "send" => LastAsks(asked'[fd], e.app)
      <4>1. /\ e.op = "send" => Sends(Append(asked[fd], e))
            /\ e.op # "send" => LastAsks(Append(asked[fd], e), e.app)
        BY <3>1, <3>3, SendsFacts
      <4> QED BY <3>1, <4>1
    <3>5. CASE call[t].op = "send"
      <4>1. pc'[t] = "unlock"
        BY <3>5, <2>4, <1>g
      <4>2. Settled'
        BY <2>1, <3>2, <3>3, <3>4, <3>5 DEF Settled
      <4> QED BY <2>1, <2>4, <4>1, <4>2 DEF ExchangeOf
    <3>6. CASE call[t].op # "send"
      <4>1. pc'[t] = "receive"
        BY <3>6, <2>4, <1>g
      <4> QED BY <2>1, <2>4, <3>2, <3>3, <3>4, <3>6, <4>1 DEF ExchangeOf
    <3> QED BY <3>5, <3>6
  <2> QED BY <1>9, <2>1, <2>2, <2>3, <2>4 DEF Write
<1>10. CASE Receive(t)
  <2>1. /\ pc[t] = "receive" /\ call[t].fd = fd /\ fd # 0
        /\ call[t].app \in App /\ UNCHANGED <<fd, asked, stray>>
    BY <1>10 DEF Receive, agentVars, fileVars, ExchangeOf, Shape
  <2>2. fd \in Fd
    BY <2>1, <1>t DEF Fd
  <2>3. CASE Go(t, "unlock_failed") /\ UNCHANGED <<call, answers>>
    BY <2>1, <2>3, <1>3 DEF Place
  <2>4. CASE /\ answers[fd] # <<>>
             /\ call' = [call EXCEPT ![t].got = Head(answers[fd])]
             /\ answers' = [answers EXCEPT ![fd] = Tail(@)]
             /\ Go(t, "unlock")
    <3>1. answers[fd] = <<call[t].app>> /\ Sends(asked[fd])
      BY <2>1, <2>4 DEF ExchangeOf
    <3>2. /\ answers'[fd] = Tail(answers[fd]) /\ pc'[t] = "unlock"
          /\ call'[t] = [call[t] EXCEPT !.got = Head(answers[fd])]
      BY <2>2, <2>4, <1>t, <1>g
    <3>3. call'[t].got = Head(answers[fd]) /\ call'[t].app = call[t].app
      BY <3>2, <1>t DEF CallRecord
    <3>4. Head(answers[fd]) = call[t].app /\ answers'[fd] = <<>>
      BY <2>1, <3>1, <3>2, OneAnswer
    <3>5. Settled'
      BY <2>1, <3>1, <3>4 DEF Settled
    <3> QED BY <2>1, <3>2, <3>3, <3>4, <3>5 DEF ExchangeOf
  <2> QED BY <1>10, <2>1, <2>3, <2>4 DEF Receive
<1>11. CASE Unlock(t)
  <2>1. /\ pc[t] \in {"unlock", "unlock_failed"}
        /\ UNCHANGED <<fd, asked, answers, stray, call>>
    BY <1>11 DEF Unlock, wireVars, fileVars
  <2>2. CASE pc[t] = "unlock"
    <3>1. PICK at \in {"return", "give_up"} : Go(t, at)
      BY <1>11, <2>2 DEF Unlock, Failed
    <3> QED BY <2>1, <2>2, <3>1, <1>3 DEF Place
  <2>3. CASE pc[t] = "unlock_failed"
    <3>1. Go(t, "close")
      BY <1>11, <2>3 DEF Unlock
    <3> QED BY <2>1, <3>1, <1>3 DEF Place
  <2> QED BY <2>1, <2>2, <2>3
<1>12. CASE Close(t) \/ GiveUp(t)
  <2>1. /\ fd' = 0 /\ UNCHANGED <<stray, call>>
        /\ \E at \in {"return", "give_up"} : Go(t, at)
    BY <1>12 DEF Close, GiveUp, CloseConnection, Failed, fileVars
  <2>2. pc'[t] \in {"return", "give_up"} /\ Settled'
    BY <2>1, <1>g DEF Settled
  <2> QED BY <2>1, <2>2 DEF ExchangeOf
<1>13. CASE Retry(t)
  <2>1. /\ pc[t] = "give_up" /\ pc'[t] = "fetch"
        /\ UNCHANGED <<fd, asked, answers, stray>>
    BY <1>13, <1>g DEF Retry, agentVars, wireVars, fileVars
  <2>2. call'[t].got = Nil
    BY <1>13, <1>t DEF Retry, CallRecord
  <2>3. Settled'
    BY <2>1, <1>w DEF ExchangeOf
  <2> QED BY <2>1, <2>2, <2>3 DEF ExchangeOf
<1> QED BY <1>2, <1>4, <1>5, <1>6, <1>7, <1>8, <1>9, <1>10, <1>11, <1>12,
           <1>13 DEF Step

\* A step of the daemon.
LEMMA DaemonStep ==
  ASSUME NEW t \in Thread, NEW f \in Fd, TypeOK, Shape, OneConnection,
         ExchangeOf(t), DaemonAnswers(f)
  PROVE  ExchangeOf(t)'
<1>t. /\ asked \in [Fd -> Seq([op : Command, app : App])]
      /\ answers \in [Fd -> Seq(App)]
  BY DEF TypeOK, Command
<1>1. /\ f = fd /\ fd # 0 /\ asked[fd] # <<>> /\ UNCHANGED <<fd, pc, call>>
      /\ asked[fd] \in Seq([op : Command, app : App])
      /\ asked'[fd] = Tail(asked[fd])
  BY <1>t DEF DaemonAnswers, agentVars, OneConnection
<1>2. CASE Head(asked[fd]).op = "send"
  <2>1. answers' = answers
    BY <1>1, <1>2 DEF DaemonAnswers
  <2>2. Sends(asked[fd]) => Sends(asked'[fd])
    <3>1. Head(asked[fd]) \in [op : Command, app : App]
      BY <1>1, HeadFacts
    <3> QED BY <1>1, <3>1, SendsFacts
  <2>3. ASSUME NEW a, LastAsks(asked[fd], a) PROVE LastAsks(asked'[fd], a)
    BY <1>1, <1>2, <2>3, LastAsksFacts
  <2>4. Settled => Settled'
    BY <1>1, <2>1, <2>2 DEF Settled
  <2> QED BY <1>1, <2>1, <2>2, <2>3, <2>4 DEF ExchangeOf
<1>3. CASE Head(asked[fd]).op # "send"
  <2>1. answers'[fd] = Append(answers[fd], Head(asked[fd]).app)
    BY <1>1, <1>3, <1>t DEF DaemonAnswers
  <2>2. ~Sends(asked[fd])
    <3>1. Head(asked[fd]) \in [op : Command, app : App]
      BY <1>1, HeadFacts
    <3> QED BY <1>1, <1>3, <3>1, SendsFacts
  <2>3. pc[t] \in {"receive", "unlock_failed", "close"}
    BY <1>1, <2>2 DEF ExchangeOf, Settled
  <2>4. ASSUME pc[t] = "receive"
        PROVE  answers'[fd] = <<call[t].app>> /\ Sends(asked'[fd])
    <3>1. answers[fd] = <<>> /\ LastAsks(asked[fd], call[t].app)
      BY <2>2, <2>4 DEF ExchangeOf
    <3>2. Head(asked[fd]).app = call[t].app /\ Sends(asked'[fd])
      BY <1>1, <1>3, <3>1, LastAsksFacts
    <3> QED BY <2>1, <3>1, <3>2, OneAnswer
  <2> QED BY <1>1, <2>3, <2>4 DEF ExchangeOf
<1> QED BY <1>2, <1>3

\* In a program with one thread, an answer is that of the query that waits
\* for it and no command is written to a file of the program: what failed is
\* closed before the thread can ask again (nr_cmd_appinfo_tx closes the
\* connection before it returns), so nothing late is left on a connection.
THEOREM SingleThread ==
  ASSUME \A t, u \in Thread : t = u
  PROVE  Spec => [](AnswersMatch /\ NoStrayWrite)
<1>1. Init => Exchange
  BY DEF Init, Exchange, ExchangeOf, Settled, NoCall
<1>2. TypeOK /\ Shape /\ OneConnection /\ Apart /\ Exchange /\ [Next]_vars
        => Exchange'
  <2> SUFFICES ASSUME TypeOK, Shape, OneConnection, Apart, Exchange,
                      [Next]_vars
               PROVE  Exchange'
    OBVIOUS
  <2>1. ASSUME NEW t \in Thread,
               \/ \E addr \in Address : CallInit(t, addr)
               \/ \E a \in App :
                    CallCreate(t, a) \/ CallQuery(t, a) \/ CallSend(t, a)
               \/ CallDestroy(t)
               \/ Step(t)
        PROVE  Exchange'
    <3>1. ~stray' /\ ExchangeOf(t)'
      BY <2>1, ExchangeStep DEF Exchange
    <3> QED BY <3>1 DEF Exchange
  <2>2. ASSUME NEW f \in Fd, DaemonAnswers(f) PROVE Exchange'
    BY <2>2, DaemonStep DEF Exchange, DaemonAnswers, fileVars
  <2>3. CASE AppOpens \/ AppCloses \/ UNCHANGED vars
    <3>1. UNCHANGED <<fd, asked, answers, stray, pc, call>>
      BY <2>3 DEF AppOpens, AppCloses, vars, agentVars, wireVars, fileVars
    <3> QED BY <3>1 DEF Exchange, ExchangeOf, Settled
  <2> QED BY <2>1, <2>2, <2>3 DEF Next
<1>3. Exchange => AnswersMatch /\ NoStrayWrite
  BY DEF Exchange, ExchangeOf, AnswersMatch, NoStrayWrite
<1> QED BY <1>1, <1>2, <1>3, ShapeKept, AlwaysOne, PTL DEF Spec

----------------------------------------------------------------------------
\* With several threads, an exchange is still under the mutex from its write to
\* its answer. What breaks it is a thread that stops waiting: the answer comes
\* late, and the connection is closed only after the mutex was released.

\* No thread gives up an exchange that waits for its answer.
NoneGivesUp ==
  \A t \in Thread : pc[t] = "receive" => pc'[t] # "unlock_failed"

\* Where a thread is between taking the mutex for an exchange and releasing it.
Held == {"write", "receive", "unlock", "unlock_failed"}

\* The thread waits for an answer on the connection of now.
Waits(t) == pc[t] = "receive" /\ call[t].fd = fd /\ fd # 0

Turn(t) ==
  /\ call[t].got # Nil => call[t].got = call[t].app
  /\ pc[t] \in Held => mutex = t
  /\ Waits(t) =>
       \/ answers[fd] = <<call[t].app>> /\ Sends(asked[fd])
       \/ answers[fd] = <<>> /\ LastAsks(asked[fd], call[t].app)

\* The inductive invariant: unless the holder of the mutex waits on it, nothing
\* on the connection will be answered.
Turns ==
  /\ \A t \in Thread : Turn(t)
  /\ (\A t \in Thread : ~Waits(t)) => Settled

\* The other threads are where they were.
Others(t) == \A u \in Thread \ {t} : pc'[u] = pc[u] /\ call'[u] = call[u]

\* A step of a thread that leaves the connection alone and waits neither before
\* nor after it.
LEMMA QuietTurn ==
  ASSUME NEW t \in Thread, Turns, Others(t), UNCHANGED <<fd, asked, answers>>,
         pc[t] # "receive", pc'[t] # "receive",
         call'[t].got # Nil => call'[t].got = call'[t].app,
         pc'[t] \in Held => mutex' = t,
         \A u \in Thread \ {t} : pc[u] \in Held => mutex' = u
  PROVE  Turns'
<1>1. \A u \in Thread : Waits(u)' <=> Waits(u)
  BY DEF Others, Waits
<1>2. ASSUME NEW u \in Thread \ {t} PROVE Turn(u)'
  BY <1>1 DEF Turns, Turn, Others, Held
<1>3. Turn(t)'
  BY DEF Turn, Waits, Held
<1>4. Settled' <=> Settled
  BY DEF Settled
<1> QED BY <1>1, <1>2, <1>3, <1>4 DEF Turns

\* A step that finds the mutex free and leaves the connection settled.
LEMMA FreshTurn ==
  ASSUME NEW t \in Thread, Turns, Others(t), mutex = Nil, UNCHANGED mutex,
         pc'[t] \notin Held, call'[t].got # Nil => call'[t].got = call'[t].app,
         Settled => Settled'
  PROVE  Turns'
<1>1. \A u \in Thread : pc[u] \notin Held
  BY ConnectionAssumption DEF Turns, Turn, Held
<1>2. \A u \in Thread : ~Waits(u) /\ ~Waits(u)'
  BY <1>1 DEF Waits, Held, Others
<1>3. ASSUME NEW u \in Thread PROVE Turn(u)'
  BY <1>1, <1>2 DEF Turns, Turn, Held, Others
<1> QED BY <1>2, <1>3 DEF Turns

\* A step of a thread.
LEMMA TurnStep ==
  ASSUME NEW t \in Thread, TypeOK, Shape, OneConnection, Apart, Turns,
         [NoneGivesUp]_vars,
         \/ \E addr \in Address : CallInit(t, addr)
         \/ \E a \in App :
              CallCreate(t, a) \/ CallQuery(t, a) \/ CallSend(t, a)
         \/ CallDestroy(t)
         \/ Step(t)
  PROVE  Turns'
<1>t. /\ fd \in 0..MaxFd /\ pc \in [Thread -> Place]
      /\ call \in [Thread -> CallRecord]
      /\ asked \in [Fd -> Seq([op : Command, app : App])]
      /\ answers \in [Fd -> Seq(App)]
  BY DEF TypeOK, Command
<1>g. ASSUME NEW at, Go(t, at)
      PROVE  pc'[t] = at /\ \A u \in Thread \ {t} : pc'[u] = pc[u]
  BY <1>g, <1>t DEF Go
<1>o. /\ call[t].got # Nil => call[t].got = call[t].app
      /\ \A u \in Thread : pc[u] \in Held => mutex = u
  BY DEF Turns, Turn, Held
<1>1. ASSUME NEW c, NEW at \in {"params", "return", "fetch", "close"},
             Enter(t, c, at), c.got = Nil,
             UNCHANGED <<agentVars, wireVars, fileVars>>
      PROVE  Turns'
  <2>1. pc[t] = "idle" /\ pc'[t] = at /\ call'[t] = c /\ Others(t)
    BY <1>1, <1>t DEF Enter, Others
  <2>2. UNCHANGED <<fd, asked, answers, mutex>>
    BY <1>1 DEF agentVars, wireVars
  <2> QED BY <1>1, <1>o, <2>1, <2>2, QuietTurn DEF Held
<1>2. CASE \/ \E addr \in Address : CallInit(t, addr)
           \/ \E a \in App :
                CallCreate(t, a) \/ CallQuery(t, a) \/ CallSend(t, a)
           \/ CallDestroy(t)
  BY <1>2, <1>1 DEF CallInit, CallCreate, CallQuery, CallSend, CallDestroy,
     NoCall
<1>3. CASE Return(t)
  <2>1. /\ pc[t] = "return" /\ pc'[t] = "idle" /\ call'[t] = NoCall /\ Others(t)
        /\ UNCHANGED <<fd, asked, answers, mutex>>
    BY <1>3, <1>t DEF Return, Done, Go, Others, agentVars, wireVars
  <2> QED BY <1>o, <2>1, QuietTurn DEF Held, NoCall
<1>4. CASE InitParams(t)
  <2>1. /\ pc[t] = "params" /\ UNCHANGED <<fd, asked, answers, call>>
        /\ Go(t, "return") \/ Go(t, "connect")
        /\ mutex' = mutex \/ mutex = Nil
    BY <1>4 DEF InitParams, wireVars
  <2>2. Others(t) /\ pc'[t] \in {"return", "connect"}
    BY <1>g, <2>1 DEF Others
  <2>3. \A u \in Thread \ {t} : pc[u] \in Held => mutex' = u
    BY <1>o, <2>1, ConnectionAssumption
  <2> QED BY <1>o, <2>1, <2>2, <2>3, QuietTurn DEF Held
<1>5. CASE TryConnect(t)
  <2>1. PICK result \in ConnectResult :
          /\ GetDaemonFdInternal(result)
          /\ Go(t, IF result = "connected" /\ call[t].op = "create"
                     THEN "fetch" ELSE "return")
    BY <1>5 DEF TryConnect
  <2>2. mutex = Nil /\ UNCHANGED <<mutex, call>>
    BY <1>5 DEF TryConnect
  <2>3. Others(t) /\ pc'[t] \in {"fetch", "return"}
    BY <1>g, <2>1, <2>2 DEF Others
  <2>4. Settled => Settled'
    BY <2>1, ConnectSettled
  <2> QED BY <1>o, <2>2, <2>3, <2>4, FreshTurn DEF Held
<1>6. CASE Fetch(t)
  <2>1. PICK result \in ConnectResult :
          /\ GetDaemonFdInternal(result)
          /\ IF result = "connected"
               THEN call' = [call EXCEPT ![t].fd = fd'] /\ Go(t, "lock")
               ELSE Go(t, Failed(t)) /\ UNCHANGED call
    BY <1>6 DEF Fetch
  <2>2. mutex = Nil /\ UNCHANGED mutex
    BY <1>6 DEF Fetch
  <2>3. Others(t) /\ pc'[t] \in {"lock", "give_up", "return"}
    BY <1>g, <1>t, <2>1 DEF Others, Failed
  <2>4. call'[t].got = call[t].got /\ call'[t].app = call[t].app
    BY <1>t, <2>1 DEF CallRecord
  <2>5. Settled => Settled'
    BY <2>1, ConnectSettled
  <2> QED BY <1>o, <2>2, <2>3, <2>4, <2>5, FreshTurn DEF Held
<1>7. CASE Lock(t)
  <2>1. /\ pc[t] = "lock" /\ UNCHANGED <<fd, asked, answers, call>>
        /\ Go(t, "write") /\ mutex = Nil /\ mutex' = t
    BY <1>7 DEF Lock, wireVars
  <2>2. Others(t) /\ pc'[t] = "write"
    BY <1>g, <2>1 DEF Others
  <2>3. \A u \in Thread \ {t} : pc[u] \notin Held
    BY <1>o, <2>1, ConnectionAssumption
  <2> QED BY <1>o, <2>1, <2>2, <2>3, QuietTurn
<1>8. CASE Write(t)
  <2>1. /\ pc[t] = "write" /\ mutex = t /\ call[t].op \in Command
        /\ call[t].app \in App /\ UNCHANGED <<fd, answers, call, mutex>>
    BY <1>8, <1>o DEF Write, agentVars, Shape, Held
  <2>2. \A u \in Thread \ {t} : pc[u] \notin Held
    BY <1>o, <2>1
  <2>3. Settled
    BY <2>1, <2>2 DEF Turns, Waits, Held
  <2>4. PICK at \in {"unlock", "receive", "unlock_failed"} : Go(t, at)
    BY <1>8 DEF Write
  <2>5. Others(t) /\ pc'[t] = at
    BY <1>g, <2>1, <2>4 DEF Others
  <2>6. CASE UNCHANGED asked /\ at # "receive"
    BY <1>o, <2>1, <2>2, <2>5, <2>6, QuietTurn
  <2>7. CASE UNCHANGED asked /\ call[t].fd \in files
    <3>1. call[t].fd # fd \/ fd = 0
      BY <2>7 DEF OneConnection, Apart
    <3>2. \A u \in Thread : ~Waits(u)'
      BY <2>1, <2>2, <2>5, <3>1 DEF Waits, Held, Others
    <3>3. ASSUME NEW u \in Thread PROVE Turn(u)'
      BY <1>o, <2>1, <2>2, <2>5, <3>2 DEF Turn, Held, Others, Turns
    <3>4. Settled'
      BY <2>1, <2>3, <2>7 DEF Settled
    <3> QED BY <3>3, <3>4 DEF Turns
  <2>8. CASE /\ call[t].fd \in open
             /\ asked' = [asked EXCEPT ![call[t].fd] =
                            Append(@, [op |-> call[t].op, app |-> call[t].app])]
             /\ at = IF call[t].op = "send" THEN "unlock" ELSE "receive"
    <3> DEFINE e == [op |-> call[t].op, app |-> call[t].app]
    <3>1. call[t].fd = fd /\ fd # 0 /\ fd \in Fd
      BY <1>t, <2>8 DEF OneConnection, Fd
    <3>2. e \in [op : Command, app : App] /\ asked'[fd] = Append(asked[fd], e)
      BY <1>t, <2>1, <2>8, <3>1
    <3>3. e.op = call[t].op /\ e.app = call[t].app
      OBVIOUS
    <3>4. /\ asked[fd] \in Seq([op : Command, app : App]) /\ Sends(asked[fd])
          /\ answers[fd] = <<>>
      BY <1>t, <2>3, <3>1 DEF Settled
    <3> HIDE DEF e
    <3>5. /\ e.op = "send" => Sends(asked'[fd])
          /\ e.op # "send" => LastAsks(asked'[fd], e.app)
      <4>1. /\ e.op = "send" => Sends(Append(asked[fd], e))
            /\ e.op # "send" => LastAsks(Append(asked[fd], e), e.app)
        BY <3>2, <3>4, SendsFacts
      <4> QED BY <3>2, <4>1
    <3>6. \A u \in Thread \ {t} : ~Waits(u)'
      BY <2>2, <2>5 DEF Waits, Held, Others
    <3>7. ASSUME NEW u \in Thread \ {t} PROVE Turn(u)'
      BY <2>1, <2>2, <2>5, <3>6 DEF Turn, Held, Others, Turns
    <3>8. Waits(t)' <=> call[t].op # "send"
      BY <2>1, <2>5, <2>8, <3>1 DEF Waits
    <3>9. Turn(t)'
      BY <1>o, <2>1, <2>5, <3>3, <3>4, <3>5, <3>8 DEF Turn, Held
    <3>10. ~Waits(t)' => Settled'
      BY <2>1, <3>3, <3>4, <3>5, <3>8 DEF Settled
    <3> QED BY <3>7, <3>9, <3>10 DEF Turns
  <2> QED BY <1>8, <2>4, <2>5, <2>6, <2>7, <2>8, <1>g DEF Write
<1>9. CASE Receive(t)
  <2>1. /\ pc[t] = "receive" /\ mutex = t /\ UNCHANGED <<fd, asked, mutex>>
        /\ call[t].app \in App
    BY <1>9, <1>o DEF Receive, agentVars, Held, Shape
  <2>2. \A u \in Thread \ {t} : pc[u] \notin Held
    BY <1>o, <2>1
  <2>3. ~Go(t, "unlock_failed")
    <3>1. ASSUME Go(t, "unlock_failed") PROVE FALSE
      <4>1. pc'[t] = "unlock_failed"
        BY <1>g, <3>1
      <4> QED BY <2>1, <4>1 DEF NoneGivesUp, vars
    <3> QED BY <3>1
  <2>4. /\ call[t].fd \in open /\ answers[call[t].fd] # <<>>
        /\ call' = [call EXCEPT ![t].got = Head(answers[call[t].fd])]
        /\ answers' = [answers EXCEPT ![call[t].fd] = Tail(@)]
        /\ Go(t, "unlock")
    BY <1>9, <2>3 DEF Receive
  <2>5. call[t].fd = fd /\ fd # 0 /\ fd \in Fd
    BY <1>t, <2>4 DEF OneConnection, Fd
  <2>6. answers[fd] = <<call[t].app>> /\ Sends(asked[fd])
    BY <2>1, <2>4, <2>5 DEF Turns, Turn, Waits
  <2>7. /\ answers'[fd] = Tail(answers[fd]) /\ pc'[t] = "unlock" /\ Others(t)
        /\ call'[t] = [call[t] EXCEPT !.got = Head(answers[fd])]
    BY <1>g, <1>t, <2>4, <2>5 DEF Others
  <2>8. call'[t].got = Head(answers[fd]) /\ call'[t].app = call[t].app
    BY <1>t, <2>7 DEF CallRecord
  <2>9. Head(answers[fd]) = call[t].app /\ answers'[fd] = <<>>
    BY <2>1, <2>6, <2>7, OneAnswer
  <2>10. Settled'
    BY <2>1, <2>6, <2>9 DEF Settled
  <2>11. \A u \in Thread : ~Waits(u)'
    BY <2>2, <2>7 DEF Waits, Held, Others
  <2>12. ASSUME NEW u \in Thread PROVE Turn(u)'
    <3>1. CASE u = t
      BY <2>1, <2>7, <2>8, <2>9, <2>11, <3>1 DEF Turn
    <3>2. CASE u # t
      BY <2>2, <2>7, <2>11, <3>2 DEF Turn, Held, Others, Turns
    <3> QED BY <3>1, <3>2
  <2> QED BY <2>10, <2>11, <2>12 DEF Turns
<1>10. CASE Unlock(t)
  <2>1. /\ pc[t] \in {"unlock", "unlock_failed"} /\ mutex = t
        /\ UNCHANGED <<fd, asked, answers, call>>
    BY <1>10, <1>o DEF Unlock, wireVars, Held
  <2>2. PICK at \in {"return", "give_up", "close"} : Go(t, at)
    BY <1>10 DEF Unlock, Failed
  <2>3. Others(t) /\ pc'[t] = at
    BY <1>g, <2>1, <2>2 DEF Others
  <2>4. \A u \in Thread \ {t} : pc[u] \notin Held
    BY <1>o, <2>1
  <2> QED BY <1>o, <2>1, <2>3, <2>4, QuietTurn DEF Held
<1>11. CASE Close(t) \/ GiveUp(t)
  <2>1. /\ fd' = 0 /\ UNCHANGED <<mutex, call>> /\ mutex = Nil
        /\ \E at \in {"return", "give_up"} : Go(t, at)
    BY <1>11 DEF Close, GiveUp, CloseConnection, Failed
  <2>2. pc'[t] \in {"return", "give_up"} /\ Others(t) /\ Settled'
    BY <1>g, <2>1 DEF Settled, Others
  <2> QED BY <1>o, <2>1, <2>2, FreshTurn DEF Held
<1>12. CASE Retry(t)
  <2>1. /\ pc[t] = "give_up" /\ pc'[t] = "fetch"
        /\ UNCHANGED <<fd, asked, answers, mutex>>
    BY <1>12, <1>g DEF Retry, agentVars, wireVars
  <2>2. call'[t].got = Nil /\ Others(t)
    BY <1>12, <1>g, <1>t DEF Retry, CallRecord, Others
  <2> QED BY <1>o, <2>1, <2>2, QuietTurn DEF Held
<1> QED BY <1>2, <1>3, <1>4, <1>5, <1>6, <1>7, <1>8, <1>9, <1>10, <1>11,
           <1>12 DEF Step

\* The daemon reads a command: the answer it gives is for the thread that
\* waits.
LEMMA DaemonTurn ==
  ASSUME NEW f \in Fd, TypeOK, OneConnection, Turns, DaemonAnswers(f)
  PROVE  Turns'
<1>t. /\ asked \in [Fd -> Seq([op : Command, app : App])]
      /\ answers \in [Fd -> Seq(App)]
  BY DEF TypeOK, Command
<1>1. /\ f = fd /\ fd # 0 /\ asked[fd] # <<>>
      /\ UNCHANGED <<fd, mutex, pc, call>>
      /\ asked[fd] \in Seq([op : Command, app : App])
      /\ asked'[fd] = Tail(asked[fd])
  BY <1>t DEF DaemonAnswers, agentVars, OneConnection
<1>w. \A u \in Thread : Waits(u)' <=> Waits(u)
  BY <1>1 DEF Waits
<1>h. Head(asked[fd]) \in [op : Command, app : App]
  BY <1>1, HeadFacts
<1>2. CASE Head(asked[fd]).op = "send"
  <2>1. answers' = answers
    BY <1>1, <1>2 DEF DaemonAnswers
  <2>2. Sends(asked[fd]) => Sends(asked'[fd])
    BY <1>1, <1>h, SendsFacts
  <2>3. ASSUME NEW a, LastAsks(asked[fd], a) PROVE LastAsks(asked'[fd], a)
    BY <1>1, <1>2, <2>3, LastAsksFacts
  <2>4. Settled => Settled'
    BY <1>1, <2>1, <2>2 DEF Settled
  <2>5. ASSUME NEW u \in Thread PROVE Turn(u)'
    BY <1>1, <1>w, <2>1, <2>2, <2>3 DEF Turns, Turn
  <2> QED BY <1>w, <2>4, <2>5 DEF Turns
<1>3. CASE Head(asked[fd]).op # "send"
  <2>1. answers'[fd] = Append(answers[fd], Head(asked[fd]).app)
    BY <1>1, <1>3, <1>t DEF DaemonAnswers
  <2>2. ~Sends(asked[fd])
    BY <1>1, <1>3, <1>h, SendsFacts
  <2>3. PICK u \in Thread : Waits(u)
    BY <1>1, <2>2 DEF Turns, Settled
  <2>4. ASSUME NEW v \in Thread, Waits(v)
        PROVE  answers'[fd] = <<call[v].app>> /\ Sends(asked'[fd])
    <3>1. answers[fd] = <<>> /\ LastAsks(asked[fd], call[v].app)
      BY <2>2, <2>4 DEF Turns, Turn
    <3>2. Head(asked[fd]).app = call[v].app /\ Sends(asked'[fd])
      BY <1>1, <1>3, <3>1, LastAsksFacts
    <3> QED BY <2>1, <3>1, <3>2, OneAnswer
  <2>5. ASSUME NEW v \in Thread PROVE Turn(v)'
    BY <1>1, <1>w, <2>4 DEF Turns, Turn
  <2> QED BY <1>w, <2>3, <2>5 DEF Turns
<1> QED BY <1>2, <1>3

\* In a program with any number of threads, as long as no thread gives up an
\* answer it waits for (nr_network_receive reaches its deadline, or fails),
\* every answer is that of the query that waits for it: nr_agent_daemon_mutex
\* is held from the write to the answer, so two threads' answers never mix.
THEOREM PatientThreads ==
  Spec /\ [][NoneGivesUp]_vars => []AnswersMatch
<1>1. Init => Turns
  BY DEF Init, Turns, Turn, Held, Waits, Settled, NoCall
<1>2. TypeOK /\ Shape /\ OneConnection /\ Apart /\ Turns /\ [Next]_vars
        /\ [NoneGivesUp]_vars => Turns'
  <2> SUFFICES ASSUME TypeOK, Shape, OneConnection, Apart, Turns,
                      [Next]_vars, [NoneGivesUp]_vars
               PROVE  Turns'
    OBVIOUS
  <2>1. ASSUME NEW t \in Thread,
               \/ \E addr \in Address : CallInit(t, addr)
               \/ \E a \in App :
                    CallCreate(t, a) \/ CallQuery(t, a) \/ CallSend(t, a)
               \/ CallDestroy(t)
               \/ Step(t)
        PROVE  Turns'
    BY <2>1, TurnStep
  <2>2. ASSUME NEW f \in Fd, DaemonAnswers(f) PROVE Turns'
    BY <2>2, DaemonTurn
  <2>3. CASE AppOpens \/ AppCloses \/ UNCHANGED vars
    <3>1. UNCHANGED <<fd, asked, answers, mutex, pc, call>>
      BY <2>3 DEF AppOpens, AppCloses, vars, agentVars, wireVars, fileVars
    <3> QED BY <3>1 DEF Turns, Turn, Waits, Settled
  <2> QED BY <2>1, <2>2, <2>3 DEF Next
<1>3. Turns => AnswersMatch
  BY DEF Turns, Turn, AnswersMatch
<1> QED BY <1>1, <1>2, <1>3, TypeCorrect, ShapeKept, AlwaysOne, PTL DEF Spec
=============================================================================
