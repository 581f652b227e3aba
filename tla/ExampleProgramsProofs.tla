----------------------- MODULE ExampleProgramsProofs -----------------------
(***************************************************************************)
(* Proofs about the programs of the examples directory (module             *)
(* ExamplePrograms), for any set of programs, any number of runs and of    *)
(* kills, and every way in which the calls of the SDK may fail: what each  *)
(* of them has freed when it ends, and that a response of the distributed  *)
(* tracing example means that the request was read.                        *)
(***************************************************************************)
EXTENDS ExamplePrograms, TLAPS

\* A leaf is given to Zenon for a second, to the SMT solver, and to both again.
USE ZenonT(1), SMTT(60), ZenonT(60), SMTT(90)

\* The statements before newrelic_create_app, and those between the start and
\* the end of the transaction.
EarlyOps ==
  {"example_init", "get_env", "create_app_config", "customize_config",
   "set_field", "configure_log", "init"}

WorkOps ==
  {"start_segment", "end_segment", "create_custom_event", "record_custom_event"}
  \cup {"record_custom_metric", "add_attributes", "set_transaction_timing",
        "set_segment_timing", "add_attribute_int", "notice_error",
        "set_segment_parent", "set_segment_parent_root"}
  \cup {"unlink_request", "create_request", "write_request", "await_response",
        "unlink_response"}

Segment == {"seg", "seg_a", "seg_c", "seg_d", "datastore", "external"}

\* An early statement may make main return or crash; none of the others does.
Early == [op : EarlyOps, seg : {"none"}, onFail : {"goes on", "returns", "crashes"}]
Work == [op : WorkOps, seg : Segment \cup {"none"}, onFail : {"goes on"}]

\* Every segment that is started is ended later, and an event that is created is
\* recorded later.
Paired(b) ==
  \A i \in 1..Len(b) :
    /\ b[i].op = "start_segment" =>
         \E j \in i+1..Len(b) : b[j].op = "end_segment" /\ b[j].seg = b[i].seg
    /\ b[i].op \in {"start_segment", "end_segment"} => b[i].seg \in Segment
    /\ b[i].op = "create_custom_event" =>
         \E j \in i+1..Len(b) : b[j].op = "record_custom_event"

\* The shape of every program but the server: m early statements, then the
\* application and the transaction are started, b is done, both are ended.
Text(t, m, b) ==
  /\ m \in Nat /\ b \in Seq(Work) /\ Paired(b)
  /\ DOMAIN t = 1..m + Len(b) + 6
  /\ \A i \in 1..m : t[i] \in Early
  /\ t[m + 1] = Call("create_app")
  /\ t[m + 2] = Call("destroy_app_config")
  /\ t[m + 3] = Call("start_transaction")
  /\ \A i \in 1..Len(b) : t[m + 3 + i] = b[i]
  /\ t[m + Len(b) + 4] = Call("end_transaction")
  /\ t[m + Len(b) + 5] = Call("destroy_app")
  /\ t[m + Len(b) + 6] = Call("return")

\* A program put together by Example has that shape.
LEMMA Assembled ==
  ASSUME NEW a \in Seq(Early), NEW b \in Seq(Work), Paired(b)
  PROVE  Text(Example(a, b), Len(a), b)
<1>. DEFINE u == a \o Started
            v == u \o b
            t == v \o Ended
            S == Early \cup Work \cup
                 {Call("create_app"), Call("destroy_app_config"), Call("start_transaction"),
                  Call("end_transaction"), Call("destroy_app"), Call("return")}
<1>1. /\ Started \in Seq(S) /\ Len(Started) = 3
      /\ Started[1] = Call("create_app") /\ Started[2] = Call("destroy_app_config")
      /\ Started[3] = Call("start_transaction")
  BY DEF Started
<1>2. /\ Ended \in Seq(S) /\ Len(Ended) = 3
      /\ Ended[1] = Call("end_transaction") /\ Ended[2] = Call("destroy_app")
      /\ Ended[3] = Call("return")
  BY DEF Ended
<1>. HIDE DEF S
<1>3. a \in Seq(S) /\ Started \in Seq(S)
  BY <1>1 DEF S
<1>4. b \in Seq(S)
  BY DEF S
<1>5. Ended \in Seq(S)
  BY <1>2
<1>6. u \in Seq(S)
  BY <1>3
<1>7. /\ Len(u) = Len(a) + Len(Started)
      /\ \A i \in 1..Len(a) : u[i] = a[i]
      /\ \A i \in 1..Len(Started) : u[Len(a) + i] = Started[i]
  BY <1>3
<1>. HIDE DEF u
<1>8. v \in Seq(S)
  BY <1>4, <1>6
<1>9. /\ Len(v) = Len(u) + Len(b)
      /\ \A i \in 1..Len(u) : v[i] = u[i]
      /\ \A i \in 1..Len(b) : v[Len(u) + i] = b[i]
  BY <1>4, <1>6
<1>. HIDE DEF v
<1>10. /\ DOMAIN t = 1..Len(v) + Len(Ended)
       /\ \A i \in 1..Len(v) : t[i] = v[i]
       /\ \A i \in 1..Len(Ended) : t[Len(v) + i] = Ended[i]
  BY <1>5, <1>8
<1>. HIDE DEF t
<1>11. Len(a) \in Nat /\ Len(b) \in Nat /\ \A i \in 1..Len(a) : a[i] \in Early
  OBVIOUS
<1>12. Len(u) = Len(a) + 3 /\ Len(v) = Len(a) + Len(b) + 3
  BY <1>1, <1>7, <1>9, <1>11
<1>13. \A i \in 1..Len(a) : t[i] \in Early
  BY <1>7, <1>9, <1>10, <1>11, <1>12
<1>14. ASSUME NEW j \in 1..3 PROVE t[Len(a) + j] = Started[j]
  <2>1. u[Len(a) + j] = Started[j]
    BY <1>1, <1>7
  <2>2. v[Len(a) + j] = u[Len(a) + j]
    BY <1>9, <1>11, <1>12
  <2>3. t[Len(a) + j] = v[Len(a) + j]
    BY <1>10, <1>11, <1>12
  <2>. QED BY <2>1, <2>2, <2>3
<1>15. /\ t[Len(a) + 1] = Call("create_app")
       /\ t[Len(a) + 2] = Call("destroy_app_config")
       /\ t[Len(a) + 3] = Call("start_transaction")
  BY <1>1, <1>14
<1>16. \A i \in 1..Len(b) : t[Len(a) + 3 + i] = b[i]
  BY <1>9, <1>10, <1>11, <1>12
<1>17. /\ t[Len(a) + Len(b) + 4] = Call("end_transaction")
       /\ t[Len(a) + Len(b) + 5] = Call("destroy_app")
       /\ t[Len(a) + Len(b) + 6] = Call("return")
  BY <1>2, <1>10, <1>11, <1>12
<1>18. DOMAIN t = 1..Len(a) + Len(b) + 6
  BY <1>2, <1>10, <1>11, <1>12
<1>. QED
  <2>1. Text(t, Len(a), b)
    BY <1>11, <1>13, <1>15, <1>16, <1>17, <1>18 DEF Text
  <2>. QED BY <2>1, ZenonT(60) DEF t, u, v, Example

\* The statements by which the examples are written are of the kinds above.
LEMMA Calls ==
  /\ \A op \in EarlyOps :
       Call(op) \in Early /\ OrReturn(op) \in Early /\ OrCrash(op) \in Early
  /\ \A op \in WorkOps : Call(op) \in Work /\ \A seg \in Segment : On(op, seg) \in Work
BY DEF Call, OrReturn, OrCrash, On, Statement, Early, Work

\* A call is named by its operation.
LEMMA OpOfCall == \A op : Call(op).op = op
BY DEF Call, Statement

\* The openings of the examples (common.c, ex_simple.c) are early statements.
LEMMA Openings ==
  /\ Configured \in Seq(Early) /\ Len(Configured) = 5
  /\ Configured \o Traced \in Seq(Early) /\ Len(Configured \o Traced) = 6
  /\ Initialised \in Seq(Early) /\ Len(Initialised) = 3
<1>1. /\ Call("example_init") \in Early /\ OrReturn("get_env") \in Early
      /\ Call("create_app_config") \in Early /\ Call("customize_config") \in Early
      /\ OrReturn("configure_log") \in Early /\ OrReturn("init") \in Early
      /\ OrCrash("set_field") \in Early
  BY Calls DEF EarlyOps
<1>2. Configured \in Seq(Early) /\ Len(Configured) = 5
  BY <1>1 DEF Configured
<1>3. Traced \in Seq(Early) /\ Len(Traced) = 1
  BY <1>1 DEF Traced
<1>4. Configured \in Seq(Early) /\ Traced \in Seq(Early)
  BY <1>2, <1>3
<1>5. /\ Configured \o Traced \in Seq(Early)
      /\ Len(Configured \o Traced) = Len(Configured) + Len(Traced)
  BY <1>4
<1>6. Len(Configured \o Traced) = 6
  BY <1>2, <1>3, <1>5
<1>7. Initialised \in Seq(Early) /\ Len(Initialised) = 3
  BY <1>1 DEF Initialised
<1>. QED BY <1>2, <1>5, <1>6, <1>7

\* The work of ex_simple.c, ex_datastore.c and ex_external.c ends its segment.
LEMMA OneSegmentText ==
  ASSUME NEW seg \in Segment
  PROVE  /\ OneSegment(seg) \in Seq(Work) /\ Len(OneSegment(seg)) = 2
         /\ Paired(OneSegment(seg))
<1>1. On("start_segment", seg) \in Work /\ On("end_segment", seg) \in Work
  BY Calls DEF WorkOps
<1>2. OneSegment(seg) \in Seq(Work) /\ Len(OneSegment(seg)) = 2
  BY <1>1 DEF OneSegment
<1>3. /\ OneSegment(seg)[1].op = "start_segment" /\ OneSegment(seg)[1].seg = seg
      /\ OneSegment(seg)[2].op = "end_segment" /\ OneSegment(seg)[2].seg = seg
  BY DEF OneSegment, On, Statement
<1>. QED BY <1>2, <1>3 DEF Paired

\* The work of ex_custom.c ends its segment and records its event.
LEMMA CustomText ==
  CustomWork \in Seq(Work) /\ Len(CustomWork) = 6 /\ Paired(CustomWork)
<1>1. /\ On("start_segment", "seg") \in Work
      /\ Call("record_custom_metric") \in Work
      /\ Call("create_custom_event") \in Work
      /\ Call("add_attributes") \in Work
      /\ Call("record_custom_event") \in Work
      /\ On("end_segment", "seg") \in Work
  BY Calls DEF WorkOps, Segment
<1>2. CustomWork \in Seq(Work) /\ Len(CustomWork) = 6
  BY <1>1 DEF CustomWork
<1>3. /\ CustomWork[1].op = "start_segment" /\ CustomWork[1].seg = "seg"
      /\ CustomWork[2].op = "record_custom_metric"
      /\ CustomWork[3].op = "create_custom_event"
      /\ CustomWork[4].op = "add_attributes"
      /\ CustomWork[5].op = "record_custom_event"
      /\ CustomWork[6].op = "end_segment" /\ CustomWork[6].seg = "seg"
  BY DEF CustomWork, Call, On, Statement
<1>. QED BY <1>2, <1>3 DEF Paired, Segment

\* The work of ex_timing.c ends its segment.
LEMMA TimingText ==
  TimingWork \in Seq(Work) /\ Len(TimingWork) = 4 /\ Paired(TimingWork)
<1>1. /\ Call("set_transaction_timing") \in Work
      /\ On("start_segment", "seg") \in Work
      /\ On("set_segment_timing", "seg") \in Work
      /\ On("end_segment", "seg") \in Work
  BY Calls DEF WorkOps, Segment
<1>2. TimingWork \in Seq(Work) /\ Len(TimingWork) = 4
  BY <1>1 DEF TimingWork
<1>3. /\ TimingWork[1].op = "set_transaction_timing"
      /\ TimingWork[2].op = "start_segment" /\ TimingWork[2].seg = "seg"
      /\ TimingWork[3].op = "set_segment_timing" /\ TimingWork[3].seg = "seg"
      /\ TimingWork[4].op = "end_segment" /\ TimingWork[4].seg = "seg"
  BY DEF TimingWork, Call, On, Statement
<1>. QED BY <1>2, <1>3 DEF Paired, Segment

\* The work of ex_notice_error.c starts nothing that has to be ended.
LEMMA NoticeErrorText ==
  NoticeErrorWork \in Seq(Work) /\ Len(NoticeErrorWork) = 2 /\ Paired(NoticeErrorWork)
<1>1. /\ Call("add_attribute_int") \in Work
      /\ Call("notice_error") \in Work
  BY Calls DEF WorkOps, Segment
<1>2. NoticeErrorWork \in Seq(Work) /\ Len(NoticeErrorWork) = 2
  BY <1>1 DEF NoticeErrorWork
<1>3. /\ NoticeErrorWork[1].op = "add_attribute_int"
      /\ NoticeErrorWork[2].op = "notice_error"
  BY DEF NoticeErrorWork, Call, On, Statement
<1>. QED BY <1>2, <1>3 DEF Paired, Segment

\* The work of ex_segment.c ends its five segments, two of which share a name.
LEMMA SegmentText ==
  SegmentWork \in Seq(Work) /\ Len(SegmentWork) = 14 /\ Paired(SegmentWork)
<1>1. /\ Call("set_transaction_timing") \in Work
      /\ On("start_segment", "seg") \in Work
      /\ On("end_segment", "seg") \in Work
      /\ On("start_segment", "seg_a") \in Work
      /\ On("start_segment", "seg_c") \in Work
      /\ On("set_segment_parent", "seg_c") \in Work
      /\ On("set_segment_timing", "seg_c") \in Work
      /\ On("end_segment", "seg_c") \in Work
      /\ On("start_segment", "seg_d") \in Work
      /\ On("set_segment_parent_root", "seg_d") \in Work
      /\ On("end_segment", "seg_d") \in Work
      /\ On("end_segment", "seg_a") \in Work
  BY Calls DEF WorkOps, Segment
<1>2. SegmentWork \in Seq(Work) /\ Len(SegmentWork) = 14
  BY <1>1 DEF SegmentWork
<1>3. /\ SegmentWork[1].op = "set_transaction_timing"
      /\ SegmentWork[2].op = "start_segment" /\ SegmentWork[2].seg = "seg"
      /\ SegmentWork[3].op = "end_segment" /\ SegmentWork[3].seg = "seg"
      /\ SegmentWork[4].op = "start_segment" /\ SegmentWork[4].seg = "seg_a"
      /\ SegmentWork[5].op = "start_segment" /\ SegmentWork[5].seg = "seg"
      /\ SegmentWork[6].op = "start_segment" /\ SegmentWork[6].seg = "seg_c"
      /\ SegmentWork[7].op = "set_segment_parent" /\ SegmentWork[7].seg = "seg_c"
      /\ SegmentWork[8].op = "set_segment_timing" /\ SegmentWork[8].seg = "seg_c"
      /\ SegmentWork[9].op = "end_segment" /\ SegmentWork[9].seg = "seg_c"
      /\ SegmentWork[10].op = "start_segment" /\ SegmentWork[10].seg = "seg_d"
      /\ SegmentWork[11].op = "set_segment_parent_root" /\ SegmentWork[11].seg = "seg_d"
      /\ SegmentWork[12].op = "end_segment" /\ SegmentWork[12].seg = "seg_d"
      /\ SegmentWork[13].op = "end_segment" /\ SegmentWork[13].seg = "seg"
      /\ SegmentWork[14].op = "end_segment" /\ SegmentWork[14].seg = "seg_a"
  BY DEF SegmentWork, Call, On, Statement
<1>. QED BY <1>2, <1>3 DEF Paired, Segment

\* The work of the distributed tracing client ends its segment.
LEMMA ClientText ==
  ClientWork \in Seq(Work) /\ Len(ClientWork) = 7 /\ Paired(ClientWork)
<1>1. /\ On("start_segment", "external") \in Work
      /\ Call("unlink_request") \in Work
      /\ Call("create_request") \in Work
      /\ Call("write_request") \in Work
      /\ Call("await_response") \in Work
      /\ Call("unlink_response") \in Work
      /\ On("end_segment", "external") \in Work
  BY Calls DEF WorkOps, Segment
<1>2. ClientWork \in Seq(Work) /\ Len(ClientWork) = 7
  BY <1>1 DEF ClientWork
<1>3. /\ ClientWork[1].op = "start_segment" /\ ClientWork[1].seg = "external"
      /\ ClientWork[2].op = "unlink_request"
      /\ ClientWork[3].op = "create_request"
      /\ ClientWork[4].op = "write_request"
      /\ ClientWork[5].op = "await_response"
      /\ ClientWork[6].op = "unlink_response"
      /\ ClientWork[7].op = "end_segment" /\ ClientWork[7].seg = "external"
  BY DEF ClientWork, Call, On, Statement
<1>. QED BY <1>2, <1>3 DEF Paired, Segment

\* How many early statements each program has, and its work.
OpeningLen ==
  [simple |-> 3, custom |-> 6, timing |-> 6, datastore |-> 6, external |-> 6,
   notice_error |-> 5, segment |-> 6, client |-> 6]

WorkOf ==
  [simple |-> OneSegment("seg"), custom |-> CustomWork, timing |-> TimingWork,
   datastore |-> OneSegment("datastore"), external |-> OneSegment("external"),
   notice_error |-> NoticeErrorWork, segment |-> SegmentWork, client |-> ClientWork]

\* Every program but the server has the shape of Text.
LEMMA Texts ==
  \A p \in Name \ {"server"} : Text(Program[p], OpeningLen[p], WorkOf[p])
<1>1. Text(ExSimple, 3, OneSegment("seg"))
  BY Openings, OneSegmentText, Assembled DEF ExSimple, Segment
<1>2. Text(ExCustom, 6, CustomWork)
  BY Openings, CustomText, Assembled DEF ExCustom
<1>3. Text(ExTiming, 6, TimingWork)
  BY Openings, TimingText, Assembled DEF ExTiming
<1>4. Text(ExDatastore, 6, OneSegment("datastore"))
  BY Openings, OneSegmentText, Assembled DEF ExDatastore, Segment
<1>5. Text(ExExternal, 6, OneSegment("external"))
  BY Openings, OneSegmentText, Assembled DEF ExExternal, Segment
<1>6. Text(ExNoticeError, 5, NoticeErrorWork)
  BY Openings, NoticeErrorText, Assembled DEF ExNoticeError
<1>7. Text(ExSegment, 6, SegmentWork)
  BY Openings, SegmentText, Assembled DEF ExSegment
<1>8. Text(ExClient, 6, ClientWork)
  BY Openings, ClientText, Assembled DEF ExClient
<1>. QED
  BY <1>1, <1>2, <1>3, <1>4, <1>5, <1>6, <1>7, <1>8
     DEF Name, Program, OpeningLen, WorkOf

\* The server has six early statements and then its own ten.
LEMMA ServerText ==
  /\ DOMAIN ExServer = 1..16
  /\ \A i \in 1..6 : ExServer[i] \in Early
  /\ \A i \in 1..10 : ExServer[6 + i] = ServerWork[i]
<1>. DEFINE a == Configured \o Traced
            S == Early \cup {ServerWork[i] : i \in 1..10}
            t == a \o ServerWork
<1>1. ServerWork \in Seq(S) /\ Len(ServerWork) = 10
  BY DEF ServerWork
<1>2. a \in Seq(Early)
  BY Openings
<1>3. Len(a) = 6
  BY Openings
<1>. HIDE DEF a
<1>4. a \in Seq(S) /\ ServerWork \in Seq(S)
  BY <1>1, <1>2
<1>. HIDE DEF S
<1>5. /\ DOMAIN t = 1..Len(a) + Len(ServerWork)
      /\ \A i \in 1..Len(a) : t[i] = a[i]
      /\ \A i \in 1..Len(ServerWork) : t[Len(a) + i] = ServerWork[i]
  BY <1>4
<1>6. ExServer = t
  BY ZenonT(60) DEF ExServer, a
<1>. HIDE DEF t
<1>7. \A i \in 1..Len(a) : a[i] \in Early
  BY <1>2
<1>. QED BY <1>1, <1>3, <1>5, <1>6, <1>7

\* Where the client touches the files: the places FileInv speaks of.
LEMMA ClientPlaces ==
  /\ DOMAIN Program["client"] = 1..19
  /\ \A i \in 1..19 :
       LET op == Program["client"][i].op
       IN  /\ op = "unlink_request" <=> i = 11
           /\ op = "create_request" <=> i = 12
           /\ op = "write_request" <=> i = 13
           /\ op = "await_response" <=> i = 14
           /\ op = "unlink_response" <=> i = 15
           /\ op = "return" <=> i = 19
           /\ op \notin {"await_request", "read_request", "create_response", "again"}
<1>. DEFINE t == Program["client"]
<1>1. Text(t, 6, ClientWork)
  BY Texts DEF Name, Program, OpeningLen, WorkOf
<1>2. /\ ClientWork[1].op = "start_segment" /\ ClientWork[2].op = "unlink_request"
      /\ ClientWork[3].op = "create_request" /\ ClientWork[4].op = "write_request"
      /\ ClientWork[5].op = "await_response" /\ ClientWork[6].op = "unlink_response"
      /\ ClientWork[7].op = "end_segment" /\ Len(ClientWork) = 7
  BY DEF ClientWork, Call, On, Statement
<1>. HIDE DEF t
<1>3. DOMAIN t = 1..19
  BY <1>1, <1>2 DEF Text
<1>4. \A i \in 1..6 : t[i].op \in EarlyOps
  BY <1>1 DEF Text, Early
<1>5. \A i \in 1..7 : t[9 + i] = ClientWork[i]
  BY <1>1, <1>2 DEF Text
<1>6. Len(ClientWork) = 7
  BY <1>2
<1>7. /\ t[7] = Call("create_app") /\ t[8] = Call("destroy_app_config")
       /\ t[9] = Call("start_transaction") /\ t[17] = Call("end_transaction")
       /\ t[18] = Call("destroy_app") /\ t[19] = Call("return")
  BY <1>1, <1>6 DEF Text
<1>8. /\ t[7].op = "create_app" /\ t[8].op = "destroy_app_config"
      /\ t[9].op = "start_transaction" /\ t[17].op = "end_transaction"
      /\ t[18].op = "destroy_app" /\ t[19].op = "return"
  BY <1>7, OpOfCall
<1>9. /\ t[10].op = "start_segment" /\ t[11].op = "unlink_request"
      /\ t[12].op = "create_request" /\ t[13].op = "write_request"
      /\ t[14].op = "await_response" /\ t[15].op = "unlink_response"
      /\ t[16].op = "end_segment"
  BY <1>2, <1>5
<1>10. ASSUME NEW i \in 1..19
      PROVE  /\ t[i].op = "unlink_request" <=> i = 11
             /\ t[i].op = "create_request" <=> i = 12
             /\ t[i].op = "write_request" <=> i = 13
             /\ t[i].op = "await_response" <=> i = 14
             /\ t[i].op = "unlink_response" <=> i = 15
             /\ t[i].op = "return" <=> i = 19
             /\ t[i].op \notin {"await_request", "read_request", "create_response", "again"}
  BY <1>4, <1>8, <1>9 DEF EarlyOps
<1>. QED BY <1>3, <1>10, ZenonT(60) DEF t

\* Where the server touches the files.
LEMMA ServerPlaces ==
  /\ DOMAIN Program["server"] = 1..16
  /\ \A i \in 1..16 :
       LET op == Program["server"][i].op
       IN  /\ op = "unlink_response" <=> i = 9
           /\ op = "await_request" <=> i = 10
           /\ op = "read_request" <=> i = 12
           /\ op = "unlink_request" <=> i = 13
           /\ op = "create_response" <=> i = 14
           /\ op = "again" <=> i = 16
           /\ op \notin {"return", "create_request", "write_request", "await_response"}
<1>. DEFINE t == Program["server"]
<1>1. t = ExServer
  BY DEF Program
<1>2. /\ ServerWork[1].op = "create_app" /\ ServerWork[2].op = "destroy_app_config"
      /\ ServerWork[3].op = "unlink_response" /\ ServerWork[4].op = "await_request"
      /\ ServerWork[5].op = "start_transaction" /\ ServerWork[6].op = "read_request"
      /\ ServerWork[7].op = "unlink_request" /\ ServerWork[8].op = "create_response"
      /\ ServerWork[9].op = "end_transaction" /\ ServerWork[10].op = "again"
  BY DEF ServerWork, Call, Statement
<1>. HIDE DEF t
<1>3. \A i \in 1..6 : t[i].op \in EarlyOps
  BY <1>1, ServerText DEF Early
<1>4. \A i \in 1..10 : t[6 + i] = ServerWork[i]
  BY <1>1, ServerText
<1>5. /\ t[7].op = "create_app" /\ t[8].op = "destroy_app_config"
      /\ t[9].op = "unlink_response" /\ t[10].op = "await_request"
      /\ t[11].op = "start_transaction" /\ t[12].op = "read_request"
      /\ t[13].op = "unlink_request" /\ t[14].op = "create_response"
      /\ t[15].op = "end_transaction" /\ t[16].op = "again"
  BY <1>2, <1>4
<1>6. ASSUME NEW i \in 1..16
      PROVE  /\ t[i].op = "unlink_response" <=> i = 9
             /\ t[i].op = "await_request" <=> i = 10
             /\ t[i].op = "read_request" <=> i = 12
             /\ t[i].op = "unlink_request" <=> i = 13
             /\ t[i].op = "create_response" <=> i = 14
             /\ t[i].op = "again" <=> i = 16
             /\ t[i].op \notin {"return", "create_request", "write_request", "await_response"}
  BY <1>3, <1>5 DEF EarlyOps
<1>7. DOMAIN t = 1..16
  BY <1>1, ServerText
<1>. QED BY <1>6, <1>7, ZenonT(60) DEF t

\* Where the client goes on when it cannot create its request, and where the
\* server begins its next round.
LEMMA Jumps ==
  /\ Place("client", "unlink_response") = 15
  /\ Place("server", "await_request") = 10
<1>1. \A i \in DOMAIN Program["client"] :
        Program["client"][i].op = "unlink_response" <=> i = 15
  BY ClientPlaces, ZenonT(60)
<1>2. \A i \in DOMAIN Program["server"] :
        Program["server"][i].op = "await_request" <=> i = 10
  BY ServerPlaces, ZenonT(60)
<1>3. DOMAIN Program["client"] = 1..19 /\ DOMAIN Program["server"] = 1..16
  BY ClientPlaces, ServerPlaces, ZenonT(60)
<1>4. 15 \in DOMAIN Program["client"] /\ 10 \in DOMAIN Program["server"]
  BY <1>3
<1>. QED BY <1>1, <1>2, <1>4, ZenonT(60) DEF Place

----------------------------------------------------------------------------
\* What a process may hold, and its SDK's state.
Resource ==
  {"config", "app", "txn", "event", "options", "applist", "connection", "log"}
  \cup Segment

SdkState ==
  [held : SUBSET Resource, logged : BOOLEAN, atexit : BOOLEAN, began : BOOLEAN]

\* The list of applications and the handler at exit come together
\* (newrelic_do_init), and no application or transaction is made without them.
Sound(s) ==
  /\ s \in SdkState
  /\ "applist" \in s.held <=> s.atexit
  /\ "app" \in s.held => s.atexit
  /\ s.began => s.atexit

\* A call with result r changes at most what is held of x.
Effect(s, r, x) ==
  /\ r \in [ok : BOOLEAN, sdk : SdkState]
  /\ Sound(r.sdk)
  /\ r.sdk.held \ x = s.held \ x
  /\ r.sdk.began = s.began

\* What Take and Free make of a state.
LEMMA TakeFree ==
  ASSUME NEW s \in SdkState, NEW x \in SUBSET Resource
  PROVE  /\ Take(s, x) \in SdkState /\ Take(s, x).held = s.held \cup x
         /\ Take(s, x).logged = s.logged /\ Take(s, x).atexit = s.atexit
         /\ Take(s, x).began = s.began
         /\ Free(s, x) \in SdkState /\ Free(s, x).held = s.held \ x
         /\ Free(s, x).logged = s.logged /\ Free(s, x).atexit = s.atexit
         /\ Free(s, x).began = s.began
BY DEF Take, Free, SdkState

\* The parts of a result.
LEMMA ResultIs ==
  ASSUME NEW ok \in BOOLEAN, NEW s \in SdkState
  PROVE  /\ Result(ok, s) \in [ok : BOOLEAN, sdk : SdkState]
         /\ Result(ok, s).ok = ok /\ Result(ok, s).sdk = s
BY DEF Result

\* An exchange with the daemon changes at most the socket.
LEMMA ExchangeEffect ==
  ASSUME NEW s, Sound(s), NEW r \in Exchange(s)
  PROVE  /\ Effect(s, r, {"connection"})
         /\ r.sdk.atexit = s.atexit /\ r.sdk.logged = s.logged
<1>1. s \in SdkState /\ {"connection"} \in SUBSET Resource
  BY DEF Sound, Resource
<1>2. CASE \E ok \in BOOLEAN : r = Result(ok, Take(s, {"connection"}))
  <2>1. PICK ok \in BOOLEAN : r = Result(ok, Take(s, {"connection"}))
    BY <1>2
  <2>2. r \in [ok : BOOLEAN, sdk : SdkState] /\ r.sdk = Take(s, {"connection"})
    BY <1>1, <2>1, TakeFree, ResultIs, ZenonT(60)
  <2>. QED BY <1>1, <2>2, TakeFree DEF Effect, Sound
<1>3. CASE r = Result(FALSE, Free(s, {"connection"}))
  <2>1. r \in [ok : BOOLEAN, sdk : SdkState] /\ r.sdk = Free(s, {"connection"})
    BY <1>1, <1>3, TakeFree, ResultIs
  <2>. QED BY <1>1, <2>1, TakeFree DEF Effect, Sound
<1>. QED BY <1>2, <1>3 DEF Exchange, Only

\* A call that gives its state back has no effect.
LEMMA NoEffect ==
  ASSUME NEW s, Sound(s), NEW ok \in BOOLEAN, NEW r \in Only(ok, s), NEW x
  PROVE  Effect(s, r, x) /\ r.sdk = s /\ r.ok = ok
<1>1. r = Result(ok, s) /\ s \in SdkState
  BY DEF Only, Sound
<1>2. r \in [ok : BOOLEAN, sdk : SdkState] /\ r.sdk = s /\ r.ok = ok
  BY <1>1, ResultIs, ZenonT(60)
<1>. QED BY <1>2 DEF Effect

\* A call that only frees changes what it frees.
LEMMA FreeEffect ==
  ASSUME NEW s, Sound(s), NEW x \in SUBSET (Resource \ {"applist"}),
         NEW ok \in BOOLEAN,
         NEW r \in Only(ok, Free(s, x))
  PROVE  Effect(s, r, x) /\ r.sdk.held = s.held \ x
<1>1. r = Result(ok, Free(s, x)) /\ s \in SdkState /\ x \in SUBSET Resource
  BY DEF Only, Sound
<1>2. Free(s, x) \in SdkState
  BY <1>1, TakeFree
<1>3. r \in [ok : BOOLEAN, sdk : SdkState] /\ r.sdk = Free(s, x) /\ r.ok = ok
  BY <1>1, <1>2, ResultIs
<1>. QED BY <1>1, <1>3, TakeFree DEF Effect, Sound

\* A call that only takes changes what it takes.
LEMMA TakeEffect ==
  ASSUME NEW s, Sound(s), NEW x \in SUBSET (Resource \ {"applist", "app"}),
         NEW ok \in BOOLEAN,
         NEW r \in Only(ok, Take(s, x))
  PROVE  Effect(s, r, x)
<1>1. r = Result(ok, Take(s, x)) /\ s \in SdkState /\ x \in SUBSET Resource
  BY DEF Only, Sound
<1>2. Take(s, x) \in SdkState
  BY <1>1, TakeFree
<1>3. r \in [ok : BOOLEAN, sdk : SdkState] /\ r.sdk = Take(s, x) /\ r.ok = ok
  BY <1>1, <1>2, ResultIs
<1>. QED BY <1>1, <1>3, TakeFree DEF Effect, Sound

\* newrelic_configure_log changes at most the log.
LEMMA ConfigureLogEffect ==
  ASSUME NEW s, Sound(s), NEW r \in ConfigureLog(s)
  PROVE  Effect(s, r, {"log"}) /\ r.sdk.atexit = s.atexit
<1>1. CASE r \in Only(FALSE, s)
  BY <1>1, NoEffect
<1>2. CASE r \in Only(TRUE, [Take(s, {"log"}) EXCEPT !.logged = TRUE])
  <2>. DEFINE u == [Take(s, {"log"}) EXCEPT !.logged = TRUE]
  <2>1. s \in SdkState /\ {"log"} \in SUBSET Resource
    BY DEF Sound, Resource
  <2>2. /\ u \in SdkState /\ u.held = s.held \cup {"log"}
        /\ u.atexit = s.atexit /\ u.began = s.began
    <3>. DEFINE t == Take(s, {"log"})
    <3>1. /\ t \in SdkState /\ t.held = s.held \cup {"log"}
          /\ t.atexit = s.atexit /\ t.began = s.began
      BY <2>1, TakeFree
    <3>. HIDE DEF t
    <3>2. u = [t EXCEPT !.logged = TRUE]
      BY DEF t
    <3>. HIDE DEF u
    <3>. QED BY <3>1, <3>2 DEF SdkState
  <2>. HIDE DEF u
  <2>3. r \in [ok : BOOLEAN, sdk : SdkState] /\ r.sdk = u
    BY <1>2, <2>2, ResultIs DEF Only, u
  <2>. QED BY <2>2, <2>3 DEF Effect, Sound
<1>. QED BY <1>1, <1>2 DEF ConfigureLog

\* What newrelic_shutdown gives back.
Connecting == {"log", "connection", "applist"}

\* newrelic_do_init changes at most what newrelic_shutdown gives back, and has
\* made the list of applications when it succeeds.
LEMMA DoInitEffect ==
  ASSUME NEW s, Sound(s), "applist" \notin s.held, NEW r \in DoInit(s)
  PROVE  Effect(s, r, Connecting) /\ (r.ok => "applist" \in r.sdk.held)
<1>. DEFINE logs == IF s.logged THEN Only(TRUE, s) ELSE ConfigureLog(s)
            up(t) == [Take(t, {"applist"}) EXCEPT !.atexit = TRUE]
<1>1. ASSUME NEW l \in logs
      PROVE  Effect(s, l, {"log"}) /\ "applist" \notin l.sdk.held
  <2>1. Effect(s, l, {"log"})
    BY <1>1, NoEffect, ConfigureLogEffect
  <2>. QED BY <2>1 DEF Effect
<1>2. PICK l \in logs : \/ r = l /\ ~l.ok
                        \/ \E e \in Exchange(l.sdk) :
                             r = IF e.ok THEN Result(TRUE, up(e.sdk)) ELSE e
  <2>1. PICK l \in logs :
          r \in IF l.ok THEN {IF e.ok THEN Result(TRUE, up(e.sdk)) ELSE e
                                : e \in Exchange(l.sdk)}
               ELSE {l}
    BY ZenonT(60) DEF DoInit
  <2>. HIDE DEF logs, up
  <2>. QED BY <2>1
<1>. HIDE DEF logs
<1>3. CASE r = l /\ ~l.ok
  BY <1>1, <1>3 DEF Effect, Connecting
<1>4. ASSUME NEW e \in Exchange(l.sdk), r = IF e.ok THEN Result(TRUE, up(e.sdk)) ELSE e
      PROVE  Effect(s, r, Connecting) /\ (r.ok => "applist" \in r.sdk.held)
  <2>1. Sound(l.sdk) /\ l.sdk.held \ {"log"} = s.held \ {"log"} /\ l.sdk.began = s.began
    BY <1>1 DEF Effect
  <2>2. Effect(l.sdk, e, {"connection"})
    BY <1>4, <2>1, ExchangeEffect
  <2>3. CASE ~e.ok
    BY <1>4, <2>1, <2>2, <2>3 DEF Effect, Connecting
  <2>4. CASE e.ok
    <3>1. e.sdk \in SdkState /\ {"applist"} \in SUBSET Resource
      BY <2>2 DEF Effect, Sound, Resource
    <3>. DEFINE u == up(e.sdk)
    <3>2. /\ u \in SdkState /\ u.held = e.sdk.held \cup {"applist"}
          /\ u.atexit = TRUE /\ u.began = e.sdk.began
      <4>. DEFINE t == Take(e.sdk, {"applist"})
      <4>1. t \in SdkState /\ t.held = e.sdk.held \cup {"applist"} /\ t.began = e.sdk.began
        BY <3>1, TakeFree
      <4>. HIDE DEF t
      <4>2. u = [t EXCEPT !.atexit = TRUE]
        BY DEF t
      <4>. HIDE DEF u
      <4>. QED BY <4>1, <4>2 DEF SdkState
    <3>3. r = Result(TRUE, u)
      BY <1>4, <2>4
    <3>. HIDE DEF u, up
    <3>4. r \in [ok : BOOLEAN, sdk : SdkState] /\ r.sdk = u
      BY <3>2, <3>3, ResultIs
    <3>. QED BY <2>1, <2>2, <3>2, <3>4 DEF Effect, Sound, Connecting
  <2>. QED BY <2>3, <2>4
<1>. QED BY <1>2, <1>3, <1>4

\* newrelic_init and newrelic_ensure_init likewise.
LEMMA InitEffect ==
  ASSUME NEW s, Sound(s), NEW r \in InitSdk(s) \cup EnsureInit(s)
  PROVE  /\ Effect(s, r, Connecting)
         /\ r \in EnsureInit(s) /\ r.ok => "applist" \in r.sdk.held
<1>1. CASE "applist" \in s.held
  <2>1. InitSdk(s) = Only(FALSE, s) /\ EnsureInit(s) = Only(TRUE, s)
    BY <1>1 DEF InitSdk, EnsureInit, Holds
  <2>2. Effect(s, r, Connecting) /\ r.sdk = s
    BY <2>1, NoEffect
  <2>. QED BY <1>1, <2>2
<1>2. CASE "applist" \notin s.held
  <2>1. InitSdk(s) = DoInit(s) /\ EnsureInit(s) = DoInit(s)
    BY <1>2 DEF InitSdk, EnsureInit, Holds
  <2>. QED BY <1>2, <2>1, DoInitEffect
<1>. QED BY <1>1, <1>2

\* example_init of common.c likewise.
LEMMA ExampleInitEffect ==
  ASSUME NEW s, Sound(s), NEW r \in ExampleInit(s)
  PROVE  Effect(s, r, Connecting)
<1>1. PICK l \in ConfigureLog(s) : r \in IF l.ok THEN InitSdk(l.sdk) ELSE {l}
  BY ZenonT(60) DEF ExampleInit
<1>2. Effect(s, l, {"log"})
  BY ConfigureLogEffect
<1>3. CASE l.ok
  <2>1. Effect(l.sdk, r, Connecting)
    BY <1>1, <1>2, <1>3, InitEffect DEF Effect
  <2>. QED BY <1>2, <2>1 DEF Effect, Connecting
<1>4. CASE ~l.ok
  BY <1>1, <1>2, <1>4 DEF Effect, Connecting
<1>. QED BY <1>3, <1>4

\* newrelic_destroy_app leaves no application.
LEMMA DestroyAppEffect ==
  ASSUME NEW s, Sound(s), NEW r \in DestroyApp(s)
  PROVE  Effect(s, r, {"app", "connection", "log"}) /\ "app" \notin r.sdk.held
<1>1. CASE Holds(s, "app")
  <2>1. {"app", "connection", "log"} \in SUBSET (Resource \ {"applist"})
    BY DEF Resource
  <2>2. r \in Only(TRUE, Free(s, {"app", "connection", "log"}))
    BY <1>1 DEF DestroyApp
  <2>3. /\ Effect(s, r, {"app", "connection", "log"})
        /\ r.sdk.held = s.held \ {"app", "connection", "log"}
    BY <2>1, <2>2, FreeEffect
  <2>. QED BY <2>3
<1>2. CASE ~Holds(s, "app")
  BY <1>2, NoEffect DEF DestroyApp, Holds
<1>. QED BY <1>1, <1>2

\* newrelic_create_app changes at most the application and what the SDK's start
\* takes, also when it destroys the application again.
LEMMA CreateAppEffect ==
  ASSUME NEW s, Sound(s), NEW r \in CreateApp(s)
  PROVE  Effect(s, r, {"app", "connection", "log", "applist"})
<1>. DEFINE x == {"app", "connection", "log", "applist"}
<1>1. CASE r \in Only(FALSE, s)
  BY <1>1, NoEffect
<1>2. CASE r \notin Only(FALSE, s)
  <2>1. PICK i \in EnsureInit(s) :
          r \in IF ~i.ok THEN {i}
               ELSE Only(TRUE, Take(i.sdk, {"app", "connection"}))
                    \cup {Result(FALSE, d.sdk) : d \in DestroyApp(Take(i.sdk, {"app"}))}
    BY <1>2 DEF CreateApp
  <2>2. Effect(s, i, Connecting) /\ (i.ok => "applist" \in i.sdk.held)
    BY InitEffect
  <2>3. CASE ~i.ok
    BY <2>1, <2>2, <2>3 DEF Effect, Connecting
  <2>4. CASE i.ok
    <3>1. /\ i.sdk \in SdkState /\ Sound(i.sdk) /\ i.sdk.atexit
          /\ {"app"} \in SUBSET Resource /\ {"app", "connection"} \in SUBSET Resource
      BY <2>2, <2>4 DEF Effect, Sound, Resource
    <3>2. CASE r \in Only(TRUE, Take(i.sdk, {"app", "connection"}))
      <4>. DEFINE u == Take(i.sdk, {"app", "connection"})
      <4>1. /\ u \in SdkState /\ u.held = i.sdk.held \cup {"app", "connection"}
            /\ u.atexit = i.sdk.atexit /\ u.began = i.sdk.began
        BY <3>1, TakeFree
      <4>2. Sound(u)
        BY <3>1, <4>1 DEF Sound
      <4>. HIDE DEF u
      <4>3. Effect(u, r, {}) /\ r.sdk = u
        BY <3>2, <4>2, NoEffect DEF u
      <4>. QED BY <2>2, <4>1, <4>3 DEF Effect, Connecting
    <3>3. ASSUME NEW d \in DestroyApp(Take(i.sdk, {"app"})), r = Result(FALSE, d.sdk)
          PROVE  Effect(s, r, x)
      <4>. DEFINE u == Take(i.sdk, {"app"})
      <4>1. /\ u \in SdkState /\ u.held = i.sdk.held \cup {"app"}
            /\ u.atexit = i.sdk.atexit /\ u.began = i.sdk.began
        BY <3>1, TakeFree
      <4>2. Sound(u)
        BY <3>1, <4>1 DEF Sound
      <4>. HIDE DEF u
      <4>3. Effect(u, d, {"app", "connection", "log"})
        BY <3>3, <4>2, DestroyAppEffect DEF u
      <4>4. r \in [ok : BOOLEAN, sdk : SdkState] /\ r.sdk = d.sdk
        BY <3>3, <4>3, ResultIs DEF Effect
      <4>. QED BY <2>2, <4>1, <4>3, <4>4 DEF Effect, Connecting
    <3>. QED BY <2>1, <2>4, <3>2, <3>3
  <2>. QED BY <2>3, <2>4
<1>. QED BY <1>1, <1>2

\* newrelic_start_transaction that fails changes at most the socket and the
\* options; one that succeeds has an application and a transaction.
LEMMA StartTransactionEffect ==
  ASSUME NEW s, Sound(s), NEW r \in StartTransaction(s)
  PROVE  /\ r \in [ok : BOOLEAN, sdk : SdkState]
         /\ Sound(r.sdk)
         /\ \/ Effect(s, r, {"connection", "options"})
            \/ /\ r.sdk.held \ {"connection", "txn"} = s.held \ {"connection", "txn"}
               /\ r.sdk.began /\ {"app", "txn"} \subseteq r.sdk.held
<1>. DEFINE Goal == /\ r \in [ok : BOOLEAN, sdk : SdkState]
                    /\ Sound(r.sdk)
                    /\ \/ Effect(s, r, {"connection", "options"})
                       \/ /\ r.sdk.held \ {"connection", "txn"} = s.held \ {"connection", "txn"}
                          /\ r.sdk.began /\ {"app", "txn"} \subseteq r.sdk.held
            begun(t) == [Take(t, {"txn"}) EXCEPT !.began = TRUE]
<1>1. CASE ~Holds(s, "app")
  BY <1>1, NoEffect DEF StartTransaction, Effect
<1>2. CASE Holds(s, "app")
  <2>1. PICK e \in Only(TRUE, s) \cup Exchange(s) :
          \/ r \in Only(FALSE, e.sdk) \/ r \in Only(FALSE, Take(e.sdk, {"options"}))
          \/ r \in Only(TRUE, begun(e.sdk))
    BY <1>2, ZenonT(60) DEF StartTransaction
  <2>2. Effect(s, e, {"connection"})
    BY NoEffect, ExchangeEffect
  <2>3. CASE r \in Only(FALSE, e.sdk)
    <3>1. Effect(e.sdk, r, {"connection"})
      BY <2>2, <2>3, NoEffect DEF Effect
    <3>. QED BY <2>2, <3>1 DEF Effect
  <2>4. CASE r \in Only(FALSE, Take(e.sdk, {"options"}))
    <3>1. Effect(e.sdk, r, {"options"})
      <4>1. Sound(e.sdk) /\ {"options"} \in SUBSET (Resource \ {"applist", "app"})
        BY <2>2 DEF Effect, Resource
      <4>. QED BY <2>4, <4>1, TakeEffect
    <3>. QED BY <2>2, <3>1 DEF Effect
  <2>5. CASE r \in Only(TRUE, begun(e.sdk))
    <3>1. /\ e.sdk \in SdkState /\ Sound(e.sdk) /\ {"txn"} \in SUBSET Resource
          /\ "app" \in e.sdk.held
      BY <1>2, <2>2 DEF Effect, Sound, Resource, Holds
    <3>. DEFINE u == begun(e.sdk)
    <3>2. /\ u \in SdkState /\ u.held = e.sdk.held \cup {"txn"}
          /\ u.atexit = e.sdk.atexit /\ u.began = TRUE
      <4>. DEFINE t == Take(e.sdk, {"txn"})
      <4>1. t \in SdkState /\ t.held = e.sdk.held \cup {"txn"} /\ t.atexit = e.sdk.atexit
        BY <3>1, TakeFree
      <4>. HIDE DEF t
      <4>2. u = [t EXCEPT !.began = TRUE]
        BY DEF t
      <4>. HIDE DEF u
      <4>. QED BY <4>1, <4>2 DEF SdkState
    <3>3. r \in Only(TRUE, u)
      BY <2>5
    <3>. HIDE DEF u, begun
    <3>4. Sound(u)
      BY <3>1, <3>2 DEF Sound
    <3>5. Effect(u, r, {}) /\ r.sdk = u
      BY <3>3, <3>4, NoEffect
    <3>. QED BY <2>2, <3>1, <3>2, <3>5 DEF Effect
  <2>. QED BY <2>1, <2>3, <2>4, <2>5
<1>. QED BY <1>1, <1>2

\* newrelic_end_transaction leaves no transaction.
LEMMA EndTransactionEffect ==
  ASSUME NEW s, Sound(s), NEW r \in EndTransaction(s)
  PROVE  Effect(s, r, {"connection", "txn"}) /\ "txn" \notin r.sdk.held
<1>1. CASE ~Holds(s, "txn")
  BY <1>1, NoEffect DEF EndTransaction, Holds
<1>2. CASE Holds(s, "txn")
  <2>1. PICK e \in Exchange(s) : r = Result(e.ok, Free(e.sdk, {"txn"}))
    BY <1>2 DEF EndTransaction
  <2>2. Effect(s, e, {"connection"})
    BY ExchangeEffect
  <2>3. /\ Sound(e.sdk) /\ {"txn"} \in SUBSET (Resource \ {"applist"})
        /\ e.ok \in BOOLEAN /\ r \in Only(e.ok, Free(e.sdk, {"txn"}))
    BY <2>1, <2>2 DEF Effect, Resource, Only
  <2>4. Effect(e.sdk, r, {"txn"}) /\ r.sdk.held = e.sdk.held \ {"txn"}
    BY <2>3, FreeEffect
  <2>. QED BY <2>2, <2>4 DEF Effect
<1>. QED BY <1>1, <1>2

\* The calls on segments and events change at most the one they are about.
LEMMA OtherEffects ==
  ASSUME NEW s, Sound(s), NEW r, NEW seg \in Segment
  PROVE  /\ r \in CreateAppConfig(s) => Effect(s, r, {"config"})
         /\ r \in DestroyAppConfig(s) => Effect(s, r, {"config"}) /\ "config" \notin r.sdk.held
         /\ r \in StartSegment(s, seg) => Effect(s, r, {seg})
         /\ r \in EndSegment(s, seg) => Effect(s, r, {seg}) /\ seg \notin r.sdk.held
         /\ r \in CreateCustomEvent(s) => Effect(s, r, {"event"})
         /\ r \in RecordCustomEvent(s) =>
              Effect(s, r, {"event"}) /\ ("txn" \in s.held => "event" \notin r.sdk.held)
<1>1. /\ {"config"} \in SUBSET (Resource \ {"applist", "app"})
      /\ {"event"} \in SUBSET (Resource \ {"applist", "app"})
      /\ {seg} \in SUBSET (Resource \ {"applist", "app"})
      /\ {"config"} \in SUBSET (Resource \ {"applist"})
      /\ {"event"} \in SUBSET (Resource \ {"applist"})
      /\ {seg} \in SUBSET (Resource \ {"applist"})
  BY DEF Resource, Segment
<1>2. ASSUME r \in CreateAppConfig(s) PROVE Effect(s, r, {"config"})
  BY <1>1, <1>2, NoEffect, TakeEffect DEF CreateAppConfig
<1>3. ASSUME r \in DestroyAppConfig(s)
      PROVE  Effect(s, r, {"config"}) /\ "config" \notin r.sdk.held
  <2>1. /\ Holds(s, "config") \in BOOLEAN
        /\ r \in Only(Holds(s, "config"), Free(s, {"config"}))
    BY <1>3 DEF DestroyAppConfig, Holds
  <2>2. Effect(s, r, {"config"}) /\ r.sdk.held = s.held \ {"config"}
    BY <1>1, <2>1, FreeEffect
  <2>. QED BY <2>2
<1>4. ASSUME r \in StartSegment(s, seg) PROVE Effect(s, r, {seg})
  <2>1. r \in Only(TRUE, Take(s, {seg})) \/ r \in Only(FALSE, s)
    BY <1>4 DEF StartSegment
  <2>. QED BY <1>1, <2>1, NoEffect, TakeEffect
<1>5. ASSUME r \in EndSegment(s, seg)
      PROVE  Effect(s, r, {seg}) /\ seg \notin r.sdk.held
  <2>1. CASE seg \notin s.held
    BY <1>5, <2>1, NoEffect DEF EndSegment, Holds
  <2>2. CASE seg \in s.held
    <3>1. Holds(s, "txn") \in BOOLEAN /\ r \in Only(Holds(s, "txn"), Free(s, {seg}))
      BY <1>5, <2>2 DEF EndSegment, Holds
    <3>2. Effect(s, r, {seg}) /\ r.sdk.held = s.held \ {seg}
      BY <1>1, <3>1, FreeEffect
    <3>. QED BY <3>2
  <2>. QED BY <2>1, <2>2
<1>6. ASSUME r \in CreateCustomEvent(s) PROVE Effect(s, r, {"event"})
  BY <1>1, <1>6, TakeEffect DEF CreateCustomEvent
<1>7. ASSUME r \in RecordCustomEvent(s)
      PROVE  Effect(s, r, {"event"}) /\ ("txn" \in s.held => "event" \notin r.sdk.held)
  <2>1. CASE "txn" \notin s.held
    BY <1>7, <2>1, NoEffect DEF RecordCustomEvent, Holds
  <2>2. CASE "txn" \in s.held
    <3>1. r \in Only(TRUE, Free(s, {"event"}))
      BY <1>7, <2>2 DEF RecordCustomEvent, Holds
    <3>2. Effect(s, r, {"event"}) /\ r.sdk.held = s.held \ {"event"}
      BY <1>1, <3>1, FreeEffect
    <3>. QED BY <3>2
  <2>. QED BY <2>1, <2>2
<1>. QED BY <1>2, <1>3, <1>4, <1>5, <1>6, <1>7

\* What a statement may do to the state of the SDK, whatever its result.
Does(stmt, s, r) ==
  /\ r \in [ok : BOOLEAN, sdk : SdkState]
  /\ Sound(r.sdk)
  /\ stmt.op \in EarlyOps => Effect(s, r, Connecting \cup {"config"})
  /\ stmt.op = "create_app" => Effect(s, r, Connecting \cup {"app"})
  /\ stmt.op = "destroy_app_config" =>
       Effect(s, r, {"config"}) /\ "config" \notin r.sdk.held
  /\ stmt.op = "start_transaction" =>
       \/ Effect(s, r, {"connection", "options"})
       \/ /\ r.sdk.held \ {"connection", "txn"} = s.held \ {"connection", "txn"}
          /\ r.sdk.began /\ {"app", "txn"} \subseteq r.sdk.held
  /\ stmt.op = "start_segment" => Effect(s, r, {stmt.seg})
  /\ stmt.op = "end_segment" => Effect(s, r, {stmt.seg}) /\ stmt.seg \notin r.sdk.held
  /\ stmt.op = "create_custom_event" => Effect(s, r, {"event"})
  /\ stmt.op = "record_custom_event" =>
       Effect(s, r, {"event"}) /\ ("txn" \in s.held => "event" \notin r.sdk.held)
  /\ stmt.op = "end_transaction" =>
       Effect(s, r, {"connection", "txn"}) /\ "txn" \notin r.sdk.held
  /\ stmt.op = "destroy_app" =>
       Effect(s, r, Connecting \cup {"app"}) /\ "app" \notin r.sdk.held
  /\ stmt.op \in WorkOps \ {"start_segment", "end_segment", "create_custom_event",
                            "record_custom_event"} => r.sdk = s

Named ==
  {"example_init", "configure_log", "init", "get_env", "create_app_config", "set_field",
   "create_app", "destroy_app_config", "start_transaction", "start_segment", "end_segment",
   "create_custom_event", "record_custom_event", "end_transaction", "destroy_app"}

\* Every outcome of a statement is such a change.
LEMMA OutcomesDo ==
  ASSUME NEW s, Sound(s), NEW stmt, NEW r \in Outcomes(stmt, s),
         stmt.op \in {"start_segment", "end_segment"} => stmt.seg \in Segment
  PROVE  Does(stmt, s, r)
<1>1. ASSUME NEW x, NEW y, x \subseteq y, Effect(s, r, x) PROVE Effect(s, r, y)
  BY <1>1 DEF Effect
<1>2. "seg" \in Segment
  BY DEF Segment
<1>3. CASE stmt.op = "example_init"
  <2>1. r \in ExampleInit(s)
    BY <1>3 DEF Outcomes
  <2>2. Effect(s, r, Connecting)
    BY <2>1, ExampleInitEffect
  <2>3. Effect(s, r, Connecting \cup {"config"})
    BY <1>1, <2>2 DEF Connecting
  <2>. QED BY <1>3, <2>2, <2>3 DEF Does, Effect, EarlyOps, WorkOps
<1>4. CASE stmt.op = "configure_log"
  <2>1. r \in ConfigureLog(s)
    BY <1>4 DEF Outcomes
  <2>2. Effect(s, r, {"log"})
    BY <2>1, ConfigureLogEffect
  <2>3. Effect(s, r, Connecting \cup {"config"})
    BY <1>1, <2>2 DEF Connecting
  <2>. QED BY <1>4, <2>2, <2>3 DEF Does, Effect, EarlyOps, WorkOps
<1>5. CASE stmt.op = "init"
  <2>1. r \in InitSdk(s)
    BY <1>5 DEF Outcomes
  <2>2. Effect(s, r, Connecting)
    BY <2>1, InitEffect
  <2>3. Effect(s, r, Connecting \cup {"config"})
    BY <1>1, <2>2 DEF Connecting
  <2>. QED BY <1>5, <2>2, <2>3 DEF Does, Effect, EarlyOps, WorkOps
<1>6. CASE stmt.op = "get_env"
  <2>1. r \in Only(TRUE, s) \cup Only(FALSE, s)
    BY <1>6 DEF Outcomes
  <2>2. Effect(s, r, Connecting \cup {"config"})
    BY <2>1, NoEffect
  <2>. QED BY <1>6, <2>2 DEF Does, Effect, EarlyOps, WorkOps
<1>7. CASE stmt.op = "create_app_config"
  <2>1. r \in CreateAppConfig(s)
    BY <1>7 DEF Outcomes
  <2>2. Effect(s, r, {"config"})
    BY <1>2, <2>1, OtherEffects
  <2>3. Effect(s, r, Connecting \cup {"config"})
    BY <1>1, <2>2 DEF Connecting
  <2>. QED BY <1>7, <2>2, <2>3 DEF Does, Effect, EarlyOps, WorkOps
<1>8. CASE stmt.op = "set_field"
  <2>1. r \in Only(Holds(s, "config"), s) /\ Holds(s, "config") \in BOOLEAN
    BY <1>8 DEF Outcomes, Holds
  <2>2. Effect(s, r, Connecting \cup {"config"})
    BY <2>1, NoEffect
  <2>. QED BY <1>8, <2>2 DEF Does, Effect, EarlyOps, WorkOps
<1>9. CASE stmt.op = "create_app"
  <2>1. r \in CreateApp(s)
    BY <1>9 DEF Outcomes
  <2>2. Effect(s, r, {"app", "connection", "log", "applist"})
    BY <2>1, CreateAppEffect
  <2>3. Effect(s, r, Connecting \cup {"app"})
    BY <1>1, <2>2 DEF Connecting
  <2>. QED BY <1>9, <2>2, <2>3 DEF Does, Effect, EarlyOps, WorkOps
<1>10. CASE stmt.op = "destroy_app_config"
  <2>1. r \in DestroyAppConfig(s)
    BY <1>10 DEF Outcomes
  <2>2. Effect(s, r, {"config"}) /\ "config" \notin r.sdk.held
    BY <1>2, <2>1, OtherEffects
  <2>. QED BY <1>10, <2>2 DEF Does, Effect, EarlyOps, WorkOps
<1>11. CASE stmt.op = "start_transaction"
  <2>1. r \in StartTransaction(s)
    BY <1>11 DEF Outcomes
  <2>. QED BY <1>11, <2>1, StartTransactionEffect DEF Does, EarlyOps, WorkOps
<1>12. CASE stmt.op = "start_segment"
  <2>1. r \in StartSegment(s, stmt.seg)
    BY <1>12 DEF Outcomes
  <2>2. Effect(s, r, {stmt.seg})
    BY <1>12, <2>1, OtherEffects
  <2>. QED BY <1>12, <2>2 DEF Does, Effect, EarlyOps, WorkOps
<1>13. CASE stmt.op = "end_segment"
  <2>1. r \in EndSegment(s, stmt.seg)
    BY <1>13 DEF Outcomes
  <2>2. Effect(s, r, {stmt.seg}) /\ stmt.seg \notin r.sdk.held
    BY <1>13, <2>1, OtherEffects
  <2>. QED BY <1>13, <2>2 DEF Does, Effect, EarlyOps, WorkOps
<1>14. CASE stmt.op = "create_custom_event"
  <2>1. r \in CreateCustomEvent(s)
    BY <1>14 DEF Outcomes
  <2>2. Effect(s, r, {"event"})
    BY <1>2, <2>1, OtherEffects
  <2>. QED BY <1>14, <2>2 DEF Does, Effect, EarlyOps, WorkOps
<1>15. CASE stmt.op = "record_custom_event"
  <2>1. r \in RecordCustomEvent(s)
    BY <1>15 DEF Outcomes
  <2>2. Effect(s, r, {"event"}) /\ ("txn" \in s.held => "event" \notin r.sdk.held)
    BY <1>2, <2>1, OtherEffects
  <2>. QED BY <1>15, <2>2 DEF Does, Effect, EarlyOps, WorkOps
<1>16. CASE stmt.op = "end_transaction"
  <2>1. r \in EndTransaction(s)
    BY <1>16 DEF Outcomes
  <2>2. Effect(s, r, {"connection", "txn"}) /\ "txn" \notin r.sdk.held
    BY <2>1, EndTransactionEffect
  <2>. QED BY <1>16, <2>2 DEF Does, Effect, EarlyOps, WorkOps
<1>17. CASE stmt.op = "destroy_app"
  <2>1. r \in DestroyApp(s)
    BY <1>17 DEF Outcomes
  <2>2. Effect(s, r, {"app", "connection", "log"}) /\ "app" \notin r.sdk.held
    BY <2>1, DestroyAppEffect
  <2>3. Effect(s, r, Connecting \cup {"app"})
    BY <1>1, <2>2 DEF Connecting
  <2>. QED BY <1>17, <2>2, <2>3 DEF Does, Effect, EarlyOps, WorkOps
<1>18. CASE stmt.op \notin Named
  <2>1. r \in Only(TRUE, s)
    BY <1>18 DEF Outcomes, Named
  <2>2. Effect(s, r, {}) /\ r.sdk = s
    BY <2>1, NoEffect
  <2>3. stmt.op \notin
          {"example_init", "configure_log", "init", "get_env", "create_app_config",
           "set_field", "create_app", "destroy_app_config", "start_transaction",
           "start_segment", "end_segment",
   "create_custom_event", "record_custom_event", "end_transaction", "destroy_app"}
    BY <1>18 DEF Named
  <2>4. Effect(s, r, Connecting \cup {"config"})
    BY <1>1, <2>2
  <2>. QED BY <2>2, <2>3, <2>4 DEF Does, Effect
<1>. QED BY <1>3, <1>4, <1>5, <1>6, <1>7, <1>8, <1>9, <1>10,
     <1>11, <1>12, <1>13, <1>14, <1>15, <1>16, <1>17, <1>18 DEF Named

----------------------------------------------------------------------------
\* While statement j of the work b is next, every segment that is held has its
\* end before it, and so has the event of a transaction that is recording.
Working(b, j, s) ==
  /\ s.held \subseteq Connecting \cup {"app", "txn", "options", "event"} \cup Segment
  /\ s.began => "txn" \in s.held /\ "options" \notin s.held
  /\ \A g \in Segment : g \in s.held =>
       \E l \in j..Len(b) : b[l].op = "end_segment" /\ b[l].seg = g
  /\ s.began /\ "event" \in s.held =>
       \E l \in j..Len(b) : b[l].op = "record_custom_event"

\* A statement of the work keeps Working.
LEMMA WorkStep ==
  ASSUME NEW b \in Seq(Work), Paired(b), NEW j \in 1..Len(b), NEW s, Sound(s),
         Working(b, j, s), NEW r, Does(b[j], s, r)
  PROVE  Working(b, j + 1, r.sdk)
<1>. DEFINE u == r.sdk
<1>1. b[j] \in Work
  OBVIOUS
<1>2. b[j].op \in WorkOps
  BY <1>1 DEF Work
<1>3. s.held \subseteq Resource /\ u.held \subseteq Resource
  BY DEF Sound, Does, SdkState
<1>4. CASE b[j].op = "start_segment"
  <2>1. Effect(s, r, {b[j].seg}) /\ b[j].seg \in Segment
    BY <1>4 DEF Does, Paired
  <2>2. \E l \in j+1..Len(b) : b[l].op = "end_segment" /\ b[l].seg = b[j].seg
    BY <1>4 DEF Paired
  <2>3. /\ u.held \subseteq s.held \cup {b[j].seg}
        /\ s.held \subseteq u.held \cup {b[j].seg} /\ u.began = s.began
    BY <2>1 DEF Effect
  <2>4. b[j].seg \notin {"txn", "options", "event"}
    BY <2>1 DEF Segment
  <2>5. ASSUME NEW g \in Segment, g \in u.held
        PROVE  \E l \in j+1..Len(b) : b[l].op = "end_segment" /\ b[l].seg = g
    <3>1. CASE g = b[j].seg
      BY <2>2, <3>1
    <3>2. CASE g # b[j].seg
      <4>1. PICK l \in j..Len(b) : b[l].op = "end_segment" /\ b[l].seg = g
        BY <2>3, <2>5, <3>2 DEF Working
      <4>. QED BY <1>4, <4>1
    <3>. QED BY <3>1, <3>2
  <2>6. ASSUME u.began, "event" \in u.held
        PROVE  \E l \in j+1..Len(b) : b[l].op = "record_custom_event"
    <3>1. PICK l \in j..Len(b) : b[l].op = "record_custom_event"
      BY <2>3, <2>4, <2>6 DEF Working
    <3>. QED BY <1>4, <3>1
  <2>. QED BY <2>1, <2>3, <2>4, <2>5, <2>6 DEF Working
<1>5. CASE b[j].op = "end_segment"
  <2>1. Effect(s, r, {b[j].seg}) /\ b[j].seg \in Segment /\ b[j].seg \notin u.held
    BY <1>5 DEF Does, Paired
  <2>2. /\ u.held \subseteq s.held
        /\ s.held \subseteq u.held \cup {b[j].seg} /\ u.began = s.began
    BY <2>1 DEF Effect
  <2>3. b[j].seg \notin {"txn", "options", "event"}
    BY <2>1 DEF Segment
  <2>4. ASSUME NEW g \in Segment, g \in u.held
        PROVE  \E l \in j+1..Len(b) : b[l].op = "end_segment" /\ b[l].seg = g
    <3>1. PICK l \in j..Len(b) : b[l].op = "end_segment" /\ b[l].seg = g
      BY <2>2, <2>4 DEF Working
    <3>2. l # j
      BY <2>1, <2>4, <3>1
    <3>. QED BY <3>1, <3>2
  <2>5. ASSUME u.began, "event" \in u.held
        PROVE  \E l \in j+1..Len(b) : b[l].op = "record_custom_event"
    <3>1. PICK l \in j..Len(b) : b[l].op = "record_custom_event"
      BY <2>2, <2>5 DEF Working
    <3>. QED BY <1>5, <3>1
  <2>. QED BY <2>1, <2>2, <2>3, <2>4, <2>5 DEF Working
<1>6. CASE b[j].op \in WorkOps \ {"start_segment", "end_segment"}
  <2>1. Effect(s, r, {"event"}) \/ u = s
    BY <1>6 DEF Does
  <2>2. /\ u.held \subseteq s.held \cup {"event"}
        /\ s.held \subseteq u.held \cup {"event"} /\ u.began = s.began
    BY <2>1 DEF Effect
  <2>3. ASSUME NEW g \in Segment, g \in u.held
        PROVE  \E l \in j+1..Len(b) : b[l].op = "end_segment" /\ b[l].seg = g
    <3>1. g # "event"
      BY DEF Segment
    <3>2. PICK l \in j..Len(b) : b[l].op = "end_segment" /\ b[l].seg = g
      BY <2>2, <2>3, <3>1 DEF Working
    <3>. QED BY <1>6, <3>2
  <2>4. ASSUME u.began, "event" \in u.held
        PROVE  \E l \in j+1..Len(b) : b[l].op = "record_custom_event"
    <3>1. CASE b[j].op = "create_custom_event"
      BY <3>1 DEF Paired
    <3>2. CASE b[j].op = "record_custom_event"
      BY <2>2, <2>4, <3>2 DEF Does, Working
    <3>3. CASE b[j].op \notin {"create_custom_event", "record_custom_event"}
      <4>1. u = s
        BY <1>6, <3>3 DEF Does
      <4>2. PICK l \in j..Len(b) : b[l].op = "record_custom_event"
        BY <2>4, <4>1 DEF Working
      <4>. QED BY <3>3, <4>2
    <3>. QED BY <3>1, <3>2, <3>3
  <2>. QED BY <2>2, <2>3, <2>4 DEF Working
<1>. QED BY <1>2, <1>4, <1>5, <1>6

\* What a process may hold when statement i of its program is next.
Stage(m, b, i, s) ==
  /\ i <= m + 1 => s.held \subseteq Connecting \cup {"config"} /\ ~s.began
  /\ i = m + 2 => s.held \subseteq Connecting \cup {"config", "app"} /\ ~s.began
  /\ i = m + 3 => s.held \subseteq Connecting \cup {"app"} /\ ~s.began
  /\ i \in m + 4 .. m + Len(b) + 4 => Working(b, i - m - 3, s)
  /\ i > m + Len(b) + 4 =>
       /\ s.held \subseteq Connecting \cup {"app", "options", "event"}
       /\ s.began => "options" \notin s.held /\ "event" \notin s.held
  /\ i > m + Len(b) + 5 => "app" \notin s.held

\* A statement is followed by another, and leaves what the next one's place
\* allows; the statement may fail or succeed.
LEMMA StageStep ==
  ASSUME NEW t, NEW m, NEW b, Text(t, m, b), NEW i \in DOMAIN t, t[i].op # "return",
         NEW s, Sound(s), Stage(m, b, i, s), NEW r, Does(t[i], s, r)
  PROVE  i + 1 \in DOMAIN t /\ Stage(m, b, i + 1, r.sdk)
<1>. DEFINE k == Len(b)
            u == r.sdk
<1>1. m \in Nat /\ k \in Nat /\ i \in 1..m + k + 6 /\ DOMAIN t = 1..m + k + 6
  <2>1. b \in Seq(Work) /\ m \in Nat /\ DOMAIN t = 1..m + k + 6
    BY DEF Text
  <2>2. k \in Nat
    BY <2>1
  <2>. QED BY <2>1, <2>2
<1>2. t[m + k + 6].op = "return"
  BY OpOfCall DEF Text
<1>3. i \in 1..m + k + 5
  BY <1>1, <1>2
<1>4. CASE i \in 1..m
  <2>1. t[i].op \in EarlyOps
    BY <1>4 DEF Text, Early
  <2>2. Effect(s, r, Connecting \cup {"config"})
    BY <2>1 DEF Does
  <2>3. s.held \subseteq Connecting \cup {"config"} /\ ~s.began
    BY <1>1, <1>4 DEF Stage
  <2>4. u.held \subseteq Connecting \cup {"config"} /\ ~u.began
    BY <2>2, <2>3 DEF Effect
  <2>. HIDE DEF k, u
  <2>. QED BY <1>1, <1>4, <2>4 DEF Stage, k, u
<1>5. CASE i = m + 1
  <2>1. t[i].op = "create_app"
    BY <1>5, OpOfCall DEF Text
  <2>2. Effect(s, r, Connecting \cup {"app"})
    BY <2>1 DEF Does
  <2>3. s.held \subseteq Connecting \cup {"config"} /\ ~s.began
    BY <1>1, <1>5 DEF Stage
  <2>4. u.held \subseteq Connecting \cup {"config", "app"} /\ ~u.began
    BY <2>2, <2>3 DEF Effect
  <2>. QED BY <1>1, <1>5, <2>4 DEF Stage
<1>6. CASE i = m + 2
  <2>1. t[i].op = "destroy_app_config"
    BY <1>6, OpOfCall DEF Text
  <2>2. Effect(s, r, {"config"}) /\ "config" \notin u.held
    BY <2>1 DEF Does
  <2>3. s.held \subseteq Connecting \cup {"config", "app"} /\ ~s.began
    BY <1>1, <1>6 DEF Stage
  <2>4. u.held \subseteq Connecting \cup {"app"} /\ ~u.began
    BY <2>2, <2>3 DEF Effect
  <2>. QED BY <1>1, <1>6, <2>4 DEF Stage
<1>7. CASE i = m + 3
  <2>1. t[i].op = "start_transaction"
    BY <1>7, OpOfCall DEF Text
  <2>2. \/ Effect(s, r, {"connection", "options"})
        \/ /\ u.held \ {"connection", "txn"} = s.held \ {"connection", "txn"}
           /\ u.began /\ {"app", "txn"} \subseteq u.held
    BY <2>1 DEF Does
  <2>3. s.held \subseteq Connecting \cup {"app"} /\ ~s.began
    BY <1>1, <1>7 DEF Stage
  <2>4. /\ u.held \subseteq Connecting \cup {"app", "txn", "options"}
        /\ u.began => "txn" \in u.held /\ "options" \notin u.held
    BY <2>2, <2>3 DEF Effect, Connecting
  <2>5. Working(b, 1, u)
    BY <2>4 DEF Working, Connecting, Segment
  <2>. QED BY <1>1, <1>7, <2>5 DEF Stage
<1>8. CASE i \in m + 4 .. m + k + 3
  <2>. DEFINE j == i - m - 3
  <2>1. j \in 1..k /\ i = m + 3 + j
    BY <1>1, <1>8
  <2>2. t[i] = b[j] /\ b \in Seq(Work) /\ Paired(b)
    BY <2>1 DEF Text
  <2>3. Working(b, j, s)
    BY <1>1, <1>8 DEF Stage
  <2>4. Working(b, j + 1, u)
    BY <2>1, <2>2, <2>3, WorkStep
  <2>5. j + 1 = i + 1 - m - 3
    BY <1>1, <2>1
  <2>6. Working(b, i + 1 - m - 3, u)
    BY <2>4, <2>5
  <2>. QED BY <1>1, <1>8, <2>6 DEF Stage
<1>9. CASE i = m + k + 4
  <2>1. t[i].op = "end_transaction"
    BY <1>9, OpOfCall DEF Text
  <2>2. Effect(s, r, {"connection", "txn"}) /\ "txn" \notin u.held
    BY <2>1 DEF Does
  <2>3. Working(b, k + 1, s)
    BY <1>1, <1>9 DEF Stage
  <2>4. /\ s.held \subseteq Connecting \cup {"app", "txn", "options", "event"}
        /\ s.began => "options" \notin s.held /\ "event" \notin s.held
    BY <1>1, <2>3 DEF Working
  <2>5. /\ u.held \subseteq Connecting \cup {"app", "options", "event"}
        /\ u.began => "options" \notin u.held /\ "event" \notin u.held
    BY <2>2, <2>4 DEF Effect, Connecting
  <2>. QED BY <1>1, <1>9, <2>5 DEF Stage
<1>10. CASE i = m + k + 5
  <2>1. t[i].op = "destroy_app"
    BY <1>10, OpOfCall DEF Text
  <2>2. Effect(s, r, Connecting \cup {"app"}) /\ "app" \notin u.held
    BY <2>1 DEF Does
  <2>3. /\ s.held \subseteq Connecting \cup {"app", "options", "event"}
        /\ s.began => "options" \notin s.held /\ "event" \notin s.held
    BY <1>1, <1>10 DEF Stage
  <2>4. /\ u.held \subseteq Connecting \cup {"options", "event"}
        /\ u.began => "options" \notin u.held /\ "event" \notin u.held
    BY <2>2, <2>3 DEF Effect, Connecting
  <2>. QED BY <1>1, <1>10, <2>2, <2>4 DEF Stage
<1>. QED BY <1>1, <1>3, <1>4, <1>5, <1>6, <1>7, <1>8, <1>9, <1>10

----------------------------------------------------------------------------
\* The record of a process.
Endings == {"none", "done", "error", "crash", "killed"}
ProcRecord == [at : Nat, sdk : SdkState, end : Endings]

\* FreedAtExit, of one process.
Freed(q) ==
  LET s == q.sdk
      open == IF s.atexit THEN {} ELSE {"log", "connection"}
  IN  /\ q.end = "done" /\ s.began => s.held = {}
      /\ q.end = "done" => s.held \subseteq open \cup {"options", "event"}
      /\ q.end = "error" => s.held \subseteq open \cup {"config"}

\* Stage, and for the server only what its early statements hold: it never comes
\* to an end.
InPlace(p, i, s) ==
  IF p = "server" THEN i <= 7 => s.held \subseteq Connecting \cup {"config"}
  ELSE Stage(OpeningLen[p], WorkOf[p], i, s)

\* The inductive invariant of one process.
Fit(p, q) ==
  /\ q \in ProcRecord
  /\ q.at # 0 =>
       /\ q.at \in DOMAIN Program[p] /\ q.end = "none"
       /\ Sound(q.sdk) /\ InPlace(p, q.at, q.sdk)
  /\ Freed(q)

ProcInv ==
  /\ proc = [p \in Name |-> proc[p]]
  /\ \A p \in Name : Fit(p, proc[p])

\* A step that gives one process a record that fits keeps the invariant.
LEMMA OneProcess ==
  ASSUME ProcInv, NEW p \in Name, NEW q, Fit(p, q), proc' = [proc EXCEPT ![p] = q]
  PROVE  ProcInv'
<1>1. \A x \in Name : proc'[x] = IF x = p THEN q ELSE proc[x]
  BY DEF ProcInv
<1>2. proc' = [x \in Name |-> proc'[x]]
  BY DEF ProcInv
<1>3. \A x \in Name : Fit(x, proc'[x])
  BY <1>1 DEF ProcInv
<1>. QED BY <1>2, <1>3 DEF ProcInv

\* The handler at exit, when it is registered, gives back what the SDK's start
\* took; when it is not, there is no list of applications.
LEMMA ExitFrees ==
  ASSUME NEW s, Sound(s), NEW x, s.held \subseteq Connecting \cup x,
         NEW u, u = IF s.atexit THEN Shutdown(s) ELSE s
  PROVE  /\ u \in SdkState /\ u.began = s.began /\ u.held \subseteq s.held
         /\ u.held \subseteq (IF u.atexit THEN {} ELSE {"log", "connection"}) \cup x
<1>1. CASE s.atexit
  <2>. DEFINE v == Free(s, {"connection", "applist", "log"})
  <2>1. s \in SdkState /\ {"connection", "applist", "log"} \in SUBSET Resource
    BY DEF Sound, Resource
  <2>2. v \in SdkState /\ v.held = s.held \ {"connection", "applist", "log"}
        /\ v.atexit = s.atexit /\ v.began = s.began
    BY <2>1, TakeFree
  <2>3. u = [v EXCEPT !.logged = FALSE]
    BY <1>1 DEF Shutdown
  <2>. HIDE DEF v
  <2>4. /\ u \in SdkState /\ u.held = s.held \ {"connection", "applist", "log"}
        /\ u.atexit = s.atexit /\ u.began = s.began
    BY <2>2, <2>3 DEF SdkState
  <2>. QED BY <1>1, <2>4 DEF Connecting
<1>2. CASE ~s.atexit
  BY <1>2 DEF Sound, Connecting
<1>. QED BY <1>1, <1>2

\* The server's own statements never make it return, and start no segments.
LEMMA ServerStatements ==
  \A i \in 7..16 : /\ Program["server"][i].onFail = "goes on"
                  /\ Program["server"][i].op \notin {"start_segment", "end_segment"}
<1>1. \A i \in 1..10 : /\ ServerWork[i].onFail = "goes on"
                      /\ ServerWork[i].op \notin {"start_segment", "end_segment"}
  <2>1. \A op : Call(op).op = op /\ Call(op).onFail = "goes on"
    BY DEF Call, Statement
  <2>2. \A i \in 1..10 :
          ServerWork[i] \in {Call(op) : op \in
            {"create_app", "destroy_app_config", "unlink_response", "await_request",
             "start_transaction", "read_request", "unlink_request", "create_response",
             "end_transaction", "again"}}
    BY DEF ServerWork
  <2>. QED BY <2>1, <2>2
<1>2. ASSUME NEW i \in 7..16 PROVE Program["server"][i] = ServerWork[i - 6]
  <2>1. i - 6 \in 1..10 /\ 6 + (i - 6) = i
    OBVIOUS
  <2>2. ExServer[6 + (i - 6)] = ServerWork[i - 6]
    BY <2>1, ServerText
  <2>3. Program["server"] = ExServer
    BY DEF Program
  <2>. QED BY <2>1, <2>2, <2>3
<1>3. ASSUME NEW i \in 7..16
      PROVE  /\ Program["server"][i].onFail = "goes on"
             /\ Program["server"][i].op \notin {"start_segment", "end_segment"}
  <2>1. i - 6 \in 1..10
    OBVIOUS
  <2>. QED BY <1>1, <1>2, <2>1
<1>. QED BY <1>3, ZenonT(60)

\* A program returns early only while it holds no more than its configuration
\* and what the SDK's start took (ex_simple.c:24).
LEMMA Statements ==
  ASSUME NEW p \in Name, NEW i \in DOMAIN Program[p]
  PROVE  LET stmt == Program[p][i]
         IN  /\ stmt.op \in {"start_segment", "end_segment"} => stmt.seg \in Segment
             /\ stmt.onFail = "returns" =>
                  /\ stmt.op \in EarlyOps
                  /\ \A s : InPlace(p, i, s) => s.held \subseteq Connecting \cup {"config"}
<1>. DEFINE stmt == Program[p][i]
<1>1. CASE p = "server"
  <2>1. i \in 1..16
    BY <1>1, ServerPlaces, ZenonT(60)
  <2>2. CASE i \in 1..6
    <3>1. stmt.op \in EarlyOps
      BY <1>1, <2>2, ServerText DEF Program, Early
    <3>2. \A s : InPlace(p, i, s) => s.held \subseteq Connecting \cup {"config"}
      BY <1>1, <2>2 DEF InPlace
    <3>. QED BY <3>1, <3>2 DEF EarlyOps
  <2>3. CASE i \in 7..16
    BY <1>1, <2>3, ServerStatements
  <2>. QED BY <2>1, <2>2, <2>3
<1>2. CASE p # "server"
  <2>. DEFINE m == OpeningLen[p]
              b == WorkOf[p]
  <2>1. Text(Program[p], m, b)
    BY <1>2, Texts
  <2>. HIDE DEF m, b
  <2>2. b \in Seq(Work) /\ m \in Nat /\ i \in 1..m + Len(b) + 6 /\ Len(b) \in Nat
    <3>1. b \in Seq(Work)
      BY <2>1 DEF Text
    <3>. QED BY <2>1, <3>1 DEF Text
  <2>3. CASE i \in 1..m
    <3>1. stmt.op \in EarlyOps
      BY <2>1, <2>3 DEF Text, Early
    <3>2. \A s : InPlace(p, i, s) => s.held \subseteq Connecting \cup {"config"}
      BY <1>2, <2>2, <2>3 DEF InPlace, Stage, m
    <3>. QED BY <3>1, <3>2 DEF EarlyOps
  <2>4. CASE i \in m + 4 .. m + Len(b) + 3
    <3>1. i - m - 3 \in 1..Len(b) /\ i = m + 3 + (i - m - 3)
      BY <2>2, <2>4
    <3>2. stmt = b[i - m - 3] /\ Paired(b)
      BY <2>1, <3>1 DEF Text
    <3>3. b[i - m - 3] \in Work
      BY <2>2, <3>1
    <3>. QED BY <3>1, <3>2, <3>3 DEF Paired, Work
  <2>5. CASE i \in {m + 1, m + 2, m + 3, m + Len(b) + 4, m + Len(b) + 5, m + Len(b) + 6}
    <3>1. stmt \in {Call("create_app"), Call("destroy_app_config"), Call("start_transaction"),
                    Call("end_transaction"), Call("destroy_app"), Call("return")}
      BY <2>1, <2>5 DEF Text
    <3>2. \A op : Call(op).op = op /\ Call(op).onFail = "goes on"
      BY DEF Call, Statement
    <3>. QED BY <3>1, <3>2
  <2>. QED BY <2>2, <2>3, <2>4, <2>5
<1>. QED BY <1>1, <1>2

\* A statement that is neither the last nor the end of a round is followed by
\* another, at whose place its outcome is allowed.
LEMMA NextPlace ==
  ASSUME NEW p \in Name, NEW i \in DOMAIN Program[p],
         Program[p][i].op \notin {"return", "again"},
         NEW s, Sound(s), InPlace(p, i, s), NEW r, Does(Program[p][i], s, r)
  PROVE  i + 1 \in DOMAIN Program[p] /\ InPlace(p, i + 1, r.sdk)
<1>1. CASE p # "server"
  <2>1. Text(Program[p], OpeningLen[p], WorkOf[p])
    BY <1>1, Texts
  <2>2. Stage(OpeningLen[p], WorkOf[p], i, s)
    BY <1>1 DEF InPlace
  <2>3. i + 1 \in DOMAIN Program[p] /\ Stage(OpeningLen[p], WorkOf[p], i + 1, r.sdk)
    BY <2>1, <2>2, StageStep
  <2>. QED BY <1>1, <2>3 DEF InPlace
<1>2. CASE p = "server"
  <2>1. i \in 1..16 /\ DOMAIN Program[p] = 1..16
    BY <1>2, ServerPlaces, ZenonT(60)
  <2>2. i # 16
    BY <1>2, <2>1, ServerPlaces
  <2>3. i + 1 \in DOMAIN Program[p]
    BY <2>1, <2>2
  <2>4. CASE i \in 1..6
    <3>1. Program[p][i].op \in EarlyOps
      BY <1>2, <2>4, ServerText DEF Program, Early
    <3>2. Effect(s, r, Connecting \cup {"config"})
      BY <3>1 DEF Does
    <3>3. s.held \subseteq Connecting \cup {"config"}
      BY <1>2, <2>4 DEF InPlace
    <3>4. r.sdk.held \subseteq Connecting \cup {"config"}
      BY <3>2, <3>3 DEF Effect
    <3>. QED BY <1>2, <2>3, <3>4 DEF InPlace
  <2>5. CASE i \in 7..16
    BY <1>2, <2>3, <2>5 DEF InPlace
  <2>. QED BY <2>1, <2>4, <2>5
<1>. QED BY <1>1, <1>2

\* A process that makes a call and goes on fits its new place.
LEMMA Moves ==
  ASSUME NEW p \in Name, NEW q, Fit(p, q), q.at # 0,
         Program[p][q.at].op \notin {"return", "again"},
         NEW r \in Outcomes(Program[p][q.at], q.sdk)
  PROVE  /\ Fit(p, [q EXCEPT !.at = @ + 1, !.sdk = r.sdk])
         /\ Does(Program[p][q.at], q.sdk, r)
<1>. DEFINE i == q.at
            s == q.sdk
            v == [q EXCEPT !.at = @ + 1, !.sdk = r.sdk]
<1>1. /\ q \in ProcRecord /\ i \in DOMAIN Program[p] /\ q.end = "none" /\ Sound(s)
      /\ InPlace(p, i, s) /\ i \in Nat
  BY DEF Fit, ProcRecord
<1>2. Program[p][i].op \in {"start_segment", "end_segment"} =>
        Program[p][i].seg \in Segment
  BY <1>1, Statements, ZenonT(60)
<1>3. Does(Program[p][i], s, r)
  BY <1>1, <1>2, OutcomesDo
<1>4. i + 1 \in DOMAIN Program[p] /\ InPlace(p, i + 1, r.sdk)
  BY <1>1, <1>3, NextPlace
<1>5. r.sdk \in SdkState /\ Sound(r.sdk)
  BY <1>3 DEF Does, Sound
<1>6. v \in ProcRecord /\ v.at = i + 1 /\ v.sdk = r.sdk /\ v.end = "none"
  <2>. DEFINE j == i + 1
              u == r.sdk
  <2>1. j \in Nat /\ u \in SdkState
    BY <1>1, <1>5
  <2>2. v = [q EXCEPT !.at = j, !.sdk = u]
    OBVIOUS
  <2>. HIDE DEF j, u, v
  <2>3. v \in ProcRecord /\ v.at = j /\ v.sdk = u /\ v.end = q.end
    BY <1>1, <2>1, <2>2 DEF ProcRecord
  <2>. QED BY <1>1, <2>3 DEF j, u
<1>. HIDE DEF v
<1>7. Freed(v)
  BY <1>6 DEF Freed
<1>8. Fit(p, v)
  BY <1>4, <1>5, <1>6, <1>7 DEF Fit
<1>. QED BY <1>3, <1>8 DEF v

\* So does a process that touches a file.
LEMMA Passes ==
  ASSUME NEW p \in Name, NEW q, Fit(p, q), q.at # 0,
         Program[p][q.at].op \in FileOps \ {"again"}
  PROVE  Fit(p, [q EXCEPT !.at = @ + 1])
<1>. DEFINE stmt == Program[p][q.at]
            r == Result(TRUE, q.sdk)
<1>1. Outcomes(stmt, q.sdk) = Only(TRUE, q.sdk)
  BY DEF Outcomes, FileOps
<1>2. r \in Outcomes(stmt, q.sdk) /\ r.sdk = q.sdk
  BY <1>1 DEF Only, Result
<1>3. stmt.op \notin {"return", "again"}
  BY DEF FileOps
<1>4. Fit(p, [q EXCEPT !.at = @ + 1, !.sdk = r.sdk])
  BY <1>2, <1>3, Moves
<1>5. [q EXCEPT !.at = @ + 1, !.sdk = r.sdk] = [q EXCEPT !.at = @ + 1]
  BY <1>2 DEF Fit, ProcRecord
<1>. QED BY <1>4, <1>5

\* A process that comes to an end keeps the invariant when it has freed what
\* FreedAtExit says.
LEMMA Stops ==
  ASSUME ProcInv, NEW p \in Name, NEW u \in SdkState, NEW how \in Endings,
         Stop(p, u, how),
         Freed([at |-> 0, sdk |-> u, end |-> how])
  PROVE  ProcInv'
<1>. DEFINE q == [at |-> 0, sdk |-> u, end |-> how]
<1>1. q \in ProcRecord /\ q.at = 0
  BY DEF ProcRecord
<1>2. Fit(p, q)
  BY <1>1 DEF Fit
<1>3. proc' = [proc EXCEPT ![p] = q]
  BY DEF Stop
<1>. QED BY <1>2, <1>3, OneProcess

\* An SDK that was not used yet is sound.
LEMMA UnusedSound == Sound(Unused)
BY DEF Sound, Unused, SdkState, Resource

\* A process that crashes or is killed leaves nothing to its successor.
LEMMA UnusedStops ==
  ASSUME ProcInv, NEW p \in Name, NEW how \in {"crash", "killed"}, Stop(p, Unused, how)
  PROVE  ProcInv'
<1>1. Unused \in SdkState
  BY UnusedSound DEF Sound
<1>2. Freed([at |-> 0, sdk |-> Unused, end |-> how])
  BY DEF Freed
<1>3. how \in Endings
  BY DEF Endings
<1>. QED BY <1>1, <1>2, <1>3, Stops

\* Launch keeps the invariant: main begins with nothing held.
LEMMA LaunchProc ==
  ASSUME ProcInv, NEW p \in Name, Launch(p)
  PROVE  ProcInv'
<1>. DEFINE q == [at |-> 1, sdk |-> Unused, end |-> "none"]
<1>1. q \in ProcRecord /\ q.at = 1 /\ q.sdk = Unused /\ q.end = "none"
  BY UnusedSound DEF ProcRecord, Endings, Sound
<1>2. proc' = [proc EXCEPT ![p] = q]
  BY DEF Launch
<1>. HIDE DEF q
<1>3. Unused.held = {} /\ ~Unused.began
  BY DEF Unused
<1>4. 1 \in DOMAIN Program[p] /\ InPlace(p, 1, Unused)
  <2>1. CASE p = "server"
    BY <1>3, <2>1, ServerPlaces DEF InPlace
  <2>2. CASE p # "server"
    <3>. DEFINE m == OpeningLen[p]
                b == WorkOf[p]
    <3>1. Text(Program[p], m, b)
      BY <2>2, Texts
    <3>. HIDE DEF m, b
    <3>2. b \in Seq(Work) /\ m \in Nat
      BY <3>1 DEF Text
    <3>3. Len(b) \in Nat
      BY <3>2
    <3>4. 1 \in DOMAIN Program[p]
      BY <3>1, <3>2, <3>3 DEF Text
    <3>5. Stage(m, b, 1, Unused)
      BY <1>3, <3>2, <3>3 DEF Stage
    <3>. QED BY <2>2, <3>4, <3>5 DEF InPlace, m, b
  <2>. QED BY <2>1, <2>2
<1>5. Freed(q)
  BY <1>1 DEF Freed
<1>6. Fit(p, q)
  BY <1>1, <1>4, <1>5, UnusedSound DEF Fit
<1>. QED BY <1>2, <1>6, OneProcess

\* A call keeps the invariant, whether main goes on, returns or crashes.
LEMMA SdkCallProc ==
  ASSUME ProcInv, NEW p \in Name, SdkCall(p)
  PROVE  ProcInv'
<1>. DEFINE q == proc[p]
            stmt == Program[p][q.at]
<1>1. Fit(p, q) /\ q.at # 0 /\ stmt.op \notin {"return", "again"}
  BY DEF ProcInv, SdkCall, Running, FileOps
<1>2. PICK r \in Possible(stmt, q.sdk) :
        \/ proc' = [proc EXCEPT ![p].at = @ + 1, ![p].sdk = r.sdk]
        \/ ~r.ok /\ stmt.onFail = "returns" /\ Exit(p, r.sdk, "error")
        \/ ~r.ok /\ stmt.onFail = "crashes" /\ Stop(p, Unused, "crash")
  BY DEF SdkCall
<1>3. r \in Outcomes(stmt, q.sdk)
  BY DEF Possible
<1>. HIDE DEF q
<1>4. Fit(p, [q EXCEPT !.at = @ + 1, !.sdk = r.sdk]) /\ Does(stmt, q.sdk, r)
  BY <1>1, <1>3, Moves
<1>5. CASE proc' = [proc EXCEPT ![p].at = @ + 1, ![p].sdk = r.sdk]
  <2>1. proc' = [proc EXCEPT ![p] = [q EXCEPT !.at = @ + 1, !.sdk = r.sdk]]
    BY <1>5 DEF q, ProcInv
  <2>. QED BY <1>4, <2>1, OneProcess
<1>6. CASE stmt.onFail = "returns" /\ Exit(p, r.sdk, "error")
  <2>1. q.at \in DOMAIN Program[p] /\ InPlace(p, q.at, q.sdk)
    BY <1>1 DEF Fit
  <2>2. stmt.op \in EarlyOps /\ q.sdk.held \subseteq Connecting \cup {"config"}
    BY <1>6, <2>1, Statements, ZenonT(60)
  <2>. DEFINE x == {"config"}
  <2>3. Sound(r.sdk) /\ r.sdk.held \subseteq Connecting \cup x
    BY <1>4, <2>2 DEF Does, Effect
  <2>. DEFINE u == IF r.sdk.atexit THEN Shutdown(r.sdk) ELSE r.sdk
  <2>4. Stop(p, u, "error")
    BY <1>6 DEF Exit
  <2>5. u = IF r.sdk.atexit THEN Shutdown(r.sdk) ELSE r.sdk
    OBVIOUS
  <2>. HIDE DEF u, x
  <2>6. /\ u \in SdkState
        /\ u.held \subseteq (IF u.atexit THEN {} ELSE {"log", "connection"}) \cup x
    BY <2>3, <2>5, ExitFrees
  <2>7. Freed([at |-> 0, sdk |-> u, end |-> "error"])
    BY <2>6 DEF Freed, x
  <2>8. "error" \in Endings
    BY DEF Endings
  <2>. QED BY <2>4, <2>6, <2>7, <2>8, Stops
<1>7. CASE Stop(p, Unused, "crash")
  BY <1>7, UnusedStops
<1>. QED BY <1>2, <1>5, <1>6, <1>7

\* At the return of main, after newrelic_end_transaction and
\* newrelic_destroy_app, what may still be held is what FreedAtExit allows.
LEMMA ReturnProc ==
  ASSUME ProcInv, NEW p \in Name, Return(p)
  PROVE  ProcInv'
<1>. DEFINE s == proc[p].sdk
            i == proc[p].at
            u == IF s.atexit THEN Shutdown(s) ELSE s
            m == OpeningLen[p]
            b == WorkOf[p]
<1>1. /\ i \in DOMAIN Program[p] /\ Sound(s) /\ InPlace(p, i, s)
      /\ Program[p][i].op = "return"
  BY DEF ProcInv, Fit, Return, At, Running
<1>2. p # "server"
  BY <1>1, ServerPlaces
<1>3. Text(Program[p], m, b) /\ Stage(m, b, i, s)
  BY <1>1, <1>2, Texts DEF InPlace
<1>. HIDE DEF m, b
<1>4. b \in Seq(Work) /\ m \in Nat
  BY <1>3 DEF Text
<1>5. Len(b) \in Nat
  BY <1>4
<1>. HIDE DEF i
<1>6. i = m + Len(b) + 6
  <2>1. CASE i \in 1..m
    BY <1>1, <1>3, <2>1 DEF Text, Early, EarlyOps
  <2>2. CASE i \in m + 4 .. m + Len(b) + 3
    <3>1. i - m - 3 \in 1..Len(b) /\ i = m + 3 + (i - m - 3)
      BY <1>4, <1>5, <2>2
    <3>2. Program[p][i] = b[i - m - 3]
      BY <1>3, <3>1 DEF Text
    <3>3. b[i - m - 3] \in Work
      BY <1>4, <3>1
    <3>. QED BY <1>1, <3>2, <3>3 DEF Work, WorkOps
  <2>3. CASE i \in {m + 1, m + 2, m + 3, m + Len(b) + 4, m + Len(b) + 5}
    <3>1. Program[p][i] \in {Call("create_app"), Call("destroy_app_config"),
             Call("start_transaction"), Call("end_transaction"), Call("destroy_app")}
      BY <1>3, <2>3 DEF Text
    <3>. QED BY <1>1, <3>1, OpOfCall
  <2>4. i \in 1..m + Len(b) + 6
    BY <1>1, <1>3 DEF Text
  <2>. QED BY <1>4, <1>5, <2>1, <2>2, <2>3, <2>4
<1>7. /\ s.held \subseteq Connecting \cup {"options", "event"}
      /\ s.began => s.held \subseteq Connecting /\ s.atexit
  BY <1>1, <1>3, <1>4, <1>5, <1>6 DEF Stage, Sound, Connecting
<1>. HIDE DEF s
<1>8. u = IF s.atexit THEN Shutdown(s) ELSE s
  OBVIOUS
<1>9. s.began => u.atexit
  BY <1>1, <1>7 DEF Shutdown, Free, Sound, SdkState
<1>10. Stop(p, u, "done")
  BY DEF Return, Exit, s
<1>. HIDE DEF u
<1>11. /\ u \in SdkState /\ u.began = s.began
       /\ u.held \subseteq (IF u.atexit THEN {} ELSE {"log", "connection"})
                          \cup {"options", "event"}
  <2>. DEFINE x == {"options", "event"}
  <2>1. s.held \subseteq Connecting \cup x
    BY <1>7
  <2>. HIDE DEF x
  <2>2. /\ u \in SdkState /\ u.began = s.began
        /\ u.held \subseteq (IF u.atexit THEN {} ELSE {"log", "connection"}) \cup x
    BY <1>1, <1>8, <2>1, ExitFrees
  <2>. QED BY <2>2 DEF x
<1>12. s.began => u.held \subseteq IF u.atexit THEN {} ELSE {"log", "connection"}
  <2>1. s.held \subseteq Connecting \cup {} /\ Sound(s) =>
          u.held \subseteq (IF u.atexit THEN {} ELSE {"log", "connection"}) \cup {}
    BY <1>8, ExitFrees
  <2>. QED BY <1>1, <1>7, <2>1
<1>13. Freed([at |-> 0, sdk |-> u, end |-> "done"])
  BY <1>9, <1>11, <1>12 DEF Freed
<1>14. "done" \in Endings
  BY DEF Endings
<1>. QED BY <1>10, <1>11, <1>13, <1>14, Stops

\* A statement on the files keeps the invariant.
LEMMA ProceedProc ==
  ASSUME ProcInv, NEW p \in Name, NEW op \in FileOps \ {"again"}, At(p, op), Proceed(p)
  PROVE  ProcInv'
<1>. DEFINE q == proc[p]
<1>1. Fit(p, q) /\ q.at # 0 /\ Program[p][q.at].op \in FileOps \ {"again"}
  BY DEF ProcInv, At, Running
<1>2. proc' = [proc EXCEPT ![p] = [q EXCEPT !.at = @ + 1]]
  BY DEF Proceed, Goto, ProcInv
<1>. HIDE DEF q
<1>3. Fit(p, [q EXCEPT !.at = @ + 1])
  BY <1>1, Passes
<1>. QED BY <1>2, <1>3, OneProcess

\* So does a jump to a place that allows what is held.
LEMMA GotoProc ==
  ASSUME ProcInv, NEW p \in Name, Running(p), NEW i \in DOMAIN Program[p],
         i \in Nat \ {0}, InPlace(p, i, proc[p].sdk), Goto(p, i)
  PROVE  ProcInv'
<1>. DEFINE q == proc[p]
            v == [q EXCEPT !.at = i]
<1>1. q \in ProcRecord /\ q.end = "none" /\ Sound(q.sdk)
  BY DEF ProcInv, Fit, Running
<1>2. proc' = [proc EXCEPT ![p] = v]
  BY DEF Goto, ProcInv
<1>3. InPlace(p, i, q.sdk)
  OBVIOUS
<1>. HIDE DEF q
<1>4. v \in ProcRecord /\ v.at = i /\ v.sdk = q.sdk /\ v.end = "none"
  BY <1>1 DEF ProcRecord
<1>. HIDE DEF v
<1>5. Freed(v)
  BY <1>4 DEF Freed
<1>6. Fit(p, v)
  BY <1>1, <1>3, <1>4, <1>5 DEF Fit
<1>. QED BY <1>2, <1>6, OneProcess

\* The client that cannot create its request still ends its segment.
LEMMA CreateRequestProc ==
  ASSUME ProcInv, CreateRequest
  PROVE  ProcInv'
<1>. DEFINE s == proc["client"].sdk
            b == ClientWork
<1>1. "client" \in Name /\ "create_request" \in FileOps \ {"again"}
  BY DEF Name, Program, FileOps
<1>2. CASE Proceed("client")
  BY <1>1, <1>2, ProceedProc DEF CreateRequest
<1>3. CASE Goto("client", Place("client", "unlink_response") + 1)
  <2>1. Goto("client", 16)
    BY <1>3, Jumps
  <2>2. /\ Running("client") /\ proc["client"].at \in DOMAIN Program["client"]
        /\ InPlace("client", proc["client"].at, s)
        /\ Program["client"][proc["client"].at].op = "create_request"
    BY <1>1 DEF CreateRequest, At, Running, ProcInv, Fit
  <2>3. proc["client"].at = 12
    BY <2>2, ClientPlaces
  <2>4. OpeningLen["client"] = 6 /\ WorkOf["client"] = b /\ Len(b) = 7
    BY DEF OpeningLen, WorkOf, ClientWork
  <2>5. Stage(6, b, 12, s)
    BY <2>2, <2>3, <2>4 DEF InPlace
  <2>6. \A l \in 1..6 : b[l].op \notin {"end_segment", "record_custom_event"}
    <3>1. /\ b[1] = On("start_segment", "external") /\ b[2] = Call("unlink_request")
          /\ b[3] = Call("create_request") /\ b[4] = Call("write_request")
          /\ b[5] = Call("await_response") /\ b[6] = Call("unlink_response")
      BY DEF ClientWork
    <3>2. On("start_segment", "external").op = "start_segment"
      BY DEF On, Statement
    <3>. HIDE DEF b
    <3>3. /\ b[1].op = "start_segment" /\ b[2].op = "unlink_request"
          /\ b[3].op = "create_request" /\ b[4].op = "write_request"
          /\ b[5].op = "await_response" /\ b[6].op = "unlink_response"
      BY <3>1, <3>2, OpOfCall
    <3>. QED BY <3>3
  <2>7. Len(b) = 7
    BY <2>4
  <2>. HIDE DEF b, s
  <2>8. Working(b, 3, s)
    BY <2>5, <2>7 DEF Stage
  <2>9. \A l \in 3..Len(b) : l \in 7..Len(b) \/ l \in 1..6
    BY <2>7
  <2>10. Working(b, 7, s)
    BY <2>6, <2>8, <2>9 DEF Working
  <2>11. Stage(6, b, 16, s)
    BY <2>7, <2>10 DEF Stage
  <2>12. InPlace("client", 16, s)
    BY <2>4, <2>11 DEF InPlace
  <2>13. 16 \in DOMAIN Program["client"]
    BY ClientPlaces
  <2>. QED BY <1>1, <2>1, <2>2, <2>12, <2>13, GotoProc DEF s
<1>. QED BY <1>2, <1>3 DEF CreateRequest

\* The server's next round keeps the invariant.
LEMMA AgainProc ==
  ASSUME ProcInv, Again
  PROVE  ProcInv'
<1>1. "server" \in Name
  BY DEF Name, Program
<1>2. Running("server") /\ Goto("server", 10)
  BY Jumps DEF Again, At
<1>3. InPlace("server", 10, proc["server"].sdk)
  BY DEF InPlace
<1>4. 10 \in DOMAIN Program["server"]
  BY ServerPlaces
<1>. QED BY <1>1, <1>2, <1>3, <1>4, GotoProc

\* Every step keeps the invariant of the processes.
LEMMA ProcNext ==
  ASSUME ProcInv, [Next]_vars
  PROVE  ProcInv'
<1>1. {"client", "server"} \subseteq Name
  BY DEF Name, Program
<1>2. ASSUME NEW p \in Name, Launch(p) PROVE ProcInv'
  BY <1>2, LaunchProc
<1>3. ASSUME NEW p \in Name, CommonStep(p) PROVE ProcInv'
  <2>1. {"unlink_request", "unlink_response"} \subseteq FileOps \ {"again"}
    BY DEF FileOps
  <2>. QED BY <1>3, <2>1, SdkCallProc, ReturnProc, ProceedProc
           DEF CommonStep, UnlinkRequest, UnlinkResponse
<1>4. ASSUME NEW p \in Name, Kill(p) PROVE ProcInv'
  BY <1>4, UnusedStops DEF Kill
<1>5. CASE ClientStep
  <2>1. {"write_request", "await_response"} \subseteq FileOps \ {"again"}
    BY DEF FileOps
  <2>. QED BY <1>1, <1>5, <2>1, CreateRequestProc, ProceedProc
           DEF ClientStep, WriteRequest, AwaitResponse
<1>6. CASE ServerStep
  <2>1. {"await_request", "read_request", "create_response"} \subseteq FileOps \ {"again"}
    BY DEF FileOps
  <2>. QED BY <1>1, <1>6, <2>1, AgainProc, ProceedProc
           DEF ServerStep, AwaitRequest, ReadRequest, CreateResponse
<1>7. CASE UNCHANGED vars
  BY <1>7 DEF vars, ProcInv
<1>. QED BY <1>2, <1>3, <1>4, <1>5, <1>6, <1>7 DEF Next

\* It holds at the start.
LEMMA ProcInit == ASSUME Init PROVE ProcInv
<1>. DEFINE q == [at |-> 0, sdk |-> Unused, end |-> "none"]
<1>1. proc = [p \in Name |-> q]
  BY DEF Init
<1>2. q \in ProcRecord /\ q.at = 0 /\ q.end = "none"
  BY UnusedSound DEF ProcRecord, Endings, Sound
<1>. HIDE DEF q
<1>3. Freed(q)
  BY <1>2 DEF Freed
<1>4. \A p \in Name : Fit(p, q)
  BY <1>2, <1>3 DEF Fit
<1>. QED BY <1>1, <1>4 DEF ProcInv

\* Whatever calls fail, whenever programs are started or killed and however many
\* are run: an example that ended after it started a transaction has freed what
\* it took, and one that returned early keeps at most its log, a socket and its
\* configuration.
THEOREM ExamplesFree == Spec => []FreedAtExit
<1>1. ProcInv => FreedAtExit
  BY DEF ProcInv, Fit, Freed, FreedAtExit
<1>. QED BY <1>1, ProcInit, ProcNext, PTL DEF Spec

\* Nothing went wrong that HandledWhenReleased excuses.
Untroubled == faults \cap {"leftover", "slow", "client"} = {}
ClientAt == proc["client"].at
ServerAt == proc["server"].at
ThisRun == runs["client"]

\* The inductive invariant of the two files. The request in the file system is the
\* one of the client that is running, and it is gone before there is a response to
\* it. The server, from the moment it opened a request until it answers it, works
\* for the client that is waiting: no client can have left in between, since none
\* leaves without a response, and a response is made only for a request that was
\* read.
FileInv ==
  /\ runs = [p \in Name |-> runs[p]]
  /\ Untroubled =>
       /\ request # NoFile => request = ThisRun /\ ClientAt \in {13, 14} /\ ~response
       /\ response => ClientAt \in {13, 14, 15} /\ ThisRun \in handled
       /\ ServerAt \in {11, 12, 13} =>
            opened = ThisRun /\ ClientAt \in {13, 14} /\ ~response
       /\ ServerAt = 13 => ThisRun \in handled
       /\ ServerAt = 14 =>
            /\ ClientAt \in {13, 14} /\ ThisRun \in handled
            /\ ~response /\ request = NoFile
       /\ released \subseteq handled

\* Where the client and the server can be.
LEMMA Whereabouts ==
  ASSUME ProcInv
  PROVE  /\ ClientAt \in 0..19 /\ ServerAt \in 0..16
         /\ \A op : At("client", op) =>
              ClientAt # 0 /\ Program["client"][ClientAt].op = op
         /\ \A op : At("server", op) =>
              ServerAt # 0 /\ Program["server"][ServerAt].op = op
         /\ {"client", "server"} \subseteq Name
<1>1. {"client", "server"} \subseteq Name
  BY DEF Name, Program
<1>2. /\ ClientAt = 0 \/ ClientAt \in DOMAIN Program["client"]
      /\ ServerAt = 0 \/ ServerAt \in DOMAIN Program["server"]
  BY <1>1 DEF ProcInv, Fit, ClientAt, ServerAt
<1>3. DOMAIN Program["client"] = 1..19 /\ DOMAIN Program["server"] = 1..16
  BY ClientPlaces, ServerPlaces, ZenonT(60)
<1>4. ClientAt \in 0..19 /\ ServerAt \in 0..16
  BY <1>2, <1>3
<1>. QED BY <1>1, <1>4 DEF At, Running, ClientAt, ServerAt

\* A jump moves one process.
LEMMA Going ==
  ASSUME ProcInv, NEW p \in Name, NEW i, Goto(p, i)
  PROVE  proc'[p].at = i /\ \A x \in Name \ {p} : proc'[x] = proc[x]
<1>. DEFINE v == [proc[p] EXCEPT !.at = i]
<1>1. proc' = [proc EXCEPT ![p] = v]
  BY DEF Goto, ProcInv
<1>2. v.at = i
  BY DEF ProcInv, Fit, ProcRecord
<1>. HIDE DEF v
<1>. QED BY <1>1, <1>2 DEF ProcInv

\* The end of a process moves no other.
LEMMA Stopping ==
  ASSUME ProcInv, NEW p \in Name, NEW u, NEW how, Stop(p, u, how)
  PROVE  proc'[p].at = 0 /\ \A x \in Name \ {p} : proc'[x] = proc[x]
<1>. DEFINE v == [at |-> 0, sdk |-> u, end |-> how]
<1>1. proc' = [proc EXCEPT ![p] = v]
  BY DEF Stop
<1>2. v.at = 0
  OBVIOUS
<1>. HIDE DEF v
<1>. QED BY <1>1, <1>2 DEF ProcInv

\* A call of the SDK moves its process by one statement or ends it.
LEMMA Calling ==
  ASSUME ProcInv, NEW p \in Name, SdkCall(p)
  PROVE  /\ proc'[p].at \in {0, proc[p].at + 1}
         /\ \A x \in Name \ {p} : proc'[x] = proc[x]
         /\ proc[p].at # 0 /\ Program[p][proc[p].at].op \notin FileOps \cup {"return"}
<1>1. PICK r \in Possible(Program[p][proc[p].at], proc[p].sdk) :
        \/ proc' = [proc EXCEPT ![p].at = @ + 1, ![p].sdk = r.sdk]
        \/ Exit(p, r.sdk, "error")
        \/ Stop(p, Unused, "crash")
  BY DEF SdkCall
<1>2. CASE proc' = [proc EXCEPT ![p].at = @ + 1, ![p].sdk = r.sdk]
  <2>. DEFINE q == proc[p]
              j == q.at + 1
              u == r.sdk
              v == [q EXCEPT !.at = j, !.sdk = u]
  <2>1. proc' = [proc EXCEPT ![p] = v]
    BY <1>2 DEF ProcInv
  <2>2. q \in ProcRecord
    BY DEF ProcInv, Fit
  <2>. HIDE DEF j, u, q
  <2>3. v.at = j
    BY <2>2 DEF ProcRecord
  <2>. HIDE DEF v
  <2>4. proc'[p].at = j /\ \A x \in Name \ {p} : proc'[x] = proc[x]
    BY <2>1, <2>3 DEF ProcInv
  <2>. QED BY <2>4 DEF SdkCall, Running, j, q
<1>3. CASE Exit(p, r.sdk, "error") \/ Stop(p, Unused, "crash")
  BY <1>3, Stopping DEF Exit, SdkCall, Running
<1>. QED BY <1>1, <1>2, <1>3

\* Launch: a client that starts finds no request and no response, and no server
\* at work for an earlier client.
LEMMA LaunchFiles ==
  ASSUME ProcInv, FileInv, NEW p \in Name, Launch(p)
  PROVE  FileInv'
<1>. DEFINE v == [at |-> 1, sdk |-> Unused, end |-> "none"]
<1>1. proc[p].at = 0 /\ proc' = [proc EXCEPT ![p] = v] /\ v.at = 1
  BY DEF Launch, Running
<1>. HIDE DEF v
<1>2. proc'[p].at = 1 /\ \A x \in Name \ {p} : proc'[x] = proc[x]
  BY <1>1 DEF ProcInv
<1>3. /\ runs' = [x \in Name |-> runs'[x]]
      /\ \A x \in Name \ {p} : runs'[x] = runs[x]
  BY DEF Launch, FileInv
<1>4. UNCHANGED <<request, response, opened, handled, released, faults>> /\ NoFile' = NoFile
  BY DEF Launch, files, NoFile
<1>5. CASE p = "client"
  <2>1. ClientAt = 0 /\ ClientAt' = 1 /\ ServerAt' = ServerAt
    BY <1>1, <1>2, <1>5, Whereabouts DEF ClientAt, ServerAt
  <2>. QED BY <1>3, <1>4, <2>1 DEF FileInv, Untroubled
<1>6. CASE p = "server"
  <2>1. ServerAt' = 1 /\ ClientAt' = ClientAt /\ ThisRun' = ThisRun
    BY <1>2, <1>3, <1>6, Whereabouts DEF ClientAt, ServerAt, ThisRun
  <2>. QED BY <1>3, <1>4, <2>1 DEF FileInv, Untroubled
<1>7. CASE p \notin {"client", "server"}
  <2>1. ServerAt' = ServerAt /\ ClientAt' = ClientAt /\ ThisRun' = ThisRun
    BY <1>2, <1>3, <1>7, Whereabouts DEF ClientAt, ServerAt, ThisRun
  <2>. QED BY <1>3, <1>4, <2>1 DEF FileInv, Untroubled
<1>. QED BY <1>5, <1>6, <1>7

\* The calls of the SDK touch no file and none of the places that matter.
LEMMA SdkCallFiles ==
  ASSUME ProcInv, FileInv, NEW p \in Name, SdkCall(p)
  PROVE  FileInv'
<1>1. /\ UNCHANGED <<request, response, opened, handled, released, faults, runs>>
      /\ NoFile' = NoFile /\ ThisRun' = ThisRun
  BY DEF SdkCall, files, NoFile, ThisRun
<1>2. /\ proc'[p].at \in {0, proc[p].at + 1}
      /\ \A x \in Name \ {p} : proc'[x] = proc[x]
      /\ proc[p].at # 0 /\ Program[p][proc[p].at].op \notin FileOps \cup {"return"}
  BY Calling
<1>3. CASE p = "client"
  <2>1. /\ ClientAt \in 1..19 /\ ClientAt' \in {0, ClientAt + 1} /\ ServerAt' = ServerAt
        /\ Program["client"][ClientAt].op \notin FileOps
    BY <1>2, <1>3, Whereabouts DEF ClientAt, ServerAt
  <2>2. ClientAt \notin {11, 12, 13, 14, 15}
    BY <2>1, ClientPlaces DEF FileOps
  <2>3. ClientAt \notin {13, 14, 15} /\ ClientAt' \notin {13, 14, 15}
    BY <2>1, <2>2
  <2>. QED BY <1>1, <2>1, <2>3 DEF FileInv, Untroubled
<1>4. CASE p = "server"
  <2>1. /\ ServerAt \in 1..16 /\ ServerAt' \in {0, ServerAt + 1} /\ ClientAt' = ClientAt
        /\ Program["server"][ServerAt].op \notin FileOps
    BY <1>2, <1>4, Whereabouts DEF ClientAt, ServerAt
  <2>2. ServerAt \notin {9, 10, 12, 13, 14, 16}
    BY <2>1, ServerPlaces DEF FileOps
  <2>3. ServerAt' \notin {11, 13, 14} /\ (ServerAt' = 12 => ServerAt = 11)
    BY <2>1, <2>2
  <2>. QED BY <1>1, <2>1, <2>3 DEF FileInv, Untroubled
<1>5. CASE p \notin {"client", "server"}
  <2>1. ServerAt' = ServerAt /\ ClientAt' = ClientAt
    BY <1>2, <1>5, Whereabouts DEF ClientAt, ServerAt
  <2>. QED BY <1>1, <2>1 DEF FileInv, Untroubled
<1>. QED BY <1>3, <1>4, <1>5

\* A client returns after it removed its response.
LEMMA ReturnFiles ==
  ASSUME ProcInv, FileInv, NEW p \in Name, Return(p)
  PROVE  FileInv'
<1>1. /\ UNCHANGED <<request, response, opened, handled, released, faults, runs>>
      /\ NoFile' = NoFile /\ ThisRun' = ThisRun
  BY DEF Return, files, NoFile, ThisRun
<1>2. proc'[p].at = 0 /\ \A x \in Name \ {p} : proc'[x] = proc[x]
  BY Stopping DEF Return, Exit
<1>3. CASE p = "client"
  <2>1. /\ ClientAt \in 1..19 /\ ClientAt' = 0 /\ ServerAt' = ServerAt
        /\ Program["client"][ClientAt].op = "return"
    BY <1>2, <1>3, Whereabouts DEF ClientAt, ServerAt, Return
  <2>2. ClientAt = 19
    BY <2>1, ClientPlaces
  <2>. QED BY <1>1, <2>1, <2>2 DEF FileInv, Untroubled
<1>4. CASE p # "client"
  <2>1. ServerAt' \in {0, ServerAt} /\ ClientAt' = ClientAt
    BY <1>2, <1>4, Whereabouts DEF ClientAt, ServerAt
  <2>. QED BY <1>1, <2>1 DEF FileInv, Untroubled
<1>. QED BY <1>3, <1>4

\* A server that is killed leaves the request or the response for the waiting
\* client; the death of a client is excused.
LEMMA KillFiles ==
  ASSUME ProcInv, FileInv, NEW p \in Name, Kill(p)
  PROVE  FileInv'
<1>1. /\ UNCHANGED <<request, response, handled, released, runs>>
      /\ faults' = faults \cup {p} /\ p \in {"client", "server"}
      /\ NoFile' = NoFile /\ ThisRun' = ThisRun
  BY DEF Kill, Fault, NoFile, ThisRun
<1>2. proc'[p].at = 0 /\ \A x \in Name \ {p} : proc'[x] = proc[x]
  BY Stopping DEF Kill
<1>3. CASE p = "client"
  BY <1>1, <1>3 DEF FileInv, Untroubled
<1>4. CASE p = "server"
  <2>1. ServerAt' = 0 /\ ClientAt' = ClientAt
    BY <1>2, <1>4, Whereabouts DEF ClientAt, ServerAt
  <2>. QED BY <1>1, <2>1 DEF FileInv, Untroubled
<1>. QED BY <1>1, <1>3, <1>4

\* The server removes the request only after it has read it, the client before it
\* creates its own.
LEMMA UnlinkRequestFiles ==
  ASSUME ProcInv, FileInv, NEW p \in Name, UnlinkRequest(p)
  PROVE  FileInv'
<1>1. /\ UNCHANGED <<response, handled, released, faults, runs>> /\ request' = NoFile
      /\ (p # "server" => opened' = opened) /\ NoFile' = NoFile /\ ThisRun' = ThisRun
  BY DEF UnlinkRequest, NoFile, ThisRun
<1>2. proc'[p].at = proc[p].at + 1 /\ \A x \in Name \ {p} : proc'[x] = proc[x]
  BY Going DEF UnlinkRequest, Proceed
<1>3. CASE p = "client"
  <2>1. /\ ClientAt \in 1..19 /\ ClientAt' = ClientAt + 1 /\ ServerAt' = ServerAt
        /\ Program["client"][ClientAt].op = "unlink_request"
    BY <1>2, <1>3, Whereabouts DEF ClientAt, ServerAt, UnlinkRequest
  <2>2. ClientAt = 11 /\ ClientAt' = 12
    BY <2>1, ClientPlaces
  <2>. QED BY <1>1, <1>3, <2>1, <2>2 DEF FileInv, Untroubled
<1>4. CASE p = "server"
  <2>1. /\ ServerAt \in 1..16 /\ ServerAt' = ServerAt + 1 /\ ClientAt' = ClientAt
        /\ Program["server"][ServerAt].op = "unlink_request"
    BY <1>2, <1>4, Whereabouts DEF ClientAt, ServerAt, UnlinkRequest
  <2>2. ServerAt = 13 /\ ServerAt' = 14
    BY <2>1, ServerPlaces
  <2>. QED BY <1>1, <2>1, <2>2 DEF FileInv, Untroubled
<1>5. CASE p \notin {"client", "server"}
  <2>1. ServerAt' = ServerAt /\ ClientAt' = ClientAt
    BY <1>2, <1>5, Whereabouts DEF ClientAt, ServerAt
  <2>. QED BY <1>1, <1>5, <2>1 DEF FileInv, Untroubled
<1>. QED BY <1>3, <1>4, <1>5

\* The client removes its response; a server that starts again may remove it
\* while the client waits.
LEMMA UnlinkResponseFiles ==
  ASSUME ProcInv, FileInv, NEW p \in Name, UnlinkResponse(p)
  PROVE  FileInv'
<1>1. /\ UNCHANGED <<request, opened, handled, released, faults, runs>> /\ ~response'
      /\ NoFile' = NoFile /\ ThisRun' = ThisRun
  BY DEF UnlinkResponse, NoFile, ThisRun
<1>2. proc'[p].at = proc[p].at + 1 /\ \A x \in Name \ {p} : proc'[x] = proc[x]
  BY Going DEF UnlinkResponse, Proceed
<1>3. CASE p = "client"
  <2>1. /\ ClientAt \in 1..19 /\ ClientAt' = ClientAt + 1 /\ ServerAt' = ServerAt
        /\ Program["client"][ClientAt].op = "unlink_response"
    BY <1>2, <1>3, Whereabouts DEF ClientAt, ServerAt, UnlinkResponse
  <2>2. ClientAt = 15 /\ ClientAt' = 16
    BY <2>1, ClientPlaces
  <2>. QED BY <1>1, <2>1, <2>2 DEF FileInv, Untroubled
<1>4. CASE p = "server"
  <2>1. /\ ServerAt \in 1..16 /\ ServerAt' = ServerAt + 1 /\ ClientAt' = ClientAt
        /\ Program["server"][ServerAt].op = "unlink_response"
    BY <1>2, <1>4, Whereabouts DEF ClientAt, ServerAt, UnlinkResponse
  <2>2. ServerAt = 9 /\ ServerAt' = 10
    BY <2>1, ServerPlaces
  <2>. QED BY <1>1, <2>1, <2>2 DEF FileInv, Untroubled
<1>5. CASE p \notin {"client", "server"}
  <2>1. ServerAt' = ServerAt /\ ClientAt' = ClientAt
    BY <1>2, <1>5, Whereabouts DEF ClientAt, ServerAt
  <2>. QED BY <1>1, <2>1 DEF FileInv, Untroubled
<1>. QED BY <1>3, <1>4, <1>5

\* The client's own steps on the files.
LEMMA ClientFiles ==
  ASSUME ProcInv, FileInv, ClientStep
  PROVE  FileInv'
<1>1. "client" \in Name /\ "server" \in Name \ {"client"}
  BY Whereabouts
<1>2. runs' = runs /\ faults' = faults /\ NoFile' = NoFile /\ ThisRun' = ThisRun
  BY DEF ClientStep, CreateRequest, WriteRequest, AwaitResponse, NoFile, ThisRun
<1>3. CASE CreateRequest
  <2>1. /\ UNCHANGED <<response, opened, handled, released>>
        /\ At("client", "create_request")
        /\ \/ Goto("client", ClientAt + 1) /\ request' = ThisRun
           \/ Goto("client", 16) /\ request' = request
    BY <1>3, Jumps DEF CreateRequest, Proceed, ClientAt, ThisRun
  <2>2. ClientAt = 12
    BY <2>1, Whereabouts, ClientPlaces
  <2>3. \/ ClientAt' = 13 /\ request' = ThisRun
        \/ ClientAt' = 16 /\ request' = request
    BY <1>1, <2>1, <2>2, Going DEF ClientAt
  <2>4. ServerAt' = ServerAt
    BY <1>1, <2>1, Going DEF ServerAt
  <2>. QED BY <1>2, <2>1, <2>2, <2>3, <2>4 DEF FileInv, Untroubled
<1>4. CASE WriteRequest
  <2>1. /\ UNCHANGED <<request, response, opened, handled, released>>
        /\ At("client", "write_request") /\ Goto("client", ClientAt + 1)
    BY <1>4 DEF WriteRequest, Proceed, ClientAt
  <2>2. ClientAt = 13
    BY <2>1, Whereabouts, ClientPlaces
  <2>3. ClientAt' = 14 /\ ServerAt' = ServerAt
    BY <1>1, <2>1, <2>2, Going DEF ClientAt, ServerAt
  <2>. QED BY <1>2, <2>1, <2>2, <2>3 DEF FileInv, Untroubled
<1>5. CASE AwaitResponse
  <2>1. /\ UNCHANGED <<request, response, opened, handled>> /\ response
        /\ released' = released \cup {ThisRun}
        /\ At("client", "await_response") /\ Goto("client", ClientAt + 1)
    BY <1>5 DEF AwaitResponse, Proceed, ClientAt, ThisRun
  <2>2. ClientAt = 14
    BY <2>1, Whereabouts, ClientPlaces
  <2>3. ClientAt' = 15 /\ ServerAt' = ServerAt
    BY <1>1, <2>1, <2>2, Going DEF ClientAt, ServerAt
  <2>. QED BY <1>2, <2>1, <2>2, <2>3 DEF FileInv, Untroubled
<1>. QED BY <1>3, <1>4, <1>5 DEF ClientStep

\* The server's own steps on the files.
LEMMA ServerFiles ==
  ASSUME ProcInv, FileInv, ServerStep
  PROVE  FileInv'
<1>1. "server" \in Name /\ "client" \in Name \ {"server"}
  BY Whereabouts
<1>2. runs' = runs /\ NoFile' = NoFile /\ ThisRun' = ThisRun /\ released' = released
  BY DEF ServerStep, AwaitRequest, ReadRequest, CreateResponse, Again, files, NoFile,
         ThisRun
<1>3. CASE AwaitRequest
  <2>1. /\ UNCHANGED <<request, response, handled, faults>>
        /\ request # NoFile /\ opened' = request
        /\ At("server", "await_request") /\ Goto("server", ServerAt + 1)
    BY <1>3 DEF AwaitRequest, Proceed, ServerAt
  <2>2. ServerAt = 10
    BY <2>1, Whereabouts, ServerPlaces
  <2>3. ServerAt' = 11 /\ ClientAt' = ClientAt
    BY <1>1, <2>1, <2>2, Going DEF ClientAt, ServerAt
  <2>. QED BY <1>2, <2>1, <2>2, <2>3 DEF FileInv, Untroubled
<1>4. CASE ReadRequest
  <2>1. /\ UNCHANGED <<request, response, opened>>
        /\ handled' = handled \cup (whole \cap {opened})
        /\ IF opened \in whole THEN faults' = faults ELSE faults' = faults \cup {"slow"}
        /\ At("server", "read_request") /\ Goto("server", ServerAt + 1)
    BY <1>4 DEF ReadRequest, Proceed, ServerAt, Fault
  <2>2. ServerAt = 12
    BY <2>1, Whereabouts, ServerPlaces
  <2>3. ServerAt' = 13 /\ ClientAt' = ClientAt
    BY <1>1, <2>1, <2>2, Going DEF ClientAt, ServerAt
  <2>. QED BY <1>2, <2>1, <2>2, <2>3 DEF FileInv, Untroubled
<1>5. CASE CreateResponse
  <2>1. /\ UNCHANGED <<request, opened, handled>>
        /\ \/ response' = TRUE /\ faults' = faults
           \/ response' = response /\ faults' = faults \cup {"unanswered"}
        /\ At("server", "create_response") /\ Goto("server", ServerAt + 1)
    BY <1>5 DEF CreateResponse, Proceed, ServerAt, Fault
  <2>2. ServerAt = 14
    BY <2>1, Whereabouts, ServerPlaces
  <2>3. ServerAt' = 15 /\ ClientAt' = ClientAt
    BY <1>1, <2>1, <2>2, Going DEF ClientAt, ServerAt
  <2>. QED BY <1>2, <2>1, <2>2, <2>3 DEF FileInv, Untroubled
<1>6. CASE Again
  <2>1. UNCHANGED <<request, response, opened, handled, faults>> /\ Goto("server", 10)
    BY <1>6, Jumps DEF Again, files
  <2>2. ServerAt' = 10 /\ ClientAt' = ClientAt
    BY <1>1, <2>1, Going DEF ClientAt, ServerAt
  <2>. QED BY <1>2, <2>1, <2>2 DEF FileInv, Untroubled
<1>. QED BY <1>3, <1>4, <1>5, <1>6 DEF ServerStep

\* Every step keeps the invariant of the files.
LEMMA FileNext ==
  ASSUME ProcInv, FileInv, [Next]_vars
  PROVE  FileInv'
<1>1. ASSUME NEW p \in Name, Launch(p) \/ CommonStep(p) \/ Kill(p) PROVE FileInv'
  BY <1>1, LaunchFiles, SdkCallFiles, ReturnFiles, UnlinkRequestFiles,
     UnlinkResponseFiles, KillFiles DEF CommonStep
<1>2. CASE UNCHANGED vars
  BY <1>2 DEF vars, files, FileInv, Untroubled, ClientAt, ServerAt, ThisRun, NoFile
<1>. QED BY <1>1, <1>2, ClientFiles, ServerFiles DEF Next

\* It holds at the start, or a left-over file excuses.
LEMMA FileInit == ASSUME Init PROVE FileInv
<1>1. "server" \in Name
  BY DEF Name, Program
<1>2. ServerAt = 0
  BY <1>1 DEF Init, ServerAt
<1>3. runs = [p \in Name |-> runs[p]] /\ released = {}
  BY DEF Init
<1>4. Untroubled => request = NoFile /\ ~response
  BY DEF Init, Untroubled
<1>. QED BY <1>2, <1>3, <1>4 DEF FileInv

\* However often client and server are run, and whenever the server is killed: a
\* client that saw a response had its request read by a server, unless a file was
\* left over, the client was slow or a client was killed.
THEOREM ReleasedMeansHandled == Spec => []HandledWhenReleased
<1>1. ProcInv /\ FileInv => HandledWhenReleased
  BY DEF FileInv, Untroubled, HandledWhenReleased
<1>. QED BY <1>1, ProcInit, ProcNext, FileInit, FileNext, PTL DEF Spec
=============================================================================
