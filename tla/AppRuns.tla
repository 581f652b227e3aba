------------------------------ MODULE AppRuns ------------------------------
(***************************************************************************)
(* What the daemon promises an agent about the runs of its applications,   *)
(* whatever happens between the daemon and the collector. An agent asks    *)
(* about an application, presenting the run it has, and is told a run; it  *)
(* sends data under that run later. Processor implements this module, and  *)
(* it is the daemon that AgentApp talks to.                                *)
(***************************************************************************)
CONSTANTS
  Key,    \* applications
  RunID,  \* agent run ids
  Nil     \* no run

VARIABLES
  given,   \* the runs each application was ever given
  live,    \* those of them whose data is accepted
  current  \* the run an agent without a live one is told, or Nil

runVars == <<given, live, current>>

Init ==
  /\ given = [k \in Key |-> {}]
  /\ live = [k \in Key |-> {}]
  /\ current = [k \in Key |-> Nil]

\* The collector connects the application: the run is new to everyone.
Give(k, r) ==
  /\ \A j \in Key : r \notin given[j]
  /\ given' = [given EXCEPT ![k] = @ \cup {r}]
  /\ live' = [live EXCEPT ![k] = @ \cup {r}]
  /\ current' = [current EXCEPT ![k] = r]

\* The application is forgotten, or refused. Agents keep the runs they have.
Withdraw(k) ==
  /\ current' = [current EXCEPT ![k] = Nil]
  /\ UNCHANGED <<given, live>>

\* A run ends. A newer one of the application may be withdrawn with it.
End(k, r) ==
  /\ r \in live[k]
  /\ live' = [live EXCEPT ![k] = @ \ {r}]
  /\ \E c \in {current[k], Nil} \ {r} : current' = [current EXCEPT ![k] = c]
  /\ UNCHANGED given

\* The daemon starts anew.
Restart ==
  /\ live' = [k \in Key |-> {}]
  /\ current' = [k \in Key |-> Nil]
  /\ UNCHANGED given

Next ==
  \/ \E k \in Key, r \in RunID : Give(k, r) \/ End(k, r)
  \/ \E k \in Key : Withdraw(k)
  \/ Restart

Spec == Init /\ [][Next]_runVars

\* The run in the answer to an agent that presents run id, or Nil.
Answer(k, id) == IF id \in live[k] THEN id ELSE current[k]

----------------------------------------------------------------------------
\* Every run is of one application, what is told is alive, and what is alive
\* was given: data sent under an answer is neither dropped nor filed under
\* another application.
RunsAreOwn ==
  /\ \A k \in Key : live[k] \subseteq given[k]
  /\ \A k \in Key : current[k] # Nil => current[k] \in live[k]
  /\ \A j, k \in Key : j # k => given[j] \cap given[k] = {}
=============================================================================
