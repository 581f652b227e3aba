---------------------------- MODULE MCTxnOptions ----------------------------
(***************************************************************************)
(* TxnOptions for TLC.                                                     *)
(***************************************************************************)
EXTENDS TxnOptions

AllowAll ==
  [limit |-> Event, sql_policy |-> "none",
   refused |-> {},
   collect |-> Collectable \cup {"traces"}, apdex |-> 1]

\* The collector allows everything, or everything but one or two things.
MCReply ==
  {AllowAll,
   [AllowAll EXCEPT !.sql_policy = "off"],
   [AllowAll EXCEPT !.sql_policy = "on", !.refused = {"custom"}],
   [AllowAll EXCEPT !.limit = {"analytics"}, !.apdex = 0],
   [AllowAll EXCEPT !.refused = {"raw_messages", "parameters"}],
   [AllowAll EXCEPT !.collect = {"error"}]}
=============================================================================
