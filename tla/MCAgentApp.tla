----------------------------- MODULE MCAgentApp -----------------------------
(***************************************************************************)
(* AgentApp for TLC.                                                       *)
(***************************************************************************)
EXTENDS AgentApp

CONSTANTS t1, t2, h1, h2, n1, n2

\* Both threads create n1, perhaps at the same time, and the second n2 too.
MCCreation == {<<t1, h1, n1>>, <<t2, h2, n1>>, <<t2, h2, n2>>}
=============================================================================
