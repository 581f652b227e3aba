---------------------------- MODULE MCTxnRecord ----------------------------
(* Small instances of TxnRecord for TLC. *)
EXTENDS TxnRecord, TLC

\* Web and other transactions, with and without distributed tracing, of
\* accounts with and without high security.
MCOptions ==
  {[err |-> TRUE, params |-> TRUE, events |-> TRUE, analytics |-> TRUE,
    spans |-> FALSE, dt |-> d, secure |-> s, web |-> d] :
     d \in BOOLEAN, s \in BOOLEAN}

\* A payload that is in order, with and without a word on sampling, one that
\* does not parse and one of a stranger.
MCInbound ==
  {[valid |-> TRUE, trusted |-> TRUE, sampled |-> TRUE],
   [valid |-> TRUE, trusted |-> TRUE, sampled |-> Nil],
   [valid |-> FALSE, trusted |-> TRUE, sampled |-> Nil],
   [valid |-> TRUE, trusted |-> FALSE, sampled |-> TRUE]}

Symmetry == Permutations(Key) \cup Permutations(Metric)
=============================================================================
