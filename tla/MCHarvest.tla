----------------------------- MODULE MCHarvest -----------------------------
EXTENDS Harvest

\* A group of three with errors; with another kind the trigger of the default
\* data and one more, the kind's own if it has one. The rest are copies that do
\* not touch its data.
MCGroup ==
  [k \in Kind |->
    IF k = "errors" THEN <<"default", "txn_events", "span_events">>
    ELSE <<"default", IF k \in EventKind THEN k ELSE "span_events">>]

\* Of span events, which are sent and kept, one is enough.
MCMaxTxns == [k \in Kind |-> IF k \in {"span_events", "errors"} THEN 1 ELSE 2]

\* Transaction events are enough to be split, metrics overflow.
MCCap == [k \in Kind |-> IF k = "txn_events" THEN 2 ELSE 1]
=============================================================================
