CONSTANTS
  Kind = {"metrics", "errors", "txn_events", "span_events"}
  MaxTxns <- MCMaxTxns
  Cap <- MCCap
  Group <- MCGroup
  FailLimit = 2
  SplitAt = 2
  MaxHarvests = 2
SPECIFICATION FairSpec
CHECK_DEADLOCK FALSE
INVARIANTS
  NothingLost
  SentOnce
  NoSendAfterClose
PROPERTIES
  CloseEnds
  EventuallySettled
