SPECIFICATION Spec
CONSTANTS
  Key = {k1, k2, k3}
  Metric = {m1, m2}
  Priority = {0, 1, 2}
  Options <- MCOptions
  Call = {"name", "ignore", "error", "attribute", "metric", "event", "create", "accept"}
  Inbound <- MCInbound
  Transport = {Nil, "odd"}
  AttrLimit = 2
  MetricLimit = 1
  EventLimit = 2
  MaxCalls = 3
  Nil = Nil
SYMMETRY Symmetry
CHECK_DEADLOCK FALSE
INVARIANTS
  ErrorIsHighest
  AttributesAgree
  NameIsLastGiven
  ReservoirIsSample
  TraceIsOne
