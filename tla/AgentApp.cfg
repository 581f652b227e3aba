SPECIFICATION FairSpec
CONSTANTS
  t1 = t1
  t2 = t2
  h1 = h1
  h2 = h2
  n1 = n1
  n2 = n2
  Thread = {t1, t2}
  Handle = {h1, h2}
  Info = {n1, n2}
  Creation <- MCCreation
  Limit = 1
  Backoff = 1
  BackoffLimit = 2
  Refresh = 3
  MaxRuns = 2
  MaxFaults = 1
  Nil = Nil
INVARIANTS
  ListIsSet
  FoundIsExclusive
  NeverStuck
  RunIsGiven
PROPERTIES
  RefusedUnlessOk
  Recovers
