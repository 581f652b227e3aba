CONSTANTS
  Sessions <- MCSessions
  MaxRuns = 3
  MaxKills = 1
SPECIFICATION FairSpec
CHECK_DEADLOCK FALSE
INVARIANTS
  FreedAtExit
  HandledWhenReleased
PROPERTY
  ClientReleased
