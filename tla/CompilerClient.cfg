SPECIFICATION FairSpec
CONSTANTS
  Calls = {c1, c2}
  MaxReady = 3
\* A call that has settled has nothing left to do.
CHECK_DEADLOCK FALSE
INVARIANTS
  SettledHoldsNothing
  PendingIsBounded
PROPERTIES
  EveryCallSettles
  SettlesOnce
