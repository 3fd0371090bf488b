SPECIFICATION FairSpec
CONSTANTS
  Runs = {r1, r2}
  Chains = {k1, k2, k3}
  Solo = solo
\* A run that has settled has nothing left to do.
CHECK_DEADLOCK FALSE
INVARIANTS
  NothingOutlivesIt
  FitIsWhole
PROPERTIES
  SettlesOnce
  CancelledRunSettles
