SPECIFICATION FairSpec
CONSTANTS
  id = id
  j2 = j2
  j1 = j1
  w2 = w2
  w1 = w1
  Worker = {w1, w2}
  WorkerId = {id}
  IdOf <- SharedId
  Job = {j1, j2}
  Null = Null
  Handled = {j1}
  Faults = {"crash", "shutdown", "error", "early_error"}
  MaxFaults = 3
  MaxClaims = 2
INVARIANTS TypeOK LiveIsRegistered StoppedIsGone
PROPERTIES LiveIsShown RegistryFollows
\* every worker may have ended or been shut down
CHECK_DEADLOCK FALSE
