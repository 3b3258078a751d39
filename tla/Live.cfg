SPECIFICATION FairSpec
CONSTANTS
  Worker = {w1, w2}
  WorkerId = {w1, w2}
  Job = {j1}
  Handled = {j1}
  Null = Null
  IdOf <- OwnIds
  MCMax = 2
  MaxAttempts <- SameLimit
  AttemptLimit = 5
  Faults = {"crash", "stop", "error", "expire"}
  MaxFaults = 2
  MaxLate = 1

PROPERTIES EventuallySettled
