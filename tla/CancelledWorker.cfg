SPECIFICATION FairSpec
CONSTANTS
  Worker = {w1, w2}
  WorkerId = {w1, w2}
  Job = {j1}
  Handled = {j1}
  Null = Null
  IdOf <- OwnIds
  MCMax = 2
  MaxAttempts <- SameLimit
  AttemptLimit = 3
  Faults = {"cancel"}
  MaxFaults = 1
  MaxLate = 0

PROPERTIES EventuallySettled
