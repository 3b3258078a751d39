SPECIFICATION MonitoredFairSpec
CONSTANTS
  Worker = {w1}
  WorkerId = {w1}
  Job = {j1}
  Handled = {j1}
  Null = Null
  IdOf <- OwnIds
  MCMax = 1
  MaxAttempts <- SameLimit
  AttemptLimit = 2
  Faults = {}
  MaxFaults = 0
  MaxLate = 0
  NoPage = NoPage
  MaxErrors = 0

PROPERTIES FailedNeverDecreases
