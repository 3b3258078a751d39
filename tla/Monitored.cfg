SPECIFICATION MonitoredFairSpec
CONSTANTS
  Worker = {w1}
  WorkerId = {w1}
  Job = {j1}
  Handled = {j1}
  Null = Null
  IdOf <- OwnIds
  MCMax = 2
  MaxAttempts <- SameLimit
  AttemptLimit = 2
  Faults = {"crash", "cancel", "stop"}
  MaxFaults = 1
  MaxLate = 0
  NoPage = NoPage
  MaxErrors = 1
INVARIANTS MonitoredTypeOK
PROPERTIES CountersNeverDecrease PageFollows
