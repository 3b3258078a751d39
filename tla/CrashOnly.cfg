SPECIFICATION Spec
CONSTANTS
  Worker = {w1, w2}
  WorkerId = {w1, w2}
  Job = {j1, j2}
  Handled = {j1}
  Null = Null
  IdOf <- OwnIds
  MCMax = 2
  MaxAttempts <- SameLimit
  AttemptLimit = 5
  Faults = {"crash", "cancel", "stop"}
  MaxFaults = 3
  MaxLate = 1
SYMMETRY WorkerSymmetry
INVARIANTS HandlerExclusion RetryDecisionCurrent AtMostOneCompletion
PROPERTIES SettledIsFinal ImplementsBackend
