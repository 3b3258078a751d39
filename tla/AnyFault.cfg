SPECIFICATION Spec
CONSTANTS
  Worker = {w1, w2}
  WorkerId = {w1, w2}
  Job = {j1, j2}
  Handled = {j1, j2}
  Null = Null
  IdOf <- OwnIds
  MCMax = 2
  MaxAttempts <- SameLimit
  AttemptLimit = 5
  Faults = {"crash", "stop", "error", "expire"}
  MaxFaults = 2
  MaxLate = 0
SYMMETRY Symmetry
INVARIANTS TypeOK ClaimUnique FailedIsExhausted LeasedIsRecoverable OwnerCheckIsFence ExtraAttemptsBounded RepeatsBounded
