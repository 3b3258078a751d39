SPECIFICATION Spec
CONSTANTS
  j1 = j1
  j2 = j2
  Job = {j1, j2}
  Session = {s1, s2}
  WorkerId = {w1, w2}
  Null = Null
  Priority <- Urgency
  MaxAttempts <- Limits
  Batches <- Orders
  AttemptLimit = 2
SYMMETRY Symmetry
CONSTRAINT SecondClaim
INVARIANTS TypeOK LoggedAtMostOnce OnlySweepsDeadlock
PROPERTIES Serializable
