SPECIFICATION FairSpec
CONSTANTS
  j2 = j2
  j1 = j1
  w2 = w2
  w1 = w1
  Worker = {w1}
  WorkerId = {w1}
  IdOf <- OwnIds
  Job = {j1, j2}
  Null = Null
  Handled = {j1}
  Faults = {}
  MaxFaults = 0
  MaxClaims = 1
PROPERTIES IdleIsShown
