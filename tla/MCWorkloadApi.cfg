\* Every workload deleted through the API is notified to the scheduler, with one worker panic.
CONSTANTS
  w1 = w1
  w2 = w2
  a = a
  b = b
  Workers <- MCWorkers
  WNames <- MCNames
  MaxId = 2
  MaxFaults = 1
SPECIFICATION Spec
SYMMETRY MCSymmetry
INVARIANT
  DeletionNotified
