\* Expected violation of NotifiedNotStored.
CONSTANTS
  w1 = w1
  w2 = w2
  a = a
  b = b
  Workers <- MCWorkers
  WNames <- MCNames
  MaxId = 2
  MaxFaults = 0
SPECIFICATION Spec
SYMMETRY MCSymmetry
INVARIANT
  NotifiedNotStored
