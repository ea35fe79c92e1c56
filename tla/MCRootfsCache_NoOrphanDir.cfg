\* Expected violation of NoOrphanDir.
CONSTANTS
  t1 = t1
  t2 = t2
  t3 = t3
  n1 = n1
  n2 = n2
  NoName = NoName
  Tasks <- MCTasks
  Names <- MCNames
  MaxCrashes = 0
SPECIFICATION Spec
SYMMETRY MCSymmetry
INVARIANT
  NoOrphanDir
