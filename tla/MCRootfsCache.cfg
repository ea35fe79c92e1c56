\* Ownership of download directories and stability of a complete rootfs, across one agent restart.
CONSTANTS
  t1 = t1
  t2 = t2
  t3 = t3
  n1 = n1
  n2 = n2
  NoName = NoName
  Tasks <- MCTasks
  Names <- MCNames
  MaxCrashes = 1
SPECIFICATION Spec
SYMMETRY MCSymmetry
INVARIANTS
  DownloadOwnership
PROPERTIES
  CompleteFileStable
