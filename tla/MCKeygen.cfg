SPECIFICATION Spec
CONSTANTS
  Proc = {r1, r2, r3}
  Old = Old
  Empty = Empty
  NoFile = NoFile
SYMMETRY MCSymmetry
INVARIANTS
  KInv
  AllSucceededMeansPair
PROPERTY UnforcedLeavesFiles
\* every run ends
CHECK_DEADLOCK FALSE
