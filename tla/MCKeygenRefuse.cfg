SPECIFICATION Spec
CONSTANTS
  Proc = {r1, r2}
  Old = Old
  Empty = Empty
  NoFile = NoFile
SYMMETRY MCSymmetry
PROPERTY OnlyForceReplaces
\* every run ends
CHECK_DEADLOCK FALSE
