SPECIFICATION Spec
CONSTANTS
  d1 = d1
  d2 = d2
  c1 = c1
  c2 = c2
  p1 = p1
  p2 = p2
  n1 = n1
  n2 = n2
  v1 = v1
  v2 = v2
  Omitted = Omitted
  IssuerKey = {k1}
  Device = {d1, d2}
  Slot <- MCSlot
  CommitId = {c1}
  PresentId = {p1}
  Pointer = {"/a"}
  Value = {v1, v2}
  IssuerClaims <- MCIssuerClaims
  HolderClaims <- MCOptionalClaim
  KeyLists <- MCUnbound
  PresHeader = {n1}
  MaxFinalize = 2
SYMMETRY MCSymmetry
INVARIANT NothingReplaced
\* the sessions of the instance run out
CHECK_DEADLOCK FALSE
