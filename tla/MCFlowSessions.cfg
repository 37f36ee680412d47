SPECIFICATION Spec
CONSTANTS
  d1 = d1
  d2 = d2
  c1 = c1
  c2 = c2
  p1 = p1
  p2 = p2
  n1 = n1
  n2 = n2
  v1 = v1
  v2 = v2
  Omitted = Omitted
  IssuerKey = {k1}
  Device = {d1, d2}
  Slot <- MCSlot
  CommitId = {c1, c2}
  PresentId = {p1, p2}
  Pointer = {"/a", "/h"}
  Value = {v1, v2}
  IssuerClaims <- MCIssuerClaims
  HolderClaims <- MCOneClaim
  KeyLists <- MCBound
  PresHeader = {n1}
  MaxFinalize = 1
SYMMETRY MCSymmetry
INVARIANTS
  TypeOK
  LearnedWasSigned
  LearnedWithConsent
  IssuedWithPossession
  StoredIsOwn
\* the sessions of the instance run out
CHECK_DEADLOCK FALSE
