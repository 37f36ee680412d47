SPECIFICATION Spec
CONSTANTS
  IssuerDocs <- MCOddDocs
  HolderDocs <- MCPlainOptional
  MAX_MESSAGES = 3
  Refused = Refused
  NotYet = NotYet
INVARIANT PointersAreRFC6901
\* one credential is issued and read
CHECK_DEADLOCK FALSE
