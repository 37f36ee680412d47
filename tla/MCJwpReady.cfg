SPECIFICATION Spec
CONSTANTS
  IssuerDocs <- MCPlainDocs
  HolderDocs <- MCPlainOptional
  MAX_MESSAGES = 3
  Refused = Refused
  NotYet = NotYet
INVARIANT IssuedIsReady
\* one credential is issued and read
CHECK_DEADLOCK FALSE
