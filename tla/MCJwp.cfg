SPECIFICATION Spec
CONSTANTS
  IssuerDocs <- MCIssuerDocs
  HolderDocs <- MCHolderDocs
  MAX_MESSAGES = 3
  Refused = Refused
  NotYet = NotYet
INVARIANTS
  TypeOK
  SlotsAgree
  EveryMessageNamed
  NamedIsIssued
  DisclosesRequested
\* one credential is issued and read
CHECK_DEADLOCK FALSE
