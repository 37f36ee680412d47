CONSTANTS
  MaxMessages = 512
  Sources = {"system", "seeded"}
  MaxAttempts = 2
  MaxMade = 6
  MaxSessions = 3
  MaxKeys = 2
  MaxAsked = 2
  Requests <- MCRequests
  CommitShapes <- MCCommitShapes
  ProofShapes <- MCProofShapes
  Headers <- MCHeaders
  Payloads <- MCPayloads
  Committed <- MCCommitted
SPECIFICATION FairSpec
INVARIANTS
  FinishedIsOneInit
  EachReadAsItself
  CutIsRefused
  MessagesCounted
  TextReadAsItself
  FailsOnlyAfterAllNonces
PROPERTY EverySigningEnds
CHECK_DEADLOCK FALSE
