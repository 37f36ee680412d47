SPECIFICATION FairSpec
CONSTANTS
  GoCaller = {g1}
  RawCaller = {r1}
  RawOps = {"sk_to_pk", "blind_proof_verify"}
  Addr <- MCAddr
  Malloc <- MCMalloc
  Null = Null
  Unused = Unused
  Lens = {1, 2}
  MaxItems = 1
INVARIANTS
  IInv
  NoUndefined
  EveryBlockHeld
  AnswersAreOwn
PROPERTY EveryBlockFreed
