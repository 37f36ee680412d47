SPECIFICATION Spec
CONSTANTS
  q = 1013
  Shapes <- MCShapes
  Streams <- MCStreams
  Answers <- MCAnswers
  Header = {h1, h2}
  PresHeader = {n1, n2}
SYMMETRY MCSymmetry
INVARIANTS
  TypeOK
  PossessionExact
  AcceptExact
  ProofExact
  CommitmentsOpen
\* one credential is issued and presented once
CHECK_DEADLOCK FALSE
