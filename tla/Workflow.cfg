\* Every run of the coordinator over two roots and a budget of two.  Liveness, so
\* no symmetry.  The system stops when the run has ended.
CONSTANTS
  vars_ = vars_
  init_ = init_
  block = block
  envelope = envelope
  Unset = Unset
  Roots = {vars_, init_}
  Outputs = {block, envelope}
  Budget = 2
SPECIFICATION FairSpec
INVARIANTS
  TypeOK
  PublishedIsVerified
  SourcesAreChosen
  VerdictIsEarned
  ModelCallsBounded
PROPERTY Termination
CHECK_DEADLOCK FALSE
