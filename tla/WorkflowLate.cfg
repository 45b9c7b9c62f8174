CONSTANTS
  vars_ = vars_
  init_ = init_
  block = block
  envelope = envelope
  Unset = Unset
  Roots = {vars_}
  Outputs = {block}
  Budget = 1
CHECK_DEADLOCK FALSE
SPECIFICATION FairSpec
PROPERTY
  LateAnswersAreRefused
