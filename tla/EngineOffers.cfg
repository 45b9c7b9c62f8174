\* The planner may offer roots to a session that has already selected some.
CONSTANTS
  s1 = s1
  s2 = s2
  c1 = c1
  server = server
  cli = cli
  vars_ = vars_
  init_ = init_
  k1 = k1
  Nobody = Nobody
  Unset = Unset
  Threads = {s1, s2, c1}
  Processes = {server, cli}
  Process <- MCProcess
  Contracts = {k1}
  Roots = {vars_, init_}
  RootLists <- MCRootLists
  Inherited <- MCInherited
  MaxTurns = 2
  MaxTraces = 2
SYMMETRY EngineSymmetry
SPECIFICATION Spec
INVARIANT OfferedRootsAreAccepted
