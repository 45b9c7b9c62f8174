\* One session, two threads of the server and a CLI invocation: the session is
\* created, answered, revised, expired and recreated within three workflow runs
\* and two turns, and any process may die.  Or an earlier version left a session.
CONSTANTS
  s1 = s1
  s2 = s2
  c1 = c1
  server = server
  cli = cli
  vars_ = vars_
  init_ = init_
  k1 = k1
  Nobody = Nobody
  Unset = Unset
  Threads = {s1, s2, c1}
  Processes = {server, cli}
  Process <- MCProcess
  Contracts = {k1}
  Roots = {vars_, init_}
  RootLists <- MCRootLists
  Inherited <- MCInherited
  MaxTurns = 2
  MaxTraces = 3
SYMMETRY EngineSymmetry
SPECIFICATION Spec
INVARIANTS
  TypeOK
  SessionMatchesTrace
  CodeIsLastCompleted
  RunsAreKept
PROPERTIES
  ConversationIsKept
  QuestionsAreAnswered
