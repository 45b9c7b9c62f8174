CONSTANTS
  s1 = s1
  s2 = s2
  c1 = c1
  server = server
  cli = cli
  Nobody = Nobody
  Threads = {s1, s2, c1}
  Processes = {server, cli}
  Process <- MCProcess
  MaxFailures = 2
SPECIFICATION FairSpec
INVARIANTS
  TypeOK
  MutualExclusion
PROPERTIES
  RefusalHasAReason
  SomebodyProceeds
