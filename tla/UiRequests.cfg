\* Three tasks and four requests begun or abandoned, on at most two sessions of
\* three runs.  The page may stop: tasks and requests are bounded.
CONSTANTS
  MaxTasks = 2
  MaxVersions = 4
  MaxSessions = 2
  MaxRuns = 3
SPECIFICATION FairSpec
INVARIANTS
  TypeOK
  PageIsOfTask
  ShownQuestionIsOpen
  AnswersMeetTheirQuestion
  BusyIsCurrent
PROPERTY BusyEnds
CHECK_DEADLOCK FALSE
