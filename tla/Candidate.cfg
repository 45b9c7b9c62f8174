\* Programs of up to three statements and a return, seven tasks, deadlines of one or
\* four seconds against caps of one and two and probes of two.  A validation ends, and so does the model.
SPECIFICATION Spec
CONSTANTS
  Names <- MCNames
  Statements <- MCStatements
  Tasks <- MCTasks
  Orders <- MCOrders
  Budget = 4
  LuacCap = 1
  RunCap = 2
  Probe = 2
  Outer = {1, 4}
  MaxStatements = 3
  MaxTimed = 1
  MaxDepth = 4
  MaxSize = 8
INVARIANT AcceptedIsRight
INVARIANT SelectedRootsOnly
INVARIANT InputComesBack
INVARIANT AliasesAreCaught
INVARIANT TimeIsBounded
CHECK_DEADLOCK FALSE
