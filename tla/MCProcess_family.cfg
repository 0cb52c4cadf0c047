\* main(), the idle thread and up to three processes: a child, a grandchild and
\* a sibling.  main() may end before its children, and then waits for ever.
SPECIFICATION FairSpec
CONSTANTS
  MaxTid = 5
  ExitStatus <- MCExitStatus
CHECK_DEADLOCK FALSE
INVARIANTS
  TypeOK
  NoDanglingChild
  OneReaper
  AnswersAreFinal
PROPERTIES
  ExecReturns
  WaitReturns
  ExitedIsFreed
