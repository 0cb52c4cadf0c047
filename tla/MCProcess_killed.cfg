\* One program under main() is enough: it is killed and main() waits for it.
SPECIFICATION Spec
CONSTANTS
  MaxTid = 3
  ExitStatus <- MCExitStatus
CHECK_DEADLOCK FALSE
INVARIANTS
  KilledReportsError
