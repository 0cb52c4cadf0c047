\* Dispatcher, semaphores, sleeping and interrupts in the vm kernel.
SPECIFICATION Spec
CONSTANTS
  tm = tm
  ti = ti
  t1 = t1
  t2 = t2
  s1 = s1
  NULL = NULL
  Thread = {tm, ti, t1, t2}
  idle_thread = ti
  initial_thread = tm
  Semaphore = {s1}
  IntrSemaphore = {s1}
  Lock = {}
  Condition = {}
  cond_lock <- MCcond_lock
  PRI_MIN = 0
  PRI_DEFAULT = 1
  PRI_MAX = 1
  TIME_SLICE = 1
  USERPROG = TRUE
  thread_prior_aging = FALSE
  AgingPeriod = 1
  SleepTicks <- MCSleepTicks
  MaxTicks = 1
  MaxValue = 2
SYMMETRY Symmetry
INVARIANTS TypeOK ElemOnOneList BlockedIsFindable NoLostWakeup ListsSorted
PROPERTIES HighestPriorityRuns SleepersWakeOnTime
