\* Locks and condition variables, preempted anywhere.
SPECIFICATION Spec
CONSTANTS
  tm = tm
  ti = ti
  t1 = t1
  t2 = t2
  t3 = t3
  l1 = l1
  c1 = c1
  NULL = NULL
  Thread = {tm, ti, t1, t2, t3}
  idle_thread = ti
  initial_thread = tm
  Semaphore = {}
  IntrSemaphore = {}
  Lock = {l1}
  Condition = {c1}
  cond_lock <- MCcond_lock
  PRI_MIN = 0
  PRI_DEFAULT = 0
  PRI_MAX = 0
  TIME_SLICE = 1
  USERPROG = TRUE
  thread_prior_aging = FALSE
  AgingPeriod = 1
  SleepTicks = {}
  MaxTicks = 0
  MaxValue = 1
SYMMETRY Symmetry
INVARIANTS MutualExclusion SignalsAreKept
PROPERTIES ImplementsMonitor
