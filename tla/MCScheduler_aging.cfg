\* Priority aging in the kernel without user programs.
SPECIFICATION FairSpec
CONSTANTS
  tm = tm
  ti = ti
  t1 = t1
  t2 = t2
  s1 = s1
  NULL = NULL
  Thread = {tm, ti, t1, t2}
  idle_thread = ti
  initial_thread = tm
  Semaphore = {s1}
  IntrSemaphore = {}
  Lock = {}
  Condition = {}
  cond_lock <- MCcond_lock
  PRI_MIN = 0
  PRI_DEFAULT = 1
  PRI_MAX = 2
  TIME_SLICE = 1
  USERPROG = FALSE
  thread_prior_aging = TRUE
  AgingPeriod = 2
  SleepTicks = {}
  MaxTicks = 0
  MaxValue = 1
PROPERTIES NoStarvation
