\* Both semaphores in lines of their own or in one line; one try a call (the code has 10, 200, 100000, -1)
CONSTANTS
  a = a
  b = b
  Task = {a, b}
  Key = key
  Timer = timer
  Wanted <- MCWanted
  Kbd = kbd
  Sys = sys
  Layouts = {{}, {kbd, sys}}
  Free = free
  Retries = {1}
SPECIFICATION FairSpec
INVARIANTS MutualExclusion HeldStays FailedOwnsNothing TickLocks
PROPERTIES SuccessOwns LockReturns
