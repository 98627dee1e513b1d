\* What the store wrote, and what its status says
CONSTANTS
  a = a
  b = b
  Task = {a, b}
  Key = key
  Timer = timer
  Wanted <- MCWanted
  Kbd = kbd
  Sys = sys
  Layouts = {{}, {kbd, sys}}
  Free = free
  Retries = {1}
SPECIFICATION Spec
INVARIANTS FailedStored
