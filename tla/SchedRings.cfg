\* Callers that sleep again, overlap their sleeps and start too many tasks, with tasks that are
\* and that are not switched out; a job that is full, and no TCB for the last call
CONSTANTS
  NR_TCB = 5
  NR_JCB = 3
  Starts <- WithZero
  JobSlots = 1
  Timeouts = {1, 2}
  Careless = {"again", "overlap", "exhaust"}
  MaxMissed = 1
SPECIFICATION Spec
INVARIANTS RingsWhole SleepsLongEnough WakesInTime
PROPERTIES SwitchesToReady OutsideByCallers
CHECK_DEADLOCK FALSE
