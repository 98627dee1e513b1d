\* As FMTKInitialize starts them: one task in each lower class; sleeps overlap
CONSTANTS
  NR_TCB = 5
  NR_JCB = 2
  Starts <- OnePerClass
  JobSlots = 8
  Timeouts = {0, 1}
  Careless = {"overlap"}
  MaxMissed = 0
SPECIFICATION FairSpec
PROPERTIES Awakes EveryTaskRuns
CHECK_DEADLOCK FALSE
