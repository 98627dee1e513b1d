\* One reader beside another task, a ring of three
CONSTANTS
  Task = {a, b}
  Reader = {a}
  Free = free
  RingSize = 3
  MaxKeys = 5
SPECIFICATION FairSpec
INVARIANT InOrder
PROPERTY LockReleased
