SPECIFICATION Spec
CONSTANTS
  none = none
  t1 = t1
  t2 = t2
  t3 = t3
  cond = cond
  mutex = mutex
  pipe = pipe
  event = event
  Tasks = {t1, t2, t3}
  NoTask = none
  Preemptive = FALSE
  Addr = {cond, mutex}
  Values = {0, 1}
  Counts = {1}
  Requeues <- CondToMutex
  Frames = {0, 1, 2, 3, 4, 5, 6, 7, 8, 9}
  Dirs = {d1, d2}
  Pages = {0, 1, 2}
  Task = {t1, t2}
  First = t1
  Table = {1, 2, 3}
  Fds = {0, 1, 2}
  Pipes = {pipe}
  Events = {event}
  Flagged = {1}
  NoTable = none
INVARIANTS
  LocksExclude
  
  TreeIsMap
  
  
  BackLeadsUp
  EditsAreLocal
  ShowsExpression
PROPERTIES
  Resynchronises
CHECK_DEADLOCK FALSE
