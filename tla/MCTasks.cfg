\* two tasks beside init, so that they compete for the reaper, and end before
\* or after their children
SPECIFICATION FairSpec
CONSTANTS
  Task = {dummyTask, init, t1, t2}
  dummyTask = dummyTask
  init = init
  NoTask = NoTask
  Preemptive = FALSE
INVARIANTS
  
  NoLostWakeUp
  
  OnlyExecveOrphans

  
  
CHECK_DEADLOCK FALSE
