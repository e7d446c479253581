SPECIFICATION FairSpec
CONSTANTS
  t1 = t1
  t2 = t2
  Workflow = {w1, w2}
  Task = {t1}
  Owner = {o1}
  NoOwner = NoOwner
  Scheduler = {s1}
  Mode = {"scripted"}
  Outcome = {}
  Specification <- MCNoTasks
  ClaimTtl = {1}
  MaxGeneration = 1
  MaxClock = 2
PROPERTIES AbandonedForCause RunsEnd
\* Without clients the service is idle: once the clock has reached its bound, no
\* step is left to take.
CHECK_DEADLOCK FALSE
