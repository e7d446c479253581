SPECIFICATION Spec
CONSTANTS
  t1 = t1
  t2 = t2
  Workflow = {w1}
  Task = {t1, t2}
  Owner = {o1}
  NoOwner = NoOwner
  Scheduler = {s1, s2}
  Mode = {"scripted"}
  Outcome = {"failed"}
  Specification <- MCTwoTasks
  ClaimTtl = {1}
  MaxGeneration = 2
  MaxClock = 3
INVARIANTS TypeOK BudgetExact ClosedRunsQuiet PendingUnderNewestClaim GenerationsInOrder LiveClaimIntact
PROPERTY ClosedRunFrozen
\* Without clients the service is idle: once the clock has reached its bound, no
\* step is left to take.
CHECK_DEADLOCK FALSE
