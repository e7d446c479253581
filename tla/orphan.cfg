SPECIFICATION Spec
CONSTANTS
  s1 = s1
  s2 = s2
  w1 = w1
  w2 = w2
  w3 = w3
  a = a
  b = b
  k1 = k1
  v = v
  bad = bad
  json = json
  d1 = d1
  e1 = e1
  Workflow = {w1}
  Task = {a, b}
  Owner <- MCOwner
  NoOwner = NoOwner
  Value = {v, bad}
  Schema = {json}
  Conforming <- MCConforming
  NoSchema = NoSchema
  Key = {k1}
  Field = {}
  Amount <- MCAmount
  NoInteger = NoInteger
  NoLimit = NoLimit
  LeaseTtl = {1}
  MaxToken = 4
  Specification <- MCSpecs
  Mode = {"scripted"}
  Outcome = {"completed", "failed", "skipped"}
  Scheduler = {s1}
  ClaimTtl = {1}
  MaxGeneration = 2
  Destination = {d1}
  ChannelVersion = {1}
  EnvelopeId = {e1}
  DeliveryTtl = {2}
  RetryAfter = {0}
  MaxDeliveryAttempts = 2
  Slots = 2
  JobTtl = 2
  LeaseSeconds = 1
  InboxTtl = 2
  NoInbox = NoInbox
  Plans <- MCPlans
  Faulty = {"task_outcomes"}
  MaxFaults = 1
  MaxRuns = 1
  PendingLimit = 1
  CrewApi = FALSE
  CrewSchedulers = {}
  Launches <- MCLaunches
  LaunchUntil = 0
  Cancellable = {}
  MaxClock = 3
PROPERTY RenewedWhileWorking
CHECK_DEADLOCK FALSE
