SPECIFICATION FairSpec
CONSTANTS
  s1 = s1
  s2 = s2
  w1 = w1
  w2 = w2
  w3 = w3
  a = a
  b = b
  k1 = k1
  v = v
  bad = bad
  json = json
  d1 = d1
  e1 = e1
  Workflow = {w1, w2, w3}
  Task = {a, b}
  Owner <- MCOwner
  NoOwner = NoOwner
  Value = {v, bad}
  Schema = {json}
  Conforming <- MCConforming
  NoSchema = NoSchema
  Key = {k1}
  Field = {}
  Amount <- MCAmount
  NoInteger = NoInteger
  NoLimit = NoLimit
  LeaseTtl = {1}
  MaxToken = 8
  Specification <- MCServed
  Mode = {"scripted", "crew"}
  Outcome = {"completed", "failed", "skipped"}
  Scheduler = {s1}
  ClaimTtl = {2}
  MaxGeneration = 1
  Destination = {d1}
  ChannelVersion = {1}
  EnvelopeId = {e1}
  DeliveryTtl = {2}
  RetryAfter = {0}
  MaxDeliveryAttempts = 2
  Slots = 1
  JobTtl = 2
  LeaseSeconds = 1
  InboxTtl = 2
  NoInbox = NoInbox
  Plans <- MCPlans
  Faulty = {}
  MaxFaults = 0
  MaxRuns = 1
  PendingLimit = 2
  CrewApi = TRUE
  CrewSchedulers = {}
  Launches <- MCServing
  LaunchUntil = 0
  Cancellable = {w1}
  MaxClock = 1
INVARIANT TypeOK
PROPERTIES EnginesLeave RunsServed
CHECK_DEADLOCK FALSE
