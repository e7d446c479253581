SPECIFICATION Spec
CONSTANTS
  k1 = k1
  k2 = k2
  c1 = c1
  c2 = c2
  o1 = o1
  o2 = o2
  w1 = w1
  w2 = w2
  t1 = t1
  t2 = t2
  t3 = t3
  s1 = s1
  s2 = s2
  s3 = s3
  d1 = d1
  e1 = e1
  e2 = e2
  f1 = f1
  Workflow = {w1}
  Task = {t1, t2}
  Owner = {o1, o2}
  NoOwner = NoOwner
  Value = {0, 1}
  Schema = {s1}
  NoSchema = NoSchema
  Conforming <- MCAnything
  Key = {k1, k2}
  LeaseTtl = {1}
  MaxToken = 2
  Specification <- MCOneRun
  Mode = {}
  Outcome = {}
  Scheduler = {}
  ClaimTtl = {1}
  MaxGeneration = 0
  Destination = {}
  ChannelVersion = {1}
  EnvelopeId = {}
  DeliveryTtl = {1}
  RetryAfter = {0}
  MaxDeliveryAttempts = 1
  Field = {f1}
  Amount <- MCAmount
  NoInteger = NoInteger
  NoLimit = NoLimit
  Genesis <- MCBothZero
  Plans <- MCSkew
  MaxAcknowledgements = 1
  Endings = {"cancelled"}
  MaxClock = 2
SYMMETRY MCOwnersAndTasks
INVARIANTS TypeOK AtomicCommits LeasesInOrder
PROPERTY SerialCommits
CHECK_DEADLOCK FALSE
