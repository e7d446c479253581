SPECIFICATION Spec
CONSTANTS
  k1 = k1
  k2 = k2
  c1 = c1
  c2 = c2
  o1 = o1
  o2 = o2
  w1 = w1
  w2 = w2
  t1 = t1
  t2 = t2
  t3 = t3
  s1 = s1
  s2 = s2
  s3 = s3
  d1 = d1
  e1 = e1
  e2 = e2
  f1 = f1
  Workflow = {w1}
  Task = {t1, t2, t3}
  Owner = {o1}
  NoOwner = NoOwner
  Value = {0}
  Schema = {s1}
  NoSchema = NoSchema
  Conforming <- MCAnything
  Key = {k1}
  LeaseTtl = {2}
  MaxToken = 1
  Specification <- MCHandoffRun
  Mode = {}
  Outcome = {}
  Scheduler = {}
  ClaimTtl = {1}
  MaxGeneration = 0
  Destination = {d1}
  ChannelVersion = {1}
  EnvelopeId = {e1, e2}
  DeliveryTtl = {1}
  RetryAfter = {0}
  MaxDeliveryAttempts = 2
  Field = {f1}
  Amount <- MCAmount
  NoInteger = NoInteger
  NoLimit = NoLimit
  Genesis <- MCOneZero
  Plans <- MCReadOnly
  MaxAcknowledgements = 2
  Endings = {}
  MaxClock = 2
SYMMETRY MCMessagesAndConsumers
INVARIANTS AtomicCommits ConsumedUnderOneClaim
CHECK_DEADLOCK FALSE
