SPECIFICATION Spec
CONSTANTS
  p1 = p1
  p2 = p2
  w1 = w1
  t1 = t1
  d1 = d1
  d2 = d2
  e1 = e1
  v = v
  s = s
  Workflow = {w1}
  Task = {t1}
  Owner = {p1, p2}
  NoOwner = NoOwner
  Value = {v}
  Schema = {s}
  Conforming <- MCConforming
  Destination = {d1, d2}
  ChannelVersion = {1}
  EnvelopeId = {e1}
  Tasks <- MCTasks
  Envelopes <- MCEnvelopes
  Registered <- MCRegistered
  Handled <- MCHandled
  DeliveryTtl = {2}
  RetryAfter = {2, 3}
  MaxDeliveryAttempts = 3
  HandlerTimeout = 1
  DispatchTtl = 2
  MaxDelay = 3
  StallLimit = 3
  PublishUntil = 0
  MaxFaults = 3
  MaxClock = 22
INVARIANTS TypeOK AnswersInTimeCount
PROPERTIES ImplementsChannel EffectsSettle
