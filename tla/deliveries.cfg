SPECIFICATION Spec
CONSTANTS
  r1 = r1
  r2 = r2
  w1 = w1
  w2 = w2
  t1 = t1
  d1 = d1
  e1 = e1
  v = v
  s = s
  Workflow = {w1, w2}
  Task = {t1}
  Owner = {r1, r2}
  NoOwner = NoOwner
  Value = {v}
  Schema = {s}
  Conforming <- MCConforming
  Destination = {d1}
  ChannelVersion = {1}
  EnvelopeId = {e1}
  Tasks <- MCTasks
  Envelopes <- MCEnvelopes
  DeliveryTtl = {1}
  RetryAfter = {0, 1}
  MaxDeliveryAttempts = 2
  MaxClock = 3
SYMMETRY MCSymmetry
INVARIANTS TypeOK LiveClaimIntact AttemptsCountClaims DeadAfterAllAttempts DeliveredByLastClaim
\* Once the clock has reached its bound and every delivery is done, nothing is left.
CHECK_DEADLOCK FALSE
