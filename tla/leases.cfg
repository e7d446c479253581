SPECIFICATION Spec
CONSTANTS
  k1 = k1
  k2 = k2
  o1 = o1
  o2 = o2
  v = v
  s = s
  Key = {k1, k2}
  Owner = {o1, o2}
  NoOwner = NoOwner
  Workflow = {}
  Task = {}
  Value = {v}
  Schema = {s}
  Conforming <- MCConforming
  LeaseTtl = {1, 2}
  MaxToken = 3
  MaxClock = 3
SYMMETRY MCSymmetry
INVARIANTS TypeOK LiveGrantIntact NewestTokenHeld RowsComeFromGrants
