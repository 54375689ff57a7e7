SPECIFICATION Spec
CONSTANTS
  s1 = s1
  r1 = r1
  r2 = r2
  k1 = k1
  w1 = w1
  w2 = w2
  NoSandbox = NoSandbox
  NoKey = NoKey
  Sandbox = {s1}
  Stray = {}
  Key = {k1}
  Request = {r1, r2}
  Sweeper = {w1}
  MaxTries = 2
  MaxActive = 1
  MaxFaults = 0
  FaultKind = {}
PROPERTIES
  DuplicateServedAtCapacity
