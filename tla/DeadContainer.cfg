SPECIFICATION FairSpec
CONSTANTS
  s1 = s1
  r1 = r1
  r2 = r2
  k1 = k1
  w1 = w1
  w2 = w2
  NoSandbox = NoSandbox
  NoKey = NoKey
  Sandbox = {s1}
  Stray = {}
  Key = {}
  Request = {r1}
  Sweeper = {w1}
  MaxTries = 2
  MaxActive = 1
  MaxFaults = 1
  FaultKind = {"kill"}
PROPERTIES
  DeadContainerIsFailed
