SPECIFICATION Spec
CONSTANTS
  s1 = s1
  s2 = s2
  s3 = s3
  r1 = r1
  r2 = r2
  k1 = k1
  NoSandbox = NoSandbox
  NoKey = NoKey
  Sandbox = {s1, s2, s3}
  Stray = {}
  Key = {k1}
  Request = {r1, r2}
  MaxTries = 1
  MaxActive = 1
SYMMETRY Interchangeable
INVARIANTS
  OvershootBounded
