SPECIFICATION Spec
CONSTANTS
  s1 = s1
  t1 = t1
  t2 = t2
  t3 = t3
  NoSandbox = NoSandbox
  Sandbox = {s1}
  Stray = {}
  Thread = {t1, t2, t3}
  MaxLate = 2
INVARIANTS
  TypeOK
  RemovedWasAbsent
PROPERTIES
  KeepsItsPromise
SYMMETRY Threads
