SPECIFICATION FairSpec
CONSTANTS
  s1 = s1
  r1 = r1
  NoSandbox = NoSandbox
  NoKey = NoKey
  NoWeight = NoWeight
  Sandbox = {s1}
  Stray = {}
  Key = {}
  Request = {r1}
  MaxTries = 2
  MaxActive = 1
  MaxDeaths = 2
  Weight = {0, 1}
  Bucket <- OneBucket
INVARIANTS
  TypeOK
  EveryJobHasAnEntry
  OnePoolRunsIt
PROPERTIES
  AtZeroOnlyOvertaken
  JobsGetDone
