SPECIFICATION Spec
CONSTANTS
  DbTimeout = 1
  DockerTimeout = 2
  LaunchTimeout = 9
  JobTimeout = 18
  Checkout = 2
  Statement = 1
INVARIANT BackstopOnly
CHECK_DEADLOCK FALSE
