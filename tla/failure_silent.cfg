SPECIFICATION Spec
CONSTANTS
  Databases = {1}
  TestThreads = 1
  Tests = 1
PROPERTIES
  FailureReported
CHECK_DEADLOCK FALSE
