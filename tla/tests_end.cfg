SPECIFICATION Spec
CONSTANTS
  Databases = {1, 2}
  TestThreads = 1
  Tests = 1
INVARIANTS
  TypeOK
  VerdictAfterAllTests
  VerdictKnowsAllFailures
  TestInv
PROPERTIES
  TestsEnd
CHECK_DEADLOCK FALSE
