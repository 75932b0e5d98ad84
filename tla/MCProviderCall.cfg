SPECIFICATION CallFairSpec
CONSTANTS
  Send = {"s1", "s2", "s3"}
  MaxRequests = 2
CHECK_DEADLOCK FALSE
INVARIANTS
  CallsWithinBudget
PROPERTIES
  RejectionIsReported
  EverySendSettles
