CONSTANTS
  slow = slow  fast = fast  chat = chat   glob = glob
  HttpKeys = {slow, fast}
  Global = glob
  Kinds = {chat}
  Capacity <- MCCapacity
  Refill <- MCRefill
  Cost = 3
  SweepEvery = 2
  IdleAfter = 3
  MaxViolations = 1
  NoBucket = NoBucket
  MaxTime = 6
SPECIFICATION Spec
INVARIANTS TypeOK RateBound LoadBound
PROPERTIES TableBound KeepsBuckets
CHECK_DEADLOCK FALSE
