SPECIFICATION Spec
CONSTANTS
  Session = {s1, s2, s3}
  Community = {c1}
  MaxPlans = 3
  MaxRequests = 6
INVARIANTS
  ChainIsExact
  NewestCounts
  CallsAreSigned
PROPERTIES
  RequestsEnd
\* The bound stops the requests.
CHECK_DEADLOCK FALSE
