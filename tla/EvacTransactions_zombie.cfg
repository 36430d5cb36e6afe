SPECIFICATION Spec
CONSTANTS
  Session = {s1, s2}
  Community = {c1}
  MaxPlans = 2
  MaxRequests = 5
PROPERTIES
  SupersededIsFinal
\* The bound stops the requests.
CHECK_DEADLOCK FALSE
