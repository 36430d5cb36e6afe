SPECIFICATION Spec
CONSTANTS
  Community = {c1}
  Approver = {a1}
  NoOne = NoOne
  Nowhere = Nowhere
  Responses = {"unreachable", "pending"}
  Statuses = {"done"}
  MaxPlans = 2
  MaxTasks = 2
  MaxReports = 1
  MaxTimeline = 7
PROPERTIES
  OneTaskPerVillage
\* The bounds stop the requests.
CHECK_DEADLOCK FALSE
