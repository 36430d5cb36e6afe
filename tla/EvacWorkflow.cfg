SPECIFICATION Spec
CONSTANTS
  Community = {c1, c2}
  Approver = {a1, a2}
  NoOne = NoOne
  Nowhere = Nowhere
  Responses = {"unreachable", "pending"}
  Statuses = {"done"}
  MaxPlans = 3
  MaxTasks = 2
  MaxReports = 1
  MaxTimeline = 6
SYMMETRY Symmetry
INVARIANTS
  NewestIsLive
  TimelineExplainsPlans
  RoundsUnderApproval
  ContactsFollowPlan
  ApprovalIsFresh
PROPERTIES
  GenerationCoversAll
  
\* The bounds stop the requests.
CHECK_DEADLOCK FALSE
