SPECIFICATION Spec
CONSTANTS
  Node <- MCNode
  Start = "v"
  Goal = "s"
  Infinity = Infinity
  Networks <- MCNetworks
  Fields <- MCFields
  Closures <- MCClosures
  Departures = {0, 3}
  Certain = 5
  BlockAt = 4
  AvoidAt = 2
  Penalty = 3
  MaxDuration = 3
INVARIANTS
  LabelsAreEarned
  SearchIsExact
  WalkedBelowThreshold
PROPERTIES
  FirstLabelStands
\* A call ends.
CHECK_DEADLOCK FALSE
