SPECIFICATION Spec
CONSTANTS
  Ways <- MCWays
  Tagging <- MCTagging
  Mode = {"car", "assisted"}
  Spacing = 3
  CellSize = 3
  MaxSnap = 4
  Places <- MCPlaces
INVARIANTS
  EdgesAreStretches
  EveryRoadStaysNear
  
