SPECIFICATION Spec
CONSTANTS
  Overview = {"fire", "flood"}
  Source = {"kma", "hrfco"}
  SourcesOf <- MCSourcesOf
  Anything = "anything"
  Weather = "weather"
  Service = "gbsafedata"
  Limited = {"fire"}
  Ttl = 0
  MaxTime = 1
  Place = {"bridge", "lane"}
  Origin = "lane"
  Shelter = {"hall", "school", "gym", "church"}
  Far = Far
  Distance <- MCDistance
  Serving <- MCServing
  Ways <- MCWays
  Orders <- MCOrders
  Predictions <- MCPredictions
  Threshold = 5
CHECK_DEADLOCK FALSE
INVARIANTS
  AllClearIsEarned
  
  LeftOutIsTold
  
