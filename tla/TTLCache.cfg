SPECIFICATION Spec
CONSTANTS
  Reader = {r1, r2, r3}
  Key = {k1, k2, k3}
  LongLived = {k2}
  Ttl = 0
  LongTtl = 1
  MaxEntries = 2
  MaxTime = 2
INVARIANTS
  SingleFlight
  AnswersAreFresh
PROPERTIES
  NoNeedlessFetch
  
