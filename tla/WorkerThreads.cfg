SPECIFICATION Spec
CONSTANTS
  Workers = 2
  Request = {q1, q2}
  Mode = {car}
  Contents = {old, new}
  Missing = Missing
  Endpoint = {phone, tablet}
  Mortal = {tablet}
  Region = {pohang}
  Anywhere = Anywhere
  Off = Off
  Broadcast = {alarm}
INVARIANTS
  MapsAreOfTheirSource
  EachRowOnce
  AlarmsKeepAThread
PROPERTIES
  OnlyDeadArePruned
  RequestsLeave
  BroadcastsEnd
