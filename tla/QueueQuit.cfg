SPECIFICATION FairSpec
CONSTANTS
  w1 = w1
  w2 = w2
  e1 = e1
  e2 = e2
  e3 = e3
  Client = Client
  None = None
  Workers = {w1, w2}
  Events = {e1, e2, e3}
  Duration <- Durations
  MaxLate = 2
CHECK_DEADLOCK FALSE
PROPERTIES QuitEnds
