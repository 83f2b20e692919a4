SPECIFICATION FairSpec
CONSTANTS
  m1 = m1
  p1 = p1
  p2 = p2
  w1 = w1
  w2 = w2
  w3 = w3
  Msgs = {m1, p1, p2}
  Pills = {p1, p2}
  Graceful = {p1, p2}
  Priority = {}
  Panics = {}
  Internal = {}
  StartPanics = {}
  MayClear = FALSE
  MaxRestarts = 2
  BatchSize = 2
  Workers = {w1, w2, w3}
PROPERTIES PillCompletes
CHECK_DEADLOCK FALSE
