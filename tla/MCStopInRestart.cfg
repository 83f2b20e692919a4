SPECIFICATION Spec
CONSTANTS
  m1 = m1
  m2 = m2
  p1 = p1
  w1 = w1
  w2 = w2
  w3 = w3
  Msgs = {m1, m2, p1}
  Pills = {p1}
  Graceful = {}
  Priority = {}
  Panics = {m1}
  Internal = {}
  StartPanics = {}
  MayClear = FALSE
  MaxRestarts = 2
  BatchSize = 2
  Workers = {w1, w2, w3}
PROPERTIES StoppedForGood
CHECK_DEADLOCK FALSE
