SPECIFICATION Spec
CONSTANTS
  m1 = m1
  m2 = m2
  p1 = p1
  w1 = w1
  w2 = w2
  w3 = w3
  Msgs = {m1, m2, p1}
  Pills = {p1}
  Graceful = {p1}
  Priority = {}
  Panics = {m2}
  Internal = {}
  StartPanics = {}
  MayClear = FALSE
  MaxRestarts = 2
  BatchSize = 4
  Workers = {w1, w2, w3}
INVARIANTS AtMostOnce
CHECK_DEADLOCK FALSE
