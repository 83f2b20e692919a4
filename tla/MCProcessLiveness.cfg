SPECIFICATION FairSpec
CONSTANTS
  m1 = m1
  m2 = m2
  m3 = m3
  p1 = p1
  p2 = p2
  w1 = w1
  w2 = w2
  w3 = w3
  w4 = w4
  Msgs = {m1, m2, m3, p1, p2}
  Pills = {p1, p2}
  Graceful = {p1}
  Priority = {m3}
  Panics = {m1, m2}
  Internal = {m2}
  StartPanics = {}
  MayClear = FALSE
  MaxRestarts = 1
  BatchSize = 3
  Workers = {w1, w2, w3, w4}
PROPERTIES Delivery SomePillCompletes
CHECK_DEADLOCK FALSE
