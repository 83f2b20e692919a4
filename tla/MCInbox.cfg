SPECIFICATION FairSpec
CONSTANTS
  m1 = m1
  m2 = m2
  m3 = m3
  Msgs = {m1, m2, m3}
  Priority = {m3}
  Workers = {w1, w2, w3}
  Spawner = sp
  BatchSize = 2
  MaxStarts = 2
INVARIANT RunnersBounded
PROPERTIES ImplementsMailbox EventuallyTaken
