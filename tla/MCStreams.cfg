SPECIFICATION FairSpec
CONSTANTS
  m1 = m1
  m2 = m2
  m3 = m3
  m4 = m4
  typeA = typeA
  typeB = typeB
  alice = alice
  bob = bob
  server1 = server1
  server2 = server2
  NoPID = NoPID
  Msgs = {m1, m2, m3, m4}
  Type <- TypeOf
  Sender <- SenderOf
  Target <- TargetOf
  Foreign = {m4}
  Unmarshalable = {m3}
  MaxFaults = 2
INVARIANT InOrderOnce
INVARIANT Attribution
PROPERTY RemovesItself
PROPERTY Accounted
PROPERTY EntryFollowsWriterUnlessRefused
CHECK_DEADLOCK FALSE
