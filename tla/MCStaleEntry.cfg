SPECIFICATION FairSpec
CONSTANTS
  m1 = m1
  m2 = m2
  m3 = m3
  m4 = m4
  typeA = typeA
  typeB = typeB
  alice = alice
  bob = bob
  server1 = server1
  server2 = server2
  NoPID = NoPID
  Msgs = {m1, m2}
  Type <- TypeOf
  Sender <- SenderOf
  Target <- TargetOf
  Foreign = {}
  Unmarshalable = {}
  MaxFaults = 1
PROPERTY EntryFollowsWriter
CHECK_DEADLOCK FALSE
