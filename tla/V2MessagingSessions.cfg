SPECIFICATION Spec
CONSTANTS
  m1 = m1
  m2 = m2
  m3 = m3
  s1 = s1
  s2 = s2
  s3 = s3
  None = None
  Foreign = Foreign
  Message <- TwoMessages
  ControlOf <- ControlIds
  Session <- ThreeSessions
  EpochOf <- Epochs
  MaxEpoch = 2
  Deadlined <- FirstOnly
  MaxStale = 1
  Quota = 1
INVARIANTS OneOwnerPerSequence ReceivedInOrder ConflictNeverReceived Custody
PROPERTIES WithdrawnStaysWithdrawn ChannelSpec
CHECK_DEADLOCK FALSE
