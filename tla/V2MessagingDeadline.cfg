SPECIFICATION FairSpec
CONSTANTS
  m1 = m1
  m2 = m2
  m3 = m3
  s1 = s1
  s2 = s2
  s3 = s3
  None = None
  Foreign = Foreign
  Message <- TwoMessages
  ControlOf <- ControlIds
  Session <- OneSession
  EpochOf <- Epochs
  MaxEpoch = 1
  Deadlined <- FirstOnly
  MaxStale = 0
  Quota = 4
PROPERTIES AdmittedIsReceived
CHECK_DEADLOCK FALSE
