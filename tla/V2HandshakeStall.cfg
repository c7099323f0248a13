SPECIFICATION FairSpec
CONSTANTS
  A = a
  B = b
  MaxMsgs = 1
  MaxSid = 3
  MaxTx = 3
  MaxExpired = 0
  FaultKinds <- FinishedFaults
  MaxFaults = 1
PROPERTIES EveryMessageSealed
