SPECIFICATION FairSpec
CONSTANTS
  A = a
  B = b
  MaxMsgs = 1
  MaxSid = 3
  MaxTx = 3
  MaxExpired = 0
  FaultKinds <- RecoveredFaults
  MaxFaults = 2
PROPERTIES EveryMessageSealed SecretErased SendSequenceMonotonic
