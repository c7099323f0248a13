SPECIFICATION Spec
CONSTANTS
  A = a
  B = b
  MaxMsgs = 1
  MaxSid = 3
  MaxTx = 3
  MaxExpired = 0
  FaultKinds <- AnyFault
  MaxFaults = 2
PROPERTIES SendSequenceMonotonic
