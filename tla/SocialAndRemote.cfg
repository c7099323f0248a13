SPECIFICATION Spec
CONSTANTS
 a = a
 b = b
 add = add
 accept = accept
 block = block
 unblock = unblock
 say = say
 approve = approve
 prepare = prepare
 ask1 = ask1
 ask2 = ask2
 look = look
 None = None
 A = a
 B = b
 Request <- Requested
 Method <- Asks
 Plans <- Everything
 MaxAttempts = 2
 MaxChats = 1
 MaxBlocks = 1
 MaxPairings = 2
INVARIANTS TypeOK MutualConsent EachRequestOnce
PROPERTIES NothingAfterRevoke BlockIsFinal
CHECK_DEADLOCK FALSE
