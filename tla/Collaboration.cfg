SPECIFICATION Spec
CONSTANTS
 A = A
 B = B
 Receipted <- Deciding
 MaxSeq = 4
 MaxOps = 1
 Lossy <- Events
 Plans <- Withdrawing
INVARIANTS TypeOK NothingReservedLeaves ReducedInOrder ReviewedBeforeUse AgreementSound
PROPERTIES FormationHonoursWithdrawal RevokedStaysSilent RepairGoesOn
CHECK_DEADLOCK FALSE
