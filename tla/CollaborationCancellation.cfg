SPECIFICATION Spec
CONSTANTS
 A = A
 B = B
 Receipted <- Deciding
 MaxSeq = 5
 MaxOps = 1
 Lossy <- Events
 Plans <- Cancelling
PROPERTY CancellationFinal
CHECK_DEADLOCK FALSE
