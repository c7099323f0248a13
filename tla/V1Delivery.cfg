SPECIFICATION FairSpec
CONSTANTS
    m1 = m1
    Message = {m1}
    Foreign = {f1}
    Direct = {d1}
    Helper = {h1, h2}
    Nodes = 2
    Batch = 2
    Deadlined <- FirstOnly
    Mishaps <- AnyOne
    None = None
INVARIANTS OneCiphertext NothingLost
PROPERTIES NoCommitAfterDrain ReportedStays AcceptedIsReceived DrainEnds
CHECK_DEADLOCK FALSE
