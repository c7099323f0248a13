SPECIFICATION Spec
CONSTANTS
 big = big
 other = other
 move = move
 agree = agree
 note = note
 r1 = r1
 r2 = r2
 p1 = p1
 p2 = p2
 None = None
 Lead = Lead
 Follow = Follow
 Renew = Renew
 Asks = Asks
 Ends = Ends
 chat = chat
 t1 = t1
 t2 = t2
 Session = {chat}
 MaxLeases = 2
 Op <- AllOps
 Recipient = {r1, r2}
 Payload = {p1, p2}
 Version <- Versions
 Capability <- Capable
 To <- Sendees
 Slots <- Disclosing
 Content <- Contents
 Outside = {note, move}
 Offers <- FromPeer
 Approval <- Approvals
 MaxActions = 2
 MaxCandidates = 1
 MaxBlocks = 1
 Plans <- Mixed
 Ticker = {t1, t2}
 Peer = r1
 MaxRevs = 2
 MaxRuns = 3
 MaxSends = 2
INVARIANTS TypeOK OneDecision NothingUnapproved BudgetHolds CandidatesBounded WorkerWithinPolicy
PROPERTIES ProposalNeverReverts StopsAtOnce NeverPastItsOwn
SYMMETRY Tickers
CHECK_DEADLOCK FALSE
