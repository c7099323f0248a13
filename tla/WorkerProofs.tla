---------------------------- MODULE WorkerProofs ----------------------------
(***************************************************************************)
(* Worker, with Delegation and Approvals, for every set of operations,     *)
(* recipients, approvals, conversations and timers and for every limit.    *)
(***************************************************************************)
EXTENDS Worker, FiniteSetTheorems, TLAPS

-----------------------------------------------------------------------------
(* The owner's decisions.                                                   *)

\* A question is recorded, unless it is known.
Asked == \E a \in Approval : ap' = [ap EXCEPT ![a] = Requested(@)]

\* Open questions are superseded.
Superseded ==
    ap' = [a \in Approval |-> IF task.status # "none" /\ ap[a].status \in Undecided
                              THEN Closed(ap[a], "superseded") ELSE ap[a]]

\* Everything a step may do to the approvals.
ApprovalStep ==
    \/ UNCHANGED approvalVars
    \/ (Asked \/ Superseded) /\ UNCHANGED <<leases, ui, told>>
    \/ \E s \in Session, a \in Approval : Begin(s, a, Current(a))
    \/ \E a \in Approval : LeaseEnds(a)
    \/ \E c \in ui : HostStops(c)
    \/ \E c \in ui, answer \in {"yes", "no", "else"} : Finish(c, answer, Current(c.a))
    \/ \E a \in Approval, d \in Decided : WebRespond(a, d, Current(a))

\* The approvals the model asks for are approvals.
LEMMA Requestable ==
    /\ TheTask \in Approval
    /\ \A o \in Op : OpApproval(o) \in Approval
    /\ \A k \in Rev : PolicyApproval(k) \in Approval
BY DelegationAssumption, WorkerAssumption

\* A step of the whole changes the approvals in one of these ways.
LEMMA NextApprovals ==
    ASSUME [Next]_vars, WorkerType
    PROVE  ApprovalStep
<1>1. CASE UNCHANGED vars
    BY <1>1 DEF vars, ApprovalStep
<1>2. CASE Decision
    BY <1>2 DEF Decision, ApprovalStep, BeginConfirmation, FinishConfirmation, RemoteRespond
<1>3. CASE Operation
    <2>1. CASE PrepareTask
        BY <2>1, Requestable DEF PrepareTask, ApprovalStep, Asked
    <2>2. CASE \E o \in Op : PrepareAction(o)
        <3> PICK o \in Op : PrepareAction(o)
            BY <2>2
        <3>1. UNCHANGED <<leases, ui, told>>
            BY DEF PrepareAction
        <3>2. ap' = ap \/ ap' = [ap EXCEPT ![OpApproval(o)] = Requested(@)]
            BY DEF PrepareAction
        <3> QED
            BY <3>1, <3>2, Requestable DEF ApprovalStep, Asked, approvalVars
    <2>3. CASE \E o \in Op : AskAgain(o)
        BY <2>3, Requestable DEF AskAgain, ApprovalStep, Asked
    <2>4. CASE UNCHANGED approvalVars
        BY <2>4 DEF ApprovalStep
    <2> QED
        BY <1>3, <2>1, <2>2, <2>3, <2>4
        DEF Operation, Revoke, Deadline, Reserve, Resume, DispatchEnds, Submit,
            ImportProposal, Unblock
<1>4. CASE PreparePolicy
    <2>1. worker.rev + 1 \in Rev
        BY <1>4, WorkerAssumption DEF PreparePolicy, WorkerType, Rev
    <2> QED
        BY <1>4, <2>1, Requestable DEF PreparePolicy, ApprovalStep, Asked
<1>5. CASE Work /\ ~PreparePolicy
    BY <1>5
    DEF Work, Pause, PeerActs, TickStops, TickStep, TickClaim, TickPrepare, TickReserve,
        TickRefused, TickSubmit, TickFinish, TickFails, Close, Crash, Age, OwnerAnswers,
        OwnerReserves, OwnerSends, ApprovalStep
<1>6. CASE \E r \in Recipient : BlockPeer(r)
    BY <1>6 DEF BlockPeer, Block, ApprovalStep, Superseded
<1> QED
    BY <1>1, <1>2, <1>3, <1>4, <1>5, <1>6 DEF Next

\* An approval row.
Row == [status : {"none", "superseded"} \cup Undecided \cup Decided,
        sess : Session \cup {"none"}, token : 0..MaxLeases, live : BOOLEAN]

\* What the fields of a changed row are.
LEMMA RowFacts ==
    ASSUME NEW p \in Row, NEW status \in {"superseded"} \cup Undecided \cup Decided
    PROVE  /\ Closed(p, status) \in Row /\ Closed(p, status).status = status
           /\ Requested(p) \in Row
           /\ Requested(p).status = IF p.status = "none" THEN "pending" ELSE p.status
<1>1. 0 \in 0..MaxLeases
    BY ApprovalsAssumption
<1>2. Closed(p, status) \in Row /\ Closed(p, status).status = status
    BY <1>1 DEF Row, Closed
<1>3. CASE p.status = "none"
    BY <1>2, <1>3 DEF Row, Requested, Undecided
<1>4. CASE p.status # "none"
    BY <1>2, <1>4 DEF Requested
<1> QED
    BY <1>2, <1>3, <1>4

\* The type of the approvals, row by row.
LEMMA ApprovalTypes ==
    ASSUME ApprovalType
    PROVE  /\ ap \in [Approval -> Row] /\ leases \in 0..MaxLeases
           /\ ui \subseteq [sess : Session, a : Approval, token : 1..MaxLeases]
           /\ told \in [Approval -> SUBSET Decided]
BY DEF ApprovalType, Row

\* An answer is recorded as one of the statuses of an approval.
LEMMA VerdictFacts ==
    ASSUME ApprovalType, NEW c \in ui, NEW answer
    PROVE  /\ c.a \in Approval
           /\ Holds(c) => /\ Verdict(c, answer, Current(c.a)) \in Undecided \cup Decided
                          /\ ap[c.a].status \in Undecided
           /\ ~Holds(c) => Verdict(c, answer, Current(c.a)) = ap[c.a].status
<1>1. c.a \in Approval
    BY DEF ApprovalType
<1>2. ap[c.a].live \in BOOLEAN
    BY <1>1 DEF ApprovalType
<1> DEFINE cur == Current(c.a)
<1>3. CASE Holds(c) /\ ~(ap[c.a].live /\ cur)
    <2> HIDE DEF cur
    <2>1. Verdict(c, answer, cur) = "expired"
        BY <1>3 DEF Verdict
    <2> QED
        BY <1>1, <1>3, <2>1 DEF cur, Holds, Undecided
<1>4. CASE Holds(c) /\ ap[c.a].live /\ cur
    <2> HIDE DEF cur
    <2>1. Verdict(c, answer, cur) \in {"approved", "denied", "pending"}
        BY <1>4 DEF Verdict
    <2> QED
        BY <1>1, <1>4, <2>1 DEF cur, Holds, Undecided, Decided
<1>5. CASE ~Holds(c)
    <2> HIDE DEF cur
    <2>1. Verdict(c, answer, cur) = ap[c.a].status
        BY <1>5 DEF Verdict
    <2> QED
        BY <1>1, <1>5, <2>1 DEF cur
<1> QED
    BY <1>1, <1>3, <1>4, <1>5

\* The approval rows, the leases and the reports keep their types.
LEMMA ApprovalTypeStep ==
    ASSUME ApprovalType, ApprovalStep
    PROVE  ApprovalType'
<1> DEFINE Typed == /\ ap' \in [Approval -> Row] /\ leases' \in 0..MaxLeases
                    /\ ui' \subseteq [sess : Session, a : Approval, token : 1..MaxLeases]
                    /\ told' \in [Approval -> SUBSET Decided]
<1> SUFFICES Typed
    BY DEF ApprovalType, Row
<1>1. CASE UNCHANGED approvalVars
    BY <1>1, ApprovalTypes DEF approvalVars
<1>2. CASE (Asked \/ Superseded) /\ UNCHANGED <<leases, ui, told>>
    <2>1. CASE Asked
        <3> PICK a \in Approval : ap' = [ap EXCEPT ![a] = Requested(ap[a])]
            BY <2>1 DEF Asked
        <3>1. ap[a] \in Row
            BY ApprovalTypes
        <3>2. Requested(ap[a]) \in Row
            BY <3>1, RowFacts DEF Undecided
        <3> QED
            BY <1>2, <3>2, ApprovalTypes
    <2>2. CASE Superseded
        <3>1. \A a \in Approval : ap[a] \in Row /\ Closed(ap[a], "superseded") \in Row
            BY ApprovalTypes, RowFacts
        <3> QED
            BY <1>2, <2>2, <3>1, ApprovalTypes DEF Superseded
    <2> QED
        BY <1>2, <2>1, <2>2
<1>3. ASSUME NEW s \in Session, NEW a \in Approval, Begin(s, a, Current(a))
      PROVE  Typed
    <2>1. leases + 1 \in 1..MaxLeases
        BY <1>3, ApprovalTypes, ApprovalsAssumption DEF Begin
    <2>2. [status |-> "presenting", sess |-> s, token |-> leases + 1, live |-> TRUE] \in Row
        BY <2>1 DEF Row, Undecided
    <2>3. [sess |-> s, a |-> a, token |-> leases + 1]
             \in [sess : Session, a : Approval, token : 1..MaxLeases]
        BY <2>1
    <2>4. /\ leases' = leases + 1 /\ told' = told
          /\ ap' = [ap EXCEPT ![a] = [status |-> "presenting", sess |-> s,
                                      token |-> leases + 1, live |-> TRUE]]
          /\ ui' = ui \cup {[sess |-> s, a |-> a, token |-> leases + 1]}
        BY <1>3 DEF Begin
    <2>5. ap' \in [Approval -> Row] /\ told' \in [Approval -> SUBSET Decided]
        BY <2>2, <2>4, ApprovalTypes
    <2>6. leases' \in 0..MaxLeases
        BY <2>1, <2>4, ApprovalTypes, ApprovalsAssumption
    <2>7. ui' \subseteq [sess : Session, a : Approval, token : 1..MaxLeases]
        BY <2>3, <2>4, ApprovalTypes
    <2> QED
        BY <2>5, <2>6, <2>7
<1>4. ASSUME NEW a \in Approval, LeaseEnds(a) PROVE Typed
    <2>1. [ap[a] EXCEPT !.live = FALSE] \in Row
        BY ApprovalTypes DEF Row
    <2> QED
        BY <1>4, <2>1, ApprovalTypes DEF LeaseEnds
<1>5. ASSUME NEW c \in ui, HostStops(c) PROVE Typed
    BY <1>5, ApprovalTypes DEF HostStops
<1>6. ASSUME NEW c \in ui, NEW answer, Finish(c, answer, Current(c.a)) PROVE Typed
    <2> DEFINE verdict == Verdict(c, answer, Current(c.a))
    <2>1. Holds(c) => Closed(ap[c.a], verdict) \in Row
        BY ApprovalTypes, VerdictFacts, RowFacts
    <2>2. /\ ui' = ui \ {c} /\ leases' = leases
          /\ ap' = IF Holds(c) THEN [ap EXCEPT ![c.a] = Closed(ap[c.a], verdict)] ELSE ap
          /\ told' = [told EXCEPT ![c.a] = told[c.a] \cup ({verdict} \cap Decided)]
        BY <1>6 DEF Finish
    <2> HIDE DEF verdict
    <2> QED
        BY <2>1, <2>2, ApprovalTypes
<1>7. ASSUME NEW a \in Approval, NEW d \in Decided, WebRespond(a, d, Current(a)) PROVE Typed
    <2>1. /\ leases' = leases /\ ui' = ui
          /\ ap' = [ap EXCEPT ![a] = Closed(ap[a], d)]
          /\ told' = [told EXCEPT ![a] = told[a] \cup {d}]
        BY <1>7 DEF WebRespond
    <2> QED
        BY <2>1, ApprovalTypes, RowFacts
<1> QED
    BY <1>1, <1>2, <1>3, <1>4, <1>5, <1>6, <1>7 DEF ApprovalStep

\* A decision, once recorded, stays: nobody answers a second time, asks again
\* or supersedes it.
LEMMA DecidedStays ==
    ASSUME ApprovalType, ApprovalStep, NEW a \in Approval, ap[a].status \in Decided
    PROVE  ap'[a].status = ap[a].status
<1> DEFINE Same == ap'[a].status = ap[a].status
<1>1. ap[a].status \notin Undecided /\ ap[a].status # "none"
    BY DEF Decided, Undecided
<1>2. CASE UNCHANGED approvalVars
    BY <1>2 DEF approvalVars
<1>3. CASE Asked \/ Superseded
    BY <1>1, <1>3, ApprovalTypes, RowFacts DEF Asked, Superseded
<1>4. ASSUME NEW s \in Session, NEW b \in Approval, Begin(s, b, Current(b))
      PROVE  Same
    BY <1>1, <1>4, ApprovalTypes DEF Begin
<1>5. ASSUME NEW b \in Approval, LeaseEnds(b) PROVE Same
    BY <1>5, ApprovalTypes DEF LeaseEnds, Row
<1>6. ASSUME NEW c \in ui, HostStops(c) PROVE Same
    BY <1>6 DEF HostStops
<1>7. ASSUME NEW c \in ui, NEW answer, Finish(c, answer, Current(c.a)) PROVE Same
    <2>1. CASE Holds(c)
        BY <1>1, <1>7, <2>1, VerdictFacts, ApprovalTypes DEF Finish
    <2> QED
        BY <1>7, <2>1 DEF Finish
<1>8. ASSUME NEW b \in Approval, NEW d \in Decided, WebRespond(b, d, Current(b))
      PROVE  Same
    <2>1. b = a => ap[a].status = d
        BY <1>1, <1>8 DEF WebRespond, WebDecides
    <2>2. ap' = [ap EXCEPT ![b] = Closed(ap[b], d)]
        BY <1>8 DEF WebRespond
    <2>3. CASE b = a
        BY <2>1, <2>2, <2>3, ApprovalTypes, RowFacts
    <2>4. CASE b # a
        BY <2>2, <2>4, ApprovalTypes
    <2> QED
        BY <2>3, <2>4
<1> QED
    BY <1>2, <1>3, <1>4, <1>5, <1>6, <1>7, <1>8 DEF ApprovalStep

\* A call reports what is recorded, and what was reported is recorded still.
LEMMA OneDecisionStep ==
    ASSUME ApprovalType, ApprovalStep, OneDecision
    PROVE  OneDecision'
<1> SUFFICES ASSUME NEW a \in Approval PROVE told'[a] \subseteq {ap'[a].status}
    BY DEF OneDecision
<1>1. told[a] \subseteq {ap[a].status} /\ told[a] \subseteq Decided
    BY ApprovalTypes DEF OneDecision
<1>2. CASE told'[a] = told[a]
    <2>1. CASE ap[a].status \in Decided
        BY <1>1, <1>2, <2>1, DecidedStays
    <2> QED
        BY <1>1, <1>2, <2>1
<1>3. ASSUME NEW c \in ui, NEW answer, Finish(c, answer, Current(c.a)), c.a = a
      PROVE  told'[a] \subseteq {ap'[a].status}
    <2> DEFINE verdict == Verdict(c, answer, Current(c.a))
    <2>1. /\ told'[a] = told[a] \cup ({verdict} \cap Decided)
          /\ ap' = IF Holds(c) THEN [ap EXCEPT ![a] = Closed(ap[a], verdict)] ELSE ap
        BY <1>3, ApprovalTypes DEF Finish
    <2>2. CASE Holds(c)
        <3>1. verdict \in Undecided \cup Decided /\ ap[a].status \in Undecided
            BY <1>3, <2>2, VerdictFacts
        <3>2. told[a] = {}
            BY <1>1, <3>1 DEF Undecided, Decided
        <3> HIDE DEF verdict
        <3>3. ap'[a].status = verdict
            BY <2>1, <2>2, <3>1, ApprovalTypes, RowFacts
        <3> QED
            BY <2>1, <3>2, <3>3
    <2>3. CASE ~Holds(c)
        <3>1. ap'[a].status = ap[a].status /\ verdict = ap[a].status
            BY <1>3, <2>1, <2>3, VerdictFacts
        <3> QED
            BY <1>1, <2>1, <3>1
    <2> QED
        BY <2>2, <2>3
<1>4. ASSUME NEW d \in Decided, WebRespond(a, d, Current(a))
      PROVE  told'[a] \subseteq {ap'[a].status}
    <2>1. told'[a] = told[a] \cup {d} /\ ap' = [ap EXCEPT ![a] = Closed(ap[a], d)]
        BY <1>4, ApprovalTypes DEF WebRespond
    <2>2. told[a] \subseteq {d}
        BY <1>1, <1>4 DEF WebRespond, WebDecides, Undecided, Decided
    <2> QED
        BY <2>1, <2>2, ApprovalTypes, RowFacts
<1>5. \/ told'[a] = told[a]
      \/ \E c \in ui, answer \in {"yes", "no", "else"} : Finish(c, answer, Current(c.a)) /\ c.a = a
      \/ \E d \in Decided : WebRespond(a, d, Current(a))
    BY ApprovalTypes DEF ApprovalStep, approvalVars, Begin, LeaseEnds, HostStops, Finish, WebRespond
<1> QED
    BY <1>2, <1>3, <1>4, <1>5

-----------------------------------------------------------------------------
(* Types.                                                                   *)

\* A policy that exists has a revision.
PolicyInv == worker.status # "none" => worker.rev \in Rev

\* A row of the operations.
OpRow == [status : {"none", "awaiting", "ready", "sending", "accepted", "denied"},
          once : BOOLEAN, base : Payload \cup {None}]

\* The type of the task and the operations, variable by variable.
LEMMA DelegationTypes ==
    ASSUME DelegationType
    PROVE  /\ task \in [status : {"none", "pending", "active", "revoked"}, used : 0..MaxActions]
           /\ task.used \in 0..MaxActions /\ late \in BOOLEAN
           /\ op \in [Op -> OpRow]
           /\ plan \in Plans /\ acked \subseteq Op \X Recipient
           /\ batch \in [Op -> SUBSET Recipient]
           /\ prop \in [content : Payload \cup {None}, source : SUBSET Offers]
           /\ blocked \subseteq Recipient /\ tomb \subseteq Offers /\ blocks \in 0..MaxBlocks
           /\ helper \subseteq Op \X Recipient
BY DEF DelegationType, OpRow

\* What a changed operation is.
LEMMA OpRowFacts ==
    ASSUME NEW p \in OpRow, NEW st \in {"awaiting", "ready", "sending", "accepted", "denied"}
    PROVE  /\ [p EXCEPT !.status = st] \in OpRow
           /\ [p EXCEPT !.status = st].status = st
           /\ [p EXCEPT !.status = st].once = p.once
           /\ [p EXCEPT !.status = st].base = p.base
           /\ [p EXCEPT !.status = st, !.once = TRUE] \in OpRow
           /\ [p EXCEPT !.status = st, !.once = TRUE].status = st
           /\ [p EXCEPT !.status = st, !.once = TRUE].once = TRUE
           /\ [p EXCEPT !.status = st, !.once = TRUE].base = p.base
BY DEF OpRow

\* One message of a dispatch keeps the types of the task and its operations.
LEMMA SubmitType ==
    ASSUME DelegationType, NEW o \in Op, NEW r \in Recipient, NEW outcome, Submit(o, r, outcome)
    PROVE  DelegationType'
<1>1. /\ acked' \subseteq Op \X Recipient /\ helper' \subseteq Op \X Recipient
    BY DelegationTypes DEF Submit
<1>2. op' \in [Op -> OpRow]
    <2>1. PICK st \in {"sending", "accepted"} : op' = [op EXCEPT ![o].status = st]
        BY DEF Submit
    <2>2. [op[o] EXCEPT !.status = st] \in OpRow
        BY OpRowFacts, DelegationTypes
    <2> QED
        BY <2>1, <2>2, DelegationTypes
<1>3. batch' \in [Op -> SUBSET Recipient]
    BY DelegationTypes DEF Submit
<1> QED
    BY <1>1, <1>2, <1>3, DelegationTypes DEF Submit, DelegationType, OpRow

\* So does a reservation: there is budget left where it is made.
LEMMA ReserveType ==
    ASSUME DelegationType, NEW o \in Op, Reserve(o)
    PROVE  DelegationType'
<1>1. op' \in [Op -> OpRow]
    <2>1. op' = [op EXCEPT ![o].status = "sending"]
        BY DEF Reserve
    <2>2. [op[o] EXCEPT !.status = "sending"] \in OpRow
        BY OpRowFacts, DelegationTypes
    <2> QED
        BY <2>1, <2>2, DelegationTypes
<1>2. batch' \in [Op -> SUBSET Recipient]
    <2>1. batch' = [batch EXCEPT ![o] = To[o]] /\ To[o] \subseteq Recipient
        BY DelegationAssumption DEF Reserve
    <2> QED
        BY <2>1, DelegationTypes
<1>3. task' \in [status : {"none", "pending", "active", "revoked"}, used : 0..MaxActions]
    <2>1. ~(late \/ task.used >= MaxActions)
        BY DEF Reserve, Evaluate
    <2>2. task' = [task EXCEPT !.used = task.used + 1]
        BY DEF Reserve
    <2>3. task.used + 1 \in 0..MaxActions
        BY <2>1, DelegationTypes, DelegationAssumption
    <2> QED
        BY <2>2, <2>3, DelegationTypes
<1> QED
    BY <1>1, <1>2, <1>3, DelegationTypes DEF Reserve, DelegationType, OpRow

\* So does preparing an operation.
LEMMA PrepareType ==
    ASSUME DelegationType, NEW o \in Op, PrepareAction(o)
    PROVE  DelegationType'
<1>1. op' \in [Op -> OpRow]
    <2>1. PICK st \in {"ready", "awaiting"} :
             op' = [op EXCEPT ![o] = [status |-> st, once |-> FALSE, base |-> prop.content]]
        BY DEF PrepareAction
    <2>2. [status |-> st, once |-> FALSE, base |-> prop.content] \in OpRow
        BY DelegationTypes DEF OpRow
    <2> QED
        BY <2>1, <2>2, DelegationTypes
<1>2. prop' \in [content : Payload \cup {None}, source : SUBSET Offers]
    <2>1. [content |-> Content[o], source |-> {}] \in [content : Payload \cup {None}, source : SUBSET Offers]
        BY DelegationAssumption
    <2>2. prop' = prop \/ prop' = [content |-> Content[o], source |-> {}]
        BY DEF PrepareAction
    <2> QED
        BY <2>1, <2>2, DelegationTypes
<1> QED
    BY <1>1, <1>2, DelegationTypes DEF PrepareAction, DelegationType, OpRow

\* So does the effect of a decision, whichever question it answers.
LEMMA ApplyType ==
    ASSUME DelegationType, NEW a, NEW decided, NEW decision, Apply(a, decided, decision)
    PROVE  DelegationType'
<1>1. op' \in [Op -> OpRow]
    <2>1. \A o \in Op : /\ op[o] \in OpRow
                        /\ [op[o] EXCEPT !.status = "ready", !.once = TRUE] \in OpRow
                        /\ [op[o] EXCEPT !.status = "denied"] \in OpRow
        BY OpRowFacts, DelegationTypes
    <2> QED
        BY <2>1 DEF Apply
<1>2. task' \in [status : {"none", "pending", "active", "revoked"}, used : 0..MaxActions]
    <2>1. task' = task \/ task' = [task EXCEPT !.status = "active"]
        BY DEF Apply
    <2> QED
        BY <2>1, DelegationTypes
<1>3. prop' \in [content : Payload \cup {None}, source : SUBSET Offers]
    <2> DEFINE chosen == CHOOSE o \in Op : a = OpApproval(o)
    <2>1. CASE prop' = prop
        BY <2>1, DelegationTypes
    <2>2. CASE prop' # prop
        <3>1. \E o \in Op : a = OpApproval(o)
            BY <2>2 DEF Apply
        <3>2. chosen \in Op
            BY <3>1
        <3>3. prop' = [content |-> Content[chosen], source |-> {}]
            BY <2>2 DEF Apply
        <3> HIDE DEF chosen
        <3> QED
            BY <3>2, <3>3, DelegationAssumption
    <2> QED
        BY <2>1, <2>2
<1> QED
    BY <1>1, <1>2, <1>3, DelegationTypes DEF Apply, DelegationType, OpRow

\* Every action of the owner's tasks and operations keeps their types.
LEMMA OperationType ==
    ASSUME DelegationType, Operation
    PROVE  DelegationType'
<1>1. CASE PrepareTask \/ Revoke \/ Deadline
    BY <1>1 DEF DelegationType, PrepareTask, Revoke, Deadline
<1>2. ASSUME NEW o \in Op, PrepareAction(o) PROVE DelegationType'
    BY <1>2, PrepareType
<1>3. ASSUME NEW o \in Op, Reserve(o) PROVE DelegationType'
    BY <1>3, ReserveType
<1>4. ASSUME NEW o \in Op, AskAgain(o) PROVE DelegationType'
    <2>1. [op[o] EXCEPT !.status = "awaiting"] \in OpRow
        BY OpRowFacts, DelegationTypes
    <2>2. op' \in [Op -> OpRow]
        BY <1>4, <2>1, DelegationTypes DEF AskAgain
    <2> QED
        BY <1>4, <2>2, DelegationTypes DEF AskAgain, OpRow, DelegationType
<1>5. ASSUME NEW o \in Op, Resume(o) \/ DispatchEnds(o) PROVE DelegationType'
    <2>1. Owed(o) \subseteq Recipient
        BY DelegationAssumption DEF Owed
    <2>2. batch' \in [Op -> SUBSET Recipient]
        BY <1>5, <2>1, DelegationTypes DEF Resume, DispatchEnds
    <2> QED
        BY <1>5, <2>2, DelegationTypes DEF Resume, DispatchEnds, OpRow, DelegationType
<1>6. ASSUME NEW o \in Op, NEW r \in Recipient, NEW outcome, Submit(o, r, outcome)
      PROVE  DelegationType'
    BY <1>6, SubmitType
<1>7. ASSUME NEW m \in Offers, ImportProposal(m) PROVE DelegationType'
    <2>1. m[2] \in Payload
        BY DelegationAssumption
    <2> QED
        BY <1>7, <2>1, DelegationTypes DEF ImportProposal, OpRow, DelegationType
<1>8. ASSUME NEW r \in Recipient, Unblock(r) PROVE DelegationType'
    BY <1>8 DEF Unblock, DelegationType
<1> QED
    BY <1>1, <1>2, <1>3, <1>4, <1>5, <1>6, <1>7, <1>8 DEF Operation

\* So does a block.
LEMMA BlockType ==
    ASSUME DelegationType, NEW r \in Recipient, Block(r)
    PROVE  DelegationType'
<1>1. op' \in [Op -> OpRow]
    BY OpRowFacts, DelegationTypes DEF Block
<1>2. blocks' \in 0..MaxBlocks
    BY DelegationTypes, DelegationAssumption DEF Block
<1> QED
    BY <1>1, <1>2, DelegationTypes DEF Block, DelegationType, OpRow

\* Every step keeps the types of the tasks and operations.
LEMMA DelegationTypeStep ==
    ASSUME DelegationType, [Next]_vars
    PROVE  DelegationType'
<1>1. CASE UNCHANGED delegationVars
    BY <1>1 DEF delegationVars, DelegationType
<1>2. CASE Operation
    BY <1>2, OperationType
<1>3. CASE Decision
    BY <1>1, <1>3, ApplyType
    DEF Decision, BeginConfirmation, FinishConfirmation, RemoteRespond, Effect
<1>4. CASE \E r \in Recipient : BlockPeer(r)
    BY <1>4, BlockType DEF BlockPeer
<1>5. ASSUME task' = task \/ (task.used < MaxActions /\ task' = [task EXCEPT !.used = task.used + 1]),
             UNCHANGED <<plan, late, op, acked, batch, prop, blocked, tomb, blocks, helper>>
      PROVE  DelegationType'
    <2>1. task' \in [status : {"none", "pending", "active", "revoked"}, used : 0..MaxActions]
        BY <1>5, DelegationTypes, DelegationAssumption
    <2> QED
        BY <1>5, <2>1, DelegationTypes DEF DelegationType, OpRow
<1>6. ASSUME NEW t \in Ticker, TickReserve(t) PROVE DelegationType'
    <2>1. ~(task.used >= MaxActions) => task.used < MaxActions
        BY DelegationTypes, DelegationAssumption
    <2> QED
        BY <1>5, <1>6, <2>1 DEF TickReserve
<1>7. ASSUME NEW w \in Step, OwnerReserves(w) PROVE DelegationType'
    BY <1>5, <1>7 DEF OwnerReserves
<1>8. CASE Work
    BY <1>1, <1>6, <1>7, <1>8
    DEF Work, PreparePolicy, Pause, PeerActs, TickStops, TickStep, TickClaim, TickPrepare,
        TickRefused, TickSubmit, TickFinish, TickFails, Close, Crash, Age, OwnerAnswers, OwnerSends
<1> QED
    BY <1>1, <1>2, <1>3, <1>4, <1>8 DEF Next, vars

\* The rows of the worker's records.
PolicyRow == [status : {"none", "pending", "active", "stopped"},
              rev : 0..MaxRevs, runs : 0..MaxRuns, sends : 0..MaxSends]
RunRow == [status : {"none", "running", "old", "finished"}, step : Step \cup {None}]
PC == {"idle", "prepare", "dispatch", "submit", "waiting", "sent", "stop"}
TickRow == [pc : PC, id : RunID \cup {ByOwner}, step : Step]
JointRow == [terms : 0..2, mine : BOOLEAN, phase : {"open", "agreed", "closed"},
             unsafe : BOOLEAN]
StepStatus == {"none", "asked", "ready", "sending", "accepted", "denied"}
StepRow == [status : StepStatus, applied : BOOLEAN, context : (0..2) \X BOOLEAN \X BOOLEAN]

RowTypes ==
    /\ worker \in PolicyRow /\ run \in [RunID -> RunRow] /\ tick \in [Ticker -> TickRow]
    /\ joint \in JointRow /\ wop \in [Step -> StepRow]
    /\ handed \subseteq Step \X (RunID \cup {ByOwner})

\* The type of the policy, its runs, ticks and steps, by the names of their rows.
LEMMA WorkerTypes == WorkerType <=> RowTypes
BY DEF WorkerType, RowTypes, PolicyRow, RunRow, PC, TickRow, JointRow, StepStatus, StepRow

\* The fields of a row.
LEMMA Fields ==
    /\ \A p \in PolicyRow : /\ p.rev \in 0..MaxRevs /\ p.runs \in 0..MaxRuns
                             /\ p.sends \in 0..MaxSends
    /\ \A p \in TickRow : p.step \in Step /\ p.id \in RunID \cup {ByOwner} /\ p.pc \in PC
    /\ \A p \in JointRow : p.terms \in 0..2 /\ p.mine \in BOOLEAN /\ p.unsafe \in BOOLEAN
BY DEF PolicyRow, TickRow, JointRow

\* A policy with another status, or one more run or send.
LEMMA PolicyRowFacts ==
    ASSUME NEW p \in PolicyRow, NEW st \in {"none", "pending", "active", "stopped"}
    PROVE  /\ [p EXCEPT !.status = st] \in PolicyRow
           /\ [p EXCEPT !.status = st].rev = p.rev
           /\ [p EXCEPT !.status = st].status = st
           /\ p.runs + 1 \in 0..MaxRuns =>
                 /\ [p EXCEPT !.runs = p.runs + 1] \in PolicyRow
                 /\ [p EXCEPT !.runs = p.runs + 1].rev = p.rev
                 /\ [p EXCEPT !.runs = p.runs + 1].status = p.status
                 /\ [p EXCEPT !.status = st, !.runs = p.runs + 1] \in PolicyRow
                 /\ [p EXCEPT !.status = st, !.runs = p.runs + 1].rev = p.rev
                 /\ [p EXCEPT !.status = st, !.runs = p.runs + 1].status = st
           /\ p.sends + 1 \in 0..MaxSends =>
                 /\ [p EXCEPT !.sends = p.sends + 1] \in PolicyRow
                 /\ [p EXCEPT !.sends = p.sends + 1].rev = p.rev
                 /\ [p EXCEPT !.sends = p.sends + 1].status = p.status
BY DEF PolicyRow

\* Other rows with another status, step or place.
LEMMA RowsChange ==
    /\ \A p \in RunRow : /\ \A st \in {"none", "running", "old", "finished"} :
                                [p EXCEPT !.status = st] \in RunRow
                          /\ \A w \in Step : [p EXCEPT !.step = w] \in RunRow
    /\ \A p \in TickRow, pc \in PC : /\ [p EXCEPT !.pc = pc] \in TickRow
                                     /\ [p EXCEPT !.pc = pc].pc = pc
                                     /\ [p EXCEPT !.pc = pc].step = p.step
                                     /\ [p EXCEPT !.pc = pc].id = p.id
    /\ \A p \in StepRow, st \in StepStatus : /\ [p EXCEPT !.status = st] \in StepRow
                                             /\ [p EXCEPT !.status = st].status = st
<1>1. \A p \in RunRow : /\ \A st \in {"none", "running", "old", "finished"} :
                                [p EXCEPT !.status = st] \in RunRow
                        /\ \A w \in Step : [p EXCEPT !.step = w] \in RunRow
    BY DEF RunRow
<1>2. \A p \in TickRow, pc \in PC : /\ [p EXCEPT !.pc = pc] \in TickRow
                                   /\ [p EXCEPT !.pc = pc].pc = pc
                                   /\ [p EXCEPT !.pc = pc].step = p.step
                                   /\ [p EXCEPT !.pc = pc].id = p.id
    BY DEF TickRow
<1>3. \A p \in StepRow, st \in StepStatus : /\ [p EXCEPT !.status = st] \in StepRow
                                           /\ [p EXCEPT !.status = st].status = st
    BY DEF StepRow
<1> QED
    BY <1>1, <1>2, <1>3

\* A tick moves on.
LEMMA TickMoves ==
    ASSUME RowTypes, NEW t \in Ticker, NEW pc \in {"dispatch", "submit", "sent", "stop"},
           tick' = [tick EXCEPT ![t].pc = pc]
    PROVE  tick' \in [Ticker -> TickRow]
<1>1. pc \in PC /\ tick[t] \in TickRow /\ tick \in [Ticker -> TickRow]
    BY DEF PC, RowTypes
<1>2. [tick[t] EXCEPT !.pc = pc] \in TickRow
    BY <1>1, RowsChange
<1> QED
    BY <1>1, <1>2

\* A step gets another status.
LEMMA StepMoves ==
    ASSUME RowTypes, NEW w \in Step, NEW st \in StepStatus,
           wop' = [wop EXCEPT ![w].status = st]
    PROVE  wop' \in [Step -> StepRow]
<1>1. wop[w] \in StepRow /\ wop \in [Step -> StepRow]
    BY DEF RowTypes
<1>2. [wop[w] EXCEPT !.status = st] \in StepRow
    BY <1>1, RowsChange
<1> QED
    BY <1>1, <1>2

\* The receipt is a step.
LEMMA ReceiptIsStep == Receipt \in Step /\ Idle.step \in Step
BY DEF Receipt, Step, Idle

\* No tick under way.
LEMMA IdleIsTick == Idle \in TickRow
BY ReceiptIsStep DEF TickRow, PC, Idle

\* Two properties of a policy that a step keeps or establishes.
Policies == worker \in PolicyRow /\ PolicyInv

\* The status of an existing policy changes.
LEMMA PolicyStatus ==
    ASSUME Policies, NEW st \in {"none", "pending", "active", "stopped"}, worker.status # "none",
           worker' = [worker EXCEPT !.status = st]
    PROVE  Policies'
<1>1. worker \in PolicyRow /\ worker.rev \in Rev
    BY DEF Policies, PolicyInv
<1>2. worker' \in PolicyRow /\ worker'.rev = worker.rev
    BY <1>1 DEF PolicyRow
<1> QED
    BY <1>1, <1>2 DEF Policies, PolicyInv

\* A claim names a run of the policy, and a step of it.
LEMMA ClaimType ==
    ASSUME RowTypes, PolicyInv, NEW t \in Ticker, TickClaim(t)
    PROVE  RowTypes' /\ PolicyInv'
<1> DEFINE id == <<worker.rev, worker.runs + 1>>
<1>1. worker.rev \in Rev /\ worker.status = "active"
    BY DEF TickClaim, PolicyInv
<1>2. worker.runs \in 0..MaxRuns
    BY Fields DEF RowTypes
<1>3. worker.runs + 1 \in 1..MaxRuns /\ worker.runs + 1 \in 0..MaxRuns
    BY <1>2, WorkerAssumption DEF TickClaim, Exhausted
<1>4. id \in RunID
    BY <1>1, <1>3 DEF RunID
<1>5. /\ Choice.pc \in {"prepare", "dispatch", "waiting", "stop"}
      /\ Choice.step \in Step
    BY <1>1, ReceiptIsStep DEF Choice, Step
<1>6. CASE joint.unsafe
    <2>1. /\ worker' = [worker EXCEPT !.status = "stopped", !.runs = worker.runs + 1]
          /\ run' = [run EXCEPT ![id].status = "finished"]
          /\ tick' = tick /\ joint' = joint /\ wop' = wop /\ handed' = handed
        BY <1>6 DEF TickClaim
    <2>2. worker' \in PolicyRow /\ worker'.rev = worker.rev
        BY <1>3, <2>1, PolicyRowFacts DEF RowTypes
    <2>3. run' \in [RunID -> RunRow]
        BY <1>4, <2>1, RowsChange DEF RowTypes
    <2> QED
        BY <1>1, <2>1, <2>2, <2>3 DEF RowTypes, PolicyInv
<1>7. CASE ~joint.unsafe
    <2> DEFINE row == [pc |-> Choice.pc, id |-> id, step |-> Choice.step]
    <2>1. /\ worker' = [worker EXCEPT !.runs = worker.runs + 1]
          /\ run' = [run EXCEPT ![id].status = "running"]
          /\ tick' = [tick EXCEPT ![t] = row]
          /\ joint' = joint /\ wop' = wop /\ handed' = handed
        BY <1>7 DEF TickClaim
    <2>2. worker' \in PolicyRow /\ worker'.rev = worker.rev
        BY <1>1, <1>3, <2>1, PolicyRowFacts DEF RowTypes
    <2>3. run' \in [RunID -> RunRow]
        BY <1>4, <2>1, RowsChange DEF RowTypes
    <2>4. row \in TickRow
        BY <1>4, <1>5 DEF TickRow, PC
    <2> HIDE DEF row
    <2>5. tick' \in [Ticker -> TickRow]
        BY <2>1, <2>4 DEF RowTypes
    <2> QED
        BY <1>1, <2>1, <2>2, <2>3, <2>5 DEF RowTypes, PolicyInv
<1> QED
    BY <1>6, <1>7

\* A reservation counts one more send of the policy.
LEMMA TickReserveType ==
    ASSUME RowTypes, PolicyInv, NEW t \in Ticker, TickReserve(t)
    PROVE  RowTypes' /\ PolicyInv'
<1> DEFINE w == tick[t].step
           i == tick[t].id
<1>1. w \in Step /\ worker.sends \in 0..MaxSends
    BY Fields DEF RowTypes
<1>2. /\ worker' = [worker EXCEPT !.sends = worker.sends + 1]
      /\ run' = [run EXCEPT ![i].step = w]
      /\ joint' = joint /\ handed' = handed
      /\ \/ wop' = wop /\ tick' = [tick EXCEPT ![t].pc = "stop"]
         \/ wop' = [wop EXCEPT ![w].status = "sending"] /\ tick' = [tick EXCEPT ![t].pc = "submit"]
    BY DEF TickReserve
<1>3. worker.sends < MaxSends /\ worker.status = "active"
    BY DEF TickReserve, InContext, Active
<1> HIDE DEF w, i
<1>4. worker.sends + 1 \in 0..MaxSends
    BY <1>1, <1>3, WorkerAssumption
<1>5. /\ worker' \in PolicyRow
      /\ worker'.rev = worker.rev /\ worker'.status = worker.status
    BY <1>2, <1>3, <1>4, PolicyRowFacts DEF RowTypes
<1>6. run' \in [RunID -> RunRow]
    BY <1>1, <1>2, RowsChange DEF RowTypes
<1>7. wop' \in [Step -> StepRow]
    BY <1>1, <1>2, StepMoves DEF RowTypes, StepStatus
<1>8. tick' \in [Ticker -> TickRow]
    BY <1>2, TickMoves
<1> QED
    BY <1>2, <1>5, <1>6, <1>7, <1>8 DEF RowTypes, PolicyInv

\* Handing a step to the helper, by a run or by the owner, changes its row and
\* no other.
LEMMA HandsRow ==
    ASSUME RowTypes, NEW w \in Step, NEW i, NEW outcome, Hands(w, i, outcome)
    PROVE  /\ wop' \in [Step -> StepRow]
           /\ wop'[w].status = IF outcome = "accepted" THEN "accepted" ELSE wop[w].status
           /\ wop'[w].applied = TRUE /\ wop'[w].context = wop[w].context
           /\ \A x \in Step : x # w => wop'[x] = wop[x]
<1> DEFINE st == IF outcome = "accepted" THEN "accepted" ELSE wop[w].status
           row == [wop[w] EXCEPT !.status = st, !.applied = TRUE]
<1>1. wop[w] \in StepRow /\ wop \in [Step -> StepRow]
    BY DEF RowTypes
<1>2. st \in StepStatus
    BY <1>1 DEF StepRow, StepStatus
<1>3. wop' = [wop EXCEPT ![w] = row]
    BY <1>1 DEF Hands
<1> HIDE DEF st
<1>4. row \in StepRow /\ row.status = st /\ row.applied = TRUE /\ row.context = wop[w].context
    BY <1>1, <1>2 DEF StepRow
<1> HIDE DEF row
<1>5. wop'[w] = row /\ \A x \in Step : x # w => wop'[x] = wop[x]
    BY <1>1, <1>3
<1>6. wop' \in [Step -> StepRow]
    BY <1>1, <1>3, <1>4
<1> QED
    BY <1>4, <1>5, <1>6 DEF st

\* It keeps the types of what it changes.
LEMMA HandType ==
    ASSUME RowTypes, NEW w \in Step, NEW i \in RunID \cup {ByOwner}, NEW outcome,
           Hands(w, i, outcome)
    PROVE  /\ joint' \in JointRow /\ wop' \in [Step -> StepRow]
           /\ handed' \subseteq Step \X (RunID \cup {ByOwner})
<1>1. handed' \subseteq Step \X (RunID \cup {ByOwner})
    BY DEF RowTypes, Hands
<1>2. CASE wop[w].applied
    BY <1>1, <1>2, HandsRow DEF RowTypes, Hands, Takes
<1>3. CASE ~wop[w].applied
    <2> DEFINE terms == IF w[1] = "proposal" THEN 1 ELSE joint.terms
               mine == joint.mine \/ w[1] = "accept"
    <2>1. joint \in JointRow /\ terms \in 0..2 /\ mine \in BOOLEAN
        BY Fields DEF RowTypes
    <2>2. joint' = [joint EXCEPT !.terms = terms, !.mine = mine]
        BY <1>3 DEF Hands, Takes
    <2> HIDE DEF terms, mine
    <2>3. joint' \in JointRow
        BY <2>1, <2>2 DEF JointRow
    <2> QED
        BY <1>1, <2>3, HandsRow
<1> QED
    BY <1>2, <1>3

\* The last transaction of a tick.
LEMMA CloseType ==
    ASSUME RowTypes, PolicyInv, NEW t \in Ticker, NEW pause, Close(t, pause)
    PROVE  RowTypes' /\ PolicyInv'
<1>1. /\ joint' = joint /\ wop' = wop /\ handed' = handed
      /\ run' = [run EXCEPT ![tick[t].id].status = "finished"]
      /\ tick' = [tick EXCEPT ![t] = Idle]
      /\ worker' = worker \/ (worker.status = "active" /\ worker' = [worker EXCEPT !.status = "stopped"])
    BY DEF Close
<1>2. tick' \in [Ticker -> TickRow]
    BY <1>1, IdleIsTick DEF RowTypes
<1>3. run' \in [RunID -> RunRow]
    BY <1>1, RowsChange DEF RowTypes
<1>4. worker' \in PolicyRow /\ PolicyInv'
    BY <1>1, PolicyStatus DEF RowTypes, PolicyInv, Policies
<1> QED
    BY <1>1, <1>2, <1>3, <1>4 DEF RowTypes

\* Preparing a step for a run.
LEMMA TickPrepareType ==
    ASSUME RowTypes, PolicyInv, NEW t \in Ticker, NEW verdict, TickPrepare(t, verdict)
    PROVE  RowTypes' /\ PolicyInv'
<1> DEFINE w == tick[t].step
           row == [status |-> IF verdict = "ask" THEN "asked" ELSE "ready",
                   applied |-> FALSE, context |-> Context]
<1>1. w \in Step /\ row \in StepRow
    BY Fields DEF RowTypes, Context, StepRow, StepStatus
<1>2. /\ wop' = [wop EXCEPT ![w] = row]
      /\ \E pc \in {"dispatch", "stop"} : tick' = [tick EXCEPT ![t].pc = pc]
      /\ worker' = worker /\ run' = run /\ joint' = joint /\ handed' = handed
    BY DEF TickPrepare
<1> HIDE DEF w, row
<1>3. wop' \in [Step -> StepRow]
    BY <1>1, <1>2 DEF RowTypes
<1>4. tick' \in [Ticker -> TickRow]
    BY <1>2, TickMoves
<1> QED
    BY <1>2, <1>3, <1>4 DEF RowTypes, PolicyInv

\* Handing over the step of a run.
LEMMA TickSubmitType ==
    ASSUME RowTypes, PolicyInv, NEW t \in Ticker, NEW outcome, TickSubmit(t, outcome)
    PROVE  RowTypes' /\ PolicyInv'
<1> DEFINE w == tick[t].step
           i == tick[t].id
<1>1. w \in Step /\ i \in RunID \cup {ByOwner}
    BY Fields DEF RowTypes
<1>2. /\ worker' = worker /\ run' = run /\ Hands(w, i, outcome)
      /\ \E pc \in {"sent", "stop"} : tick' = [tick EXCEPT ![t].pc = pc]
    BY DEF TickSubmit
<1> HIDE DEF w, i
<1>3. tick' \in [Ticker -> TickRow]
    BY <1>2, TickMoves
<1>4. /\ joint' \in JointRow /\ wop' \in [Step -> StepRow]
      /\ handed' \subseteq Step \X (RunID \cup {ByOwner})
    BY <1>1, <1>2, HandType
<1> QED
    BY <1>2, <1>3, <1>4 DEF RowTypes, PolicyInv

\* Every step of a tick, and a crash, keeps the types of the worker.
LEMMA TickType ==
    ASSUME RowTypes, PolicyInv, NEW t \in Ticker, TickStep(t) \/ Crash(t)
    PROVE  RowTypes' /\ PolicyInv'
<1>1. CASE TickRefused(t)
    <2>1. /\ UNCHANGED <<worker, run, joint, wop, handed>>
          /\ \E pc \in {"sent", "stop"} : tick' = [tick EXCEPT ![t].pc = pc]
        BY <1>1 DEF TickRefused
    <2>2. tick' \in [Ticker -> TickRow]
        BY <2>1, TickMoves
    <2> QED
        BY <2>1, <2>2 DEF RowTypes, PolicyInv
<1>2. CASE Crash(t)
    BY <1>2, IdleIsTick DEF Crash, RowTypes, PolicyInv
<1> QED
    BY <1>1, <1>2, ClaimType, TickPrepareType, TickReserveType, TickSubmitType, CloseType
    DEF TickStep, TickFinish, TickFails

\* A decision is applied while its question is current, and only once.
LEMMA EffectType ==
    ASSUME RowTypes, PolicyInv, NEW a, NEW decided \in BOOLEAN, NEW decision,
           Effect(a, decided, decision), decided => Current(a)
    PROVE  RowTypes' /\ PolicyInv'
<1>1. /\ UNCHANGED <<run, tick, joint, wop, handed>>
      /\ \/ worker' = worker
         \/ /\ decided /\ \E k \in Rev : a = PolicyApproval(k)
            /\ \E st \in {"active", "stopped"} : worker' = [worker EXCEPT !.status = st]
    BY DEF Effect
<1>2. (decided /\ \E k \in Rev : a = PolicyApproval(k)) => worker.status = "pending"
    <2> SUFFICES ASSUME decided, NEW k \in Rev, a = PolicyApproval(k)
                 PROVE  worker.status = "pending"
        OBVIOUS
    <2>1. a # TheTask /\ \A o \in Op : a # OpApproval(o)
        BY DEF PolicyApproval, TheTask, OpApproval
    <2>2. ~ApprovalCurrent(a)
        BY <2>1 DEF ApprovalCurrent
    <2> QED
        BY <2>2 DEF Current
<1>3. worker' \in PolicyRow /\ PolicyInv'
    BY <1>1, <1>2, PolicyStatus DEF RowTypes, PolicyInv, Policies
<1> QED
    BY <1>1, <1>3 DEF RowTypes

\* A call decides only while its question is current.
LEMMA VerdictOfCurrent ==
    ASSUME NEW c, NEW answer, Holds(c), Verdict(c, answer, Current(c.a)) \in Decided
    PROVE  Current(c.a)
<1> SUFFICES ASSUME ~Current(c.a) PROVE FALSE
    OBVIOUS
<1> DEFINE cur == Current(c.a)
<1>1. Verdict(c, answer, cur) \in Decided /\ ~cur
    OBVIOUS
<1> HIDE DEF cur
<1>2. Verdict(c, answer, cur) = "expired"
    BY <1>1 DEF Verdict
<1> QED
    BY <1>1, <1>2 DEF Decided

\* The peer's acts keep the types.
LEMMA PeerActsType ==
    ASSUME RowTypes, PolicyInv, PeerActs
    PROVE  RowTypes' /\ PolicyInv'
<1>1. UNCHANGED <<worker, run, tick, handed>>
    BY DEF PeerActs
<1>2. CASE PeerTerms
    <2>1. joint.terms + 1 \in 0..2 /\ joint' = [joint EXCEPT !.terms = joint.terms + 1]
        BY <1>2, Fields DEF PeerTerms, RowTypes
    <2>2. joint' \in JointRow
        BY <2>1 DEF RowTypes, JointRow
    <2> QED
        BY <1>1, <1>2, <2>2 DEF PeerTerms, RowTypes, PolicyInv
<1>3. CASE PeerAgrees \/ PeerAsks
    <2>1. joint' \in JointRow
        BY <1>3 DEF PeerAgrees, PeerAsks, RowTypes, JointRow
    <2>2. wop[Receipt].status \in StepStatus
        BY ReceiptIsStep DEF RowTypes, StepRow
    <2>3. \E st \in StepStatus : wop' = [wop EXCEPT ![Receipt].status = st]
        BY <1>3, <2>2 DEF PeerAgrees, PeerAsks, StepStatus
    <2>4. wop' \in [Step -> StepRow]
        BY <2>3, StepMoves, ReceiptIsStep
    <2> QED
        BY <1>1, <2>1, <2>4 DEF RowTypes, PolicyInv
<1>4. CASE PeerCloses
    <2>1. joint' \in JointRow
        BY <1>4 DEF PeerCloses, RowTypes, JointRow
    <2> QED
        BY <1>1, <1>4, <2>1 DEF PeerCloses, RowTypes, PolicyInv
<1> QED
    BY <1>2, <1>3, <1>4 DEF PeerActs

\* Every step keeps the types of the worker, and a policy its revision.
LEMMA WorkerTypeStep ==
    ASSUME WorkerType, PolicyInv, [Next]_vars
    PROVE  WorkerType' /\ PolicyInv'
<1>t. RowTypes
    BY WorkerTypes
<1> USE <1>t
<1> SUFFICES RowTypes' /\ PolicyInv'
    BY DEF WorkerType, RowTypes, PolicyRow, RunRow, PC, TickRow, JointRow, StepStatus, StepRow
<1>1. CASE UNCHANGED workerVars
    BY <1>1 DEF workerVars, RowTypes, PolicyInv
<1>2. CASE PreparePolicy
    <2>1. worker.rev \in 0..MaxRevs
        BY Fields DEF RowTypes
    <2>2. worker.rev + 1 \in Rev /\ worker.rev + 1 \in 0..MaxRevs
        BY <1>2, <2>1, WorkerAssumption DEF PreparePolicy, Rev
    <2>3. /\ worker' = [status |-> "pending", rev |-> worker.rev + 1, runs |-> 0, sends |-> 0]
          /\ UNCHANGED <<run, tick, joint, wop, handed>>
        BY <1>2 DEF PreparePolicy
    <2>4. worker' \in PolicyRow /\ PolicyInv'
        BY <2>2, <2>3, WorkerAssumption DEF PolicyRow, PolicyInv
    <2> QED
        BY <2>3, <2>4 DEF RowTypes
<1>3. CASE Pause \/ TickStops
    <2>1. /\ worker' = [worker EXCEPT !.status = "stopped"] /\ worker.status # "none"
          /\ UNCHANGED <<run, tick, joint, wop, handed>>
        BY <1>3 DEF Pause, TickStops
    <2>2. worker' \in PolicyRow /\ PolicyInv'
        BY <2>1, PolicyStatus DEF RowTypes, Policies
    <2> QED
        BY <2>1, <2>2 DEF RowTypes
<1>4. CASE PeerActs
    BY <1>4, PeerActsType
<1>5. ASSUME NEW t \in Ticker, TickStep(t) \/ Crash(t) PROVE RowTypes' /\ PolicyInv'
    BY <1>5, TickType
<1>6. ASSUME NEW i \in RunID, Age(i) PROVE RowTypes' /\ PolicyInv'
    <2>1. run' = [run EXCEPT ![i].status = "old"] /\ UNCHANGED <<worker, tick, joint, wop, handed>>
        BY <1>6 DEF Age
    <2>2. run' \in [RunID -> RunRow]
        BY <2>1, RowsChange DEF RowTypes
    <2> QED
        BY <2>1, <2>2 DEF RowTypes, PolicyInv
<1>7. ASSUME NEW w \in Step, NEW outcome \in Outcomes, OwnerSends(w, outcome)
      PROVE  RowTypes' /\ PolicyInv'
    <2>1. UNCHANGED <<worker, run, tick>> /\ Hands(w, ByOwner, outcome)
        BY <1>7 DEF OwnerSends
    <2>2. /\ joint' \in JointRow /\ wop' \in [Step -> StepRow]
          /\ handed' \subseteq Step \X (RunID \cup {ByOwner})
        BY <2>1, HandType
    <2> QED
        BY <2>1, <2>2 DEF RowTypes, PolicyInv
<1>14. ASSUME NEW w \in Step, NEW answer \in Decided, OwnerAnswers(w, answer) \/ OwnerReserves(w)
       PROVE  RowTypes' /\ PolicyInv'
    <2>1. /\ UNCHANGED <<worker, run, tick, joint, handed>>
          /\ \E st \in StepStatus : wop' = [wop EXCEPT ![w].status = st]
        BY <1>14 DEF OwnerAnswers, OwnerReserves, StepStatus
    <2>2. wop' \in [Step -> StepRow]
        BY <2>1, StepMoves
    <2> QED
        BY <2>1, <2>2 DEF RowTypes, PolicyInv
<1>8. ASSUME NEW r \in Recipient, BlockPeer(r) PROVE RowTypes' /\ PolicyInv'
    <2>1. /\ worker' = worker \/ (worker.status # "none" /\ worker' = [worker EXCEPT !.status = "stopped"])
          /\ joint' = [joint EXCEPT !.unsafe = joint.unsafe \/ r = Peer]
          /\ UNCHANGED <<run, tick, handed>>
          /\ wop' = [x \in Step |->
                IF r = Peer /\ wop[x].status \in {"asked", "ready", "sending"}
                THEN [wop[x] EXCEPT !.status = "denied"] ELSE wop[x]]
        BY <1>8 DEF BlockPeer
    <2>2. joint' \in JointRow
        BY <2>1 DEF RowTypes, JointRow
    <2>3. wop' \in [Step -> StepRow]
        BY <2>1, RowsChange DEF RowTypes, StepStatus
    <2>4. worker' \in PolicyRow /\ PolicyInv'
        BY <2>1, PolicyStatus DEF RowTypes, Policies, PolicyInv
    <2> QED
        BY <2>1, <2>2, <2>3, <2>4 DEF RowTypes
<1>9. ASSUME NEW c \in ui, NEW answer, FinishConfirmation(c, answer)
      PROVE  RowTypes' /\ PolicyInv'
    <2> DEFINE verdict == Verdict(c, answer, Current(c.a))
               decided == Holds(c) /\ verdict \in Decided
    <2>1. Effect(c.a, decided, verdict)
        BY <1>9 DEF FinishConfirmation
    <2>2. decided => Current(c.a)
        BY VerdictOfCurrent
    <2>3. decided \in BOOLEAN
        OBVIOUS
    <2> HIDE DEF verdict, decided
    <2> QED
        BY <2>1, <2>2, <2>3, EffectType
<1>10. ASSUME NEW a \in Approval, NEW d \in Decided, RemoteRespond(a, d)
       PROVE  RowTypes' /\ PolicyInv'
    <2>1. Effect(a, WebDecides(a, d, Current(a)), d)
        BY <1>10 DEF RemoteRespond
    <2>2. /\ WebDecides(a, d, Current(a)) => Current(a)
          /\ WebDecides(a, d, Current(a)) \in BOOLEAN
        BY DEF WebDecides
    <2> QED
        BY <2>1, <2>2, EffectType
<1>11. CASE Decision
    BY <1>1, <1>9, <1>10, <1>11 DEF Decision, BeginConfirmation
<1>12. CASE Operation
    BY <1>1, <1>12 DEF Operation
<1>13. CASE Work
    BY <1>2, <1>3, <1>4, <1>5, <1>6, <1>7, <1>13, <1>14 DEF Work, Decided
<1> QED
    BY <1>1, <1>8, <1>11, <1>12, <1>13 DEF Next, vars

-----------------------------------------------------------------------------
(* The types hold in every state.                                           *)

TypeInv == TypeOK /\ PolicyInv

\* The initial state has the types.
LEMMA TypeInit ==
    ASSUME Init
    PROVE  TypeInv
<1>1. ApprovalType
    <2>1. NoApproval \in Row /\ 0 \in 0..MaxLeases
        BY ApprovalsAssumption DEF NoApproval, Row
    <2> QED
        BY <2>1 DEF Init, ApprovalInit, ApprovalType, Row
<1>2. DelegationType
    <2>1. /\ task = [status |-> "none", used |-> 0] /\ late = FALSE
          /\ op = [o \in Op |-> [status |-> "none", once |-> FALSE, base |-> None]]
          /\ plan \in Plans /\ acked = {} /\ batch = [o \in Op |-> {}]
          /\ prop = [content |-> None, source |-> {}]
          /\ blocked = {} /\ tomb = {} /\ blocks = 0 /\ helper = {}
        BY DEF Init, DelegationInit
    <2>2. op \in [Op -> OpRow]
        BY <2>1 DEF OpRow
    <2>3. 0 \in 0..MaxActions /\ 0 \in 0..MaxBlocks
        BY DelegationAssumption
    <2> QED
        BY <2>1, <2>2, <2>3 DEF DelegationType, OpRow
<1>3. WorkerType
    <2>1. /\ worker = [status |-> "none", rev |-> 0, runs |-> 0, sends |-> 0]
          /\ run = [i \in RunID |-> [status |-> "none", step |-> None]]
          /\ tick = [t \in Ticker |-> Idle] /\ handed = {}
          /\ joint = [terms |-> 0, mine |-> FALSE, phase |-> "open", unsafe |-> FALSE]
          /\ wop = [w \in Step |-> [status |-> "none", applied |-> FALSE, context |-> Context]]
        BY DEF Init, WorkerInit
    <2>2. worker \in PolicyRow /\ joint \in JointRow
        BY <2>1, WorkerAssumption DEF PolicyRow, JointRow
    <2>3. run \in [RunID -> RunRow]
        BY <2>1 DEF RunRow
    <2>4. tick \in [Ticker -> TickRow]
        BY <2>1, IdleIsTick
    <2>5. Context \in (0..2) \X BOOLEAN \X BOOLEAN
        BY <2>2, Fields DEF Context
    <2>6. wop \in [Step -> StepRow]
        BY <2>1, <2>5 DEF StepRow, StepStatus
    <2> QED
        BY <2>1, <2>2, <2>3, <2>4, <2>6, WorkerTypes DEF RowTypes
<1>4. PolicyInv
    BY DEF Init, WorkerInit, PolicyInv
<1> QED
    BY <1>1, <1>2, <1>3, <1>4 DEF TypeInv, TypeOK

\* Every step keeps the types.
LEMMA TypeStep ==
    ASSUME TypeInv, [Next]_vars
    PROVE  TypeInv'
<1>1. ApprovalType /\ DelegationType /\ WorkerType /\ PolicyInv
    BY DEF TypeInv, TypeOK
<1>2. ApprovalType'
    BY <1>1, NextApprovals, ApprovalTypeStep
<1>3. DelegationType'
    BY <1>1, DelegationTypeStep
<1>4. WorkerType' /\ PolicyInv'
    BY <1>1, WorkerTypeStep
<1> QED
    BY <1>2, <1>3, <1>4 DEF TypeInv, TypeOK

\* Every variable keeps its type: in particular no limit of the policy, of the
\* action budget or of the presentations is ever passed.
THEOREM TypeCorrect == Spec => []TypeOK
<1>1. TypeInv => TypeOK
    BY DEF TypeInv
<1> QED
    BY <1>1, TypeInit, TypeStep, PTL DEF Spec

\* Every call that reported a decision of an approval reported the one that is
\* recorded, whoever answered first and however late the other answer came.
THEOREM DecisionsAgree == Spec => []OneDecision
<1>1. Init => OneDecision
    BY DEF Init, ApprovalInit, OneDecision
<1>2. TypeInv /\ OneDecision /\ [Next]_vars => OneDecision'
    BY NextApprovals, OneDecisionStep DEF TypeInv, TypeOK
<1> QED
    BY <1>1, <1>2, TypeInit, TypeStep, PTL DEF Spec

-----------------------------------------------------------------------------
(* Nothing leaves a mandate that is over.                                   *)

\* Only these actions hand anything to the helper.
LEMMA HelperStep ==
    ASSUME [Next]_vars
    PROVE  \/ helper' = helper
           \/ \E o \in Op, r \in Recipient, outcome \in Outcomes : Submit(o, r, outcome)
<1>1. CASE UNCHANGED vars
    BY <1>1 DEF vars, delegationVars
<1>2. CASE Decision
    BY <1>2
    DEF Decision, BeginConfirmation, FinishConfirmation, RemoteRespond, Effect, Apply, delegationVars
<1>3. CASE Operation
    BY <1>3
    DEF Operation, PrepareTask, Revoke, Deadline, PrepareAction, Reserve, AskAgain, Resume,
        DispatchEnds, ImportProposal, Unblock
<1>4. CASE Work
    BY <1>4
    DEF Work, PreparePolicy, Pause, PeerActs, TickStops, TickStep, TickClaim, TickPrepare,
        TickReserve, TickRefused, TickSubmit, TickFinish, TickFails, Close, Crash, Age,
        OwnerAnswers, OwnerReserves, OwnerSends, delegationVars
<1>5. CASE \E r \in Recipient : BlockPeer(r)
    BY <1>5 DEF BlockPeer, Block
<1> QED
    BY <1>1, <1>2, <1>3, <1>4, <1>5 DEF Next

\* Only these actions hand over a step of the worker.
LEMMA HandedStep ==
    ASSUME [Next]_vars
    PROVE  \/ handed' = handed
           \/ \E t \in Ticker, outcome \in Outcomes : TickSubmit(t, outcome)
           \/ \E w \in Step, outcome \in Outcomes : OwnerSends(w, outcome)
<1>1. CASE UNCHANGED workerVars
    BY <1>1 DEF workerVars
<1>2. CASE Decision
    BY <1>1, <1>2
    DEF Decision, BeginConfirmation, FinishConfirmation, RemoteRespond, Effect
<1>3. CASE Operation
    BY <1>1, <1>3 DEF Operation
<1>4. CASE Work
    BY <1>4
    DEF Work, PreparePolicy, Pause, PeerActs, TickStops, TickStep, TickClaim, TickPrepare,
        TickReserve, TickRefused, TickFinish, TickFails, Close, Crash, Age, OwnerAnswers,
        OwnerReserves
<1>5. CASE \E r \in Recipient : BlockPeer(r)
    BY <1>5 DEF BlockPeer
<1> QED
    BY <1>1, <1>2, <1>3, <1>4, <1>5 DEF Next, vars

\* Once the task is revoked or over, a contact blocked, a policy stopped or
\* replaced, nothing more leaves for it, in the middle of whatever dispatch.
THEOREM StopsImmediately == Spec => StopsAtOnce
<1> DEFINE Stops == /\ ~TaskLive => helper' = helper
                    /\ \A m \in helper' \ helper : m[2] \notin blocked
                    /\ \A m \in handed' \ handed : m[2] # ByOwner => Active(m[2][1])
                    /\ Peer \in blocked => handed' = handed
<1>1. ASSUME [Next]_vars PROVE (~TaskLive => helper' = helper)
                               /\ \A m \in helper' \ helper : m[2] \notin blocked
    <2>1. ASSUME NEW o \in Op, NEW r \in Recipient, NEW outcome, Submit(o, r, outcome)
          PROVE  /\ TaskLive /\ r \notin blocked
                 /\ helper' = helper \/ helper' = helper \cup {<<o, r>>}
        BY <2>1 DEF Submit, Authorized, CanSend
    <2> QED
        BY <1>1, <2>1, HelperStep
<1>2. ASSUME [Next]_vars PROVE (\A m \in handed' \ handed : m[2] # ByOwner => Active(m[2][1]))
                               /\ (Peer \in blocked => handed' = handed)
    <2>1. ASSUME NEW t \in Ticker, NEW outcome, TickSubmit(t, outcome)
          PROVE  /\ Active(tick[t].id[1]) /\ Peer \notin blocked
                 /\ handed' = handed \/ handed' = handed \cup {<<tick[t].step, tick[t].id>>}
        BY <2>1 DEF TickSubmit, Hands, InContext, CanSend
    <2>2. ASSUME NEW w \in Step, NEW outcome, OwnerSends(w, outcome)
          PROVE  /\ Peer \notin blocked
                 /\ handed' = handed \/ handed' = handed \cup {<<w, ByOwner>>}
        BY <2>2 DEF OwnerSends, Hands, CanSend
    <2>3. CASE handed' = handed
        BY <2>3
    <2>4. CASE \E t \in Ticker, outcome \in Outcomes : TickSubmit(t, outcome)
        BY <2>1, <2>4
    <2>5. CASE \E w \in Step, outcome \in Outcomes : OwnerSends(w, outcome)
        BY <2>2, <2>5
    <2> QED
        BY <1>2, <2>3, <2>4, <2>5, HandedStep
<1>3. [Next]_vars => [Stops]_vars
    BY <1>1, <1>2
<1>4. Spec => [][Stops]_vars
    BY <1>3, PTL DEF Spec
<1> QED
    BY <1>4 DEF StopsAtOnce

-----------------------------------------------------------------------------
(* Decisions and what they authorise.                                       *)

Approved(a) == ap[a].status = "approved"

\* The effect of an answer, which counts only while its question is current
\* and is then what the approval records.
Decides(a, decided, d) ==
    /\ a \in Approval /\ decided \in BOOLEAN /\ Effect(a, decided, d)
    /\ decided => Current(a) /\ ap'[a].status = d

\* The answer of a call decides in this way.
LEMMA FinishDecides ==
    ASSUME TypeInv, NEW c \in ui, NEW answer, FinishConfirmation(c, answer)
    PROVE  \E decided \in BOOLEAN : \E d : Decides(c.a, decided, d)
<1> DEFINE verdict == Verdict(c, answer, Current(c.a))
           decided == Holds(c) /\ verdict \in Decided
<1>1. Effect(c.a, decided, verdict) /\ Finish(c, answer, Current(c.a))
    BY DEF FinishConfirmation
<1>2. ApprovalType /\ c.a \in Approval
    BY VerdictFacts DEF TypeInv, TypeOK
<1>3. decided => Current(c.a)
    BY VerdictOfCurrent
<1>4. decided => ap'[c.a].status = verdict
    <2> SUFFICES ASSUME decided PROVE ap'[c.a].status = verdict
        OBVIOUS
    <2>1. ap' = [ap EXCEPT ![c.a] = Closed(ap[c.a], verdict)]
        BY <1>1 DEF Finish
    <2>2. verdict \in Decided
        OBVIOUS
    <2> HIDE DEF verdict, decided
    <2> QED
        BY <1>2, <2>1, <2>2, ApprovalTypes, RowFacts
<1>5. decided \in BOOLEAN
    OBVIOUS
<1> HIDE DEF verdict, decided
<1>6. Decides(c.a, decided, verdict)
    BY <1>1, <1>2, <1>3, <1>4, <1>5 DEF Decides
<1> QED
    BY <1>5, <1>6

\* So does the answer on the web console.
LEMMA WebDecidesSo ==
    ASSUME TypeInv, NEW a \in Approval, NEW d \in Decided, RemoteRespond(a, d)
    PROVE  \E decided \in BOOLEAN : Decides(a, decided, d)
<1> DEFINE decided == WebDecides(a, d, Current(a))
<1>1. Effect(a, decided, d) /\ ap' = [ap EXCEPT ![a] = Closed(ap[a], d)]
    BY DEF RemoteRespond, WebRespond
<1>2. ap'[a].status = d
    BY <1>1, ApprovalTypes, RowFacts DEF TypeInv, TypeOK
<1>3. (decided => Current(a)) /\ decided \in BOOLEAN
    BY DEF WebDecides
<1> HIDE DEF decided
<1> QED
    BY <1>1, <1>2, <1>3 DEF Decides

\* Every decision of the owner decides in this way or changes nothing else.
LEMMA DecisionCases ==
    ASSUME TypeInv, Decision
    PROVE  \/ UNCHANGED <<delegationVars, workerVars>>
           \/ \E a \in Approval, decided \in BOOLEAN : \E d : Decides(a, decided, d)
<1>1. ASSUME NEW c \in ui, NEW answer, FinishConfirmation(c, answer)
      PROVE  \E a \in Approval, decided \in BOOLEAN : \E d : Decides(a, decided, d)
    BY <1>1, FinishDecides DEF Decides
<1>2. ASSUME NEW a \in Approval, NEW d \in Decided, RemoteRespond(a, d)
      PROVE  \E b \in Approval, decided \in BOOLEAN : \E e : Decides(b, decided, e)
    BY <1>2, WebDecidesSo
<1> QED
    BY <1>1, <1>2 DEF Decision, BeginConfirmation

\* The three kinds of question are different.
LEMMA Kinds ==
    /\ \A o \in Op, p \in Op : OpApproval(o) = OpApproval(p) => o = p
    /\ \A o \in Op : OpApproval(o) # TheTask
    /\ \A k \in Rev : PolicyApproval(k) # TheTask
    /\ \A k \in Rev, o \in Op : PolicyApproval(k) # OpApproval(o)
    /\ \A j \in Rev, k \in Rev : PolicyApproval(j) = PolicyApproval(k) => j = k
BY DEF OpApproval, TheTask, PolicyApproval

\* What is approved stays approved.
LEMMA ApprovedStays ==
    ASSUME TypeInv, [Next]_vars, NEW a \in Approval, Approved(a)
    PROVE  Approved(a)'
<1>1. ApprovalType /\ ApprovalStep
    BY NextApprovals DEF TypeInv, TypeOK
<1> QED
    BY <1>1, DecidedStays DEF Approved, Decided

\* Nothing but the budget changes for the owner's operations in the worker.
LEMMA WorkKeeps ==
    ASSUME TypeInv, Work
    PROVE  /\ UNCHANGED <<plan, late, op, acked, batch, prop, blocked, tomb, blocks, helper>>
           /\ task'.status = task.status
<1>1. CASE UNCHANGED delegationVars
    BY <1>1 DEF delegationVars
<1>2. ASSUME NEW t \in Ticker, TickReserve(t)
      PROVE  /\ UNCHANGED <<plan, late, op, acked, batch, prop, blocked, tomb, blocks, helper>>
             /\ task'.status = task.status
    BY <1>2, DelegationTypes DEF TickReserve, TypeInv, TypeOK
<1>3. ASSUME NEW w \in Step, OwnerReserves(w)
      PROVE  /\ UNCHANGED <<plan, late, op, acked, batch, prop, blocked, tomb, blocks, helper>>
             /\ task'.status = task.status
    BY <1>3, DelegationTypes DEF OwnerReserves, TypeInv, TypeOK
<1> QED
    BY <1>1, <1>2, <1>3
    DEF Work, PreparePolicy, Pause, PeerActs, TickStops, TickStep, TickClaim, TickPrepare,
        TickRefused, TickSubmit, TickFinish, TickFails, Close, Crash, Age, OwnerAnswers, OwnerSends

-----------------------------------------------------------------------------
(* The proposal never goes back.                                            *)

\* The base of a change is older than the change, or is the change.
BaseInv ==
    \A o \in Op : Capability[o] = "propose" =>
        op[o].base = Content[o] \/ Version[op[o].base] < Version[Content[o]]

\* The base of an operation is set when it is prepared, and only then.
LEMMA BaseKept ==
    ASSUME TypeInv, [Next]_vars, NEW o \in Op
    PROVE  op'[o].base = op[o].base \/ PrepareAction(o)
<1> DEFINE Kept == op'[o].base = op[o].base
<1>1. op \in [Op -> OpRow]
    BY DelegationTypes DEF TypeInv, TypeOK
<1>2. CASE op' = op
    BY <1>2
<1>3. ASSUME NEW p \in Op, PrepareAction(p) PROVE Kept \/ p = o
    BY <1>1, <1>3 DEF PrepareAction
<1>4. ASSUME NEW p \in Op,
             \E st \in {"awaiting", "sending", "accepted"} : op' = [op EXCEPT ![p].status = st]
      PROVE  Kept
    <2> PICK st \in {"awaiting", "sending", "accepted"} : op' = [op EXCEPT ![p].status = st]
        BY <1>4
    <2>1. [op[p] EXCEPT !.status = st].base = op[p].base
        BY <1>1 DEF OpRow
    <2> QED
        BY <1>1, <2>1
<1>5. ASSUME NEW a, NEW decided, NEW d, Apply(a, decided, d) PROVE Kept
    BY <1>1, <1>5, OpRowFacts DEF Apply
<1>6. ASSUME NEW r \in Recipient, Block(r) PROVE Kept
    BY <1>1, <1>6, OpRowFacts DEF Block
<1>7. CASE Operation
    BY <1>2, <1>3, <1>4, <1>7
    DEF Operation, PrepareTask, Revoke, Deadline, Reserve, AskAgain, Resume, DispatchEnds,
        Submit, ImportProposal, Unblock
<1>8. CASE Decision
    BY <1>2, <1>5, <1>8, DecisionCases DEF Decides, Effect, delegationVars
<1>9. CASE Work
    BY <1>2, <1>9, WorkKeeps
<1>10. CASE UNCHANGED vars
    BY <1>2, <1>10 DEF vars, delegationVars
<1> QED
    BY <1>6, <1>7, <1>8, <1>9, <1>10 DEF Next, BlockPeer

\* A change keeps its base, and is prepared on one that it does not precede.
LEMMA BaseStep ==
    ASSUME TypeInv, BaseInv, [Next]_vars
    PROVE  BaseInv'
<1> SUFFICES ASSUME NEW o \in Op, Capability[o] = "propose"
             PROVE  op'[o].base = Content[o] \/ Version[op'[o].base] < Version[Content[o]]
    BY DEF BaseInv
<1>1. CASE op'[o].base = op[o].base
    BY <1>1 DEF BaseInv
<1>2. CASE PrepareAction(o)
    <2>1. op'[o].base = prop.content
        BY <1>2, DelegationTypes DEF PrepareAction, TypeInv, TypeOK
    <2> QED
        BY <1>2, <2>1 DEF PrepareAction, Fits
<1> QED
    BY <1>1, <1>2, BaseKept

\* An approval given for a change of one version never puts back what a newer
\* proposal has replaced meanwhile.
THEOREM ProposalAdvances == Spec => ProposalNeverReverts
<1> DEFINE Advances == prop'.content = prop.content \/ Version[prop.content] < Version[prop'.content]
<1>1. Init => BaseInv
    BY DelegationAssumption DEF Init, DelegationInit, BaseInv
<1>2. ASSUME TypeInv, BaseInv, [Next]_vars PROVE Advances
    <2>1. CASE prop' = prop
        BY <2>1
    <2>2. ASSUME NEW o \in Op, PrepareAction(o) PROVE Advances
        <3>1. CASE prop' # prop
            <4>1. Capability[o] = "propose" /\ prop'.content = Content[o] /\ Fits(o)
                BY <2>2, <3>1 DEF PrepareAction
            <4> QED
                BY <4>1 DEF Fits
        <3> QED
            BY <3>1
    <2>3. ASSUME NEW m \in Offers, ImportProposal(m) PROVE Advances
        BY <2>3 DEF ImportProposal
    <2>4. ASSUME NEW a \in Approval, NEW decided \in BOOLEAN, NEW d, Decides(a, decided, d)
          PROVE  Advances
        <3>1. CASE prop' # prop
            <4>1. Apply(a, decided, d)
                BY <2>4 DEF Decides, Effect
            <4>2. PICK o \in Op : decided /\ a = OpApproval(o) /\ Capability[o] = "propose"
                BY <3>1, <4>1 DEF Apply
            <4> DEFINE chosen == CHOOSE p \in Op : a = OpApproval(p)
            <4>3. chosen = o
                BY <4>2, Kinds
            <4>4. prop'.content = Content[chosen]
                BY <3>1, <4>1 DEF Apply
            <4> HIDE DEF chosen
            <4>5. ApprovalCurrent(a)
                BY <1>2, <2>4, <4>2, Kinds DEF Decides, Current, TypeInv, PolicyInv
            <4>6. op[o].status = "awaiting" /\ ProposalCurrent(o)
                BY <4>2, <4>5, Kinds DEF ApprovalCurrent, Authorized
            <4>7. prop.content = op[o].base
                BY <4>2, <4>6 DEF ProposalCurrent
            <4> QED
                BY <1>2, <4>2, <4>3, <4>4, <4>7 DEF BaseInv
        <3> QED
            BY <3>1
    <2>5. CASE Operation
        BY <2>1, <2>2, <2>3, <2>5
        DEF Operation, PrepareTask, Revoke, Deadline, Reserve, AskAgain, Resume, DispatchEnds,
            Submit, Unblock
    <2>6. CASE Decision
        BY <1>2, <2>1, <2>4, <2>6, DecisionCases DEF delegationVars
    <2>7. CASE Work
        BY <1>2, <2>1, <2>7, WorkKeeps
    <2>8. CASE UNCHANGED vars
        BY <2>1, <2>8 DEF vars, delegationVars
    <2> QED
        BY <1>2, <2>1, <2>5, <2>6, <2>7, <2>8 DEF Next, BlockPeer, Block
<1>3. TypeInv /\ BaseInv /\ [Next]_vars => [Advances]_vars
    BY <1>2
<1>4. TypeInv /\ BaseInv /\ [Next]_vars => BaseInv'
    BY BaseStep
<1>5. Spec => [][Advances]_vars
    BY <1>1, <1>3, <1>4, TypeInit, TypeStep, PTL DEF Spec
<1> QED
    BY <1>5 DEF ProposalNeverReverts

-----------------------------------------------------------------------------
(* Nothing leaves unapproved.                                               *)

\* An operation that has begun to leave, or has left.
Begun(o) == batch[o] # {} \/ op[o].status = "sending" \/ o \in Sent

GrantedTask == task.status = "active" \/ helper # {} => Approved(TheTask)
GrantedOnce == \A o \in Op : op[o].once => Approved(OpApproval(o))
GrantedBegun == \A o \in Op \cap Outside : Begun(o) => Approved(OpApproval(o))
GrantedPolicy == worker.status = "active" => Approved(PolicyApproval(worker.rev))
GrantedHanded ==
    \A w \in Step, i \in RunID : <<w, i>> \in handed => Approved(PolicyApproval(i[1]))

Granted == GrantedTask /\ GrantedOnce /\ GrantedBegun /\ GrantedPolicy /\ GrantedHanded

\* The mandate is active from the owner's approval on, and only then is
\* anything handed over.
LEMMA GrantedTaskStep ==
    ASSUME TypeInv, GrantedTask, [Next]_vars
    PROVE  GrantedTask'
<1> SUFFICES ASSUME task'.status = "active" \/ helper' # {} PROVE Approved(TheTask)'
    BY DEF GrantedTask
<1>1. CASE Approved(TheTask)
    BY <1>1, ApprovedStays, Requestable
<1>2. CASE task.status # "active" /\ helper = {}
    <2>1. helper' = {}
        BY <1>2, HelperStep DEF Submit, Authorized, TaskLive
    <2>2. task'.status = "active"
        BY <2>1
    <2>3. task \in [status : {"none", "pending", "active", "revoked"}, used : 0..MaxActions]
        BY DelegationTypes DEF TypeInv, TypeOK
    <2>4. task' # task
        BY <1>2, <2>2
    <2>5. ~Operation
        BY <1>2, <2>2, <2>3, <2>4
        DEF Operation, PrepareTask, Revoke, Deadline, PrepareAction, Reserve, AskAgain, Resume,
            DispatchEnds, Submit, ImportProposal, Unblock
    <2>6. ~Work
        BY <1>2, <2>2, WorkKeeps
    <2>7. CASE Decision
        <3>0. PICK a \in Approval, decided \in BOOLEAN : \E d : Decides(a, decided, d)
            BY <2>4, <2>7, DecisionCases DEF delegationVars
        <3>1. PICK d : Decides(a, decided, d)
            BY <3>0
        <3>2. decided /\ a = TheTask /\ d = "approved"
            BY <2>4, <3>1 DEF Decides, Effect, Apply
        <3> QED
            BY <3>1, <3>2 DEF Decides, Approved
    <2> QED
        BY <2>4, <2>5, <2>6, <2>7 DEF Next, BlockPeer, Block, vars, delegationVars
<1> QED
    BY <1>1, <1>2 DEF GrantedTask

\* An operation is approved once by the decision on its own question.
LEMMA GrantedOnceStep ==
    ASSUME TypeInv, GrantedOnce, [Next]_vars
    PROVE  GrantedOnce'
<1> SUFFICES ASSUME NEW o \in Op, op'[o].once PROVE Approved(OpApproval(o))'
    BY DEF GrantedOnce
<1> DEFINE Kept == op'[o].once = op[o].once
<1>1. CASE op[o].once
    BY <1>1, ApprovedStays, Requestable DEF GrantedOnce
<1>2. CASE ~op[o].once
    <2>1. op \in [Op -> OpRow]
        BY DelegationTypes DEF TypeInv, TypeOK
    <2>2. op'[o].once # op[o].once /\ op' # op
        BY <1>2
    <2>3. ASSUME NEW p \in Op, PrepareAction(p) PROVE Kept
        BY <1>2, <2>1, <2>3 DEF PrepareAction
    <2>4. ASSUME NEW p \in Op,
                 \E st \in {"awaiting", "sending", "accepted"} : op' = [op EXCEPT ![p].status = st]
          PROVE  Kept
        <3> PICK st \in {"awaiting", "sending", "accepted"} : op' = [op EXCEPT ![p].status = st]
            BY <2>4
        <3>1. [op[p] EXCEPT !.status = st].once = op[p].once
            BY <2>1 DEF OpRow
        <3> QED
            BY <2>1, <3>1
    <2>5. ASSUME NEW r \in Recipient, Block(r) PROVE Kept
        BY <2>1, <2>5, OpRowFacts DEF Block
    <2>6. ~Operation
        BY <2>2, <2>3, <2>4
        DEF Operation, PrepareTask, Revoke, Deadline, Reserve, AskAgain, Resume, DispatchEnds,
            Submit, ImportProposal, Unblock
    <2>7. ~Work
        BY <2>2, WorkKeeps
    <2>8. CASE Decision
        <3>0. PICK a \in Approval, decided \in BOOLEAN : \E d : Decides(a, decided, d)
            BY <2>2, <2>8, DecisionCases DEF delegationVars
        <3>1. PICK d : Decides(a, decided, d)
            BY <3>0
        <3>2. Apply(a, decided, d)
            BY <3>1 DEF Decides, Effect
        <3>3. decided /\ a = OpApproval(o) /\ d = "approved"
            BY <2>1, <2>2, <3>2, OpRowFacts DEF Apply
        <3> QED
            BY <3>1, <3>3 DEF Decides, Approved
    <2> QED
        BY <2>2, <2>5, <2>6, <2>7, <2>8 DEF Next, BlockPeer, vars, delegationVars
<1> QED
    BY <1>1, <1>2

\* An operation begins to leave by its reservation.
LEMMA BegunStep ==
    ASSUME TypeInv, [Next]_vars, NEW o \in Op, ~Begun(o), Begun(o)'
    PROVE  Reserve(o)
<1>1. op \in [Op -> OpRow] /\ batch \in [Op -> SUBSET Recipient]
    BY DelegationTypes DEF TypeInv, TypeOK
<1>2. batch[o] = {} /\ op[o].status # "sending" /\ o \notin Sent
    BY DEF Begun
<1>3. batch'[o] # {} \/ op'[o].status = "sending" \/ o \in Sent'
    BY DEF Begun
<1>4. ASSUME NEW p \in Op, NEW r \in Recipient, NEW outcome, Submit(p, r, outcome)
      PROVE  batch'[o] = batch[o] /\ op'[o] = op[o] /\ (o \in Sent' => o \in Sent)
    <2>1. p # o
        BY <1>2, <1>4 DEF Submit
    <2>2. batch'[o] = batch[o] /\ op'[o] = op[o]
        BY <1>1, <1>4, <2>1 DEF Submit
    <2>3. helper' \subseteq helper \cup {<<p, r>>}
        BY <1>4 DEF Submit
    <2> QED
        BY <2>1, <2>2, <2>3 DEF Sent
<1>5. o \notin Sent'
    BY <1>2, <1>4, HelperStep DEF Sent
<1>6. ~(batch'[o] = batch[o] /\ op'[o].status = op[o].status)
    BY <1>2, <1>3, <1>5
<1>7. ASSUME NEW p \in Op, op' = [op EXCEPT ![p].status = "awaiting"], batch' = batch
      PROVE  FALSE
    BY <1>1, <1>2, <1>3, <1>5, <1>7, OpRowFacts
<1>8. ASSUME NEW p \in Op, PrepareAction(p) PROVE FALSE
    BY <1>1, <1>2, <1>3, <1>5, <1>8 DEF PrepareAction
<1>9. ASSUME NEW p \in Op, Reserve(p) PROVE p = o
    BY <1>1, <1>6, <1>9 DEF Reserve
<1>10. ASSUME NEW p \in Op, Resume(p) \/ DispatchEnds(p) PROVE FALSE
    BY <1>1, <1>2, <1>6, <1>10 DEF Resume, DispatchEnds
<1>11. CASE Operation
    <2>1. CASE \E p \in Op : Reserve(p)
        BY <1>9, <2>1
    <2>2. CASE \E p \in Op : AskAgain(p)
        BY <1>7, <2>2 DEF AskAgain
    <2> QED
        BY <1>4, <1>6, <1>8, <1>10, <1>11, <2>1, <2>2
        DEF Operation, PrepareTask, Revoke, Deadline, ImportProposal, Unblock
<1>12. ~Work
    BY <1>6, WorkKeeps
<1>13. ASSUME NEW a, NEW decided, NEW d, Apply(a, decided, d) PROVE FALSE
    <2>1. batch' = batch /\ (op'[o] = op[o] \/ op'[o].status \in {"ready", "denied"})
        <3>1. batch' = batch /\ op'[o] \in {op[o], [op[o] EXCEPT !.status = "denied"],
                                         [op[o] EXCEPT !.status = "ready", !.once = TRUE]}
            BY <1>13 DEF Apply
        <3>2. op[o] \in OpRow
            BY <1>1
        <3> QED
            BY <3>1, <3>2 DEF OpRow
    <2> QED
        BY <1>2, <1>3, <1>5, <2>1
<1>14. ~Decision
    BY <1>6, <1>13, DecisionCases DEF Decides, Effect, delegationVars
<1>15. ASSUME NEW r \in Recipient, Block(r) PROVE FALSE
    <2>1. batch' = batch /\ (op'[o] = op[o] \/ op'[o].status = "denied")
        BY <1>1, <1>15, OpRowFacts DEF Block
    <2> QED
        BY <1>2, <1>3, <1>5, <2>1
<1> QED
    BY <1>6, <1>11, <1>12, <1>14, <1>15 DEF Next, BlockPeer, vars, delegationVars

\* An operation outside the scope begins to leave only when it was approved.
LEMMA GrantedBegunStep ==
    ASSUME TypeInv, GrantedOnce, GrantedBegun, [Next]_vars
    PROVE  GrantedBegun'
<1> SUFFICES ASSUME NEW o \in Op \cap Outside, Begun(o)' PROVE Approved(OpApproval(o))'
    BY DEF GrantedBegun
<1>1. CASE Begun(o)
    BY <1>1, ApprovedStays, Requestable DEF GrantedBegun
<1>2. CASE ~Begun(o)
    <2>1. Reserve(o)
        BY <1>2, BegunStep
    <2>2. Evaluate(o) # "allow"
        BY DEF Evaluate
    <2>3. op[o].once
        BY <2>1, <2>2 DEF Reserve
    <2> QED
        BY <2>3, ApprovedStays, Requestable DEF GrantedOnce
<1> QED
    BY <1>1, <1>2

\* A policy is in force only from the owner's approval of this very policy on.
LEMMA GrantedPolicyStep ==
    ASSUME TypeInv, GrantedPolicy, [Next]_vars
    PROVE  GrantedPolicy'
<1> SUFFICES ASSUME worker'.status = "active" PROVE Approved(PolicyApproval(worker.rev))'
                                                   /\ worker'.rev = worker.rev
    BY DEF GrantedPolicy, Approved
<1>1. worker \in PolicyRow /\ PolicyInv
    BY WorkerTypes DEF TypeInv, TypeOK, RowTypes
<1>2. CASE worker.status = "active" /\ worker'.rev = worker.rev
    <2>1. PolicyApproval(worker.rev) \in Approval
        BY <1>1, <1>2, Requestable DEF PolicyInv
    <2> QED
        BY <1>2, <2>1, ApprovedStays DEF GrantedPolicy, Approved
<1>3. CASE Decision
    <2>1. CASE worker' = worker
        BY <1>2, <2>1
    <2>2. CASE worker' # worker
        <3>0. PICK a \in Approval, decided \in BOOLEAN : \E d : Decides(a, decided, d)
            BY <1>3, <2>2, DecisionCases DEF workerVars
        <3>1. PICK d : Decides(a, decided, d)
            BY <3>0
        <3>2. PICK k \in Rev : decided /\ a = PolicyApproval(k)
            BY <2>2, <3>1 DEF Decides, Effect
        <3>3. worker' = [worker EXCEPT !.status = IF d = "approved" THEN "active" ELSE "stopped"]
            BY <3>1, <3>2 DEF Decides, Effect
        <3>4. d = "approved" /\ worker'.rev = worker.rev
            BY <1>1, <3>3 DEF PolicyRow
        <3>5. ~ApprovalCurrent(a)
            BY <3>2, Kinds DEF ApprovalCurrent
        <3>6. a = PolicyApproval(worker.rev)
            BY <3>1, <3>2, <3>5 DEF Decides, Current
        <3> QED
            BY <3>1, <3>2, <3>4, <3>6 DEF Decides, Approved
    <2> QED
        BY <2>1, <2>2
<1>4. CASE Operation \/ UNCHANGED vars
    BY <1>2, <1>4 DEF Operation, workerVars, vars
<1>5. ASSUME NEW r \in Recipient, BlockPeer(r) PROVE worker.status = "active" /\ worker'.rev = worker.rev
    BY <1>1, <1>5, PolicyRowFacts DEF BlockPeer
<1>6. ASSUME NEW t \in Ticker, TickClaim(t) PROVE worker.status = "active" /\ worker'.rev = worker.rev
    <2>1. worker' = [worker EXCEPT !.status = "stopped", !.runs = worker.runs + 1]
            \/ worker' = [worker EXCEPT !.runs = worker.runs + 1]
        BY <1>6 DEF TickClaim
    <2> QED
        BY <1>1, <1>6, <2>1 DEF TickClaim, PolicyRow
<1>7. ASSUME NEW t \in Ticker, TickReserve(t) PROVE worker.status = "active" /\ worker'.rev = worker.rev
    BY <1>1, <1>7 DEF TickReserve, PolicyRow, InContext, Active
<1>8. ASSUME NEW t \in Ticker, NEW pause, Close(t, pause)
      PROVE worker.status = "active" /\ worker'.rev = worker.rev
    BY <1>1, <1>8, PolicyRowFacts DEF Close
<1>9. ASSUME PreparePolicy \/ Pause \/ TickStops PROVE FALSE
    <2>1. CASE PreparePolicy
        BY <2>1 DEF PreparePolicy
    <2>2. CASE Pause \/ TickStops
        <3>1. worker' = [worker EXCEPT !.status = "stopped"]
            BY <2>2 DEF Pause, TickStops
        <3>2. worker'.status = "stopped"
            BY <1>1, <3>1, PolicyRowFacts
        <3> QED
            BY <3>2
    <2> QED
        BY <1>9, <2>1, <2>2
<1>10. CASE Work
    BY <1>2, <1>6, <1>7, <1>8, <1>9, <1>10
    DEF Work, PeerActs, TickStep, TickPrepare, TickRefused, TickSubmit, TickFinish, TickFails,
        Crash, Age, OwnerAnswers, OwnerReserves, OwnerSends
<1> QED
    BY <1>2, <1>3, <1>4, <1>5, <1>10 DEF Next

\* What a run hands over, its own policy has been approved for.
LEMMA GrantedHandedStep ==
    ASSUME TypeInv, GrantedPolicy, GrantedHanded, [Next]_vars
    PROVE  GrantedHanded'
<1> SUFFICES ASSUME NEW w \in Step, NEW i \in RunID, <<w, i>> \in handed'
             PROVE  Approved(PolicyApproval(i[1]))'
    BY DEF GrantedHanded
<1>1. i[1] \in Rev
    BY DEF RunID
<1>2. PolicyApproval(i[1]) \in Approval
    BY <1>1, Requestable
<1>3. CASE <<w, i>> \in handed
    BY <1>2, <1>3, ApprovedStays DEF GrantedHanded
<1>4. CASE <<w, i>> \notin handed
    <2>1. i # ByOwner
        BY <1>1, WorkerAssumption DEF ByOwner, Rev
    <2>4. ASSUME NEW x \in Step, NEW outcome \in Outcomes, OwnerSends(x, outcome) PROVE FALSE
        <3>1. handed' \subseteq handed \cup {<<x, ByOwner>>}
            BY <2>4 DEF OwnerSends, Hands
        <3> QED
            BY <1>4, <2>1, <3>1
    <2>2. PICK t \in Ticker, outcome \in Outcomes : TickSubmit(t, outcome)
        BY <1>4, <2>4, HandedStep
    <2>3. tick[t].id = i /\ Active(i[1])
        BY <1>4, <2>2 DEF TickSubmit, Hands, InContext
    <2> QED
        BY <1>2, <2>3, ApprovedStays DEF Active, GrantedPolicy
<1> QED
    BY <1>3, <1>4

\* The mandate stands behind every message, an approval of its own behind every
\* operation outside the scope, the approved policy behind every step of a run.
THEOREM ApprovedFirst == Spec => []NothingUnapproved
<1>1. Init => Granted
    BY DEF Init, DelegationInit, WorkerInit, Granted, GrantedTask, GrantedOnce, GrantedBegun,
           GrantedPolicy, GrantedHanded, Begun, Sent
<1>2. TypeInv /\ Granted /\ [Next]_vars => Granted'
    BY GrantedTaskStep, GrantedOnceStep, GrantedBegunStep, GrantedPolicyStep, GrantedHandedStep
    DEF Granted
<1>3. Granted => NothingUnapproved
    BY DEF Granted, GrantedTask, GrantedBegun, GrantedHanded, NothingUnapproved, Begun, Approved, Sent
<1> QED
    BY <1>1, <1>2, <1>3, TypeInit, TypeStep, PTL DEF Spec

-----------------------------------------------------------------------------
(* The budget.                                                              *)

\* A step that has been charged to the task.
Charged(w) ==
    \/ wop[w].status = "sending" \/ w \in Handed
    \/ \E t \in Ticker : tick[t].pc = "submit" /\ tick[t].step = w

SpentOps == {o \in Op : Begun(o)}
SpentSteps == {w \in Step \ {Receipt} : Charged(w)}

\* The budget is spent before anything leaves, and on everything that does.
BudgetInv ==
    /\ IsFiniteSet(SpentOps) /\ IsFiniteSet(SpentSteps)
    /\ Cardinality(SpentOps) + Cardinality(SpentSteps) <= task.used

\* The step of a tick only changes where it says so.
LEMMA OtherTicks ==
    ASSUME RowTypes, NEW t \in Ticker, NEW row, tick' = [tick EXCEPT ![t] = row],
           NEW u \in Ticker, tick'[u].pc = "submit", row.pc # "submit"
    PROVE  tick'[u] = tick[u]
BY DEF RowTypes

\* A run, or the owner, reserves a step.
Reserved(w) ==
    /\ OwnerReserves(w) \/ \E t \in Ticker : TickReserve(t) /\ tick[t].step = w
    /\ wop' = [wop EXCEPT ![w].status = "sending"]

\* A step is charged by its reservation, and by nothing else.
LEMMA ChargedStep ==
    ASSUME TypeInv, [Next]_vars, NEW w \in Step, ~Charged(w), Charged(w)'
    PROVE  Reserved(w)
<1>1. RowTypes
    BY WorkerTypes DEF TypeInv, TypeOK
<1>2. /\ wop[w].status # "sending" /\ w \notin Handed
      /\ \A t \in Ticker : tick[t].pc = "submit" => tick[t].step # w
    BY DEF Charged
<1>3. \/ wop'[w].status = "sending" \/ w \in Handed'
      \/ \E t \in Ticker : tick'[t].pc = "submit" /\ tick'[t].step = w
    BY DEF Charged
<1>4. w \notin Handed'
    <2>1. ASSUME NEW t \in Ticker, NEW outcome, TickSubmit(t, outcome) PROVE w \notin Handed'
        <3>1. handed' \subseteq handed \cup {<<tick[t].step, tick[t].id>>} /\ tick[t].step # w
            BY <1>2, <2>1 DEF TickSubmit, Hands
        <3> QED
            BY <1>2, <3>1 DEF Handed
    <2>2. ASSUME NEW x \in Step, NEW outcome, OwnerSends(x, outcome) PROVE w \notin Handed'
        <3>1. handed' \subseteq handed \cup {<<x, ByOwner>>} /\ x # w
            BY <1>2, <2>2 DEF OwnerSends, Hands
        <3> QED
            BY <1>2, <3>1 DEF Handed
    <2> QED
        BY <1>2, <2>1, <2>2, HandedStep DEF Handed
<1>5. ~(wop' = wop /\ tick' = tick)
    BY <1>2, <1>3, <1>4
<1>6. ASSUME NEW x \in Step, NEW st \in {"ready", "denied"}, wop' = [wop EXCEPT ![x].status = st]
      PROVE  wop'[w].status # "sending"
    BY <1>1, <1>2, <1>6, RowsChange DEF RowTypes, StepStatus
<1>7. ASSUME NEW t \in Ticker, NEW pc \in PC \ {"submit"}, tick' = [tick EXCEPT ![t].pc = pc],
             NEW u \in Ticker, tick'[u].pc = "submit"
      PROVE  tick'[u].step # w
    <2>1. [tick[t] EXCEPT !.pc = pc].pc # "submit"
        BY <1>1, <1>7, RowsChange DEF RowTypes
    <2>2. tick'[u] = tick[u]
        BY <1>1, <1>7, <2>1, OtherTicks
    <2> QED
        BY <1>2, <1>7, <2>2
<1>8. ASSUME NEW t \in Ticker, TickClaim(t) PROVE FALSE
    <2>1. CASE tick' = tick
        BY <1>5, <1>8, <2>1 DEF TickClaim
    <2>2. CASE tick' # tick
        <3> DEFINE row == [pc |-> Choice.pc, id |-> <<worker.rev, worker.runs + 1>>,
                           step |-> Choice.step]
        <3>1. tick' = [tick EXCEPT ![t] = row] /\ wop' = wop
            BY <1>8, <2>2 DEF TickClaim
        <3>2. row.pc # "submit"
            BY DEF Choice
        <3> HIDE DEF row
        <3>3. \A u \in Ticker : tick'[u].pc = "submit" => tick'[u] = tick[u]
            BY <1>1, <3>1, <3>2, OtherTicks
        <3> QED
            BY <1>2, <1>3, <1>4, <3>1, <3>3
    <2> QED
        BY <2>1, <2>2
<1>9. ASSUME NEW t \in Ticker, NEW verdict, TickPrepare(t, verdict) PROVE FALSE
    <2> DEFINE row == [status |-> IF verdict = "ask" THEN "asked" ELSE "ready",
                       applied |-> FALSE, context |-> Context]
    <2>1. /\ wop' = [wop EXCEPT ![tick[t].step] = row]
          /\ \E pc \in {"dispatch", "stop"} : tick' = [tick EXCEPT ![t].pc = pc]
        BY <1>9 DEF TickPrepare
    <2>2. row.status # "sending"
        OBVIOUS
    <2> HIDE DEF row
    <2>3. wop'[w].status # "sending"
        BY <1>1, <1>2, <2>1, <2>2 DEF RowTypes
    <2> QED
        BY <1>3, <1>4, <1>7, <2>1, <2>3 DEF PC
<1>10. ASSUME NEW t \in Ticker, TickReserve(t)
       PROVE  tick[t].step = w /\ wop' = [wop EXCEPT ![w].status = "sending"]
    <2> DEFINE x == tick[t].step
    <2>1. \/ wop' = wop /\ tick' = [tick EXCEPT ![t].pc = "stop"]
          \/ wop' = [wop EXCEPT ![x].status = "sending"] /\ tick' = [tick EXCEPT ![t].pc = "submit"]
        BY <1>10 DEF TickReserve
    <2>2. x \in Step
        BY <1>1, Fields DEF RowTypes
    <2>3. CASE wop' = wop /\ tick' = [tick EXCEPT ![t].pc = "stop"]
        BY <1>2, <1>3, <1>4, <1>7, <2>3 DEF PC
    <2>4. CASE /\ wop' = [wop EXCEPT ![x].status = "sending"]
               /\ tick' = [tick EXCEPT ![t].pc = "submit"]
        <3>1. \A u \in Ticker : tick'[u].step = tick[u].step
                                /\ (u # t => tick'[u] = tick[u])
            <4>1. tick[t] \in TickRow /\ tick \in [Ticker -> TickRow]
                BY <1>1 DEF RowTypes
            <4>2. [tick[t] EXCEPT !.pc = "submit"].step = tick[t].step
                BY <4>1 DEF TickRow
            <4> QED
                BY <2>4, <4>1, <4>2
        <3>2. x = w
            <4> HIDE DEF x
            <4>1. x # w => wop'[w] = wop[w]
                BY <1>1, <2>4 DEF RowTypes
            <4> QED
                BY <1>2, <1>3, <1>4, <3>1, <4>1 DEF x
        <3> QED
            BY <2>4, <3>2
    <2> QED
        BY <2>1, <2>3, <2>4
<1>11. ASSUME NEW t \in Ticker, TickRefused(t) PROVE FALSE
    <2>1. wop' = wop /\ \E pc \in {"sent", "stop"} : tick' = [tick EXCEPT ![t].pc = pc]
        BY <1>11 DEF TickRefused
    <2> QED
        BY <1>2, <1>3, <1>4, <1>7, <2>1 DEF PC
<1>12. ASSUME NEW x \in Step, NEW i, NEW outcome, Hands(x, i, outcome)
       PROVE  wop'[w].status # "sending"
    <2>1. CASE x = w
        BY <1>1, <1>2, <1>12, <2>1, HandsRow
    <2>2. CASE x # w
        <3>1. wop'[w] = wop[w]
            BY <1>1, <1>12, <2>2, HandsRow
        <3> QED
            BY <1>2, <3>1
    <2> QED
        BY <2>1, <2>2
<1>13. ASSUME NEW t \in Ticker, NEW outcome, TickSubmit(t, outcome) PROVE FALSE
    <2>1. tick[t].step \in Step
        BY <1>1, Fields DEF RowTypes
    <2>2. wop'[w].status # "sending"
        BY <1>12, <1>13, <2>1 DEF TickSubmit
    <2>3. \E pc \in {"sent", "stop"} : tick' = [tick EXCEPT ![t].pc = pc]
        BY <1>13 DEF TickSubmit
    <2> QED
        BY <1>3, <1>4, <1>7, <2>2, <2>3 DEF PC
<1>14. ASSUME NEW t \in Ticker, tick' = [tick EXCEPT ![t] = Idle], wop' = wop PROVE FALSE
    <2>1. \A u \in Ticker : tick'[u].pc = "submit" => tick'[u] = tick[u]
        BY <1>1, <1>14, OtherTicks DEF Idle
    <2> QED
        BY <1>2, <1>3, <1>4, <1>14, <2>1
<1>15. ASSUME NEW t \in Ticker, TickFinish(t) \/ TickFails(t) \/ Crash(t) PROVE FALSE
    BY <1>14, <1>15 DEF TickFinish, TickFails, Close, Crash
<1>16. ASSUME NEW x \in Step, NEW outcome, OwnerSends(x, outcome) PROVE FALSE
    BY <1>2, <1>3, <1>4, <1>12, <1>16 DEF OwnerSends
<1>17. ASSUME PeerActs PROVE FALSE
    <2>1. tick' = tick /\ (wop' = wop \/ wop' = [wop EXCEPT ![Receipt].status =
                                                    IF @ = "none" THEN "ready" ELSE @])
        <3>1. CASE PeerAsks
            BY <1>17, <3>1 DEF PeerActs, PeerAsks
        <3> QED
            BY <1>17, <3>1 DEF PeerActs, PeerTerms, PeerAgrees, PeerCloses
    <2>2. wop[Receipt] \in StepRow /\ wop \in [Step -> StepRow]
        BY <1>1, ReceiptIsStep DEF RowTypes
    <2>3. [wop[Receipt] EXCEPT !.status = "ready"].status = "ready"
          /\ [wop[Receipt] EXCEPT !.status = wop[Receipt].status].status = wop[Receipt].status
        BY <2>2 DEF StepRow
    <2>4. wop'[w].status # "sending"
        BY <1>2, <2>1, <2>2, <2>3
    <2> QED
        BY <1>2, <1>3, <1>4, <2>1, <2>4
<1>18. ASSUME NEW r \in Recipient, BlockPeer(r) PROVE FALSE
    <2>1. tick' = tick /\ (wop'[w] = wop[w] \/ wop'[w] = [wop[w] EXCEPT !.status = "denied"])
        BY <1>18 DEF BlockPeer
    <2>2. wop'[w].status # "sending"
        BY <1>1, <1>2, <2>1, RowsChange DEF RowTypes, StepStatus
    <2> QED
        BY <1>2, <1>3, <1>4, <2>1, <2>2
<1>21. ASSUME NEW x \in Step, NEW answer \in Decided, OwnerAnswers(x, answer) PROVE FALSE
    <2>1. tick' = tick /\ \E st \in {"ready", "denied"} : wop' = [wop EXCEPT ![x].status = st]
        BY <1>21 DEF OwnerAnswers
    <2> QED
        BY <1>2, <1>3, <1>4, <1>6, <2>1
<1>22. ASSUME NEW x \in Step, OwnerReserves(x) PROVE Reserved(w)
    <2>1. tick' = tick /\ wop' = [wop EXCEPT ![x].status = "sending"]
        BY <1>22 DEF OwnerReserves
    <2>2. x = w
        <3>1. x # w => wop'[w] = wop[w]
            BY <1>1, <2>1 DEF RowTypes
        <3> QED
            BY <1>2, <1>3, <1>4, <2>1, <3>1
    <2> QED
        BY <1>22, <2>1, <2>2 DEF Reserved
<1>19. CASE Work
    <2>1. ~(PreparePolicy \/ Pause \/ TickStops \/ \E i \in RunID : Age(i))
        BY <1>5 DEF PreparePolicy, Pause, TickStops, Age
    <2>2. (\E t \in Ticker : TickReserve(t)) \/ \E x \in Step : OwnerReserves(x)
        BY <1>8, <1>9, <1>11, <1>13, <1>15, <1>16, <1>17, <1>19, <1>21, <2>1 DEF Work, TickStep
    <2> QED
        BY <1>10, <1>22, <2>2 DEF Reserved
<1>20. ~Decision
    BY <1>5, DecisionCases DEF Decides, Effect, workerVars
<1> QED
    BY <1>5, <1>18, <1>19, <1>20 DEF Next, Operation, workerVars, vars

\* The budget only grows.
LEMMA UsedGrows ==
    ASSUME TypeInv, [Next]_vars
    PROVE  task.used \in Nat /\ task'.used \in Nat /\ task.used <= task'.used
<1>1. /\ task \in [status : {"none", "pending", "active", "revoked"}, used : 0..MaxActions]
      /\ task.used \in 0..MaxActions /\ MaxActions \in Nat
    BY DelegationTypes, DelegationAssumption DEF TypeInv, TypeOK
<1>2. \/ task'.used = task.used \/ task'.used = task.used + 1
    <2>1. CASE task' = task
        BY <2>1
    <2>2. ASSUME NEW st, task' = [task EXCEPT !.status = st] PROVE task'.used = task.used
        BY <1>1, <2>2
    <2>3. ASSUME task' = [task EXCEPT !.used = task.used + 1] PROVE task'.used = task.used + 1
        BY <1>1, <2>3
    <2>4. CASE Operation
        BY <2>1, <2>2, <2>3, <2>4
        DEF Operation, PrepareTask, Revoke, Deadline, PrepareAction, Reserve, AskAgain, Resume,
            DispatchEnds, Submit, ImportProposal, Unblock
    <2>5. CASE Decision
        BY <2>1, <2>2, <2>5, DecisionCases DEF Decides, Effect, Apply, delegationVars
    <2>6. CASE Work
        BY <2>1, <2>3, <2>6
        DEF Work, PreparePolicy, Pause, PeerActs, TickStops, TickStep, TickClaim, TickPrepare,
            TickReserve, TickRefused, TickSubmit, TickFinish, TickFails, Close, Crash, Age,
            OwnerAnswers, OwnerReserves, OwnerSends, delegationVars
    <2> QED
        BY <2>1, <2>4, <2>5, <2>6 DEF Next, BlockPeer, Block, vars, delegationVars
<1> QED
    BY <1>1, <1>2

\* At most one operation or step is charged at a time, and the budget with it.
LEMMA BudgetStep ==
    ASSUME TypeInv, BudgetInv, [Next]_vars
    PROVE  BudgetInv'
<1>1. /\ task \in [status : {"none", "pending", "active", "revoked"}, used : 0..MaxActions]
      /\ op \in [Op -> OpRow] /\ RowTypes
    BY DelegationTypes, WorkerTypes DEF TypeInv, TypeOK
<1>2. /\ Cardinality(SpentOps) \in Nat /\ Cardinality(SpentSteps) \in Nat
      /\ task.used \in Nat /\ task'.used \in Nat /\ task.used <= task'.used
    BY UsedGrows, FS_CardinalityType DEF BudgetInv
<1>3. ASSUME NEW o \in Op, Reserve(o)
      PROVE  /\ SpentOps' \subseteq SpentOps \cup {o} /\ SpentSteps' \subseteq SpentSteps
             /\ task'.used = task.used + 1
    <2>1. task'.used = task.used + 1
        BY <1>1, <1>3 DEF Reserve
    <2>2. \A p \in Op : Reserve(p) => p = o
        <3> SUFFICES ASSUME NEW p \in Op, Reserve(p), p # o PROVE FALSE
            OBVIOUS
        <3>1. /\ op[o].status = "ready" /\ op' = [op EXCEPT ![o].status = "sending"]
              /\ op' = [op EXCEPT ![p].status = "sending"]
            BY <1>3 DEF Reserve
        <3>2. op'[o] = op[o] /\ op'[o].status = "sending"
            <4>1. [op[o] EXCEPT !.status = "sending"].status = "sending"
                BY <1>1 DEF OpRow
            <4> QED
                BY <1>1, <3>1, <4>1
        <3> QED
            BY <3>1, <3>2
    <2>3. SpentOps' \subseteq SpentOps \cup {o}
        BY <2>2, BegunStep DEF SpentOps
    <2>4. \A w \in Step : Charged(w)' => Charged(w)
        <3> SUFFICES ASSUME NEW w \in Step, ~Charged(w), Charged(w)' PROVE FALSE
            OBVIOUS
        <3>1. Reserved(w)
            BY ChargedStep
        <3> QED
            <4>1. op' = op
                BY <3>1 DEF Reserved, TickReserve, OwnerReserves
            <4>2. op[o].status = "ready" /\ op' = [op EXCEPT ![o].status = "sending"]
                BY <1>3 DEF Reserve
            <4>3. op'[o].status = "sending"
                <5>1. [op[o] EXCEPT !.status = "sending"].status = "sending"
                    BY <1>1 DEF OpRow
                <5> QED
                    BY <1>1, <4>2, <5>1
            <4> QED
                BY <4>1, <4>2, <4>3
    <2> QED
        BY <2>1, <2>3, <2>4 DEF SpentSteps
<1>4. ASSUME NEW w \in Step \ {Receipt}, Reserved(w), ~Charged(w)
      PROVE  /\ SpentOps' \subseteq SpentOps /\ SpentSteps' \subseteq SpentSteps \cup {w}
             /\ task'.used = task.used + 1
    <2>1. wop[w].status = "ready" /\ wop' = [wop EXCEPT ![w].status = "sending"]
        BY <1>4 DEF Reserved, TickReserve, OwnerReserves
    <2>2. wop' # wop
        <3>1. wop[w] \in StepRow /\ wop \in [Step -> StepRow]
            BY <1>1 DEF RowTypes
        <3>2. [wop[w] EXCEPT !.status = "sending"].status = "sending"
            BY <3>1 DEF StepRow
        <3> QED
            BY <2>1, <3>1, <3>2
    <2>3. task'.used = task.used + 1
        BY <1>1, <1>4, <2>2 DEF Reserved, TickReserve, OwnerReserves
    <2>4. \A p \in Op : Begun(p)' => Begun(p)
        BY <1>4 DEF Reserved, TickReserve, OwnerReserves, Begun, Sent
    <2>5. ASSUME NEW x \in Step, wop' = [wop EXCEPT ![x].status = "sending"], x # w PROVE FALSE
        <3>1. wop \in [Step -> StepRow] /\ wop[w].status = "ready"
            BY <1>1, <2>1 DEF RowTypes
        <3>2. wop'[w] = wop[w]
            BY <2>5, <3>1
        <3>3. wop'[w] = [wop[w] EXCEPT !.status = "sending"]
            BY <2>1, <3>1
        <3> QED
            BY <3>1, <3>2, <3>3 DEF StepRow
    <2>6. SpentSteps' \subseteq SpentSteps \cup {w}
        BY <2>5, ChargedStep DEF SpentSteps, Reserved
    <2> QED
        BY <2>3, <2>4, <2>6 DEF SpentOps
<1>5. \/ SpentOps' \subseteq SpentOps /\ SpentSteps' \subseteq SpentSteps
      \/ \E o \in Op : /\ SpentOps' \subseteq SpentOps \cup {o} /\ SpentSteps' \subseteq SpentSteps
                       /\ task'.used = task.used + 1
      \/ \E w \in Step : /\ SpentOps' \subseteq SpentOps /\ SpentSteps' \subseteq SpentSteps \cup {w}
                         /\ task'.used = task.used + 1
    <2>1. CASE \E o \in Op : ~Begun(o) /\ Begun(o)'
        BY <1>3, <2>1, BegunStep
    <2>2. CASE \E w \in Step \ {Receipt} : ~Charged(w) /\ Charged(w)'
        BY <1>4, <2>2, ChargedStep
    <2> QED
        BY <2>1, <2>2 DEF SpentOps, SpentSteps
<1>6. CASE SpentOps' \subseteq SpentOps /\ SpentSteps' \subseteq SpentSteps
    <2>1. /\ IsFiniteSet(SpentOps') /\ Cardinality(SpentOps') <= Cardinality(SpentOps)
          /\ IsFiniteSet(SpentSteps') /\ Cardinality(SpentSteps') <= Cardinality(SpentSteps)
        BY <1>6, FS_Subset DEF BudgetInv
    <2>2. Cardinality(SpentOps') \in Nat /\ Cardinality(SpentSteps') \in Nat
        BY <2>1, FS_CardinalityType
    <2> QED
        BY <1>2, <2>1, <2>2 DEF BudgetInv
<1>7. ASSUME NEW o \in Op, SpentOps' \subseteq SpentOps \cup {o}, SpentSteps' \subseteq SpentSteps,
             task'.used = task.used + 1
      PROVE  BudgetInv'
    <2>1. /\ IsFiniteSet(SpentOps \cup {o})
          /\ Cardinality(SpentOps \cup {o}) <= Cardinality(SpentOps) + 1
        <3> DEFINE more == SpentOps \cup {o}
        <3>1. /\ IsFiniteSet(more)
              /\ \/ Cardinality(more) = Cardinality(SpentOps)
                 \/ Cardinality(more) = Cardinality(SpentOps) + 1
            BY FS_AddElement DEF BudgetInv
        <3> HIDE DEF more
        <3>2. IsFiniteSet(more) /\ Cardinality(more) <= Cardinality(SpentOps) + 1
            BY <1>2, <3>1
        <3> QED
            BY <3>2 DEF more
    <2>2. /\ IsFiniteSet(SpentOps') /\ Cardinality(SpentOps') <= Cardinality(SpentOps \cup {o})
          /\ IsFiniteSet(SpentSteps') /\ Cardinality(SpentSteps') <= Cardinality(SpentSteps)
        BY <1>7, <2>1, FS_Subset DEF BudgetInv
    <2>3. /\ Cardinality(SpentOps') \in Nat /\ Cardinality(SpentSteps') \in Nat
          /\ Cardinality(SpentOps \cup {o}) \in Nat
        BY <2>1, <2>2, FS_CardinalityType
    <2> QED
        BY <1>2, <1>7, <2>1, <2>2, <2>3 DEF BudgetInv
<1>8. ASSUME NEW w \in Step, SpentOps' \subseteq SpentOps, SpentSteps' \subseteq SpentSteps \cup {w},
             task'.used = task.used + 1
      PROVE  BudgetInv'
    <2>1. /\ IsFiniteSet(SpentSteps \cup {w})
          /\ Cardinality(SpentSteps \cup {w}) <= Cardinality(SpentSteps) + 1
        <3> DEFINE more == SpentSteps \cup {w}
        <3>1. /\ IsFiniteSet(more)
              /\ \/ Cardinality(more) = Cardinality(SpentSteps)
                 \/ Cardinality(more) = Cardinality(SpentSteps) + 1
            BY FS_AddElement DEF BudgetInv
        <3> HIDE DEF more
        <3>2. IsFiniteSet(more) /\ Cardinality(more) <= Cardinality(SpentSteps) + 1
            BY <1>2, <3>1
        <3> QED
            BY <3>2 DEF more
    <2>2. /\ IsFiniteSet(SpentSteps') /\ Cardinality(SpentSteps') <= Cardinality(SpentSteps \cup {w})
          /\ IsFiniteSet(SpentOps') /\ Cardinality(SpentOps') <= Cardinality(SpentOps)
        BY <1>8, <2>1, FS_Subset DEF BudgetInv
    <2>3. /\ Cardinality(SpentOps') \in Nat /\ Cardinality(SpentSteps') \in Nat
          /\ Cardinality(SpentSteps \cup {w}) \in Nat
        BY <2>1, <2>2, FS_CardinalityType
    <2> QED
        BY <1>2, <1>8, <2>1, <2>2, <2>3 DEF BudgetInv
<1> QED
    BY <1>5, <1>6, <1>7, <1>8

\* max_actions holds over everything that has left, the owner's operations and
\* the worker's steps together, whatever was repeated, resumed or interrupted.
THEOREM BudgetCorrect == Spec => []BudgetHolds
<1>1. ASSUME Init PROVE BudgetInv
    <2>1. SpentOps = {} /\ SpentSteps = {} /\ task.used = 0
        BY <1>1
        DEF Init, DelegationInit, WorkerInit, SpentOps, SpentSteps, Begun, Sent, Charged, Handed, Idle
    <2> QED
        BY <2>1, FS_EmptySet DEF BudgetInv
<1>2. TypeInv /\ BudgetInv /\ [Next]_vars => BudgetInv'
    BY BudgetStep
<1>3. ASSUME TypeInv, BudgetInv PROVE BudgetHolds
    <2>1. Sent \subseteq SpentOps /\ (Handed \ {Receipt}) \subseteq SpentSteps
        BY DEF Sent, Handed, SpentOps, SpentSteps, Begun, Charged
    <2>2. /\ IsFiniteSet(Sent) /\ Cardinality(Sent) <= Cardinality(SpentOps)
          /\ IsFiniteSet(Handed \ {Receipt})
          /\ Cardinality(Handed \ {Receipt}) <= Cardinality(SpentSteps)
        BY <1>3, <2>1, FS_Subset DEF BudgetInv
    <2>3. /\ Cardinality(SpentOps) \in Nat /\ Cardinality(SpentSteps) \in Nat
          /\ Cardinality(Sent) \in Nat /\ Cardinality(Handed \ {Receipt}) \in Nat
        BY <1>3, <2>2, FS_CardinalityType DEF BudgetInv
    <2>4. task.used \in 0..MaxActions
        BY <1>3, DelegationTypes DEF TypeInv, TypeOK
    <2> QED
        BY <1>3, <2>2, <2>3, <2>4, DelegationAssumption DEF BudgetInv, BudgetHolds
<1> QED
    BY <1>1, <1>2, <1>3, TypeInit, TypeStep, PTL DEF Spec

-----------------------------------------------------------------------------
(* The candidates.                                                          *)

\* Operations whose budget is spent; those of them that disclose slots the
\* owner was not asked about; operations the owner has approved one by one.
Claimed(o) == op[o].status \in {"sending", "accepted"}
Unconsented == {o \in Op : Claimed(o) /\ Capability[o] = "share_slots" /\ ~op[o].once}
Consented == {o \in Op : op[o].once}

\* The slots that these operations disclose to r.
Shared(ops, r) == UNION {Slots[o] : o \in {x \in ops : r \in To[x]}}
Beyond(r) == Shared(Unconsented, r) \ Shared(Consented, r)

\* Until a block retires what was sent, everything that left, or is under way,
\* is claimed, and what was claimed without asking stays below the limit.
ClaimedFirst ==
    /\ IsFiniteSet({o \in Op : Claimed(o)})
    /\ \A o \in Op : batch[o] # {} \/ o \in Sent => Claimed(o)
    /\ \A o \in Op : op[o].once => op[o].status # "none"
BeyondBounded ==
    \A r \in Recipient : IsFiniteSet(Beyond(r)) /\ Cardinality(Beyond(r)) <= MaxCandidates
CandidatesInv == blocks = 0 => ClaimedFirst /\ BeyondBounded

\* Without a block now there was none before.
LEMMA UnblockedBefore ==
    ASSUME TypeInv, [Next]_vars, blocks' = 0
    PROVE  blocks = 0 /\ ~\E r \in Recipient : BlockPeer(r)
<1>1. blocks \in Nat
    BY DelegationTypes, DelegationAssumption DEF TypeInv, TypeOK
<1>2. ~\E r \in Recipient : BlockPeer(r)
    BY <1>1 DEF BlockPeer, Block
<1>3. CASE Operation
    BY <1>2, <1>3
    DEF Operation, PrepareTask, Revoke, Deadline, PrepareAction, Reserve, AskAgain, Resume,
        DispatchEnds, Submit, ImportProposal, Unblock
<1>4. CASE Decision
    BY <1>2, <1>4, DecisionCases DEF Decides, Effect, Apply, delegationVars
<1>5. CASE Work
    BY <1>2, <1>5, WorkKeeps
<1> QED
    BY <1>2, <1>3, <1>4, <1>5 DEF Next, vars, delegationVars

\* What a step does to an operation while nobody is blocked.
LEMMA ClaimStep ==
    ASSUME TypeInv, ClaimedFirst, [Next]_vars, blocks' = 0, NEW o \in Op
    PROVE  /\ Claimed(o) => Claimed(o)' /\ (op'[o].once <=> op[o].once)
           /\ Claimed(o)' => Claimed(o) \/ Reserve(o)
           /\ op[o].once => op'[o].once
           /\ op'[o].once => op'[o].status # "none"
           /\ batch'[o] # {} \/ o \in Sent' => Claimed(o)'
<1> DEFINE Moved == /\ Claimed(o) => Claimed(o)' /\ (op'[o].once <=> op[o].once)
                    /\ Claimed(o)' => Claimed(o) \/ Reserve(o)
                    /\ op[o].once => op'[o].once
                    /\ op'[o].once => op'[o].status # "none"
<1>1. op \in [Op -> OpRow] /\ batch \in [Op -> SUBSET Recipient] /\ op[o] \in OpRow
    BY DelegationTypes DEF TypeInv, TypeOK
<1> HIDE DEF Moved
<1>2. ASSUME op'[o] = op[o] PROVE Moved
    BY <1>2 DEF Moved, Claimed, ClaimedFirst
<1>3. ASSUME NEW p \in Op, PrepareAction(p) PROVE Moved
    <2>1. CASE p = o
        <3>1. op[o].status = "none" /\ ~op[o].once
            BY <1>3, <2>1 DEF PrepareAction, ClaimedFirst
        <3>2. op'[o].status \in {"ready", "awaiting"} /\ ~op'[o].once
            BY <1>1, <1>3, <2>1 DEF PrepareAction
        <3> QED
            BY <3>1, <3>2 DEF Moved, Claimed
    <2>2. CASE p # o
        BY <1>1, <1>2, <1>3, <2>2 DEF PrepareAction
    <2> QED
        BY <2>1, <2>2
<1>4. ASSUME NEW p \in Op, Reserve(p) PROVE Moved
    <2>1. CASE p = o
        <3>1. op'[o] = [op[o] EXCEPT !.status = "sending"]
            BY <1>1, <1>4, <2>1 DEF Reserve
        <3>2. op'[o].status = "sending" /\ op'[o].once = op[o].once
            BY <1>1, <3>1 DEF OpRow
        <3> QED
            BY <1>4, <2>1, <3>2 DEF Moved, Claimed
    <2>2. CASE p # o
        BY <1>1, <1>2, <1>4, <2>2 DEF Reserve
    <2> QED
        BY <2>1, <2>2
<1>5. ASSUME NEW p \in Op, AskAgain(p) PROVE Moved
    <2>1. CASE p = o
        <3>1. op[o].status = "ready" /\ op'[o] = [op[o] EXCEPT !.status = "awaiting"]
            BY <1>1, <1>5, <2>1 DEF AskAgain
        <3>2. op'[o].status = "awaiting" /\ op'[o].once = op[o].once
            BY <1>1, <3>1 DEF OpRow
        <3> QED
            BY <3>1, <3>2 DEF Moved, Claimed
    <2>2. CASE p # o
        BY <1>1, <1>2, <1>5, <2>2 DEF AskAgain
    <2> QED
        BY <2>1, <2>2
<1>6. ASSUME NEW p \in Op, NEW r \in Recipient, NEW outcome, Submit(p, r, outcome)
      PROVE  Moved
    <2>1. CASE p = o
        <3>1. Claimed(o)
            BY <1>6, <2>1 DEF Submit, ClaimedFirst
        <3>2. PICK st \in {"sending", "accepted"} : op' = [op EXCEPT ![o].status = st]
            BY <1>6, <2>1 DEF Submit
        <3>3. op'[o] = [op[o] EXCEPT !.status = st]
            BY <1>1, <3>2
        <3>4. op'[o].status = st /\ op'[o].once = op[o].once
            BY <1>1, <3>3 DEF OpRow
        <3> QED
            BY <3>1, <3>4 DEF Moved, Claimed
    <2>2. CASE p # o
        BY <1>1, <1>2, <1>6, <2>2 DEF Submit
    <2> QED
        BY <2>1, <2>2
<1>7. ASSUME Operation PROVE Moved
    BY <1>2, <1>3, <1>4, <1>5, <1>6, <1>7
    DEF Operation, PrepareTask, Revoke, Deadline, Resume, DispatchEnds, ImportProposal, Unblock
<1>8. ASSUME NEW a \in Approval, NEW decided \in BOOLEAN, NEW d, Decides(a, decided, d)
      PROVE  Moved
    <2>1. CASE ~decided \/ a # OpApproval(o)
        BY <1>2, <1>8, <2>1 DEF Decides, Effect, Apply
    <2>2. CASE decided /\ a = OpApproval(o)
        <3>1. Current(a)
            BY <1>8, <2>2 DEF Decides
        <3>2. a # TheTask /\ a # PolicyApproval(worker.rev)
            BY <2>2 DEF OpApproval, TheTask, PolicyApproval
        <3>3. op[o].status = "awaiting"
            BY <2>2, <3>1, <3>2, Kinds DEF Current, ApprovalCurrent
        <3>4. op'[o] \in {[op[o] EXCEPT !.status = "denied"],
                          [op[o] EXCEPT !.status = "ready", !.once = TRUE]}
            BY <1>8, <2>2 DEF Decides, Effect, Apply
        <3>5. op'[o].status \in {"ready", "denied"} /\ (op[o].once => op'[o].once)
            BY <1>1, <3>4 DEF OpRow
        <3> QED
            BY <3>3, <3>5 DEF Moved, Claimed
    <2> QED
        BY <2>1, <2>2
<1>9. ASSUME Decision PROVE Moved
    BY <1>2, <1>8, <1>9, DecisionCases DEF delegationVars
<1>10. ASSUME Work PROVE Moved
    BY <1>2, <1>10, WorkKeeps
<1>11. ASSUME UNCHANGED vars PROVE Moved
    BY <1>2, <1>11 DEF vars, delegationVars
<1>12. ~\E r \in Recipient : BlockPeer(r)
    BY UnblockedBefore
<1>13. Moved
    BY <1>7, <1>9, <1>10, <1>11, <1>12 DEF Next
<1>14. ASSUME batch'[o] # {} \/ o \in Sent', ~Claimed(o)' PROVE FALSE
    <2>1. ~Claimed(o)
        BY <1>13, <1>14 DEF Moved
    <2>2. ~Begun(o)
        BY <2>1 DEF Begun, Claimed, ClaimedFirst
    <2>3. Begun(o)'
        BY <1>14 DEF Begun
    <2>4. Reserve(o)
        BY <2>2, <2>3, BegunStep
    <2>5. op'[o] = [op[o] EXCEPT !.status = "sending"]
        BY <1>1, <2>4 DEF Reserve
    <2>6. op'[o].status = "sending"
        BY <1>1, <2>5 DEF OpRow
    <2> QED
        BY <1>14, <2>6 DEF Claimed
<1> QED
    BY <1>13, <1>14 DEF Moved

\* Only one operation is reserved at a time.
LEMMA OneReservation ==
    ASSUME TypeInv, NEW o \in Op, NEW p \in Op, Reserve(o), Reserve(p)
    PROVE  o = p
<1> SUFFICES ASSUME o # p PROVE FALSE
    OBVIOUS
<1>1. op \in [Op -> OpRow] /\ op[o] \in OpRow
    BY DelegationTypes DEF TypeInv, TypeOK
<1>2. /\ op[o].status = "ready" /\ op' = [op EXCEPT ![o].status = "sending"]
      /\ op' = [op EXCEPT ![p].status = "sending"]
    BY DEF Reserve
<1>3. op'[o] = op[o] /\ op'[o] = [op[o] EXCEPT !.status = "sending"]
    BY <1>1, <1>2
<1>4. op'[o].status = "sending"
    BY <1>1, <1>3 DEF OpRow
<1> QED
    BY <1>2, <1>3, <1>4

\* What is claimed, and how many they are, changes by one reservation.
LEMMA ClaimedFirstStep ==
    ASSUME TypeInv, ClaimedFirst, [Next]_vars, blocks' = 0
    PROVE  ClaimedFirst'
<1> DEFINE claimed == {o \in Op : Claimed(o)}
<1>1. IsFiniteSet(claimed)
    BY DEF ClaimedFirst
<1>2. claimed' \subseteq claimed \/ \E o \in Op : claimed' \subseteq claimed \cup {o}
    <2>1. ASSUME NEW o \in Op, Reserve(o) PROVE claimed' \subseteq claimed \cup {o}
        BY <2>1, OneReservation, ClaimStep
    <2>2. CASE ~\E o \in Op : Reserve(o)
        BY <2>2, ClaimStep
    <2> QED
        BY <2>1, <2>2
<1>3. IsFiniteSet(claimed')
    BY <1>1, <1>2, FS_AddElement, FS_Subset
<1> QED
    BY <1>3, ClaimStep DEF ClaimedFirst

\* The slots of finitely many operations are finitely many.
LEMMA SharedFinite ==
    ASSUME NEW ops, ops \subseteq Op, IsFiniteSet(ops), NEW r
    PROVE  IsFiniteSet(Shared(ops, r))
<1> DEFINE sharing == {x \in ops : r \in To[x]}
           slots == {Slots[o] : o \in sharing}
           f == [o \in sharing |-> Slots[o]]
<1>1. IsFiniteSet(sharing)
    BY FS_Subset
<1>2. f \in Surjection(sharing, slots)
    BY DEF Surjection
<1>3. IsFiniteSet(slots)
    BY <1>1, <1>2, FS_Surjection
<1>4. \A s \in slots : IsFiniteSet(s)
    BY DelegationAssumption
<1> HIDE DEF slots
<1>5. IsFiniteSet(UNION slots)
    BY <1>3, <1>4, FS_UNION
<1> QED
    BY <1>5 DEF slots, Shared

\* More operations share more.
LEMMA SharedGrows ==
    ASSUME NEW a, NEW b, a \subseteq b, NEW r
    PROVE  Shared(a, r) \subseteq Shared(b, r)
BY DEF Shared

\* What one operation adds.
LEMMA SharedOne ==
    ASSUME NEW a, NEW b, NEW o, b \subseteq a \cup {o}, NEW r
    PROVE  /\ Shared(b, r) \subseteq Shared(a, r) \cup Slots[o]
           /\ r \notin To[o] => Shared(b, r) \subseteq Shared(a, r)
BY DEF Shared

\* What the code looks at is what was shared with or without asking.
LEMMA ExposedIsShared ==
    ASSUME NEW r
    PROVE  /\ Shared(Unconsented, r) \subseteq Exposed(r)
           /\ Exposed(r) \subseteq Shared(Unconsented, r) \cup Shared(Consented, r)
           /\ Exposed(r) = Shared({o \in Op : Claimed(o) /\ Capability[o] = "share_slots"}, r)
<1>1. \A x \in Op : x \in Unconsented => /\ op[x].status \in {"sending", "accepted"}
                                         /\ Capability[x] = "share_slots"
    BY DEF Unconsented, Claimed
<1>2. \A x \in Op : op[x].status \in {"sending", "accepted"} /\ Capability[x] = "share_slots"
                    => x \in Unconsented \/ x \in Consented
    BY DEF Unconsented, Consented, Claimed
<1>3. Exposed(r) = Shared({o \in Op : Claimed(o) /\ Capability[o] = "share_slots"}, r)
    BY DEF Exposed, Shared, Claimed
<1>4. Unconsented \subseteq Op
    BY DEF Unconsented
<1>5. Shared(Unconsented, r) \subseteq Exposed(r)
    BY <1>1, <1>4 DEF Exposed, Shared
<1>6. Exposed(r) \subseteq Shared(Unconsented, r) \cup Shared(Consented, r)
    BY <1>2 DEF Exposed, Shared
<1> QED
    BY <1>3, <1>5, <1>6

\* An operation reserved without asking stays within the limit, on top of all
\* that its recipients have seen.
LEMMA BeyondStep ==
    ASSUME TypeInv, ClaimedFirst, BeyondBounded, [Next]_vars, blocks' = 0
    PROVE  BeyondBounded'
<1> SUFFICES ASSUME NEW r \in Recipient
             PROVE  IsFiniteSet(Beyond(r)') /\ Cardinality(Beyond(r)') <= MaxCandidates
    BY DEF BeyondBounded
<1>0. IsFiniteSet(Beyond(r)) /\ Cardinality(Beyond(r)) <= MaxCandidates
    BY DEF BeyondBounded
<1>1. Consented \subseteq Consented'
    BY ClaimStep DEF Consented
<1>2. Shared(Consented, r) \subseteq Shared(Consented', r)
    BY <1>1, SharedGrows
<1>3. Beyond(r)' = Shared(Unconsented', r) \ Shared(Consented', r)
    BY DEF Beyond, Shared
<1>4. \A o \in Op : o \in Unconsented' => o \in Unconsented \/ (Reserve(o) /\ ~op[o].once)
    BY ClaimStep DEF Unconsented
<1>5. ASSUME Shared(Unconsented', r) \subseteq Shared(Unconsented, r) \cup Shared(Consented, r)
      PROVE  IsFiniteSet(Beyond(r)') /\ Cardinality(Beyond(r)') <= MaxCandidates
    <2>1. Beyond(r)' \subseteq Beyond(r)
        BY <1>2, <1>3, <1>5 DEF Beyond
    <2>2. IsFiniteSet(Beyond(r)') /\ Cardinality(Beyond(r)') <= Cardinality(Beyond(r))
        BY <1>0, <2>1, FS_Subset
    <2>3. Cardinality(Beyond(r)') \in Nat /\ Cardinality(Beyond(r)) \in Nat
        BY <1>0, <2>2, FS_CardinalityType
    <2> QED
        BY <1>0, <2>2, <2>3, DelegationAssumption
<1>6. CASE Unconsented' \subseteq Unconsented
    BY <1>5, <1>6, SharedGrows
<1>7. ASSUME NEW o \in Unconsented', o \notin Unconsented
      PROVE  IsFiniteSet(Beyond(r)') /\ Cardinality(Beyond(r)') <= MaxCandidates
    <2>1. /\ o \in Op /\ Reserve(o) /\ ~op[o].once /\ Capability[o] = "share_slots"
        BY <1>4, <1>7 DEF Unconsented
    <2>2. Unconsented' \subseteq Unconsented \cup {o}
        <3>1. Unconsented' \subseteq Op
            BY DEF Unconsented
        <3> QED
            BY <1>4, <2>1, <3>1, OneReservation
    <2>3. /\ Shared(Unconsented', r) \subseteq Shared(Unconsented, r) \cup Slots[o]
          /\ r \notin To[o] => Shared(Unconsented', r) \subseteq Shared(Unconsented, r)
        BY <2>2, SharedOne
    <2>4. CASE r \notin To[o]
        BY <1>5, <2>3, <2>4
    <2>5. CASE r \in To[o]
        <3>1. ~Probing(o)
            BY <2>1 DEF Reserve, Evaluate
        <3>2. \/ Slots[o] \subseteq Exposed(r)
              \/ ~(Cardinality(Exposed(r) \cup Slots[o]) > MaxCandidates)
            BY <2>1, <2>5, <3>1 DEF Probing
        <3>3. CASE Slots[o] \subseteq Exposed(r)
            BY <1>5, <2>3, <3>3, ExposedIsShared
        <3>4. CASE ~(Cardinality(Exposed(r) \cup Slots[o]) > MaxCandidates)
            <4> DEFINE disclosing == {x \in Op : Claimed(x) /\ Capability[x] = "share_slots"}
                       seen == Exposed(r) \cup Slots[o]
            <4>1. IsFiniteSet(disclosing) /\ disclosing \subseteq Op
                BY FS_Subset DEF ClaimedFirst
            <4>2. IsFiniteSet(Exposed(r))
                BY <4>1, SharedFinite, ExposedIsShared
            <4>3. IsFiniteSet(seen)
                BY <2>1, <4>2, FS_Union, DelegationAssumption
            <4>4. Beyond(r)' \subseteq seen
                BY <1>3, <2>3, ExposedIsShared
            <4>5. ~(Cardinality(seen) > MaxCandidates)
                BY <3>4
            <4> HIDE DEF seen
            <4>6. IsFiniteSet(Beyond(r)') /\ Cardinality(Beyond(r)') <= Cardinality(seen)
                BY <4>3, <4>4, FS_Subset
            <4>7. Cardinality(Beyond(r)') \in Nat /\ Cardinality(seen) \in Nat
                BY <4>3, <4>6, FS_CardinalityType
            <4> QED
                BY <4>5, <4>6, <4>7, DelegationAssumption
        <3> QED
            BY <3>2, <3>3, <3>4
    <2> QED
        BY <2>4, <2>5
<1> QED
    BY <1>6, <1>7

\* max_candidates holds over all dispatches to a contact: beyond what the owner
\* approved one by one, no contact receives more candidate slots, whatever was
\* lost or is uncertain.
THEOREM CandidatesCorrect == Spec => []CandidatesBounded
<1>1. ASSUME Init PROVE CandidatesInv
    <2>1. /\ {o \in Op : Claimed(o)} = {} /\ Unconsented = {}
          /\ \A o \in Op : batch[o] = {} /\ o \notin Sent /\ ~op[o].once
        BY <1>1 DEF Init, DelegationInit, Claimed, Unconsented, Sent
    <2>2. \A r \in Recipient : Beyond(r) = {}
        BY <2>1 DEF Beyond, Shared
    <2>3. IsFiniteSet({}) /\ Cardinality({}) <= MaxCandidates
        BY FS_EmptySet, DelegationAssumption
    <2> QED
        BY <2>1, <2>2, <2>3 DEF CandidatesInv, ClaimedFirst, BeyondBounded
<1>2. ASSUME TypeInv, CandidatesInv, [Next]_vars PROVE CandidatesInv'
    <2> SUFFICES ASSUME blocks' = 0 PROVE ClaimedFirst' /\ BeyondBounded'
        BY DEF CandidatesInv
    <2>1. blocks = 0
        BY <1>2, UnblockedBefore
    <2> QED
        BY <1>2, <2>1, ClaimedFirstStep, BeyondStep DEF CandidatesInv
<1>3. ASSUME TypeInv, CandidatesInv PROVE CandidatesBounded
    <2> SUFFICES ASSUME blocks = 0, NEW r \in Recipient
                 PROVE  LET shared(ops) == UNION {Slots[o] : o \in {x \in ops : r \in To[x]}}
                            unasked == {o \in Sent : Capability[o] = "share_slots" /\ ~op[o].once}
                        IN Cardinality(shared(unasked) \ shared({o \in Op : op[o].once}))
                             <= MaxCandidates
        BY DEF CandidatesBounded
    <2> DEFINE unasked == {o \in Sent : Capability[o] = "share_slots" /\ ~op[o].once}
               left == Shared(unasked, r) \ Shared(Consented, r)
    <2>1. unasked \subseteq Unconsented
        BY <1>3 DEF CandidatesInv, ClaimedFirst, Unconsented, Sent
    <2>2. left \subseteq Beyond(r)
        BY <2>1, SharedGrows DEF Beyond
    <2>3. IsFiniteSet(Beyond(r)) /\ Cardinality(Beyond(r)) <= MaxCandidates
        BY <1>3 DEF CandidatesInv, BeyondBounded
    <2> HIDE DEF left
    <2>4. IsFiniteSet(left) /\ Cardinality(left) <= Cardinality(Beyond(r))
        BY <2>2, <2>3, FS_Subset
    <2>5. Cardinality(left) \in Nat /\ Cardinality(Beyond(r)) \in Nat
        BY <2>3, <2>4, FS_CardinalityType
    <2>6. Cardinality(left) <= MaxCandidates
        BY <2>3, <2>4, <2>5, DelegationAssumption
    <2> QED
        BY <2>6 DEF left, Shared, Consented
<1> QED
    BY <1>1, <1>2, <1>3, TypeInit, TypeStep, PTL DEF Spec
=============================================================================
