----------------------------- MODULE Delegation -----------------------------
(***************************************************************************)
(* A delegated task and the operations an agent prepares and sends under   *)
(* it (agent_comm_runtime/store.py with policy.py): the owner approves the *)
(* mandate once; an operation inside it needs no further decision, one     *)
(* outside it needs an approval of its own; sending reserves the action    *)
(* budget in one transaction and then hands each recipient's message to    *)
(* the helper in a transaction of its own.  Revocation, a block, the       *)
(* deadline and a new proposal may come between any two of them, a call to *)
(* the helper may fail or lose its answer, and the call that dispatches    *)
(* may stop anywhere and be made again.                                    *)
(*                                                                         *)
(* Abstracted: one task, whose revision changes only when it is revoked;   *)
(* one proposal of it, whose contents are members of Payload; what an      *)
(* operation says beyond its slots or its proposal.  Every recipient is a  *)
(* connected contact of the scope.                                         *)
(***************************************************************************)
EXTENDS Approvals

CONSTANTS
    Op,           \* operations that may be prepared
    Recipient,    \* confirmed contacts in the scope
    Payload,      \* contents of the task's proposal
    Version,      \* the version each of them carries; no proposal is version 0
    Capability,   \* of each operation: "share_slots", "propose", "accept" or "other"
    To,           \* the recipients of each operation
    Slots,        \* the slots each discloses
    Content,      \* the proposal it makes or accepts
    Outside,      \* operations the scope does not cover, and free text
    Offers,       \* proposals received and reviewed, as <<sender, payload>>
    MaxActions, MaxCandidates,   \* limits of the scope
    Plans,        \* sets of what may come up in one behaviour: operations, the
                  \* recipients the owner may block, the deadline (Ends)
    Ends,
    MaxBlocks,    \* bound: blocks
    None

TheTask == <<"task">>
OpApproval(o) == <<"operation", o>>
Capabilities == {"share_slots", "propose", "accept", "other"}

ASSUME DelegationAssumption ==
    /\ Version \in [Payload \cup {None} -> Nat] /\ None \notin Payload
    /\ Version[None] = 0 /\ \A p \in Payload : Version[p] > 0
    /\ Capability \in [Op -> Capabilities]
    /\ To \in [Op -> SUBSET Recipient] /\ \A o \in Op : To[o] # {}
    /\ \A o \in Op : IsFiniteSet(Slots[o])
    /\ Content \in [Op -> Payload \cup {None}]
    /\ \A o \in Op : Capability[o] \in {"propose", "accept"} => Content[o] \in Payload
    /\ Offers \subseteq Recipient \X Payload
    /\ MaxActions \in Nat /\ MaxCandidates \in Nat /\ MaxBlocks \in Nat
    /\ {TheTask} \cup {OpApproval(o) : o \in Op} \subseteq Approval

VARIABLES
    task,      \* the mandate: its status and the actions it has spent
    late,      \* whether its expiry has passed
    op,        \* the operation rows
    plan,      \* the activities of this behaviour
    acked,     \* deliveries the helper has confirmed
    batch,     \* recipients the dispatch call under way has still to serve
    prop,      \* the current proposal and the message it came from, if any
    blocked,   \* recipients the owner blocks now
    tomb,      \* received proposals a block has withdrawn for good
    blocks,
    helper     \* messages in the helper's durable outbox, by their stable ID

delegationVars == <<plan, task, late, op, acked, batch, prop, blocked, tomb, blocks, helper>>

DelegationType ==
    /\ task \in [status : {"none", "pending", "active", "revoked"}, used : 0..MaxActions]
    /\ late \in BOOLEAN
    /\ op \in [Op -> [status : {"none", "awaiting", "ready", "sending", "accepted", "denied"},
                      once : BOOLEAN, base : Payload \cup {None}]]
    /\ plan \in Plans /\ acked \subseteq Op \X Recipient
    /\ batch \in [Op -> SUBSET Recipient]
    /\ prop \in [content : Payload \cup {None}, source : SUBSET Offers]
    /\ blocked \subseteq Recipient /\ tomb \subseteq Offers /\ blocks \in 0..MaxBlocks
    /\ helper \subseteq Op \X Recipient

DelegationInit ==
    /\ task = [status |-> "none", used |-> 0] /\ late = FALSE
    /\ op = [o \in Op |-> [status |-> "none", once |-> FALSE, base |-> None]]
    /\ plan \in Plans /\ acked = {}
    /\ batch = [o \in Op |-> {}]
    /\ prop = [content |-> None, source |-> {}]
    /\ blocked = {} /\ tomb = {} /\ blocks = 0
    /\ helper = {}

TaskLive == task.status = "active" /\ ~late
CanSend(r) == r \notin blocked

-----------------------------------------------------------------------------
(* The scope.                                                               *)

\* Mutant: only a confirmed delivery counts as disclosed.
ExposedAccepted(r) ==
    UNION {Slots[o] : o \in {x \in Op : /\ op[x].status = "accepted"
                                        /\ Capability[x] = "share_slots" /\ r \in To[x]}}

\* Slots that a reserved operation has disclosed, or may have, to r.
Exposed(r) ==
    UNION {Slots[o] : o \in {x \in Op : /\ op[x].status \in {"sending", "accepted"}
                                        /\ Capability[x] = "share_slots" /\ r \in To[x]}}

\* New slots on top of what the recipient has seen exceed the candidate limit.
Probing(o) ==
    /\ Capability[o] = "share_slots"
    /\ \E r \in To[o] : /\ ~(Slots[o] \subseteq Exposed(r))
                        /\ Cardinality(Exposed(r) \cup Slots[o]) > MaxCandidates

\* evaluate and _evaluate_current; expiry and count are hard limits.
Evaluate(o) ==
    IF late \/ task.used >= MaxActions THEN "deny"
    ELSE IF \/ o \in Outside \/ Probing(o)
            \/ Capability[o] = "share_slots" /\ Cardinality(Slots[o]) > MaxCandidates
         THEN "ask" ELSE "allow"

\* A received proposal serves only while its message is visible.
ProposalSafe ==
    \A m \in prop.source : m[1] \notin blocked /\ m \notin tomb

\* Mutant: a proposal awaiting its approval needs no base.
ProposalCurrentAnyBase(o) ==
    Capability[o] \in {"propose", "accept"} =>
      /\ ProposalSafe
      /\ prop.content = Content[o] \/ (Capability[o] = "propose" /\ op[o].status = "awaiting")

ProposalCurrent(o) ==
    Capability[o] \in {"propose", "accept"} =>
      /\ ProposalSafe
      /\ prop.content = IF Capability[o] = "propose" /\ op[o].status = "awaiting"
                        THEN op[o].base ELSE Content[o]

Authorized(o) == TaskLive /\ ProposalCurrent(o)

-----------------------------------------------------------------------------
(* Mandate and operations.                                                  *)

PrepareTask ==
    /\ task.status = "none" /\ ~late
    /\ task' = [task EXCEPT !.status = "pending"]
    /\ ap' = [ap EXCEPT ![TheTask] = Requested(@)]
    /\ UNCHANGED <<plan, late, op, acked, batch, prop, blocked, tomb, blocks, helper,
                   leases, ui, told>>

\* Whether the current proposal lets o be prepared.
Fits(o) ==
    /\ Capability[o] \in {"propose", "accept"} => ProposalSafe
    /\ Capability[o] = "accept" => prop.content = Content[o]
    /\ Capability[o] = "propose" =>
         prop.content = Content[o] \/ Version[prop.content] < Version[Content[o]]

PrepareAction(o) ==
    /\ o \in plan /\ op[o].status = "none" /\ TaskLive /\ Fits(o)
    /\ LET verdict == Evaluate(o)
       IN /\ verdict # "deny"
          /\ op' = [op EXCEPT ![o] =
               [status |-> IF verdict = "allow" THEN "ready" ELSE "awaiting",
                once |-> FALSE, base |-> prop.content]]
          /\ prop' = IF verdict = "allow" /\ Capability[o] = "propose"
                        /\ prop.content # Content[o]
                     THEN [content |-> Content[o], source |-> {}] ELSE prop
          /\ ap' = IF verdict = "ask" THEN [ap EXCEPT ![OpApproval(o)] = Requested(@)] ELSE ap
    /\ UNCHANGED <<plan, task, late, acked, batch, blocked, tomb, blocks, helper, leases, ui, told>>

ImportProposal(m) ==
    /\ task.status # "none" /\ m[1] \notin blocked
    /\ prop.content = m[2] \/ Version[prop.content] < Version[m[2]]
    /\ prop' = [content |-> m[2], source |-> {m}]
    /\ UNCHANGED <<plan, task, late, op, acked, batch, blocked, tomb, blocks, helper>>
    /\ UNCHANGED approvalVars

-----------------------------------------------------------------------------
(* Decisions.                                                               *)

ApprovalCurrent(a) ==
    IF a = TheTask THEN task.status = "pending" /\ ~late
    ELSE \E o \in Op : a = OpApproval(o) /\ op[o].status = "awaiting" /\ Authorized(o)

\* _apply_approval and _deny_approval, of the task or of an operation.
Apply(a, decided, decision) ==
    /\ task' = IF decided /\ a = TheTask /\ decision = "approved"
               THEN [task EXCEPT !.status = "active"] ELSE task
    /\ op' = [o \in Op |->
         IF ~decided \/ a # OpApproval(o) THEN op[o]
         ELSE IF decision = "approved" THEN [op[o] EXCEPT !.status = "ready", !.once = TRUE]
         ELSE [op[o] EXCEPT !.status = "denied"]]
    /\ prop' = IF \E o \in Op : decided /\ a = OpApproval(o) /\ decision = "approved"
                                /\ Capability[o] = "propose"
               THEN [content |-> Content[CHOOSE o \in Op : a = OpApproval(o)],
                     source |-> {}]
               ELSE prop
    /\ UNCHANGED <<plan, late, acked, batch, blocked, tomb, blocks, helper>>

-----------------------------------------------------------------------------
(* Dispatch.                                                                *)

Owed(o) == {r \in To[o] : <<o, r>> \notin acked}

Dispatchable(o) == Authorized(o) /\ \A r \in To[o] : CanSend(r)

\* Mutant: the budget is spent only by what the helper confirms at once.
ReserveUnpaid(o) ==
    /\ op[o].status = "ready" /\ Dispatchable(o)
    /\ LET verdict == Evaluate(o) IN verdict = "allow" \/ (verdict = "ask" /\ op[o].once)
    /\ op' = [op EXCEPT ![o].status = "sending"]
    /\ batch' = [batch EXCEPT ![o] = To[o]]
    /\ UNCHANGED <<plan, task, late, acked, prop, blocked, tomb, blocks, helper>>
    /\ UNCHANGED approvalVars

\* The first transaction, for a new operation: spend the budget before anything
\* leaves.
Reserve(o) ==
    /\ op[o].status = "ready" /\ Dispatchable(o)
    /\ LET verdict == Evaluate(o) IN verdict = "allow" \/ (verdict = "ask" /\ op[o].once)
    /\ task' = [task EXCEPT !.used = @ + 1]
    /\ op' = [op EXCEPT ![o].status = "sending"]
    /\ batch' = [batch EXCEPT ![o] = To[o]]
    /\ UNCHANGED <<plan, late, acked, prop, blocked, tomb, blocks, helper>>
    /\ UNCHANGED approvalVars

\* What was within the scope when it was prepared has come to exceed it.
AskAgain(o) ==
    /\ op[o].status = "ready" /\ Dispatchable(o)
    /\ Evaluate(o) = "ask" /\ ~op[o].once
    /\ op' = [op EXCEPT ![o].status = "awaiting"]
    /\ ap' = [ap EXCEPT ![OpApproval(o)] = Requested(@)]
    /\ UNCHANGED <<plan, task, late, acked, batch, prop, blocked, tomb, blocks, helper,
                   leases, ui, told>>

\* A call for an operation that is already reserved, after a failure or a crash.
Resume(o) ==
    /\ op[o].status = "sending" /\ Dispatchable(o)
    /\ batch' = [batch EXCEPT ![o] = Owed(o)]
    /\ UNCHANGED <<plan, task, late, op, acked, prop, blocked, tomb, blocks, helper>>
    /\ UNCHANGED approvalVars

\* One message, in one transaction with the call to the helper.
Submit(o, r, outcome) ==
    /\ r \in batch[o] \cap Owed(o)
    /\ Authorized(o) /\ CanSend(r)
    /\ acked' = IF outcome = "accepted" THEN acked \cup {<<o, r>>} ELSE acked
    /\ helper' = IF outcome = "failed" THEN helper ELSE helper \cup {<<o, r>>}
    /\ op' = [op EXCEPT ![o].status =
                IF \A x \in To[o] : <<o, x>> \in acked' THEN "accepted" ELSE "sending"]
    /\ batch' = [batch EXCEPT ![o] = @ \ {r}]
    /\ UNCHANGED <<plan, task, late, prop, blocked, tomb, blocks>>
    /\ UNCHANGED approvalVars

\* The call stops at a check, or its process does.
DispatchEnds(o) ==
    /\ batch[o] # {}
    /\ batch' = [batch EXCEPT ![o] = {}]
    /\ UNCHANGED <<plan, task, late, op, acked, prop, blocked, tomb, blocks, helper>>
    /\ UNCHANGED approvalVars

-----------------------------------------------------------------------------
(* The owner changes the ground under it.                                   *)

Revoke ==
    /\ task.status \notin {"none", "revoked"}
    /\ task' = [task EXCEPT !.status = "revoked"]
    /\ UNCHANGED <<plan, late, op, acked, batch, prop, blocked, tomb, blocks, helper>>
    /\ UNCHANGED approvalVars

Deadline ==
    /\ Ends \in plan /\ ~late /\ late' = TRUE
    /\ UNCHANGED <<plan, task, op, acked, batch, prop, blocked, tomb, blocks, helper>>
    /\ UNCHANGED approvalVars

\* _set_peer_block, as far as it concerns the task: unsent work for r and every
\* open question of the task are retired, and what r proposed is withdrawn.
Block(r) ==
    /\ r \in (plan \cap Recipient) \ blocked /\ blocks < MaxBlocks
    /\ blocks' = blocks + 1 /\ blocked' = blocked \cup {r}
    /\ tomb' = tomb \cup {m \in Offers : m[1] = r}
    /\ op' = [o \in Op |-> IF r \in To[o] /\ op[o].status \notin {"none", "accepted", "denied"}
                           THEN [op[o] EXCEPT !.status = "denied"] ELSE op[o]]
    /\ ap' = [a \in Approval |-> IF task.status # "none" /\ ap[a].status \in Undecided
                                 THEN Closed(ap[a], "superseded") ELSE ap[a]]
    /\ UNCHANGED <<plan, task, late, acked, batch, prop, helper, leases, ui, told>>

Unblock(r) ==
    /\ r \in blocked /\ blocked' = blocked \ {r}
    /\ UNCHANGED <<plan, task, late, op, acked, batch, prop, tomb, blocks, helper>>
    /\ UNCHANGED approvalVars
=============================================================================
