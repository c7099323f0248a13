------------------------------- MODULE Worker -------------------------------
(***************************************************************************)
(* The finite background worker (agent_comm_runtime/worker.py with the     *)
(* worker's path through collaboration_v2.py), composed with the task and  *)
(* the operations of Delegation and the owner's decisions of Approvals.    *)
(*                                                                         *)
(* A policy allows some runs and some sends for one collaboration of the   *)
(* task.  Every tick of a host timer is a chain of transactions: claim a   *)
(* run and choose its step, prepare the operation, reserve it against the  *)
(* policy and the task, submit it, close the run.  Ticks overlap, a        *)
(* process may die anywhere, and the owner pauses, revokes or replaces the *)
(* policy, blocks the peer, or dispatches an operation, in between.        *)
(*                                                                         *)
(* Abstracted: what the two agents negotiate is in Collaboration; here the *)
(* peer's events change agreed, terms, receipt and closed as they please.  *)
(* The protocol queues one fixed message (Receipt) on the way.  The policy *)
(* expires with its task.  How often a tick comes is left open;            *)
(* the sixty seconds after which a run counts as abandoned are Age.        *)
(***************************************************************************)
EXTENDS Delegation

CONSTANTS
    Ticker,       \* host timers that may tick at the same time
    Peer,         \* the peer of the collaboration
    Lead, Follow, \* plans: a policy that proposes, one that accepts (or both),
    Renew, Asks,  \* another one after it; a peer whose terms exceed the scope
                  \* and whose gaps call for a fixed message
    MaxRevs,      \* bound: policies confirmed or asked for
    MaxRuns, MaxSends   \* limits of every policy

Rev == 1..MaxRevs
RunID == Rev \X (1..MaxRuns)
\* A fixed message the protocol has queued (a receipt of the agreement, a sync
\* request or answer), or the step of one policy's run.
Step == {<<"receipt", 0>>} \cup ({"proposal", "accept"} \X Rev)
Receipt == <<"receipt", 0>>
PolicyApproval(k) == <<"worker", k>>
ByOwner == <<0, 0>>   \* instead of a run: the owner dispatches the operation

ASSUME WorkerAssumption ==
    /\ Peer \in Recipient /\ None \notin Step /\ MaxRevs \in Nat \ {0} /\ MaxRuns \in Nat /\ MaxSends \in Nat
    /\ {PolicyApproval(k) : k \in Rev} \subseteq Approval
    /\ \A k \in Rev, o \in Op : PolicyApproval(k) # OpApproval(o) /\ PolicyApproval(k) # TheTask
    /\ Plans \subseteq SUBSET (Op \cup Session \cup Recipient \cup {Lead, Follow, Renew, Asks, Ends})

VARIABLES
    worker,    \* the policy record
    run,       \* the run records and the step each has reserved
    tick,      \* what each tick under way does next
    joint,     \* the collaboration as the worker reads it
    wop,       \* the v2 operations
    handed     \* <<step, run>>: which run handed which message to the helper

workerVars == <<worker, run, tick, joint, wop, handed>>
vars == <<approvalVars, delegationVars, workerVars>>

Idle == [pc |-> "idle", id |-> ByOwner, step |-> Receipt]

WorkerType ==
    /\ worker \in [status : {"none", "pending", "active", "stopped"},
                   rev : 0..MaxRevs, runs : 0..MaxRuns, sends : 0..MaxSends]
    /\ run \in [RunID -> [status : {"none", "running", "old", "finished"},
                          step : Step \cup {None}]]
    /\ tick \in [Ticker -> [pc : {"idle", "prepare", "dispatch", "submit",
                                  "waiting", "sent", "stop"},
                            id : RunID \cup {ByOwner}, step : Step]]
    /\ joint \in [terms : 0..2, mine : BOOLEAN, phase : {"open", "agreed", "closed"},
                  unsafe : BOOLEAN]
    /\ wop \in [Step -> [status : {"none", "asked", "ready", "sending", "accepted", "denied"},
                         applied : BOOLEAN,
                         context : (0..2) \X BOOLEAN \X BOOLEAN]]
    /\ handed \subseteq Step \X (RunID \cup {ByOwner})

\* _v2_context_digest: what an operation was prepared against.
Context == <<joint.terms, joint.mine, joint.phase # "open">>

WorkerInit ==
    /\ worker = [status |-> "none", rev |-> 0, runs |-> 0, sends |-> 0]
    /\ run = [i \in RunID |-> [status |-> "none", step |-> None]]
    /\ tick = [t \in Ticker |-> Idle]
    /\ joint = [terms |-> 0, mine |-> FALSE, phase |-> "open", unsafe |-> FALSE]
    /\ wop = [w \in Step |-> [status |-> "none", applied |-> FALSE, context |-> Context]]
    /\ handed = {}

Planned == plan \cap {Lead, Follow} # {}

-----------------------------------------------------------------------------
(* The policy.                                                              *)

PreparePolicy ==
    /\ Planned /\ TaskLive /\ joint.phase = "open"
    /\ Lead \in plan => task.used < MaxActions
    /\ worker.rev < IF Renew \in plan THEN MaxRevs ELSE 1
    /\ worker' = [status |-> "pending", rev |-> worker.rev + 1, runs |-> 0, sends |-> 0]
    /\ ap' = [ap EXCEPT ![PolicyApproval(worker.rev + 1)] = Requested(@)]
    /\ UNCHANGED <<run, tick, joint, wop, handed, leases, ui, told>>
    /\ UNCHANGED delegationVars

\* pause_worker, also with revoke: either is stopped, and stays so.
Pause ==
    /\ worker.status \notin {"none", "stopped"}
    /\ worker' = [worker EXCEPT !.status = "stopped"]
    /\ UNCHANGED <<run, tick, joint, wop, handed>>
    /\ UNCHANGED <<approvalVars, delegationVars>>

\* Mutant: the approval of a policy serves for the one that replaced it.
CurrentAnyRevision(a) ==
    \/ ApprovalCurrent(a)
    \/ /\ worker.status = "pending" /\ TaskLive
       /\ \E k \in Rev : a = PolicyApproval(k)

\* _approval_current, for the three kinds of question asked here.
Current(a) ==
    \/ ApprovalCurrent(a)
    \/ /\ worker.status = "pending" /\ TaskLive
       /\ a = PolicyApproval(worker.rev)

\* _apply_approval and _deny_approval, for them.
Effect(a, decided, decision) ==
    /\ Apply(a, decided, decision)
    /\ worker' = IF decided /\ \E k \in Rev : a = PolicyApproval(k)
                 THEN [worker EXCEPT !.status =
                         IF decision = "approved" THEN "active" ELSE "stopped"]
                 ELSE worker
    /\ UNCHANGED <<run, tick, joint, wop, handed>>

BeginConfirmation(s, a) ==
    /\ s \in plan /\ Begin(s, a, Current(a))
    /\ UNCHANGED <<delegationVars, workerVars>>

FinishConfirmation(c, answer) ==
    LET verdict == Verdict(c, answer, Current(c.a))
    IN /\ Finish(c, answer, Current(c.a))
       /\ Effect(c.a, Holds(c) /\ verdict \in Decided, verdict)

RemoteRespond(a, decision) ==
    /\ WebRespond(a, decision, Current(a))
    /\ Effect(a, WebDecides(a, decision, Current(a)), decision)

-----------------------------------------------------------------------------
(* What the peer does, and what comes of it.                                *)

\* The peer publishes terms, once more after a change; ours stand when the
\* proposal has been submitted.
PeerTerms ==
    /\ Follow \in plan /\ Lead \notin plan   \* only the initiator publishes terms
    /\ joint.phase = "open" /\ ~joint.mine /\ joint.terms < 2
    /\ joint' = [joint EXCEPT !.terms = @ + 1]
    /\ UNCHANGED wop

PeerAgrees ==
    /\ joint.phase = "open" /\ joint.mine
    /\ joint' = [joint EXCEPT !.phase = "agreed"]
    /\ wop' = [wop EXCEPT ![Receipt].status = IF @ = "none" THEN "ready" ELSE @]

\* A gap, or the peer's recovery request, queues a fixed message at any time.
PeerAsks ==
    /\ Asks \in plan /\ wop[Receipt].status = "none"
    /\ wop' = [wop EXCEPT ![Receipt].status = "ready"]
    /\ UNCHANGED joint

\* Completed or cancelled: either has an agreement before it.
PeerCloses ==
    /\ joint.phase = "agreed"
    /\ joint' = [joint EXCEPT !.phase = "closed"]
    /\ UNCHANGED wop

PeerActs ==
    /\ Planned /\ ~joint.unsafe
    /\ PeerTerms \/ PeerAgrees \/ PeerAsks \/ PeerCloses
    /\ UNCHANGED <<worker, run, tick, handed>>
    /\ UNCHANGED <<approvalVars, delegationVars>>

-----------------------------------------------------------------------------
(* A tick.                                                                  *)

Active(k) == worker.status = "active" /\ worker.rev = k /\ TaskLive

\* Mutant: a run goes on under whatever policy is active now.
InContextOpen(t) ==
    /\ worker.status = "active" /\ TaskLive
    /\ run[tick[t].id].status \in {"running", "old"}

\* _check_worker_context: the policy of this run is in force and the run is open.
InContext(t) ==
    /\ Active(tick[t].id[1])
    /\ run[tick[t].id].status \in {"running", "old"}

Sending == \E w \in Step : wop[w].status = "sending"

\* Mutant: a send under way is not looked for.
ChoiceBlind ==
    IF wop[Receipt].status = "ready" THEN [pc |-> "dispatch", step |-> Receipt]
    ELSE IF joint.phase = "closed" THEN [pc |-> "stop", step |-> Receipt]
    ELSE IF joint.phase = "open" /\ joint.terms = 0 /\ Lead \in plan
         THEN [pc |-> "prepare", step |-> <<"proposal", worker.rev>>]
    ELSE IF joint.phase = "open" /\ joint.terms > 0 /\ Follow \in plan /\ ~joint.mine
         THEN [pc |-> "prepare", step |-> <<"accept", worker.rev>>]
    ELSE [pc |-> "waiting", step |-> Receipt]

\* Which step the run takes, read from the collaboration when it is claimed.
Choice ==
    IF Sending THEN [pc |-> "stop", step |-> Receipt]
    ELSE IF wop[Receipt].status = "ready" THEN [pc |-> "dispatch", step |-> Receipt]
    ELSE IF joint.phase = "closed" THEN [pc |-> "stop", step |-> Receipt]
    ELSE IF joint.phase = "open" /\ joint.terms = 0 /\ Lead \in plan
         THEN [pc |-> "prepare", step |-> <<"proposal", worker.rev>>]
    ELSE IF joint.phase = "open" /\ joint.terms > 0 /\ Follow \in plan /\ ~joint.mine
         THEN [pc |-> "prepare", step |-> <<"accept", worker.rev>>]
    ELSE [pc |-> "waiting", step |-> Receipt]

OpenRuns == {i \in RunID : i[1] = worker.rev /\ run[i].status \in {"running", "old"}}

\* Mutant: one run too many.
ExhaustedLate == worker.runs > MaxRuns \/ worker.sends >= MaxSends

Exhausted == worker.runs >= MaxRuns \/ worker.sends >= MaxSends

\* A claim that finds an abandoned run, or no budget, pauses the policy; a run
\* of the last minute makes it pass.
TickStops ==
    /\ worker.status = "active" /\ TaskLive
    /\ \A i \in OpenRuns : run[i].status = "old"
    /\ OpenRuns # {} \/ Exhausted
    /\ worker' = [worker EXCEPT !.status = "stopped"]
    /\ UNCHANGED <<run, tick, joint, wop, handed>>
    /\ UNCHANGED <<approvalVars, delegationVars>>

TickClaim(t) ==
    /\ tick[t].pc = "idle" /\ worker.status = "active" /\ TaskLive
    /\ OpenRuns = {} /\ ~Exhausted
    /\ LET id == <<worker.rev, worker.runs + 1>>
       IN IF joint.unsafe
          THEN /\ worker' = [worker EXCEPT !.status = "stopped", !.runs = @ + 1]
               /\ run' = [run EXCEPT ![id].status = "finished"]
               /\ tick' = tick
          ELSE /\ worker' = [worker EXCEPT !.runs = @ + 1]
               /\ run' = [run EXCEPT ![id].status = "running"]
               /\ tick' = [tick EXCEPT ![t] =
                            [pc |-> Choice.pc, id |-> id, step |-> Choice.step]]
    /\ UNCHANGED <<joint, wop, handed>>
    /\ UNCHANGED <<approvalVars, delegationVars>>

\* prepare_collaboration for the step, in a transaction of its own: the state
\* it was chosen in may be gone.
Preparable(w) ==
    /\ ~joint.unsafe /\ joint.phase = "open"
    /\ w[1] = "proposal" => joint.terms = 0
    /\ w[1] = "accept" => joint.terms > 0

\* An acceptance outside the scope is asked of the owner, and the run stops; a
\* proposal was held against the scope when the policy was prepared.
TickPrepare(t, verdict) ==
    LET w == tick[t].step
    IN /\ tick[t].pc = "prepare" /\ Preparable(w)
       /\ TaskLive /\ task.used < MaxActions
       /\ verdict = "ask" => Asks \in plan /\ w[1] = "accept"
       /\ wop' = [wop EXCEPT ![w] = [status |-> IF verdict = "ask" THEN "asked" ELSE "ready",
                                     applied |-> FALSE, context |-> Context]]
       /\ tick' = [tick EXCEPT ![t].pc = IF verdict = "ask" THEN "stop" ELSE "dispatch"]
       /\ UNCHANGED <<worker, run, joint, handed>>
       /\ UNCHANGED <<approvalVars, delegationVars>>

\* _v2_operation_current, before and after the reservation.
StepCurrent(w) ==
    /\ ~joint.unsafe
    /\ w # Receipt => /\ TaskLive
                      /\ wop[w].status = "sending" \/ wop[w].context = Context

\* Mutant: the send is charged to the task only, not to the policy.
TickReserveUncounted(t) ==
    LET w == tick[t].step
    IN /\ tick[t].pc = "dispatch" /\ InContext(t)
       /\ wop[w].status = "ready" /\ StepCurrent(w) /\ CanSend(Peer)
       /\ w # Receipt => task.used < MaxActions
       /\ run' = [run EXCEPT ![tick[t].id].step = w]
       /\ task' = IF w = Receipt THEN task ELSE [task EXCEPT !.used = @ + 1]
       /\ wop' = [wop EXCEPT ![w].status = "sending"]
       /\ tick' = [tick EXCEPT ![t].pc = "submit"]
       /\ UNCHANGED <<worker, joint, handed>>
       /\ UNCHANGED <<plan, late, op, acked, batch, prop, blocked, tomb, blocks, helper>>
       /\ UNCHANGED approvalVars

\* The first transaction of dispatch_collaboration under a worker context,
\* with _reserve_worker_send.
TickReserve(t) ==
    LET w == tick[t].step
    IN /\ tick[t].pc = "dispatch" /\ InContext(t)
       /\ wop[w].status = "ready" /\ StepCurrent(w) /\ CanSend(Peer)
       /\ run[tick[t].id].step = None /\ worker.sends < MaxSends
       /\ worker' = [worker EXCEPT !.sends = @ + 1]
       /\ run' = [run EXCEPT ![tick[t].id].step = w]
       /\ IF w # Receipt /\ task.used >= MaxActions
          THEN /\ tick' = [tick EXCEPT ![t].pc = "stop"]
               /\ UNCHANGED <<task, wop>>
          ELSE /\ task' = IF w = Receipt THEN task ELSE [task EXCEPT !.used = @ + 1]
               /\ wop' = [wop EXCEPT ![w].status = "sending"]
               /\ tick' = [tick EXCEPT ![t].pc = "submit"]
       /\ UNCHANGED <<joint, handed>>
       /\ UNCHANGED <<plan, late, op, acked, batch, prop, blocked, tomb, blocks, helper>>
       /\ UNCHANGED approvalVars

\* A dispatch that is refused without an error: the peer is gone, or the
\* operation is not what it was.
TickRefused(t) ==
    LET w == tick[t].step
    IN /\ \/ tick[t].pc = "dispatch" /\ (wop[w].status \notin {"ready", "sending"}
                                          \/ ~StepCurrent(w) \/ ~CanSend(Peer))
          \/ tick[t].pc = "submit" /\ (~StepCurrent(w) \/ ~CanSend(Peer))
       /\ InContext(t)
       /\ tick' = [tick EXCEPT ![t].pc =
                    IF @ = "dispatch" /\ wop[w].status = "accepted" THEN "sent" ELSE "stop"]
       /\ UNCHANGED <<worker, run, joint, wop, handed>>
       /\ UNCHANGED <<approvalVars, delegationVars>>

\* _v2_precondition: the event can still be applied, or has been.
Applicable(w) ==
    \/ w = Receipt \/ wop[w].applied
    \/ /\ joint.phase = "open" /\ ~joint.mine
       /\ joint.terms = IF w[1] = "proposal" THEN 0 ELSE wop[w].context[1]

\* _v2_apply of one's own event, once.
Takes(w) ==
    joint' = IF wop[w].applied THEN joint
             ELSE [joint EXCEPT !.terms = IF w[1] = "proposal" THEN 1 ELSE @,
                                !.mine = @ \/ w[1] = "accept"]

\* The second transaction: the step takes effect here and goes to the helper.
Hands(w, by, outcome) ==
    /\ StepCurrent(w) /\ CanSend(Peer) /\ Applicable(w)
    /\ Takes(w)
    /\ handed' = IF outcome = "failed" THEN handed ELSE handed \cup {<<w, by>>}
    /\ wop' = [wop EXCEPT ![w].status = IF outcome = "accepted" THEN "accepted" ELSE @,
                          ![w].applied = TRUE]

TickSubmit(t, outcome) ==
    /\ tick[t].pc = "submit" /\ InContext(t)
    /\ Hands(tick[t].step, tick[t].id, outcome)
    /\ tick' = [tick EXCEPT ![t].pc = IF outcome = "accepted" THEN "sent" ELSE "stop"]
    /\ UNCHANGED <<worker, run>>
    /\ UNCHANGED <<approvalVars, delegationVars>>

\* The last transaction: pause where the owner has to look, unless the policy
\* is no longer this run's.
Close(t, pause) ==
    /\ run' = [run EXCEPT ![tick[t].id].status = "finished"]
    /\ tick' = [tick EXCEPT ![t] = Idle]
    /\ worker' = IF pause /\ worker.rev = tick[t].id[1] /\ worker.status = "active"
                 THEN [worker EXCEPT !.status = "stopped"] ELSE worker
    /\ UNCHANGED <<joint, wop, handed>>
    /\ UNCHANGED <<approvalVars, delegationVars>>

TickFinish(t) == tick[t].pc \in {"waiting", "sent", "stop"} /\ Close(t, tick[t].pc = "stop")

\* A denied preparation, or an exception anywhere in it.
TickFails(t) ==
    LET w == tick[t].step
    IN /\ \/ /\ tick[t].pc = "prepare"
             /\ ~Preparable(w) \/ ~TaskLive \/ task.used >= MaxActions
          \/ tick[t].pc \in {"dispatch", "submit"} /\ ~InContext(t)
          \/ /\ tick[t].pc = "dispatch"
             /\ wop[w].status = "sending" \/ run[tick[t].id].step # None
                \/ worker.sends >= MaxSends
          \/ tick[t].pc = "submit" /\ StepCurrent(w) /\ CanSend(Peer) /\ ~Applicable(w)
       /\ Close(t, TRUE)

\* The process dies; its run stays open.
Crash(t) ==
    /\ tick[t].pc # "idle" /\ tick' = [tick EXCEPT ![t] = Idle]
    /\ UNCHANGED <<worker, run, joint, wop, handed>>
    /\ UNCHANGED <<approvalVars, delegationVars>>

\* Sixty seconds since the run began; nobody asks it of another policy's runs.
Age(i) ==
    /\ run[i].status = "running" /\ Active(i[1]) /\ run' = [run EXCEPT ![i].status = "old"]
    /\ UNCHANGED <<worker, tick, joint, wop, handed>>
    /\ UNCHANGED <<approvalVars, delegationVars>>

-----------------------------------------------------------------------------
(* The owner, who needs no run.                                             *)

\* The answer to an acceptance the run had to ask for.
OwnerAnswers(w, answer) ==
    /\ wop[w].status = "asked" /\ StepCurrent(w)
    /\ wop' = [wop EXCEPT ![w].status = IF answer = "approved" THEN "ready" ELSE "denied"]
    /\ UNCHANGED <<worker, run, tick, joint, handed>>
    /\ UNCHANGED <<approvalVars, delegationVars>>

\* dispatch_collaboration of an operation that is ready: its first transaction,
\* whatever a run is doing with it or beside it.
OwnerReserves(w) ==
    /\ wop[w].status = "ready" /\ StepCurrent(w) /\ CanSend(Peer)
    /\ w # Receipt => task.used < MaxActions
    /\ task' = IF w = Receipt THEN task ELSE [task EXCEPT !.used = @ + 1]
    /\ wop' = [wop EXCEPT ![w].status = "sending"]
    /\ UNCHANGED <<worker, run, tick, joint, handed>>
    /\ UNCHANGED <<plan, late, op, acked, batch, prop, blocked, tomb, blocks, helper>>
    /\ UNCHANGED approvalVars

\* Its second transaction, and the repetition of a send whose fate is open.
OwnerSends(w, outcome) ==
    /\ wop[w].status = "sending" /\ Hands(w, ByOwner, outcome)
    /\ UNCHANGED <<worker, run, tick>>
    /\ UNCHANGED <<approvalVars, delegationVars>>

\* _set_peer_block: the worker pauses, the collaboration is over for good, and
\* its unsent operations are retired.
BlockPeer(r) ==
    /\ Block(r)
    /\ worker' = IF worker.status = "none" THEN worker ELSE [worker EXCEPT !.status = "stopped"]
    /\ joint' = [joint EXCEPT !.unsafe = @ \/ r = Peer]
    /\ wop' = [w \in Step |->
         IF r = Peer /\ wop[w].status \in {"asked", "ready", "sending"}
         THEN [wop[w] EXCEPT !.status = "denied"] ELSE wop[w]]
    /\ UNCHANGED <<run, tick, handed>>

Outcomes == {"accepted", "failed", "unanswered"}

TickStep(t) ==
    \/ TickClaim(t) \/ TickReserve(t) \/ TickRefused(t)
    \/ \E verdict \in {"allow", "ask"} : TickPrepare(t, verdict)
    \/ \E outcome \in Outcomes : TickSubmit(t, outcome)
    \/ TickFinish(t) \/ TickFails(t)

Decision ==
    \/ \E s \in Session, a \in Approval : BeginConfirmation(s, a)
    \/ \E c \in ui, answer \in {"yes", "no", "else"} : FinishConfirmation(c, answer)
    \/ \E a \in Approval, decision \in Decided : RemoteRespond(a, decision)
    \/ /\ UNCHANGED <<delegationVars, workerVars>>
       /\ (\E a \in Approval : LeaseEnds(a)) \/ (\E c \in ui : HostStops(c))

Operation ==
    /\ \/ PrepareTask \/ Revoke \/ Deadline
       \/ \E o \in Op : PrepareAction(o) \/ Reserve(o) \/ AskAgain(o) \/ Resume(o) \/ DispatchEnds(o)
       \/ \E o \in Op, r \in Recipient, outcome \in Outcomes : Submit(o, r, outcome)
       \/ \E m \in Offers : ImportProposal(m)
       \/ \E r \in Recipient : Unblock(r)
    /\ UNCHANGED workerVars

Work ==
    \/ PreparePolicy \/ Pause \/ PeerActs \/ TickStops
    \/ \E t \in Ticker : TickStep(t) \/ Crash(t)
    \/ \E i \in RunID : Age(i)
    \/ \E w \in Step, answer \in Decided : OwnerAnswers(w, answer)
    \/ \E w \in Step : OwnerReserves(w)
    \/ \E w \in Step, outcome \in Outcomes : OwnerSends(w, outcome)

Next == Decision \/ Operation \/ Work \/ \E r \in Recipient : BlockPeer(r)

Init == ApprovalInit /\ DelegationInit /\ WorkerInit
Spec == Init /\ [][Next]_vars

-----------------------------------------------------------------------------
TypeOK == ApprovalType /\ DelegationType /\ WorkerType

\* Operations and steps that reached the helper.
Sent == {o \in Op : \E r \in Recipient : <<o, r>> \in helper}
Handed == {w \in Step : \E i \in RunID \cup {ByOwner} : <<w, i>> \in handed}

\* Nothing leaves that the owner has not approved: the task's mandate stands
\* behind every message, an approval of its own behind every operation outside
\* the scope, and the approved policy behind every step of a run.  A decision
\* that came too late, lost its token or was superseded authorises nothing.
NothingUnapproved ==
    /\ helper # {} => ap[TheTask].status = "approved"
    /\ \A o \in Sent \cap Outside : ap[OpApproval(o)].status = "approved"
    /\ \A w \in Step, i \in RunID :
          <<w, i>> \in handed => ap[PolicyApproval(i[1])].status = "approved"

\* max_actions holds over everything that has left, the owner's operations and
\* the worker's steps together (receipts have a permission of their own):
\* repeated, resumed and interrupted dispatches spend the budget once and first.
BudgetHolds ==
    /\ Cardinality(Sent) + Cardinality(Handed \ {Receipt}) <= task.used
    /\ task.used <= MaxActions

\* max_candidates holds over all dispatches to a contact: beyond what the owner
\* approved one by one, no contact receives more candidate slots, whatever
\* was lost or is uncertain.  (A block retires uncertain operations, and with
\* them the record of what they disclosed; see the README.)
CandidatesBounded ==
    blocks = 0 =>
      \A r \in Recipient :
        LET shared(ops) == UNION {Slots[o] : o \in {x \in ops : r \in To[x]}}
            unasked == {o \in Sent : Capability[o] = "share_slots" /\ ~op[o].once}
        IN Cardinality(shared(unasked) \ shared({o \in Op : op[o].once})) <= MaxCandidates

\* A policy's sends are counted across its runs: at most max_sends steps, one
\* step per run, and no step by two runs, whatever ticks overlap or die.
WorkerWithinPolicy ==
    LET by(i) == {w \in Step : <<w, i>> \in handed}
    IN /\ \A k \in Rev : Cardinality(UNION {by(i) : i \in {j \in RunID : j[1] = k}}) <= MaxSends
       /\ \A i, j \in RunID : i # j => by(i) \cap by(j) = {}
       /\ \A i \in RunID : Cardinality(by(i)) <= 1

\* The proposal only moves to a later version: an approval given for a change
\* of one version, and applied later, never puts back what a newer proposal of
\* the peer has replaced meanwhile.
ProposalNeverReverts ==
    [][prop'.content = prop.content \/ Version[prop.content] < Version[prop'.content]]_vars

\* From the step on at which the owner revokes the task, blocks the contact,
\* stops or replaces the policy, or the deadline passes, nothing more leaves
\* for it, although a dispatch or a tick is half way through.
StopsAtOnce ==
    [][/\ ~TaskLive => helper' = helper
       /\ \A m \in helper' \ helper : m[2] \notin blocked
       /\ \A m \in handed' \ handed : m[2] # ByOwner => Active(m[2][1])
       /\ Peer \in blocked => handed' = handed]_vars

\* What one run has left uncertain no other run passes: whoever confirmed the
\* next policy, the open send stops it before it hands over a step.  (Only the
\* claim of a run looks for open sends, so one that the owner has dispatched after
\* it does not stop the run; see the README.)
NeverPastItsOwn ==
    [][\A m \in handed' \ handed : m[2] # ByOwner =>
         \A i \in RunID : run[i].step \in Step \ {m[1]} =>
                             wop[run[i].step].status # "sending"]_vars
=============================================================================
