--------------------------- MODULE Collaboration ---------------------------
(***************************************************************************)
(* The bilateral collaboration protocol of two runtimes                    *)
(* (agent_comm_runtime/collaboration_v2.py with the review gate of         *)
(* peer_review.py), over a mailbox that loses, delays and reorders.        *)
(*                                                                         *)
(* Each side numbers its own events 1, 2, ...  An event is reserved in one *)
(* transaction and applied and handed to the helper in a second one        *)
(* (dispatch_collaboration); another thread, or a restart, may come        *)
(* between the two.  The other side buffers what arrives and reduces it in *)
(* sequence (_v2_drain).  The host also queues fixed-template maintenance  *)
(* events (receipts, the agreement, its acknowledgment, recovery) under a  *)
(* finite permit.                                                          *)
(*                                                                         *)
(* Abstracted: the terms of version v are the number v; an event is named  *)
(* by its sender and number, so digests and the predecessor chain are      *)
(* implicit; ref is what the payload refers to, always a tuple; phase and  *)
(* all waiting reasons but "peer_review_required" are display.             *)
(***************************************************************************)
EXTENDS Naturals, Sequences, FiniteSets, SequencesExt

CONSTANTS
    A, B,         \* the initiator, whose formation decides, and its peer
    Receipted,    \* bound: events whose receipts are followed; a receipt of any
                  \* other only spends the permit and a number
    MaxSeq,       \* bound: events of one side
    MaxOps,       \* bound: prepared operations of one side that wait to be sent
    Lossy,        \* the packets the mailbox may lose: events, recovery packets
    Plans         \* what may come up in one behaviour: records of
                  \*   kinds: business events each owner may ask for
                  \*   budget: max_actions of each task
                  \*   permit: max_events of each maintenance permit
                  \*   versions: bound, versions of the terms
                  \*   lost: bound, packets the mailbox loses
                  \*   faults: bound, helper calls that fail or lose their answer
                  \*   revocable: whose "task" or "permit" may be revoked, as
                  \*     <<side, what>>
                  \*   expiring: sides whose task may reach its expiry
                  \*   rejects: whether an owner may reject what it reviews

Maintenance == {"agreement", "agreement_ack", "receipt", "sync_request", "sync_response"}
Sync == {"sync_request", "sync_response"}
Recovery == {"withdraw", "cancel_request", "cancel_ack"}
ReviewKinds == {"invite", "proposal", "change_request"}
Business == {"invite", "join", "proposal", "change_request", "accept"} \cup Recovery
Kinds == Business \cup Maintenance

ASSUME CollaborationAssumption ==
    /\ A # B
    /\ Lossy \subseteq {"event"} \cup Sync
    /\ Receipted \subseteq Kinds \ {"receipt"}
    /\ MaxSeq \in Nat /\ MaxOps \in Nat
    /\ Plans \subseteq [kinds : [{A, B} -> SUBSET Business], budget : [{A, B} -> Nat],
                         permit : Nat, versions : Nat, lost : Nat, faults : Nat,
                         revocable : SUBSET ({A, B} \X {"task", "permit"}),
                         expiring : SUBSET {A, B}, rejects : BOOLEAN]

VARIABLES
    view,      \* the v2_collaboration record of each side
    own,       \* each side's own v2_event rows, in sequence
    inb,       \* status of the peer's events in each side's v2_event rows
    mops,      \* v2_operation rows of the maintenance outbox
    ops,       \* v2_operation rows of the owner that are not yet reserved
    review,    \* the owner's decision on the peer's reviewable events
    task,      \* the local mandate: active or revoked
    expired,   \* the sides whose mandate has reached its expiry
    mail,      \* packets the mailbox holds for the peer
    lost, faults,
    plan       \* which of Plans this behaviour follows

vars == <<view, own, inb, mops, ops, review, task, expired, mail, lost, faults, plan>>

Side == {A, B}
Peer(s) == IF s = A THEN B ELSE A

NoAcceptance == [n |-> 0, terms |-> 0, active |-> FALSE]

NewCollaboration ==
    [bound |-> FALSE, invited |-> FALSE, joined |-> FALSE, terms |-> 0,
     acc |-> [x \in Side |-> NoAcceptance], agreement |-> <<>>,
     synced |-> FALSE, withdrawing |-> FALSE, cancel |-> <<>>,
     closure |-> "none", after |-> 0, inseq |-> 0, permit |-> "none", held |-> FALSE]

Ref == Seq(Nat)
Event == [kind : Kinds \ Sync, ref : Ref, revoked : BOOLEAN, once : BOOLEAN,
          st : {"reserved", "applied"},
          wire : {"pending", "failed", "unanswered", "accepted"}]
Acceptance == [n : 0..MaxSeq, terms : 0..plan.versions, active : BOOLEAN]
\* What an owner's operation was prepared against, and the operation.
Facts == BOOLEAN \X (0..plan.versions) \X [Side -> Acceptance] \X Ref
           \X {<<>>, <<A>>, <<B>>} \X BOOLEAN
Operation == [kind : Business, ref : Ref, context : Facts, revoked : BOOLEAN,
              once : BOOLEAN, ready : BOOLEAN]
View == [bound : BOOLEAN, invited : BOOLEAN, joined : BOOLEAN, terms : 0..plan.versions,
         acc : [Side -> Acceptance], agreement : Ref, synced : BOOLEAN,
         withdrawing : BOOLEAN, cancel : {<<>>, <<A>>, <<B>>},
         closure : {"none", "complete", "cancelled"}, after : 0..MaxSeq, inseq : 0..MaxSeq,
         permit : {"none", "live", "revoked"}, held : BOOLEAN]
Queuing == [kind : Maintenance, ref : Ref, st : {"ready", "sending", "accepted"}]

TypeOK ==
    /\ view \in [Side -> View] /\ \A s \in Side : view[s].inseq <= Len(own[Peer(s)])
    /\ own \in [Side -> Seq(Event)] /\ ops \in [Side -> Seq(Operation)]
    /\ \A s \in Side : Len(own[s]) + Len(ops[s]) <= MaxSeq
    /\ mops \in [Side -> SUBSET Queuing]
    /\ inb \in [Side -> [1..MaxSeq -> {"none", "buffered", "applied", "rejected"}]]
    /\ review \in [Side -> [1..MaxSeq -> {"none", "pending", "approved", "rejected"}]]
    /\ task \in [Side -> {"active", "revoked"}]
    /\ expired \subseteq Side
    /\ mail \in [Side -> SUBSET [kind : {"event"} \cup Sync, ref : Ref]]
    /\ plan \in Plans /\ lost \in 0..plan.lost /\ faults \in 0..plan.faults

Init ==
    /\ view = [s \in Side |-> NewCollaboration]
    /\ own = [s \in Side |-> <<>>]
    /\ inb = [s \in Side |-> [n \in 1..MaxSeq |-> "none"]]
    /\ mops = [s \in Side |-> {}]
    /\ ops = [s \in Side |-> <<>>]
    /\ review = [s \in Side |-> [n \in 1..MaxSeq |-> "none"]]
    /\ task = [s \in Side |-> "active"]
    /\ expired = {}
    /\ mail = [s \in Side |-> {}]
    /\ lost = 0 /\ faults = 0 /\ plan \in Plans

Packet(kind, ref) == [kind |-> kind, ref |-> ref]
EventPacket(n) == Packet("event", <<n>>)

Live(s) == task[s] = "active" /\ s \notin expired
Used(s) == Cardinality({n \in DOMAIN own[s] : /\ own[s][n].kind \notin Maintenance
                                              /\ ~own[s][n].once})
\* The expiry of a business event is that of its sender's task; maintenance
\* outlives it, and a recovery event has a deadline of its own, not modelled.
Stale(p, e) == p \in expired /\ e.kind \notin Maintenance /\ ~e.once

\* _v2_context_digest: what an owner's operation was prepared against.
Context(v) == <<v.joined, v.terms, v.acc, v.agreement, v.cancel, v.withdrawing>>

\* Op(x), with x bound to its value so that TLC does not evaluate it at every use.
Once(Op(_), x) == CHOOSE y \in {Op(v) : v \in {x}} : TRUE

-----------------------------------------------------------------------------
(* The maintenance outbox.                                                  *)

Pending(mo) == Cardinality({m \in mo : m.st \in {"ready", "sending"}})
PermitUsed(mo) == Cardinality({m \in mo : m.st \in {"sending", "accepted"}})

Queueable(v, mo, kind, ref) ==
    /\ v.permit = "live"
    /\ ~\E m \in mo : m.kind = kind /\ m.ref = ref
    /\ Pending(mo) + PermitUsed(mo) < plan.permit

\* c and the outbox after _v2_queue.  A refusal replaces the waiting reason.
Queued(d, kind, ref) ==
    IF Queueable(d.v, d.mo, kind, ref)
    THEN [d EXCEPT !.mo = @ \cup {[kind |-> kind, ref |-> ref, st |-> "ready"]}]
    ELSE IF \E m \in d.mo : d.v.permit = "live" /\ m.kind = kind /\ m.ref = ref
         THEN d
         ELSE [d EXCEPT !.v.held = FALSE]

Queue(d, kind, ref) == Once(LAMBDA x : Queued(x, kind, ref), d)

-----------------------------------------------------------------------------
(* The reducer.  d holds what it may change: the collaboration v, the       *)
(* outbox mo and the statuses inb of the peer's events.  A result is "ok",  *)
(* "wait" (_Buffered) or "bad" (ValueError); only "ok" keeps the new d.     *)

Ok(d) == [res |-> "ok", d |-> d]
Wait(d) == [res |-> "wait", d |-> d]
Bad(d) == [res |-> "bad", d |-> d]

Precondition(v, kind, ref, sender) ==
    CASE kind \in Maintenance ->
           IF kind = "agreement_ack" /\ sender = A THEN "bad" ELSE "ok"
      [] kind \in {"invite", "join"} -> "ok"
      [] OTHER ->
           IF \/ ~v.joined \/ v.closure = "cancelled"
              \/ kind \in {"proposal", "change_request", "accept"} /\ v.agreement # <<>>
              \/ kind = "proposal" /\ (sender # A \/ \E x \in Side : v.acc[x].active)
              \/ kind = "change_request" /\ sender = A
           THEN "bad"
           ELSE IF \/ kind = "proposal" /\ ref[1] # v.terms + 1
                   \/ kind = "accept" /\ (v.terms = 0 \/ ref[1] # v.terms)
                THEN "wait" ELSE "ok"

\* Mutant: forms without asking whether both acceptances are of these terms.
FormedAny(s, d) ==
    LET v == d.v
        decision == <<v.terms, v.acc[A].n, v.acc[B].n, Len(own[A]), v.inseq>>
    IN IF s = A /\ v.agreement = <<>> /\ v.terms # 0 /\ \E x \in Side : v.acc[x].active
       THEN Queue([d EXCEPT !.v.agreement = decision, !.v.held = FALSE],
                  "agreement", decision)
       ELSE d

\* _v2_form: the initiator's durable decision, with the two cursors it had.
Formed(s, d) ==
    LET v == d.v
        formable == /\ s = A /\ v.agreement = <<>> /\ v.terms # 0
                    /\ \A x \in Side : /\ v.acc[x].n # 0 /\ v.acc[x].active
                                       /\ x \notin expired
                                       /\ v.acc[x].terms = v.terms
        decision == <<v.terms, v.acc[A].n, v.acc[B].n, Len(own[A]), v.inseq>>
    IN IF formable
       THEN Queue([d EXCEPT !.v.agreement = decision, !.v.held = FALSE],
                  "agreement", decision)
       ELSE d

Form(s, d) == Once(LAMBDA x : Formed(s, x), d)

OnJoin(d, sender) ==
    IF sender = A THEN Bad(d) ELSE Ok([d EXCEPT !.v.joined = TRUE])

OnProposal(d, ref) ==
    Ok([d EXCEPT !.v.terms = ref[1], !.v.withdrawing = FALSE,
                 !.v.acc = [x \in Side |-> NoAcceptance]])

OnAccept(s, d, sender, n, ref) ==
    IF sender \in expired \/ (d.v.acc[sender].active /\ d.v.acc[sender].n # n)
    THEN Bad(d)
    ELSE Ok(Form(s, [d EXCEPT !.v.acc[sender] =
                        [n |-> n, terms |-> ref[1], active |-> TRUE]]))

\* The record of event n of side x as side s holds it.
StatusAt(s, d, x, n) ==
    IF x = s THEN (IF n \in DOMAIN own[s] THEN own[s][n].st ELSE "none")
    ELSE (IF n \in 1..MaxSeq THEN d.inb[n] ELSE "none")

\* The two acceptances a formation cites, and no withdrawal within its cursors.
Evidenced(s, d, ref) ==
    \A x \in Side :
      LET n == IF x = A THEN ref[2] ELSE ref[3]
          cursor == IF x = A THEN ref[4] ELSE ref[5]
      IN /\ StatusAt(s, d, x, n) = "applied"
         /\ own[x][n].kind = "accept" /\ own[x][n].ref[1] = ref[1]
         /\ n <= cursor
         /\ \A w \in DOMAIN own[x] :
              ~ /\ StatusAt(s, d, x, w) = "applied"
                /\ own[x][w].kind = "withdraw" /\ w <= cursor
                /\ own[x][w].ref = <<n>>

OnAgreement(s, d, sender, n, ref, outgoing) ==
    LET v == d.v
        agreed == [d EXCEPT !.v.agreement = ref, !.v.held = FALSE]
    IN IF sender # A \/ (v.agreement # <<>> /\ v.agreement # ref) THEN Bad(d)
       ELSE IF v.agreement = ref /\ v.closure = "cancelled" THEN Ok(d)
       ELSE IF v.terms = 0 \/ v.terms # ref[1] THEN Wait(d)
       ELSE IF ~outgoing /\ ref[4] >= n THEN Bad(d)
       ELSE IF \E x \in Side : StatusAt(s, d, x, IF x = A THEN ref[2] ELSE ref[3]) = "none"
            THEN Wait(d)
       ELSE IF ~Evidenced(s, d, ref) THEN Bad(d)
       ELSE Ok(IF outgoing THEN agreed ELSE Queue(agreed, "agreement_ack", ref))

OnAgreementAck(d, ref, outgoing) ==
    IF d.v.agreement = <<>> \/ d.v.agreement # ref THEN Wait(d)
    ELSE IF outgoing THEN Ok([d EXCEPT !.v.held = FALSE])
         ELSE Ok([d EXCEPT !.v.synced = TRUE, !.v.closure = "complete",
                           !.v.held = FALSE])

\* Mutant: a withdrawn acceptance stays active until the next proposal.
OnWithdrawKept(s, d, sender, ref) ==
    LET waiting == [d EXCEPT !.v.withdrawing = TRUE, !.v.held = FALSE]
    IN IF d.v.acc[sender].n = 0 \/ <<d.v.acc[sender].n>> # ref THEN Bad(d)
       ELSE IF d.v.agreement # <<>>
            THEN Ok(IF s = A THEN Queue(waiting, "agreement", d.v.agreement)
                    ELSE waiting)
            ELSE Ok([waiting EXCEPT !.v.withdrawing = (s # A)])

OnWithdraw(s, d, sender, ref) ==
    LET waiting == [d EXCEPT !.v.withdrawing = TRUE, !.v.held = FALSE]
    IN IF d.v.acc[sender].n = 0 \/ <<d.v.acc[sender].n>> # ref THEN Bad(d)
       ELSE IF d.v.agreement # <<>>
            THEN Ok(IF s = A THEN Queue(waiting, "agreement", d.v.agreement)
                    ELSE waiting)
            ELSE Ok([waiting EXCEPT !.v.acc[sender].active = FALSE,
                                    !.v.withdrawing = (s # A)])

OnCancel(d, kind, sender, ref) ==
    IF d.v.agreement = <<>> \/ d.v.agreement # ref THEN Bad(d)
    ELSE IF kind = "cancel_request"
         THEN Ok([d EXCEPT !.v.cancel = <<sender>>, !.v.held = FALSE])
    ELSE IF d.v.cancel \in {<<>>, <<sender>>} THEN Bad(d)
    ELSE Ok([d EXCEPT !.v.closure = "cancelled", !.v.held = FALSE])

\* A receipt names an event of the side that reads it, and how it ended there.
OnReceipt(s, d, ref, outgoing) ==
    IF outgoing THEN Ok(d)
    ELSE IF ref[1] \notin DOMAIN own[s] THEN Bad(d)
    ELSE LET applied == ref[2] = 1
             kind == own[s][ref[1]].kind
         IN Ok(CASE kind = "withdraw" /\ applied /\ d.v.agreement = <<>> ->
                      [d EXCEPT !.v.withdrawing = FALSE, !.v.held = FALSE]
                 [] kind = "agreement_ack" /\ applied /\ d.v.closure # "cancelled" ->
                      [d EXCEPT !.v.synced = TRUE, !.v.closure = "complete",
                                !.v.held = FALSE]
                 [] OTHER -> d)

\* _v2_apply for the events of the ordered stream.
Apply(s, d, sender, n, e, outgoing) ==
    LET pre == Precondition(d.v, e.kind, e.ref, sender)
    IN IF pre # "ok" THEN [res |-> pre, d |-> d]
       ELSE CASE e.kind \in {"invite", "change_request"} -> Ok(d)
              [] e.kind = "join" -> OnJoin(d, sender)
              [] e.kind = "proposal" -> OnProposal(d, e.ref)
              [] e.kind = "accept" -> OnAccept(s, d, sender, n, e.ref)
              [] e.kind = "agreement" -> OnAgreement(s, d, sender, n, e.ref, outgoing)
              [] e.kind = "agreement_ack" -> OnAgreementAck(d, e.ref, outgoing)
              [] e.kind = "withdraw" -> OnWithdraw(s, d, sender, e.ref)
              [] e.kind \in {"cancel_request", "cancel_ack"} -> OnCancel(d, e.kind, sender, e.ref)
              [] e.kind = "receipt" -> OnReceipt(s, d, e.ref, outgoing)

-----------------------------------------------------------------------------
(* _v2_drain: reduce the peer's buffered events in sequence, then ask for   *)
(* what is missing.                                                         *)

\* Mutant: the cursor is not held to the number that was settled.
SettledAhead(d, n, kind, status, receipted) ==
    LET done == [d EXCEPT !.inb[n] = status, !.v.inseq = n + 1]
    IN IF receipted /\ kind \in Receipted
       THEN Queue(done, "receipt", <<n, IF status = "applied" THEN 1 ELSE 0>>)
       ELSE done

\* The event is settled: the cursor passes it and a receipt is queued.
Settled(d, n, kind, status, receipted) ==
    LET done == [d EXCEPT !.inb[n] = status, !.v.inseq = n]
    IN IF receipted /\ kind \in Receipted
       THEN Queue(done, "receipt", <<n, IF status = "applied" THEN 1 ELSE 0>>)
       ELSE done

Stopped(d) == [d EXCEPT !.stop = TRUE]

\* _event_review stages a reviewable event that nobody has shown the owner.
Reviewed(d, n) == IF d.rev[n] = "none" THEN [d EXCEPT !.rev[n] = "pending"] ELSE d

\* The reducer's result out for event n, or its savepoint rolled back to d.
Reduced(d, n, kind, out) ==
    CASE out.res = "ok" -> Settled(out.d, n, kind, "applied", TRUE)
      [] out.res = "bad" -> Settled(d, n, kind, "rejected", TRUE)
      [] out.res = "wait" -> Stopped([d EXCEPT !.v.held = FALSE])

\* Mutant: what came inside a recovery answer is not held for the owner's review.
DrainBufferedUnreviewed(s, d, p, n, e) ==
    IF Stale(p, e) THEN Settled(d, n, e.kind, "rejected", TRUE)
    ELSE Once(LAMBDA out : Reduced(d, n, e.kind, out),
              Apply(s, [d EXCEPT !.v.inseq = n], p, n, e, FALSE))

\* Event n of p, buffered here; d has its review staged.
DrainBuffered(s, d, p, n, e) ==
    IF e.kind \in ReviewKinds /\ d.rev[n] = "pending"
    THEN Stopped([d EXCEPT !.v.held = TRUE])
    ELSE IF e.kind \in ReviewKinds /\ d.rev[n] = "rejected"
    THEN Settled(d, n, e.kind, "rejected", FALSE)
    ELSE IF Stale(p, e) THEN Settled(d, n, e.kind, "rejected", TRUE)
    ELSE Once(LAMBDA out : Reduced(d, n, e.kind, out),
              Apply(s, [d EXCEPT !.v.inseq = n], p, n, e, FALSE))

\* Mutant: reduces what it has and goes past a number that is missing.
DrainStepPastGap(s, d) ==
    LET p == Peer(s)
        n == d.v.inseq + 1
    IN IF d.stop \/ n \notin DOMAIN own[p] \/ n > MaxSeq THEN Stopped(d)
       ELSE LET e == own[p][n]
            IN CASE d.inb[n] = "none" -> [d EXCEPT !.v.inseq = n]
                 [] d.inb[n] = "buffered" ->
                      Once(LAMBDA r : DrainBuffered(s, r, p, n, e),
                           IF e.kind \in ReviewKinds THEN Reviewed(d, n) ELSE d)
                 [] OTHER -> Settled(d, n, e.kind, d.inb[n], TRUE)

DrainStep(s, d) ==
    LET p == Peer(s)
        n == d.v.inseq + 1
    IN IF d.stop \/ n \notin DOMAIN own[p] \/ n > MaxSeq THEN Stopped(d)
       ELSE LET e == own[p][n]
            IN CASE d.inb[n] = "none" -> Stopped(d)
                 [] d.inb[n] = "buffered" ->
                      Once(LAMBDA r : DrainBuffered(s, r, p, n, e),
                           IF e.kind \in ReviewKinds THEN Reviewed(d, n) ELSE d)
                 [] OTHER -> Settled(d, n, e.kind, d.inb[n], TRUE)

\* _collaboration_review_safe: every reviewable event on record is approved.
ReviewSafe(s, in, rev) ==
    \A n \in DOMAIN own[Peer(s)] :
      (in[n] # "none" /\ own[Peer(s)][n].kind \in ReviewKinds) => rev[n] = "approved"

\* The end of _v2_drain: ask for what is missing, or forget an old wait.
Drained(s, out) ==
    LET gaps == \E n \in 1..MaxSeq : out.inb[n] = "buffered"
        safe == ReviewSafe(s, out.inb, out.rev)
    IN IF gaps /\ out.v.held /\ ~safe THEN out
       ELSE IF gaps /\ out.v.closure # "cancelled"
       THEN Queue([out EXCEPT !.v.held = FALSE], "sync_request", <<out.v.inseq>>)
       ELSE [out EXCEPT !.v.held = out.v.held /\ ~safe]

Drain(s, d) ==
    LET loop[k \in 0..MaxSeq] ==
          IF k = 0 THEN d ELSE Once(LAMBDA v : DrainStep(s, v), loop[k - 1])
    IN Once(LAMBDA out : Drained(s, out), loop[MaxSeq])

\* What one transaction of side s works on, and its commit.
Opened(s) == [v |-> view[s], mo |-> mops[s], inb |-> inb[s], rev |-> review[s],
              stop |-> FALSE]

Commit(s, done) ==
    \E d \in {done} :
      /\ view' = [view EXCEPT ![s] = d.v]
      /\ mops' = [mops EXCEPT ![s] = d.mo]
      /\ inb' = [inb EXCEPT ![s] = d.inb]
      /\ review' = [review EXCEPT ![s] = d.rev]

\* _v2_ingest_bound for events of the ordered stream.
Recorded(s, d, ns) ==
    [d EXCEPT !.inb = [n \in 1..MaxSeq |->
        IF n \notin ns \/ d.inb[n] # "none" THEN d.inb[n]
        ELSE IF Stale(Peer(s), own[Peer(s)][n]) THEN "rejected" ELSE "buffered"]]

-----------------------------------------------------------------------------
(* prepare_collaboration, the owner's approval and the first transaction of *)
(* dispatch_collaboration.                                                  *)

\* _v2_operation_current for an operation that is not yet reserved.
Current(s, op) ==
    /\ op.kind \in {"invite", "join"} => ~view[s].bound
    /\ ReviewSafe(s, inb[s], review[s])
    /\ op.revoked = (task[s] = "revoked")
    /\ op.once \/ Live(s)
    /\ Context(view[s]) = op.context

\* _v2_payload: what an event of this kind refers to, from the local facts.
Compiled(s, kind) ==
    LET v == view[s]
    IN CASE kind = "proposal" -> <<v.terms + 1>>
         [] kind = "accept" -> <<v.terms>>
         [] kind = "withdraw" -> <<v.acc[s].n>>
         [] kind \in {"cancel_request", "cancel_ack"} -> v.agreement
         [] OTHER -> <<>>

Compilable(s, kind) ==
    /\ kind = "proposal" => view[s].terms < plan.versions
    /\ kind = "accept" => view[s].terms # 0
    /\ kind = "withdraw" => view[s].acc[s].n # 0
    /\ kind \in {"cancel_request", "cancel_ack"} => view[s].agreement # <<>>
    /\ kind = "cancel_ack" => view[s].cancel # <<>>

Prepare(s, kind) ==
    LET starting == kind = IF s = A THEN "invite" ELSE "join"
        once == kind \in Recovery /\ (~Live(s) \/ Used(s) >= plan.budget[s])
    IN /\ kind \in plan.kinds[s]
       /\ kind \in {"invite", "join"} =>
            starting /\ ~view[s].bound /\ Live(s) /\ (s = B => view[s].invited)
       /\ kind \notin {"invite", "join"} => view[s].bound /\ ReviewSafe(s, inb[s], review[s])
       /\ Compilable(s, kind)
       /\ Precondition(view[s], kind, Compiled(s, kind), s) = "ok"
       /\ once \/ (Live(s) /\ Used(s) < plan.budget[s])
       /\ Len(ops[s]) < MaxOps /\ Len(own[s]) + Len(ops[s]) < MaxSeq
       /\ ops' = [ops EXCEPT ![s] = Append(@,
             [kind |-> kind, ref |-> Compiled(s, kind), context |-> Context(view[s]),
              revoked |-> task[s] = "revoked", once |-> once,
              ready |-> kind \in {"proposal", "accept", "change_request"}])]
       /\ UNCHANGED <<view, own, inb, mops, review, task, expired, mail, lost, faults, plan>>

Approve(s, i) ==
    /\ i \in DOMAIN ops[s] /\ ~ops[s][i].ready /\ Current(s, ops[s][i])
    /\ ops' = [ops EXCEPT ![s][i].ready = TRUE]
    /\ UNCHANGED <<view, own, inb, mops, review, task, expired, mail, lost, faults, plan>>

\* The owner answers no, or the operation is left alone for good.
Drop(s, i) ==
    /\ i \in DOMAIN ops[s]
    /\ ops' = [ops EXCEPT ![s] = RemoveAt(@, i)]
    /\ UNCHANGED <<view, own, inb, mops, review, task, expired, mail, lost, faults, plan>>

ReservedEvent(kind, ref, revoked, once) ==
    [kind |-> kind, ref |-> ref, revoked |-> revoked, once |-> once,
     st |-> "reserved", wire |-> "pending"]

Reserve(s, i) ==
    /\ i \in DOMAIN ops[s] /\ ops[s][i].ready /\ Current(s, ops[s][i])
    /\ LET op == ops[s][i]
       IN /\ op.once \/ Used(s) < plan.budget[s]
          /\ own' = [own EXCEPT ![s] = Append(@,
                       ReservedEvent(op.kind, op.ref, op.revoked, op.once))]
          /\ view' = [view EXCEPT ![s] =
                IF op.kind \notin {"invite", "join"} THEN @
                ELSE [@ EXCEPT !.bound = TRUE, !.permit = "live",
                               !.inseq = IF op.kind = "join" THEN 1 ELSE 0]]
          /\ inb' = IF op.kind = "join" THEN [inb EXCEPT ![s][1] = "applied"] ELSE inb
    /\ ops' = [ops EXCEPT ![s] = RemoveAt(@, i)]
    /\ UNCHANGED <<mops, review, task, expired, mail, lost, faults, plan>>

ReserveMaintenance(s, m) ==
    /\ m \in mops[s] /\ m.st = "ready"
    /\ view[s].permit = "live" /\ PermitUsed(mops[s]) < plan.permit
    /\ ReviewSafe(s, inb[s], review[s])
    /\ IF m.kind \in Sync THEN own' = own
       ELSE /\ Len(own[s]) + Len(ops[s]) < MaxSeq
            /\ own' = [own EXCEPT ![s] = Append(@, ReservedEvent(m.kind, m.ref, FALSE, FALSE))]
    /\ mops' = [mops EXCEPT ![s] = (@ \ {m}) \cup {[m EXCEPT !.st = "sending"]}]
    /\ UNCHANGED <<view, inb, ops, review, task, expired, mail, lost, faults, plan>>

-----------------------------------------------------------------------------
(* The second transaction of dispatch_collaboration: apply the event here,  *)
(* then hand it to the helper.  An exception in the reducer rolls all back. *)

\* Mutant: what was reserved is sent, whatever happened to the mandate since.
SendableReserved(s, e) == ReviewSafe(s, inb[s], review[s])

Sendable(s, e) ==
    /\ ReviewSafe(s, inb[s], review[s])
    /\ IF e.kind \in Maintenance THEN view[s].permit = "live"
       ELSE e.revoked = (task[s] = "revoked") /\ (e.once \/ Live(s))

Accepted(mo, e) ==
    {IF m.kind = e.kind /\ m.ref = e.ref THEN [m EXCEPT !.st = "accepted"] ELSE m : m \in mo}

Submit(s, n, wire) ==
    /\ n \in DOMAIN own[s] /\ own[s][n].wire # "accepted"
    /\ Sendable(s, own[s][n])
    /\ UNCHANGED <<ops, task, expired, lost, plan>>
    /\ IF wire = "accepted" THEN faults' = faults
       ELSE faults < plan.faults /\ faults' = faults + 1
    /\ LET e == own[s][n]
           posted == e.wire = "unanswered"
           out == IF e.st = "applied" THEN Ok(Opened(s))
                  ELSE Apply(s, Opened(s), s, n, e, TRUE)
           mo == IF wire = "accepted" THEN Accepted(out.d.mo, e) ELSE out.d.mo
       IN /\ own' = [own EXCEPT ![s][n].st = "applied",
                                ![s][n].wire = IF posted /\ wire = "failed" THEN "unanswered"
                                               ELSE wire]
          /\ mail' = IF wire = "failed" \/ posted THEN mail
                     ELSE [mail EXCEPT ![s] = @ \cup {EventPacket(n)}]
          /\ out.res = "ok"
          /\ Commit(s, [out.d EXCEPT !.mo = mo])

\* A failed call for a recovery packet changes nothing and is tried again.
SubmitSync(s, m) ==
    /\ m \in mops[s] /\ m.kind \in Sync /\ m.st = "sending"
    /\ view[s].permit = "live" /\ ReviewSafe(s, inb[s], review[s])
    /\ mops' = [mops EXCEPT ![s] = (@ \ {m}) \cup {[m EXCEPT !.st = "accepted"]}]
    /\ mail' = [mail EXCEPT ![s] = @ \cup {Packet(m.kind, m.ref)}]
    /\ UNCHANGED <<view, own, inb, ops, review, task, expired, lost, faults, plan>>

-----------------------------------------------------------------------------
(* What arrives (ingest_v2_record), and the owner's review of it.           *)

Take(s, pk) ==
    /\ pk \in mail[Peer(s)]
    /\ mail' = [mail EXCEPT ![Peer(s)] = @ \ {pk}]

\* A reviewable event is quarantined until the owner decides; before the
\* collaboration exists here only its invitation is taken from the mailbox.
ReceiveReviewable(s, n) ==
    /\ Take(s, EventPacket(n))
    /\ own[Peer(s)][n].kind \in ReviewKinds
    /\ view[s].bound \/ own[Peer(s)][n].kind = "invite"
    /\ review' = [review EXCEPT ![s][n] = IF @ = "none" THEN "pending" ELSE @]
    /\ UNCHANGED <<view, own, inb, mops, ops, task, expired, lost, faults, plan>>

ReceiveEvent(s, n) ==
    /\ Take(s, EventPacket(n))
    /\ own[Peer(s)][n].kind \notin ReviewKinds /\ view[s].bound
    /\ UNCHANGED <<own, ops, task, expired, lost, faults, plan>>
    /\ Commit(s, Drain(s, Recorded(s, Opened(s), {n})))

\* A recovery answer says of each number whether it carries that event: the
\* first eight of ns.
Carrying(ns) ==
    [n \in 1..MaxSeq |-> IF n \in ns /\ Cardinality({m \in ns : m <= n}) <= 8 THEN 1 ELSE 0]
Carried(ref) == {n \in DOMAIN ref : ref[n] = 1}

\* Mutant: also answers with events that are only reserved.
AnswerReserved(s, after) == Carrying({n \in DOMAIN own[s] : n > after})

\* Mutant: takes the cursor for the first event that is missing one too late.
AnswerLater(s, after) ==
    Carrying({n \in DOMAIN own[s] : n > after + 1 /\ own[s][n].st = "applied"})

\* The applied events after the peer's cursor, at most eight of them.
Answer(s, after) ==
    Carrying({n \in DOMAIN own[s] : n > after /\ own[s][n].st = "applied"})

ReceiveSyncRequest(s, after) ==
    /\ Take(s, Packet("sync_request", <<after>>))
    /\ view[s].bound
    /\ UNCHANGED <<own, ops, task, expired, lost, faults, plan>>
    /\ Commit(s, Drain(s, Queue([Opened(s) EXCEPT !.v.after = after],
                                "sync_response", Answer(s, after))))

ReceiveSyncResponse(s, pk) ==
    /\ Take(s, pk) /\ pk.kind = "sync_response"
    /\ view[s].bound
    /\ UNCHANGED <<own, ops, task, expired, lost, faults, plan>>
    /\ Commit(s, Drain(s, Recorded(s, Opened(s), Carried(pk.ref))))

\* _review_peer, with the ingestion and the drain that follow a decision.
Review(s, n, decision) ==
    /\ review[s][n] = "pending"
    /\ decision \in {"approved"} \cup (IF plan.rejects THEN {"rejected"} ELSE {})
    /\ UNCHANGED <<own, ops, task, expired, mail, lost, faults, plan>>
    /\ LET d == [Opened(s) EXCEPT !.rev[n] = decision]
       IN IF view[s].bound
          THEN Commit(s, Drain(s, IF decision = "approved" THEN Recorded(s, d, {n}) ELSE d))
          ELSE Commit(s, [d EXCEPT !.v.invited = (decision = "approved")])

-----------------------------------------------------------------------------
RevokeTask(s) ==
    /\ <<s, "task">> \in plan.revocable /\ task[s] = "active"
    /\ task' = [task EXCEPT ![s] = "revoked"]
    /\ UNCHANGED <<view, own, inb, mops, ops, review, expired, mail, lost, faults, plan>>

RevokePermit(s) ==
    /\ <<s, "permit">> \in plan.revocable /\ view[s].permit = "live"
    /\ view' = [view EXCEPT ![s].permit = "revoked", ![s].held = FALSE]
    /\ UNCHANGED <<own, inb, mops, ops, review, task, expired, mail, lost, faults, plan>>

Expire(s) ==
    /\ s \in plan.expiring \ expired
    /\ expired' = expired \cup {s}
    /\ UNCHANGED <<view, own, inb, mops, ops, review, task, mail, lost, faults, plan>>

Lose(s, pk) ==
    /\ lost < plan.lost /\ pk \in mail[s] /\ pk.kind \in Lossy
    /\ mail' = [mail EXCEPT ![s] = @ \ {pk}]
    /\ lost' = lost + 1
    /\ UNCHANGED <<view, own, inb, mops, ops, review, task, expired, faults, plan>>

Owner(s) ==
    \/ \E kind \in Business : Prepare(s, kind)
    \/ \E i \in 1..MaxOps : Approve(s, i) \/ Drop(s, i)
    \/ \E n \in 1..MaxSeq, decision \in {"approved", "rejected"} : Review(s, n, decision)
    \/ RevokeTask(s) \/ RevokePermit(s) \/ Expire(s)

Host(s) ==
    \/ \E i \in 1..MaxOps : Reserve(s, i)
    \/ \E m \in mops[s] : ReserveMaintenance(s, m) \/ SubmitSync(s, m)
    \/ \E n \in 1..MaxSeq, wire \in {"accepted", "failed", "unanswered"} : Submit(s, n, wire)

Mailbox(s) ==
    \/ \E n \in 1..MaxSeq : ReceiveReviewable(s, n) \/ ReceiveEvent(s, n)
    \/ \E after \in 0..MaxSeq : ReceiveSyncRequest(s, after)
    \/ \E pk \in mail[Peer(s)] : ReceiveSyncResponse(s, pk)
    \/ \E pk \in mail[s] : Lose(s, pk)

Next == \E s \in Side : Owner(s) \/ Host(s) \/ Mailbox(s)

Spec == Init /\ [][Next]_vars

-----------------------------------------------------------------------------
(* Properties.                                                              *)

\* An event leaves a side, in its own packet or inside a recovery answer, only
\* after the transaction that applied it there: a reservation that a revocation
\* overtook never speaks for the owner.
NothingReservedLeaves ==
    \A s \in Side : \A n \in 1..MaxSeq :
      (EventPacket(n) \in mail[s] \/ inb[Peer(s)][n] # "none") =>
        n \in DOMAIN own[s] /\ own[s][n].st = "applied"

\* Events are reduced in the sender's order however they arrive: nothing behind
\* a gap is applied, and everything before the cursor has its final status.
ReducedInOrder ==
    \A s \in Side : \A n \in 1..MaxSeq :
      IF n <= view[s].inseq THEN inb[s][n] \in {"applied", "rejected"}
      ELSE inb[s][n] # "applied"

\* Terms reach a side's state only after its owner approved that content, also
\* when the proposal came inside a recovery answer.
ReviewedBeforeUse ==
    \A s \in Side : \A n \in 1..MaxSeq :
      (inb[s][n] = "applied" /\ own[Peer(s)][n].kind \in ReviewKinds) =>
        review[s][n] = "approved"

\* Whoever records an agreement records the initiator's one decision, and each
\* side it binds has itself applied an acceptance of exactly those terms.  A side
\* that calls it synchronized shares it with the other one, and the peer never says
\* so before the initiator has the acknowledgment.
AgreementSound ==
    \A s \in Side :
      /\ view[s].agreement # <<>> =>
           /\ view[s].agreement = view[A].agreement
           /\ \A x \in Side :
                LET n == view[s].agreement[IF x = A THEN 2 ELSE 3]
                IN /\ n \in DOMAIN own[x] /\ own[x][n].st = "applied"
                   /\ own[x][n].kind = "accept" /\ own[x][n].ref = <<view[s].agreement[1]>>
      /\ view[s].synced =>
           /\ view[A].agreement # <<>> /\ view[B].agreement = view[A].agreement
           /\ view[A].synced

\* The initiator does not form an agreement out of an acceptance whose
\* withdrawal it has already reduced, and a formed agreement never changes.
FormationHonoursWithdrawal ==
    [][\A s \in Side :
         /\ view[s].agreement # <<>> => view'[s].agreement = view[s].agreement
         /\ (view[A].agreement = <<>> /\ view'[A].agreement # <<>>) =>
              \A w \in DOMAIN own[B] :
                ~ /\ own[B][w].kind = "withdraw" /\ inb[A][w] = "applied"
                  /\ own[B][w].ref = <<view'[A].agreement[3]>>]_vars

\* After the owner has revoked the task no business event of it is handed to the
\* helper, and after the permit was revoked no maintenance event, although both
\* may be reserved already.
RevokedStaysSilent ==
    [][\A s \in Side : \A pk \in mail'[s] \ mail[s] :
         IF pk.kind \in Sync THEN view[s].permit = "live"
         ELSE LET e == own[s][pk.ref[1]]
              IN IF e.kind \in Maintenance THEN view[s].permit = "live"
                 ELSE e.once \/ Live(s)]_vars

\* A repair at side s is under way: its recovery request for what follows its
\* cursor, or an answer with the next event, is queued or on its way, or the next
\* event is here and waits for the owner's review.
InRepair(s) ==
    LET next == view[s].inseq + 1
        open(x) == mail[x] \cup {Packet(m.kind, m.ref) : m \in {o \in mops[x] : o.st # "accepted"}}
    IN \/ Packet("sync_request", <<view[s].inseq>>) \in open(s)
       \/ \E pk \in open(Peer(s)) : pk.kind = "sync_response" /\ next \in Carried(pk.ref)
       \/ next <= MaxSeq /\ inb[s][next] = "buffered" /\ review[s][next] = "pending"

\* What ends a repair: the permit of either side is spent or revoked, or the next
\* event accepts terms that this side does not hold, which nothing sent later can
\* change.
RepairEnds(s) ==
    LET n == view[s].inseq + 1
    IN \/ \E x \in Side : \/ view[x].permit # "live"
                          \/ Pending(mops[x]) + PermitUsed(mops[x]) >= plan.permit
       \/ /\ n \in DOMAIN own[Peer(s)] /\ inb[s][n] = "buffered"
          /\ own[Peer(s)][n].kind = "accept" /\ own[Peer(s)][n].ref # <<view[s].terms>>

\* A repair is not dropped half way.  While an event waits behind a gap, all of
\* which its sender has applied, every step settles that event or leaves a request
\* for the cursor then reached, or an answer that fills the gap there: whatever
\* arrives, in whatever order, is sent or is decided.  (A request refused for want
\* of room, or answered too early, is not made again; when a queued one is sent is
\* up to the owner, or to a finite worker.)
RepairGoesOn ==
    [][\A s \in Side : \A n \in 1..MaxSeq :
         (/\ inb[s][n] = "buffered" /\ InRepair(s)
          /\ \A m \in 1..n : own[Peer(s)][m].st = "applied") =>
           inb'[s][n] \in {"applied", "rejected"} \/ InRepair(s)' \/ RepairEnds(s)']_vars

\* What the code says of a cancelled collaboration: it is never reopened.
CancellationFinal ==
    [][\A s \in Side : view[s].closure = "cancelled" => view'[s].closure = "cancelled"]_vars
=============================================================================
