-------------------------- MODULE CollaborationProofs --------------------------
(***************************************************************************)
(* The proofs of Collaboration.tla: what two runtimes hold of one another, *)
(* for every plan, any number of events and a mailbox that loses and       *)
(* reorders.                                                               *)
(*                                                                         *)
(* A transaction works on a copy d of one side's rows (Opened), changes it *)
(* event by event (the drain) and writes it back (Commit).  So the         *)
(* invariant is stated of such a copy: TxInv(s, d, now) holds of d at any  *)
(* moment of a transaction of s, now being the event that is being reduced *)
(* (<<s, 0>> for none), and InOrder(d) between two of them.  The states of *)
(* the specification are the transactions that have just been opened       *)
(* (SidesInv).  The lemmas then follow the code: one for each event kind   *)
(* of the reducer (On...), one for a step of the drain, one for its loop,  *)
(* one for the commit, and one for each action.                            *)
(***************************************************************************)
EXTENDS Collaboration, SequenceTheorems, FiniteSetTheorems, WellFoundedInduction, TLAPS

-----------------------------------------------------------------------------
(* The invariant.                                                           *)

\* Side x has applied its event n; it is an acceptance of the terms t.
Applied(x, n) == n \in DOMAIN own[x] /\ own[x][n].st = "applied"
Accepting(x, n, t) == n \in DOMAIN own[x] /\ own[x][n].kind = "accept" /\ own[x][n].ref = <<t>>

\* What a transaction works on.
InStatus == {"none", "buffered", "applied", "rejected"}
Tx == [v : View, mo : SUBSET Queuing, inb : [1..MaxSeq -> InStatus],
       rev : [1..MaxSeq -> {"none", "pending", "approved", "rejected"}], stop : BOOLEAN]

\* Event n of x counts in the transaction d of s: applied, or being reduced now.
Done(s, d, now, x, n) ==
    <<x, n>> = now \/ (IF x = s THEN own[s][n].st = "applied" ELSE d.inb[n] = "applied")

\* What side s holds of an event, or has quarantined, its sender has applied.
Arrived(s, d) ==
    \A n \in 1..MaxSeq : d.inb[n] # "none" \/ d.rev[n] # "none" => Applied(Peer(s), n)
\* The cursor is the end of what is settled.
InOrder(d) ==
    \A n \in 1..MaxSeq : IF n <= d.v.inseq THEN d.inb[n] \in {"applied", "rejected"}
                         ELSE d.inb[n] # "applied"
\* The owner has approved every reviewable event that was applied.
Vetted(s, d) ==
    \A n \in 1..MaxSeq : d.inb[n] = "applied" /\ own[Peer(s)][n].kind \in ReviewKinds
                         => d.rev[n] = "approved"
\* An acceptance on record is an event of that side which counts here.
AcceptancesInv(s, d, now) ==
    \A x \in Side : d.v.acc[x].n # 0 =>
       Accepting(x, d.v.acc[x].n, d.v.acc[x].terms) /\ Done(s, d, now, x, d.v.acc[x].n)

\* What side s may say in a maintenance event or a recovery packet.
Says(s, d, m) ==
    /\ m.kind = "agreement" => s = A /\ d.v.agreement # <<>> /\ m.ref = d.v.agreement
    /\ m.kind = "agreement_ack" => s = B /\ d.v.agreement # <<>> /\ m.ref = d.v.agreement
    /\ m.kind = "receipt" => \E n \in 1..MaxSeq, b \in {0, 1} :
          m.ref = <<n, b>> /\ (b = 1 => d.inb[n] = "applied")
    /\ m.kind = "sync_response" => \A n \in Carried(m.ref) : Applied(s, n)
Truthful(s, d) ==
    /\ \A m \in d.mo : Says(s, d, m)
    /\ \A n \in DOMAIN own[s] : Says(s, d, own[s][n])

\* The formation g cites an acceptance of the same terms by each side.
Evidence(s, d, now, g) ==
    \E t \in 1..plan.versions, a, b \in 1..MaxSeq, i, j \in 0..MaxSeq :
       /\ g = <<t, a, b, i, j>>
       /\ Accepting(A, a, t) /\ Done(s, d, now, A, a)
       /\ Accepting(B, b, t) /\ Done(s, d, now, B, b)
\* The initiator's decision rests on evidence, the peer's is the initiator's,
\* and neither is ever changed.
AgreedInv(s, d, now) ==
    /\ d.v.agreement # <<>> => IF s = A THEN Evidence(s, d, now, d.v.agreement)
                               ELSE d.v.agreement = view[A].agreement
    /\ view[s].agreement # <<>> => d.v.agreement = view[s].agreement
\* The initiator calls the agreement synchronized once the peer has it; the peer,
\* once the initiator has its acknowledgment.
SyncedInv(s, d) ==
    /\ d.v.synced => /\ d.v.agreement # <<>>
                     /\ IF s = A THEN view[B].agreement = d.v.agreement ELSE view[A].synced
    /\ view[s].synced => d.v.synced
    /\ \A n \in 1..MaxSeq :
         s = A /\ d.inb[n] = "applied" /\ own[B][n].kind = "agreement_ack" => d.v.synced
\* An acceptance whose withdrawal the initiator has applied is not active there,
\* unless the agreement was formed.
WithdrawnInv(s, d) ==
    s = A => \A w \in 1..MaxSeq : d.inb[w] = "applied" /\ own[B][w].kind = "withdraw" =>
       \E k \in 1..MaxSeq : /\ own[B][w].ref = <<k>> /\ d.inb[k] = "applied"
                            /\ d.v.agreement = <<>> => ~(d.v.acc[B].n = k /\ d.v.acc[B].active)
\* No withdrawal of the acceptance that g cites was applied before.
Unwithdrawn(g) ==
    \A w \in 1..MaxSeq : ~ /\ inb[A][w] = "applied" /\ own[B][w].kind = "withdraw"
                           /\ own[B][w].ref = <<g[3]>>
HonoursInv(s, d) ==
    s = A /\ view[A].agreement = <<>> /\ d.v.agreement # <<>> => Unwithdrawn(d.v.agreement)
\* A transaction takes back nothing it found applied.
Grown(s, d) == \A n \in 1..MaxSeq : inb[s][n] = "applied" => d.inb[n] = "applied"

TxInv(s, d, now) ==
    /\ d \in Tx
    /\ Arrived(s, d) /\ Vetted(s, d) /\ AcceptancesInv(s, d, now) /\ Truthful(s, d)
    /\ AgreedInv(s, d, now) /\ SyncedInv(s, d) /\ WithdrawnInv(s, d)
    /\ HonoursInv(s, d) /\ Grown(s, d)

\* What an event of s and an operation of its owner look like.
Shape(s, e) ==
    /\ e.kind = "invite" => s = A
    /\ e.kind \in {"proposal", "accept"} => \E t \in 1..plan.versions : e.ref = <<t>>
    /\ e.kind = "withdraw" => \E k \in 1..MaxSeq : e.ref = <<k>>
OpShape(s, o) ==
    /\ Shape(s, o)
    /\ o.kind = "join" => s = B /\ view[B].invited
    /\ o.kind \notin {"invite", "join"} => view[s].bound
Shapes ==
    \A s \in Side :
       /\ \A n \in DOMAIN own[s] : Shape(s, own[s][n]) /\ (own[s][n].kind = "invite" => n = 1)
       /\ \A i \in DOMAIN ops[s] : OpShape(s, ops[s][i])
\* A side that has not started holds nothing but the invitation it may review.
BoundInv ==
    /\ \A s \in Side : ~view[s].bound =>
         /\ view[s].inseq = 0 /\ view[s].permit # "live" /\ own[s] = <<>>
         /\ \A n \in 1..MaxSeq : /\ inb[s][n] = "none"
                                 /\ review[s][n] # "none" => own[Peer(s)][n].kind = "invite"
    /\ view[B].invited => 1 \in 1..MaxSeq /\ review[B][1] = "approved"
\* The mailbox holds what the sender has applied.
MailInv ==
    \A s \in Side : \A pk \in mail[s] :
       /\ pk.kind = "event" => \E n \in 1..MaxSeq : pk.ref = <<n>> /\ Applied(s, n)
       /\ pk.kind = "sync_response" => \A n \in Carried(pk.ref) : Applied(s, n)
SidesInv == \A s \in Side : InOrder(Opened(s)) /\ TxInv(s, Opened(s), <<s, 0>>)
CollInv == TypeOK /\ SidesInv /\ Shapes /\ BoundInv /\ MailInv

-----------------------------------------------------------------------------
(* The two sides, and changes of a transaction that its invariant allows.   *)

\* The two sides are each other's peer and there is no third.
LEMMA Sides ==
    /\ A \in Side /\ B \in Side /\ A # B /\ Peer(A) = B /\ Peer(B) = A
    /\ \A s \in Side : Peer(s) \in Side /\ Peer(s) # s /\ (s = A \/ s = B)
                       /\ (\A x \in Side : x = s \/ x = Peer(s))
BY CollaborationAssumption DEF Side, Peer

\* The bounds a plan sets are numbers.
LEMMA PlanFacts ==
    ASSUME plan \in Plans
    PROVE  plan.versions \in Nat /\ plan.permit \in Nat /\ plan.lost \in Nat /\ plan.faults \in Nat
BY CollaborationAssumption

\* _v2_queue without the operator that names its argument.
LEMMA QueueIs ==
    ASSUME NEW d, NEW kind, NEW ref
    PROVE  Queue(d, kind, ref) = Queued(d, kind, ref)
BY DEF Queue, Once

\* _v2_form without the operator that names its argument.
LEMMA FormIs ==
    ASSUME NEW s, NEW d
    PROVE  Form(s, d) = Formed(s, d)
BY DEF Form, Once

\* The invariant of a transaction looks at no other field of it than these.
LEMMA Frame ==
    ASSUME NEW s \in Side, NEW d, NEW now, TxInv(s, d, now), NEW e \in Tx,
           e.inb = d.inb, e.rev = d.rev, e.v.acc = d.v.acc, e.v.agreement = d.v.agreement,
           e.v.synced = d.v.synced, e.mo = d.mo
    PROVE  TxInv(s, e, now)
<1>1. e \in Tx
    OBVIOUS
<1>2. Arrived(s, e) /\ Vetted(s, e)
    BY DEF TxInv, Arrived, Vetted
<1>3. AcceptancesInv(s, e, now)
    BY DEF TxInv, AcceptancesInv, Done
<1>4. Truthful(s, e)
    BY DEF TxInv, Truthful, Says
<1>5. AgreedInv(s, e, now)
    BY DEF TxInv, AgreedInv, Evidence, Done
<1>6. SyncedInv(s, e)
    BY DEF TxInv, SyncedInv
<1>7. WithdrawnInv(s, e)
    BY DEF TxInv, WithdrawnInv
<1>8. HonoursInv(s, e) /\ Grown(s, e)
    BY DEF TxInv, HonoursInv, Grown
<1> QED
    BY <1>1, <1>2, <1>3, <1>4, <1>5, <1>6, <1>7, <1>8 DEF TxInv

\* Queuing a true maintenance event keeps the invariant and changes only the
\* outbox or the wait.
LEMMA QueueTx ==
    ASSUME NEW s \in Side, NEW d, NEW now, TxInv(s, d, now), plan \in Plans,
           NEW kind \in Maintenance, NEW ref \in Ref,
           Says(s, d, [kind |-> kind, ref |-> ref, st |-> "ready"])
    PROVE  /\ TxInv(s, Queue(d, kind, ref), now)
           /\ Queue(d, kind, ref).inb = d.inb /\ Queue(d, kind, ref).rev = d.rev
           /\ Queue(d, kind, ref).stop = d.stop
           /\ Queue(d, kind, ref).v = [d.v EXCEPT !.held = Queue(d, kind, ref).v.held]
<1> DEFINE m == [kind |-> kind, ref |-> ref, st |-> "ready"]
           more == [d EXCEPT !.mo = d.mo \cup {m}]
           less == [d EXCEPT !.v.held = FALSE]
<1>1. d \in Tx /\ d.v \in View /\ m \in Queuing
    BY DEF TxInv, Tx, Queuing
<1>2. Queue(d, kind, ref) \in {more, less, d}
    BY QueueIs DEF Queued
<1>3. /\ less \in Tx /\ less.inb = d.inb /\ less.rev = d.rev /\ less.v = [d.v EXCEPT !.held = FALSE]
      /\ less.mo = d.mo /\ less.stop = d.stop
    BY <1>1 DEF Tx, View
<1>4. /\ more \in Tx /\ more.inb = d.inb /\ more.rev = d.rev /\ more.v = d.v
      /\ more.stop = d.stop
      /\ more.mo = d.mo \cup {m}
    BY <1>1 DEF Tx
<1>5. d.v = [d.v EXCEPT !.held = d.v.held]
    BY <1>1 DEF View
<1>6. /\ less.v.acc = d.v.acc /\ less.v.agreement = d.v.agreement /\ less.v.synced = d.v.synced
      /\ less.v.held = FALSE
    BY <1>1, <1>3 DEF View
<1> HIDE DEF less, more
<1>7. TxInv(s, less, now)
    BY <1>3, <1>6, Frame
<1>8. TxInv(s, more, now)
    <2>1. Truthful(s, more)
        BY <1>4 DEF TxInv, Truthful, Says
    <2> QED
        BY <1>4, <2>1
        DEF TxInv, Arrived, Vetted, AcceptancesInv, Done, AgreedInv, Evidence, SyncedInv,
            WithdrawnInv, HonoursInv, Grown
<1> QED
    BY <1>2, <1>3, <1>4, <1>5, <1>6, <1>7, <1>8

\* What a transaction may write into the record of the collaboration.
LEMMA ViewSets ==
    ASSUME NEW v \in View
    PROVE  /\ \A x \in BOOLEAN : [v EXCEPT !.held = x] \in View
           /\ \A x \in BOOLEAN : [v EXCEPT !.synced = x] \in View
           /\ \A x \in BOOLEAN : [v EXCEPT !.joined = x] \in View
           /\ \A x \in BOOLEAN : [v EXCEPT !.withdrawing = x] \in View
           /\ \A x \in Ref : [v EXCEPT !.agreement = x] \in View
           /\ \A x \in {"none", "complete", "cancelled"} : [v EXCEPT !.closure = x] \in View
           /\ \A x \in {<<>>, <<A>>, <<B>>} : [v EXCEPT !.cancel = x] \in View
           /\ \A x \in 0..plan.versions : [v EXCEPT !.terms = x] \in View
           /\ \A x \in [Side -> Acceptance] : [v EXCEPT !.acc = x] \in View
BY DEF View

\* The record with the agreement g, and what stays of it.
LEMMA ViewAgreed ==
    ASSUME NEW v \in View, NEW g \in Ref
    PROVE  LET w == [v EXCEPT !.agreement = g, !.held = FALSE] IN
           /\ w \in View /\ w.acc = v.acc /\ w.agreement = g /\ w.synced = v.synced
           /\ w.inseq = v.inseq /\ w.bound = v.bound /\ w.permit = v.permit /\ w.invited = v.invited
<1>1. [v EXCEPT !.agreement = g] \in View
    BY ViewSets
<1>2. [[v EXCEPT !.agreement = g] EXCEPT !.held = FALSE] \in View
    BY <1>1, ViewSets
<1> QED
    BY <1>2 DEF View

\* The record once it is synchronized, and what stays of it.
LEMMA ViewSynced ==
    ASSUME NEW v \in View
    PROVE  LET w == [v EXCEPT !.synced = TRUE, !.closure = "complete", !.held = FALSE] IN
           /\ w \in View /\ w.acc = v.acc /\ w.agreement = v.agreement /\ w.synced
           /\ w.inseq = v.inseq /\ w.bound = v.bound /\ w.permit = v.permit /\ w.invited = v.invited
<1>1. [v EXCEPT !.synced = TRUE] \in View
    BY ViewSets
<1>2. [[v EXCEPT !.synced = TRUE] EXCEPT !.closure = "complete"] \in View
    BY <1>1, ViewSets
<1>3. [[[v EXCEPT !.synced = TRUE] EXCEPT !.closure = "complete"] EXCEPT !.held = FALSE] \in View
    BY <1>2, ViewSets
<1> QED
    BY <1>3 DEF View

Keeps(d, e) ==
    /\ e.inb = d.inb /\ e.rev = d.rev /\ e.stop = d.stop
    /\ e.v.inseq = d.v.inseq /\ e.v.bound = d.v.bound /\ e.v.permit = d.v.permit
    /\ e.v.invited = d.v.invited

AgreedTo(d, g) == [d EXCEPT !.v.agreement = g, !.v.held = FALSE]
SyncedIn(d) == [d EXCEPT !.v.synced = TRUE, !.v.closure = "complete", !.v.held = FALSE]
AcceptedBy(d, x, a) == [d EXCEPT !.v.acc[x] = a]

\* Event n of sender grounds the acceptance a, or a ends the one on record.
Grounded(s, d, sender, n, a) ==
    a.n # 0 => \/ /\ a.n = n /\ Accepting(sender, n, a.terms)
                  /\ sender # s => d.inb[n] # "applied"
               \/ /\ a.n = d.v.acc[sender].n /\ a.terms = d.v.acc[sender].terms
                  /\ ~a.active

\* A transaction that differs in the wait alone keeps what the drain relies on.
LEMMA Held ==
    ASSUME NEW d \in Tx, NEW q, q.v = [d.v EXCEPT !.held = q.v.held],
           q.inb = d.inb, q.rev = d.rev, q.stop = d.stop
    PROVE  Keeps(d, q) /\ q.v.acc = d.v.acc /\ q.v.agreement = d.v.agreement
           /\ q.v.synced = d.v.synced /\ q.v.terms = d.v.terms
<1> DEFINE v == d.v
           w == q.v
           x == q.v.held
<1>1. v \in View /\ w = [v EXCEPT !.held = x]
    BY DEF Tx
<1> HIDE DEF v, w, x
<1>2. /\ w.acc = v.acc /\ w.agreement = v.agreement /\ w.synced = v.synced /\ w.terms = v.terms
      /\ w.inseq = v.inseq /\ w.bound = v.bound /\ w.permit = v.permit /\ w.invited = v.invited
    BY <1>1 DEF View
<1> QED
    BY <1>2 DEF v, w, Keeps

\* The types of what a transaction reads and does not write.
LEMMA EnvFacts ==
    ASSUME CollInv
    PROVE  /\ plan \in Plans /\ plan.versions \in Nat /\ plan.permit \in Nat /\ MaxSeq \in Nat
           /\ own \in [Side -> Seq(Event)]
           /\ \A s \in Side : /\ Len(own[s]) \in 0..MaxSeq
                              /\ DOMAIN own[s] = 1..Len(own[s]) /\ DOMAIN own[s] \subseteq 1..MaxSeq
                              /\ \A n \in DOMAIN own[s] : own[s][n] \in Event
                              /\ view[s] \in View
<1>1. /\ own \in [Side -> Seq(Event)] /\ ops \in [Side -> Seq(Operation)] /\ view \in [Side -> View]
      /\ plan \in Plans
      /\ \A s \in Side : Len(own[s]) + Len(ops[s]) <= MaxSeq
    BY DEF CollInv, TypeOK
<1>2. ASSUME NEW s \in Side PROVE /\ Len(own[s]) \in 0..MaxSeq /\ own[s] \in Seq(Event) /\ view[s] \in View
    <2>1. own[s] \in Seq(Event) /\ ops[s] \in Seq(Operation) /\ Len(own[s]) + Len(ops[s]) <= MaxSeq
        BY <1>1
    <2>2. Len(own[s]) \in Nat /\ Len(ops[s]) \in Nat
        BY <2>1
    <2> QED
        BY <1>1, <2>1, <2>2, CollaborationAssumption
<1>3. ASSUME NEW s \in Side
      PROVE  /\ DOMAIN own[s] = 1..Len(own[s]) /\ DOMAIN own[s] \subseteq 1..MaxSeq
             /\ \A n \in DOMAIN own[s] : own[s][n] \in Event
    BY <1>2, CollaborationAssumption
<1> QED
    BY <1>1, <1>2, <1>3, PlanFacts, CollaborationAssumption

\* A transaction may record an acceptance that an event grounds, or end one.
LEMMA Acceptances ==
    ASSUME CollInv, NEW s \in Side, NEW d, NEW sender \in Side, NEW n \in 1..MaxSeq,
           TxInv(s, d, <<sender, n>>), NEW a \in Acceptance, NEW e,
           e = AcceptedBy(d, sender, a),
           Grounded(s, d, sender, n, a)
    PROVE  TxInv(s, e, <<sender, n>>) /\ Keeps(d, e)
           /\ e.v.acc[sender] = a /\ e.v.agreement = d.v.agreement
<1> DEFINE now == <<sender, n>>
<1>1. d \in Tx /\ d.v \in View /\ d.v.acc \in [Side -> Acceptance]
    BY DEF TxInv, Tx, View
<1>2. /\ e.v = [d.v EXCEPT !.acc[sender] = a] /\ e.inb = d.inb /\ e.rev = d.rev /\ e.stop = d.stop
      /\ e.mo = d.mo
    BY <1>1 DEF Tx, AcceptedBy
<1>3. /\ e.v \in View /\ e.v.acc = [d.v.acc EXCEPT ![sender] = a] /\ e.v.agreement = d.v.agreement
      /\ e.v.synced = d.v.synced /\ e.v.inseq = d.v.inseq /\ e.v.bound = d.v.bound
      /\ e.v.permit = d.v.permit /\ e.v.invited = d.v.invited
    BY <1>1, <1>2 DEF View
<1>4. e \in Tx
    BY <1>1, <1>2, <1>3 DEF Tx, AcceptedBy
<1>5. AcceptancesInv(s, e, now)
    <2> SUFFICES ASSUME NEW x \in Side, e.v.acc[x].n # 0
                 PROVE  Accepting(x, e.v.acc[x].n, e.v.acc[x].terms) /\ Done(s, e, now, x, e.v.acc[x].n)
        BY DEF AcceptancesInv
    <2>1. CASE x # sender
        BY <1>1, <1>2, <1>3, <2>1 DEF TxInv, AcceptancesInv, Done
    <2>2. CASE x = sender
        BY <1>1, <1>2, <1>3, <2>2 DEF TxInv, AcceptancesInv, Done, Grounded
    <2> QED
        BY <2>1, <2>2
<1>6. WithdrawnInv(s, e)
    <2> SUFFICES ASSUME s = A, NEW w \in 1..MaxSeq, d.inb[w] = "applied", own[B][w].kind = "withdraw"
                 PROVE  \E k \in 1..MaxSeq :
                           /\ own[B][w].ref = <<k>> /\ d.inb[k] = "applied"
                           /\ d.v.agreement = <<>> => ~(e.v.acc[B].n = k /\ e.v.acc[B].active)
        BY <1>2, <1>3 DEF WithdrawnInv
    <2>1. PICK k \in 1..MaxSeq :
             /\ own[B][w].ref = <<k>> /\ d.inb[k] = "applied"
             /\ d.v.agreement = <<>> => ~(d.v.acc[B].n = k /\ d.v.acc[B].active)
        BY DEF TxInv, WithdrawnInv
    <2>2. CASE sender # B
        BY <1>1, <1>3, <2>1, <2>2, Sides
    <2>3. CASE sender = B
        <3>1. e.v.acc[B] = a
            BY <1>1, <1>3, <2>3
        <3>2. ~(a.n = k /\ a.active)
            BY <2>1, <2>3, Sides DEF Grounded
        <3> QED
            BY <2>1, <3>1, <3>2
    <2> QED
        BY <2>2, <2>3
<1>7. Arrived(s, e) /\ Vetted(s, e) /\ SyncedInv(s, e) /\ HonoursInv(s, e) /\ Grown(s, e)
    BY <1>2, <1>3 DEF TxInv, Arrived, Vetted, SyncedInv, HonoursInv, Grown
<1>8. Truthful(s, e)
    BY <1>2, <1>3 DEF TxInv, Truthful, Says
<1>9. AgreedInv(s, e, now)
    BY <1>2, <1>3 DEF TxInv, AgreedInv, Evidence, Done
<1>10. e.v.acc[sender] = a
    BY <1>1, <1>3
<1> QED
    BY <1>2, <1>3, <1>4, <1>5, <1>6, <1>7, <1>8, <1>9, <1>10 DEF TxInv, Keeps

\* A transaction may record the agreement g if g has its evidence (the initiator)
\* or is the initiator's (the peer), and nothing else is recorded.
LEMMA Agreeing ==
    ASSUME CollInv, NEW s \in Side, NEW d, NEW now, TxInv(s, d, now), NEW g \in Ref, g # <<>>,
           d.v.agreement = <<>> \/ d.v.agreement = g,
           s = A => Evidence(A, d, now, g), s = B => g = view[A].agreement,
           s = A /\ view[A].agreement = <<>> => Unwithdrawn(g),
           NEW e, e = AgreedTo(d, g)
    PROVE  TxInv(s, e, now) /\ Keeps(d, e) /\ e.v.agreement = g
<1>1. d \in Tx /\ d.v \in View
    BY DEF TxInv, Tx
<1>2. /\ e.v = [d.v EXCEPT !.agreement = g, !.held = FALSE] /\ e.inb = d.inb /\ e.rev = d.rev
      /\ e.stop = d.stop /\ e.mo = d.mo
    BY <1>1 DEF Tx, AgreedTo
<1>3. /\ e.v \in View /\ e.v.acc = d.v.acc /\ e.v.agreement = g
      /\ e.v.synced = d.v.synced /\ e.v.inseq = d.v.inseq /\ e.v.bound = d.v.bound
      /\ e.v.permit = d.v.permit /\ e.v.invited = d.v.invited
    <2> DEFINE v == d.v
               w == e.v
    <2>1. v \in View /\ w = [v EXCEPT !.agreement = g, !.held = FALSE]
        BY <1>1, <1>2
    <2> HIDE DEF v, w
    <2>2. /\ w \in View /\ w.acc = v.acc /\ w.agreement = g /\ w.synced = v.synced
          /\ w.inseq = v.inseq /\ w.bound = v.bound /\ w.permit = v.permit /\ w.invited = v.invited
        BY <2>1, ViewAgreed
    <2> QED
        BY <2>2 DEF v, w
<1>4. e \in Tx
    BY <1>1, <1>2, <1>3 DEF Tx, AgreedTo
<1>5. Truthful(s, e)
    BY <1>2, <1>3 DEF TxInv, Truthful, Says
<1>6. AgreedInv(s, e, now)
    <2>1. s = A => Evidence(s, e, now, g)
        BY <1>2 DEF Evidence, Done
    <2>2. view[s].agreement # <<>> => g = view[s].agreement
        BY DEF TxInv, AgreedInv
    <2> QED
        BY <1>3, <2>1, <2>2, Sides DEF AgreedInv
<1>7. SyncedInv(s, e)
    BY <1>2, <1>3 DEF TxInv, SyncedInv
<1>8. WithdrawnInv(s, e)
    BY <1>2, <1>3 DEF TxInv, WithdrawnInv
<1>9. HonoursInv(s, e)
    BY <1>3 DEF HonoursInv
<1>10. Arrived(s, e) /\ Vetted(s, e) /\ AcceptancesInv(s, e, now) /\ Grown(s, e)
    BY <1>2, <1>3 DEF TxInv, Arrived, Vetted, AcceptancesInv, Done, Grown
<1> QED
    BY <1>2, <1>3, <1>4, <1>5, <1>6, <1>7, <1>8, <1>9, <1>10 DEF TxInv, Keeps

\* A transaction may call the agreement synchronized if the other side is as far.
LEMMA Synchronizing ==
    ASSUME CollInv, NEW s \in Side, NEW d, NEW now, TxInv(s, d, now),
           d.v.agreement # <<>>, s = A => view[B].agreement = d.v.agreement, s = B => view[A].synced,
           NEW e, e = SyncedIn(d)
    PROVE  TxInv(s, e, now) /\ Keeps(d, e) /\ e.v.synced
<1>1. d \in Tx /\ d.v \in View
    BY DEF TxInv, Tx
<1>2. /\ e.v = [d.v EXCEPT !.synced = TRUE, !.closure = "complete", !.held = FALSE]
      /\ e.inb = d.inb /\ e.rev = d.rev /\ e.stop = d.stop /\ e.mo = d.mo
    BY <1>1 DEF Tx, SyncedIn
<1>3. /\ e.v \in View /\ e.v.acc = d.v.acc /\ e.v.agreement = d.v.agreement
      /\ e.v.synced /\ e.v.inseq = d.v.inseq /\ e.v.bound = d.v.bound
      /\ e.v.permit = d.v.permit /\ e.v.invited = d.v.invited
    <2> DEFINE v == d.v
               w == e.v
    <2>1. v \in View /\ w = [v EXCEPT !.synced = TRUE, !.closure = "complete", !.held = FALSE]
        BY <1>1, <1>2
    <2> HIDE DEF v, w
    <2>2. /\ w \in View /\ w.acc = v.acc /\ w.agreement = v.agreement /\ w.synced
          /\ w.inseq = v.inseq /\ w.bound = v.bound /\ w.permit = v.permit /\ w.invited = v.invited
        BY <2>1, ViewSynced
    <2> QED
        BY <2>2 DEF v, w
<1>4. e \in Tx
    BY <1>1, <1>2, <1>3 DEF Tx, SyncedIn
<1>5. SyncedInv(s, e)
    BY <1>2, <1>3, Sides DEF SyncedInv
<1> DEFINE v == d.v
           w == e.v
<1>6. /\ w.acc = v.acc /\ w.agreement = v.agreement /\ e.inb = d.inb /\ e.rev = d.rev
      /\ e.mo = d.mo
    BY <1>2, <1>3
<1>7. Arrived(s, e) /\ Vetted(s, e) /\ Grown(s, e)
    BY <1>6 DEF TxInv, Arrived, Vetted, Grown
<1>8. AcceptancesInv(s, e, now)
    BY <1>6 DEF TxInv, AcceptancesInv, Done
<1>9. Truthful(s, e)
    BY <1>6 DEF TxInv, Truthful, Says
<1>10. WithdrawnInv(s, e) /\ HonoursInv(s, e)
    BY <1>6 DEF TxInv, WithdrawnInv, HonoursInv
<1>11. AgreedInv(s, e, now)
    BY <1>6 DEF TxInv, AgreedInv, Evidence, Done
<1> QED
    BY <1>2, <1>3, <1>4, <1>5, <1>7, <1>8, <1>9, <1>10, <1>11 DEF TxInv, Keeps

\* A reference to five numbers: what a formation decides.
LEMMA Five ==
    ASSUME NEW a \in Nat, NEW b \in Nat, NEW c \in Nat, NEW i \in Nat, NEW j \in Nat
    PROVE  <<a, b, c, i, j>> \in Ref /\ <<a, b, c, i, j>> # <<>>
BY DEF Ref

\* _v2_form: what the initiator decides rests on the two active acceptances, and
\* cites none whose withdrawal it has applied.
LEMMA Forming ==
    ASSUME CollInv, NEW s \in Side, NEW d, NEW now, TxInv(s, d, now)
    PROVE  TxInv(s, Form(s, d), now) /\ Keeps(d, Form(s, d))
<1> DEFINE v == d.v
           g == <<v.terms, v.acc[A].n, v.acc[B].n, Len(own[A]), v.inseq>>
           e == [d EXCEPT !.v.agreement = g, !.v.held = FALSE]
<1>0. d \in Tx /\ d.v \in View
    BY DEF TxInv, Tx
<1>1. CASE Form(s, d) = d
    BY <1>1 DEF Keeps
<1>2. CASE Form(s, d) # d
    <2>1. /\ s = A /\ v.agreement = <<>> /\ v.terms # 0
          /\ \A x \in Side : v.acc[x].n # 0 /\ v.acc[x].active /\ v.acc[x].terms = v.terms
          /\ Form(s, d) = Queue(e, "agreement", g)
        BY <1>2, FormIs DEF Formed
    <2>2. /\ Accepting(A, v.acc[A].n, v.terms) /\ Done(s, d, now, A, v.acc[A].n)
          /\ Accepting(B, v.acc[B].n, v.terms) /\ Done(s, d, now, B, v.acc[B].n)
        BY <2>1, Sides DEF TxInv, AcceptancesInv
    <2>3. /\ v.terms \in 1..plan.versions /\ v.acc[A].n \in 1..MaxSeq /\ v.acc[B].n \in 1..MaxSeq
          /\ Len(own[A]) \in 0..MaxSeq /\ v.inseq \in 0..MaxSeq
        <3>1. v.terms \in 0..plan.versions /\ v.inseq \in 0..MaxSeq
            BY <1>0 DEF View
        <3>2. v.acc[A].n \in DOMAIN own[A] /\ v.acc[B].n \in DOMAIN own[B]
            BY <2>2 DEF Accepting
        <3>3. DOMAIN own[A] \subseteq 1..MaxSeq /\ DOMAIN own[B] \subseteq 1..MaxSeq
              /\ Len(own[A]) \in 0..MaxSeq /\ plan.versions \in Nat
            BY EnvFacts, Sides
        <3>4. v.terms # 0
            BY <2>1
        <3> HIDE DEF v
        <3> QED
            BY <3>1, <3>2, <3>3, <3>4
    <2>4. Evidence(A, d, now, g)
        BY <2>1, <2>2, <2>3 DEF Evidence
    <2>5. g \in Ref /\ g # <<>>
        <3>1. /\ v.terms \in Nat /\ v.acc[A].n \in Nat /\ v.acc[B].n \in Nat
              /\ Len(own[A]) \in Nat /\ v.inseq \in Nat
            <4>1. MaxSeq \in Nat /\ plan.versions \in Nat
                BY EnvFacts
            <4> HIDE DEF v, g, e
            <4> QED
                BY <2>3, <4>1
        <3> HIDE DEF v
        <3> QED
            BY <3>1, Five
    <2>6. Unwithdrawn(g)
        <3> SUFFICES ASSUME NEW w \in 1..MaxSeq, inb[A][w] = "applied", own[B][w].kind = "withdraw",
                            own[B][w].ref = <<v.acc[B].n>>
                     PROVE  FALSE
            BY DEF Unwithdrawn
        <3>1. d.inb[w] = "applied"
            BY <2>1 DEF TxInv, Grown
        <3>2. PICK k \in 1..MaxSeq : own[B][w].ref = <<k>> /\ ~(v.acc[B].n = k /\ v.acc[B].active)
            BY <2>1, <3>1 DEF TxInv, WithdrawnInv
        <3>3. k = v.acc[B].n
            BY <3>2
        <3> QED
            BY <2>1, <3>2, <3>3, Sides
    <2> HIDE DEF g
    <2>0. e = AgreedTo(d, g)
        BY DEF AgreedTo
    <2> HIDE DEF e
    <2>7. TxInv(s, e, now) /\ Keeps(d, e) /\ e.v.agreement = g
        <3>1. d.v.agreement = <<>> /\ s = A /\ s # B
            BY <2>1, Sides
        <3> HIDE DEF v
        <3> QED
            BY <2>0, <2>4, <2>5, <2>6, <3>1, Agreeing
    <2>8. Says(s, e, [kind |-> "agreement", ref |-> g, st |-> "ready"])
        BY <2>1, <2>5, <2>7 DEF Says
    <2>9. /\ TxInv(s, Queue(e, "agreement", g), now)
          /\ Queue(e, "agreement", g).inb = e.inb /\ Queue(e, "agreement", g).rev = e.rev
          /\ Queue(e, "agreement", g).stop = e.stop
          /\ Queue(e, "agreement", g).v = [e.v EXCEPT !.held = Queue(e, "agreement", g).v.held]
        BY <2>5, <2>7, <2>8, QueueTx, EnvFacts DEF Maintenance
    <2> DEFINE q == Queue(e, "agreement", g)
    <2> HIDE DEF q
    <2>10. q.v = [e.v EXCEPT !.held = q.v.held] /\ q.inb = e.inb /\ q.rev = e.rev /\ q.stop = e.stop
        BY <2>9 DEF q
    <2>11. Keeps(e, q)
        <3>1. e \in Tx
            BY <2>7 DEF TxInv
        <3> QED
            BY <2>10, <3>1, Held
    <2>12. Form(s, d) = q /\ TxInv(s, q, now)
        BY <2>1, <2>9 DEF q
    <2>13. Keeps(d, q)
        BY <2>7, <2>11 DEF Keeps
    <2> QED
        BY <2>12, <2>13
<1> QED
    BY <1>1, <1>2

\* What of d the invariant speaks of.
Same(d, e) ==
    /\ Keeps(d, e) /\ e.mo = d.mo /\ e.v.acc = d.v.acc /\ e.v.agreement = d.v.agreement
    /\ e.v.synced = d.v.synced

\* The marks of the record that the invariant does not look at.
LEMMA Marks ==
    ASSUME NEW d \in Tx, NEW x \in BOOLEAN, NEW c \in {<<>>, <<A>>, <<B>>},
           NEW z \in {"none", "complete", "cancelled"}
    PROVE  /\ [d EXCEPT !.v.joined = x] \in Tx /\ Same(d, [d EXCEPT !.v.joined = x])
           /\ [d EXCEPT !.v.held = x] \in Tx /\ Same(d, [d EXCEPT !.v.held = x])
           /\ [d EXCEPT !.v.withdrawing = x, !.v.held = FALSE] \in Tx
           /\ Same(d, [d EXCEPT !.v.withdrawing = x, !.v.held = FALSE])
           /\ [d EXCEPT !.v.cancel = c, !.v.held = FALSE] \in Tx
           /\ Same(d, [d EXCEPT !.v.cancel = c, !.v.held = FALSE])
           /\ [d EXCEPT !.v.closure = z, !.v.held = FALSE] \in Tx
           /\ Same(d, [d EXCEPT !.v.closure = z, !.v.held = FALSE])
<1>1. d.v \in View
    BY DEF Tx
<1> DEFINE v == d.v
           j == [v EXCEPT !.joined = x]
           h == [v EXCEPT !.held = x]
           w == [v EXCEPT !.withdrawing = x, !.held = FALSE]
           k == [v EXCEPT !.cancel = c, !.held = FALSE]
           l == [v EXCEPT !.closure = z, !.held = FALSE]
           Like(u) == /\ u \in View /\ u.acc = v.acc /\ u.agreement = v.agreement
                      /\ u.synced = v.synced /\ u.inseq = v.inseq /\ u.bound = v.bound
                      /\ u.permit = v.permit /\ u.invited = v.invited
<1>2. ASSUME NEW u, Like(u)
      PROVE  [d EXCEPT !.v = u] \in Tx /\ Same(d, [d EXCEPT !.v = u])
    BY <1>2 DEF Tx, Same, Keeps
<1>3. Like(j) /\ Like(h)
    <2>1. j \in View /\ h \in View
        BY <1>1, ViewSets
    <2> QED
        BY <1>1, <2>1 DEF View
<1>4. Like(w) /\ Like(k) /\ Like(l)
    <2>1. /\ [v EXCEPT !.withdrawing = x] \in View /\ [v EXCEPT !.cancel = c] \in View
          /\ [v EXCEPT !.closure = z] \in View
        BY <1>1, ViewSets
    <2>2. /\ [[v EXCEPT !.withdrawing = x] EXCEPT !.held = FALSE] \in View
          /\ [[v EXCEPT !.cancel = c] EXCEPT !.held = FALSE] \in View
          /\ [[v EXCEPT !.closure = z] EXCEPT !.held = FALSE] \in View
        BY <2>1, ViewSets
    <2> QED
        BY <1>1, <2>2 DEF View
<1>5. /\ [d EXCEPT !.v = j] \in Tx /\ Same(d, [d EXCEPT !.v = j])
      /\ [d EXCEPT !.v = h] \in Tx /\ Same(d, [d EXCEPT !.v = h])
      /\ [d EXCEPT !.v = w] \in Tx /\ Same(d, [d EXCEPT !.v = w])
      /\ [d EXCEPT !.v = k] \in Tx /\ Same(d, [d EXCEPT !.v = k])
      /\ [d EXCEPT !.v = l] \in Tx /\ Same(d, [d EXCEPT !.v = l])
    <2> HIDE DEF j, h, w, k, l
    <2> QED
        BY <1>2, <1>3, <1>4
<1>6. /\ [d EXCEPT !.v = j] = [d EXCEPT !.v.joined = x] /\ [d EXCEPT !.v = h] = [d EXCEPT !.v.held = x]
      /\ [d EXCEPT !.v = w] = [d EXCEPT !.v.withdrawing = x, !.v.held = FALSE]
      /\ [d EXCEPT !.v = k] = [d EXCEPT !.v.cancel = c, !.v.held = FALSE]
      /\ [d EXCEPT !.v = l] = [d EXCEPT !.v.closure = z, !.v.held = FALSE]
    BY DEF Tx
<1> QED
    BY <1>5, <1>6

\* A transaction that differs in those marks alone keeps the invariant.
LEMMA SameTx ==
    ASSUME NEW s \in Side, NEW d, NEW now, TxInv(s, d, now), NEW e \in Tx, Same(d, e)
    PROVE  TxInv(s, e, now) /\ Keeps(d, e)
BY Frame DEF Same, Keeps

\* What queuing a true maintenance event leaves alone.
LEMMA Queueing ==
    ASSUME CollInv, NEW s \in Side, NEW d, NEW now, TxInv(s, d, now),
           NEW kind \in Maintenance, NEW ref \in Ref,
           Says(s, d, [kind |-> kind, ref |-> ref, st |-> "ready"])
    PROVE  /\ TxInv(s, Queue(d, kind, ref), now) /\ Keeps(d, Queue(d, kind, ref))
           /\ Queue(d, kind, ref).v.acc = d.v.acc
           /\ Queue(d, kind, ref).v.agreement = d.v.agreement
           /\ Queue(d, kind, ref).v.synced = d.v.synced
<1> DEFINE q == Queue(d, kind, ref)
<1>1. /\ TxInv(s, q, now) /\ q.inb = d.inb /\ q.rev = d.rev /\ q.stop = d.stop
      /\ q.v = [d.v EXCEPT !.held = q.v.held]
    BY QueueTx, EnvFacts
<1>2. d \in Tx
    BY DEF TxInv
<1> HIDE DEF q
<1> QED
    BY <1>1, <1>2, Held DEF q

-----------------------------------------------------------------------------
(* The reducer, one event kind at a time.                                   *)

\* Side s reduces event n of sender, its own or the peer's, in the transaction d.
Handling(s, d, sender, n, e, outgoing) ==
    /\ CollInv /\ s \in Side /\ sender \in Side /\ n \in DOMAIN own[sender] /\ e = own[sender][n]
    /\ outgoing \in BOOLEAN /\ (outgoing <=> sender = s)
    /\ TxInv(s, d, <<sender, n>>)
    /\ ~outgoing => d.inb[n] # "applied"
Handled(s, d, sender, n, f) == TxInv(s, f, <<sender, n>>) /\ Keeps(d, f)
\* What a reduced event of the peer must leave behind at the initiator.
Noted(s, d, sender, e) ==
    s = A /\ sender = B =>
      /\ e.kind = "agreement_ack" => d.v.synced
      /\ e.kind = "withdraw" => \E k \in 1..MaxSeq :
           /\ e.ref = <<k>> /\ d.inb[k] = "applied"
           /\ d.v.agreement = <<>> => ~(d.v.acc[B].n = k /\ d.v.acc[B].active)

\* What the reducer may rely on when it is given an event.
LEMMA HandlingFacts ==
    ASSUME NEW s, NEW d, NEW sender, NEW n, NEW e, NEW outgoing,
           Handling(s, d, sender, n, e, outgoing)
    PROVE  /\ s \in Side /\ sender \in Side /\ n \in 1..MaxSeq /\ e \in Event /\ e.ref \in Ref
           /\ Shape(sender, e) /\ e = own[sender][n] /\ n \in DOMAIN own[sender]
           /\ Says(sender, Opened(sender), e) /\ (outgoing => Says(s, d, e))
           /\ outgoing \in BOOLEAN /\ (outgoing => sender = s) /\ (~outgoing => sender = Peer(s))
           /\ TxInv(s, d, <<sender, n>>) /\ d \in Tx
           /\ ~outgoing => d.inb[n] # "applied"
           /\ CollInv
<1>1. /\ CollInv /\ s \in Side /\ sender \in Side /\ n \in DOMAIN own[sender] /\ e = own[sender][n]
      /\ outgoing \in BOOLEAN /\ (outgoing <=> sender = s)
      /\ TxInv(s, d, <<sender, n>>)
      /\ ~outgoing => d.inb[n] # "applied"
    BY DEF Handling
<1>2. n \in 1..MaxSeq /\ e \in Event
    BY <1>1, EnvFacts
<1>3. e.ref \in Ref
    BY <1>2 DEF Event
<1>4. Shape(sender, e)
    BY <1>1 DEF CollInv, Shapes
<1>5. TxInv(sender, Opened(sender), <<sender, 0>>)
    BY <1>1 DEF CollInv, SidesInv
<1>6. Says(sender, Opened(sender), e) /\ (outgoing => Says(s, d, e))
    BY <1>1, <1>5 DEF TxInv, Truthful
<1>7. ~outgoing => sender = Peer(s)
    BY <1>1, Sides
<1>8. d \in Tx
    BY <1>1 DEF TxInv
<1> QED
    BY <1>1, <1>2, <1>3, <1>4, <1>6, <1>7, <1>8

\* The three results of the reducer.
LEMMA Results ==
    ASSUME NEW d
    PROVE  Ok(d).res = "ok" /\ Ok(d).d = d /\ Bad(d).res = "bad" /\ Wait(d).res = "wait"
BY DEF Ok, Bad, Wait

\* An event that sets only marks is handled.
LEMMA SameHandled ==
    ASSUME NEW s, NEW d, NEW sender, NEW n, NEW e, NEW outgoing,
           Handling(s, d, sender, n, e, outgoing), NEW f \in Tx, Same(d, f)
    PROVE  Handled(s, d, sender, n, f)
<1>1. s \in Side /\ TxInv(s, d, <<sender, n>>)
    BY HandlingFacts
<1> QED
    BY <1>1, SameTx DEF Handled

\* A join keeps the invariant.
LEMMA OnJoinHandled ==
    ASSUME NEW s, NEW d, NEW sender, NEW n, NEW e, NEW outgoing,
           Handling(s, d, sender, n, e, outgoing), OnJoin(d, sender).res = "ok"
    PROVE  Handled(s, d, sender, n, OnJoin(d, sender).d)
<1> DEFINE f == [d EXCEPT !.v.joined = TRUE]
<1>1. OnJoin(d, sender).d = f
    BY DEF OnJoin, Ok, Bad
<1>2. f \in Tx /\ Same(d, f)
    BY HandlingFacts, Marks
<1> HIDE DEF f
<1> QED
    BY <1>1, <1>2, SameHandled

\* A request to cancel and its answer keep the invariant.
LEMMA OnCancelHandled ==
    ASSUME NEW s, NEW d, NEW sender, NEW n, NEW e, NEW outgoing, NEW kind,
           Handling(s, d, sender, n, e, outgoing), OnCancel(d, kind, sender, e.ref).res = "ok"
    PROVE  Handled(s, d, sender, n, OnCancel(d, kind, sender, e.ref).d)
<1> DEFINE f == [d EXCEPT !.v.cancel = <<sender>>, !.v.held = FALSE]
           g == [d EXCEPT !.v.closure = "cancelled", !.v.held = FALSE]
           o == OnCancel(d, kind, sender, e.ref)
<1>0. d \in Tx /\ sender \in Side
    BY HandlingFacts
<1>1. o \in {Bad(d), Ok(f), Ok(g)}
    BY DEF OnCancel
<1>2. <<sender>> \in {<<>>, <<A>>, <<B>>}
    BY <1>0 DEF Side
<1>3. f \in Tx /\ Same(d, f)
    BY <1>0, <1>2, Marks
<1>4. g \in Tx /\ Same(d, g)
    BY <1>0, Marks
<1> HIDE DEF f, g
<1>5. o = Ok(f) \/ o = Ok(g)
    BY <1>1, Results
<1>6. Handled(s, d, sender, n, f) /\ Handled(s, d, sender, n, g)
    BY <1>3, <1>4, SameHandled
<1> QED
    BY <1>5, <1>6, Results

\* The acknowledgment: the peer sent it after it recorded the agreement, so the
\* initiator may call it synchronized.
LEMMA OnAgreementAckHandled ==
    ASSUME NEW s, NEW d, NEW sender, NEW n, NEW e, NEW outgoing,
           Handling(s, d, sender, n, e, outgoing), e.kind = "agreement_ack",
           ~outgoing => sender # A, OnAgreementAck(d, e.ref, outgoing).res = "ok"
    PROVE  /\ Handled(s, d, sender, n, OnAgreementAck(d, e.ref, outgoing).d)
           /\ ~outgoing => OnAgreementAck(d, e.ref, outgoing).d.v.synced
<1> DEFINE f == [d EXCEPT !.v.held = FALSE]
           g == SyncedIn(d)
           o == OnAgreementAck(d, e.ref, outgoing)
<1>0. d \in Tx /\ sender \in Side /\ s \in Side /\ CollInv /\ outgoing \in BOOLEAN
      /\ TxInv(s, d, <<sender, n>>) /\ (~outgoing => sender = Peer(s))
      /\ Says(sender, Opened(sender), e)
    BY HandlingFacts
<1>1. d.v.agreement # <<>> /\ d.v.agreement = e.ref /\ o = Ok(IF outgoing THEN f ELSE g)
    <2>1. o.res # "ok" \/ (d.v.agreement # <<>> /\ d.v.agreement = e.ref
                          /\ o = IF outgoing THEN Ok(f) ELSE Ok(g))
        BY Results DEF OnAgreementAck, SyncedIn
    <2> HIDE DEF f, g
    <2> QED
        BY <1>0, <2>1
<1>2. CASE outgoing
    <2>1. f \in Tx /\ Same(d, f)
        BY <1>0, Marks
    <2> HIDE DEF f, g
    <2>2. o.d = f
        BY <1>1, <1>2, Results
    <2> QED
        BY <1>2, <2>1, <2>2, SameHandled
<1>3. CASE ~outgoing
    <2>1. s = A /\ sender = B
        BY <1>0, <1>3, Sides
    <2>2. view[B].agreement = d.v.agreement
        BY <1>0, <1>1, <2>1 DEF Says, Opened
    <2> HIDE DEF f, g
    <2>3. g = SyncedIn(d)
        BY DEF g
    <2>4. s # B
        BY <2>1, Sides
    <2>5. TxInv(s, g, <<sender, n>>) /\ Keeps(d, g) /\ g.v.synced
        BY <1>0, <1>1, <2>1, <2>2, <2>3, <2>4, Synchronizing
    <2>6. o.d = g
        BY <1>1, <1>3, Results
    <2> QED
        BY <1>3, <2>5, <2>6 DEF Handled
<1> QED
    BY <1>0, <1>2, <1>3

\* A receipt: that the acknowledgment was applied at the initiator means that the
\* initiator calls the agreement synchronized.
LEMMA OnReceiptHandled ==
    ASSUME NEW s, NEW d, NEW sender, NEW n, NEW e, NEW outgoing,
           Handling(s, d, sender, n, e, outgoing), e.kind = "receipt",
           OnReceipt(s, d, e.ref, outgoing).res = "ok"
    PROVE  Handled(s, d, sender, n, OnReceipt(s, d, e.ref, outgoing).d)
<1> DEFINE f == [d EXCEPT !.v.withdrawing = FALSE, !.v.held = FALSE]
           g == SyncedIn(d)
           o == OnReceipt(s, d, e.ref, outgoing).d
<1>1. CASE o = d
    BY <1>1, HandlingFacts DEF Handled, Keeps
<1>2. CASE o = f
    <2>1. f \in Tx /\ Same(d, f)
        BY HandlingFacts, Marks
    <2> HIDE DEF f, o
    <2> QED
        BY <1>2, <2>1, SameHandled DEF o
<1>3. CASE ~outgoing /\ e.ref[1] \in DOMAIN own[s] /\ own[s][e.ref[1]].kind = "agreement_ack"
           /\ e.ref[2] = 1 /\ o = g
    <2>0. /\ sender = Peer(s) /\ e.ref \in Ref /\ CollInv /\ TxInv(s, d, <<sender, n>>)
          /\ s \in Side /\ Says(Peer(s), Opened(Peer(s)), e)
        BY <1>3, HandlingFacts
    <2> DEFINE k == e.ref[1]
    <2>1. inb[Peer(s)][k] = "applied"
        <3> DEFINE q == Opened(Peer(s))
        <3>0. q.inb = inb[Peer(s)]
            BY DEF Opened
        <3> HIDE DEF q
        <3>1. PICK m \in 1..MaxSeq, b \in {0, 1} :
                 e.ref = <<m, b>> /\ (b = 1 => q.inb[m] = "applied")
            <4>1. Says(Peer(s), q, e)
                BY <2>0 DEF q
            <4> QED
                BY <4>1 DEF Says
        <3> QED
            BY <1>3, <3>0, <3>1
    <2>2. Says(s, d, own[s][k])
        BY <1>3, HandlingFacts DEF TxInv, Truthful
    <2>3. s = B /\ d.v.agreement # <<>>
        BY <1>3, <2>2 DEF Says
    <2>4. k \in 1..MaxSeq
        BY <1>3, <2>0, <2>3, EnvFacts, Sides
    <2>5. SyncedInv(A, Opened(A))
        BY <2>0, Sides DEF CollInv, SidesInv, TxInv
    <2>6. view[A].synced
        BY <1>3, <2>1, <2>3, <2>4, <2>5, Sides DEF SyncedInv, Opened
    <2> HIDE DEF g, o
    <2>8. g = SyncedIn(d) /\ s # A
        BY <2>3, Sides DEF g
    <2>7. TxInv(s, g, <<sender, n>>) /\ Keeps(d, g)
        BY <2>0, <2>3, <2>6, <2>8, Synchronizing
    <2> QED
        BY <1>3, <2>7 DEF Handled, o
<1>4. \/ o = d \/ o = f
      \/ ~outgoing /\ e.ref[1] \in DOMAIN own[s] /\ own[s][e.ref[1]].kind = "agreement_ack"
         /\ e.ref[2] = 1 /\ o = g
    BY HandlingFacts DEF OnReceipt, Ok, Bad, SyncedIn
<1> HIDE DEF f, g, o
<1> QED
    BY <1>1, <1>2, <1>3, <1>4 DEF o

\* A proposal forgets the acceptances of the terms before it.
LEMMA OnProposalHandled ==
    ASSUME NEW s, NEW d, NEW sender, NEW n, NEW e, NEW outgoing,
           Handling(s, d, sender, n, e, outgoing), e.kind = "proposal", d.v.agreement = <<>>
    PROVE  Handled(s, d, sender, n, OnProposal(d, e.ref).d)
<1> DEFINE v == d.v
           none == [x \in Side |-> NoAcceptance]
           w == [v EXCEPT !.terms = e.ref[1], !.withdrawing = FALSE, !.acc = none]
           f == [d EXCEPT !.v = w]
           now == <<sender, n>>
<1>0. d \in Tx /\ s \in Side /\ CollInv /\ TxInv(s, d, now) /\ Shape(sender, e)
    BY HandlingFacts
<1>1. v \in View
    BY <1>0 DEF Tx
<1>2. e.ref[1] \in 0..plan.versions
    <2>1. PICK t \in 1..plan.versions : e.ref = <<t>>
        BY <1>0 DEF Shape
    <2> QED
        BY <1>0, <2>1, EnvFacts
<1>3. none \in [Side -> Acceptance]
    BY <1>0, EnvFacts DEF NoAcceptance, Acceptance
<1>4. w \in View
    <2> HIDE DEF none
    <2>1. [v EXCEPT !.terms = e.ref[1]] \in View
        BY <1>1, <1>2, ViewSets
    <2>2. [[v EXCEPT !.terms = e.ref[1]] EXCEPT !.withdrawing = FALSE] \in View
        BY <2>1, ViewSets
    <2>3. [[[v EXCEPT !.terms = e.ref[1]] EXCEPT !.withdrawing = FALSE] EXCEPT !.acc = none] \in View
        BY <1>3, <2>2, ViewSets
    <2> QED
        BY <1>1, <2>3 DEF View
<1>5. /\ w.acc = none /\ w.agreement = v.agreement /\ w.synced = v.synced
      /\ w.inseq = v.inseq /\ w.bound = v.bound /\ w.permit = v.permit /\ w.invited = v.invited
    BY <1>1 DEF View
<1>6. OnProposal(d, e.ref).d = f
    BY <1>0 DEF OnProposal, Ok, Tx
<1>7. /\ f \in Tx /\ f.v = w /\ f.inb = d.inb /\ f.rev = d.rev /\ f.stop = d.stop /\ f.mo = d.mo
    <2> HIDE DEF w
    <2> QED
        BY <1>0, <1>4 DEF Tx
<1>8. \A x \in Side : none[x].n = 0 /\ ~none[x].active
    BY DEF NoAcceptance
<1> HIDE DEF f, w, none, v
<1>9. AcceptancesInv(s, f, now)
    BY <1>5, <1>7, <1>8 DEF AcceptancesInv
<1>10. WithdrawnInv(s, f)
    BY <1>0, <1>5, <1>7, <1>8, Sides DEF TxInv, WithdrawnInv
<1>11. Arrived(s, f) /\ Vetted(s, f) /\ SyncedInv(s, f) /\ HonoursInv(s, f) /\ Grown(s, f)
    BY <1>0, <1>5, <1>7 DEF TxInv, Arrived, Vetted, SyncedInv, HonoursInv, Grown, v
<1>12. Truthful(s, f)
    BY <1>0, <1>5, <1>7 DEF TxInv, Truthful, Says, v
<1>13. AgreedInv(s, f, now)
    BY <1>0, <1>5, <1>7 DEF TxInv, AgreedInv, Evidence, Done, v
<1>14. TxInv(s, f, now)
    BY <1>7, <1>9, <1>10, <1>11, <1>12, <1>13 DEF TxInv
<1>15. Keeps(d, f)
    BY <1>5, <1>7 DEF Keeps, v
<1> QED
    BY <1>6, <1>14, <1>15 DEF Handled

\* An acceptance is recorded, and the initiator may form the agreement.
LEMMA OnAcceptHandled ==
    ASSUME NEW s, NEW d, NEW sender, NEW n, NEW e, NEW outgoing,
           Handling(s, d, sender, n, e, outgoing), e.kind = "accept",
           OnAccept(s, d, sender, n, e.ref).res = "ok"
    PROVE  Handled(s, d, sender, n, OnAccept(s, d, sender, n, e.ref).d)
<1> DEFINE a == [n |-> n, terms |-> e.ref[1], active |-> TRUE]
           f == AcceptedBy(d, sender, a)
           now == <<sender, n>>
           o == OnAccept(s, d, sender, n, e.ref)
<1>0. /\ d \in Tx /\ s \in Side /\ sender \in Side /\ n \in 1..MaxSeq /\ CollInv
      /\ TxInv(s, d, now) /\ Shape(sender, e)
      /\ n \in DOMAIN own[sender] /\ e = own[sender][n]
      /\ (sender # s => d.inb[n] # "applied")
    BY HandlingFacts DEF Handling
<1>1. o.d = Form(s, f)
    <2>1. o = Bad(d) \/ o = Ok(Form(s, f))
        BY DEF OnAccept, AcceptedBy
    <2> HIDE DEF f, o
    <2>2. o.res = "ok"
        BY DEF o
    <2> QED
        BY <2>1, <2>2, Results
<1>2. PICK t \in 1..plan.versions : e.ref = <<t>>
    BY <1>0 DEF Shape
<1>3. a \in Acceptance /\ a.n = n /\ a.terms = t /\ Accepting(sender, n, t)
    BY <1>0, <1>2, EnvFacts DEF Acceptance, Accepting
<1> HIDE DEF a
<1>6. Grounded(s, d, sender, n, a)
    BY <1>0, <1>3 DEF Grounded
<1>4. TxInv(s, f, now) /\ Keeps(d, f)
    BY <1>0, <1>3, <1>6, Acceptances
<1> HIDE DEF f
<1>5. TxInv(s, Form(s, f), now) /\ Keeps(f, Form(s, f))
    BY <1>0, <1>4, Forming
<1> HIDE DEF o
<1>7. Handled(s, d, sender, n, o.d)
    BY <1>1, <1>4, <1>5 DEF Keeps, Handled
<1> QED
    BY <1>7 DEF o

\* What it may rely on of the event's words and of their sender.
LEMMA HandlingSays ==
    ASSUME NEW s, NEW d, NEW sender, NEW n, NEW e, NEW outgoing,
           Handling(s, d, sender, n, e, outgoing)
    PROVE  /\ Says(sender, Opened(sender), e) /\ (outgoing => Says(s, d, e))
           /\ (outgoing => sender = s) /\ (~outgoing => sender = Peer(s))
BY HandlingFacts

\* The agreement: the initiator records what it decided, the peer what the
\* initiator sent, and queues the acknowledgment of exactly that.
LEMMA OnAgreementHandled ==
    ASSUME NEW s, NEW d, NEW sender, NEW n, NEW e, NEW outgoing,
           Handling(s, d, sender, n, e, outgoing), e.kind = "agreement",
           OnAgreement(s, d, sender, n, e.ref, outgoing).res = "ok"
    PROVE  Handled(s, d, sender, n, OnAgreement(s, d, sender, n, e.ref, outgoing).d)
<1> DEFINE f == AgreedTo(d, e.ref)
           q == Queue(f, "agreement_ack", e.ref)
           now == <<sender, n>>
           o == OnAgreement(s, d, sender, n, e.ref, outgoing)
<1>0. /\ d \in Tx /\ s \in Side /\ sender \in Side /\ CollInv /\ outgoing \in BOOLEAN
      /\ TxInv(s, d, now) /\ e.ref \in Ref
      /\ (outgoing => sender = s) /\ (~outgoing => sender = Peer(s))
      /\ Says(sender, Opened(sender), e) /\ (outgoing => Says(s, d, e))
    <2>1. Handling(s, d, sender, n, e, outgoing)
        OBVIOUS
    <2> HIDE DEF f, q, o
    <2>2. /\ d \in Tx /\ s \in Side /\ sender \in Side /\ CollInv /\ outgoing \in BOOLEAN
          /\ TxInv(s, d, now) /\ e.ref \in Ref
        BY <2>1, HandlingFacts
    <2>3. /\ Says(sender, Opened(sender), e) /\ (outgoing => Says(s, d, e))
          /\ (outgoing => sender = s) /\ (~outgoing => sender = Peer(s))
        BY <2>1, HandlingSays, Zenon
    <2> QED
        BY <2>2, <2>3
<1>1. \/ o.d = d
      \/ /\ sender = A /\ (d.v.agreement = <<>> \/ d.v.agreement = e.ref)
         /\ o.d = IF outgoing THEN f ELSE q
    <2>1. \/ o = Bad(d) \/ o = Wait(d) \/ o = Ok(d)
          \/ /\ sender = A /\ (d.v.agreement = <<>> \/ d.v.agreement = e.ref)
             /\ o = Ok(IF outgoing THEN f ELSE q)
        BY DEF OnAgreement, AgreedTo
    <2> HIDE DEF f, q, o
    <2>2. o.res = "ok"
        BY DEF o
    <2> QED
        BY <2>1, <2>2, Results
<1> HIDE DEF o
<1>2. CASE o.d = d
    BY <1>0, <1>2 DEF Handled, Keeps, o
<1>3. CASE /\ sender = A /\ (d.v.agreement = <<>> \/ d.v.agreement = e.ref) /\ outgoing /\ o.d = f
    <2>1. s = A /\ s # B
        BY <1>0, <1>3, Sides
    <2>2. d.v.agreement # <<>> /\ e.ref = d.v.agreement
        BY <1>0, <1>3 DEF Says
    <2>3. Evidence(A, d, now, e.ref)
        BY <1>0, <2>1, <2>2 DEF TxInv, AgreedInv
    <2>4. view[A].agreement = <<>> => Unwithdrawn(e.ref)
        BY <1>0, <2>1, <2>2 DEF TxInv, HonoursInv
    <2>5. TxInv(s, f, now) /\ Keeps(d, f)
        BY <1>0, <1>3, <2>1, <2>2, <2>3, <2>4, Agreeing
    <2> QED
        BY <1>3, <2>5 DEF Handled, o
<1>4. CASE /\ sender = A /\ (d.v.agreement = <<>> \/ d.v.agreement = e.ref) /\ ~outgoing /\ o.d = q
    <2>1. s = B /\ s # A
        BY <1>0, <1>4, Sides
    <2>2. view[A].agreement # <<>> /\ e.ref = view[A].agreement
        BY <1>0, <1>4 DEF Says, Opened
    <2>3. TxInv(s, f, now) /\ Keeps(d, f) /\ f.v.agreement = e.ref
        BY <1>0, <1>4, <2>1, <2>2, Agreeing
    <2> HIDE DEF f
    <2>4. Says(s, f, [kind |-> "agreement_ack", ref |-> e.ref, st |-> "ready"])
        BY <2>1, <2>2, <2>3 DEF Says
    <2>5. "agreement_ack" \in Maintenance
        BY DEF Maintenance
    <2>6. TxInv(s, q, now) /\ Keeps(f, q)
        BY <1>0, <2>3, <2>4, <2>5, Queueing
    <2> HIDE DEF q
    <2> QED
        BY <1>4, <2>3, <2>6 DEF Handled, Keeps, o
<1> QED
    BY <1>0, <1>1, <1>2, <1>3, <1>4

\* The acceptance that was just recorded.
LEMMA AcceptedSets ==
    ASSUME NEW d \in Tx, NEW sender \in Side, NEW a
    PROVE  AcceptedBy(d, sender, a).v.acc[sender] = a
<1>1. d.v.acc \in [Side -> Acceptance]
    BY DEF Tx, View
<1> QED
    BY <1>1 DEF Tx, View, AcceptedBy

\* A withdrawal ends the acceptance it names, unless the agreement was formed.
LEMMA OnWithdrawHandled ==
    ASSUME NEW s, NEW d, NEW sender, NEW n, NEW e, NEW outgoing,
           Handling(s, d, sender, n, e, outgoing), e.kind = "withdraw",
           OnWithdraw(s, d, sender, e.ref).res = "ok"
    PROVE  /\ Handled(s, d, sender, n, OnWithdraw(s, d, sender, e.ref).d)
           /\ Noted(s, OnWithdraw(s, d, sender, e.ref).d, sender, e)
<1> DEFINE w == [d EXCEPT !.v.withdrawing = TRUE, !.v.held = FALSE]
           x == [d EXCEPT !.v.withdrawing = (s # A), !.v.held = FALSE]
           a == [d.v.acc[sender] EXCEPT !.active = FALSE]
           f == AcceptedBy(x, sender, a)
           q == Queue(w, "agreement", d.v.agreement)
           now == <<sender, n>>
           o == OnWithdraw(s, d, sender, e.ref)
<1>0. /\ d \in Tx /\ s \in Side /\ sender \in Side /\ CollInv /\ n \in 1..MaxSeq
      /\ TxInv(s, d, now) /\ e.ref \in Ref /\ Shape(sender, e) /\ e = own[sender][n]
    BY HandlingFacts
<1>1. d.v \in View /\ d.v.acc \in [Side -> Acceptance] /\ d.v.acc[sender] \in Acceptance
    BY <1>0 DEF Tx, View
<1>2. /\ d.v.acc[sender].n # 0 /\ e.ref = <<d.v.acc[sender].n>>
      /\ o.d = IF d.v.agreement # <<>> THEN IF s = A THEN q ELSE w ELSE f
    <2>1. f = [w EXCEPT !.v.acc[sender].active = FALSE, !.v.withdrawing = (s # A)]
        <3> DEFINE p == s # A
        <3>1. p \in BOOLEAN /\ d \in Tx /\ sender \in Side
            BY <1>0
        <3> HIDE DEF p
        <3>2. AcceptedBy([d EXCEPT !.v.withdrawing = p, !.v.held = FALSE], sender,
                         [d.v.acc[sender] EXCEPT !.active = FALSE])
              = [[d EXCEPT !.v.withdrawing = TRUE, !.v.held = FALSE]
                   EXCEPT !.v.acc[sender].active = FALSE, !.v.withdrawing = p]
            <4> DEFINE v == d.v
                       l == [[v EXCEPT !.withdrawing = p, !.held = FALSE]
                               EXCEPT !.acc[sender] = [v.acc[sender] EXCEPT !.active = FALSE]]
                       r == [[v EXCEPT !.withdrawing = TRUE, !.held = FALSE]
                               EXCEPT !.acc[sender].active = FALSE, !.withdrawing = p]
            <4>1. v \in View
                BY <3>1 DEF Tx
            <4>2. l = r
                <5> HIDE DEF v
                <5> QED
                    BY <4>1 DEF View
            <4> DEFINE t == [v EXCEPT !.withdrawing = p, !.held = FALSE]
                       u == [v EXCEPT !.withdrawing = TRUE, !.held = FALSE]
                       z == [v.acc[sender] EXCEPT !.active = FALSE]
                       ll == [t EXCEPT !.acc[sender] = z]
                       rr == [u EXCEPT !.acc[sender].active = FALSE, !.withdrawing = p]
            <4>3. /\ [d EXCEPT !.v.withdrawing = p, !.v.held = FALSE] = [d EXCEPT !.v = t]
                  /\ [d EXCEPT !.v.withdrawing = TRUE, !.v.held = FALSE] = [d EXCEPT !.v = u]
                BY <3>1 DEF Tx
            <4>4. ll = rr
                BY <4>2
            <4> HIDE DEF l, r, t, u, z, v
            <4>5. AcceptedBy([d EXCEPT !.v = t], sender, z) = [d EXCEPT !.v = ll]
                BY <3>1 DEF Tx, AcceptedBy
            <4>6. [[d EXCEPT !.v = u] EXCEPT !.v.acc[sender].active = FALSE, !.v.withdrawing = p]
                    = [d EXCEPT !.v = rr]
                BY <3>1 DEF Tx
            <4>7. z = [d.v.acc[sender] EXCEPT !.active = FALSE]
                BY DEF z, v
            <4> HIDE DEF ll, rr
            <4> QED
                BY <4>3, <4>4, <4>5, <4>6, <4>7
        <3> QED
            BY <3>2 DEF p
    <2>2. \/ o = Bad(d)
          \/ /\ d.v.acc[sender].n # 0 /\ e.ref = <<d.v.acc[sender].n>>
             /\ o = Ok(IF d.v.agreement # <<>> THEN IF s = A THEN q ELSE w ELSE f)
        BY <2>1 DEF OnWithdraw
    <2> HIDE DEF w, f, q, o
    <2>3. o.res = "ok"
        BY DEF o
    <2> QED
        BY <2>2, <2>3, Results
<1>3. /\ w \in Tx /\ Same(d, w) /\ x \in Tx /\ Same(d, x)
    BY <1>0, Marks
<1> HIDE DEF w, x, o
<1>4. TxInv(s, w, now) /\ TxInv(s, x, now) /\ Keeps(d, w) /\ Keeps(d, x)
    BY <1>0, <1>3, SameTx
<1>5. ASSUME s = A, sender = B
      PROVE  \E k \in 1..MaxSeq : e.ref = <<k>> /\ k = d.v.acc[B].n /\ d.inb[k] = "applied"
    <2> DEFINE k == d.v.acc[B].n
    <2>1. Accepting(B, k, d.v.acc[B].terms) /\ Done(s, d, now, B, k)
        BY <1>0, <1>2, <1>5, Sides DEF TxInv, AcceptancesInv
    <2>2. k # n
        BY <1>0, <1>5, <2>1 DEF Accepting
    <2>3. d.inb[k] = "applied"
        BY <1>5, <2>1, <2>2, Sides DEF Done
    <2>4. k \in 1..MaxSeq
        BY <1>0, <2>1, EnvFacts, Sides DEF Accepting
    <2> QED
        BY <1>2, <1>5, <2>3, <2>4
<1>6. CASE d.v.agreement # <<>> /\ s = A
    <2>1. o.d = q
        BY <1>2, <1>6
    <2>2. w.v.agreement = d.v.agreement /\ d.v.agreement \in Ref
        BY <1>1, <1>3 DEF Same, View
    <2>3. Says(s, w, [kind |-> "agreement", ref |-> d.v.agreement, st |-> "ready"])
        BY <1>6, <2>2 DEF Says
    <2>4. "agreement" \in Maintenance
        BY DEF Maintenance
    <2>5. TxInv(s, q, now) /\ Keeps(w, q) /\ q.v.agreement = w.v.agreement
        BY <1>0, <1>4, <2>2, <2>3, <2>4, Queueing
    <2> HIDE DEF q
    <2>6. Handled(s, d, sender, n, q)
        BY <1>4, <2>5 DEF Handled, Keeps
    <2>7. Noted(s, q, sender, e)
        BY <1>0, <1>4, <1>5, <1>6, <2>2, <2>5 DEF Noted, Keeps
    <2> QED
        BY <2>1, <2>6, <2>7 DEF o
<1>7. CASE d.v.agreement # <<>> /\ s # A
    <2>1. o.d = w
        BY <1>2, <1>7
    <2>2. Handled(s, d, sender, n, w) /\ Noted(s, w, sender, e)
        BY <1>4, <1>7 DEF Handled, Noted
    <2> QED
        BY <2>1, <2>2 DEF o
<1>8. CASE d.v.agreement = <<>>
    <2>1. o.d = f
        BY <1>2, <1>8
    <2>2. /\ a \in Acceptance /\ a.n = x.v.acc[sender].n /\ a.terms = x.v.acc[sender].terms /\ ~a.active
          /\ a.n = d.v.acc[sender].n
        BY <1>1, <1>3 DEF Acceptance, Same
    <2>3. x.v.acc \in [Side -> Acceptance]
        BY <1>1, <1>3 DEF Same
    <2> HIDE DEF a
    <2>4. TxInv(s, f, now) /\ Keeps(x, f) /\ f.v.acc[sender] = a
        <3>1. a.n = x.v.acc[sender].n /\ a.terms = x.v.acc[sender].terms /\ ~a.active
            BY <2>2
        <3>2. Grounded(s, x, sender, n, a)
            BY <3>1 DEF Grounded
        <3>3. f = AcceptedBy(x, sender, a)
            OBVIOUS
        <3> HIDE DEF f
        <3>4. TxInv(s, f, now)
            BY <1>0, <1>4, <2>2, <3>2, <3>3, Acceptances
        <3>5. Keeps(x, f)
            BY <1>0, <1>4, <2>2, <3>2, <3>3, Acceptances
        <3>6. AcceptedBy(x, sender, a).v.acc[sender] = a
            BY <1>0, <1>3, AcceptedSets
        <3> QED
            BY <3>3, <3>4, <3>5, <3>6
    <2> HIDE DEF f
    <2>5. Handled(s, d, sender, n, f)
        BY <1>4, <2>4 DEF Handled, Keeps
    <2>7. Noted(s, f, sender, e)
        BY <1>0, <1>4, <1>5, <2>2, <2>4 DEF Noted, Keeps
    <2> QED
        BY <2>1, <2>5, <2>7 DEF o
<1> QED
    BY <1>6, <1>7, <1>8

\* The reducer has no other result.
LEMMA Answers ==
    ASSUME NEW s, NEW d, NEW sender, NEW n, NEW e \in Event, NEW outgoing
    PROVE  Apply(s, d, sender, n, e, outgoing).res \in {"ok", "bad", "wait"}
<1> DEFINE o == Apply(s, d, sender, n, e, outgoing)
           pre == Precondition(d.v, e.kind, e.ref, sender)
<1>1. pre \in {"ok", "bad", "wait"}
    BY DEF Precondition
<1>2. CASE pre # "ok"
    <2>1. o = [res |-> pre, d |-> d]
        BY <1>2 DEF Apply
    <2> HIDE DEF pre
    <2> QED
        BY <1>1, <2>1
<1>3. CASE pre = "ok"
    <2>1. e.kind \in Kinds \ Sync
        BY DEF Event
    <2>2. \/ o = Ok(d) \/ o = OnJoin(d, sender) \/ o = OnProposal(d, e.ref)
          \/ o = OnAccept(s, d, sender, n, e.ref)
          \/ o = OnAgreement(s, d, sender, n, e.ref, outgoing)
          \/ o = OnAgreementAck(d, e.ref, outgoing) \/ o = OnWithdraw(s, d, sender, e.ref)
          \/ o = OnCancel(d, e.kind, sender, e.ref) \/ o = OnReceipt(s, d, e.ref, outgoing)
        BY <1>3, <2>1 DEF Apply, Kinds, Business, Maintenance, Sync, Recovery
    <2>3. /\ OnJoin(d, sender).res \in {"ok", "bad", "wait"}
          /\ OnProposal(d, e.ref).res \in {"ok", "bad", "wait"}
          /\ OnAccept(s, d, sender, n, e.ref).res \in {"ok", "bad", "wait"}
          /\ Ok(d).res \in {"ok", "bad", "wait"}
        BY DEF OnJoin, OnProposal, OnAccept, Ok, Bad, Wait
    <2>4. OnAgreement(s, d, sender, n, e.ref, outgoing).res \in {"ok", "bad", "wait"}
        BY DEF OnAgreement, Ok, Bad, Wait
    <2>5. OnAgreementAck(d, e.ref, outgoing).res \in {"ok", "bad", "wait"}
        BY DEF OnAgreementAck, Ok, Bad, Wait
    <2>6. OnWithdraw(s, d, sender, e.ref).res \in {"ok", "bad", "wait"}
        BY DEF OnWithdraw, Ok, Bad, Wait
    <2>7. OnCancel(d, e.kind, sender, e.ref).res \in {"ok", "bad", "wait"}
        BY DEF OnCancel, Ok, Bad, Wait
    <2>8. OnReceipt(s, d, e.ref, outgoing).res \in {"ok", "bad", "wait"}
        BY DEF OnReceipt, Ok, Bad, Wait
    <2> HIDE DEF o
    <2>9. o.res \in {"ok", "bad", "wait"}
        BY <2>2, <2>3, <2>4, <2>5, <2>6, <2>7, <2>8
    <2> QED
        BY <2>9 DEF o
<1> QED
    BY <1>2, <1>3

\* The reducer, event kind by event kind.
LEMMA Applying ==
    ASSUME NEW s, NEW d, NEW sender, NEW n, NEW e, NEW outgoing,
           Handling(s, d, sender, n, e, outgoing),
           Apply(s, d, sender, n, e, outgoing).res = "ok"
    PROVE  /\ Handled(s, d, sender, n, Apply(s, d, sender, n, e, outgoing).d)
           /\ ~outgoing => Noted(s, Apply(s, d, sender, n, e, outgoing).d, sender, e)
<1> DEFINE o == Apply(s, d, sender, n, e, outgoing)
           pre == Precondition(d.v, e.kind, e.ref, sender)
<1>0. e \in Event /\ outgoing \in BOOLEAN /\ e.kind \in Kinds \ Sync
    <2>1. e \in Event /\ outgoing \in BOOLEAN
        BY HandlingFacts
    <2> QED
        BY <2>1 DEF Event
<1>1. pre = "ok"
    <2>1. pre # "ok" => o = [res |-> pre, d |-> d]
        BY DEF Apply
    <2> HIDE DEF pre, o
    <2>2. o.res = "ok"
        BY DEF o
    <2> QED
        BY <2>1, <2>2
<1>2. /\ e.kind = "agreement_ack" => sender # A
      /\ e.kind = "proposal" => d.v.agreement = <<>>
    BY <1>1 DEF Precondition, Maintenance
<1>3. CASE e.kind \in {"invite", "change_request"}
    <2>1. o = Ok(d)
        BY <1>1, <1>3 DEF Apply
    <2>2. Handled(s, d, sender, n, d)
        BY HandlingFacts DEF Handled, Keeps
    <2>3. Noted(s, d, sender, e)
        BY <1>3 DEF Noted
    <2> QED
        BY <2>1, <2>2, <2>3, Results
<1>4. CASE e.kind = "join"
    <2>1. o = OnJoin(d, sender)
        BY <1>1, <1>4 DEF Apply
    <2>2. Handled(s, d, sender, n, o.d)
        BY <2>1, OnJoinHandled
    <2> QED
        BY <1>4, <2>2 DEF Noted
<1>5. CASE e.kind = "proposal"
    <2>1. o = OnProposal(d, e.ref)
        BY <1>1, <1>5 DEF Apply
    <2>2. Handled(s, d, sender, n, o.d)
        BY <1>2, <1>5, <2>1, OnProposalHandled
    <2> QED
        BY <1>5, <2>2 DEF Noted
<1>6. CASE e.kind = "accept"
    <2>1. o = OnAccept(s, d, sender, n, e.ref)
        BY <1>1, <1>6 DEF Apply
    <2>2. Handled(s, d, sender, n, o.d)
        BY <1>6, <2>1, OnAcceptHandled
    <2> QED
        BY <1>6, <2>2 DEF Noted
<1>7. CASE e.kind = "agreement"
    <2>1. o = OnAgreement(s, d, sender, n, e.ref, outgoing)
        BY <1>1, <1>7 DEF Apply
    <2>2. Handled(s, d, sender, n, o.d)
        BY <1>7, <2>1, OnAgreementHandled
    <2> QED
        BY <1>7, <2>2 DEF Noted
<1>8. CASE e.kind = "agreement_ack"
    <2>1. o = OnAgreementAck(d, e.ref, outgoing)
        BY <1>1, <1>8 DEF Apply
    <2>2. Handled(s, d, sender, n, o.d) /\ (~outgoing => o.d.v.synced)
        BY <1>2, <1>8, <2>1, OnAgreementAckHandled
    <2> QED
        BY <1>8, <2>2 DEF Noted
<1>9. CASE e.kind = "withdraw"
    <2>1. o = OnWithdraw(s, d, sender, e.ref)
        BY <1>1, <1>9 DEF Apply
    <2>2. Handled(s, d, sender, n, o.d) /\ Noted(s, o.d, sender, e)
        BY <1>9, <2>1, OnWithdrawHandled
    <2> QED
        BY <2>2
<1>10. CASE e.kind \in {"cancel_request", "cancel_ack"}
    <2>1. o = OnCancel(d, e.kind, sender, e.ref)
        BY <1>1, <1>10 DEF Apply
    <2>2. Handled(s, d, sender, n, o.d)
        BY <2>1, OnCancelHandled
    <2> QED
        BY <1>10, <2>2 DEF Noted
<1>11. CASE e.kind = "receipt"
    <2>1. o = OnReceipt(s, d, e.ref, outgoing)
        BY <1>1, <1>11 DEF Apply
    <2>2. Handled(s, d, sender, n, o.d)
        BY <1>11, <2>1, OnReceiptHandled
    <2> QED
        BY <1>11, <2>2 DEF Noted
<1> QED
    BY <1>0, <1>3, <1>4, <1>5, <1>6, <1>7, <1>8, <1>9, <1>10, <1>11
    DEF Kinds, Business, Maintenance, Sync, Recovery

-----------------------------------------------------------------------------
(* The drain: step, loop and end.                                           *)

\* What a settlement, and so a whole drain, never touches or takes back.
Kept(d, e) ==
    /\ e.v.bound = d.v.bound /\ e.v.permit = d.v.permit /\ e.v.invited = d.v.invited
    /\ \A n \in 1..MaxSeq : d.rev[n] = "approved" => e.rev[n] = "approved"

\* The state of a transaction of s between two events of the drain.
Between(s, d) == TxInv(s, d, <<s, 0>>) /\ InOrder(d)

\* The event that is being settled, if its reduction counts.
Moment(s, n, status) == IF status = "applied" THEN <<Peer(s), n>> ELSE <<s, 0>>

\* Number n is next and may be settled with this status.
Settles(s, d, n, status) ==
    /\ s \in Side /\ n \in DOMAIN own[Peer(s)] /\ n \in 1..MaxSeq
    /\ status \in {"applied", "rejected"}
    /\ TxInv(s, d, Moment(s, n, status))
    /\ d.inb[n] \notin {"none", "applied"}
    /\ status = "applied" => /\ Noted(s, d, Peer(s), own[Peer(s)][n])
                             /\ own[Peer(s)][n].kind \in ReviewKinds => d.rev[n] = "approved"
    /\ \A m \in 1..MaxSeq : m < n => d.inb[m] \in {"applied", "rejected"}
    /\ \A m \in 1..MaxSeq : m > n => d.inb[m] # "applied"

\* What counts while event n is reduced counts once it is settled.
LEMMA SettlesDone ==
    ASSUME CollInv, NEW s, NEW d, NEW n, NEW status, Settles(s, d, n, status),
           NEW e, e.inb = [d.inb EXCEPT ![n] = status], NEW x \in Side, NEW k \in 1..MaxSeq,
           Done(s, d, Moment(s, n, status), x, k)
    PROVE  Done(s, e, <<s, 0>>, x, k)
<1>1. d.inb \in [1..MaxSeq -> InStatus] /\ n \in 1..MaxSeq
    BY DEF Settles, TxInv, Tx
<1>2. d.inb[n] # "applied" /\ s \in Side
    BY DEF Settles
<1>3. CASE x = s
    <2>1. s # Peer(s) /\ k # 0
        BY <1>2, EnvFacts, Sides
    <2> QED
        BY <1>3, <2>1 DEF Done, Moment
<1>4. CASE x # s
    <2>1. x = Peer(s)
        BY <1>2, <1>4, Sides
    <2> QED
        BY <1>1, <1>2, <1>4, <2>1 DEF Done, Moment
<1> QED
    BY <1>3, <1>4

AdvancedTo(d, n, status) == [d EXCEPT !.inb[n] = status, !.v.inseq = n]

\* The cursor passes the event that was settled.
LEMMA Advancing ==
    ASSUME CollInv, NEW s, NEW d, NEW n, NEW status, Settles(s, d, n, status)
    PROVE  /\ Between(s, AdvancedTo(d, n, status)) /\ Kept(d, AdvancedTo(d, n, status))
           /\ AdvancedTo(d, n, status).inb[n] = status
<1> DEFINE e == AdvancedTo(d, n, status)
           now == Moment(s, n, status)
<1>0. /\ s \in Side /\ n \in DOMAIN own[Peer(s)] /\ n \in 1..MaxSeq
      /\ status \in {"applied", "rejected"} /\ TxInv(s, d, now) /\ d \in Tx
      /\ d.inb[n] \notin {"none", "applied"}
    BY DEF Settles, TxInv
<1>1. d.v \in View /\ d.inb \in [1..MaxSeq -> InStatus] /\ n \in 0..MaxSeq
    BY <1>0, EnvFacts DEF Tx
<1>2. /\ e.v = [d.v EXCEPT !.inseq = n] /\ e.inb = [d.inb EXCEPT ![n] = status]
      /\ e.rev = d.rev /\ e.mo = d.mo /\ e.stop = d.stop
    BY <1>0 DEF Tx, AdvancedTo
<1>3. /\ e.v \in View /\ e.v.inseq = n /\ e.v.acc = d.v.acc /\ e.v.agreement = d.v.agreement
      /\ e.v.synced = d.v.synced /\ e.v.bound = d.v.bound
      /\ e.v.permit = d.v.permit /\ e.v.invited = d.v.invited
    <2> DEFINE v == d.v
               w == e.v
    <2>1. v \in View /\ w = [v EXCEPT !.inseq = n]
        BY <1>1, <1>2
    <2> HIDE DEF v, w
    <2>2. /\ w \in View /\ w.inseq = n /\ w.acc = v.acc /\ w.agreement = v.agreement
          /\ w.synced = v.synced /\ w.bound = v.bound /\ w.permit = v.permit
          /\ w.invited = v.invited
        BY <1>1, <2>1 DEF View
    <2> QED
        BY <2>2 DEF v, w
<1>4. e \in Tx
    <2>1. e.inb \in [1..MaxSeq -> InStatus]
        BY <1>0, <1>1, <1>2 DEF InStatus
    <2> QED
        BY <1>0, <1>2, <1>3, <2>1 DEF Tx, AdvancedTo
<1>5. /\ e.inb[n] = status
      /\ \A m \in 1..MaxSeq : m # n => e.inb[m] = d.inb[m]
      /\ \A m \in 1..MaxSeq : d.inb[m] = "applied" => e.inb[m] = "applied"
    BY <1>0, <1>1, <1>2
<1> HIDE DEF e
<1>6. \A x \in Side, k \in 1..MaxSeq : Done(s, d, now, x, k) => Done(s, e, <<s, 0>>, x, k)
    BY <1>2, SettlesDone
<1> HIDE DEF now
<1>7. Arrived(s, e)
    BY <1>0, <1>2, <1>5 DEF TxInv, Arrived
<1>8. Vetted(s, e)
    BY <1>0, <1>2, <1>5 DEF TxInv, Vetted, Settles
<1>9. AcceptancesInv(s, e, <<s, 0>>)
    <2> SUFFICES ASSUME NEW x \in Side, e.v.acc[x].n # 0
                 PROVE  Accepting(x, e.v.acc[x].n, e.v.acc[x].terms)
                        /\ Done(s, e, <<s, 0>>, x, e.v.acc[x].n)
        BY DEF AcceptancesInv
    <2>1. Accepting(x, d.v.acc[x].n, d.v.acc[x].terms) /\ Done(s, d, now, x, d.v.acc[x].n)
        BY <1>0, <1>3 DEF TxInv, AcceptancesInv
    <2>2. d.v.acc[x].n \in 1..MaxSeq
        BY <2>1, EnvFacts DEF Accepting
    <2> QED
        BY <1>3, <1>6, <2>1, <2>2
<1>10. Truthful(s, e)
    <2>1. ASSUME NEW m, Says(s, d, m)
          PROVE  Says(s, e, m)
        BY <1>3, <1>5, <2>1 DEF Says
    <2> QED
        BY <1>0, <1>2, <2>1 DEF TxInv, Truthful
<1>11. AgreedInv(s, e, <<s, 0>>)
    <2>1. ASSUME NEW g, Evidence(s, d, now, g)
          PROVE  Evidence(s, e, <<s, 0>>, g)
        BY <1>6, <2>1, Sides DEF Evidence
    <2> QED
        BY <1>0, <1>3, <2>1 DEF TxInv, AgreedInv
<1>12. SyncedInv(s, e)
    <2>1. ASSUME NEW m \in 1..MaxSeq, s = A, e.inb[m] = "applied", own[B][m].kind = "agreement_ack"
          PROVE  d.v.synced
        <3>1. CASE m = n
            BY <1>5, <2>1, <3>1, Sides DEF Settles, Noted
        <3>2. CASE m # n
            BY <1>0, <1>5, <2>1, <3>2 DEF TxInv, SyncedInv
        <3> QED
            BY <3>1, <3>2
    <2> QED
        BY <1>0, <1>3, <2>1 DEF TxInv, SyncedInv
<1>13. WithdrawnInv(s, e)
    <2> SUFFICES ASSUME s = A, NEW w \in 1..MaxSeq, e.inb[w] = "applied", own[B][w].kind = "withdraw"
                 PROVE  \E k \in 1..MaxSeq :
                           /\ own[B][w].ref = <<k>> /\ e.inb[k] = "applied"
                           /\ e.v.agreement = <<>> => ~(e.v.acc[B].n = k /\ e.v.acc[B].active)
        BY DEF WithdrawnInv
    <2>1. PICK k \in 1..MaxSeq :
             /\ own[B][w].ref = <<k>> /\ d.inb[k] = "applied"
             /\ d.v.agreement = <<>> => ~(d.v.acc[B].n = k /\ d.v.acc[B].active)
        <3>1. CASE w = n
            BY <1>5, <3>1, Sides DEF Settles, Noted
        <3>2. CASE w # n
            BY <1>0, <1>5, <3>2 DEF TxInv, WithdrawnInv
        <3> QED
            BY <3>1, <3>2
    <2> QED
        BY <1>3, <1>5, <2>1
<1>14. HonoursInv(s, e) /\ Grown(s, e)
    BY <1>0, <1>3, <1>5 DEF TxInv, HonoursInv, Grown
<1>15. InOrder(e)
    <2> SUFFICES ASSUME NEW m \in 1..MaxSeq
                 PROVE  IF m <= n THEN e.inb[m] \in {"applied", "rejected"}
                        ELSE e.inb[m] # "applied"
        BY <1>3 DEF InOrder
    <2>1. CASE m < n
        BY <1>0, <1>5, <2>1, EnvFacts DEF Settles
    <2>2. CASE m = n
        BY <1>0, <1>5, <2>2
    <2>3. CASE m > n
        <3>1. d.inb[m] # "applied"
            BY <2>3 DEF Settles
        <3>2. m # n /\ ~(m <= n)
            BY <1>0, <2>3, EnvFacts
        <3> QED
            BY <1>5, <3>1, <3>2
    <2> QED
        BY <1>0, <2>1, <2>2, <2>3, EnvFacts
<1>16. Kept(d, e)
    BY <1>2, <1>3 DEF Kept
<1> QED
    BY <1>3, <1>4, <1>5, <1>7, <1>8, <1>9, <1>10, <1>11, <1>12, <1>13, <1>14, <1>15, <1>16
    DEF TxInv, Between, e

\* Settling an event, with its receipt, ends a step of the drain.
LEMMA SettledBetween ==
    ASSUME CollInv, NEW s, NEW d, NEW n, NEW status, Settles(s, d, n, status),
           NEW kind, NEW receipted \in BOOLEAN
    PROVE  /\ Between(s, Settled(d, n, kind, status, receipted))
           /\ Kept(d, Settled(d, n, kind, status, receipted))
<1> DEFINE e == AdvancedTo(d, n, status)
           b == IF status = "applied" THEN 1 ELSE 0
           r == Settled(d, n, kind, status, receipted)
           q == Queue(e, "receipt", <<n, b>>)
<1>0. s \in Side /\ n \in 1..MaxSeq /\ b \in {0, 1}
    BY DEF Settles
<1>1. Between(s, e) /\ Kept(d, e) /\ e.inb[n] = status
    BY Advancing
<1>2. r = e \/ r = q
    BY DEF Settled, AdvancedTo
<1> HIDE DEF e
<1>3. <<n, b>> \in Ref /\ "receipt" \in Maintenance
    BY <1>0, EnvFacts DEF Ref, Maintenance
<1>4. Says(s, e, [kind |-> "receipt", ref |-> <<n, b>>, st |-> "ready"])
    BY <1>0, <1>1 DEF Says
<1>5. TxInv(s, q, <<s, 0>>) /\ Keeps(e, q)
    <2> HIDE DEF b
    <2> QED
        BY <1>0, <1>1, <1>3, <1>4, Queueing DEF Between
<1> HIDE DEF q, r
<1>6. InOrder(q) /\ Kept(d, q)
    BY <1>1, <1>5 DEF Between, InOrder, Keeps, Kept
<1>7. Between(s, r) /\ Kept(d, r)
    BY <1>1, <1>2, <1>5, <1>6 DEF Between
<1> QED
    BY <1>7 DEF r

\* So does stopping, or waiting.
LEMMA StoppedBetween ==
    ASSUME NEW s \in Side, NEW d, Between(s, d), NEW x \in BOOLEAN
    PROVE  /\ Between(s, Stopped(d)) /\ Kept(d, Stopped(d))
           /\ Between(s, [d EXCEPT !.v.held = x]) /\ Kept(d, [d EXCEPT !.v.held = x])
<1>0. d \in Tx /\ TxInv(s, d, <<s, 0>>) /\ InOrder(d)
    BY DEF Between, TxInv
<1> DEFINE h == [d EXCEPT !.v.held = x]
           e == Stopped(d)
<1>1. h \in Tx /\ Same(d, h)
    BY <1>0, Marks
<1>2. /\ e \in Tx /\ e.v = d.v /\ e.mo = d.mo /\ e.inb = d.inb /\ e.rev = d.rev
    BY <1>0 DEF Tx, Stopped
<1> HIDE DEF h, e
<1>3. TxInv(s, h, <<s, 0>>) /\ Keeps(d, h)
    BY <1>0, <1>1, SameTx
<1>4. TxInv(s, e, <<s, 0>>)
    BY <1>0, <1>2, Frame
<1>5. Between(s, h) /\ Kept(d, h)
    BY <1>0, <1>3 DEF Between, InOrder, Kept, Keeps
<1>6. Between(s, e) /\ Kept(d, e)
    BY <1>0, <1>2, <1>4 DEF Between, InOrder, Kept
<1> QED
    BY <1>5, <1>6 DEF h, e

\* What two changes keep, both together keep.
LEMMA KeptTransitive ==
    ASSUME NEW d, NEW e, NEW f, Kept(d, e), Kept(e, f)
    PROVE  Kept(d, f)
BY DEF Kept

\* Staging the review of a buffered event changes only its review.
LEMMA ReviewedBetween ==
    ASSUME NEW s \in Side, NEW d, Between(s, d), NEW n \in 1..MaxSeq, d.inb[n] = "buffered"
    PROVE  /\ Between(s, Reviewed(d, n)) /\ Kept(d, Reviewed(d, n))
           /\ Reviewed(d, n).inb = d.inb /\ Reviewed(d, n).v = d.v
           /\ Reviewed(d, n).stop = d.stop /\ Reviewed(d, n).rev[n] # "none"
<1> DEFINE e == [d EXCEPT !.rev[n] = "pending"]
<1>0. d \in Tx /\ TxInv(s, d, <<s, 0>>) /\ InOrder(d)
    BY DEF Between, TxInv
<1>1. CASE d.rev[n] # "none"
    <2>1. Reviewed(d, n) = d
        BY <1>1 DEF Reviewed
    <2> QED
        BY <1>1, <2>1 DEF Kept
<1>2. CASE d.rev[n] = "none"
    <2>1. /\ e.v = d.v /\ e.mo = d.mo /\ e.inb = d.inb /\ e.stop = d.stop
          /\ e.rev = [d.rev EXCEPT ![n] = "pending"]
        BY <1>0 DEF Tx
    <2>2. d.rev \in [1..MaxSeq -> {"none", "pending", "approved", "rejected"}]
        BY <1>0 DEF Tx
    <2>3. e.rev[n] = "pending" /\ \A m \in 1..MaxSeq : m # n => e.rev[m] = d.rev[m]
        BY <2>1, <2>2
    <2>4. e \in Tx
        BY <1>0 DEF Tx
    <2>5. Reviewed(d, n) = e
        BY <1>2 DEF Reviewed
    <2> HIDE DEF e
    <2>6. Arrived(s, e)
        BY <1>0, <2>1, <2>3 DEF TxInv, Arrived
    <2>7. Vetted(s, e)
        BY <1>0, <2>1, <2>3 DEF TxInv, Vetted
    <2>8. /\ AcceptancesInv(s, e, <<s, 0>>) /\ Truthful(s, e) /\ AgreedInv(s, e, <<s, 0>>)
          /\ SyncedInv(s, e) /\ WithdrawnInv(s, e) /\ HonoursInv(s, e) /\ Grown(s, e)
        BY <1>0, <2>1
        DEF TxInv, AcceptancesInv, Truthful, Says, AgreedInv, Evidence, Done, SyncedInv,
            WithdrawnInv, HonoursInv, Grown
    <2>9. Between(s, e)
        BY <1>0, <2>1, <2>4, <2>6, <2>7, <2>8 DEF Between, TxInv, InOrder
    <2>10. Kept(d, e)
        BY <1>2, <2>1, <2>3 DEF Kept
    <2> QED
        BY <2>1, <2>3, <2>5, <2>9, <2>10
<1> QED
    BY <1>1, <1>2

\* The invariant between two events holds while the next one is being reduced.
LEMMA LaterTx ==
    ASSUME CollInv, NEW s \in Side, NEW d, TxInv(s, d, <<s, 0>>), NEW now
    PROVE  TxInv(s, d, now)
<1>1. \A x \in Side, k \in 1..MaxSeq : Done(s, d, <<s, 0>>, x, k) => Done(s, d, now, x, k)
    BY EnvFacts DEF Done
<1>2. AcceptancesInv(s, d, now)
    <2> SUFFICES ASSUME NEW x \in Side, d.v.acc[x].n # 0
                 PROVE  Accepting(x, d.v.acc[x].n, d.v.acc[x].terms)
                        /\ Done(s, d, now, x, d.v.acc[x].n)
        BY DEF AcceptancesInv
    <2>1. Accepting(x, d.v.acc[x].n, d.v.acc[x].terms) /\ Done(s, d, <<s, 0>>, x, d.v.acc[x].n)
        BY DEF TxInv, AcceptancesInv
    <2>2. d.v.acc[x].n \in 1..MaxSeq
        BY <2>1, EnvFacts DEF Accepting
    <2> QED
        BY <1>1, <2>1, <2>2
<1>3. AgreedInv(s, d, now)
    <2>1. ASSUME NEW g, Evidence(s, d, <<s, 0>>, g)
          PROVE  Evidence(s, d, now, g)
        BY <1>1, <2>1, Sides DEF Evidence
    <2> QED
        BY <2>1 DEF TxInv, AgreedInv
<1> QED
    BY <1>2, <1>3 DEF TxInv

\* The event behind the cursor may be rejected.
LEMMA Rejecting ==
    ASSUME CollInv, NEW s \in Side, NEW d, Between(s, d), NEW n \in 1..MaxSeq,
           n = d.v.inseq + 1, n \in DOMAIN own[Peer(s)], d.inb[n] \notin {"none", "applied"}
    PROVE  Settles(s, d, n, "rejected")
<1>1. d \in Tx /\ d.v.inseq \in 0..MaxSeq
    BY DEF Between, TxInv, Tx, View
<1>2. TxInv(s, d, Moment(s, n, "rejected"))
    BY DEF Between, Moment
<1>3. \A m \in 1..MaxSeq : /\ m < n => d.inb[m] \in {"applied", "rejected"}
                           /\ m > n => d.inb[m] # "applied"
    <2> SUFFICES ASSUME NEW m \in 1..MaxSeq
                 PROVE  /\ m < n => d.inb[m] \in {"applied", "rejected"}
                        /\ m > n => d.inb[m] # "applied"
        OBVIOUS
    <2>1. (m < n => m <= d.v.inseq) /\ (m > n => ~(m <= d.v.inseq))
        BY <1>1, EnvFacts
    <2>2. IF m <= d.v.inseq THEN d.inb[m] \in {"applied", "rejected"} ELSE d.inb[m] # "applied"
        BY DEF Between, InOrder
    <2> QED
        BY <2>1, <2>2
<1> QED
    BY <1>2, <1>3 DEF Settles

\* DrainBuffered without the operator that names its argument.
LEMMA DrainBufferedIs ==
    ASSUME NEW s, NEW d, NEW p, NEW n, NEW e
    PROVE  DrainBuffered(s, d, p, n, e) =
             IF e.kind \in ReviewKinds /\ d.rev[n] = "pending"
             THEN Stopped([d EXCEPT !.v.held = TRUE])
             ELSE IF e.kind \in ReviewKinds /\ d.rev[n] = "rejected"
             THEN Settled(d, n, e.kind, "rejected", FALSE)
             ELSE IF Stale(p, e) THEN Settled(d, n, e.kind, "rejected", TRUE)
             ELSE Reduced(d, n, e.kind, Apply(s, [d EXCEPT !.v.inseq = n], p, n, e, FALSE))
BY DEF DrainBuffered, Once

\* The reduction of the next event, or the savepoint rolled back.
LEMMA ReducedBetween ==
    ASSUME CollInv, NEW s \in Side, NEW d, Between(s, d), NEW n \in 1..MaxSeq,
           n = d.v.inseq + 1, n \in DOMAIN own[Peer(s)], d.inb[n] = "buffered",
           NEW e, e = own[Peer(s)][n],
           e.kind \in ReviewKinds => d.rev[n] = "approved",
           NEW out, out = Apply(s, [d EXCEPT !.v.inseq = n], Peer(s), n, e, FALSE)
    PROVE  Between(s, Reduced(d, n, e.kind, out)) /\ Kept(d, Reduced(d, n, e.kind, out))
<1> DEFINE p == Peer(s)
           x == [d EXCEPT !.v.inseq = n]
           r == Reduced(d, n, e.kind, out)
<1>0. /\ d \in Tx /\ TxInv(s, d, <<s, 0>>) /\ InOrder(d) /\ e \in Event /\ p \in Side /\ p # s
      /\ n \in 0..MaxSeq
    BY EnvFacts, Sides DEF Between, TxInv
<1>1. Settles(s, d, n, "rejected")
    BY Rejecting
<1>2. out.res \in {"ok", "bad", "wait"}
    BY <1>0, Answers
<1>3. /\ x \in Tx /\ x.inb = d.inb /\ x.rev = d.rev /\ x.v.acc = d.v.acc
      /\ x.v.agreement = d.v.agreement /\ x.v.synced = d.v.synced /\ x.mo = d.mo
      /\ x.v.bound = d.v.bound /\ x.v.permit = d.v.permit /\ x.v.invited = d.v.invited
    <2> DEFINE v == d.v
               w == [v EXCEPT !.inseq = n]
    <2>1. v \in View
        BY <1>0 DEF Tx
    <2>2. /\ w \in View /\ w.acc = v.acc /\ w.agreement = v.agreement /\ w.synced = v.synced
          /\ w.bound = v.bound /\ w.permit = v.permit /\ w.invited = v.invited
        <3> HIDE DEF v
        <3> QED
            BY <1>0, <2>1 DEF View
    <2>3. x = [d EXCEPT !.v = w]
        BY <1>0 DEF Tx
    <2> HIDE DEF v, w
    <2>4. /\ x \in Tx /\ x.v = w /\ x.inb = d.inb /\ x.rev = d.rev /\ x.mo = d.mo
        <3> HIDE DEF x
        <3> QED
            BY <1>0, <2>2, <2>3 DEF Tx
    <2> HIDE DEF x
    <2> QED
        BY <2>2, <2>4 DEF v
<1>4. out = Apply(s, x, p, n, e, FALSE)
    OBVIOUS
<1> HIDE DEF x
<1>5. TxInv(s, x, <<p, n>>)
    <2>1. TxInv(s, x, <<s, 0>>)
        BY <1>0, <1>3, Frame
    <2> QED
        BY <2>1, LaterTx
<1>6. CASE out.res = "ok"
    <2>1. Handling(s, x, p, n, e, FALSE)
        BY <1>0, <1>3, <1>5 DEF Handling
    <2>2. Handled(s, x, p, n, out.d) /\ Noted(s, out.d, p, e)
        <3> HIDE DEF p
        <3>1. Apply(s, x, p, n, e, FALSE).res = "ok"
            BY <1>4, <1>6
        <3>2. /\ Handled(s, x, p, n, Apply(s, x, p, n, e, FALSE).d)
              /\ Noted(s, Apply(s, x, p, n, e, FALSE).d, p, e)
            BY <2>1, <3>1, Applying
        <3> QED
            BY <1>4, <3>2
    <2>3. Settles(s, out.d, n, "applied")
        <3>1. TxInv(s, out.d, <<p, n>>) /\ out.d.inb = d.inb /\ out.d.rev = d.rev
            BY <1>3, <2>2 DEF Handled, Keeps
        <3>2. Noted(s, out.d, p, own[p][n])
            BY <2>2
        <3> QED
            BY <1>1, <3>1, <3>2 DEF Settles, Moment
    <2>4. r = Settled(out.d, n, e.kind, "applied", TRUE)
        BY <1>6 DEF Reduced
    <2> HIDE DEF r
    <2>5. Between(s, r) /\ Kept(out.d, r)
        BY <2>3, <2>4, SettledBetween
    <2>6. Kept(d, out.d)
        BY <1>3, <2>2 DEF Kept, Handled, Keeps
    <2>7. Between(s, r) /\ Kept(d, r)
        BY <2>5, <2>6, KeptTransitive
    <2> QED
        BY <2>7 DEF r
<1>7. CASE out.res = "bad"
    <2>1. r = Settled(d, n, e.kind, "rejected", TRUE)
        BY <1>7 DEF Reduced
    <2> QED
        BY <1>1, <2>1, SettledBetween
<1>8. CASE out.res = "wait"
    <2> DEFINE h == [d EXCEPT !.v.held = FALSE]
    <2>1. r = Stopped(h)
        BY <1>8 DEF Reduced
    <2>2. Between(s, h) /\ Kept(d, h)
        BY StoppedBetween
    <2> HIDE DEF h, r
    <2>3. Between(s, r) /\ Kept(h, r)
        BY <2>1, <2>2, StoppedBetween
    <2>4. Between(s, r) /\ Kept(d, r)
        BY <2>2, <2>3, KeptTransitive
    <2> QED
        BY <2>4 DEF r
<1> QED
    BY <1>2, <1>6, <1>7, <1>8

\* The buffered event at the cursor: held, rejected or reduced.
LEMMA BufferedBetween ==
    ASSUME CollInv, NEW s \in Side, NEW d, Between(s, d), NEW n \in 1..MaxSeq,
           n = d.v.inseq + 1, n \in DOMAIN own[Peer(s)], d.inb[n] = "buffered",
           NEW e, e = own[Peer(s)][n], e.kind \in ReviewKinds => d.rev[n] # "none"
    PROVE  /\ Between(s, DrainBuffered(s, d, Peer(s), n, e))
           /\ Kept(d, DrainBuffered(s, d, Peer(s), n, e))
<1> DEFINE p == Peer(s)
           r == DrainBuffered(s, d, p, n, e)
           out == Apply(s, [d EXCEPT !.v.inseq = n], p, n, e, FALSE)
           h == [d EXCEPT !.v.held = TRUE]
<1>0. d.rev[n] \in {"none", "pending", "approved", "rejected"}
    BY DEF Between, TxInv, Tx
<1>1. Settles(s, d, n, "rejected")
    BY Rejecting
<1>2. CASE e.kind \in ReviewKinds /\ d.rev[n] = "pending"
    <2>1. r = Stopped(h)
        BY <1>2, DrainBufferedIs
    <2>2. Between(s, h) /\ Kept(d, h)
        BY StoppedBetween
    <2> HIDE DEF h, r
    <2>3. Between(s, r) /\ Kept(h, r)
        BY <2>1, <2>2, StoppedBetween
    <2>4. Between(s, r) /\ Kept(d, r)
        BY <2>2, <2>3, KeptTransitive
    <2> QED
        BY <2>4 DEF r
<1>3. CASE e.kind \in ReviewKinds /\ d.rev[n] = "rejected"
    <2>1. r = Settled(d, n, e.kind, "rejected", FALSE)
        BY <1>3, DrainBufferedIs
    <2> QED
        BY <1>1, <2>1, SettledBetween
<1>4. CASE /\ ~(e.kind \in ReviewKinds /\ d.rev[n] \in {"pending", "rejected"})
           /\ Stale(p, e)
    <2>1. r = Settled(d, n, e.kind, "rejected", TRUE)
        BY <1>4, DrainBufferedIs
    <2> QED
        BY <1>1, <2>1, SettledBetween
<1>5. CASE /\ ~(e.kind \in ReviewKinds /\ d.rev[n] \in {"pending", "rejected"})
           /\ ~Stale(p, e)
    <2>1. r = Reduced(d, n, e.kind, out)
        BY <1>5, DrainBufferedIs
    <2>2. e.kind \in ReviewKinds => d.rev[n] = "approved"
        BY <1>0, <1>5
    <2>3. PICK x : x = out
        OBVIOUS
    <2>4. x = Apply(s, [d EXCEPT !.v.inseq = n], Peer(s), n, e, FALSE) /\ r = Reduced(d, n, e.kind, x)
        BY <2>1, <2>3
    <2> HIDE DEF r, out, h
    <2>5. Between(s, Reduced(d, n, e.kind, x)) /\ Kept(d, Reduced(d, n, e.kind, x))
        BY <2>2, <2>4, ReducedBetween
    <2>6. Between(s, r) /\ Kept(d, r)
        BY <2>4, <2>5
    <2> QED
        BY <2>6 DEF r
<1> QED
    BY <1>2, <1>3, <1>4, <1>5

\* DrainStep without the operator that names its argument.
LEMMA DrainStepIs ==
    ASSUME NEW s, NEW d
    PROVE  LET p == Peer(s)
               n == d.v.inseq + 1
               e == own[p][n]
           IN DrainStep(s, d) =
                IF d.stop \/ n \notin DOMAIN own[p] \/ n > MaxSeq THEN Stopped(d)
                ELSE CASE d.inb[n] = "none" -> Stopped(d)
                       [] d.inb[n] = "buffered" ->
                            DrainBuffered(s, IF e.kind \in ReviewKinds THEN Reviewed(d, n) ELSE d,
                                          p, n, e)
                       [] OTHER -> Settled(d, n, e.kind, d.inb[n], TRUE)
BY DEF DrainStep, Once

\* One step of the drain.
LEMMA StepBetween ==
    ASSUME CollInv, NEW s \in Side, NEW d, Between(s, d)
    PROVE  Between(s, DrainStep(s, d)) /\ Kept(d, DrainStep(s, d))
<1> DEFINE p == Peer(s)
           n == d.v.inseq + 1
           e == own[p][n]
           r == DrainStep(s, d)
           x == IF e.kind \in ReviewKinds THEN Reviewed(d, n) ELSE d
<1>0. d \in Tx /\ d.v.inseq \in 0..MaxSeq /\ p \in Side /\ InOrder(d) /\ MaxSeq \in Nat
    BY EnvFacts, Sides DEF Between, TxInv, Tx, View
<1>1. CASE r = Stopped(d)
    BY <1>1, StoppedBetween
<1>2. CASE n \in 1..MaxSeq /\ n \in DOMAIN own[p] /\ d.inb[n] = "buffered"
           /\ r = DrainBuffered(s, x, p, n, e)
    <2>1. /\ Between(s, x) /\ Kept(d, x) /\ x.inb = d.inb /\ x.v = d.v
          /\ (e.kind \in ReviewKinds => x.rev[n] # "none")
        <3>1. CASE e.kind \in ReviewKinds
            BY <1>2, <3>1, ReviewedBetween
        <3>2. CASE e.kind \notin ReviewKinds
            BY <3>2 DEF Kept
        <3> QED
            BY <3>1, <3>2
    <2> HIDE DEF x, r
    <2>2. n = x.v.inseq + 1 /\ x.inb[n] = "buffered"
        BY <1>2, <2>1
    <2> HIDE DEF n
    <2>3. Between(s, r) /\ Kept(x, r)
        BY <1>2, <2>1, <2>2, BufferedBetween
    <2>4. Between(s, r) /\ Kept(d, r)
        BY <2>1, <2>3, KeptTransitive
    <2> QED
        BY <2>4 DEF r
<1>3. CASE n \in 1..MaxSeq /\ n \in DOMAIN own[p] /\ d.inb[n] \notin {"none", "buffered"}
           /\ r = Settled(d, n, e.kind, d.inb[n], TRUE)
    <2>1. d.inb[n] # "applied"
        <3>1. ~(n <= d.v.inseq)
            BY <1>0
        <3> QED
            BY <1>0, <1>3, <3>1 DEF InOrder
    <2>2. d.inb[n] = "rejected"
        BY <1>0, <1>3, <2>1 DEF Tx, InStatus
    <2>3. Settles(s, d, n, "rejected")
        BY <1>3, <2>2, Rejecting
    <2> QED
        BY <1>3, <2>2, <2>3, SettledBetween
<1>4. \/ r = Stopped(d)
      \/ n \in 1..MaxSeq /\ n \in DOMAIN own[p] /\ d.inb[n] = "buffered"
         /\ r = DrainBuffered(s, x, p, n, e)
      \/ n \in 1..MaxSeq /\ n \in DOMAIN own[p] /\ d.inb[n] \notin {"none", "buffered"}
         /\ r = Settled(d, n, e.kind, d.inb[n], TRUE)
    <2>1. n \in DOMAIN own[p] => n \in 1..MaxSeq
        BY <1>0, EnvFacts
    <2> HIDE DEF n
    <2>2. r = IF d.stop \/ n \notin DOMAIN own[p] \/ n > MaxSeq THEN Stopped(d)
              ELSE CASE d.inb[n] = "none" -> Stopped(d)
                     [] d.inb[n] = "buffered" -> DrainBuffered(s, x, p, n, e)
                     [] OTHER -> Settled(d, n, e.kind, d.inb[n], TRUE)
        BY DrainStepIs DEF n
    <2> HIDE DEF r, x, e
    <2> QED
        BY <2>1, <2>2
<1> QED
    BY <1>1, <1>2, <1>3, <1>4

\* A set of numbers that is not empty has a smallest.
LEMMA Smallest ==
    ASSUME NEW T, T \subseteq Nat, T # {}
    PROVE  \E n \in T : \A i \in T : ~(i < n)
<1>1. PICK n \in T : \A i \in T : ~(<<i, n>> \in OpToRel(<, Nat))
    BY NatLessThanWellFounded, WFMin
<1>2. \A i \in T : ~(i < n)
    BY <1>1 DEF OpToRel
<1> QED
    BY <1>2

\* The state of the drain of d after k steps is f[k].
Runs(s, d, m, f) == f = [k \in 0..m |-> IF k = 0 THEN d ELSE DrainStep(s, f[k - 1])]

\* A run of the drain has one more step.
LEMMA RunsOn ==
    ASSUME NEW s, NEW d, NEW m \in Nat, m # 0, NEW f, Runs(s, d, m - 1, f)
    PROVE  \E g : Runs(s, d, m, g)
<1> DEFINE g == [k \in 0..m |-> IF k < m THEN f[k] ELSE DrainStep(s, f[m - 1])]
<1>1. m - 1 \in 0..(m - 1) /\ 0 \in 0..(m - 1) /\ m - 1 \in Nat
    OBVIOUS
<1>2. \A k \in 0..(m - 1) : f[k] = IF k = 0 THEN d ELSE DrainStep(s, f[k - 1])
    BY DEF Runs
<1>3. ASSUME NEW k \in 0..m
      PROVE  g[k] = IF k = 0 THEN d ELSE DrainStep(s, g[k - 1])
    <2>1. CASE k < m
        <3>1. k \in 0..(m - 1) /\ g[k] = f[k]
            BY <2>1
        <3>2. CASE k = 0
            BY <1>2, <3>1, <3>2
        <3>3. CASE k # 0
            <4>1. k - 1 \in 0..m /\ k - 1 < m
                BY <2>1, <3>3
            <4>2. g[k - 1] = f[k - 1]
                BY <4>1
            <4> HIDE DEF g
            <4> QED
                BY <1>2, <3>1, <3>3, <4>2
        <3> QED
            BY <3>2, <3>3
    <2>2. CASE ~(k < m)
        <3>1. k = m /\ k # 0 /\ m - 1 \in 0..m /\ m - 1 < m
            BY <2>2
        <3>2. g[m - 1] = f[m - 1] /\ g[m] = DrainStep(s, f[m - 1])
            BY <3>1
        <3> HIDE DEF g
        <3> QED
            BY <3>1, <3>2
    <2> QED
        BY <2>1, <2>2
<1>4. g = [k \in 0..m |-> g[k]]
    OBVIOUS
<1> HIDE DEF g
<1>5. Runs(s, d, m, g)
    BY <1>3, <1>4 DEF Runs
<1> QED
    BY <1>5

\* The definition of the loop does define a function.
LEMMA RunExists ==
    ASSUME NEW s, NEW d, NEW m \in Nat
    PROVE  \E f : Runs(s, d, m, f)
<1> DEFINE T == {n \in Nat : ~\E f : Runs(s, d, n, f)}
<1>1. SUFFICES ASSUME T # {} PROVE FALSE
    OBVIOUS
<1>2. T \subseteq Nat
    OBVIOUS
<1>3. PICK n \in T : \A i \in T : ~(i < n)
    <2> HIDE DEF T
    <2> QED
        BY <1>1, <1>2, Smallest
<1>4. n # 0
    <2> SUFFICES ASSUME n = 0 PROVE FALSE
        OBVIOUS
    <2> DEFINE g == [k \in 0..0 |-> d]
    <2>1. g = [k \in 0..0 |-> IF k = 0 THEN d ELSE DrainStep(s, g[k - 1])]
        OBVIOUS
    <2> HIDE DEF g
    <2>2. Runs(s, d, 0, g)
        BY <2>1 DEF Runs
    <2> QED
        BY <1>3, <2>2
<1>5. n - 1 \in Nat /\ n - 1 < n /\ n \in Nat
    BY <1>3, <1>4
<1>6. \E f : Runs(s, d, n - 1, f)
    BY <1>3, <1>5
<1> QED
    BY <1>3, <1>4, <1>5, <1>6, RunsOn

\* Every step of a run leaves a state between two events: the first that did not
\* would break the lemma on one step.
LEMMA RunBetween ==
    ASSUME CollInv, NEW s \in Side, NEW d, Between(s, d), NEW f, Runs(s, d, MaxSeq, f),
           NEW m \in 0..MaxSeq
    PROVE  Between(s, f[m]) /\ Kept(d, f[m])
<1> DEFINE Good(k) == Between(s, f[k]) /\ Kept(d, f[k])
           T == {k \in 0..MaxSeq : ~Good(k)}
<1>0. MaxSeq \in Nat
    BY EnvFacts
<1>1. SUFFICES ASSUME T # {} PROVE FALSE
    OBVIOUS
<1>2. T \subseteq Nat
    BY <1>0
<1>3. PICK n \in T : \A i \in T : ~(i < n)
    <2> HIDE DEF T
    <2> QED
        BY <1>1, <1>2, Smallest
<1>4. \A k \in 0..MaxSeq : f[k] = IF k = 0 THEN d ELSE DrainStep(s, f[k - 1])
    BY DEF Runs
<1>5. n \in 0..MaxSeq /\ ~Good(n)
    BY <1>3
<1>6. CASE n = 0
    <2>1. f[n] = d
        BY <1>4, <1>5, <1>6
    <2>2. Good(n)
        BY <2>1 DEF Kept
    <2> QED
        BY <1>5, <2>2
<1>7. CASE n # 0
    <2>1. n - 1 \in 0..MaxSeq /\ n - 1 < n
        BY <1>0, <1>5, <1>7
    <2>2. n - 1 \notin T
        <3> HIDE DEF T
        <3> QED
            BY <1>3, <2>1
    <2>3. Good(n - 1)
        BY <2>1, <2>2
    <2>4. f[n] = DrainStep(s, f[n - 1])
        BY <1>4, <1>5, <1>7
    <2>5. Between(s, f[n]) /\ Kept(f[n - 1], f[n])
        BY <2>3, <2>4, StepBetween
    <2>6. Good(n)
        BY <2>3, <2>5, KeptTransitive
    <2> QED
        BY <1>5, <2>6
<1> QED
    BY <1>6, <1>7

\* The end of the drain asks for what is missing.
LEMMA DrainedBetween ==
    ASSUME CollInv, NEW s \in Side, NEW d, Between(s, d)
    PROVE  Between(s, Drained(s, d)) /\ Kept(d, Drained(s, d))
<1> DEFINE h == [d EXCEPT !.v.held = FALSE]
           safe == ReviewSafe(s, d.inb, d.rev)
           b == d.v.held /\ ~safe
           g == [d EXCEPT !.v.held = b]
           q == Queue(h, "sync_request", <<d.v.inseq>>)
           r == Drained(s, d)
<1>1. r = d \/ r = q \/ r = g
    BY DEF Drained
<1>2. Between(s, h) /\ Kept(d, h)
    BY StoppedBetween
<1>3. b \in BOOLEAN
    OBVIOUS
<1>4. Between(s, g) /\ Kept(d, g)
    <2> HIDE DEF b
    <2> QED
        BY <1>3, StoppedBetween
<1>5. Between(s, q) /\ Kept(h, q)
    <2>1. d.v.inseq \in Nat
        BY EnvFacts DEF Between, TxInv, Tx, View
    <2>2. <<d.v.inseq>> \in Ref /\ "sync_request" \in Maintenance
        BY <2>1 DEF Ref, Maintenance
    <2>3. Says(s, h, [kind |-> "sync_request", ref |-> <<d.v.inseq>>, st |-> "ready"])
        BY DEF Says
    <2> HIDE DEF h
    <2>4. TxInv(s, q, <<s, 0>>) /\ Keeps(h, q)
        BY <1>2, <2>2, <2>3, Queueing DEF Between
    <2> HIDE DEF q
    <2> QED
        BY <1>2, <2>4 DEF Between, InOrder, Keeps, Kept
<1>6. Kept(d, d)
    BY DEF Kept
<1> HIDE DEF r, q, g, h
<1>7. Between(s, r) /\ Kept(d, r)
    BY <1>1, <1>2, <1>4, <1>5, <1>6, KeptTransitive
<1> QED
    BY <1>7 DEF r

\* _v2_drain as a whole.
LEMMA DrainBetween ==
    ASSUME CollInv, NEW s \in Side, NEW d, Between(s, d)
    PROVE  Between(s, Drain(s, d)) /\ Kept(d, Drain(s, d))
<1>0. MaxSeq \in Nat
    BY EnvFacts
<1>1. \E f : Runs(s, d, MaxSeq, f) /\ Drain(s, d) = Drained(s, f[MaxSeq])
    <2> DEFINE loop[k \in 0..MaxSeq] == IF k = 0 THEN d ELSE DrainStep(s, loop[k - 1])
    <2>1. PICK f : Runs(s, d, MaxSeq, f)
        BY <1>0, RunExists
    <2>2. f = [k \in 0..MaxSeq |-> IF k = 0 THEN d ELSE DrainStep(s, f[k - 1])]
        BY <2>1 DEF Runs
    <2>3. loop = [k \in 0..MaxSeq |-> IF k = 0 THEN d ELSE DrainStep(s, loop[k - 1])]
        BY <2>2
    <2>4. Drain(s, d) = Drained(s, loop[MaxSeq])
        BY DEF Drain, Once
    <2> HIDE DEF loop
    <2>5. Runs(s, d, MaxSeq, loop)
        BY <2>3 DEF Runs
    <2> QED
        BY <2>4, <2>5
<1>2. PICK f : Runs(s, d, MaxSeq, f) /\ Drain(s, d) = Drained(s, f[MaxSeq])
    BY <1>1
<1>3. Between(s, f[MaxSeq]) /\ Kept(d, f[MaxSeq])
    BY <1>0, <1>2, RunBetween
<1> QED
    BY <1>2, <1>3, DrainedBetween, KeptTransitive

\* Recording events that their sender has applied.
LEMMA RecordedBetween ==
    ASSUME CollInv, NEW s \in Side, NEW d, Between(s, d), NEW ns,
           \A n \in 1..MaxSeq : n \in ns => Applied(Peer(s), n)
    PROVE  Between(s, Recorded(s, d, ns)) /\ Kept(d, Recorded(s, d, ns))
<1> DEFINE e == Recorded(s, d, ns)
           in == [n \in 1..MaxSeq |->
                    IF n \notin ns \/ d.inb[n] # "none" THEN d.inb[n]
                    ELSE IF Stale(Peer(s), own[Peer(s)][n]) THEN "rejected" ELSE "buffered"]
<1>0. /\ d \in Tx /\ TxInv(s, d, <<s, 0>>) /\ InOrder(d) /\ MaxSeq \in Nat
      /\ d.inb \in [1..MaxSeq -> InStatus] /\ d.v.inseq \in 0..MaxSeq
    BY EnvFacts DEF Between, TxInv, Tx, View
<1>1. in \in [1..MaxSeq -> InStatus]
    BY <1>0 DEF InStatus
<1>2. /\ e.v = d.v /\ e.mo = d.mo /\ e.rev = d.rev /\ e.stop = d.stop /\ e.inb = in
    BY <1>0 DEF Tx, Recorded
<1>3. e \in Tx
    <2> HIDE DEF in
    <2>1. e = [d EXCEPT !.inb = in]
        BY DEF Recorded, in
    <2> HIDE DEF e
    <2> QED
        BY <1>0, <1>1, <2>1 DEF Tx
<1>4. \A n \in 1..MaxSeq :
         /\ d.inb[n] # "none" => in[n] = d.inb[n]
         /\ in[n] # "none" => d.inb[n] # "none" \/ n \in ns
         /\ in[n] = "applied" <=> d.inb[n] = "applied"
    OBVIOUS
<1> HIDE DEF e, in
<1>5. Arrived(s, e)
    BY <1>0, <1>2, <1>4 DEF TxInv, Arrived
<1>6. Vetted(s, e) /\ Grown(s, e) /\ HonoursInv(s, e)
    BY <1>0, <1>2, <1>4 DEF TxInv, Vetted, Grown, HonoursInv
<1>7. \A x \in Side, k \in 1..MaxSeq : Done(s, d, <<s, 0>>, x, k) => Done(s, e, <<s, 0>>, x, k)
    BY <1>2, <1>4 DEF Done
<1>8. AcceptancesInv(s, e, <<s, 0>>)
    <2> SUFFICES ASSUME NEW x \in Side, d.v.acc[x].n # 0
                 PROVE  Accepting(x, d.v.acc[x].n, d.v.acc[x].terms)
                        /\ Done(s, e, <<s, 0>>, x, d.v.acc[x].n)
        BY <1>2 DEF AcceptancesInv
    <2>1. Accepting(x, d.v.acc[x].n, d.v.acc[x].terms) /\ Done(s, d, <<s, 0>>, x, d.v.acc[x].n)
        BY <1>0 DEF TxInv, AcceptancesInv
    <2>2. d.v.acc[x].n \in 1..MaxSeq
        BY <2>1, EnvFacts DEF Accepting
    <2> QED
        BY <1>7, <2>1, <2>2
<1>9. Truthful(s, e)
    <2>1. ASSUME NEW m, Says(s, d, m)
          PROVE  Says(s, e, m)
        BY <1>2, <1>4, <2>1 DEF Says
    <2> QED
        BY <1>0, <1>2, <2>1 DEF TxInv, Truthful
<1>10. AgreedInv(s, e, <<s, 0>>)
    <2>1. ASSUME NEW g, Evidence(s, d, <<s, 0>>, g)
          PROVE  Evidence(s, e, <<s, 0>>, g)
        BY <1>7, <2>1, Sides DEF Evidence
    <2> QED
        BY <1>0, <1>2, <2>1 DEF TxInv, AgreedInv
<1>11. SyncedInv(s, e)
    BY <1>0, <1>2, <1>4 DEF TxInv, SyncedInv
<1>12. WithdrawnInv(s, e)
    BY <1>0, <1>2, <1>4 DEF TxInv, WithdrawnInv
<1>13. InOrder(e)
    <2> SUFFICES ASSUME NEW n \in 1..MaxSeq
                 PROVE  IF n <= d.v.inseq THEN in[n] \in {"applied", "rejected"}
                        ELSE in[n] # "applied"
        BY <1>2 DEF InOrder
    <2>1. IF n <= d.v.inseq THEN d.inb[n] \in {"applied", "rejected"} ELSE d.inb[n] # "applied"
        BY <1>0 DEF InOrder
    <2> QED
        BY <1>4, <2>1
<1>14. Kept(d, e)
    BY <1>2 DEF Kept
<1> QED
    BY <1>3, <1>5, <1>6, <1>8, <1>9, <1>10, <1>11, <1>12, <1>13, <1>14 DEF Between, TxInv, e

-----------------------------------------------------------------------------
(* From one state to the next.                                              *)

\* A side's stream only grows, and what an event says and its application stay.
OwnGrows ==
    \A x \in Side : \A k \in DOMAIN own[x] :
       /\ k \in DOMAIN own'[x] /\ own'[x][k].kind = own[x][k].kind
       /\ own'[x][k].ref = own[x][k].ref
       /\ own[x][k].st = "applied" => own'[x][k].st = "applied"

\* What was applied, and what it accepts, stays when the streams grow.
LEMMA AppliedStays ==
    ASSUME OwnGrows, NEW x \in Side, NEW k
    PROVE  /\ Applied(x, k) => Applied(x, k)'
           /\ \A t : Accepting(x, k, t) => Accepting(x, k, t)'
BY DEF OwnGrows, Applied, Accepting

\* The invariant of the rows a side holds after a step in which the streams grew.
LEMMA NextTx ==
    ASSUME CollInv, OwnGrows, plan' = plan, NEW x \in Side, NEW d, NEW now, TxInv(x, d, now),
           \A y \in Side : \A k \in DOMAIN own[y] :
              Done(x, d, now, y, k) => Done(x, d, <<x, 0>>, y, k)',
           view'[x] = d.v, inb'[x] = d.inb,
           x = B => (d.v.agreement # <<>> => d.v.agreement = view'[A].agreement),
           d.v.synced => IF x = A THEN view'[B].agreement = d.v.agreement ELSE view'[A].synced,
           \A k \in DOMAIN own'[x] \ DOMAIN own[x] : Says(x, d, own[x][k])'
    PROVE  TxInv(x, d, <<x, 0>>)'
<1>0. d \in Tx /\ Peer(x) \in Side /\ MaxSeq \in Nat
    BY EnvFacts, Sides DEF TxInv
<1>1. (d \in Tx)'
    BY <1>0 DEF Tx, View, Acceptance, Queuing
<1>2. \A n \in 1..MaxSeq : d.inb[n] # "none" =>
         /\ n \in DOMAIN own[Peer(x)] /\ own'[Peer(x)][n].kind = own[Peer(x)][n].kind
         /\ own'[Peer(x)][n].ref = own[Peer(x)][n].ref
    BY <1>0 DEF TxInv, Arrived, Applied, OwnGrows
<1>3. Arrived(x, d)'
    BY <1>0, AppliedStays DEF TxInv, Arrived
<1>4. Vetted(x, d)'
    BY <1>0, <1>2 DEF TxInv, Vetted
<1>5. AcceptancesInv(x, d, <<x, 0>>)'
    <2> SUFFICES ASSUME NEW y \in Side, d.v.acc[y].n # 0
                 PROVE  /\ Accepting(y, d.v.acc[y].n, d.v.acc[y].terms)'
                        /\ Done(x, d, <<x, 0>>, y, d.v.acc[y].n)'
        BY DEF AcceptancesInv
    <2>1. Accepting(y, d.v.acc[y].n, d.v.acc[y].terms) /\ Done(x, d, now, y, d.v.acc[y].n)
        BY DEF TxInv, AcceptancesInv
    <2>2. d.v.acc[y].n \in DOMAIN own[y]
        BY <2>1 DEF Accepting
    <2> QED
        BY <2>1, <2>2, AppliedStays
<1>6. Truthful(x, d)'
    <2>1. ASSUME NEW m, Says(x, d, m)
          PROVE  Says(x, d, m)'
        BY <2>1, AppliedStays DEF Says
    <2>2. ASSUME NEW k \in DOMAIN own[x]
          PROVE  Says(x, d, own[x][k])'
        <3>1. Says(x, d, own[x][k])
            BY DEF TxInv, Truthful
        <3>2. own'[x][k].kind = own[x][k].kind /\ own'[x][k].ref = own[x][k].ref
            BY DEF OwnGrows
        <3> QED
            BY <3>1, <3>2, AppliedStays DEF Says
    <2>3. \A m \in d.mo : Says(x, d, m)'
        BY <2>1 DEF TxInv, Truthful
    <2> QED
        BY <2>2, <2>3 DEF Truthful
<1>7. AgreedInv(x, d, <<x, 0>>)'
    <2>1. ASSUME NEW g, Evidence(x, d, now, g)
          PROVE  Evidence(x, d, <<x, 0>>, g)'
        <3>1. PICK t \in 1..plan.versions, a, b \in 1..MaxSeq, i, j \in 0..MaxSeq :
                 /\ g = <<t, a, b, i, j>>
                 /\ Accepting(A, a, t) /\ Done(x, d, now, A, a)
                 /\ Accepting(B, b, t) /\ Done(x, d, now, B, b)
            BY <2>1 DEF Evidence
        <3>2. a \in DOMAIN own[A] /\ b \in DOMAIN own[B]
            BY <3>1 DEF Accepting
        <3>3. /\ Accepting(A, a, t)' /\ Done(x, d, <<x, 0>>, A, a)'
              /\ Accepting(B, b, t)' /\ Done(x, d, <<x, 0>>, B, b)'
            BY <3>1, <3>2, AppliedStays, Sides
        <3> QED
            BY <3>1, <3>3 DEF Evidence
    <2> QED
        BY <2>1, Sides DEF TxInv, AgreedInv
<1>8. SyncedInv(x, d)'
    <2>1. d.v.synced => d.v.agreement # <<>>
        BY DEF TxInv, SyncedInv
    <2>2. ASSUME NEW n \in 1..MaxSeq, x = A, d.inb[n] = "applied", own'[B][n].kind = "agreement_ack"
          PROVE  d.v.synced
        BY <1>2, <2>2, Sides DEF TxInv, SyncedInv
    <2> QED
        BY <2>1, <2>2 DEF SyncedInv
<1>9. WithdrawnInv(x, d)'
    <2> SUFFICES ASSUME x = A, NEW w \in 1..MaxSeq, d.inb[w] = "applied",
                        own'[B][w].kind = "withdraw"
                 PROVE  \E k \in 1..MaxSeq :
                           /\ own'[B][w].ref = <<k>> /\ d.inb[k] = "applied"
                           /\ d.v.agreement = <<>> => ~(d.v.acc[B].n = k /\ d.v.acc[B].active)
        BY DEF WithdrawnInv
    <2>1. own[B][w].kind = "withdraw" /\ own'[B][w].ref = own[B][w].ref
        BY <1>2, Sides
    <2> QED
        BY <2>1 DEF TxInv, WithdrawnInv
<1>10. HonoursInv(x, d)' /\ Grown(x, d)'
    BY DEF HonoursInv, Grown
<1> QED
    BY <1>1, <1>3, <1>4, <1>5, <1>6, <1>7, <1>8, <1>9, <1>10 DEF TxInv

\* A side's rows are a transaction that has just been opened.
LEMMA OpenedTx ==
    ASSUME CollInv, NEW s \in Side
    PROVE  /\ TxInv(s, Opened(s), <<s, 0>>) /\ InOrder(Opened(s)) /\ Between(s, Opened(s))
           /\ Opened(s).v = view[s] /\ Opened(s).mo = mops[s] /\ Opened(s).inb = inb[s]
           /\ Opened(s).rev = review[s] /\ Opened(s) \in Tx
BY DEF CollInv, SidesInv, Opened, TxInv, Between

\* The cursor never passes the peer's stream.
LEMMA CursorBound ==
    ASSUME CollInv, NEW s \in Side, NEW d, NEW now, TxInv(s, d, now), InOrder(d)
    PROVE  d.v.inseq <= Len(own[Peer(s)])
<1>0. d.v.inseq \in 0..MaxSeq /\ MaxSeq \in Nat /\ Peer(s) \in Side
    BY EnvFacts, Sides DEF TxInv, Tx, View
<1>1. CASE d.v.inseq = 0
    BY <1>0, <1>1, EnvFacts
<1>2. CASE d.v.inseq # 0
    <2> DEFINE n == d.v.inseq
    <2>1. n \in 1..MaxSeq /\ n <= n
        BY <1>0, <1>2
    <2>2. d.inb[n] \in {"applied", "rejected"}
        BY <2>1 DEF InOrder
    <2>3. n \in DOMAIN own[Peer(s)]
        BY <2>1, <2>2 DEF TxInv, Arrived, Applied
    <2> QED
        BY <1>0, <2>3, EnvFacts
<1> QED
    BY <1>1, <1>2

\* What the commit of a transaction makes of the other side's invariant.
Writes(s, d) ==
    /\ view' = [view EXCEPT ![s] = d.v] /\ mops' = [mops EXCEPT ![s] = d.mo]
    /\ inb' = [inb EXCEPT ![s] = d.inb] /\ review' = [review EXCEPT ![s] = d.rev]

\* The tables a transaction writes.
LEMMA Tables ==
    ASSUME CollInv
    PROVE  /\ view \in [Side -> View] /\ inb \in [Side -> [1..MaxSeq -> InStatus]]
           /\ review \in [Side -> [1..MaxSeq -> {"none", "pending", "approved", "rejected"}]]
           /\ mops \in [Side -> SUBSET Queuing]
BY DEF CollInv, TypeOK, InStatus

\* What they hold after it.
LEMMA Written ==
    ASSUME CollInv, NEW s \in Side, NEW d \in Tx, Writes(s, d)
    PROVE  /\ view'[s] = d.v /\ mops'[s] = d.mo /\ inb'[s] = d.inb /\ review'[s] = d.rev
           /\ \A x \in Side : x # s => /\ view'[x] = view[x] /\ mops'[x] = mops[x]
                                       /\ inb'[x] = inb[x] /\ review'[x] = review[x]
           /\ view' \in [Side -> View] /\ inb' \in [Side -> [1..MaxSeq -> InStatus]]
           /\ review' \in [Side -> [1..MaxSeq -> {"none", "pending", "approved", "rejected"}]]
           /\ mops' \in [Side -> SUBSET Queuing]
BY Tables DEF Writes, Tx

\* Side s commits d, in which it has handled its own event n (none if n is 0),
\* and its stream may have got new events.
LEMMA Committing ==
    ASSUME CollInv, NEW s \in Side, NEW d, NEW n, TxInv(s, d, <<s, n>>), InOrder(d), Writes(s, d),
           OwnGrows, own' \in [Side -> Seq(Event)], plan' = plan, n \in DOMAIN own[s] => own'[s][n].st = "applied",
           \A x \in Side : \A k \in DOMAIN own'[x] \ DOMAIN own[x] :
              x = s /\ Says(s, d, own[x][k])'
    PROVE  SidesInv' /\ (\A x \in Side : view'[x].inseq <= Len(own'[Peer(x)]))
<1> DEFINE p == Peer(s)
           e == [d EXCEPT !.stop = FALSE]
<1>0. /\ d \in Tx /\ p \in Side /\ p # s /\ Peer(p) = s /\ MaxSeq \in Nat
      /\ \A x \in Side : x = s \/ x = p
    BY EnvFacts, Sides DEF TxInv
<1>1. /\ e \in Tx /\ e.v = d.v /\ e.mo = d.mo /\ e.inb = d.inb /\ e.rev = d.rev
      /\ e = [v |-> d.v, mo |-> d.mo, inb |-> d.inb, rev |-> d.rev, stop |-> FALSE]
    <2>1. e \in Tx /\ e.v = d.v /\ e.mo = d.mo /\ e.inb = d.inb /\ e.rev = d.rev /\ e.stop = FALSE
        BY <1>0 DEF Tx
    <2> HIDE DEF e
    <2>2. e = [v |-> e.v, mo |-> e.mo, inb |-> e.inb, rev |-> e.rev, stop |-> e.stop]
        BY <2>1 DEF Tx
    <2> QED
        BY <2>1, <2>2
<1>2. Opened(s)' = e
    BY <1>0, <1>1, Written DEF Opened
<1> HIDE DEF e
<1>3. TxInv(s, e, <<s, n>>) /\ InOrder(e)
    BY <1>1, Frame DEF InOrder
<1>4. /\ view'[s] = e.v /\ inb'[s] = e.inb /\ view'[p] = view[p] /\ inb'[p] = inb[p]
      /\ mops'[p] = mops[p] /\ review'[p] = review[p]
    BY <1>0, <1>1, Written
<1>5. TxInv(s, e, <<s, 0>>)'
    <2>1. ASSUME NEW y \in Side, NEW k \in DOMAIN own[y], Done(s, e, <<s, n>>, y, k)
          PROVE  Done(s, e, <<s, 0>>, y, k)'
        BY <2>1 DEF Done, OwnGrows
    <2>2. s = B => (e.v.agreement # <<>> => e.v.agreement = view'[A].agreement)
        BY <1>0, <1>3, <1>4, Sides DEF TxInv, AgreedInv
    <2>3. e.v.synced => IF s = A THEN view'[B].agreement = e.v.agreement ELSE view'[A].synced
        BY <1>0, <1>3, <1>4, Sides DEF TxInv, SyncedInv
    <2>4. \A k \in DOMAIN own'[s] \ DOMAIN own[s] : Says(s, e, own[s][k])'
        BY <1>1 DEF Says
    <2> QED
        BY <1>3, <1>4, <2>1, <2>2, <2>3, <2>4, NextTx
<1>6. TxInv(p, Opened(p), <<p, 0>>)'
    <2> DEFINE q == Opened(p)
    <2>1. TxInv(p, q, <<p, 0>>) /\ q.v = view[p] /\ q.inb = inb[p]
        BY <1>0, OpenedTx
    <2>2. q' = q
        BY <1>4 DEF Opened
    <2>3. PICK f : f = q
        OBVIOUS
    <2> HIDE DEF q
    <2>4. ASSUME NEW y \in Side, NEW k \in DOMAIN own[y], Done(p, f, <<p, 0>>, y, k)
          PROVE  Done(p, f, <<p, 0>>, y, k)'
        BY <2>4 DEF Done, OwnGrows
    <2>5. p = B => (f.v.agreement # <<>> => f.v.agreement = view'[A].agreement)
        BY <1>0, <1>3, <1>4, <2>1, <2>3, Sides DEF TxInv, AgreedInv
    <2>6. f.v.synced => IF p = A THEN view'[B].agreement = f.v.agreement ELSE view'[A].synced
        <3>1. f.v.synced => /\ f.v.agreement # <<>>
                            /\ IF p = A THEN view[B].agreement = f.v.agreement ELSE view[A].synced
            BY <2>1, <2>3 DEF TxInv, SyncedInv
        <3>2. view[s].synced => e.v.synced
            BY <1>3 DEF TxInv, SyncedInv
        <3>3. view[s].agreement # <<>> => e.v.agreement = view[s].agreement
            BY <1>3 DEF TxInv, AgreedInv
        <3> QED
            BY <1>0, <1>4, <3>1, <3>2, <3>3, Sides
    <2>7. \A k \in DOMAIN own'[p] \ DOMAIN own[p] : Says(p, f, own[p][k])'
        BY <1>0
    <2>8. TxInv(p, f, <<p, 0>>)'
        BY <1>0, <1>4, <2>1, <2>3, <2>4, <2>5, <2>6, <2>7, NextTx
    <2>9. f = q'
        BY <2>2, <2>3
    <2> QED
        BY <2>8, <2>9 DEF q
<1>7. InOrder(Opened(p))'
    <2>1. InOrder(Opened(p)) /\ Opened(p).v = view[p] /\ Opened(p).inb = inb[p]
        BY <1>0, OpenedTx
    <2>2. Opened(p)' = Opened(p)
        BY <1>4 DEF Opened
    <2> QED
        BY <2>1, <2>2 DEF InOrder
<1>8. SidesInv'
    <2>1. TxInv(s, Opened(s), <<s, 0>>)' /\ InOrder(Opened(s))'
        BY <1>2, <1>3, <1>5 DEF InOrder
    <2> QED
        BY <1>0, <1>6, <1>7, <2>1 DEF SidesInv
<1>9. view'[s].inseq <= Len(own[p])
    BY <1>3, <1>4, CursorBound
<1>10. view'[p].inseq <= Len(own[s])
    <2>1. TxInv(p, Opened(p), <<p, 0>>) /\ InOrder(Opened(p)) /\ Opened(p).v = view[p]
        BY <1>0, OpenedTx
    <2>2. Opened(p).v.inseq <= Len(own[Peer(p)])
        BY <1>0, <2>1, CursorBound
    <2> QED
        BY <1>0, <1>4, <2>1, <2>2
<1>11. view'[s].inseq \in Nat /\ view'[p].inseq \in Nat
    BY <1>0, Written DEF View
<1>12. ASSUME NEW x \in Side
       PROVE  Len(own[x]) <= Len(own'[x])
    <2>1. Len(own[x]) \in Nat /\ Len(own'[x]) \in Nat /\ DOMAIN own[x] = 1..Len(own[x])
          /\ DOMAIN own'[x] = 1..Len(own'[x])
        BY EnvFacts
    <2>2. CASE Len(own[x]) = 0
        BY <2>1, <2>2
    <2>3. CASE Len(own[x]) # 0
        <3>1. Len(own[x]) \in DOMAIN own[x]
            BY <2>1, <2>3
        <3>2. Len(own[x]) \in DOMAIN own'[x]
            BY <3>1 DEF OwnGrows
        <3> QED
            BY <2>1, <3>2
    <2> QED
        BY <2>2, <2>3
<1>13. Len(own[s]) \in Nat /\ Len(own[p]) \in Nat /\ Len(own'[s]) \in Nat /\ Len(own'[p]) \in Nat
    BY <1>0, EnvFacts
<1>14. view'[s].inseq <= Len(own'[p]) /\ view'[p].inseq <= Len(own'[s])
    BY <1>0, <1>9, <1>10, <1>11, <1>12, <1>13
<1> QED
    BY <1>0, <1>8, <1>14

\* A step that writes none of the tables keeps the invariant of both sides.
LEMMA Unwritten ==
    ASSUME CollInv, UNCHANGED <<view, own, inb, mops, review, plan>>
    PROVE  SidesInv' /\ BoundInv' /\ OwnGrows
           /\ (\A x \in Side : view'[x].inseq <= Len(own'[Peer(x)]))
<1>1. OwnGrows
    BY DEF OwnGrows
<1>2. A \in Side /\ own \in [Side -> Seq(Event)]
    BY Sides, EnvFacts
<1>3. TxInv(A, Opened(A), <<A, 0>>) /\ InOrder(Opened(A))
    BY <1>2, OpenedTx
<1>4. Writes(A, Opened(A))
    BY <1>2, Tables, OpenedTx DEF Writes
<1>5. 0 \notin DOMAIN own[A]
    BY <1>2, EnvFacts
<1>6. SidesInv' /\ (\A x \in Side : view'[x].inseq <= Len(own'[Peer(x)]))
    <2> DEFINE d == Opened(A)
    <2>1. TxInv(A, d, <<A, 0>>) /\ InOrder(d) /\ Writes(A, d)
        BY <1>3, <1>4
    <2> HIDE DEF d
    <2> QED
        BY <1>1, <1>2, <1>5, <2>1, Committing
<1>7. BoundInv'
    BY DEF CollInv, BoundInv
<1> QED
    BY <1>1, <1>6, <1>7

\* What the mailbox holds stays applied.
LEMMA MailStays ==
    ASSUME CollInv, OwnGrows, NEW s \in Side, NEW pk \in mail[s]
    PROVE  /\ (pk.kind = "event" => \E n \in 1..MaxSeq : pk.ref = <<n>> /\ Applied(s, n)')
           /\ (pk.kind = "sync_response" => \A n \in Carried(pk.ref) : Applied(s, n)')
BY AppliedStays DEF CollInv, MailInv

\* Side s is bound and its peer untouched.
LEMMA BoundStays ==
    ASSUME CollInv, OwnGrows, NEW s \in Side, view'[s].bound,
           view'[Peer(s)] = view[Peer(s)], inb'[Peer(s)] = inb[Peer(s)],
           review'[Peer(s)] = review[Peer(s)], own'[Peer(s)] = own[Peer(s)],
           s = B => (view'[B].invited => 1 \in 1..MaxSeq /\ review'[B][1] = "approved")
    PROVE  BoundInv'
<1> DEFINE p == Peer(s)
<1>0. p \in Side /\ Peer(p) = s /\ p # s /\ (\A x \in Side : x = s \/ x = p) /\ (s = B \/ p = B)
    BY Sides
<1>1. ASSUME ~view[p].bound
      PROVE  /\ view[p].inseq = 0 /\ view[p].permit # "live" /\ own[p] = <<>>
             /\ \A n \in 1..MaxSeq : /\ inb[p][n] = "none"
                                     /\ review[p][n] # "none" => own'[s][n].kind = "invite"
    <2>1. /\ view[p].inseq = 0 /\ view[p].permit # "live" /\ own[p] = <<>>
          /\ \A n \in 1..MaxSeq : /\ inb[p][n] = "none"
                                  /\ review[p][n] # "none" => own[s][n].kind = "invite"
        BY <1>0, <1>1 DEF CollInv, BoundInv
    <2>2. Arrived(p, Opened(p)) /\ Opened(p).rev = review[p]
        BY <1>0, OpenedTx DEF TxInv
    <2>3. ASSUME NEW n \in 1..MaxSeq, review[p][n] # "none"
          PROVE  own'[s][n].kind = own[s][n].kind
        <3>1. n \in DOMAIN own[s]
            BY <1>0, <2>2, <2>3 DEF Arrived, Applied
        <3> QED
            BY <3>1 DEF OwnGrows
    <2> QED
        BY <2>1, <2>3
<1>2. view'[B].invited => 1 \in 1..MaxSeq /\ review'[B][1] = "approved"
    BY <1>0 DEF CollInv, BoundInv
<1> QED
    BY <1>0, <1>1, <1>2 DEF BoundInv

\* Removing one element of a sequence.
LEMMA RemoveFacts ==
    ASSUME NEW S, NEW q \in Seq(S), NEW i \in DOMAIN q
    PROVE  /\ RemoveAt(q, i) \in Seq(S) /\ Len(RemoveAt(q, i)) = Len(q) - 1
           /\ \A k \in DOMAIN RemoveAt(q, i) : \E j \in DOMAIN q : RemoveAt(q, i)[k] = q[j]
<1> DEFINE l == SubSeq(q, 1, i - 1)
           r == SubSeq(q, i + 1, Len(q))
<1>0. Len(q) \in Nat /\ i \in 1..Len(q) /\ DOMAIN q = 1..Len(q)
    OBVIOUS
<1>1. l \in Seq(S) /\ Len(l) = i - 1 /\ \A k \in 1..(i - 1) : l[k] = q[k]
    BY <1>0, SubSeqProperties
<1>2. r \in Seq(S) /\ Len(r) = Len(q) - i /\ \A k \in 1..(Len(q) - i) : r[k] = q[i + k]
    <2>1. r \in Seq(S) /\ Len(r) = IF i + 1 <= Len(q) THEN Len(q) - (i + 1) + 1 ELSE 0
        BY <1>0, SubSeqProperties
    <2>2. \A k \in 1..(Len(q) - (i + 1) + 1) : r[k] = q[(i + 1) + k - 1]
        BY <1>0, SubSeqProperties
    <2> HIDE DEF r
    <2>3. Len(r) = Len(q) - i
        BY <1>0, <2>1
    <2>4. ASSUME NEW k \in 1..(Len(q) - i)
          PROVE  r[k] = q[i + k]
        <3>1. k \in 1..(Len(q) - (i + 1) + 1) /\ (i + 1) + k - 1 = i + k
            BY <1>0
        <3> QED
            BY <2>2, <3>1
    <2> QED
        BY <2>1, <2>3, <2>4
<1>3. RemoveAt(q, i) = l \o r
    BY DEF RemoveAt
<1> HIDE DEF l, r
<1>4. l \o r \in Seq(S) /\ Len(l \o r) = Len(q) - 1 /\ DOMAIN (l \o r) = 1..(Len(q) - 1)
    <2>1. l \o r \in Seq(S) /\ Len(l \o r) = Len(l) + Len(r)
        BY <1>1, <1>2, ConcatProperties
    <2>2. Len(l) + Len(r) = Len(q) - 1
        <3> DEFINE n == Len(q)
        <3>1. Len(l) = i - 1 /\ Len(r) = n - i /\ n \in Nat /\ i \in Int
            BY <1>0, <1>1, <1>2
        <3> HIDE DEF n
        <3>2. Len(l) + Len(r) = n - 1
            BY <3>1
        <3> QED
            BY <3>2 DEF n
    <2>3. DOMAIN (l \o r) = 1..Len(l \o r)
        BY <2>1
    <2> QED
        BY <2>1, <2>2, <2>3
<1>5. ASSUME NEW k \in 1..(Len(q) - 1)
      PROVE  \E j \in DOMAIN q : (l \o r)[k] = q[j]
    <2>1. CASE k <= i - 1
        <3>1. (l \o r)[k] = l[k] /\ k \in 1..(i - 1) /\ k \in DOMAIN q
            BY <1>0, <1>1, <1>2, <2>1
        <3> QED
            BY <1>1, <3>1
    <2>2. CASE ~(k <= i - 1)
        <3> DEFINE m == k - (i - 1)
        <3>1. m \in 1..(Len(q) - i) /\ i + m \in DOMAIN q
            BY <1>0, <2>2
        <3>2. (l \o r)[k] = r[m]
            BY <1>0, <1>1, <1>2, <2>2
        <3> HIDE DEF m
        <3> QED
            BY <1>2, <3>1, <3>2
    <2> QED
        BY <2>1, <2>2
<1> QED
    BY <1>3, <1>4, <1>5

\* A side's stream with one more event.
LEMMA Appended ==
    ASSUME CollInv, NEW s \in Side, NEW e \in Event, own' = [own EXCEPT ![s] = Append(own[s], e)]
    PROVE  /\ own' \in [Side -> Seq(Event)] /\ OwnGrows
           /\ Len(own'[s]) = Len(own[s]) + 1 /\ own'[s][Len(own[s]) + 1] = e
           /\ \A x \in Side : x # s => own'[x] = own[x]
           /\ \A x \in Side : \A k \in DOMAIN own'[x] :
                 k \notin DOMAIN own[x] => x = s /\ k = Len(own[s]) + 1 /\ own'[x][k] = e
           /\ \A x \in Side : \A k \in DOMAIN own[x] : own'[x][k] = own[x][k]
<1>0. own \in [Side -> Seq(Event)] /\ own[s] \in Seq(Event) /\ Len(own[s]) \in Nat
    BY EnvFacts
<1>1. /\ own' \in [Side -> Seq(Event)] /\ own'[s] = Append(own[s], e)
      /\ \A x \in Side : x # s => own'[x] = own[x]
    BY <1>0
<1>2. /\ Len(own'[s]) = Len(own[s]) + 1 /\ own'[s][Len(own[s]) + 1] = e
      /\ DOMAIN own[s] = 1..Len(own[s]) /\ DOMAIN own'[s] = 1..(Len(own[s]) + 1)
      /\ \A k \in 1..Len(own[s]) : own'[s][k] = own[s][k]
    BY <1>0, <1>1
<1>3. \A k \in DOMAIN own'[s] : k \notin DOMAIN own[s] => k = Len(own[s]) + 1
    BY <1>0, <1>2
<1>4. \A x \in Side : \A k \in DOMAIN own[x] : k \in DOMAIN own'[x] /\ own'[x][k] = own[x][k]
    BY <1>0, <1>1, <1>2
<1>5. OwnGrows
    BY <1>4 DEF OwnGrows
<1> QED
    BY <1>1, <1>2, <1>3, <1>4, <1>5

-----------------------------------------------------------------------------
(* The owner's actions.                                                     *)

\* A step that changes only the operations of the owner, to well-formed ones.
LEMMA OpsOnly ==
    ASSUME CollInv, ops' \in [Side -> Seq(Operation)],
           \A x \in Side : Len(own[x]) + Len(ops'[x]) <= MaxSeq,
           \A x \in Side : \A i \in DOMAIN ops'[x] : OpShape(x, ops'[x][i]),
           UNCHANGED <<view, own, inb, mops, review, task, expired, mail, lost, faults, plan>>
    PROVE  CollInv'
<1>1. SidesInv' /\ BoundInv' /\ OwnGrows
    BY Unwritten
<1>2. TypeOK'
    BY DEF CollInv, TypeOK, View, Acceptance, Queuing, Operation, Facts
<1>3. Shapes'
    BY DEF CollInv, Shapes, OpShape, Shape
<1>4. MailInv'
    BY DEF CollInv, MailInv, Applied
<1> QED
    BY <1>1, <1>2, <1>3, <1>4 DEF CollInv

\* The operations of a side.
LEMMA SeqFacts ==
    ASSUME CollInv, NEW s \in Side
    PROVE  /\ ops \in [Side -> Seq(Operation)] /\ ops[s] \in Seq(Operation)
           /\ Len(ops[s]) \in Nat /\ Len(own[s]) \in Nat /\ Len(own[s]) + Len(ops[s]) <= MaxSeq
           /\ DOMAIN ops[s] = 1..Len(ops[s]) /\ \A i \in DOMAIN ops[s] : ops[s][i] \in Operation
<1>1. ops \in [Side -> Seq(Operation)] /\ Len(own[s]) + Len(ops[s]) <= MaxSeq
    BY DEF CollInv, TypeOK
<1>2. ops[s] \in Seq(Operation)
    BY <1>1
<1> QED
    BY <1>1, <1>2, EnvFacts

\* Drop keeps the invariant.
LEMMA DropKeeps ==
    ASSUME CollInv, NEW s \in Side, NEW i, Drop(s, i)
    PROVE  CollInv'
<1>1. i \in DOMAIN ops[s] /\ ops' = [ops EXCEPT ![s] = RemoveAt(ops[s], i)]
      /\ UNCHANGED <<view, own, inb, mops, review, task, expired, mail, lost, faults, plan>>
    BY DEF Drop
<1> DEFINE r == RemoveAt(ops[s], i)
<1>2. /\ r \in Seq(Operation) /\ Len(r) = Len(ops[s]) - 1
      /\ \A k \in DOMAIN r : \E j \in DOMAIN ops[s] : r[k] = ops[s][j]
    BY <1>1, SeqFacts, RemoveFacts
<1> HIDE DEF r
<1>3. ops' \in [Side -> Seq(Operation)] /\ ops'[s] = r /\ \A x \in Side : x # s => ops'[x] = ops[x]
    BY <1>1, <1>2, SeqFacts DEF r
<1>4. ASSUME NEW x \in Side
      PROVE  Len(own[x]) + Len(ops'[x]) <= MaxSeq
    <2>1. CASE x = s
        BY <1>2, <1>3, <2>1, SeqFacts, EnvFacts
    <2>2. CASE x # s
        BY <1>3, <2>2, SeqFacts
    <2> QED
        BY <2>1, <2>2
<1>5. ASSUME NEW x \in Side, NEW k \in DOMAIN ops'[x]
      PROVE  OpShape(x, ops'[x][k])
    BY <1>2, <1>3 DEF CollInv, Shapes
<1> QED
    BY <1>1, <1>3, <1>4, <1>5, OpsOnly

\* Replacing one element of a sequence.
LEMMA ReplaceFacts ==
    ASSUME NEW S, NEW q \in Seq(S), NEW i \in DOMAIN q, NEW e \in S
    PROVE  /\ [q EXCEPT ![i] = e] \in Seq(S) /\ Len([q EXCEPT ![i] = e]) = Len(q)
           /\ DOMAIN [q EXCEPT ![i] = e] = DOMAIN q
           /\ \A k \in DOMAIN q : [q EXCEPT ![i] = e][k] = IF k = i THEN e ELSE q[k]
<1>1. Len(q) \in Nat /\ DOMAIN q = 1..Len(q) /\ \A k \in 1..Len(q) : q[k] \in S
    OBVIOUS
<1>2. [q EXCEPT ![i] = e] \in Seq(S) /\ Len([q EXCEPT ![i] = e]) = Len(q)
    BY ExceptSeq
<1>3. DOMAIN [q EXCEPT ![i] = e] = DOMAIN q
    OBVIOUS
<1>4. ASSUME NEW k \in DOMAIN q
      PROVE  [q EXCEPT ![i] = e][k] = IF k = i THEN e ELSE q[k]
    BY <1>4
<1> QED
    BY <1>2, <1>3, <1>4

\* A reference to one number.
LEMMA Single ==
    ASSUME NEW x \in Nat
    PROVE  <<x>> \in Ref
BY DEF Ref

\* Approve keeps the invariant.
LEMMA ApproveKeeps ==
    ASSUME CollInv, NEW s \in Side, NEW i, Approve(s, i)
    PROVE  CollInv'
<1>1. i \in DOMAIN ops[s] /\ ops' = [ops EXCEPT ![s][i].ready = TRUE]
      /\ UNCHANGED <<view, own, inb, mops, review, task, expired, mail, lost, faults, plan>>
    BY DEF Approve
<1> DEFINE o == [ops[s][i] EXCEPT !.ready = TRUE]
           r == [ops[s] EXCEPT ![i] = o]
<1>2. o \in Operation /\ o.kind = ops[s][i].kind /\ o.ref = ops[s][i].ref
    BY <1>1, SeqFacts DEF Operation
<1>3. ops' = [ops EXCEPT ![s] = r]
    BY <1>1, SeqFacts
<1> HIDE DEF o
<1>4. /\ r \in Seq(Operation) /\ Len(r) = Len(ops[s]) /\ DOMAIN r = DOMAIN ops[s]
      /\ \A k \in DOMAIN r : r[k] = IF k = i THEN o ELSE ops[s][k]
    <2>1. ops[s] \in Seq(Operation)
        BY SeqFacts
    <2> QED
        BY <1>1, <1>2, <2>1, ReplaceFacts
<1> HIDE DEF r
<1>5. ops' \in [Side -> Seq(Operation)] /\ ops'[s] = r /\ \A x \in Side : x # s => ops'[x] = ops[x]
    BY <1>3, <1>4, SeqFacts
<1>6. \A x \in Side : Len(own[x]) + Len(ops'[x]) <= MaxSeq
    BY <1>4, <1>5, SeqFacts
<1>7. ASSUME NEW x \in Side, NEW k \in DOMAIN ops'[x]
      PROVE  OpShape(x, ops'[x][k])
    <2>1. CASE x = s /\ k = i
        <3>1. OpShape(s, ops[s][i])
            BY <1>1 DEF CollInv, Shapes
        <3>2. ops'[x][k] = o
            BY <1>4, <1>5, <2>1
        <3> QED
            BY <1>2, <2>1, <3>1, <3>2 DEF OpShape, Shape
    <2>2. CASE ~(x = s /\ k = i)
        BY <1>4, <1>5, <2>2 DEF CollInv, Shapes
    <2> QED
        BY <2>1, <2>2
<1> QED
    BY <1>1, <1>5, <1>6, <1>7, OpsOnly

\* What _v2_payload refers to has the shape its kind asks for.
LEMMA CompiledFacts ==
    ASSUME CollInv, NEW s \in Side, NEW kind \in Business, Compilable(s, kind)
    PROVE  /\ Compiled(s, kind) \in Ref
           /\ kind \in {"proposal", "accept"} => \E t \in 1..plan.versions : Compiled(s, kind) = <<t>>
           /\ kind = "withdraw" => \E k \in 1..MaxSeq : Compiled(s, kind) = <<k>>
<1>0. /\ view[s] \in View /\ plan.versions \in Nat /\ MaxSeq \in Nat
      /\ view[s].terms \in 0..plan.versions /\ view[s].agreement \in Ref
      /\ view[s].acc[s].n \in 0..MaxSeq
    BY EnvFacts DEF View, Acceptance
<1>1. CASE kind = "proposal"
    <2>1. Compiled(s, kind) = <<view[s].terms + 1>> /\ view[s].terms + 1 \in 1..plan.versions
        BY <1>0, <1>1 DEF Compiled, Compilable
    <2>2. view[s].terms + 1 \in Nat
        BY <1>0, <2>1
    <2>3. <<view[s].terms + 1>> \in Ref
        BY <2>2, Single
    <2> QED
        BY <1>1, <2>1, <2>3
<1>2. CASE kind = "accept"
    <2>1. Compiled(s, kind) = <<view[s].terms>> /\ view[s].terms \in 1..plan.versions
        BY <1>0, <1>2 DEF Compiled, Compilable
    <2>2. view[s].terms \in Nat
        BY <1>0, <2>1
    <2>3. <<view[s].terms>> \in Ref
        BY <2>2, Single
    <2> QED
        BY <1>2, <2>1, <2>3
<1>3. CASE kind = "withdraw"
    <2>1. Compiled(s, kind) = <<view[s].acc[s].n>> /\ view[s].acc[s].n \in 1..MaxSeq
        BY <1>0, <1>3 DEF Compiled, Compilable
    <2>2. view[s].acc[s].n \in Nat
        BY <1>0, <2>1
    <2>3. <<view[s].acc[s].n>> \in Ref
        BY <2>2, Single
    <2> QED
        BY <1>3, <2>1, <2>3
<1>4. CASE kind \in {"cancel_request", "cancel_ack"}
    BY <1>0, <1>4 DEF Compiled
<1>5. CASE kind \notin {"proposal", "accept", "withdraw", "cancel_request", "cancel_ack"}
    BY <1>5 DEF Compiled, Ref
<1> QED
    BY <1>1, <1>2, <1>3, <1>4, <1>5

\* Prepare keeps the invariant.
LEMMA PrepareKeeps ==
    ASSUME CollInv, NEW s \in Side, NEW kind \in Business, Prepare(s, kind)
    PROVE  CollInv'
<1> DEFINE once == kind \in Recovery /\ (~Live(s) \/ Used(s) >= plan.budget[s])
           o == [kind |-> kind, ref |-> Compiled(s, kind), context |-> Context(view[s]),
                 revoked |-> task[s] = "revoked", once |-> once,
                 ready |-> kind \in {"proposal", "accept", "change_request"}]
<1>1. /\ kind \in {"invite", "join"} =>
            kind = (IF s = A THEN "invite" ELSE "join") /\ (s = B => view[s].invited)
      /\ kind \notin {"invite", "join"} => view[s].bound
      /\ Compilable(s, kind) /\ Len(own[s]) + Len(ops[s]) < MaxSeq
      /\ ops' = [ops EXCEPT ![s] = Append(ops[s], o)]
      /\ UNCHANGED <<view, own, inb, mops, review, task, expired, mail, lost, faults, plan>>
    BY DEF Prepare
<1>2. Context(view[s]) \in Facts
    BY EnvFacts DEF Context, Facts, View
<1>3. Compiled(s, kind) \in Ref
    BY <1>1, CompiledFacts
<1>4. o \in Operation /\ o.kind = kind /\ o.ref = Compiled(s, kind)
    <2> HIDE DEF once
    <2>1. once \in BOOLEAN
        BY DEF once
    <2> QED
        BY <1>2, <1>3, <2>1 DEF Operation
<1> HIDE DEF o
<1>5. OpShape(s, o)
    <2>1. /\ kind \in {"proposal", "accept"} => \E t \in 1..plan.versions : o.ref = <<t>>
          /\ kind = "withdraw" => \E k \in 1..MaxSeq : o.ref = <<k>>
        BY <1>1, <1>4, CompiledFacts
    <2> QED
        BY <1>1, <1>4, <2>1, Sides DEF OpShape, Shape
<1>6. /\ ops' \in [Side -> Seq(Operation)] /\ ops'[s] = Append(ops[s], o)
      /\ \A x \in Side : x # s => ops'[x] = ops[x]
    <2> DEFINE r == Append(ops[s], o)
    <2>1. r \in Seq(Operation)
        BY <1>4, SeqFacts, AppendProperties
    <2>2. ops' = [ops EXCEPT ![s] = r]
        BY <1>1
    <2> HIDE DEF r
    <2>3. ops' \in [Side -> Seq(Operation)] /\ ops'[s] = r /\ \A x \in Side : x # s => ops'[x] = ops[x]
        BY <2>1, <2>2, SeqFacts
    <2> QED
        BY <2>3 DEF r
<1>7. /\ Len(ops'[s]) = Len(ops[s]) + 1 /\ DOMAIN ops'[s] = 1..(Len(ops[s]) + 1)
      /\ ops'[s][Len(ops[s]) + 1] = o /\ \A k \in 1..Len(ops[s]) : ops'[s][k] = ops[s][k]
    BY <1>4, <1>6, SeqFacts
<1>8. ASSUME NEW x \in Side
      PROVE  Len(own[x]) + Len(ops'[x]) <= MaxSeq
    <2>1. CASE x = s
        BY <1>1, <1>7, <2>1, SeqFacts, EnvFacts
    <2>2. CASE x # s
        BY <1>6, <2>2, SeqFacts
    <2> QED
        BY <2>1, <2>2
<1>9. ASSUME NEW x \in Side, NEW k \in DOMAIN ops'[x]
      PROVE  OpShape(x, ops'[x][k])
    <2>1. CASE x = s /\ k = Len(ops[s]) + 1
        BY <1>5, <1>7, <2>1
    <2>2. CASE ~(x = s /\ k = Len(ops[s]) + 1)
        <3>1. k \in DOMAIN ops[x] /\ ops'[x][k] = ops[x][k]
            BY <1>6, <1>7, <2>2, SeqFacts
        <3> QED
            BY <3>1 DEF CollInv, Shapes
    <2> QED
        BY <2>1, <2>2
<1> QED
    BY <1>1, <1>6, <1>8, <1>9, OpsOnly

\* RevokeTask keeps the invariant.
LEMMA RevokeTaskKeeps ==
    ASSUME CollInv, NEW s \in Side, RevokeTask(s)
    PROVE  CollInv'
<1>1. /\ task' = [task EXCEPT ![s] = "revoked"]
      /\ UNCHANGED <<view, own, inb, mops, ops, review, expired, mail, lost, faults, plan>>
    BY DEF RevokeTask
<1>2. SidesInv' /\ BoundInv' /\ OwnGrows
    BY <1>1, Unwritten
<1>3. TypeOK'
    BY <1>1 DEF CollInv, TypeOK, View, Acceptance, Queuing, Operation, Facts
<1>4. Shapes' /\ MailInv'
    BY <1>1 DEF CollInv, Shapes, OpShape, Shape, MailInv, Applied
<1> QED
    BY <1>2, <1>3, <1>4 DEF CollInv

\* Expire keeps the invariant.
LEMMA ExpireKeeps ==
    ASSUME CollInv, NEW s \in Side, Expire(s)
    PROVE  CollInv'
<1>1. /\ expired' = expired \cup {s}
      /\ UNCHANGED <<view, own, inb, mops, ops, review, task, mail, lost, faults, plan>>
    BY DEF Expire
<1>2. SidesInv' /\ BoundInv' /\ OwnGrows
    BY <1>1, Unwritten
<1>3. TypeOK'
    BY <1>1 DEF CollInv, TypeOK, View, Acceptance, Queuing, Operation, Facts
<1>4. Shapes' /\ MailInv'
    BY <1>1 DEF CollInv, Shapes, OpShape, Shape, MailInv, Applied
<1> QED
    BY <1>2, <1>3, <1>4 DEF CollInv

\* Lose keeps the invariant: nothing that is left in the mailbox changes.
LEMMA LoseKeeps ==
    ASSUME CollInv, NEW s \in Side, NEW pk, Lose(s, pk)
    PROVE  CollInv'
<1>1. /\ lost < plan.lost /\ mail' = [mail EXCEPT ![s] = mail[s] \ {pk}] /\ lost' = lost + 1
      /\ UNCHANGED <<view, own, inb, mops, ops, review, task, expired, faults, plan>>
    BY DEF Lose
<1>2. SidesInv' /\ BoundInv' /\ OwnGrows
    BY <1>1, Unwritten
<1>3. \A x \in Side : mail'[x] \subseteq mail[x]
    BY <1>1 DEF CollInv, TypeOK
<1>4. TypeOK'
    <2>1. lost' \in 0..plan.lost
        BY <1>1, PlanFacts DEF CollInv, TypeOK
    <2>2. mail' \in [Side -> SUBSET [kind : {"event"} \cup Sync, ref : Ref]]
        BY <1>1 DEF CollInv, TypeOK
    <2> QED
        BY <1>1, <2>1, <2>2 DEF CollInv, TypeOK, View, Acceptance, Queuing, Operation, Facts
<1>5. Shapes'
    BY <1>1 DEF CollInv, Shapes, OpShape, Shape
<1>6. MailInv'
    BY <1>1, <1>3 DEF CollInv, MailInv, Applied
<1> QED
    BY <1>2, <1>4, <1>5, <1>6 DEF CollInv

-----------------------------------------------------------------------------
(* The host's actions.                                                      *)

\* What a step may do to the agreements on record.
Honours ==
    /\ \A x \in Side : view[x].agreement # <<>> => view'[x].agreement = view[x].agreement
    /\ view[A].agreement = <<>> /\ view'[A].agreement # <<>> => Unwithdrawn(view'[A].agreement)

\* A commit changes no agreement, and forms none out of a withdrawn acceptance.
LEMMA Honouring ==
    ASSUME CollInv, NEW s \in Side, NEW d, NEW now, TxInv(s, d, now), Writes(s, d)
    PROVE  Honours
<1>1. /\ view[s].agreement # <<>> => d.v.agreement = view[s].agreement
      /\ s = A /\ view[A].agreement = <<>> /\ d.v.agreement # <<>> => Unwithdrawn(d.v.agreement)
      /\ d \in Tx
    BY DEF TxInv, AgreedInv, HonoursInv
<1>2. view'[s] = d.v /\ \A x \in Side : x # s => view'[x] = view[x]
    BY <1>1, Written
<1> QED
    BY <1>1, <1>2, Sides DEF Honours

\* What makes up the invariant after a commit.
LEMMA Concluding ==
    ASSUME CollInv, NEW s \in Side, NEW d \in Tx, Writes(s, d), SidesInv',
           \A x \in Side : view'[x].inseq <= Len(own'[Peer(x)]),
           own' \in [Side -> Seq(Event)], ops' \in [Side -> Seq(Operation)],
           \A x \in Side : Len(own'[x]) + Len(ops'[x]) <= MaxSeq,
           mail' \in [Side -> SUBSET [kind : {"event"} \cup Sync, ref : Ref]],
           faults' \in 0..plan.faults, UNCHANGED <<task, expired, lost, plan>>,
           Shapes', BoundInv', MailInv'
    PROVE  CollInv'
<1>1. /\ view' \in [Side -> View] /\ inb' \in [Side -> [1..MaxSeq -> InStatus]]
      /\ review' \in [Side -> [1..MaxSeq -> {"none", "pending", "approved", "rejected"}]]
      /\ mops' \in [Side -> SUBSET Queuing]
    BY Written
<1>2. /\ task' \in [Side -> {"active", "revoked"}] /\ expired' \subseteq Side
      /\ plan' \in Plans /\ lost' \in 0..plan'.lost /\ faults' \in 0..plan'.faults
    BY DEF CollInv, TypeOK
<1>3. (view \in [Side -> View] /\ ops \in [Side -> Seq(Operation)])'
    BY <1>1 DEF View, Acceptance, Operation, Facts
<1>4. TypeOK'
    BY <1>1, <1>2, <1>3 DEF TypeOK, InStatus
<1> QED
    BY <1>4 DEF CollInv

\* A new outbox that says nothing new.
Outbox(d, mo) == [d EXCEPT !.mo = mo]
Resays(mo, other) == \A m \in mo : \E o \in other : o.kind = m.kind /\ o.ref = m.ref

\* An outbox that says nothing new keeps the invariant.
LEMMA Requeued ==
    ASSUME NEW s \in Side, NEW d, NEW now, TxInv(s, d, now), NEW mo \in SUBSET Queuing,
           Resays(mo, d.mo)
    PROVE  /\ TxInv(s, Outbox(d, mo), now) /\ Outbox(d, mo).v = d.v
           /\ Outbox(d, mo).inb = d.inb /\ Outbox(d, mo).rev = d.rev
           /\ Outbox(d, mo).mo = mo /\ Outbox(d, mo).stop = d.stop
<1> DEFINE e == Outbox(d, mo)
<1>1. /\ e \in Tx /\ e.v = d.v /\ e.inb = d.inb /\ e.rev = d.rev /\ e.mo = mo /\ e.stop = d.stop
    BY DEF TxInv, Tx, Outbox
<1> HIDE DEF e
<1>2. Truthful(s, e)
    <2>1. ASSUME NEW m \in mo
          PROVE  Says(s, e, m)
        <3>1. PICK o \in d.mo : o.kind = m.kind /\ o.ref = m.ref
            BY DEF Resays
        <3>2. Says(s, d, o)
            BY DEF TxInv, Truthful
        <3> QED
            BY <1>1, <3>1, <3>2 DEF Says
    <2>2. \A n \in DOMAIN own[s] : Says(s, e, own[s][n])
        BY <1>1 DEF TxInv, Truthful, Says
    <2> QED
        BY <1>1, <2>1, <2>2 DEF Truthful
<1>3. TxInv(s, e, now)
    BY <1>1, <1>2
    DEF TxInv, Arrived, Vetted, AcceptancesInv, Done, AgreedInv, Evidence, SyncedInv,
        WithdrawnInv, HonoursInv, Grown
<1> QED
    BY <1>1, <1>3 DEF e

\* What was true stays true in an event that repeats it.
LEMMA SaysAgain ==
    ASSUME OwnGrows, NEW s \in Side, NEW d, NEW m, Says(s, d, m), NEW e,
           e.kind = m.kind, e.ref = m.ref
    PROVE  Says(s, d, e)'
BY AppliedStays DEF Says

\* A permit is issued when the collaboration starts.
LEMMA SomethingIsLive ==
    ASSUME CollInv, NEW s \in Side, view[s].permit = "live"
    PROVE  view[s].bound
BY DEF CollInv, BoundInv

\* ReserveMaintenance keeps the invariant: the event it numbers says what the
\* outbox said.
LEMMA ReserveMaintenanceKeeps ==
    ASSUME CollInv, NEW s \in Side, NEW m, ReserveMaintenance(s, m)
    PROVE  CollInv' /\ Honours
<1> DEFINE mo == (mops[s] \ {m}) \cup {[m EXCEPT !.st = "sending"]}
           e == ReservedEvent(m.kind, m.ref, FALSE, FALSE)
<1>1. /\ m \in mops[s] /\ view[s].permit = "live" /\ mops' = [mops EXCEPT ![s] = mo]
      /\ UNCHANGED <<view, inb, ops, review, task, expired, mail, lost, faults, plan>>
    BY DEF ReserveMaintenance
<1>2. m \in Queuing /\ m.kind \in Maintenance /\ m.ref \in Ref
    BY <1>1, Tables DEF Queuing
<1>3. /\ TxInv(s, Opened(s), <<s, 0>>) /\ InOrder(Opened(s)) /\ Opened(s).v = view[s]
      /\ Opened(s).mo = mops[s] /\ Opened(s).inb = inb[s] /\ Opened(s).rev = review[s]
    BY OpenedTx
<1>4. mo \in SUBSET Queuing /\ Resays(mo, mops[s])
    BY <1>1, <1>2, Tables DEF Queuing, Resays
<1>5. PICK d : /\ TxInv(s, d, <<s, 0>>) /\ d.v = view[s] /\ d.inb = inb[s]
               /\ d.rev = review[s] /\ d.mo = mo
    BY <1>3, <1>4, Requeued
<1>6. InOrder(d) /\ d \in Tx
    BY <1>3, <1>5 DEF InOrder, TxInv
<1> HIDE DEF mo
<1>7. Writes(s, d)
    BY <1>1, <1>5, Tables DEF Writes
<1>8. /\ own' \in [Side -> Seq(Event)] /\ OwnGrows
      /\ \A x \in Side : x # s => own'[x] = own[x]
      /\ \A x \in Side : \A k \in DOMAIN own'[x] \ DOMAIN own[x] :
            x = s /\ own'[x][k] = e /\ m.kind \notin Sync
      /\ Len(own'[s]) + Len(ops[s]) <= MaxSeq
    <2>1. CASE m.kind \in Sync
        <3>1. own' = own
            BY <2>1 DEF ReserveMaintenance
        <3> QED
            BY <3>1, SeqFacts, EnvFacts DEF OwnGrows
    <2>2. CASE m.kind \notin Sync
        <3>1. Len(own[s]) + Len(ops[s]) < MaxSeq /\ own' = [own EXCEPT ![s] = Append(own[s], e)]
            BY <2>2 DEF ReserveMaintenance
        <3>2. e \in Event
            BY <1>2, <2>2 DEF Event, ReservedEvent, Kinds
        <3> HIDE DEF e
        <3>3. /\ own' \in [Side -> Seq(Event)] /\ OwnGrows /\ Len(own'[s]) = Len(own[s]) + 1
              /\ \A x \in Side : x # s => own'[x] = own[x]
              /\ \A x \in Side : \A k \in DOMAIN own'[x] :
                    k \notin DOMAIN own[x] => x = s /\ k = Len(own[s]) + 1 /\ own'[x][k] = e
            BY <3>1, <3>2, Appended
        <3>4. Len(own'[s]) + Len(ops[s]) <= MaxSeq
            <4>1. /\ Len(own[s]) \in Nat /\ Len(ops[s]) \in Nat /\ MaxSeq \in Nat
                  /\ Len(own[s]) + Len(ops[s]) < MaxSeq /\ Len(own'[s]) = Len(own[s]) + 1
                BY <3>1, <3>3, SeqFacts, EnvFacts
            <4> DEFINE a == Len(own[s])
                       b == Len(ops[s])
                       c == Len(own'[s])
            <4>2. a \in Nat /\ b \in Nat /\ MaxSeq \in Nat /\ a + b < MaxSeq /\ c = a + 1
                BY <4>1
            <4> HIDE DEF a, b, c
            <4>3. c + b <= MaxSeq
                BY <4>2
            <4> QED
                BY <4>3 DEF b, c
        <3> QED
            BY <2>2, <3>3, <3>4
    <2> QED
        BY <2>1, <2>2
<1>9. \A x \in Side : \A k \in DOMAIN own'[x] \ DOMAIN own[x] : x = s /\ Says(s, d, own[x][k])'
    <2>1. PICK o \in mops[s] : o = m
        BY <1>1
    <2>2. Says(s, d, m)
        <3>1. Says(s, Opened(s), m)
            BY <1>1, <1>3 DEF TxInv, Truthful
        <3> QED
            BY <1>3, <1>5, <3>1 DEF Says
    <2>3. ASSUME NEW x \in Side, NEW k \in DOMAIN own'[x] \ DOMAIN own[x]
          PROVE  x = s /\ Says(s, d, own[x][k])'
        <3>1. x = s /\ own'[x][k].kind = m.kind /\ own'[x][k].ref = m.ref
            BY <1>8, <2>3 DEF ReservedEvent
        <3>2. PICK f : f = own'[x][k]
            OBVIOUS
        <3>3. Says(s, d, f)'
            BY <1>8, <2>2, <3>1, <3>2, SaysAgain
        <3> QED
            BY <3>1, <3>2, <3>3 DEF Says
    <2> QED
        BY <2>3
<1>10. 0 \notin DOMAIN own[s]
    BY EnvFacts
<1>11. SidesInv' /\ \A x \in Side : view'[x].inseq <= Len(own'[Peer(x)])
    <2>1. OwnGrows /\ own' \in [Side -> Seq(Event)] /\ plan' = plan
        BY <1>1, <1>8
    <2>2. 0 \in DOMAIN own[s] => own'[s][0].st = "applied"
        BY <1>10
    <2> QED
        BY <1>5, <1>6, <1>7, <1>9, <2>1, <2>2, Committing
<1>12. Shapes'
    <2>1. ASSUME NEW x \in Side, NEW k \in DOMAIN own'[x]
          PROVE  Shape(x, own[x][k])' /\ (own'[x][k].kind = "invite" => k = 1)
        <3>1. CASE k \in DOMAIN own[x]
            <4>1. own'[x][k].kind = own[x][k].kind /\ own'[x][k].ref = own[x][k].ref
                BY <1>8, <3>1 DEF OwnGrows
            <4>2. Shape(x, own[x][k]) /\ (own[x][k].kind = "invite" => k = 1)
                BY <3>1 DEF CollInv, Shapes
            <4> QED
                BY <1>1, <4>1, <4>2 DEF Shape
        <3>2. CASE k \notin DOMAIN own[x]
            <4>1. own'[x][k].kind \in Maintenance
                BY <1>2, <1>8, <3>2 DEF ReservedEvent
            <4> QED
                BY <4>1 DEF Shape, Maintenance
        <3> QED
            BY <3>1, <3>2
    <2>2. \A x \in Side : \A k \in DOMAIN ops'[x] : OpShape(x, ops[x][k])'
        BY <1>1 DEF CollInv, Shapes, OpShape, Shape
    <2> QED
        BY <2>1, <2>2 DEF Shapes
<1>13. BoundInv'
    <2>1. view'[s].bound
        BY <1>1, SomethingIsLive
    <2>2. s = B => (view'[B].invited => 1 \in 1..MaxSeq /\ review'[B][1] = "approved")
        BY <1>1 DEF CollInv, BoundInv
    <2>3. Peer(s) \in Side /\ own'[Peer(s)] = own[Peer(s)]
        BY <1>8, Sides
    <2> QED
        BY <1>1, <1>8, <2>1, <2>2, <2>3, BoundStays
<1>14. MailInv'
    BY <1>1, <1>8, MailStays DEF MailInv
<1>15. \A x \in Side : Len(own'[x]) + Len(ops'[x]) <= MaxSeq
    BY <1>1, <1>8, SeqFacts
<1>16. CollInv'
    <2>1. /\ ops' \in [Side -> Seq(Operation)] /\ faults' \in 0..plan.faults
          /\ mail' \in [Side -> SUBSET [kind : {"event"} \cup Sync, ref : Ref]]
        BY <1>1 DEF CollInv, TypeOK
    <2> QED
        BY <1>1, <1>6, <1>7, <1>8, <1>11, <1>12, <1>13, <1>14, <1>15, <2>1, Concluding
<1> QED
    BY <1>1, <1>16, Sides DEF Honours

\* Side s starts its collaboration, with these events of its peer behind the cursor.
Started(s, in, k) ==
    [v |-> [view[s] EXCEPT !.bound = TRUE, !.permit = "live", !.inseq = k], mo |-> mops[s],
     inb |-> in, rev |-> review[s], stop |-> FALSE]

\* What d then holds.
IsStarted(s, d, in, k) ==
    /\ d \in Tx /\ d.v.acc = view[s].acc /\ d.v.agreement = view[s].agreement
    /\ d.v.synced = view[s].synced /\ d.v.inseq = k /\ d.v.bound
    /\ d.v.invited = view[s].invited
    /\ d.v = [view[s] EXCEPT !.bound = TRUE, !.permit = "live", !.inseq = k]
    /\ d.mo = mops[s] /\ d.inb = in /\ d.rev = review[s]

\* The rows of a side that starts its collaboration.
LEMMA StartedIs ==
    ASSUME CollInv, NEW s \in Side, NEW in \in [1..MaxSeq -> InStatus], NEW k \in 0..MaxSeq
    PROVE  IsStarted(s, Started(s, in, k), in, k)
<1>1. view[s] \in View /\ mops[s] \in SUBSET Queuing
      /\ review[s] \in [1..MaxSeq -> {"none", "pending", "approved", "rejected"}]
    BY Tables
<1> DEFINE w == [view[s] EXCEPT !.bound = TRUE, !.permit = "live", !.inseq = k]
<1>2. /\ w \in View /\ w.acc = view[s].acc /\ w.agreement = view[s].agreement
      /\ w.synced = view[s].synced /\ w.inseq = k /\ w.bound /\ w.permit = "live"
      /\ w.invited = view[s].invited
    BY <1>1 DEF View
<1>3. Started(s, in, k) = [v |-> w, mo |-> mops[s], inb |-> in, rev |-> review[s], stop |-> FALSE]
    BY DEF Started
<1>4. /\ Started(s, in, k).v = w /\ Started(s, in, k).mo = mops[s]
      /\ Started(s, in, k).inb = in /\ Started(s, in, k).rev = review[s]
    BY <1>3
<1> HIDE DEF w
<1>5. Started(s, in, k) \in Tx
    BY <1>1, <1>2, <1>3 DEF Tx
<1> QED
    BY <1>2, <1>4, <1>5 DEF w, IsStarted

\* The initiator starts with nothing behind its cursor.
LEMMA Inviting ==
    ASSUME CollInv, NEW s \in Side, ~view[s].bound
    PROVE  LET d == Started(s, inb[s], 0) IN TxInv(s, d, <<s, 0>>) /\ InOrder(d)
<1> DEFINE d == Started(s, inb[s], 0)
           o == Opened(s)
<1>1. 0 \in 0..MaxSeq /\ inb[s] \in [1..MaxSeq -> InStatus]
    BY Tables, EnvFacts
<1>2. /\ d \in Tx /\ d.v.acc = view[s].acc /\ d.v.agreement = view[s].agreement
      /\ d.v.synced = view[s].synced /\ d.v.inseq = 0
      /\ d.mo = mops[s] /\ d.inb = inb[s] /\ d.rev = review[s]
    <2>1. IsStarted(s, d, inb[s], 0)
        BY <1>1, StartedIs
    <2> HIDE DEF d
    <2> QED
        BY <2>1 DEF IsStarted
<1>3. /\ TxInv(s, o, <<s, 0>>) /\ InOrder(o) /\ o.v = view[s] /\ o.mo = mops[s]
      /\ o.inb = inb[s] /\ o.rev = review[s]
    BY OpenedTx
<1>4. view[s].inseq = 0
    BY DEF CollInv, BoundInv
<1> HIDE DEF d, o
<1>5. TxInv(s, d, <<s, 0>>) /\ InOrder(d)
    BY <1>2, <1>3, <1>4, Frame DEF InOrder
<1> QED
    BY <1>5 DEF d

\* The join takes the approved invitation as the first event of the peer.
LEMMA Joining ==
    ASSUME CollInv, ~view[B].bound, view[B].invited
    PROVE  LET d == Started(B, [inb[B] EXCEPT ![1] = "applied"], 1) IN
             TxInv(B, d, <<B, 0>>) /\ InOrder(d) /\ 1 \in 1..MaxSeq
<1> DEFINE in == [inb[B] EXCEPT ![1] = "applied"]
           d == Started(B, in, 1)
           o == Opened(B)
<1>0. B \in Side /\ A \in Side /\ A # B /\ Peer(B) = A /\ MaxSeq \in Nat
    BY Sides, EnvFacts
<1>1. 1 \in 1..MaxSeq /\ review[B][1] = "approved" /\ \A n \in 1..MaxSeq : inb[B][n] = "none"
    BY <1>0 DEF CollInv, BoundInv
<1>2. /\ in \in [1..MaxSeq -> InStatus] /\ 1 \in 0..MaxSeq /\ in[1] = "applied"
      /\ \A n \in 1..MaxSeq : n # 1 => in[n] = "none"
    BY <1>0, <1>1, Tables DEF InStatus
<1> HIDE DEF in
<1>3. /\ d \in Tx /\ d.v.acc = view[B].acc /\ d.v.agreement = view[B].agreement
      /\ d.v.synced = view[B].synced /\ d.v.inseq = 1
      /\ d.mo = mops[B] /\ d.inb = in /\ d.rev = review[B]
    <2>1. IsStarted(B, d, in, 1)
        BY <1>0, <1>2, StartedIs
    <2> HIDE DEF d
    <2> QED
        BY <2>1 DEF IsStarted
<1>4. /\ TxInv(B, o, <<B, 0>>) /\ o.v = view[B] /\ o.mo = mops[B]
      /\ o.inb = inb[B] /\ o.rev = review[B]
    BY <1>0, OpenedTx
<1> HIDE DEF d, o
<1>5. \A n \in 1..MaxSeq : o.inb[n] # "applied"
    BY <1>1, <1>4
<1>6. Arrived(B, d) /\ Vetted(B, d)
    BY <1>0, <1>1, <1>2, <1>3, <1>4 DEF TxInv, Arrived, Vetted
<1>7. AcceptancesInv(B, d, <<B, 0>>)
    <2> SUFFICES ASSUME NEW x \in Side, d.v.acc[x].n # 0
                 PROVE  /\ Accepting(x, d.v.acc[x].n, d.v.acc[x].terms)
                        /\ Done(B, d, <<B, 0>>, x, d.v.acc[x].n)
        BY DEF AcceptancesInv
    <2>1. Accepting(x, d.v.acc[x].n, d.v.acc[x].terms) /\ Done(B, o, <<B, 0>>, x, d.v.acc[x].n)
        BY <1>3, <1>4 DEF TxInv, AcceptancesInv
    <2>2. d.v.acc[x].n \in 1..MaxSeq
        BY <2>1, EnvFacts DEF Accepting
    <2> QED
        BY <1>5, <2>1, <2>2 DEF Done
<1>8. Truthful(B, d)
    <2>1. ASSUME NEW m, Says(B, o, m)
          PROVE  Says(B, d, m)
        BY <1>3, <1>4, <1>5, <2>1 DEF Says
    <2> QED
        BY <1>3, <1>4, <2>1 DEF TxInv, Truthful
<1>9. AgreedInv(B, d, <<B, 0>>) /\ SyncedInv(B, d) /\ WithdrawnInv(B, d) /\ HonoursInv(B, d)
    BY <1>0, <1>3, <1>4 DEF TxInv, AgreedInv, SyncedInv, WithdrawnInv, HonoursInv
<1>10. Grown(B, d)
    BY <1>1, <1>3 DEF Grown
<1>11. TxInv(B, d, <<B, 0>>)
    BY <1>3, <1>6, <1>7, <1>8, <1>9, <1>10 DEF TxInv
<1>12. InOrder(d)
    BY <1>0, <1>2, <1>3 DEF InOrder
<1> QED
    BY <1>1, <1>11, <1>12 DEF d, in

\* Reserve keeps the invariant, also when it starts the collaboration.
LEMMA ReserveKeeps ==
    ASSUME CollInv, NEW s \in Side, NEW i, Reserve(s, i)
    PROVE  CollInv' /\ Honours
<1> DEFINE op == ops[s][i]
           e == ReservedEvent(op.kind, op.ref, op.revoked, op.once)
           r == RemoveAt(ops[s], i)
           starting == op.kind \in {"invite", "join"}
<1>1. /\ i \in DOMAIN ops[s] /\ (starting => ~view[s].bound)
      /\ own' = [own EXCEPT ![s] = Append(own[s], e)] /\ ops' = [ops EXCEPT ![s] = r]
      /\ view' = [view EXCEPT ![s] =
            IF op.kind \notin {"invite", "join"} THEN view[s]
            ELSE [view[s] EXCEPT !.bound = TRUE, !.permit = "live",
                                 !.inseq = IF op.kind = "join" THEN 1 ELSE 0]]
      /\ inb' = IF op.kind = "join" THEN [inb EXCEPT ![s][1] = "applied"] ELSE inb
      /\ UNCHANGED <<mops, review, task, expired, mail, lost, faults, plan>>
    BY DEF Reserve, Current
<1>2. op \in Operation /\ op.kind \in Business /\ op.ref \in Ref /\ OpShape(s, op)
    BY <1>1, SeqFacts DEF Operation, CollInv, Shapes
<1>3. e \in Event /\ e.kind = op.kind /\ e.ref = op.ref
    BY <1>2 DEF ReservedEvent, Event, Operation, Kinds, Business, Recovery, Sync
<1>4. /\ r \in Seq(Operation) /\ Len(r) = Len(ops[s]) - 1
      /\ \A k \in DOMAIN r : \E j \in DOMAIN ops[s] : r[k] = ops[s][j]
    <2>1. ops[s] \in Seq(Operation) /\ i \in DOMAIN ops[s]
        BY <1>1, SeqFacts
    <2> QED
        BY <2>1, RemoveFacts
<1> HIDE DEF e, r
<1>5. /\ ops' \in [Side -> Seq(Operation)] /\ ops'[s] = r
      /\ \A x \in Side : x # s => ops'[x] = ops[x]
    BY <1>1, <1>4, SeqFacts
<1>6. /\ own' \in [Side -> Seq(Event)] /\ OwnGrows /\ Len(own'[s]) = Len(own[s]) + 1
      /\ \A x \in Side : x # s => own'[x] = own[x]
      /\ \A x \in Side : \A k \in DOMAIN own'[x] :
            k \notin DOMAIN own[x] => x = s /\ k = Len(own[s]) + 1 /\ own'[x][k] = e
      /\ \A x \in Side : \A k \in DOMAIN own[x] : own'[x][k] = own[x][k]
    BY <1>1, <1>3, Appended
<1>7. \E d : /\ TxInv(s, d, <<s, 0>>) /\ InOrder(d) /\ Writes(s, d) /\ d.v.bound
             /\ d.v.invited = view[s].invited /\ d.rev = review[s]
    <2>1. CASE ~starting
        <3> DEFINE d == Opened(s)
        <3>1. /\ TxInv(s, d, <<s, 0>>) /\ InOrder(d) /\ d.v = view[s] /\ d.mo = mops[s]
              /\ d.inb = inb[s] /\ d.rev = review[s]
            BY OpenedTx
        <3> HIDE DEF d
        <3>2. Writes(s, d)
            BY <1>1, <2>1, <3>1, Tables DEF Writes
        <3>3. view[s].bound
            BY <1>2, <2>1 DEF OpShape
        <3> QED
            BY <3>1, <3>2, <3>3
    <2>2. CASE op.kind = "invite"
        <3> DEFINE d == Started(s, inb[s], 0)
        <3>1. 0 \in 0..MaxSeq /\ inb[s] \in [1..MaxSeq -> InStatus]
            BY Tables, EnvFacts
        <3>2. /\ d.v = [view[s] EXCEPT !.bound = TRUE, !.permit = "live", !.inseq = 0]
              /\ d.v.bound /\ d.v.invited = view[s].invited
              /\ d.mo = mops[s] /\ d.inb = inb[s] /\ d.rev = review[s]
            <4>1. IsStarted(s, d, inb[s], 0)
                BY <3>1, StartedIs
            <4> HIDE DEF d
            <4> QED
                BY <4>1 DEF IsStarted
        <3>3. TxInv(s, d, <<s, 0>>) /\ InOrder(d)
            BY <1>1, <2>2, Inviting
        <3> HIDE DEF d
        <3>4. Writes(s, d)
            BY <1>1, <2>2, <3>2, Tables DEF Writes
        <3> QED
            BY <3>2, <3>3, <3>4
    <2>3. CASE op.kind = "join"
        <3> DEFINE in == [inb[B] EXCEPT ![1] = "applied"]
                   d == Started(B, in, 1)
        <3>0. s = B /\ view[B].invited /\ ~view[B].bound
            BY <1>1, <1>2, <2>3 DEF OpShape
        <3>1. TxInv(B, d, <<B, 0>>) /\ InOrder(d) /\ 1 \in 1..MaxSeq
            BY <3>0, Joining
        <3>2. 1 \in 0..MaxSeq /\ in \in [1..MaxSeq -> InStatus]
            BY <3>0, <3>1, Tables DEF InStatus
        <3>3. inb' = [inb EXCEPT ![B] = in]
            BY <1>1, <2>3, <3>0, Tables
        <3> HIDE DEF in
        <3>4. /\ d.v = [view[B] EXCEPT !.bound = TRUE, !.permit = "live", !.inseq = 1]
              /\ d.v.bound /\ d.v.invited = view[B].invited
              /\ d.mo = mops[B] /\ d.inb = in /\ d.rev = review[B]
            <4>1. IsStarted(B, d, in, 1)
                BY <3>0, <3>2, StartedIs, Sides
            <4> HIDE DEF d
            <4> QED
                BY <4>1 DEF IsStarted
        <3> HIDE DEF d
        <3>5. Writes(B, d)
            <4>1. view' = [view EXCEPT ![B] = d.v]
                BY <1>1, <2>3, <3>0, <3>4
            <4>2. inb' = [inb EXCEPT ![B] = d.inb]
                BY <3>3, <3>4
            <4>3. mops' = [mops EXCEPT ![B] = d.mo] /\ review' = [review EXCEPT ![B] = d.rev]
                BY <1>1, <3>4, Tables
            <4> QED
                BY <4>1, <4>2, <4>3 DEF Writes
        <3> QED
            BY <3>0, <3>1, <3>4, <3>5
    <2> QED
        BY <2>1, <2>2, <2>3
<1>8. PICK d : /\ TxInv(s, d, <<s, 0>>) /\ InOrder(d) /\ Writes(s, d) /\ d.v.bound
               /\ d.v.invited = view[s].invited /\ d.rev = review[s]
    BY <1>7
<1>9. d \in Tx /\ view'[s] = d.v /\ \A x \in Side : x # s => view'[x] = view[x]
    BY <1>8, Written DEF TxInv
<1>10. ASSUME NEW x \in Side, NEW k \in DOMAIN own'[x] \ DOMAIN own[x]
       PROVE  x = s /\ Says(s, d, own[x][k])'
    <2>1. x = s /\ own'[x][k].kind \in Business
        BY <1>2, <1>3, <1>6, <1>10
    <2> QED
        BY <2>1 DEF Says, Business, Recovery
<1>11. SidesInv' /\ \A x \in Side : view'[x].inseq <= Len(own'[Peer(x)])
    <2>1. OwnGrows /\ own' \in [Side -> Seq(Event)] /\ plan' = plan
        BY <1>1, <1>6
    <2>2. 0 \in DOMAIN own[s] => own'[s][0].st = "applied"
        BY EnvFacts
    <2> QED
        BY <1>8, <1>10, <2>1, <2>2, Committing
<1>12. Shapes'
    <2>1. ASSUME NEW x \in Side, NEW k \in DOMAIN own'[x]
          PROVE  Shape(x, own[x][k])' /\ (own'[x][k].kind = "invite" => k = 1)
        <3>1. CASE k \in DOMAIN own[x]
            <4>1. Shape(x, own[x][k]) /\ (own[x][k].kind = "invite" => k = 1)
                BY <3>1 DEF CollInv, Shapes
            <4> QED
                BY <1>1, <1>6, <3>1, <4>1 DEF Shape
        <3>2. CASE k \notin DOMAIN own[x]
            <4>1. x = s /\ k = Len(own[s]) + 1 /\ own'[x][k] = e
                BY <1>6, <3>2
            <4>2. Shape(s, op)
                BY <1>2 DEF OpShape
            <4>3. e.kind = "invite" => own[s] = <<>>
                BY <1>1, <1>3 DEF CollInv, BoundInv
            <4>4. e.kind = "invite" => k = 1
                BY <4>1, <4>3
            <4>5. Shape(x, own[x][k])'
                BY <1>1, <1>3, <4>1, <4>2 DEF Shape
            <4> QED
                BY <4>1, <4>4, <4>5
        <3> QED
            BY <3>1, <3>2
    <2>2. ASSUME NEW x \in Side, NEW k \in DOMAIN ops'[x]
          PROVE  OpShape(x, ops[x][k])'
        <3>1. PICK o : o = ops'[x][k] /\ OpShape(x, o)
            BY <1>4, <1>5 DEF CollInv, Shapes
        <3>2. /\ view[x].bound => view'[x].bound
              /\ view[B].invited => view'[B].invited
            BY <1>8, <1>9, Sides
        <3> QED
            BY <1>1, <3>1, <3>2 DEF OpShape, Shape
    <2> QED
        BY <2>1, <2>2 DEF Shapes
<1>13. BoundInv'
    <2>1. s = B => (view'[B].invited => 1 \in 1..MaxSeq /\ review'[B][1] = "approved")
        BY <1>1, <1>8, <1>9 DEF CollInv, BoundInv
    <2>2. Peer(s) \in Side /\ Peer(s) # s
        BY Sides
    <2>3. /\ view'[s].bound /\ view'[Peer(s)] = view[Peer(s)] /\ inb'[Peer(s)] = inb[Peer(s)]
          /\ review'[Peer(s)] = review[Peer(s)] /\ own'[Peer(s)] = own[Peer(s)]
        BY <1>6, <1>8, <1>9, <2>2, Written
    <2> QED
        BY <1>6, <2>1, <2>3, BoundStays
<1>14. MailInv'
    BY <1>1, <1>6, MailStays DEF MailInv
<1>15. ASSUME NEW x \in Side
       PROVE  Len(own'[x]) + Len(ops'[x]) <= MaxSeq
    <2>1. CASE x = s
        <3> DEFINE a == Len(own[s])
                   b == Len(ops[s])
                   c == Len(own'[s])
                   f == Len(ops'[s])
        <3>1. /\ a \in Nat /\ b \in Nat /\ MaxSeq \in Nat /\ a + b <= MaxSeq /\ c = a + 1
              /\ f = b - 1
            BY <1>4, <1>5, <1>6, SeqFacts, EnvFacts
        <3> HIDE DEF a, b, c, f
        <3>2. c + f <= MaxSeq
            BY <3>1
        <3> QED
            BY <2>1, <3>2 DEF c, f
    <2>2. CASE x # s
        BY <1>5, <1>6, <2>2, SeqFacts
    <2> QED
        BY <2>1, <2>2
<1>16. CollInv'
    <2>1. /\ faults' \in 0..plan.faults
          /\ mail' \in [Side -> SUBSET [kind : {"event"} \cup Sync, ref : Ref]]
        BY <1>1 DEF CollInv, TypeOK
    <2> QED
        BY <1>1, <1>5, <1>6, <1>8, <1>9, <1>11, <1>12, <1>13, <1>14, <1>15, <2>1, Concluding
<1> QED
    BY <1>8, <1>16, Honouring

-----------------------------------------------------------------------------
(* What arrives, and what the owner makes of it.                            *)

\* A commit that leaves the stream and the operations of the side alone.
LEMMA CommitKeeps ==
    ASSUME CollInv, NEW s \in Side, NEW d, Between(s, d), Writes(s, d), BoundInv',
           view[s].bound => d.v.bound, view[s].invited => d.v.invited,
           UNCHANGED <<own, ops, task, expired, lost, faults, plan>>,
           mail' \in [Side -> SUBSET [kind : {"event"} \cup Sync, ref : Ref]], MailInv'
    PROVE  CollInv' /\ Honours
<1>1. TxInv(s, d, <<s, 0>>) /\ InOrder(d) /\ d \in Tx
    BY DEF Between, TxInv
<1>2. OwnGrows /\ own' \in [Side -> Seq(Event)] /\ plan' = plan
    BY EnvFacts DEF OwnGrows
<1>3. 0 \in DOMAIN own[s] => own'[s][0].st = "applied"
    BY EnvFacts
<1>4. \A x \in Side : \A k \in DOMAIN own'[x] \ DOMAIN own[x] : x = s /\ Says(s, d, own[x][k])'
    OBVIOUS
<1>5. SidesInv' /\ \A x \in Side : view'[x].inseq <= Len(own'[Peer(x)])
    BY <1>1, <1>2, <1>3, <1>4, Committing
<1>6. \A x \in Side : view[x].bound => view'[x].bound
    BY <1>1, Written
<1>7. view[B].invited => view'[B].invited
    BY <1>1, Written, Sides
<1>8. Shapes'
    BY <1>6, <1>7 DEF CollInv, Shapes, OpShape, Shape
<1>9. /\ ops' \in [Side -> Seq(Operation)] /\ faults' \in 0..plan.faults
      /\ \A x \in Side : Len(own'[x]) + Len(ops'[x]) <= MaxSeq
    BY DEF CollInv, TypeOK
<1>10. CollInv'
    BY <1>1, <1>2, <1>5, <1>8, <1>9, Concluding
<1> QED
    BY <1>1, <1>10, Honouring

\* A bound side commits what only adds approvals.
LEMMA BoundKeeps ==
    ASSUME CollInv, NEW s \in Side, NEW d, Between(s, d), Writes(s, d),
           view[s].bound, d.v.bound, d.v.invited = view[s].invited,
           \A n \in 1..MaxSeq : review[s][n] = "approved" => d.rev[n] = "approved",
           UNCHANGED <<own, ops, task, expired, lost, faults, plan>>,
           mail' \in [Side -> SUBSET [kind : {"event"} \cup Sync, ref : Ref]], MailInv'
    PROVE  CollInv' /\ Honours
<1>1. d \in Tx /\ OwnGrows
    BY DEF Between, TxInv, OwnGrows
<1>2. /\ view'[s] = d.v /\ review'[s] = d.rev
      /\ \A x \in Side : x # s => /\ view'[x] = view[x] /\ inb'[x] = inb[x]
                                  /\ review'[x] = review[x]
    BY <1>1, Written
<1>3. s = B => (view'[B].invited => 1 \in 1..MaxSeq /\ review'[B][1] = "approved")
    BY <1>2 DEF CollInv, BoundInv
<1>4. Peer(s) \in Side /\ Peer(s) # s
    BY Sides
<1>5. BoundInv'
    BY <1>1, <1>2, <1>3, <1>4, BoundStays
<1> QED
    BY <1>5, CommitKeeps

\* A packet that is taken from the mailbox, and what its sender has applied.
LEMMA TakeFacts ==
    ASSUME CollInv, NEW s \in Side, NEW pk, Take(s, pk), UNCHANGED own
    PROVE  /\ pk \in mail[Peer(s)] /\ pk.ref \in Ref
           /\ mail' \in [Side -> SUBSET [kind : {"event"} \cup Sync, ref : Ref]] /\ MailInv'
           /\ pk.kind = "event" => \E n \in 1..MaxSeq : pk.ref = <<n>> /\ Applied(Peer(s), n)
           /\ pk.kind = "sync_response" => \A n \in Carried(pk.ref) : Applied(Peer(s), n)
<1>0. Peer(s) \in Side /\ mail \in [Side -> SUBSET [kind : {"event"} \cup Sync, ref : Ref]]
    BY Sides DEF CollInv, TypeOK
<1>1. pk \in mail[Peer(s)] /\ mail' = [mail EXCEPT ![Peer(s)] = mail[Peer(s)] \ {pk}]
    BY DEF Take
<1>2. /\ mail' \in [Side -> SUBSET [kind : {"event"} \cup Sync, ref : Ref]]
      /\ \A x \in Side : mail'[x] \subseteq mail[x]
    BY <1>0, <1>1
<1>3. OwnGrows
    BY DEF OwnGrows
<1>4. MailInv'
    BY <1>2, <1>3, MailStays DEF MailInv
<1> QED
    BY <1>0, <1>1, <1>2, <1>4 DEF CollInv, MailInv

\* The sender of an event has applied it.
LEMMA EventTaken ==
    ASSUME CollInv, NEW s \in Side, NEW n \in 1..MaxSeq, Take(s, EventPacket(n)), UNCHANGED own
    PROVE  Applied(Peer(s), n)
<1>1. EventPacket(n).kind = "event" /\ EventPacket(n).ref = <<n>>
    BY DEF EventPacket, Packet
<1>2. PICK k \in 1..MaxSeq : <<n>> = <<k>> /\ Applied(Peer(s), k)
    BY <1>1, TakeFacts
<1> QED
    BY <1>2

\* The owner's decision on event n, or its quarantine.
Ruled(d, n, decision) == [d EXCEPT !.rev[n] = decision]

\* What e then holds.
IsRuled(s, e, n, decision) ==
    /\ Between(s, e) /\ e.v = view[s] /\ e.mo = mops[s] /\ e.inb = inb[s]
    /\ e.rev = [review[s] EXCEPT ![n] = decision]

\* A decision about an event that has arrived keeps the invariant, unless it takes
\* back an approval.
LEMMA Ruling ==
    ASSUME CollInv, NEW s \in Side, NEW n \in 1..MaxSeq, Applied(Peer(s), n),
           NEW decision \in {"none", "pending", "approved", "rejected"},
           review[s][n] = "approved" => decision = "approved"
    PROVE  IsRuled(s, Ruled(Opened(s), n, decision), n, decision)
<1> DEFINE d == Opened(s)
           e == Ruled(d, n, decision)
<1>1. /\ TxInv(s, d, <<s, 0>>) /\ InOrder(d) /\ d.v = view[s] /\ d.mo = mops[s]
      /\ d.inb = inb[s] /\ d.rev = review[s] /\ d \in Tx
    BY OpenedTx
<1> HIDE DEF d
<1>2. /\ e.v = d.v /\ e.mo = d.mo /\ e.inb = d.inb /\ e.rev = [d.rev EXCEPT ![n] = decision]
      /\ e \in Tx
    BY <1>1 DEF Tx, Ruled
<1> HIDE DEF e
<1>3. \A k \in 1..MaxSeq : e.rev[k] = IF k = n THEN decision ELSE d.rev[k]
    BY <1>1, <1>2 DEF Tx
<1>4. Arrived(s, e) /\ Vetted(s, e)
    BY <1>1, <1>2, <1>3 DEF TxInv, Arrived, Vetted
<1>5. TxInv(s, e, <<s, 0>>)
    BY <1>1, <1>2, <1>4
    DEF TxInv, AcceptancesInv, Done, Truthful, Says, AgreedInv, Evidence, SyncedInv,
        WithdrawnInv, HonoursInv, Grown
<1>6. InOrder(e)
    BY <1>1, <1>2 DEF InOrder
<1> QED
    BY <1>1, <1>2, <1>5, <1>6 DEF Between, IsRuled, d, e

\* ReceiveReviewable keeps the invariant.
LEMMA ReceiveReviewableKeeps ==
    ASSUME CollInv, NEW s \in Side, NEW n \in 1..MaxSeq, ReceiveReviewable(s, n)
    PROVE  CollInv' /\ Honours
<1> DEFINE decision == IF review[s][n] = "none" THEN "pending" ELSE review[s][n]
           d == Ruled(Opened(s), n, decision)
<1>1. /\ Take(s, EventPacket(n)) /\ (view[s].bound \/ own[Peer(s)][n].kind = "invite")
      /\ review' = [review EXCEPT ![s] = [review[s] EXCEPT ![n] = decision]]
      /\ UNCHANGED <<view, own, inb, mops, ops, task, expired, lost, faults, plan>>
    BY DEF ReceiveReviewable
<1>2. Applied(Peer(s), n) /\ MailInv'
      /\ mail' \in [Side -> SUBSET [kind : {"event"} \cup Sync, ref : Ref]]
    BY <1>1, EventTaken, TakeFacts
<1>3. decision \in {"none", "pending", "approved", "rejected"}
      /\ (review[s][n] = "approved" => decision = "approved")
      /\ (decision # "none" => TRUE)
    BY Tables
<1> HIDE DEF decision
<1>4. /\ Between(s, d) /\ d.v = view[s] /\ d.mo = mops[s] /\ d.inb = inb[s]
      /\ d.rev = [review[s] EXCEPT ![n] = decision]
    <2>1. IsRuled(s, d, n, decision)
        BY <1>2, <1>3, Ruling
    <2> HIDE DEF d
    <2> QED
        BY <2>1 DEF IsRuled
<1> HIDE DEF d
<1>5. Writes(s, d)
    BY <1>1, <1>4, Tables DEF Writes
<1>6. /\ \A k \in 1..MaxSeq : review'[s][k] = IF k = n THEN decision ELSE review[s][k]
      /\ \A x \in Side : x # s => review'[x] = review[x]
    BY <1>1, Tables
<1>7. BoundInv'
    <2>1. ASSUME NEW x \in Side, ~view[x].bound, NEW k \in 1..MaxSeq, review'[x][k] # "none"
          PROVE  own[Peer(x)][k].kind = "invite"
        <3>1. CASE x = s /\ k = n
            BY <1>1, <2>1, <3>1
        <3>2. CASE ~(x = s /\ k = n)
            BY <1>6, <2>1, <3>2 DEF CollInv, BoundInv
        <3> QED
            BY <3>1, <3>2
    <2>2. view[B].invited => 1 \in 1..MaxSeq /\ review'[B][1] = "approved"
        BY <1>3, <1>6, Sides DEF CollInv, BoundInv
    <2> QED
        BY <1>1, <2>1, <2>2 DEF CollInv, BoundInv
<1> QED
    BY <1>1, <1>2, <1>4, <1>5, <1>7, CommitKeeps

\* ReceiveEvent keeps the invariant.
LEMMA ReceiveEventKeeps ==
    ASSUME CollInv, NEW s \in Side, NEW n \in 1..MaxSeq, ReceiveEvent(s, n)
    PROVE  CollInv' /\ Honours
<1> DEFINE q == Recorded(s, Opened(s), {n})
           d == Drain(s, q)
<1>1. /\ Take(s, EventPacket(n)) /\ view[s].bound /\ Commit(s, d)
      /\ UNCHANGED <<own, ops, task, expired, lost, faults, plan>>
    BY DEF ReceiveEvent
<1>2. Applied(Peer(s), n) /\ MailInv'
      /\ mail' \in [Side -> SUBSET [kind : {"event"} \cup Sync, ref : Ref]]
    BY <1>1, EventTaken, TakeFacts
<1>3. Between(s, Opened(s)) /\ Opened(s).v = view[s] /\ Opened(s).rev = review[s]
    BY OpenedTx
<1>4. Between(s, q) /\ Kept(Opened(s), q)
    BY <1>2, <1>3, RecordedBetween
<1> HIDE DEF q
<1>5. Between(s, d) /\ Kept(q, d)
    BY <1>4, DrainBetween
<1> HIDE DEF d
<1>6. Kept(Opened(s), d)
    BY <1>4, <1>5, KeptTransitive
<1>7. Writes(s, d)
    BY <1>1 DEF Commit, Writes
<1> QED
    BY <1>1, <1>2, <1>3, <1>5, <1>6, <1>7, BoundKeeps DEF Kept

\* ReceiveSyncResponse keeps the invariant: the events inside the answer were
\* applied by their sender, like those that come in a packet of their own.
LEMMA ReceiveSyncResponseKeeps ==
    ASSUME CollInv, NEW s \in Side, NEW pk, ReceiveSyncResponse(s, pk)
    PROVE  CollInv' /\ Honours
<1> DEFINE q == Recorded(s, Opened(s), Carried(pk.ref))
           d == Drain(s, q)
<1>1. /\ Take(s, pk) /\ pk.kind = "sync_response" /\ view[s].bound /\ Commit(s, d)
      /\ UNCHANGED <<own, ops, task, expired, lost, faults, plan>>
    BY DEF ReceiveSyncResponse
<1>2. (\A n \in Carried(pk.ref) : Applied(Peer(s), n)) /\ MailInv'
      /\ mail' \in [Side -> SUBSET [kind : {"event"} \cup Sync, ref : Ref]]
    BY <1>1, TakeFacts
<1>3. Between(s, Opened(s)) /\ Opened(s).v = view[s] /\ Opened(s).rev = review[s]
    BY OpenedTx
<1>4. Between(s, q) /\ Kept(Opened(s), q)
    BY <1>2, <1>3, RecordedBetween
<1> HIDE DEF q
<1>5. Between(s, d) /\ Kept(q, d)
    BY <1>4, DrainBetween
<1> HIDE DEF d
<1>6. Kept(Opened(s), d)
    BY <1>4, <1>5, KeptTransitive
<1>7. Writes(s, d)
    BY <1>1 DEF Commit, Writes
<1> QED
    BY <1>1, <1>2, <1>3, <1>5, <1>6, <1>7, BoundKeeps DEF Kept

AskedAfter(d, n) == [d EXCEPT !.v.after = n]

\* Noting from where the peer wants to be told again.
LEMMA AskedBetween ==
    ASSUME NEW s \in Side, NEW d, Between(s, d), NEW n \in 0..MaxSeq
    PROVE  Between(s, AskedAfter(d, n)) /\ Kept(d, AskedAfter(d, n))
<1> DEFINE v == d.v
           w == [v EXCEPT !.after = n]
           e == AskedAfter(d, n)
<1>1. d \in Tx /\ v \in View
    BY DEF Between, TxInv, Tx
<1>2. e \in Tx /\ e.v = w /\ e.mo = d.mo /\ e.inb = d.inb /\ e.rev = d.rev
    <2>1. w \in View
        BY <1>1 DEF View
    <2>2. e = [d EXCEPT !.v = w]
        BY <1>1 DEF AskedAfter, Tx
    <2> HIDE DEF e, w
    <2> QED
        BY <1>1, <2>1, <2>2 DEF Tx
<1> HIDE DEF v
<1>3. /\ w.acc = v.acc /\ w.agreement = v.agreement /\ w.synced = v.synced /\ w.inseq = v.inseq
      /\ w.bound = v.bound /\ w.permit = v.permit /\ w.invited = v.invited
    BY <1>1 DEF View
<1> HIDE DEF w, e
<1>4. TxInv(s, e, <<s, 0>>)
    BY <1>2, <1>3, Frame DEF Between, v
<1>5. InOrder(e) /\ Kept(d, e)
    BY <1>2, <1>3 DEF Between, InOrder, Kept, v
<1> QED
    BY <1>4, <1>5 DEF Between, e

\* A recovery answer carries applied events only.
LEMMA Answering ==
    ASSUME MaxSeq \in Nat, NEW s \in Side, NEW after
    PROVE  Answer(s, after) \in Ref /\ \A n \in Carried(Answer(s, after)) : Applied(s, n)
<1> DEFINE ns == {n \in DOMAIN own[s] : n > after /\ own[s][n].st = "applied"}
           f == [n \in 1..MaxSeq |->
                   IF n \in ns /\ Cardinality({m \in ns : m <= n}) <= 8 THEN 1 ELSE 0]
<1>1. Answer(s, after) = f
    BY DEF Answer, Carrying
<1>2. f \in Ref
    <2> HIDE DEF ns
    <2>1. f \in [1..MaxSeq -> Nat]
        OBVIOUS
    <2> HIDE DEF f
    <2> QED
        BY <2>1 DEF Ref
<1>3. \A n \in 1..MaxSeq : f[n] = 1 => n \in ns
    <2> HIDE DEF ns
    <2> QED
        OBVIOUS
<1>4. DOMAIN f = 1..MaxSeq
    OBVIOUS
<1> HIDE DEF f
<1>5. \A n \in Carried(f) : n \in ns
    BY <1>3, <1>4 DEF Carried
<1> QED
    BY <1>1, <1>2, <1>5 DEF Applied

\* ReceiveSyncRequest keeps the invariant.
LEMMA ReceiveSyncRequestKeeps ==
    ASSUME CollInv, NEW s \in Side, NEW after \in 0..MaxSeq, ReceiveSyncRequest(s, after)
    PROVE  CollInv' /\ Honours
<1> DEFINE a == AskedAfter(Opened(s), after)
           q == Queue(a, "sync_response", Answer(s, after))
           d == Drain(s, q)
<1>1. /\ Take(s, Packet("sync_request", <<after>>)) /\ view[s].bound /\ Commit(s, d)
      /\ UNCHANGED <<own, ops, task, expired, lost, faults, plan>>
    BY DEF ReceiveSyncRequest, AskedAfter
<1>2. MailInv' /\ mail' \in [Side -> SUBSET [kind : {"event"} \cup Sync, ref : Ref]]
    BY <1>1, TakeFacts
<1>3. Between(s, Opened(s)) /\ Opened(s).v = view[s] /\ Opened(s).rev = review[s]
    BY OpenedTx
<1>4. Between(s, a) /\ Kept(Opened(s), a)
    BY <1>3, AskedBetween
<1>5. Answer(s, after) \in Ref /\ \A n \in Carried(Answer(s, after)) : Applied(s, n)
    BY EnvFacts, Answering
<1> HIDE DEF a
<1>6. TxInv(s, q, <<s, 0>>) /\ Keeps(a, q)
    <2> DEFINE ref == Answer(s, after)
    <2>1. ref \in Ref /\ \A n \in Carried(ref) : Applied(s, n)
        BY <1>5
    <2> HIDE DEF ref
    <2>2. Says(s, a, [kind |-> "sync_response", ref |-> ref, st |-> "ready"])
        BY <2>1 DEF Says
    <2>3. TxInv(s, a, <<s, 0>>) /\ "sync_response" \in Maintenance
        BY <1>4 DEF Between, Maintenance
    <2>4. TxInv(s, Queue(a, "sync_response", ref), <<s, 0>>)
        BY <2>1, <2>2, <2>3, Queueing
    <2>5. Keeps(a, Queue(a, "sync_response", ref))
        BY <2>1, <2>2, <2>3, Queueing
    <2> QED
        BY <2>4, <2>5 DEF ref
<1> HIDE DEF q
<1>7. Between(s, q) /\ Kept(a, q)
    BY <1>4, <1>6 DEF Between, InOrder, Keeps, Kept
<1>8. Between(s, d) /\ Kept(q, d)
    BY <1>7, DrainBetween
<1> HIDE DEF d
<1>9. Kept(Opened(s), d)
    BY <1>4, <1>7, <1>8, KeptTransitive
<1>10. Writes(s, d)
    BY <1>1 DEF Commit, Writes
<1> QED
    BY <1>1, <1>2, <1>3, <1>8, <1>9, <1>10, BoundKeeps DEF Kept

\* Review keeps the invariant, before and after the collaboration starts here.
LEMMA ReviewKeeps ==
    ASSUME CollInv, NEW s \in Side, NEW n \in 1..MaxSeq, NEW decision, Review(s, n, decision)
    PROVE  CollInv' /\ Honours
<1> DEFINE d == Ruled(Opened(s), n, decision)
<1>1. /\ review[s][n] = "pending" /\ decision \in {"approved", "rejected"}
      /\ UNCHANGED <<own, ops, task, expired, mail, lost, faults, plan>>
      /\ IF view[s].bound
         THEN Commit(s, Drain(s, IF decision = "approved" THEN Recorded(s, d, {n}) ELSE d))
         ELSE Commit(s, [d EXCEPT !.v.invited = (decision = "approved")])
    BY DEF Review, Ruled
<1>2. Applied(Peer(s), n)
    BY <1>1, OpenedTx DEF TxInv, Arrived
<1>3. decision \in {"none", "pending", "approved", "rejected"}
    BY <1>1
<1>4. /\ Between(s, d) /\ d.v = view[s] /\ d.mo = mops[s] /\ d.inb = inb[s]
      /\ d.rev = [review[s] EXCEPT ![n] = decision]
    <2>0. review[s][n] = "approved" => decision = "approved"
        BY <1>1
    <2>1. IsRuled(s, d, n, decision)
        BY <1>2, <1>3, <2>0, Ruling
    <2> HIDE DEF d
    <2> QED
        BY <2>1 DEF IsRuled
<1> HIDE DEF d
<1>5. \A k \in 1..MaxSeq : d.rev[k] = IF k = n THEN decision ELSE review[s][k]
    BY <1>4, Tables
<1>6. MailInv' /\ mail' \in [Side -> SUBSET [kind : {"event"} \cup Sync, ref : Ref]]
    BY <1>1 DEF CollInv, TypeOK, MailInv, Applied
<1>7. CASE view[s].bound
    <2> DEFINE q == IF decision = "approved" THEN Recorded(s, d, {n}) ELSE d
               e == Drain(s, q)
    <2>1. Between(s, q) /\ Kept(d, q)
        <3>1. Between(s, Recorded(s, d, {n})) /\ Kept(d, Recorded(s, d, {n}))
            BY <1>2, <1>4, RecordedBetween
        <3>2. Kept(d, d)
            BY DEF Kept
        <3> QED
            BY <1>4, <3>1, <3>2
    <2>2. Commit(s, e)
        BY <1>1, <1>7
    <2> HIDE DEF q
    <2>3. Between(s, e) /\ Kept(q, e)
        BY <2>1, DrainBetween
    <2> HIDE DEF e
    <2>4. Kept(d, e)
        BY <2>1, <2>3, KeptTransitive
    <2>5. Writes(s, e)
        BY <2>2 DEF Commit, Writes
    <2>6. \A k \in 1..MaxSeq : review[s][k] = "approved" => e.rev[k] = "approved"
        BY <1>1, <1>5, <2>4 DEF Kept
    <2>7. e.v.bound /\ e.v.invited = view[s].invited
        BY <1>4, <1>7, <2>4 DEF Kept
    <2> QED
        BY <1>1, <1>6, <1>7, <2>3, <2>5, <2>6, <2>7, BoundKeeps
<1>8. CASE ~view[s].bound
    <2> DEFINE x == decision = "approved"
               e == [d EXCEPT !.v.invited = x]
               w == [d.v EXCEPT !.invited = x]
    <2>0. d \in Tx /\ view[s] \in View
        BY <1>4, Tables DEF Between, TxInv
    <2>1. Commit(s, e)
        BY <1>1, <1>8
    <2>2. x \in BOOLEAN
        OBVIOUS
    <2> HIDE DEF x
    <2>3. e \in Tx /\ e.v = w /\ e.mo = d.mo /\ e.inb = d.inb /\ e.rev = d.rev
        <3>1. w \in View
            BY <1>4, <2>0, <2>2 DEF View
        <3>2. e = [d EXCEPT !.v = w]
            BY <2>0 DEF Tx
        <3> HIDE DEF e, w
        <3> QED
            BY <2>0, <3>1, <3>2 DEF Tx
    <2> HIDE DEF e
    <2>4. /\ w.acc = view[s].acc /\ w.agreement = view[s].agreement /\ w.synced = view[s].synced
          /\ w.inseq = view[s].inseq /\ w.bound = view[s].bound /\ w.permit = view[s].permit
          /\ w.invited = x
        BY <1>4, <2>0 DEF View
    <2> HIDE DEF w
    <2>5. Between(s, e)
        <3>1. TxInv(s, d, <<s, 0>>) /\ InOrder(d)
            BY <1>4 DEF Between
        <3>2. TxInv(s, e, <<s, 0>>)
            BY <1>4, <2>3, <2>4, <3>1, Frame
        <3> QED
            BY <1>4, <2>3, <2>4, <3>1, <3>2 DEF Between, InOrder
    <2>6. Writes(s, e)
        BY <2>1 DEF Commit, Writes
    <2>7. /\ view'[s] = w /\ inb'[s] = inb[s] /\ review'[s] = d.rev
          /\ \A y \in Side : y # s => /\ view'[y] = view[y] /\ inb'[y] = inb[y]
                                      /\ review'[y] = review[y]
        BY <1>4, <2>3, <2>6, Written
    <2>8. own[Peer(s)][n].kind = "invite" /\ own[s] = <<>> /\ view[s].permit # "live"
          /\ view[s].inseq = 0
        BY <1>1, <1>8 DEF CollInv, BoundInv
    <2>9. n = 1 /\ s = B
        <3>1. n \in DOMAIN own[Peer(s)] /\ Peer(s) \in Side
            BY <1>2, Sides DEF Applied
        <3>2. n = 1 /\ Peer(s) = A
            BY <2>8, <3>1 DEF CollInv, Shapes, Shape
        <3> QED
            BY <3>2, Sides
    <2>10. view[s].invited => x
        BY <1>1, <2>9 DEF CollInv, BoundInv
    <2>11. BoundInv'
        <3>1. ASSUME NEW y \in Side, ~view'[y].bound
              PROVE  /\ view'[y].inseq = 0 /\ view'[y].permit # "live" /\ own[y] = <<>>
                     /\ \A k \in 1..MaxSeq : /\ inb'[y][k] = "none"
                                             /\ review'[y][k] # "none" => own[Peer(y)][k].kind = "invite"
            <4>1. CASE y = s
                <5>1. /\ \A k \in 1..MaxSeq : inb[s][k] = "none"
                      /\ \A k \in 1..MaxSeq : review[s][k] # "none" => own[Peer(s)][k].kind = "invite"
                    BY <1>8 DEF CollInv, BoundInv
                <5>2. \A k \in 1..MaxSeq : d.rev[k] # "none" => own[Peer(s)][k].kind = "invite"
                    BY <1>1, <1>5, <5>1
                <5> QED
                    BY <2>4, <2>7, <2>8, <4>1, <5>1, <5>2
            <4>2. CASE y # s
                BY <2>7, <3>1, <4>2 DEF CollInv, BoundInv
            <4> QED
                BY <4>1, <4>2
        <3>2. view'[B].invited => 1 \in 1..MaxSeq /\ review'[B][1] = "approved"
            BY <1>5, <2>4, <2>7, <2>9 DEF x
        <3> QED
            BY <1>1, <3>1, <3>2 DEF BoundInv
    <2>12. (view[s].bound => e.v.bound) /\ (view[s].invited => e.v.invited)
        BY <1>8, <2>3, <2>4, <2>10
    <2> QED
        BY <1>1, <1>6, <2>5, <2>6, <2>11, <2>12, CommitKeeps
<1> QED
    BY <1>7, <1>8

\* RevokePermit keeps the invariant.
LEMMA RevokePermitKeeps ==
    ASSUME CollInv, NEW s \in Side, RevokePermit(s)
    PROVE  CollInv' /\ Honours
<1> DEFINE v == view[s]
           w == [v EXCEPT !.permit = "revoked", !.held = FALSE]
           o == Opened(s)
           d == [o EXCEPT !.v = w]
<1>1. /\ view' = [view EXCEPT ![s] = w] /\ v.permit = "live"
      /\ UNCHANGED <<own, inb, mops, ops, review, task, expired, mail, lost, faults, plan>>
    BY Tables DEF RevokePermit
<1>2. v \in View
    BY Tables
<1>3. /\ w \in View /\ w.acc = v.acc /\ w.agreement = v.agreement /\ w.synced = v.synced
      /\ w.inseq = v.inseq /\ w.bound = v.bound /\ w.invited = v.invited
    BY <1>2 DEF View
<1>4. /\ TxInv(s, o, <<s, 0>>) /\ InOrder(o) /\ o.v = v /\ o.mo = mops[s]
      /\ o.inb = inb[s] /\ o.rev = review[s] /\ o \in Tx
    BY OpenedTx
<1> HIDE DEF o, w
<1>5. d \in Tx /\ d.v = w /\ d.mo = o.mo /\ d.inb = o.inb /\ d.rev = o.rev
    BY <1>3, <1>4 DEF Tx
<1> HIDE DEF d
<1>6. Between(s, d)
    <2>1. TxInv(s, d, <<s, 0>>)
        BY <1>3, <1>4, <1>5, Frame
    <2> QED
        BY <1>3, <1>4, <1>5, <2>1 DEF Between, InOrder
<1>7. Writes(s, d)
    BY <1>1, <1>4, <1>5, Tables DEF Writes
<1>8. MailInv' /\ mail' \in [Side -> SUBSET [kind : {"event"} \cup Sync, ref : Ref]]
    BY <1>1 DEF CollInv, TypeOK, MailInv, Applied
<1>9. v.bound
    BY <1>1, SomethingIsLive
<1> QED
    BY <1>1, <1>3, <1>4, <1>5, <1>6, <1>7, <1>8, <1>9, BoundKeeps

\* SubmitSync keeps the invariant: what leaves was in the outbox.
LEMMA SubmitSyncKeeps ==
    ASSUME CollInv, NEW s \in Side, NEW m, SubmitSync(s, m)
    PROVE  CollInv' /\ Honours
<1> DEFINE mo == (mops[s] \ {m}) \cup {[m EXCEPT !.st = "accepted"]}
           o == Opened(s)
           d == Outbox(o, mo)
           pk == Packet(m.kind, m.ref)
<1>1. /\ m \in mops[s] /\ m.kind \in Sync /\ view[s].permit = "live"
      /\ mops' = [mops EXCEPT ![s] = mo]
      /\ mail' = [mail EXCEPT ![s] = mail[s] \cup {pk}]
      /\ UNCHANGED <<view, own, inb, ops, review, task, expired, lost, faults, plan>>
    BY DEF SubmitSync
<1>2. m \in Queuing /\ m.ref \in Ref
    BY <1>1, Tables DEF Queuing
<1>3. mo \in SUBSET Queuing /\ Resays(mo, mops[s])
    BY <1>1, <1>2, Tables DEF Queuing, Resays
<1>4. /\ TxInv(s, o, <<s, 0>>) /\ InOrder(o) /\ o.v = view[s] /\ o.mo = mops[s]
      /\ o.inb = inb[s] /\ o.rev = review[s]
    BY OpenedTx
<1> HIDE DEF mo, o
<1>5. TxInv(s, d, <<s, 0>>) /\ d.v = o.v /\ d.inb = o.inb /\ d.rev = o.rev /\ d.mo = mo
    BY <1>3, <1>4, Requeued
<1> HIDE DEF d
<1>6. Between(s, d)
    BY <1>4, <1>5 DEF Between, InOrder
<1>7. Writes(s, d)
    BY <1>1, <1>4, <1>5, Tables DEF Writes
<1>8. /\ pk \in [kind : {"event"} \cup Sync, ref : Ref] /\ pk.kind # "event"
      /\ pk.kind = "sync_response" => \A n \in Carried(pk.ref) : Applied(s, n)
    <2>1. Says(s, o, m)
        BY <1>1, <1>4 DEF TxInv, Truthful
    <2> QED
        BY <1>1, <1>2, <2>1 DEF Packet, Says, Sync
<1> HIDE DEF pk
<1>9. /\ mail' \in [Side -> SUBSET [kind : {"event"} \cup Sync, ref : Ref]]
      /\ mail'[s] = mail[s] \cup {pk} /\ \A x \in Side : x # s => mail'[x] = mail[x]
    BY <1>1, <1>8 DEF CollInv, TypeOK
<1>10. MailInv'
    <2>1. ASSUME NEW x \in Side, NEW p \in mail'[x]
          PROVE  /\ p.kind = "event" => \E n \in 1..MaxSeq : p.ref = <<n>> /\ Applied(x, n)
                 /\ p.kind = "sync_response" => \A n \in Carried(p.ref) : Applied(x, n)
        <3>1. CASE p \in mail[x]
            BY <3>1 DEF CollInv, MailInv
        <3>2. CASE p \notin mail[x]
            BY <1>8, <1>9, <3>2
        <3> QED
            BY <3>1, <3>2
    <2> QED
        BY <1>1, <2>1 DEF MailInv, Applied
<1>11. view[s].bound
    BY <1>1, SomethingIsLive
<1> QED
    BY <1>1, <1>4, <1>5, <1>6, <1>7, <1>9, <1>10, <1>11, BoundKeeps

\* Side s reduces its own event n, which may have been applied already.
Reduction(s, n) ==
    IF own[s][n].st = "applied" THEN Ok(Opened(s))
    ELSE Apply(s, Opened(s), s, n, own[s][n], TRUE)

\* The reducer on an event of the side itself.
LEMMA Reducing ==
    ASSUME CollInv, NEW s \in Side, NEW n \in DOMAIN own[s], Reduction(s, n).res = "ok"
    PROVE  TxInv(s, Reduction(s, n).d, <<s, n>>) /\ Keeps(Opened(s), Reduction(s, n).d)
<1>1. TxInv(s, Opened(s), <<s, n>>)
    BY OpenedTx, LaterTx
<1>2. CASE own[s][n].st = "applied"
    BY <1>1, <1>2 DEF Reduction, Ok, Keeps
<1>3. CASE own[s][n].st # "applied"
    <2> DEFINE e == own[s][n]
               o == Opened(s)
    <2>1. Handling(s, o, s, n, e, TRUE)
        BY <1>1 DEF Handling
    <2>2. Reduction(s, n) = Apply(s, o, s, n, e, TRUE)
        BY <1>3 DEF Reduction
    <2> HIDE DEF e, o
    <2>3. Handled(s, o, s, n, Apply(s, o, s, n, e, TRUE).d)
        BY <2>1, <2>2, Applying
    <2> QED
        BY <2>2, <2>3 DEF Handled, o
<1> QED
    BY <1>2, <1>3

\* The rows of s after its event n is handed over.
SentAs(e, wire) == [e EXCEPT !.st = "applied", !.wire = wire]

\* The stream of a side that has applied its event n.
LEMMA Sent ==
    ASSUME CollInv, NEW s \in Side, NEW n \in DOMAIN own[s],
           NEW wire \in {"accepted", "failed", "unanswered"},
           own' = [own EXCEPT ![s][n].st = "applied", ![s][n].wire = wire]
    PROVE  /\ own' \in [Side -> Seq(Event)] /\ Len(own'[s]) = Len(own[s])
           /\ \A x \in Side : x # s => own'[x] = own[x]
           /\ \A x \in Side : DOMAIN own'[x] = DOMAIN own[x]
           /\ own'[s][n].st = "applied"
           /\ \A x \in Side : \A k \in DOMAIN own[x] :
                 /\ own'[x][k].kind = own[x][k].kind /\ own'[x][k].ref = own[x][k].ref
                 /\ own[x][k].st = "applied" => own'[x][k].st = "applied"
           /\ OwnGrows
<1> DEFINE e == SentAs(own[s][n], wire)
           q == [own[s] EXCEPT ![n] = e]
<1>1. own \in [Side -> Seq(Event)] /\ own[s] \in Seq(Event) /\ own[s][n] \in Event
    BY EnvFacts
<1>2. /\ e \in Event /\ e.kind = own[s][n].kind /\ e.ref = own[s][n].ref /\ e.st = "applied"
    BY <1>1 DEF SentAs, Event
<1>3. own' = [own EXCEPT ![s] = q]
    BY <1>1 DEF SentAs
<1> HIDE DEF e
<1>4. /\ q \in Seq(Event) /\ Len(q) = Len(own[s]) /\ DOMAIN q = DOMAIN own[s]
      /\ \A k \in DOMAIN own[s] : q[k] = IF k = n THEN e ELSE own[s][k]
    BY <1>1, <1>2, ReplaceFacts
<1> HIDE DEF q
<1>5. /\ own' \in [Side -> Seq(Event)] /\ own'[s] = q
      /\ \A x \in Side : x # s => own'[x] = own[x]
    <2> DEFINE f == own
               g == own'
               T == Seq(Event)
    <2>1. f \in [Side -> T] /\ q \in T /\ g = [f EXCEPT ![s] = q]
        BY <1>1, <1>3, <1>4
    <2> HIDE DEF f, g, T
    <2>2. g \in [Side -> T] /\ g[s] = q /\ \A x \in Side : x # s => g[x] = f[x]
        BY <2>1
    <2> QED
        BY <2>2 DEF f, g, T
<1>6. /\ \A x \in Side : DOMAIN own'[x] = DOMAIN own[x]
      /\ own'[s][n].st = "applied" /\ Len(own'[s]) = Len(own[s])
    BY <1>2, <1>4, <1>5
<1>7. ASSUME NEW x \in Side, NEW k \in DOMAIN own[x]
      PROVE  /\ own'[x][k].kind = own[x][k].kind /\ own'[x][k].ref = own[x][k].ref
             /\ own[x][k].st = "applied" => own'[x][k].st = "applied"
    <2>1. CASE x = s /\ k = n
        BY <1>2, <1>4, <1>5, <2>1
    <2>2. CASE ~(x = s /\ k = n)
        <3>1. own'[x][k] = own[x][k]
            BY <1>4, <1>5, <2>2
        <3> QED
            BY <3>1
    <2> QED
        BY <2>1, <2>2
<1>8. OwnGrows
    BY <1>6, <1>7 DEF OwnGrows
<1> QED
    BY <1>5, <1>6, <1>7, <1>8

\* Submit keeps the invariant: the event leaves in the transaction that applied it
\* or after it.
LEMMA SubmitKeeps ==
    ASSUME CollInv, NEW s \in Side, NEW n \in 1..MaxSeq,
           NEW wire \in {"accepted", "failed", "unanswered"}, Submit(s, n, wire)
    PROVE  CollInv' /\ Honours
<1> DEFINE e == own[s][n]
           posted == e.wire = "unanswered"
           f == Reduction(s, n).d
           mo == IF wire = "accepted" THEN Accepted(f.mo, e) ELSE f.mo
           d == Outbox(f, mo)
           next == IF posted /\ wire = "failed" THEN "unanswered" ELSE wire
<1>1. /\ n \in DOMAIN own[s] /\ UNCHANGED <<ops, task, expired, lost, plan>>
      /\ IF wire = "accepted" THEN faults' = faults
         ELSE faults < plan.faults /\ faults' = faults + 1
      /\ own' = [own EXCEPT ![s][n].st = "applied", ![s][n].wire = next]
      /\ mail' = IF wire = "failed" \/ posted THEN mail
                 ELSE [mail EXCEPT ![s] = mail[s] \cup {EventPacket(n)}]
      /\ Reduction(s, n).res = "ok" /\ Commit(s, d)
    BY DEF Submit, Reduction, Outbox
<1>2. next \in {"accepted", "failed", "unanswered"}
    OBVIOUS
<1>3. TxInv(s, f, <<s, n>>) /\ Keeps(Opened(s), f)
    BY <1>1, Reducing
<1>4. f \in Tx /\ f.mo \in SUBSET Queuing
    BY <1>3 DEF TxInv, Tx
<1> HIDE DEF f, next
<1>5. mo \in SUBSET Queuing /\ Resays(mo, f.mo)
    <2>1. Accepted(f.mo, e) \in SUBSET Queuing /\ Resays(Accepted(f.mo, e), f.mo)
        <3> HIDE DEF e
        <3> DEFINE rows == f.mo
        <3>1. rows \in SUBSET Queuing
            BY <1>4
        <3> HIDE DEF rows
        <3>2. Accepted(rows, e) \in SUBSET Queuing /\ Resays(Accepted(rows, e), rows)
            BY <3>1 DEF Accepted, Resays, Queuing
        <3> QED
            BY <3>2 DEF rows
    <2>2. Resays(f.mo, f.mo)
        BY DEF Resays
    <2> QED
        BY <1>4, <2>1, <2>2
<1> HIDE DEF mo
<1>6. TxInv(s, d, <<s, n>>) /\ d.v = f.v /\ d.inb = f.inb /\ d.rev = f.rev /\ d.mo = mo
    BY <1>3, <1>5, Requeued
<1> HIDE DEF d
<1>7. /\ InOrder(Opened(s)) /\ Opened(s).v = view[s] /\ Opened(s).inb = inb[s]
      /\ Opened(s).rev = review[s]
    BY OpenedTx
<1>8. InOrder(d) /\ d \in Tx
    BY <1>3, <1>6, <1>7 DEF InOrder, Keeps, TxInv
<1>9. /\ d.v.bound = view[s].bound /\ d.v.invited = view[s].invited /\ d.rev = review[s]
    BY <1>3, <1>6, <1>7 DEF Keeps
<1>10. Writes(s, d)
    BY <1>1 DEF Commit, Writes
<1>11. /\ own' \in [Side -> Seq(Event)] /\ Len(own'[s]) = Len(own[s])
       /\ \A x \in Side : x # s => own'[x] = own[x]
       /\ \A x \in Side : DOMAIN own'[x] = DOMAIN own[x]
       /\ own'[s][n].st = "applied"
       /\ \A x \in Side : \A k \in DOMAIN own[x] :
             /\ own'[x][k].kind = own[x][k].kind /\ own'[x][k].ref = own[x][k].ref
             /\ own[x][k].st = "applied" => own'[x][k].st = "applied"
       /\ OwnGrows
    BY <1>1, <1>2, Sent
<1>12. SidesInv' /\ \A x \in Side : view'[x].inseq <= Len(own'[Peer(x)])
    <2>1. plan' = plan /\ (n \in DOMAIN own[s] => own'[s][n].st = "applied")
        BY <1>1, <1>11
    <2>2. OwnGrows /\ own' \in [Side -> Seq(Event)]
        BY <1>11
    <2>3. PICK g : g = d
        OBVIOUS
    <2>4. TxInv(s, g, <<s, n>>) /\ InOrder(g) /\ Writes(s, g)
        BY <1>6, <1>8, <1>10, <2>3
    <2>5. \A x \in Side : \A k \in DOMAIN own'[x] \ DOMAIN own[x] :
             x = s /\ Says(s, g, own[x][k])'
        BY <1>11
    <2> QED
        BY <2>1, <2>2, <2>4, <2>5, Committing
<1>13. Shapes'
    <2>1. \A x \in Side : \A k \in DOMAIN own'[x] :
             Shape(x, own[x][k])' /\ (own'[x][k].kind = "invite" => k = 1)
        BY <1>1, <1>11 DEF CollInv, Shapes, Shape
    <2>2. /\ \A x \in Side : view[x].bound => view'[x].bound
          /\ view[B].invited => view'[B].invited
        BY <1>8, <1>9, <1>10, Written, Sides
    <2>3. \A x \in Side : \A k \in DOMAIN ops'[x] : OpShape(x, ops[x][k])'
        BY <1>1, <2>2 DEF CollInv, Shapes, OpShape, Shape
    <2> QED
        BY <2>1, <2>3 DEF Shapes
<1>14. BoundInv'
    <2>1. view[s].bound
        <3>1. own[s] # <<>>
            BY <1>1
        <3> QED
            BY <3>1 DEF CollInv, BoundInv
    <2>2. Peer(s) \in Side /\ Peer(s) # s
        BY Sides
    <2>3. /\ view'[s] = d.v /\ review'[s] = d.rev
          /\ \A x \in Side : x # s => /\ view'[x] = view[x] /\ inb'[x] = inb[x]
                                      /\ review'[x] = review[x]
        BY <1>8, <1>10, Written
    <2>4. s = B => (view'[B].invited => 1 \in 1..MaxSeq /\ review'[B][1] = "approved")
        BY <1>9, <2>3 DEF CollInv, BoundInv
    <2> QED
        BY <1>9, <1>11, <2>1, <2>2, <2>3, <2>4, BoundStays
<1>15. /\ mail' \in [Side -> SUBSET [kind : {"event"} \cup Sync, ref : Ref]]
       /\ \A x \in Side : \A pk \in mail'[x] :
             pk \in mail[x] \/ (x = s /\ pk = EventPacket(n))
    <2>1. EventPacket(n) \in [kind : {"event"} \cup Sync, ref : Ref]
        BY Single, EnvFacts DEF EventPacket, Packet
    <2>2. mail \in [Side -> SUBSET [kind : {"event"} \cup Sync, ref : Ref]]
        BY DEF CollInv, TypeOK
    <2> QED
        BY <1>1, <2>1, <2>2
<1>16. MailInv'
    <2>1. Applied(s, n)'
        BY <1>1, <1>11 DEF Applied
    <2>2. EventPacket(n).kind = "event" /\ EventPacket(n).ref = <<n>>
        BY DEF EventPacket, Packet
    <2>3. ASSUME NEW x \in Side, NEW pk \in mail'[x]
          PROVE  /\ pk.kind = "event" => \E k \in 1..MaxSeq : pk.ref = <<k>> /\ Applied(x, k)'
                 /\ pk.kind = "sync_response" => \A k \in Carried(pk.ref) : Applied(x, k)'
        <3>1. CASE pk \in mail[x]
            BY <1>11, <3>1, MailStays
        <3>2. CASE x = s /\ pk = EventPacket(n)
            BY <2>1, <2>2, <3>2
        <3> QED
            BY <1>15, <2>3, <3>1, <3>2
    <2> QED
        BY <2>3 DEF MailInv
<1>17. \A x \in Side : Len(own'[x]) + Len(ops'[x]) <= MaxSeq
    BY <1>1, <1>11, SeqFacts
<1>18. ops' \in [Side -> Seq(Operation)] /\ faults' \in 0..plan.faults
    BY <1>1, PlanFacts DEF CollInv, TypeOK
<1>19. CollInv'
    BY <1>1, <1>8, <1>10, <1>11, <1>12, <1>13, <1>14, <1>15, <1>16, <1>17, <1>18, Concluding
<1> QED
    BY <1>6, <1>10, <1>19, Honouring

-----------------------------------------------------------------------------
(* The invariant.                                                           *)

\* The invariant holds at the start.
LEMMA Beginning ==
    ASSUME Init
    PROVE  CollInv
<1>0. /\ plan \in Plans /\ plan.versions \in Nat /\ plan.permit \in Nat /\ plan.lost \in Nat
      /\ plan.faults \in Nat /\ MaxSeq \in Nat
    BY PlanFacts, CollaborationAssumption DEF Init
<1>1. NewCollaboration \in View
    <2>1. NoAcceptance \in Acceptance
        BY <1>0 DEF NoAcceptance, Acceptance
    <2>2. [x \in Side |-> NoAcceptance] \in [Side -> Acceptance]
        BY <2>1
    <2>3. <<>> \in Ref
        BY DEF Ref
    <2> QED
        BY <1>0, <2>2, <2>3 DEF NewCollaboration, View
<1>2. \A s \in Side : /\ view[s] = NewCollaboration /\ own[s] = <<>> /\ ops[s] = <<>>
                      /\ mops[s] = {} /\ mail[s] = {} /\ Peer(s) \in Side
                      /\ inb[s] = [n \in 1..MaxSeq |-> "none"]
                      /\ review[s] = [n \in 1..MaxSeq |-> "none"]
    BY Sides DEF Init
<1>3. /\ NewCollaboration.acc = [x \in Side |-> NoAcceptance]
      /\ NewCollaboration.agreement = <<>> /\ ~NewCollaboration.synced
      /\ NewCollaboration.inseq = 0 /\ NewCollaboration.permit = "none"
      /\ ~NewCollaboration.bound /\ ~NewCollaboration.invited
    BY DEF NewCollaboration
<1>4. TypeOK
    <2>1. view \in [Side -> View] /\ \A s \in Side : view[s].inseq <= Len(own[Peer(s)])
        BY <1>1, <1>2, <1>3 DEF Init
    <2>2. /\ own \in [Side -> Seq(Event)] /\ ops \in [Side -> Seq(Operation)]
          /\ \A s \in Side : Len(own[s]) + Len(ops[s]) <= MaxSeq
        BY <1>0, <1>2 DEF Init
    <2>3. /\ mops \in [Side -> SUBSET Queuing]
          /\ inb \in [Side -> [1..MaxSeq -> {"none", "buffered", "applied", "rejected"}]]
          /\ review \in [Side -> [1..MaxSeq -> {"none", "pending", "approved", "rejected"}]]
          /\ task \in [Side -> {"active", "revoked"}] /\ expired \subseteq Side
          /\ mail \in [Side -> SUBSET [kind : {"event"} \cup Sync, ref : Ref]]
        BY DEF Init
    <2>4. plan \in Plans /\ lost \in 0..plan.lost /\ faults \in 0..plan.faults
        BY <1>0 DEF Init
    <2> QED
        BY <2>1, <2>2, <2>3, <2>4 DEF TypeOK
<1>5. ASSUME NEW s \in Side
      PROVE  InOrder(Opened(s)) /\ TxInv(s, Opened(s), <<s, 0>>)
    <2> DEFINE d == Opened(s)
    <2>1. /\ d.v = NewCollaboration /\ d.mo = {} /\ d.inb = [n \in 1..MaxSeq |-> "none"]
          /\ d.rev = [n \in 1..MaxSeq |-> "none"]
        BY <1>2 DEF Opened
    <2>2. d \in Tx
        BY <1>1, <1>2 DEF Opened, Tx, InStatus
    <2> HIDE DEF d
    <2>3. \A n \in 1..MaxSeq : d.inb[n] = "none" /\ d.rev[n] = "none"
        BY <2>1
    <2>4. InOrder(d) /\ Arrived(s, d) /\ Vetted(s, d)
        BY <1>0, <1>3, <2>1, <2>3 DEF InOrder, Arrived, Vetted
    <2>5. AcceptancesInv(s, d, <<s, 0>>)
        BY <1>3, <2>1 DEF AcceptancesInv, NoAcceptance
    <2>6. Truthful(s, d)
        BY <1>2, <2>1 DEF Truthful
    <2>7. AgreedInv(s, d, <<s, 0>>) /\ SyncedInv(s, d) /\ HonoursInv(s, d)
        BY <1>2, <1>3, <2>1, <2>3, Sides DEF AgreedInv, SyncedInv, HonoursInv
    <2>8. WithdrawnInv(s, d) /\ Grown(s, d)
        BY <1>2, <2>3 DEF WithdrawnInv, Grown
    <2> QED
        BY <2>2, <2>4, <2>5, <2>6, <2>7, <2>8 DEF TxInv, d
<1>6. SidesInv
    BY <1>5 DEF SidesInv
<1>7. Shapes /\ MailInv
    BY <1>2 DEF Shapes, MailInv
<1>8. BoundInv
    <2>1. ASSUME NEW s \in Side
          PROVE  /\ view[s].inseq = 0 /\ view[s].permit # "live" /\ own[s] = <<>>
                 /\ \A n \in 1..MaxSeq : inb[s][n] = "none" /\ review[s][n] = "none"
        <3>1. view[s].inseq = 0 /\ view[s].permit # "live" /\ own[s] = <<>>
            BY <1>2, <1>3
        <3>2. inb[s] = [n \in 1..MaxSeq |-> "none"] /\ review[s] = [n \in 1..MaxSeq |-> "none"]
            BY <1>2
        <3>3. \A n \in 1..MaxSeq : inb[s][n] = "none" /\ review[s][n] = "none"
            BY <3>2
        <3> QED
            BY <3>1, <3>3
    <2>2. ~view[B].invited
        BY <1>2, <1>3, Sides
    <2> QED
        BY <2>1, <2>2 DEF BoundInv
<1> QED
    BY <1>4, <1>6, <1>7, <1>8 DEF CollInv

\* A step that writes no record changes no agreement.
LEMMA Unviewed ==
    ASSUME UNCHANGED view
    PROVE  Honours
BY DEF Honours

\* What an owner may do keeps the invariant.
LEMMA OwnerKeeps ==
    ASSUME CollInv, NEW s \in Side, Owner(s)
    PROVE  CollInv' /\ Honours
<1>1. ASSUME NEW kind \in Business, Prepare(s, kind)
      PROVE  CollInv' /\ Honours
    BY <1>1, PrepareKeeps, Unviewed DEF Prepare
<1>2. ASSUME NEW i \in 1..MaxOps, Approve(s, i)
      PROVE  CollInv' /\ Honours
    BY <1>2, ApproveKeeps, Unviewed DEF Approve
<1>3. ASSUME NEW i \in 1..MaxOps, Drop(s, i)
      PROVE  CollInv' /\ Honours
    BY <1>3, DropKeeps, Unviewed DEF Drop
<1>4. CASE RevokeTask(s)
    BY <1>4, RevokeTaskKeeps, Unviewed DEF RevokeTask
<1>5. CASE Expire(s)
    BY <1>5, ExpireKeeps, Unviewed DEF Expire
<1> QED
    BY <1>1, <1>2, <1>3, <1>4, <1>5, ReviewKeeps, RevokePermitKeeps DEF Owner

\* What a host does keeps it.
LEMMA HostKeeps ==
    ASSUME CollInv, NEW s \in Side, Host(s)
    PROVE  CollInv' /\ Honours
BY ReserveKeeps, ReserveMaintenanceKeeps, SubmitSyncKeeps, SubmitKeeps DEF Host

\* What arrives, and what is lost, keeps it.
LEMMA MailboxKeeps ==
    ASSUME CollInv, NEW s \in Side, Mailbox(s)
    PROVE  CollInv' /\ Honours
<1>1. ASSUME NEW pk \in mail[s], Lose(s, pk)
      PROVE  CollInv' /\ Honours
    BY <1>1, LoseKeeps, Unviewed DEF Lose
<1> QED
    BY <1>1, ReceiveReviewableKeeps, ReceiveEventKeeps, ReceiveSyncRequestKeeps,
       ReceiveSyncResponseKeeps DEF Mailbox

\* A stuttering step keeps it.
LEMMA Stuttering ==
    ASSUME CollInv, UNCHANGED vars
    PROVE  CollInv' /\ Honours
<1>1. UNCHANGED <<view, own, inb, mops, ops, review, task, expired, mail, lost, faults, plan>>
    BY DEF vars
<1>2. SidesInv' /\ BoundInv'
    BY <1>1, Unwritten
<1>3. TypeOK'
    BY <1>1 DEF CollInv, TypeOK, View, Acceptance, Queuing, Operation, Facts
<1>4. Shapes' /\ MailInv'
    BY <1>1 DEF CollInv, Shapes, OpShape, Shape, MailInv, Applied
<1> QED
    BY <1>1, <1>2, <1>3, <1>4, Unviewed DEF CollInv

\* Every step keeps the invariant, and what it does to agreements is honest.
LEMMA Stepping ==
    ASSUME CollInv, [Next]_vars
    PROVE  CollInv' /\ Honours
BY OwnerKeeps, HostKeeps, MailboxKeeps, Stuttering DEF Next

\* The invariant holds of every behaviour of the two runtimes and the mailbox.
THEOREM CollaborationInvariance == Spec => []CollInv
<1>1. Init => CollInv
    BY Beginning
<1>2. CollInv /\ [Next]_vars => CollInv'
    BY Stepping
<1> QED
    BY <1>1, <1>2, PTL DEF Spec

\* Type correctness: in particular a side never numbers more events than its rows
\* and pending operations allow, and its cursor never passes the peer's stream.
THEOREM TypeCorrect == Spec => []TypeOK
<1>1. CollInv => TypeOK
    BY DEF CollInv
<1> QED
    BY <1>1, CollaborationInvariance, PTL

\* No event that is only reserved (dispatch_collaboration's first transaction)
\* reaches the other side, in its own packet or in a recovery answer.
THEOREM ReservationsStay == Spec => []NothingReservedLeaves
<1>1. ASSUME CollInv
      PROVE  NothingReservedLeaves
    <2> SUFFICES ASSUME NEW s \in Side, NEW n \in 1..MaxSeq,
                        EventPacket(n) \in mail[s] \/ inb[Peer(s)][n] # "none"
                 PROVE  Applied(s, n)
        BY DEF NothingReservedLeaves, Applied
    <2>1. CASE EventPacket(n) \in mail[s]
        <3>1. EventPacket(n).kind = "event" /\ EventPacket(n).ref = <<n>>
            BY DEF EventPacket, Packet
        <3>2. PICK k \in 1..MaxSeq : <<n>> = <<k>> /\ Applied(s, k)
            BY <1>1, <2>1, <3>1 DEF CollInv, MailInv
        <3> QED
            BY <3>2
    <2>2. CASE inb[Peer(s)][n] # "none"
        <3>1. Peer(s) \in Side /\ Peer(Peer(s)) = s
            BY Sides
        <3>2. Arrived(Peer(s), Opened(Peer(s))) /\ Opened(Peer(s)).inb = inb[Peer(s)]
            BY <1>1, <3>1, OpenedTx DEF TxInv
        <3> QED
            BY <2>2, <3>1, <3>2 DEF Arrived
    <2> QED
        BY <2>1, <2>2
<1>2. CollInv => NothingReservedLeaves
    BY <1>1
<1> QED
    BY <1>2, CollaborationInvariance, PTL

\* _v2_drain reduces the peer's events in their order, whatever the mailbox loses
\* or reorders.
THEOREM OrderHolds == Spec => []ReducedInOrder
<1>1. ASSUME CollInv
      PROVE  ReducedInOrder
    BY <1>1, OpenedTx DEF ReducedInOrder, InOrder
<1>2. CollInv => ReducedInOrder
    BY <1>1
<1> QED
    BY <1>2, CollaborationInvariance, PTL

\* No reviewable event is applied before its owner approved that content, however
\* it arrived (the review gate of peer_review.py).
THEOREM ReviewHolds == Spec => []ReviewedBeforeUse
<1>1. ASSUME CollInv
      PROVE  ReviewedBeforeUse
    <2>1. ASSUME NEW s \in Side
          PROVE  /\ Vetted(s, Opened(s)) /\ Opened(s).inb = inb[s] /\ Opened(s).rev = review[s]
        BY <1>1, OpenedTx DEF TxInv
    <2> QED
        BY <2>1 DEF ReviewedBeforeUse, Vetted
<1>2. CollInv => ReviewedBeforeUse
    BY <1>1
<1> QED
    BY <1>2, CollaborationInvariance, PTL

\* The two sides never hold different agreements, each is backed by an acceptance
\* of exactly those terms that its own side applied, and neither calls it
\* synchronized before the other one is as far.
THEOREM AgreementHolds == Spec => []AgreementSound
<1>1. ASSUME CollInv
      PROVE  AgreementSound
    <2>0. A \in Side /\ B \in Side /\ A # B /\ Peer(A) = B /\ Peer(B) = A /\ MaxSeq \in Nat
          /\ \A s \in Side : s = A \/ s = B
        BY <1>1, Sides, EnvFacts
    <2>1. ASSUME NEW s \in Side
          PROVE  /\ AgreedInv(s, Opened(s), <<s, 0>>) /\ SyncedInv(s, Opened(s))
                 /\ Arrived(s, Opened(s)) /\ Opened(s).v = view[s] /\ Opened(s).inb = inb[s]
        BY <1>1, OpenedTx DEF TxInv
    <2>2. \A s \in Side : view[s].agreement # <<>> => view[s].agreement = view[A].agreement
        BY <2>0, <2>1 DEF AgreedInv
    <2>3. ASSUME NEW g, view[A].agreement = g, g # <<>>, NEW x \in Side
          PROVE  LET n == g[IF x = A THEN 2 ELSE 3]
                 IN /\ n \in DOMAIN own[x] /\ own[x][n].st = "applied"
                    /\ own[x][n].kind = "accept" /\ own[x][n].ref = <<g[1]>>
        <3>1. Evidence(A, Opened(A), <<A, 0>>, g)
            BY <2>0, <2>1, <2>3 DEF AgreedInv
        <3>2. PICK t \in 1..plan.versions, a, b \in 1..MaxSeq, i, j \in 0..MaxSeq :
                 /\ g = <<t, a, b, i, j>>
                 /\ Accepting(A, a, t) /\ Done(A, Opened(A), <<A, 0>>, A, a)
                 /\ Accepting(B, b, t) /\ Done(A, Opened(A), <<A, 0>>, B, b)
            BY <3>1 DEF Evidence
        <3>3. own[A][a].st = "applied" /\ inb[A][b] = "applied"
            <4>1. a # 0 /\ Opened(A).inb = inb[A]
                BY <2>0, <2>1, <3>2
            <4>2. <<A, a>> # <<A, 0>> /\ <<B, b>> # <<A, 0>>
                BY <2>0, <4>1
            <4> QED
                BY <2>0, <3>2, <4>1, <4>2 DEF Done
        <3>4. own[B][b].st = "applied"
            BY <2>0, <2>1, <3>3 DEF Arrived, Applied
        <3>5. g[1] = t /\ g[2] = a /\ g[3] = b
            BY <3>2
        <3> QED
            BY <2>0, <3>2, <3>3, <3>4, <3>5 DEF Accepting
    <2>4. ASSUME NEW s \in Side, view[s].synced
          PROVE  /\ view[A].agreement # <<>> /\ view[B].agreement = view[A].agreement
                 /\ view[A].synced
        <3>1. CASE s = A
            BY <2>0, <2>1, <2>4, <3>1 DEF SyncedInv
        <3>2. CASE s = B
            <4>1. view[B].agreement # <<>> /\ view[A].synced
                BY <2>0, <2>1, <2>4, <3>2 DEF SyncedInv
            <4> QED
                BY <2>0, <2>2, <4>1
        <3> QED
            BY <2>0, <3>1, <3>2
    <2>5. ASSUME NEW s \in Side, view[s].agreement # <<>>, NEW x \in Side
          PROVE  LET n == view[s].agreement[IF x = A THEN 2 ELSE 3]
                 IN /\ n \in DOMAIN own[x] /\ own[x][n].st = "applied"
                    /\ own[x][n].kind = "accept" /\ own[x][n].ref = <<view[s].agreement[1]>>
        BY <2>2, <2>3, <2>5
    <2> QED
        BY <2>2, <2>4, <2>5 DEF AgreementSound
<1>2. CollInv => AgreementSound
    BY <1>1
<1> QED
    BY <1>2, CollaborationInvariance, PTL

\* _v2_form never forms an agreement out of an acceptance whose withdrawal the
\* initiator has reduced, and no step changes an agreement that was formed.
THEOREM WithdrawalsHonoured == Spec => FormationHonoursWithdrawal
<1> DEFINE Honoured ==
      \A s \in Side :
         /\ view[s].agreement # <<>> => view'[s].agreement = view[s].agreement
         /\ (view[A].agreement = <<>> /\ view'[A].agreement # <<>>) =>
              \A w \in DOMAIN own[B] :
                ~ /\ own[B][w].kind = "withdraw" /\ inb[A][w] = "applied"
                  /\ own[B][w].ref = <<view'[A].agreement[3]>>
<1>1. ASSUME CollInv, [Next]_vars
      PROVE  Honoured
    <2>1. Honours
        BY <1>1, Stepping
    <2>2. DOMAIN own[B] \subseteq 1..MaxSeq
        BY <1>1, EnvFacts, Sides
    <2> QED
        BY <2>1, <2>2 DEF Honours, Unwithdrawn
<1>2. CollInv /\ [Next]_vars => [Honoured]_vars
    BY <1>1
<1> QED
    BY <1>2, CollaborationInvariance, PTL DEF Spec, FormationHonoursWithdrawal

\* Whatever is reserved, no business event but an authorized recovery is handed
\* to the helper for a revoked or expired task, and no maintenance event for a
\* revoked permit.
THEOREM RevocationsHold == Spec => RevokedStaysSilent
<1> DEFINE Allowed(s, pk) ==
             IF pk.kind \in Sync THEN view[s].permit = "live"
             ELSE LET e == own[s][pk.ref[1]]
                  IN IF e.kind \in Maintenance THEN view[s].permit = "live"
                     ELSE e.once \/ Live(s)
<1>1. ASSUME CollInv, Next, NEW s \in Side, NEW pk \in mail'[s] \ mail[s]
      PROVE  Allowed(s, pk)
    <2>0. mail \in [Side -> SUBSET [kind : {"event"} \cup Sync, ref : Ref]]
        BY <1>1 DEF CollInv, TypeOK
    <2>1. ASSUME NEW x \in Side, NEW n, NEW wire, Submit(x, n, wire)
          PROVE  Allowed(s, pk)
        <3>1. x = s /\ pk = EventPacket(n)
            BY <1>1, <2>0, <2>1 DEF Submit
        <3>2. pk.kind = "event" /\ pk.ref[1] = n
            BY <3>1 DEF EventPacket, Packet
        <3>3. Sendable(s, own[s][n])
            BY <2>1, <3>1 DEF Submit
        <3> QED
            BY <3>2, <3>3 DEF Sendable, Sync
    <2>2. ASSUME NEW x \in Side, NEW m, SubmitSync(x, m)
          PROVE  Allowed(s, pk)
        <3>1. x = s /\ pk = Packet(m.kind, m.ref)
            BY <1>1, <2>0, <2>2 DEF SubmitSync
        <3>2. pk.kind \in Sync /\ view[s].permit = "live"
            BY <2>2, <3>1 DEF SubmitSync, Packet
        <3> QED
            BY <3>2
    <2>3. ASSUME \A x \in Side : mail'[x] \subseteq mail[x]
          PROVE  FALSE
        BY <1>1, <2>3
    <2>4. ASSUME NEW x \in Side, NEW p, Take(x, p)
          PROVE  FALSE
        BY <2>0, <2>3, <2>4, Sides DEF Take
    <2>5. ASSUME NEW x \in Side, NEW p, Lose(x, p)
          PROVE  FALSE
        BY <2>0, <2>3, <2>5 DEF Lose
    <2>6. ASSUME UNCHANGED mail
          PROVE  FALSE
        BY <2>3, <2>6
    <2>7. PICK x \in Side : Owner(x) \/ Host(x) \/ Mailbox(x)
        BY <1>1 DEF Next
    <2>8. CASE Owner(x)
        BY <2>6, <2>8
        DEF Owner, Prepare, Approve, Drop, Review, RevokeTask, RevokePermit, Expire
    <2>9. CASE Host(x)
        <3>1. ASSUME NEW i, Reserve(x, i)
              PROVE  FALSE
            BY <2>6, <3>1 DEF Reserve
        <3>2. ASSUME NEW m, ReserveMaintenance(x, m)
              PROVE  FALSE
            BY <2>6, <3>2 DEF ReserveMaintenance
        <3> QED
            BY <2>1, <2>2, <2>9, <3>1, <3>2 DEF Host
    <2>10. CASE Mailbox(x)
        BY <2>4, <2>5, <2>10
        DEF Mailbox, ReceiveReviewable, ReceiveEvent, ReceiveSyncRequest, ReceiveSyncResponse
    <2> QED
        BY <2>7, <2>8, <2>9, <2>10
<1>2. ASSUME CollInv, [Next]_vars
      PROVE  [\A s \in Side : \A pk \in mail'[s] \ mail[s] : Allowed(s, pk)]_vars
    <2> HIDE DEF Allowed
    <2> QED
        BY <1>1, <1>2
<1>3. CollInv /\ [Next]_vars =>
         [\A s \in Side : \A pk \in mail'[s] \ mail[s] : Allowed(s, pk)]_vars
    BY <1>2
<1> QED
    BY <1>3, CollaborationInvariance, PTL DEF Spec, RevokedStaysSilent
=============================================================================
