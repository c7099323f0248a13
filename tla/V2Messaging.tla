---------------------------- MODULE V2Messaging ----------------------------
(***************************************************************************)
(* The durable v2 outbox of one helper, the sender, and the durable inbox   *)
(* of its peer, the receiver, with the Platform between them:               *)
(* cmd/helper/v2_daemon.go (handleV2Store, refreshPolicy, deliverNext,      *)
(* retryV2, processMessages), cmd/helper/v2_mailbox.go (acceptV2,           *)
(* saveV2Envelope, updateV2Outgoing, saveV2Policy, receiveV2) and           *)
(* cmd/helper/v2_sequence_skip.go.                                          *)
(*                                                                          *)
(* An envelope is the pair of numbers its signature binds, a session and a  *)
(* sequence; its bytes are fixed with them.  A Session stands for one       *)
(* handshake transcript, of the policy epoch EpochOf gives it; V2Handshake  *)
(* models how the helpers come to share one, and shows the failures after   *)
(* which a helper joins one again; here each joins it at most once.  A      *)
(* control message repairs the sequence of a message whose ID the Platform  *)
(* has bound to other bytes; its own ID is derived from the bytes of the    *)
(* envelope it stands for, so nothing else can be bound to it.              *)
(***************************************************************************)
EXTENDS Naturals, FiniteSets

CONSTANTS
    Message,     \* IDs of the messages the owner may send
    ControlOf,   \* the v2skip_ ID of the control that repairs each message
    Session,     \* transcripts the two helpers may complete
    EpochOf,     \* the policy epoch each transcript was made under
    MaxEpoch,    \* bound: policy epochs the Platform publishes
    Deadlined,   \* messages sent with a deadline
    MaxStale,    \* bound: envelopes whose own lifetime runs out
    Quota,       \* unread messages the Platform keeps for the receiver
    None, Foreign

Control == {ControlOf[m] : m \in Message}
Id == Message \cup Control
Envelope == [sess : Session, seq : Nat \ {0}]

\* handleV2Store refuses the v2skip_ prefix (v2_daemon.go:162), so no message ID
\* is a control ID; a control ID is a hash, so two messages have different ones.
ASSUME MessagingAssumption ==
    /\ \A m \in Message : ControlOf[m] \notin Message
    /\ \A m, n \in Message : ControlOf[m] = ControlOf[n] => m = n
    /\ EpochOf \in [Session -> Nat]
    /\ MaxEpoch \in Nat \ {0} /\ MaxStale \in Nat /\ Quota \in Nat
    /\ Deadlined \subseteq Message
    /\ None \notin Id \cup Session \cup {"receipt", "conflict", "error"}
    /\ None \notin Envelope /\ Foreign \notin Envelope /\ Foreign # None

VARIABLES
    \* the sender
    status, env,       \* helper_v2_outbox: status and envelope of each ID
    sSess, sendSeq,    \* its ready session with the receiver, SendSequence
    sUsed, sEpoch,     \* sessions it has joined; the policy epoch it has saved
    waiting, resp,     \* the StoreEnvelope in progress and its answer
    \* the receiver
    received,          \* helper_inbox and helper_v2_skipped_inbox
    rSess, recvSeq,    \* its ready session with the sender, ReceiveSequence
    rUsed, rEpoch,
    \* the network and the Platform
    req,               \* store requests on their way
    bound, unread,     \* bytes the Platform binds to each ID; rows not acknowledged
    pEpoch,            \* the policy epoch it publishes
    \* time
    overdue, stale     \* deadlines passed; envelopes past their lifetime

outbox == <<status, env>>
sender == <<sSess, sendSeq, sUsed, sEpoch>>
store == <<waiting, resp>>
receiver == <<received, rSess, recvSeq, rUsed, rEpoch>>
platform == <<bound, unread, pEpoch>>
time == <<overdue, stale>>
vars == <<outbox, sender, store, receiver, req, platform, time>>

Status == {"none", "accepted", "platform_queued", "quarantined", "expired", "conflict"}

TypeOK ==
    /\ status \in [Id -> Status]
    /\ env \in [Id -> Envelope \cup {None}]
    /\ sSess \in Session \cup {None} /\ sendSeq \in Nat
    /\ sUsed \subseteq Session /\ sEpoch \in 1..MaxEpoch
    /\ waiting \in Id \cup {None}
    /\ resp \in {None, "receipt", "conflict", "error"}
    /\ received \subseteq Id
    /\ rSess \in Session \cup {None} /\ recvSeq \in Nat
    /\ rUsed \subseteq Session /\ rEpoch \in 1..MaxEpoch
    /\ req \subseteq [id : Id, env : Envelope]
    /\ bound \in [Id -> Envelope \cup {None, Foreign}]
    /\ unread \subseteq Id
    /\ pEpoch \in 1..MaxEpoch
    /\ overdue \subseteq Message /\ stale \subseteq Id

\* The Platform may already bind some message IDs to bytes from elsewhere.
Init ==
    /\ status = [id \in Id |-> "none"]
    /\ env = [id \in Id |-> None]
    /\ sSess = None /\ sendSeq = 0 /\ sUsed = {} /\ sEpoch = 1
    /\ waiting = None /\ resp = None
    /\ received = {}
    /\ rSess = None /\ recvSeq = 0 /\ rUsed = {} /\ rEpoch = 1
    /\ req = {}
    /\ \E taken \in SUBSET Message :
          bound = [id \in Id |-> IF id \in taken THEN Foreign ELSE None]
    /\ unread = {} /\ pEpoch = 1
    /\ overdue = {} /\ stale = {}

-----------------------------------------------------------------------------
(* The sender's sessions and policy.  Its engine is one goroutine: none of  *)
(* this happens while a StoreEnvelope is in progress.                       *)

Idle == waiting = None

\* A handshake with the receiver completes (V2Handshake).
SJoin(s) ==
    /\ Idle
    /\ s \notin sUsed /\ EpochOf[s] = sEpoch
    /\ sSess' = s /\ sendSeq' = 0
    /\ sUsed' = sUsed \cup {s}
    /\ UNCHANGED <<outbox, sEpoch, store, receiver, req, platform, time>>

\* deliverNext found another recipient key and deleted the session, or an Init
\* of the receiver replaced it by one that is not ready.  Bound: only while
\* another session of the policy is left to join.
SDrop ==
    /\ Idle
    /\ sSess # None
    /\ \E s \in Session \ sUsed : EpochOf[s] = sEpoch
    /\ sSess' = None /\ sendSeq' = 0
    /\ UNCHANGED <<outbox, sUsed, sEpoch, store, receiver, req, platform, time>>

\* refreshPolicy: a higher epoch quarantines what is pending and ends the session.
SRefresh ==
    /\ Idle
    /\ sEpoch < pEpoch
    /\ sEpoch' = pEpoch
    /\ status' = [id \in Id |-> IF status[id] = "accepted" THEN "quarantined"
                                                           ELSE status[id]]
    /\ sSess' = None /\ sendSeq' = 0
    /\ UNCHANGED <<env, sUsed, store, receiver, req, platform, time>>

-----------------------------------------------------------------------------
(* The sender's outbox                                                      *)

\* handleV2Store, on a goroutine of its own; the same request again changes
\* nothing, another request with the same ID is refused.
Accept(m) ==
    /\ status[m] = "none"
    /\ status' = [status EXCEPT ![m] = "accepted"]
    /\ UNCHANGED <<env, sender, store, receiver, req, platform, time>>

\* The envelope e of id goes to the Platform.
StartStore(id, e) ==
    /\ waiting' = id /\ resp' = None
    /\ req' = req \cup {[id |-> id, env |-> e]}

\* deliverNext for the entry nextV2Outgoing returns: any accepted entry may be
\* the one that is due.
Due(id) == Idle /\ status[id] = "accepted"

Expire(m) ==
    /\ Due(m)
    /\ m \in overdue
    /\ status' = [status EXCEPT ![m] = "expired"]
    /\ UNCHANGED <<env, sender, store, receiver, req, platform, time>>

\* Mutant: the sequence is read but not advanced with the envelope.
SealWithoutCount(id) ==
    /\ Due(id) /\ id \notin overdue
    /\ env[id] = None /\ sSess # None
    /\ LET e == [sess |-> sSess, seq |-> sendSeq + 1]
       IN  env' = [env EXCEPT ![id] = e] /\ StartStore(id, e)
    /\ UNCHANGED <<status, sender, receiver, platform, time>>

\* saveV2Envelope commits the envelope with its sequence; the store follows
\* unless compliance was revoked or the helper stopped in between.
Seal(id) ==
    /\ Due(id) /\ id \notin overdue
    /\ env[id] = None /\ sSess # None
    /\ sendSeq' = sendSeq + 1
    /\ LET e == [sess |-> sSess, seq |-> sendSeq + 1]
       IN  /\ env' = [env EXCEPT ![id] = e]
           /\ StartStore(id, e) \/ UNCHANGED <<store, req>>
    /\ UNCHANGED <<status, sSess, sUsed, sEpoch, receiver, platform, time>>

\* Mutant: an entry is sent again whatever its status.
StoreAgainAny(id) ==
    /\ Idle
    /\ env[id] # None /\ id \notin stale
    /\ StartStore(id, env[id])
    /\ UNCHANGED <<outbox, sender, receiver, platform, time>>

\* The saved envelope is sent again, byte for byte, ...
StoreAgain(id) ==
    /\ Due(id) /\ id \notin overdue
    /\ env[id] # None /\ id \notin stale
    /\ StartStore(id, env[id])
    /\ UNCHANGED <<outbox, sender, receiver, platform, time>>

\* ... unless its lifetime is over.  That it may be of another policy than the
\* current one (v2_daemon.go:594) cannot happen: PendingIsCurrent.
Quarantine(id) ==
    /\ Due(id) /\ id \notin overdue
    /\ env[id] # None /\ id \in stale
    /\ status' = [status EXCEPT ![id] = "quarantined"]
    /\ UNCHANGED <<env, sender, store, receiver, req, platform, time>>

\* Mutant: every refusal of the Platform is taken for a permanent conflict.
OutcomeErrorConflict == IF resp = "receipt" THEN "platform_queued" ELSE "conflict"

\* What retryV2 and deliverNext make of the answer.
Outcome == CASE resp = "receipt" -> "platform_queued"
             [] resp = "conflict" -> "conflict"
             [] OTHER -> "accepted"

Record ==
    /\ waiting # None /\ resp # None
    /\ status' = [status EXCEPT ![waiting] = Outcome]
    /\ waiting' = None /\ resp' = None
    /\ UNCHANGED <<env, sender, receiver, req, platform, time>>

\* The request or its answer was lost or timed out, the answer could not be
\* saved, or the helper stopped: the entry stays accepted.
GiveUp ==
    /\ waiting # None
    /\ waiting' = None /\ resp' = None
    /\ \/ UNCHANGED req
       \/ req' = req \ {[id |-> waiting, env |-> env[waiting]]}
    /\ UNCHANGED <<outbox, sender, receiver, platform, time>>

\* hasLaterAdmittedV2Sequence
LaterAdmitted(e) ==
    \E id \in Id : /\ status[id] = "platform_queued" /\ id \notin stale
                   /\ env[id].sess = e.sess /\ env[id].seq > e.seq

\* scheduleV2SequenceSkip: the control takes the sequence of a message the
\* Platform refused for ever, once it has admitted a later one.
ScheduleSkip(m) ==
    /\ Idle
    /\ status[m] = "conflict" /\ status[ControlOf[m]] = "none"
    /\ env[m] # None /\ env[m].sess = sSess /\ sendSeq > env[m].seq
    /\ LaterAdmitted(env[m])
    /\ env' = [env EXCEPT ![ControlOf[m]] = env[m]]
    /\ status' = [status EXCEPT ![ControlOf[m]] = "accepted"]
    /\ UNCHANGED <<sender, store, receiver, req, platform, time>>

-----------------------------------------------------------------------------
(* The Platform (external, as v2/client.go and its tests use it)            *)

NewPolicy ==
    /\ pEpoch < MaxEpoch
    /\ pEpoch' = pEpoch + 1
    /\ UNCHANGED <<outbox, sender, store, receiver, req, bound, unread, time>>

\* The answer to a store of id reaches the sender if it still waits for it.
Answer(id, a) ==
    /\ resp' = IF waiting = id THEN a ELSE resp
    /\ UNCHANGED waiting

Admissible(q) ==
    /\ EpochOf[q.env.sess] = pEpoch
    /\ q.id \notin stale
    /\ Cardinality(unread) < Quota

\* The Platform binds the bytes of q to its ID and answers with a receipt, ...
Admit(q) ==
    /\ bound[q.id] = None /\ Admissible(q)
    /\ bound' = [bound EXCEPT ![q.id] = q.env]
    /\ unread' = unread \cup {q.id}
    /\ Answer(q.id, "receipt")

\* ... answers a repeated store, even of a message acknowledged since, ...
Repeat(q) ==
    /\ bound[q.id] = q.env
    /\ UNCHANGED bound
    /\ unread' \in {unread, unread \cup {q.id}}
    /\ Answer(q.id, "receipt")

\* ... refuses an ID bound to other bytes for ever, or anything else for now.
Refuse(q) ==
    /\ \/ bound[q.id] = None /\ ~Admissible(q) /\ Answer(q.id, "error")
       \/ bound[q.id] \notin {None, q.env} /\ Answer(q.id, "conflict")
    /\ UNCHANGED <<bound, unread>>

\* Another attempt to store the same bytes may still be on its way.
HandleStore(q) ==
    /\ q \in req
    /\ req' \in {req, req \ {q}}
    /\ Admit(q) \/ Repeat(q) \/ Refuse(q)
    /\ UNCHANGED <<outbox, sender, receiver, pEpoch, time>>

\* A store is handled while its sender waits for the answer.
HandleAwaited(id) == waiting = id /\ \E q \in req : q.id = id /\ HandleStore(q)

-----------------------------------------------------------------------------
(* The receiver                                                             *)

RJoin(s) ==
    /\ s \notin rUsed /\ EpochOf[s] = rEpoch
    /\ rSess' = s /\ recvSeq' = 0
    /\ rUsed' = rUsed \cup {s}
    /\ UNCHANGED <<outbox, sender, store, received, rEpoch, req, platform, time>>

RDrop ==
    /\ rSess # None
    /\ \E s \in Session \ rUsed : EpochOf[s] = rEpoch
    /\ rSess' = None /\ recvSeq' = 0
    /\ UNCHANGED <<outbox, sender, store, received, rUsed, rEpoch, req, platform, time>>

RRefresh ==
    /\ rEpoch < pEpoch
    /\ rEpoch' = pEpoch
    /\ rSess' = None /\ recvSeq' = 0
    /\ UNCHANGED <<outbox, sender, store, received, rUsed, req, platform, time>>

\* Mutant: a later sequence is taken for the next one.
ReceiveAhead(id) ==
    \/ id \in received /\ UNCHANGED <<received, recvSeq>>
    \/ /\ id \notin received
       /\ bound[id].seq > recvSeq
       /\ received' = received \cup {id}
       /\ recvSeq' = bound[id].seq

\* receiveV2 and receiveV2SequenceSkip: what was committed is accepted again,
\* anything else must be the next sequence of the session.
Receive(id) ==
    \/ id \in received /\ UNCHANGED <<received, recvSeq>>
    \/ /\ id \notin received
       /\ bound[id].seq = recvSeq + 1
       /\ received' = received \cup {id}
       /\ recvSeq' = recvSeq + 1

\* processOneMessage rejects before it commits an envelope of another policy or
\* session, or one whose lifetime is over.
Valid(id) ==
    /\ bound[id] \in Envelope
    /\ bound[id].sess = rSess /\ EpochOf[rSess] = rEpoch
    /\ id \notin stale

\* Mutant: a retrieved message is acknowledged whether or not it was taken.
ProcessAlwaysAck(id) ==
    /\ id \in unread
    /\ \/ Valid(id) /\ Receive(id)
       \/ UNCHANGED <<received, recvSeq>>
    /\ unread' \in {unread, unread \ {id}}
    /\ UNCHANGED <<outbox, sender, store, rSess, rUsed, rEpoch, req, bound, pEpoch, time>>

\* processMessages for one row: commit, then acknowledge; the acknowledgement
\* may be lost or the helper stop before it.
Process(id) ==
    /\ id \in unread
    /\ Valid(id) /\ Receive(id)
    /\ unread' \in {unread, unread \ {id}}
    /\ UNCHANGED <<outbox, sender, store, rSess, rUsed, rEpoch, req, bound, pEpoch, time>>

-----------------------------------------------------------------------------
(* Time                                                                     *)

PassDeadline(m) ==
    /\ m \in Deadlined \ overdue
    /\ overdue' = overdue \cup {m}
    /\ UNCHANGED <<outbox, sender, store, receiver, req, platform, stale>>

OutliveEnvelope(id) ==
    /\ env[id] # None /\ id \notin stale
    /\ Cardinality(stale) < MaxStale
    /\ stale' = stale \cup {id}
    /\ UNCHANGED <<outbox, sender, store, receiver, req, platform, overdue>>

-----------------------------------------------------------------------------
DeliverEntry(id) == Seal(id) \/ StoreAgain(id) \/ Quarantine(id)

SenderStep ==
    \/ SDrop \/ SRefresh \/ Record \/ GiveUp
    \/ \E s \in Session : SJoin(s)
    \/ \E m \in Message : Accept(m) \/ Expire(m) \/ ScheduleSkip(m)
    \/ \E id \in Id : DeliverEntry(id)

ReceiverStep ==
    \/ RDrop \/ RRefresh
    \/ \E s \in Session : RJoin(s)
    \/ \E id \in Id : Process(id)

PlatformStep == NewPolicy \/ \E q \in req : HandleStore(q)

TimeStep ==
    \/ \E m \in Message : PassDeadline(m)
    \/ \E id \in Id : OutliveEnvelope(id)

Next == SenderStep \/ ReceiverStep \/ PlatformStep \/ TimeStep

Spec == Init /\ [][Next]_vars

\* Handshakes complete; both tickers keep running, so an entry that is accepted
\* becomes due again and again, and a gap is looked at on every tick; requests
\* and answers may be lost or late again and again, but not for ever: a store that
\* is tried again and again is at last handled while the sender waits, and the
\* answer recorded.
Fairness ==
    /\ \A s \in Session : SF_vars(SJoin(s)) /\ WF_vars(RJoin(s))
    /\ \A id \in Id : SF_vars(DeliverEntry(id)) /\ WF_vars(Process(id))
    /\ \A m \in Message : SF_vars(ScheduleSkip(m))
    /\ \A id \in Id : SF_vars(HandleAwaited(id))
    /\ SF_vars(Record)

FairSpec == Spec /\ Fairness

-----------------------------------------------------------------------------
(* Properties *)

Sealed(id) == env[id] # None

\* No sequence of a session is ever bound to two contents, except that of a
\* message the Platform refused for ever and the control that replaces it; a
\* key is derived from a sequence, so a second owner would reuse it.
OneOwnerPerSequence ==
    \A i, j \in Id :
        (Sealed(i) /\ i # j /\ env[i] = env[j])
            => \E m \in Message : /\ {i, j} = {m, ControlOf[m]}
                                  /\ status[m] = "conflict"

\* The receiver's durable rows of its session are exactly the sequences up to
\* ReceiveSequence, each once: none lost, repeated or overtaken by lost
\* acknowledgements, repeated stores, restarts or repairs.
ReceivedInOrder ==
    rSess # None =>
        LET mine == {id \in received : env[id].sess = rSess}
        IN  /\ {env[id].seq : id \in mine} = 1..recvSeq
            /\ \A i, j \in mine : env[i].seq = env[j].seq => i = j

\* The Platform forgets a message of the sender only after the receiver has it.
AcknowledgedIsReceived ==
    \A id \in Id : (bound[id] \in Envelope /\ id \notin unread) => id \in received

\* platform_queued proves that the Platform holds these very bytes.
QueuedIsAdmitted ==
    \A id \in Id : status[id] = "platform_queued" => bound[id] = env[id]

\* A message is in somebody's hands: the Platform's once the sender is told so, and
\* the receiver's before the Platform's are empty.
Custody == QueuedIsAdmitted /\ AcknowledgedIsReceived

\* A message reported as a permanent conflict, whose sequence may be repaired,
\* is never received, then or later.
ConflictNeverReceived ==
    \A m \in Message : (status[m] = "conflict" \/ ControlOf[m] \in received)
                          => m \notin received

\* No entry waits with an envelope of an old policy: what deliverNext checks at
\* v2_daemon.go:594 is already guaranteed by saveV2Policy.
PendingIsCurrent ==
    \A id \in Id : (status[id] = "accepted" /\ Sealed(id))
                      => EpochOf[env[id].sess] = sEpoch

\* A message withdrawn while no copy of it was under way is never admitted.
Withdrawn(id) ==
    /\ status[id] \in {"quarantined", "expired"}
    /\ bound[id] = None
    /\ \A q \in req : q.id # id

WithdrawnStaysWithdrawn == [][\A id \in Id : Withdrawn(id) => Withdrawn(id)']_vars

\* The sender and the receiver implement the ordered channel.
Channel == INSTANCE OrderedChannel WITH
    slot <- [m \in Message |-> env[m]],
    cancelled <- {m \in Message : status[m] = "conflict"},
    delivered <- received \cap Message

ChannelSpec == Channel!Spec

\* What the Platform has admitted is received at last.
AdmittedIsReceived ==
    \A id \in Id : status[id] = "platform_queued" ~> id \in received
=============================================================================
