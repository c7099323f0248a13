-------------------------------- MODULE Social --------------------------------
(***************************************************************************)
(* Friendship, direct messages and blocks between two agents               *)
(* (agent_comm_runtime/social.py, with the inbox of store.py and the       *)
(* owner's review of peer_review.py).  Each agent keeps contacts, requests *)
(* in both directions, an outbox and the mail it received in a store of    *)
(* its own; only contact requests, responses and messages pass between     *)
(* them, through helpers that repeat and reorder.                          *)
(*                                                                         *)
(* Owners decide natively (Ask, then Answer) or through the operations a   *)
(* paired console calls, which Remote drives.  A store transaction is one  *)
(* action; no state of this layer outlives a process outside its store.    *)
(*                                                                         *)
(* Abstracted: one mapping per peer, presence, read marks, attention items *)
(* and audit; what a message says.  The preview and the decision of a      *)
(* review are one action.  Refused calls change nothing and are not taken. *)
(***************************************************************************)
EXTENDS Naturals, FiniteSets

CONSTANTS
    A, B,           \* the two agents
    MaxAttempts,    \* bound: contact requests from one to the other
    MaxChats,       \* bound: messages from one to the other
    MaxBlocks,      \* bound: blocks of the peer
    Plans           \* sets of what may come up in one behaviour: <<agent, act>>
                    \* pairs, and requests of the console

Side == {A, B}
Other(s) == IF s = A THEN B ELSE A
Attempt == 1..MaxAttempts

\* Messages <<kind, sender, number>>.  Both responses to a request have one ID.
Requests(s) == {"request"} \X {s} \X Attempt
Responses(s) == {"accept", "reject"} \X {s} \X Attempt
Chats(s) == {"chat"} \X {s} \X (1..MaxChats)
From(s) == Requests(s) \cup Responses(s) \cup Chats(s)
Message == From(A) \cup From(B)

\* What an owner can be asked to confirm natively: the first contact, a further
\* request, a response to the peer's request, a message.
Question == ({"contact"} \X {0}) \cup ({"request", "accept", "reject"} \X Attempt)
            \cup ({"chat"} \X (1..MaxChats))

ASSUME SocialAssumption ==
    A # B /\ MaxAttempts \in Nat /\ MaxChats \in Nat /\ MaxBlocks \in Nat

VARIABLES
    contact,      \* whether the owner confirmed the peer's identity
    connection,   \* the connection record
    blocked,      \* whether the owner blocks the peer now
    request,      \* each agent's own requests, by attempt
    incoming,     \* the peer's requests as this agent recorded them
    outbox,       \* messages to send, by status
    wire,         \* messages in the recipients' helpers, until acknowledged
    mail,         \* what became of each message at its recipient
    tomb,         \* messages withdrawn from their recipient for good
    asked,        \* native questions, by status
    blocks,       \* blocks so far
    plan,         \* what this behaviour is about
    retired       \* history: what each agent's blocks found unfinished, or kept out

socialVars == <<contact, connection, blocked, request, incoming, outbox, wire,
                mail, tomb, asked, blocks, plan, retired>>

RequestStatus == {"none", "pending", "accepted", "rejected", "blocked"}

SocialType ==
    /\ contact \in [Side -> BOOLEAN] /\ connection \in [Side -> BOOLEAN]
    /\ blocked \in [Side -> BOOLEAN]
    /\ request \in [Side -> [Attempt -> RequestStatus]]
    /\ incoming \in [Side -> [Attempt -> RequestStatus]]
    /\ outbox \in [Message -> {"none", "queued", "accepted", "blocked"}]
    /\ wire \subseteq Message
    /\ mail \in [Message -> [state : {"none", "waiting", "stranger", "review", "refused",
                                      "shown", "blocked"}, to : 0..MaxAttempts]]
    /\ tomb \subseteq Message
    /\ asked \in [Side -> [Question -> {"none", "open", "closed"}]]
    /\ blocks \in 0..MaxBlocks /\ plan \in Plans
    /\ retired \subseteq Side \X Message

SocialInit ==
    /\ contact = [s \in Side |-> FALSE] /\ connection = [s \in Side |-> FALSE]
    /\ blocked = [s \in Side |-> FALSE]
    /\ request = [s \in Side |-> [k \in Attempt |-> "none"]]
    /\ incoming = [s \in Side |-> [k \in Attempt |-> "none"]]
    /\ outbox = [m \in Message |-> "none"]
    /\ wire = {} /\ tomb = {} /\ retired = {}
    /\ mail = [m \in Message |-> [state |-> "none", to |-> 0]]
    /\ asked = [s \in Side |-> [q \in Question |-> "none"]]
    /\ blocks = 0 /\ plan \in Plans

-----------------------------------------------------------------------------
(* What an agent concludes from its store.                                  *)

Tries(s) == Cardinality({k \in Attempt : request[s][k] # "none"})

\* _contact_status.  A request a block retired still counts as pending.
Status(s) ==
    CASE blocked[s] -> "blocked"
      [] ~blocked[s] /\ connection[s] -> "connected"
      [] ~blocked[s] /\ ~connection[s] /\ Tries(s) = 0 -> "unverified"
      [] ~blocked[s] /\ ~connection[s] /\ Tries(s) > 0 ->
           LET last == request[s][Tries(s)]
           IN IF last = "rejected" THEN "rejected"
              ELSE IF last = "accepted" THEN "connected" ELSE "pending"

CanSend(s) == contact[s] /\ Status(s) = "connected"

\* _sender_connection_state, for a message that has no business of its own.
Pending(s) == {k \in Attempt : request[s][k] = "pending"}
Filed(s) ==
    IF contact[s] /\ Status(s) = "connected" THEN [state |-> "review", to |-> 0]
    ELSE IF contact[s] /\ Status(s) = "pending" /\ Pending(s) # {}
    THEN [state |-> "waiting", to |-> CHOOSE k \in Pending(s) : \A j \in Pending(s) : j <= k]
    ELSE [state |-> "stranger", to |-> 0]

\* Mutant: what was withdrawn once is shown again after the block.
VisibleAgain(s, m) ==
    /\ mail[m].state = "shown" /\ ~blocked[s]
    /\ m[1] = "chat" => CanSend(s)

\* _message_visible.
Visible(s, m) ==
    /\ mail[m].state = "shown" /\ ~blocked[s] /\ m \notin tomb
    /\ m[1] = "chat" => CanSend(s)

-----------------------------------------------------------------------------
(* Requests and responses.                                                  *)

Fresh(s) == ~connection[s] /\ \A k \in Attempt : request[s][k] \notin {"pending", "accepted"}

\* _request_contact: a request that stands, or a connection, is not repeated.
RequestContact(s) ==
    /\ ~blocked[s]
    /\ IF Fresh(s)
       THEN /\ Tries(s) < IF <<s, "again">> \in plan THEN MaxAttempts ELSE 1
            /\ request' = [request EXCEPT ![s][Tries(s) + 1] = "pending"]
            /\ outbox' = [outbox EXCEPT ![<<"request", s, Tries(s) + 1>>] = "queued"]
       ELSE UNCHANGED <<request, outbox>>

\* _apply_approval of a contact, and the console's contacts.add without its
\* approval: the mapping and the first request are one transaction.
AddContact(s) ==
    /\ contact' = [contact EXCEPT ![s] = TRUE]
    /\ RequestContact(s)
    /\ UNCHANGED <<connection, incoming>>

\* _respond_contact, for a request that is there and not decided yet.
Respond(s, decision, k) ==
    /\ k \in Attempt /\ incoming[s][k] = "pending" /\ ~blocked[s]
    /\ LET accepts == decision = "accept"
       IN /\ contact' = [contact EXCEPT ![s] = @ \/ accepts]
          /\ connection' = [connection EXCEPT ![s] = @ \/ accepts]
          /\ incoming' = [incoming EXCEPT ![s][k] = IF accepts THEN "accepted" ELSE "rejected"]
    /\ outbox' = [outbox EXCEPT ![<<decision, s, k>>] = "queued"]
    /\ request' = request

\* The same decision once more: it is confirmed, and changes nothing.
Responded(s, decision, k) ==
    /\ k \in Attempt /\ ~blocked[s]
    /\ incoming[s][k] = IF decision = "accept" THEN "accepted" ELSE "rejected"

\* _send_message: the same message is queued once.
Send(s, n) ==
    LET m == <<"chat", s, n>>
    IN /\ m \in Chats(s) /\ CanSend(s)
       /\ outbox' = [outbox EXCEPT ![m] = IF @ = "none" THEN "queued" ELSE @]
       /\ retired' = IF outbox[m] = "none" THEN retired \ {<<s, m>>} ELSE retired
       /\ UNCHANGED <<contact, connection, request, incoming>>

-----------------------------------------------------------------------------
(* The owner's native decisions.                                            *)

\* prepare_contact, prepare_contact_response, prepare_message.  A question that
\* was answered or superseded is not asked again.
Askable(s, q) ==
    CASE q[1] = "contact" -> ~contact[s]
      [] q[1] = "request" -> /\ contact[s] /\ Status(s) \in {"unverified", "rejected"}
                             /\ q[2] = Tries(s) + 1
      [] q[1] \in {"accept", "reject"} -> incoming[s][q[2]] = "pending" /\ ~blocked[s]
      [] q[1] = "chat" -> CanSend(s)

Act(q) == CASE q[1] \in {"contact", "request"} -> "contact"
            [] q[1] \in {"accept", "reject"} -> "respond"
            [] q[1] = "chat" -> "chat"

Ask(s, q) ==
    /\ <<s, Act(q)>> \in plan /\ asked[s][q] = "none" /\ Askable(s, q)
    /\ asked' = [asked EXCEPT ![s][q] = "open"]
    /\ UNCHANGED <<contact, connection, blocked, request, incoming, outbox, wire,
                   mail, tomb, blocks, plan, retired>>

\* _approval_current, for the questions of this layer.
StillAsked(s, q) ==
    CASE q[1] = "contact" -> TRUE
      [] q[1] = "request" -> contact[s] /\ Status(s) \notin {"pending", "connected"}
      [] q[1] \in {"accept", "reject"} -> incoming[s][q[2]] = "pending"
      [] q[1] = "chat" -> outbox[<<"chat", s, q[2]>>] = "none"

\* _apply_approval: a failure in it leaves the question open.
Approved(s, q) ==
    CASE q[1] \in {"contact", "request"} -> AddContact(s)
      [] q[1] \in {"accept", "reject"} -> Respond(s, q[1], q[2])
      [] q[1] = "chat" -> /\ outbox' = [outbox EXCEPT ![<<"chat", s, q[2]>>] = "queued"]
                          /\ UNCHANGED <<contact, connection, request, incoming>>

\* finish_confirmation, with a yes or a no that came in time.
Answer(s, q, yes) ==
    /\ asked[s][q] = "open" /\ StillAsked(s, q)
    /\ asked' = [asked EXCEPT ![s][q] = "closed"]
    /\ IF yes THEN Approved(s, q) ELSE UNCHANGED <<contact, connection, request, incoming, outbox>>
    /\ UNCHANGED <<blocked, wire, mail, tomb, blocks, plan, retired>>

-----------------------------------------------------------------------------
(* Blocks.                                                                  *)

Received(s) == {m \in From(Other(s)) : mail[m].state # "none"}
Unsent(s) == {m \in From(s) : outbox[m] = "queued"}
Undone(s, status) == [k \in Attempt |-> IF status[k] = "pending" THEN "blocked" ELSE status[k]]

\* _set_peer_block.  The history also names the messages whose question was open
\* and the responses that would complete a request still pending.
Unanswered(s) ==
    {<<q[1], s, q[2]>> : q \in {x \in Question : x[1] = "chat" /\ asked[s][x] = "open"}}
    \cup {<<"accept", Other(s), k>> : k \in Pending(s)}
    \cup {<<"accept", s, k>> : k \in {j \in Attempt : incoming[s][j] = "pending"}}

BlockPeer(s) ==
    /\ blocks < MaxBlocks \/ blocked[s]
    /\ blocks' = IF blocked[s] THEN blocks ELSE blocks + 1
    /\ blocked' = [blocked EXCEPT ![s] = TRUE]
    /\ tomb' = tomb \cup Received(s)
    /\ request' = [request EXCEPT ![s] = Undone(s, @)]
    /\ incoming' = [incoming EXCEPT ![s] = Undone(s, @)]
    /\ outbox' = [m \in Message |-> IF m \in Unsent(s) THEN "blocked" ELSE outbox[m]]
    /\ asked' = [asked EXCEPT ![s] =
                   [q \in Question |-> IF @[q] = "open" THEN "closed" ELSE @[q]]]
    /\ retired' = retired \cup ({s} \X (Received(s) \cup (Unsent(s) \ wire) \cup Unanswered(s)))
    /\ UNCHANGED <<contact, connection, wire, mail, plan>>

UnblockPeer(s) ==
    /\ blocked' = [blocked EXCEPT ![s] = FALSE]
    /\ UNCHANGED <<contact, connection, request, incoming, outbox, wire, mail,
                   tomb, asked, blocks, plan, retired>>

-----------------------------------------------------------------------------
(* The mailbox.                                                             *)

\* Mutant: an acceptance releases everything that waits.
PromotedAll(s, k) ==
    [m \in Message |-> IF m \in Chats(Other(s)) \ tomb /\ mail[m].state = "waiting"
                       THEN [mail[m] EXCEPT !.state = "review"] ELSE mail[m]]

\* _promote_pending_messages: what waits for this request moves on to review.
Promoted(s, k) ==
    [m \in Message |-> IF /\ m \in Chats(Other(s)) \ tomb
                          /\ mail[m].state = "waiting" /\ mail[m].to = k
                       THEN [mail[m] EXCEPT !.state = "review"] ELSE mail[m]]

\* _ingest_social: a response that does not match an open request, or repeats
\* its decision, is refused and stays in the helper.
Answers(s, m) ==
    request[s][m[3]] \in {"pending", IF m[1] = "accept" THEN "accepted" ELSE "rejected"}

Filing(m, file) == [mail EXCEPT ![m] = file]

IngestBlocked(s, m) ==
    /\ mail' = Filing(m, [state |-> "blocked", to |-> 0])
    /\ tomb' = tomb \cup {m} /\ retired' = retired \cup {<<s, m>>}
    /\ UNCHANGED <<connection, request, incoming>>

IngestChat(s, m) ==
    /\ mail' = Filing(m, Filed(s))
    /\ UNCHANGED <<connection, request, incoming, tomb, retired>>

IngestRequest(s, m) ==
    /\ mail' = Filing(m, [state |-> "shown", to |-> 0])
    /\ incoming' = [incoming EXCEPT ![s][m[3]] = IF @ = "none" THEN "pending" ELSE @]
    /\ UNCHANGED <<connection, request, tomb, retired>>

IngestResponse(s, m) ==
    LET accepts == m[1] = "accept"
    IN /\ Answers(s, m)
       /\ request' = [request EXCEPT ![s][m[3]] = IF accepts THEN "accepted" ELSE "rejected"]
       /\ connection' = [connection EXCEPT ![s] = @ \/ accepts]
       /\ mail' = [(IF accepts THEN Promoted(s, m[3]) ELSE mail)
                   EXCEPT ![m] = [state |-> "shown", to |-> 0]]
       /\ UNCHANGED <<incoming, tomb, retired>>

\* ingest_message, and the acknowledgement after it, which may be lost.  The
\* platform adapter lets a block consume the message first (consume_blocked_peer):
\* its tombstone is all that remains.
Receive(s, m, ackLost) ==
    /\ m \in wire \cap From(Other(s))
    /\ wire' = IF ackLost THEN wire ELSE wire \ {m}
    /\ IF mail[m].state # "none" THEN UNCHANGED <<connection, request, incoming, mail, tomb, retired>>
       ELSE IF blocked[s] \/ m \in tomb THEN IngestBlocked(s, m)
       ELSE \/ m[1] = "chat" /\ IngestChat(s, m)
            \/ m[1] = "request" /\ IngestRequest(s, m)
            \/ m[1] \in {"accept", "reject"} /\ IngestResponse(s, m)
    /\ UNCHANGED <<contact, blocked, outbox, asked, blocks, plan>>

ConsumeBlocked(s, m, ackLost) ==
    /\ m \in wire \cap From(Other(s)) /\ blocked[s]
    /\ wire' = IF ackLost THEN wire ELSE wire \ {m}
    /\ tomb' = tomb \cup {m} /\ retired' = retired \cup {<<s, m>>}
    /\ UNCHANGED <<contact, connection, blocked, request, incoming, outbox, mail,
                   asked, blocks, plan>>

\* review_preview and _review_peer.
Review(s, m, approve) ==
    /\ m \in Chats(Other(s)) /\ mail[m].state = "review"
    /\ ~blocked[s] /\ m \notin tomb
    /\ mail' = [mail EXCEPT ![m].state = IF approve THEN "shown" ELSE "refused"]

\* flush_social_outbox: one message, checked again in the transaction that hands
\* it to the helper; whether an answer comes or not, the helper may have it.
Flush(s, m, answered) ==
    /\ m \in From(s) /\ outbox[m] = "queued" /\ ~blocked[s]
    /\ m[1] = "chat" => CanSend(s)
    /\ wire' = wire \cup {m}
    /\ outbox' = IF answered THEN [outbox EXCEPT ![m] = "accepted"] ELSE outbox
    /\ UNCHANGED <<contact, connection, blocked, request, incoming, mail, tomb,
                   asked, blocks, plan, retired>>

\* The peer's client is its own: a message may come although nothing was agreed,
\* one that this code never wrote.
Uninvited(s, n) ==
    /\ <<s, "uninvited">> \in plan
    /\ outbox[<<"chat", s, n>>] = "none" /\ asked[s][<<"chat", n>>] = "none"
    /\ mail[<<"chat", s, n>>].state = "none" /\ <<"chat", s, n>> \notin wire
    /\ wire' = wire \cup {<<"chat", s, n>>}
    /\ UNCHANGED <<contact, connection, blocked, request, incoming, outbox, mail,
                   tomb, asked, blocks, plan, retired>>

-----------------------------------------------------------------------------
NativeStep ==
    \/ \E s \in Side, q \in Question : Ask(s, q) \/ \E yes \in BOOLEAN : Answer(s, q, yes)
    \/ \E s \in Side : /\ <<s, "block">> \in plan
                       /\ BlockPeer(s) \/ (blocked[s] /\ UnblockPeer(s))
    \/ \E s \in Side, m \in Message, approve \in BOOLEAN :
          /\ Review(s, m, approve)
          /\ UNCHANGED <<contact, connection, blocked, request, incoming, outbox, wire,
                         tomb, asked, blocks, plan, retired>>

MailStep ==
    \/ \E s \in Side, m \in wire, lost \in BOOLEAN : Receive(s, m, lost) \/ ConsumeBlocked(s, m, lost)
    \/ \E s \in Side, m \in Message, answered \in BOOLEAN : Flush(s, m, answered)
    \/ \E s \in Side, n \in 1..MaxChats : Uninvited(s, n)

-----------------------------------------------------------------------------
Accepted(s, k) == request[s][k] = "accepted" /\ incoming[Other(s)][k] = "accepted"

\* A connection means that both owners decided for it: a request of one of them
\* was accepted by the other, and both stores say so or will.  And a message
\* that came before the acceptance passes on to review only with that very
\* acceptance.
MutualConsent ==
    \A s \in Side :
      /\ connection[s] => /\ contact[s]
                          /\ \/ \E k \in Attempt : Accepted(s, k)
                             \/ \E k \in Attempt : /\ incoming[s][k] = "accepted"
                                                   /\ request[Other(s)][k] # "none"
      /\ \A k \in Attempt : request[s][k] \in {"accepted", "rejected"} =>
                               incoming[Other(s)][k] = request[s][k]
      /\ \A m \in Chats(Other(s)) :
            mail[m].state \in {"review", "shown", "refused"} =>
              /\ connection[s]
              /\ mail[m].to # 0 => request[s][mail[m].to] = "accepted"
=============================================================================
