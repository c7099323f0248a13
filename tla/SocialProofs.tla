---------------------------- MODULE SocialProofs ----------------------------
(***************************************************************************)
(* Social, driven by the owners, the mailbox and the console of Remote,    *)
(* for any number of requests, messages and blocks and whatever comes up.  *)
(***************************************************************************)
EXTENDS RemoteProofs, FiniteSetTheorems, WellFoundedInduction

-----------------------------------------------------------------------------
(* The invariant.                                                           *)

\* A connection and a request rest on a confirmed contact.
ContactInv ==
    \A s \in Side :
      /\ connection[s] => contact[s]
      /\ \A k \in Attempt : /\ request[s][k] # "none" => contact[s]
                            /\ request[s][k] = "accepted" => connection[s]

\* What stands behind a message once its agent wrote it.
Sent(m) == outbox[m] # "none" \/ m \in wire \/ mail[m].state # "none"
Basis(m) ==
    /\ m[1] = "request" => request[m[2]][m[3]] # "none"
    /\ m[1] = "accept" => incoming[m[2]][m[3]] = "accepted"
    /\ m[1] = "reject" => incoming[m[2]][m[3]] = "rejected"

SentInv == \A m \in Message : Sent(m) => Basis(m)

IncomingInv ==
    \A s \in Side, k \in Attempt : incoming[s][k] # "none" => request[Other(s)][k] # "none"

\* A decision a requester knows is the one its peer made.
DecidedInv ==
    \A s \in Side, k \in Attempt :
      request[s][k] \in {"accepted", "rejected"} => incoming[Other(s)][k] = request[s][k]

AgreedInv ==
    \A s \in Side : connection[s] =>
      \/ \E k \in Attempt : Accepted(s, k)
      \/ \E k \in Attempt : incoming[s][k] = "accepted" /\ request[Other(s)][k] # "none"

\* Words pass on to review only over a connection.
VettedInv ==
    \A s \in Side : \A m \in Chats(Other(s)) :
      mail[m].state \in {"review", "shown", "refused"} =>
        /\ connection[s]
        /\ mail[m].to # 0 => request[s][mail[m].to] = "accepted"

\* Attempts are made one after the other.
AttemptInv ==
    \A s \in Side : \A j, k \in Attempt :
      j < k /\ request[s][k] # "none" => request[s][j] # "none"

\* What a block retired of the agent's own, and of its peer's, stays so.
OwnRetired(s, m) ==
    /\ outbox[m] # "queued"
    /\ m[1] = "request" => outbox[m] # "none"
    /\ m[1] \in {"accept", "reject"} => incoming[s][m[3]] \notin {"none", "pending"}
    /\ m[1] = "chat" => outbox[m] # "none" \/ asked[s][<<"chat", m[3]>>] = "closed"

PeerRetired(s, m) ==
    \/ m \in tomb
    \/ m[1] = "accept" /\ mail[m].state = "none" /\ request[s][m[3]] = "blocked"

RetiredInv ==
    \A s \in Side, m \in Message : <<s, m>> \in retired =>
      IF m[2] = s THEN OwnRetired(s, m) ELSE PeerRetired(s, m)

SInv == /\ SocialType /\ ContactInv /\ SentInv /\ IncomingInv /\ DecidedInv
        /\ AgreedInv /\ VettedInv /\ AttemptInv /\ RetiredInv

-----------------------------------------------------------------------------
(* Data.                                                                    *)

\* The parts of a message.
LEMMA MessageParts ==
    ASSUME NEW m \in Message
    PROVE  /\ m[2] \in Side /\ m = <<m[1], m[2], m[3]>> /\ m \in From(m[2])
           /\ m[1] \in {"request", "accept", "reject", "chat"}
           /\ m[1] \in {"request", "accept", "reject"} => m[3] \in Attempt
           /\ m[1] = "chat" => m[3] \in 1..MaxChats /\ m \in Chats(m[2])
BY DEF Message, From, Requests, Responses, Chats, Side

LEMMA MessageKinds ==
    ASSUME NEW s \in Side
    PROVE  /\ From(s) \subseteq Message /\ Other(s) \in Side /\ Other(s) # s
           /\ Other(Other(s)) = s
           /\ \A m \in From(s) : m[2] = s
           /\ \A k \in Attempt : {<<"request", s, k>>, <<"accept", s, k>>, <<"reject", s, k>>}
                                   \subseteq From(s)
           /\ \A n \in 1..MaxChats : <<"chat", s, n>> \in Chats(s)
           /\ \A m \in Chats(s) : m \in From(s) /\ m[1] = "chat" /\ m[2] = s
<1> USE SocialAssumption DEF Side, Other
<1>1. From(s) \subseteq Message
    BY DEF Message
<1>2. \A m \in From(s) : m[2] = s
    BY DEF From, Requests, Responses, Chats
<1>3. \A k \in Attempt : {<<"request", s, k>>, <<"accept", s, k>>, <<"reject", s, k>>}
                           \subseteq From(s)
    BY DEF From, Requests, Responses
<1>4. \A n \in 1..MaxChats : <<"chat", s, n>> \in Chats(s)
    BY DEF Chats
<1>5. \A m \in Chats(s) : m \in From(s) /\ m[1] = "chat" /\ m[2] = s
    BY DEF Chats, From
<1> QED
    BY <1>1, <1>2, <1>3, <1>4, <1>5

\* The greatest of some attempts, and how many attempts there are.
LEMMA LastAttempt ==
    ASSUME NEW X \in SUBSET Attempt, X # {}
    PROVE  \E k \in X : \A j \in X : j <= k
<1> DEFINE T == {n \in Nat : MaxAttempts - n \in X}
<1>0. MaxAttempts \in Nat
    BY SocialAssumption
<1>1. PICK x \in X : TRUE
    OBVIOUS
<1>2. MaxAttempts - x \in T
    BY <1>0, <1>1 DEF Attempt
<1>3. PICK n \in T : \A i \in T : ~(<<i, n>> \in OpToRel(<, Nat))
    <2>1. T \subseteq Nat /\ T # {}
        BY <1>2
    <2> HIDE DEF T
    <2> QED
        BY <2>1, NatLessThanWellFounded, WFMin
<1>4. \A i \in T : ~(i < n)
    BY <1>3 DEF OpToRel
<1>5. ASSUME NEW j \in X PROVE j <= MaxAttempts - n
    <2>1. j \in 1..MaxAttempts /\ MaxAttempts - (MaxAttempts - j) = j
        BY <1>0 DEF Attempt
    <2>2. MaxAttempts - j \in T
        BY <1>0, <2>1
    <2> QED
        BY <1>0, <1>4, <2>1, <2>2
<1> QED
    BY <1>5

LEMMA TriesType ==
    ASSUME NEW s \in Side
    PROVE  Tries(s) \in 0..MaxAttempts
<1> DEFINE X == {k \in Attempt : request[s][k] # "none"}
<1>1. MaxAttempts \in Nat /\ IsFiniteSet(Attempt) /\ Cardinality(Attempt) = MaxAttempts
    BY SocialAssumption, FS_Interval DEF Attempt
<1>2. IsFiniteSet(X) /\ Cardinality(X) <= MaxAttempts
    BY <1>1, FS_Subset
<1> QED
    BY <1>1, <1>2, FS_CardinalityType DEF Tries

\* Attempts without a gap: the next one is the first that was not made.
LEMMA NextAttempt ==
    ASSUME AttemptInv, NEW s \in Side
    PROVE  \A k \in Attempt : request[s][k] # "none" <=> k <= Tries(s)
<1> DEFINE X == {k \in Attempt : request[s][k] # "none"}
<1>1. MaxAttempts \in Nat /\ IsFiniteSet(Attempt) /\ Attempt = 1..MaxAttempts
    BY SocialAssumption, FS_Interval DEF Attempt
<1>2. IsFiniteSet(X) /\ Tries(s) = Cardinality(X) /\ Tries(s) \in Nat
    BY <1>1, FS_Subset, FS_CardinalityType DEF Tries
<1>3. ASSUME NEW k \in Attempt, request[s][k] # "none" PROVE k <= Tries(s)
    <2>1. 1..k \in SUBSET X
        BY <1>1, <1>3 DEF AttemptInv
    <2>2. Cardinality(1..k) = k /\ Cardinality(1..k) <= Cardinality(X)
        <3>1. k \in Int /\ 1 <= k
            BY <1>1
        <3>2. Cardinality(1..k) = k
            BY <3>1, FS_Interval
        <3> QED
            BY <1>2, <2>1, <3>2, FS_Subset
    <2> QED
        BY <1>2, <2>2
<1>4. ASSUME NEW k \in Attempt, request[s][k] = "none" PROVE Tries(s) < k
    <2>1. X \in SUBSET (1..(k - 1))
        <3>1. ASSUME NEW j \in X PROVE j <= k - 1
            <4>1. j # k /\ ~(k < j)
                BY <1>1, <1>4, <3>1 DEF AttemptInv
            <4> QED
                BY <1>1, <4>1
        <3> QED
            BY <1>1, <3>1
    <2>2. IsFiniteSet(1..(k - 1)) /\ Cardinality(1..(k - 1)) = k - 1
        <3>1. \A d \in Nat : IsFiniteSet(1..d) /\ Cardinality(1..d) = d
            BY FS_Interval
        <3>2. k - 1 \in Nat
            BY <1>1
        <3> QED
            BY <3>1, <3>2
    <2>3. Cardinality(X) <= k - 1
        BY <2>1, <2>2, FS_Subset
    <2> QED
        BY <1>1, <1>2, <2>3
<1> QED
    BY <1>1, <1>2, <1>3, <1>4

-----------------------------------------------------------------------------
(* The steps, as far as the two stores are concerned.                       *)

Asked == [Side -> [Question -> {"none", "open", "closed"}]]

\* Questions that an operation leaves alone, or closes.
Closing ==
    /\ asked' \in Asked
    /\ \A s \in Side, q \in Question :
          asked'[s][q] = asked[s][q] \/ (asked[s][q] = "open" /\ asked'[s][q] = "closed")

Beside == UNCHANGED <<blocked, wire, mail, tomb, blocks, plan>>

Asking(s, q) ==
    /\ asked[s][q] = "none" /\ asked' = [asked EXCEPT ![s][q] = "open"]
    /\ Beside /\ UNCHANGED <<contact, connection, request, incoming, outbox, retired>>

Adding(s) == AddContact(s) /\ Closing /\ Beside /\ UNCHANGED retired

Responding(s, d, k) ==
    d \in {"accept", "reject"} /\ Respond(s, d, k) /\ Closing /\ Beside /\ UNCHANGED retired

Saying(s, n) ==
    /\ outbox[<<"chat", s, n>>] = "none" /\ <<s, <<"chat", s, n>>>> \notin retired'
    /\ outbox' = [outbox EXCEPT ![<<"chat", s, n>>] = "queued"]
    /\ retired' \subseteq retired
    /\ Closing /\ Beside /\ UNCHANGED <<contact, connection, request, incoming>>

\* A refusal, and every step of the console and its consumer that leaves the
\* Store alone.
Passing ==
    Closing /\ Beside /\ UNCHANGED <<contact, connection, request, incoming, outbox, retired>>

Reviewing(s, m, approve) ==
    /\ Review(s, m, approve)
    /\ UNCHANGED <<contact, connection, blocked, request, incoming, outbox, wire,
                   tomb, asked, blocks, plan, retired>>

\* The owner's native answer.
LEMMA AnswerCases ==
    ASSUME SInv, NEW s \in Side, NEW q \in Question, NEW yes \in BOOLEAN, Answer(s, q, yes)
    PROVE  \/ Passing \/ Adding(s)
           \/ \E d \in {"accept", "reject"}, k \in Attempt : Responding(s, d, k)
           \/ \E n \in 1..MaxChats : Saying(s, n)
<1>1. Closing /\ Beside /\ UNCHANGED retired
    <2>1. asked \in Asked /\ asked[s][q] = "open" /\ asked' = [asked EXCEPT ![s][q] = "closed"]
        BY DEF Answer, SInv, SocialType, Asked
    <2>2. asked' \in Asked
        BY <2>1 DEF Asked
    <2>3. \A t \in Side, x \in Question :
             asked'[t][x] = asked[t][x] \/ (asked[t][x] = "open" /\ asked'[t][x] = "closed")
        BY <2>1 DEF Asked
    <2> QED
        BY <2>2, <2>3 DEF Answer, Closing, Beside
<1>2. CASE ~yes
    BY <1>1, <1>2 DEF Answer, Passing
<1>3. CASE yes /\ q[1] \in {"contact", "request"}
    BY <1>1, <1>3 DEF Answer, Approved, Adding
<1>4. CASE yes /\ q[1] \in {"accept", "reject"}
    <2>1. Respond(s, q[1], q[2])
        BY <1>4 DEF Answer, Approved
    <2>2. q[2] \in Attempt
        BY <2>1 DEF Respond
    <2> QED
        BY <1>1, <1>4, <2>1, <2>2 DEF Responding
<1>5. CASE yes /\ q[1] = "chat"
    <2> DEFINE n == q[2] m == <<"chat", s, n>>
    <2>1. n \in 1..MaxChats /\ q = <<"chat", n>> /\ m \in Message /\ m[1] = "chat"
          /\ m[2] = s /\ m[3] = n
        BY <1>5 DEF Question, Message, From, Chats, Side
    <2>2. outbox[m] = "none" /\ asked[s][q] = "open"
          /\ outbox' = [outbox EXCEPT ![m] = "queued"]
          /\ UNCHANGED <<contact, connection, request, incoming>>
        BY <1>5 DEF Answer, StillAsked, Approved
    <2>3. <<s, m>> \notin retired
        <3> HIDE DEF m, n
        <3> QED
            BY <2>1, <2>2 DEF SInv, RetiredInv, OwnRetired
    <2> QED
        BY <1>1, <2>1, <2>2, <2>3 DEF Saying
<1> QED
    BY <1>2, <1>3, <1>4, <1>5 DEF Question

\* The console's operation.
LEMMA OperateCases ==
    ASSUME SInv, NEW method \in [kind : Kinds, n : Nat], Operate(method)
    PROVE  \/ Passing \/ Adding(A) \/ BlockPeer(A) \/ UnblockPeer(A)
           \/ \E d \in {"accept", "reject"}, k \in Attempt : Responding(A, d, k)
           \/ \E n \in 1..MaxChats : Saying(A, n)
           \/ \E m \in Message, approve \in BOOLEAN : Reviewing(A, m, approve)
<1> DEFINE n == method.n
           m == <<"chat", A, n>>
<1>0. asked \in Asked /\ A \in Side /\ B \in Side
    BY DEF SInv, SocialType, Asked, Side
<1>1. UNCHANGED asked => Closing
    BY <1>0 DEF Closing
<1>2. CASE /\ AddContact(A) /\ Beside /\ UNCHANGED retired
           /\ asked' = [asked EXCEPT ![A][<<"contact", 0>>] = IF @ = "open" THEN "closed" ELSE @]
    <2>1. asked' \in Asked
        BY <1>0, <1>2 DEF Asked
    <2>2. \A t \in Side, x \in Question :
             asked'[t][x] = asked[t][x] \/ (asked[t][x] = "open" /\ asked'[t][x] = "closed")
        BY <1>0, <1>2 DEF Asked
    <2> QED
        BY <1>2, <2>1, <2>2 DEF Adding, Closing
<1>3. CASE /\ method.kind \in {"accept", "reject"} /\ Respond(A, method.kind, n) /\ Beside
           /\ UNCHANGED <<asked, retired>>
    <2>1. n \in Attempt
        BY <1>3 DEF Respond
    <2> QED
        BY <1>1, <1>3, <2>1 DEF Responding
<1>6. CASE UNCHANGED socialVars
    BY <1>1, <1>6 DEF Passing, Beside, socialVars
<1>4. CASE Send(A, n) /\ Beside /\ UNCHANGED asked
    <2>1. m \in Chats(A) /\ n \in 1..MaxChats /\ m \in Message
        BY <1>4, <1>0, MessageKinds DEF Send, Chats
    <2>2. CASE outbox[m] = "none"
        BY <1>1, <1>4, <2>1, <2>2 DEF Send, Saying
    <2>3. CASE outbox[m] # "none"
        <3>1. outbox' = [outbox EXCEPT ![m] = outbox[m]] /\ retired' = retired
            BY <1>4, <2>3 DEF Send
        <3>2. outbox' = outbox
            BY <2>1, <3>1 DEF SInv, SocialType
        <3> QED
            BY <1>1, <1>4, <3>1, <3>2 DEF Send, Passing
    <2> QED
        BY <2>2, <2>3
<1>5. CASE /\ Review(A, <<"chat", B, n>>, method.kind = "approve")
           /\ UNCHANGED <<contact, connection, blocked, request, incoming, outbox, wire,
                          tomb, asked, blocks, plan, retired>>
    <2>1. <<"chat", B, n>> \in Message /\ (method.kind = "approve") \in BOOLEAN
        BY <1>5, <1>0, MessageKinds DEF Review, Other
    <2> QED
        BY <1>5, <2>1 DEF Reviewing
<1> QED
    BY <1>2, <1>3, <1>4, <1>5, <1>6 DEF Operate, Beside

\* Every step of the whole.
LEMMA StepCases ==
    ASSUME SInv, [Next]_vars
    PROVE  \/ Passing
           \/ \E s \in Side :
                \/ \E q \in Question : Asking(s, q)
                \/ Adding(s) \/ BlockPeer(s) \/ UnblockPeer(s)
                \/ \E d \in {"accept", "reject"}, k \in Attempt : Responding(s, d, k)
                \/ \E n \in 1..MaxChats : Saying(s, n) \/ Uninvited(s, n)
                \/ \E m \in Message, b \in BOOLEAN :
                      Reviewing(s, m, b) \/ Receive(s, m, b) \/ ConsumeBlocked(s, m, b)
                      \/ Flush(s, m, b)
<1> DEFINE Goal ==
           \/ Passing
           \/ \E s \in Side :
                \/ \E q \in Question : Asking(s, q)
                \/ Adding(s) \/ BlockPeer(s) \/ UnblockPeer(s)
                \/ \E d \in {"accept", "reject"}, k \in Attempt : Responding(s, d, k)
                \/ \E n \in 1..MaxChats : Saying(s, n) \/ Uninvited(s, n)
                \/ \E m \in Message, b \in BOOLEAN :
                      Reviewing(s, m, b) \/ Receive(s, m, b) \/ ConsumeBlocked(s, m, b)
                      \/ Flush(s, m, b)
<1>0. asked \in Asked /\ wire \subseteq Message /\ A \in Side
    BY DEF SInv, SocialType, Asked, Side
<1>1. ASSUME UNCHANGED socialVars PROVE Passing
    BY <1>0, <1>1 DEF socialVars, Passing, Closing, Beside
<1>2. ASSUME NativeStep PROVE Goal
    <2>1. ASSUME NEW s \in Side, NEW q \in Question, Ask(s, q) PROVE Asking(s, q)
        BY <2>1 DEF Ask, Asking, Beside
    <2>2. ASSUME NEW s \in Side, NEW q \in Question, NEW yes \in BOOLEAN, Answer(s, q, yes)
          PROVE  Goal
        BY <2>2, AnswerCases
    <2> QED
        BY <1>2, <2>1, <2>2 DEF NativeStep, Reviewing
<1>3. ASSUME MailStep PROVE Goal
    BY <1>0, <1>3 DEF MailStep
<1>4. ASSUME NEW r \in Request, Mutate(r) PROVE Goal
    <2>1. Method[r] \in [kind : Kinds, n : Nat] /\ Operate(Method[r])
        BY <1>4, RemoteAssumption DEF Mutate
    <2> QED
        BY <1>0, <2>1, OperateCases
<1>5. ASSUME NEW r \in Request, Execute(r) PROVE Goal
    <2> DEFINE q == IF Method[r].n = 0 THEN <<"contact", 0>> ELSE <<"chat", Method[r].n>>
    <2>1. \/ /\ asked[A][q] = "none" /\ asked' = [asked EXCEPT ![A][q] = "open"]
             /\ Beside /\ UNCHANGED <<contact, connection, request, incoming, outbox, retired>>
          \/ UNCHANGED socialVars
        BY <1>5 DEF Execute, Beside, socialVars
    <2>2. CASE q \in Question
        BY <1>0, <1>1, <2>1, <2>2 DEF Asking
    <2>3. CASE q \notin Question
        <3>1. [asked EXCEPT ![A][q] = "open"] = asked
            BY <1>0, <2>3 DEF Asked
        <3> QED
            BY <1>1, <2>1, <3>1 DEF socialVars, Beside
    <2> QED
        BY <2>2, <2>3
<1>6. ASSUME ConsoleStep \/ TurnStep \/ Crash \/ Start \/ HandleKnown \/ Commit \/ Record
      PROVE  UNCHANGED socialVars
    BY <1>6 DEF ConsoleStep, Submit, Deadline, Revoke, Pair, Regrant, TurnStep, ClaimTurn,
        FinishTurn, Tool, ThreadEnds, Crash, Start, HandleKnown, Commit, Record
<1>7. ASSUME NEW r \in Request,
             Take(r) \/ Replay(r) \/ Refuse(r) \/ Claim(r) \/ Complete(r) \/ InvokeHere(r)
      PROVE  UNCHANGED socialVars
    BY <1>7 DEF Take, Replay, Refuse, Claim, Complete, InvokeHere
<1>8. ASSUME NEW yes \in BOOLEAN, Deliver(yes) \/ Acknowledge(yes) PROVE UNCHANGED socialVars
    BY <1>8 DEF Deliver, Acknowledge
<1>9. UNCHANGED vars => UNCHANGED socialVars
    BY DEF vars
<1> HIDE DEF Goal
<1>10. Passing => Goal
    BY DEF Goal
<1> QED
    BY <1>1, <1>2, <1>3, <1>4, <1>5, <1>6, <1>7, <1>8, <1>9, <1>10 DEF Next, ConsumerStep, Goal

-----------------------------------------------------------------------------
(* The invariant holds at first, and every step preserves it.               *)

LEMMA SInit == Init => SInv
<1> SUFFICES ASSUME Init PROVE SInv
    OBVIOUS
<1> USE SocialAssumption DEF Init, SocialInit
<1>1. SocialType
    BY DEF SocialType, RequestStatus
<1>2. ContactInv /\ IncomingInv /\ DecidedInv /\ AgreedInv /\ AttemptInv
    BY MessageKinds DEF ContactInv, IncomingInv, DecidedInv, AgreedInv, AttemptInv
<1>3. SentInv /\ RetiredInv
    BY DEF SentInv, Sent, RetiredInv
<1>4. VettedInv
    <2> SUFFICES ASSUME NEW s \in Side, NEW m \in Chats(Other(s))
                 PROVE  mail[m].state = "none"
        BY DEF VettedInv
    <2>1. m \in Message
        BY MessageKinds
    <2> QED
        BY <2>1
<1> QED
    BY <1>1, <1>2, <1>3, <1>4 DEF SInv

\* The parts of the invariant that the questions have no part in.
Standing ==
    /\ ContactInv /\ SentInv /\ IncomingInv /\ DecidedInv /\ AgreedInv /\ VettedInv
    /\ AttemptInv

LEMMA StandingFrame ==
    ASSUME SInv, UNCHANGED <<contact, connection, request, incoming, outbox, wire, mail>>
    PROVE  Standing'
BY DEF SInv, Standing, ContactInv, SentInv, Sent, Basis, IncomingInv, DecidedInv, AgreedInv,
    Accepted, VettedInv, AttemptInv

LEMMA AskingKeeps ==
    ASSUME SInv, NEW s \in Side, NEW q \in Question, Asking(s, q)
    PROVE  SInv'
<1> USE DEF Asking, Beside
<1>1. SocialType'
    BY DEF SInv, SocialType
<1>2. Standing'
    BY StandingFrame
<1>3. \A t \in Side, x \in Question : asked[t][x] = "closed" => asked'[t][x] = "closed"
    BY DEF SInv, SocialType
<1>4. RetiredInv'
    BY <1>3, MessageParts DEF SInv, RetiredInv, OwnRetired, PeerRetired, Question
<1> QED
    BY <1>1, <1>2, <1>4 DEF SInv, Standing

LEMMA PassingKeeps ==
    ASSUME SInv, Passing
    PROVE  SInv'
<1> USE DEF Passing, Beside
<1>1. SocialType'
    BY DEF SInv, SocialType, Closing, Asked
<1>2. Standing'
    BY StandingFrame
<1>3. \A t \in Side, x \in Question : asked[t][x] = "closed" => asked'[t][x] = "closed"
    BY DEF Closing
<1>4. RetiredInv'
    BY <1>3, MessageParts DEF SInv, RetiredInv, OwnRetired, PeerRetired, Question
<1> QED
    BY <1>1, <1>2, <1>4 DEF SInv, Standing

LEMMA SayingKeeps ==
    ASSUME SInv, NEW s \in Side, NEW n \in 1..MaxChats, Saying(s, n)
    PROVE  SInv'
<1> DEFINE m == <<"chat", s, n>>
<1> USE DEF Saying, Beside
<1>0. m \in Message /\ m[1] = "chat"
    BY MessageKinds
<1>1. SocialType'
    BY DEF SInv, SocialType, Closing, Asked
<1>2. SentInv'
    <2>1. \A x \in Message : x # m => outbox'[x] = outbox[x]
        BY DEF SInv, SocialType
    <2> QED
        BY <1>0, <2>1 DEF SInv, SentInv, Sent, Basis
<1>3. /\ ContactInv' /\ IncomingInv' /\ DecidedInv' /\ AgreedInv' /\ VettedInv' /\ AttemptInv'
    BY DEF SInv, ContactInv, IncomingInv, DecidedInv, AgreedInv, Accepted, VettedInv, AttemptInv
<1>4. RetiredInv'
    <2>1. \A t \in Side, x \in Question : asked[t][x] = "closed" => asked'[t][x] = "closed"
        BY DEF Closing
    <2> SUFFICES ASSUME NEW t \in Side, NEW x \in Message, <<t, x>> \in retired'
                 PROVE  IF x[2] = t THEN OwnRetired(t, x)' ELSE PeerRetired(t, x)'
        BY DEF RetiredInv
    <2>2. IF x[2] = t THEN OwnRetired(t, x) ELSE PeerRetired(t, x)
        BY DEF SInv, RetiredInv
    <2>3. CASE x[2] # t
        BY <2>2, <2>3 DEF PeerRetired
    <2>4. CASE x[2] = t
        <3>1. x # m
            BY <2>4
        <3>2. outbox'[x] = outbox[x]
            BY <3>1 DEF SInv, SocialType
        <3> QED
            BY <2>1, <2>2, <2>4, <3>2, MessageParts DEF OwnRetired, Question
    <2> QED
        BY <2>3, <2>4
<1> QED
    BY <1>1, <1>2, <1>3, <1>4 DEF SInv

LEMMA UnblockKeeps ==
    ASSUME SInv, NEW s \in Side, UnblockPeer(s)
    PROVE  SInv'
<1> USE DEF UnblockPeer
<1>1. SocialType'
    BY DEF SInv, SocialType
<1>2. Standing'
    BY StandingFrame
<1>3. RetiredInv'
    BY DEF SInv, RetiredInv, OwnRetired, PeerRetired
<1> QED
    BY <1>1, <1>2, <1>3 DEF SInv, Standing

LEMMA UninvitedKeeps ==
    ASSUME SInv, NEW s \in Side, NEW n \in 1..MaxChats, Uninvited(s, n)
    PROVE  SInv'
<1> USE DEF Uninvited
<1>0. <<"chat", s, n>> \in Message
    BY MessageKinds
<1>1. SocialType'
    BY <1>0 DEF SInv, SocialType
<1>2. SentInv'
    BY DEF SInv, SentInv, Sent, Basis
<1>3. /\ ContactInv' /\ IncomingInv' /\ DecidedInv' /\ AgreedInv' /\ VettedInv' /\ AttemptInv'
    BY DEF SInv, ContactInv, IncomingInv, DecidedInv, AgreedInv, Accepted, VettedInv, AttemptInv
<1>4. RetiredInv'
    BY DEF SInv, RetiredInv, OwnRetired, PeerRetired
<1> QED
    BY <1>1, <1>2, <1>3, <1>4 DEF SInv

LEMMA FlushKeeps ==
    ASSUME SInv, NEW s \in Side, NEW m \in Message, NEW b \in BOOLEAN, Flush(s, m, b)
    PROVE  SInv'
<1> USE DEF Flush
<1>1. SocialType'
    BY DEF SInv, SocialType
<1>2. /\ outbox[m] = "queued" /\ outbox'[m] # "none"
      /\ outbox' # outbox => outbox'[m] = "accepted"
      /\ \A x \in Message : x # m => outbox'[x] = outbox[x]
    BY DEF SInv, SocialType
<1>3. SentInv'
    BY <1>2 DEF SInv, SentInv, Sent, Basis
<1>4. /\ ContactInv' /\ IncomingInv' /\ DecidedInv' /\ AgreedInv' /\ VettedInv' /\ AttemptInv'
    BY DEF SInv, ContactInv, IncomingInv, DecidedInv, AgreedInv, Accepted, VettedInv, AttemptInv
<1>5. RetiredInv'
    BY <1>2 DEF SInv, RetiredInv, OwnRetired, PeerRetired
<1> QED
    BY <1>1, <1>3, <1>4, <1>5 DEF SInv

LEMMA ConsumeKeeps ==
    ASSUME SInv, NEW s \in Side, NEW m \in Message, NEW b \in BOOLEAN, ConsumeBlocked(s, m, b)
    PROVE  SInv'
<1> USE DEF ConsumeBlocked
<1>1. SocialType'
    BY DEF SInv, SocialType
<1>2. SentInv'
    BY DEF SInv, SentInv, Sent, Basis
<1>3. /\ ContactInv' /\ IncomingInv' /\ DecidedInv' /\ AgreedInv' /\ VettedInv' /\ AttemptInv'
    BY DEF SInv, ContactInv, IncomingInv, DecidedInv, AgreedInv, Accepted, VettedInv, AttemptInv
<1>4. m[2] # s
    BY MessageKinds
<1>5. RetiredInv'
    BY <1>4 DEF SInv, RetiredInv, OwnRetired, PeerRetired
<1> QED
    BY <1>1, <1>2, <1>3, <1>5 DEF SInv

LEMMA ReviewingKeeps ==
    ASSUME SInv, NEW s \in Side, NEW m \in Message, NEW b \in BOOLEAN, Reviewing(s, m, b)
    PROVE  SInv'
<1> USE DEF Reviewing
<1>1. /\ m \in Chats(Other(s)) /\ mail[m].state = "review"
      /\ mail' = [mail EXCEPT ![m].state = IF b THEN "shown" ELSE "refused"]
    BY DEF Review
<1>2. SocialType'
    BY <1>1 DEF SInv, SocialType
<1>3. /\ mail'[m].state \in {"shown", "refused"} /\ mail'[m].to = mail[m].to
      /\ \A x \in Message : x # m => mail'[x] = mail[x]
    BY <1>1 DEF SInv, SocialType
<1>4. SentInv'
    BY <1>1, <1>3 DEF SInv, SentInv, Sent, Basis
<1>5. ContactInv' /\ IncomingInv' /\ DecidedInv' /\ AgreedInv' /\ AttemptInv'
    BY DEF SInv, ContactInv, IncomingInv, DecidedInv, AgreedInv, Accepted, AttemptInv
<1>6. VettedInv'
    <2> SUFFICES ASSUME NEW t \in Side, NEW x \in Chats(Other(t)),
                        mail'[x].state \in {"review", "shown", "refused"}
                 PROVE  /\ connection[t]
                        /\ mail'[x].to # 0 => request[t][mail'[x].to] = "accepted"
        BY DEF VettedInv
    <2>1. x \in Message
        BY MessageKinds
    <2>2. mail[x].state \in {"review", "shown", "refused"} /\ mail'[x].to = mail[x].to
        BY <1>1, <1>3, <2>1
    <2> QED
        BY <2>2 DEF SInv, VettedInv
<1>7. RetiredInv'
    BY <1>1, <1>3 DEF SInv, RetiredInv, OwnRetired, PeerRetired
<1> QED
    BY <1>2, <1>4, <1>5, <1>6, <1>7 DEF SInv

\* A contact is confirmed, and asked for a connection unless it was already.
LEMMA AddingKeeps ==
    ASSUME SInv, NEW s \in Side, Adding(s)
    PROVE  SInv'
<1> DEFINE k == Tries(s) + 1
           m == <<"request", s, k>>
<1>0. /\ contact' = [contact EXCEPT ![s] = TRUE]
      /\ UNCHANGED <<connection, incoming, blocked, wire, mail, tomb, blocks, plan, retired>>
      /\ Closing
    BY DEF Adding, AddContact, Beside
<1>1. CASE UNCHANGED <<request, outbox>>
    <2>1. SocialType'
        BY <1>0, <1>1 DEF SInv, SocialType, Closing, Asked
    <2>2. SentInv' /\ IncomingInv' /\ DecidedInv' /\ AgreedInv' /\ VettedInv' /\ AttemptInv'
        BY <1>0, <1>1
        DEF SInv, SentInv, Sent, Basis, IncomingInv, DecidedInv, AgreedInv, Accepted, VettedInv,
            AttemptInv
    <2>3. ContactInv'
        BY <1>0, <1>1 DEF SInv, SocialType, ContactInv
    <2>4. \A t \in Side, x \in Question : asked[t][x] = "closed" => asked'[t][x] = "closed"
        BY <1>0 DEF Closing
    <2>5. RetiredInv'
        BY <1>0, <1>1, <2>4, MessageParts DEF SInv, RetiredInv, OwnRetired, PeerRetired, Question
    <2> QED
        BY <2>1, <2>2, <2>3, <2>5 DEF SInv
<1>2. CASE /\ Fresh(s)
           /\ request' = [request EXCEPT ![s][k] = "pending"]
           /\ outbox' = [outbox EXCEPT ![m] = "queued"]
    <2>0. Tries(s) \in Nat
        BY TriesType, SocialAssumption
    <2>1. SocialType'
        BY <1>0, <1>2 DEF SInv, SocialType, Closing, Asked, RequestStatus
    <2>2. k \in Attempt => request[s][k] = "none"
        BY <2>0, NextAttempt DEF SInv
    <2>3. ~connection[s] /\ \A j \in Attempt : request[s][j] \notin {"pending", "accepted"}
        BY <1>2 DEF Fresh
    <2>4. /\ \A t \in Side, j \in Attempt :
                request'[t][j] = IF t = s /\ j = k THEN "pending" ELSE request[t][j]
          /\ \A x \in Message : outbox'[x] = IF x = m THEN "queued" ELSE outbox[x]
        BY <1>2 DEF SInv, SocialType
    <2> HIDE DEF k, m
    <2>5. ContactInv'
        BY <1>0, <2>4 DEF SInv, SocialType, ContactInv
    <2>6. SentInv'
        <3> SUFFICES ASSUME NEW x \in Message, Sent(x)' PROVE Basis(x)'
            BY DEF SentInv
        <3>1. CASE x = m
            <4>1. k \in Attempt /\ x[1] = "request" /\ x[2] = s /\ x[3] = k
                BY <3>1, MessageParts DEF m
            <4> QED
                BY <2>4, <4>1 DEF Basis
        <3>2. CASE x # m
            BY <1>0, <2>4, <3>2, MessageParts DEF SInv, SentInv, Sent, Basis
        <3> QED
            BY <3>1, <3>2
    <2>7. IncomingInv' /\ DecidedInv'
        BY <1>0, <2>2, <2>4, MessageKinds DEF SInv, IncomingInv, DecidedInv
    <2>8. AgreedInv'
        BY <1>0, <2>2, <2>4, MessageKinds DEF SInv, AgreedInv, Accepted
    <2>9. VettedInv'
        <3> SUFFICES ASSUME NEW t \in Side, NEW x \in Chats(Other(t)),
                            mail[x].state \in {"review", "shown", "refused"}
                     PROVE  /\ connection[t]
                            /\ mail[x].to # 0 => request'[t][mail[x].to] = "accepted"
            BY <1>0 DEF VettedInv
        <3>1. connection[t] /\ (mail[x].to # 0 => request[t][mail[x].to] = "accepted")
            BY DEF SInv, VettedInv
        <3>2. mail[x].to \in 0..MaxAttempts
            BY MessageKinds DEF SInv, SocialType
        <3> QED
            BY <2>3, <2>4, <3>1, <3>2, SocialAssumption DEF Attempt
    <2>10. AttemptInv'
        <3> SUFFICES ASSUME NEW t \in Side, NEW i \in Attempt, NEW j \in Attempt, i < j,
                            request'[t][j] # "none"
                     PROVE  request'[t][i] # "none"
            BY DEF AttemptInv
        <3>1. CASE t = s /\ j = k
            <4>1. i <= Tries(s)
                BY <2>0, <3>1, SocialAssumption DEF k, Attempt
            <4> QED
                BY <2>4, <3>1, <4>1, NextAttempt DEF SInv
        <3>2. CASE ~(t = s /\ j = k)
            BY <2>4, <3>2 DEF SInv, AttemptInv
        <3> QED
            BY <3>1, <3>2
    <2>11. RetiredInv'
        <3> SUFFICES ASSUME NEW t \in Side, NEW x \in Message, <<t, x>> \in retired
                     PROVE  IF x[2] = t THEN OwnRetired(t, x)' ELSE PeerRetired(t, x)'
            BY <1>0 DEF RetiredInv
        <3>1. IF x[2] = t THEN OwnRetired(t, x) ELSE PeerRetired(t, x)
            BY DEF SInv, RetiredInv
        <3>2. CASE x[2] = t
            <4>1. x # m
                <5>1. ASSUME x = m PROVE x[1] = "request" /\ x[2] = s /\ x[3] = k /\ k \in Attempt
                    BY <5>1, MessageParts DEF m
                <5>2. ASSUME x = m PROVE outbox[x] = "none"
                    BY <2>2, <5>1, <5>2 DEF SInv, SentInv, Sent, Basis
                <5> QED
                    BY <3>1, <3>2, <5>1, <5>2 DEF OwnRetired
            <4>2. \A y \in Question : asked[t][y] = "closed" => asked'[t][y] = "closed"
                BY <1>0 DEF Closing
            <4> QED
                BY <1>0, <2>4, <3>1, <3>2, <4>1, <4>2, MessageParts DEF OwnRetired, Question
        <3>3. CASE x[2] # t
            BY <1>0, <2>2, <2>4, <3>1, <3>3, MessageParts DEF PeerRetired
        <3> QED
            BY <3>2, <3>3
    <2> QED
        BY <2>1, <2>5, <2>6, <2>7, <2>8, <2>9, <2>10, <2>11 DEF SInv
<1> QED
    BY <1>1, <1>2 DEF Adding, AddContact, RequestContact

\* A request of the peer is decided, and the answer written.
LEMMA RespondingKeeps ==
    ASSUME SInv, NEW s \in Side, NEW d \in {"accept", "reject"}, NEW k \in Attempt,
           Responding(s, d, k)
    PROVE  SInv'
<1> DEFINE m == <<d, s, k>>
           decision == IF d = "accept" THEN "accepted" ELSE "rejected"
<1>0. /\ incoming[s][k] = "pending"
      /\ contact' = [contact EXCEPT ![s] = @ \/ d = "accept"]
      /\ connection' = [connection EXCEPT ![s] = @ \/ d = "accept"]
      /\ incoming' = [incoming EXCEPT ![s][k] = decision]
      /\ outbox' = [outbox EXCEPT ![m] = "queued"]
      /\ UNCHANGED <<request, blocked, wire, mail, tomb, blocks, plan, retired>>
      /\ Closing
    BY DEF Responding, Respond, Beside
<1>1. SocialType'
    BY <1>0 DEF SInv, SocialType, Closing, Asked, RequestStatus
<1>2. m \in Message /\ m[1] = d /\ m[2] = s /\ m[3] = k
    BY MessageKinds
<1>3. /\ \A t \in Side : /\ contact[t] => contact'[t]
                         /\ connection'[t] <=> (connection[t] \/ (t = s /\ d = "accept"))
      /\ d = "accept" => contact'[s]
      /\ \A t \in Side, j \in Attempt :
            incoming'[t][j] = IF t = s /\ j = k THEN decision ELSE incoming[t][j]
      /\ \A x \in Message : outbox'[x] = IF x = m THEN "queued" ELSE outbox[x]
    BY <1>0 DEF SInv, SocialType
<1>4. outbox[m] = "none"
    BY <1>0, <1>2 DEF SInv, SentInv, Sent, Basis
<1> HIDE DEF m
<1>5. ContactInv'
    BY <1>0, <1>3 DEF SInv, ContactInv
<1>6. SentInv'
    BY <1>0, <1>2, <1>3, MessageParts DEF SInv, SentInv, Sent, Basis
<1>7. IncomingInv'
    BY <1>0, <1>3 DEF SInv, IncomingInv
<1>8. DecidedInv'
    BY <1>0, <1>3, MessageKinds DEF SInv, DecidedInv
<1>9. AgreedInv'
    <2>1. request[Other(s)][k] # "none"
        BY <1>0 DEF SInv, IncomingInv
    <2> QED
        BY <1>0, <1>3, <2>1, MessageKinds DEF SInv, AgreedInv, Accepted
<1>10. VettedInv'
    BY <1>0, <1>3 DEF SInv, VettedInv
<1>11. AttemptInv'
    BY <1>0 DEF SInv, AttemptInv
<1>12. RetiredInv'
    <2> SUFFICES ASSUME NEW t \in Side, NEW x \in Message, <<t, x>> \in retired
                 PROVE  IF x[2] = t THEN OwnRetired(t, x)' ELSE PeerRetired(t, x)'
        BY <1>0 DEF RetiredInv
    <2>1. IF x[2] = t THEN OwnRetired(t, x) ELSE PeerRetired(t, x)
        BY DEF SInv, RetiredInv
    <2>2. CASE x[2] = t
        <3>1. x # m
            BY <1>0, <1>2, <2>1, <2>2 DEF OwnRetired
        <3>2. \A y \in Question : asked[t][y] = "closed" => asked'[t][y] = "closed"
            BY <1>0 DEF Closing
        <3> QED
            BY <1>0, <1>3, <2>1, <2>2, <3>1, <3>2, MessageParts DEF OwnRetired, Question
    <2>3. CASE x[2] # t
        BY <1>0, <2>1, <2>3 DEF PeerRetired
    <2> QED
        BY <2>2, <2>3
<1> QED
    BY <1>1, <1>5, <1>6, <1>7, <1>8, <1>9, <1>10, <1>11, <1>12 DEF SInv

\* A block leaves nothing pending, and nothing that could complete it.
LEMMA BlockKeeps ==
    ASSUME SInv, NEW s \in Side, BlockPeer(s)
    PROVE  SInv'
<1> DEFINE p == Other(s)
<1>0. /\ blocked' = [blocked EXCEPT ![s] = TRUE]
      /\ tomb' = tomb \cup Received(s)
      /\ request' = [request EXCEPT ![s] = Undone(s, @)]
      /\ incoming' = [incoming EXCEPT ![s] = Undone(s, @)]
      /\ outbox' = [m \in Message |-> IF m \in Unsent(s) THEN "blocked" ELSE outbox[m]]
      /\ asked' = [asked EXCEPT ![s] =
                     [q \in Question |-> IF @[q] = "open" THEN "closed" ELSE @[q]]]
      /\ retired' = retired \cup ({s} \X (Received(s) \cup (Unsent(s) \ wire) \cup Unanswered(s)))
      /\ UNCHANGED <<contact, connection, wire, mail, plan>>
    BY DEF BlockPeer
<1>1. /\ Received(s) \subseteq Message /\ Unsent(s) \subseteq Message
      /\ \A m \in Unanswered(s) :
           \/ \E n \in 1..MaxChats : /\ m = <<"chat", s, n>> /\ asked[s][<<"chat", n>>] = "open"
                                     /\ m \in Message
           \/ \E k \in Attempt : /\ m = <<"accept", p, k>> /\ request[s][k] = "pending"
                                 /\ m \in Message
           \/ \E k \in Attempt : /\ m = <<"accept", s, k>> /\ incoming[s][k] = "pending"
                                 /\ m \in Message
    <2>1. Received(s) \subseteq Message /\ Unsent(s) \subseteq Message
        BY MessageKinds DEF Received, Unsent
    <2>2. \A q \in Question : q[1] = "chat" => q[2] \in 1..MaxChats /\ q = <<"chat", q[2]>>
        BY DEF Question
    <2>3. \A n \in 1..MaxChats : <<"chat", s, n>> \in Message
        BY MessageKinds
    <2>4. \A k \in Attempt : <<"accept", s, k>> \in Message /\ <<"accept", p, k>> \in Message
        BY MessageKinds
    <2> QED
        BY <2>1, <2>2, <2>3, <2>4 DEF Unanswered, Pending
<1>2. SocialType'
    <2>1. blocks' \in 0..MaxBlocks
        BY SocialAssumption DEF BlockPeer, SInv, SocialType
    <2>2. retired' \subseteq Side \X Message /\ tomb' \subseteq Message
        BY <1>0, <1>1 DEF SInv, SocialType
    <2>3. request' \in [Side -> [Attempt -> RequestStatus]]
        BY <1>0 DEF SInv, SocialType, Undone, RequestStatus
    <2>4. incoming' \in [Side -> [Attempt -> RequestStatus]]
        BY <1>0 DEF SInv, SocialType, Undone, RequestStatus
    <2>5. asked' \in [Side -> [Question -> {"none", "open", "closed"}]]
        BY <1>0 DEF SInv, SocialType
    <2>6. outbox' \in [Message -> {"none", "queued", "accepted", "blocked"}]
        BY <1>0 DEF SInv, SocialType
    <2>7. blocked' \in [Side -> BOOLEAN]
        BY <1>0 DEF SInv, SocialType
    <2> QED
        BY <1>0, <2>1, <2>2, <2>3, <2>4, <2>5, <2>6, <2>7 DEF SInv, SocialType
<1>3. /\ \A t \in Side, k \in Attempt :
            /\ request'[t][k] = IF t = s /\ request[t][k] = "pending" THEN "blocked"
                                ELSE request[t][k]
            /\ incoming'[t][k] = IF t = s /\ incoming[t][k] = "pending" THEN "blocked"
                                 ELSE incoming[t][k]
      /\ \A m \in Message : outbox'[m] = IF m[2] = s /\ outbox[m] = "queued" THEN "blocked"
                                         ELSE outbox[m]
      /\ \A t \in Side, q \in Question : 
            asked'[t][q] = IF t = s /\ asked[t][q] = "open" THEN "closed" ELSE asked[t][q]
    <2>1. \A t \in Side, k \in Attempt :
             request'[t][k] = IF t = s /\ request[t][k] = "pending" THEN "blocked"
                              ELSE request[t][k]
        BY <1>0 DEF SInv, SocialType, Undone
    <2>2. \A t \in Side, k \in Attempt :
             incoming'[t][k] = IF t = s /\ incoming[t][k] = "pending" THEN "blocked"
                               ELSE incoming[t][k]
        BY <1>0 DEF SInv, SocialType, Undone
    <2>3. \A m \in Message : m \in Unsent(s) <=> m[2] = s /\ outbox[m] = "queued"
        BY MessageParts, MessageKinds DEF Unsent
    <2>4. \A t \in Side, q \in Question : 
            asked'[t][q] = IF t = s /\ asked[t][q] = "open" THEN "closed" ELSE asked[t][q]
        BY <1>0 DEF SInv, SocialType
    <2> QED
        BY <1>0, <2>1, <2>2, <2>3, <2>4
<1>4. ContactInv'
    BY <1>0, <1>3 DEF SInv, ContactInv
<1>5. SentInv'
    BY <1>0, <1>3, MessageParts DEF SInv, SentInv, Sent, Basis
<1>6. IncomingInv' /\ DecidedInv'
    BY <1>3, MessageKinds DEF SInv, IncomingInv, DecidedInv
<1>7. AgreedInv'
    BY <1>0, <1>3, MessageKinds DEF SInv, AgreedInv, Accepted
<1>8. VettedInv'
    <2> SUFFICES ASSUME NEW t \in Side, NEW x \in Chats(Other(t)),
                        mail[x].state \in {"review", "shown", "refused"}
                 PROVE  /\ connection[t]
                        /\ mail[x].to # 0 => request'[t][mail[x].to] = "accepted"
        BY <1>0 DEF VettedInv
    <2>1. connection[t] /\ (mail[x].to # 0 => request[t][mail[x].to] = "accepted")
        BY DEF SInv, VettedInv
    <2>2. mail[x].to \in 0..MaxAttempts
        BY MessageKinds DEF SInv, SocialType
    <2> QED
        BY <1>3, <2>1, <2>2, SocialAssumption DEF Attempt
<1>9. AttemptInv'
    BY <1>3 DEF SInv, AttemptInv
<1>10. RetiredInv'
    <2> SUFFICES ASSUME NEW t \in Side, NEW x \in Message, <<t, x>> \in retired'
                 PROVE  IF x[2] = t THEN OwnRetired(t, x)' ELSE PeerRetired(t, x)'
        BY DEF RetiredInv
    <2>0. x[2] \in Side /\ (x[1] \in {"request", "accept", "reject"} => x[3] \in Attempt)
          /\ (x[1] = "chat" => <<"chat", x[3]>> \in Question)
        BY MessageParts DEF Question
    <2>1. CASE <<t, x>> \in retired
        <3>1. IF x[2] = t THEN OwnRetired(t, x) ELSE PeerRetired(t, x)
            BY <2>1 DEF SInv, RetiredInv
        <3> QED
            BY <1>0, <1>3, <2>0, <3>1 DEF OwnRetired, PeerRetired
    <2>2. CASE t = s /\ x \in Received(s)
        <3>1. x \in tomb' /\ x[2] # t
            BY <1>0, <2>2, MessageKinds DEF Received
        <3> QED
            BY <3>1 DEF PeerRetired
    <2>3. CASE t = s /\ x \in Unsent(s)
        <3>1. x[2] = t /\ outbox[x] = "queued" /\ outbox'[x] = "blocked"
            BY <1>3, <2>3, MessageKinds DEF Unsent
        <3>2. Basis(x)
            BY <3>1 DEF SInv, SentInv, Sent
        <3> QED
            BY <1>3, <2>0, <3>1, <3>2 DEF OwnRetired, Basis
    <2>4. CASE t = s /\ x \in Unanswered(s)
        <3>1. ASSUME NEW n \in 1..MaxChats, x = <<"chat", s, n>>, asked[s][<<"chat", n>>] = "open"
              PROVE  x[2] = t /\ OwnRetired(t, x)'
            <4>1. /\ x[1] = "chat" /\ x[2] = s /\ x[3] = n
                  /\ asked'[s][<<"chat", x[3]>>] = "closed"
                BY <1>3, <3>1, <2>0
            <4> QED
                BY <1>3, <2>4, <4>1 DEF OwnRetired, SInv, SocialType
        <3>2. ASSUME NEW k \in Attempt, x = <<"accept", p, k>>, request[s][k] = "pending"
              PROVE  x[2] # t /\ PeerRetired(t, x)'
            <4>1. x[1] = "accept" /\ x[2] = p /\ x[3] = k /\ p # s
                BY <3>2, MessageKinds
            <4>2. CASE mail[x].state # "none"
                <5>1. x \in Received(s)
                    BY <4>1, <4>2, MessageParts DEF Received
                <5> QED
                    BY <1>0, <2>4, <4>1, <5>1 DEF PeerRetired
            <4>3. CASE mail[x].state = "none"
                BY <1>0, <1>3, <2>4, <3>2, <4>1, <4>3 DEF PeerRetired
            <4> QED
                BY <4>2, <4>3
        <3>3. ASSUME NEW k \in Attempt, x = <<"accept", s, k>>, incoming[s][k] = "pending"
              PROVE  x[2] = t /\ OwnRetired(t, x)'
            <4>1. x[1] = "accept" /\ x[2] = s /\ x[3] = k
                BY <3>3
            <4>2. outbox[x] = "none"
                BY <3>3, <4>1 DEF SInv, SentInv, Sent, Basis
            <4> QED
                BY <1>3, <2>4, <3>3, <4>1, <4>2 DEF OwnRetired
        <3> QED
            BY <1>1, <2>4, <3>1, <3>2, <3>3
    <2> QED
        BY <1>0, <2>1, <2>2, <2>3, <2>4
<1> QED
    BY <1>2, <1>4, <1>5, <1>6, <1>7, <1>8, <1>9, <1>10 DEF SInv

\* What becomes of a message that comes.
LEMMA FiledWhere ==
    ASSUME SInv, NEW s \in Side
    PROVE  /\ Filed(s) \in [state : {"waiting", "stranger", "review"}, to : 0..MaxAttempts]
           /\ Filed(s).state = "review" => connection[s] /\ Filed(s).to = 0
<1>1. MaxAttempts \in Nat /\ Attempt = 1..MaxAttempts
    BY SocialAssumption DEF Attempt
<1>2. Status(s) = "connected" => connection[s]
    <2>1. ASSUME ~blocked[s], ~connection[s], Tries(s) > 0
          PROVE  request[s][Tries(s)] # "accepted"
        <3>1. Tries(s) \in Attempt
            BY <1>1, <2>1, TriesType
        <3> QED
            BY <2>1, <3>1 DEF SInv, ContactInv
    <2>2. Tries(s) = 0 \/ Tries(s) > 0
        BY <1>1, TriesType
    <2>3. blocked[s] \in BOOLEAN /\ connection[s] \in BOOLEAN
        BY DEF SInv, SocialType
    <2> QED
        BY <2>1, <2>2, <2>3 DEF Status
<1>3. CASE contact[s] /\ Status(s) = "connected"
    BY <1>1, <1>2, <1>3 DEF Filed
<1>4. CASE ~(contact[s] /\ Status(s) = "connected") /\ contact[s] /\ Status(s) = "pending"
           /\ Pending(s) # {}
    <2> DEFINE last == CHOOSE k \in Pending(s) : \A j \in Pending(s) : j <= k
    <2>1. last \in Pending(s)
        BY <1>4, LastAttempt DEF Pending
    <2>2. last \in 0..MaxAttempts
        BY <1>1, <2>1 DEF Pending
    <2>3. Filed(s) = [state |-> "waiting", to |-> last]
        BY <1>4 DEF Filed
    <2> HIDE DEF last
    <2> QED
        BY <2>2, <2>3
<1>5. CASE Filed(s) = [state |-> "stranger", to |-> 0]
    BY <1>1, <1>5
<1> QED
    BY <1>3, <1>4, <1>5 DEF Filed

LEMMA IngestBlockedKeeps ==
    ASSUME SInv, NEW s \in Side, NEW m \in Message, NEW b \in BOOLEAN, Receive(s, m, b),
           IngestBlocked(s, m)
    PROVE  SInv'
<1>0. /\ m \in wire /\ wire' \subseteq wire /\ m[2] # s
      /\ mail' = [mail EXCEPT ![m] = [state |-> "blocked", to |-> 0]]
      /\ tomb' = tomb \cup {m} /\ retired' = retired \cup {<<s, m>>}
      /\ UNCHANGED <<contact, connection, request, incoming, blocked, outbox, asked, blocks, plan>>
    BY MessageKinds DEF Receive, IngestBlocked, Filing
<1>1. SocialType'
    BY <1>0, SocialAssumption DEF SInv, SocialType
<1>2. \A x \in Message : mail'[x] = IF x = m THEN [state |-> "blocked", to |-> 0] ELSE mail[x]
    BY <1>0 DEF SInv, SocialType
<1>3. SentInv'
    BY <1>0, <1>2 DEF SInv, SentInv, Sent, Basis
<1>4. ContactInv' /\ IncomingInv' /\ DecidedInv' /\ AgreedInv' /\ AttemptInv'
    BY <1>0 DEF SInv, ContactInv, IncomingInv, DecidedInv, AgreedInv, Accepted, AttemptInv
<1>5. VettedInv'
    <2> SUFFICES ASSUME NEW t \in Side, NEW x \in Chats(Other(t)),
                        mail'[x].state \in {"review", "shown", "refused"}
                 PROVE  /\ connection[t]
                        /\ mail'[x].to # 0 => request[t][mail'[x].to] = "accepted"
        BY <1>0 DEF VettedInv
    <2>1. mail'[x] = mail[x]
        BY <1>2, MessageKinds
    <2> QED
        BY <2>1 DEF SInv, VettedInv
<1>6. RetiredInv'
    BY <1>0, <1>2 DEF SInv, RetiredInv, OwnRetired, PeerRetired
<1> QED
    BY <1>1, <1>3, <1>4, <1>5, <1>6 DEF SInv

LEMMA IngestChatKeeps ==
    ASSUME SInv, NEW s \in Side, NEW m \in Message, NEW b \in BOOLEAN, Receive(s, m, b),
           m[1] = "chat", IngestChat(s, m)
    PROVE  SInv'
<1>0. /\ m \in wire /\ wire' \subseteq wire /\ m[2] = Other(s)
      /\ mail' = [mail EXCEPT ![m] = Filed(s)]
      /\ UNCHANGED <<contact, connection, request, incoming, blocked, outbox, tomb, retired,
                     asked, blocks, plan>>
    BY MessageKinds DEF Receive, IngestChat, Filing
<1>1. SocialType'
    BY <1>0, FiledWhere DEF SInv, SocialType
<1>2. \A x \in Message : mail'[x] = IF x = m THEN Filed(s) ELSE mail[x]
    BY <1>0 DEF SInv, SocialType
<1>3. SentInv'
    BY <1>0, <1>2 DEF SInv, SentInv, Sent, Basis
<1>4. ContactInv' /\ IncomingInv' /\ DecidedInv' /\ AgreedInv' /\ AttemptInv'
    BY <1>0 DEF SInv, ContactInv, IncomingInv, DecidedInv, AgreedInv, Accepted, AttemptInv
<1>5. VettedInv'
    <2> SUFFICES ASSUME NEW t \in Side, NEW x \in Chats(Other(t)),
                        mail'[x].state \in {"review", "shown", "refused"}
                 PROVE  /\ connection[t]
                        /\ mail'[x].to # 0 => request[t][mail'[x].to] = "accepted"
        BY <1>0 DEF VettedInv
    <2>1. x \in Message /\ x[2] = Other(t)
        BY MessageKinds
    <2>2. CASE x # m
        BY <1>2, <2>1, <2>2 DEF SInv, VettedInv
    <2>3. CASE x = m
        <3>1. t = s
            BY <1>0, <2>1, <2>3, MessageKinds
        <3> QED
            BY <1>2, <2>1, <2>3, <3>1, FiledWhere
    <2> QED
        BY <2>2, <2>3
<1>6. RetiredInv'
    BY <1>0, <1>2 DEF SInv, RetiredInv, OwnRetired, PeerRetired
<1> QED
    BY <1>1, <1>3, <1>4, <1>5, <1>6 DEF SInv

LEMMA IngestRequestKeeps ==
    ASSUME SInv, NEW s \in Side, NEW m \in Message, NEW b \in BOOLEAN, Receive(s, m, b),
           m \notin tomb, m[1] = "request", IngestRequest(s, m)
    PROVE  SInv'
<1> DEFINE k == m[3]
<1>0. /\ m \in wire /\ wire' \subseteq wire /\ m[2] = Other(s) /\ k \in Attempt
      /\ mail' = [mail EXCEPT ![m] = [state |-> "shown", to |-> 0]]
      /\ incoming' = [incoming EXCEPT ![s][k] = IF @ = "none" THEN "pending" ELSE @]
      /\ UNCHANGED <<contact, connection, request, blocked, outbox, tomb, retired,
                     asked, blocks, plan>>
    BY MessageKinds, MessageParts DEF Receive, IngestRequest, Filing
<1>1. SocialType'
    BY <1>0, SocialAssumption DEF SInv, SocialType, RequestStatus
<1>2. /\ \A x \in Message : mail'[x] = IF x = m THEN [state |-> "shown", to |-> 0] ELSE mail[x]
      /\ \A t \in Side, j \in Attempt :
            incoming'[t][j] = IF t = s /\ j = k /\ incoming[t][j] = "none" THEN "pending"
                              ELSE incoming[t][j]
    BY <1>0 DEF SInv, SocialType
<1>3. SentInv'
    BY <1>0, <1>2, MessageParts DEF SInv, SentInv, Sent, Basis
<1>4. request[Other(s)][k] # "none"
    BY <1>0 DEF SInv, SentInv, Sent, Basis
<1>5. ContactInv' /\ IncomingInv' /\ DecidedInv' /\ AttemptInv'
    BY <1>0, <1>2, <1>4, MessageKinds DEF SInv, ContactInv, IncomingInv, DecidedInv, AttemptInv
<1>6. AgreedInv'
    BY <1>0, <1>2, MessageKinds DEF SInv, AgreedInv, Accepted
<1>7. VettedInv'
    <2> SUFFICES ASSUME NEW t \in Side, NEW x \in Chats(Other(t)),
                        mail'[x].state \in {"review", "shown", "refused"}
                 PROVE  /\ connection[t]
                        /\ mail'[x].to # 0 => request[t][mail'[x].to] = "accepted"
        BY <1>0 DEF VettedInv
    <2>1. x \in Message /\ x # m
        BY MessageKinds
    <2> QED
        BY <1>2, <2>1 DEF SInv, VettedInv
<1>8. RetiredInv'
    <2> SUFFICES ASSUME NEW t \in Side, NEW x \in Message, <<t, x>> \in retired
                 PROVE  IF x[2] = t THEN OwnRetired(t, x)' ELSE PeerRetired(t, x)'
        BY <1>0 DEF RetiredInv
    <2>1. IF x[2] = t THEN OwnRetired(t, x) ELSE PeerRetired(t, x)
        BY DEF SInv, RetiredInv
    <2> QED
        BY <1>0, <1>2, <2>1, MessageParts DEF OwnRetired, PeerRetired
<1> QED
    BY <1>1, <1>3, <1>5, <1>6, <1>7, <1>8 DEF SInv

LEMMA IngestResponseKeeps ==
    ASSUME SInv, NEW s \in Side, NEW m \in Message, NEW b \in BOOLEAN, Receive(s, m, b),
           m \notin tomb, m[1] \in {"accept", "reject"}, IngestResponse(s, m)
    PROVE  SInv'
<1> DEFINE k == m[3]
           accepts == m[1] = "accept"
           decision == IF accepts THEN "accepted" ELSE "rejected"
           p == Other(s)
<1>0. /\ m \in wire /\ wire' \subseteq wire /\ m[2] = p /\ k \in Attempt
      /\ request[s][k] \in {"pending", decision}
      /\ request' = [request EXCEPT ![s][k] = decision]
      /\ connection' = [connection EXCEPT ![s] = @ \/ accepts]
      /\ mail' = [(IF accepts THEN Promoted(s, k) ELSE mail)
                  EXCEPT ![m] = [state |-> "shown", to |-> 0]]
      /\ UNCHANGED <<contact, incoming, blocked, outbox, tomb, retired, asked, blocks, plan>>
    BY MessageKinds, MessageParts DEF Receive, IngestResponse, Answers
<1>1. incoming[p][k] = decision
    BY <1>0 DEF SInv, SentInv, Sent, Basis
<1>2. /\ \A t \in Side, j \in Attempt :
            request'[t][j] = IF t = s /\ j = k THEN decision ELSE request[t][j]
      /\ \A t \in Side : connection'[t] <=> (connection[t] \/ (t = s /\ accepts))
    BY <1>0 DEF SInv, SocialType
<1>3. \A x \in Message :
         /\ x = m => mail'[x] = [state |-> "shown", to |-> 0]
         /\ x # m => \/ mail'[x] = mail[x]
                     \/ /\ accepts /\ x \in Chats(p) /\ mail[x].state = "waiting"
                        /\ mail[x].to = k /\ mail'[x] = [mail[x] EXCEPT !.state = "review"]
    <2>1. CASE accepts
        BY <1>0, <2>1 DEF Promoted
    <2>2. CASE ~accepts
        BY <1>0, <2>2 DEF SInv, SocialType
    <2> QED
        BY <2>1, <2>2
<1>4. SocialType'
    <2>1. mail' \in [Message -> [state : {"none", "waiting", "stranger", "review", "refused",
                                          "shown", "blocked"}, to : 0..MaxAttempts]]
        <3>1. ASSUME NEW x \in Message
              PROVE  mail'[x] \in [state : {"none", "waiting", "stranger", "review", "refused",
                                             "shown", "blocked"}, to : 0..MaxAttempts]
            <4>1. mail[x] \in [state : {"none", "waiting", "stranger", "review", "refused",
                                         "shown", "blocked"}, to : 0..MaxAttempts]
                BY DEF SInv, SocialType
            <4>2. 0 \in 0..MaxAttempts
                BY SocialAssumption
            <4>3. CASE mail'[x] = [mail[x] EXCEPT !.state = "review"]
                BY <4>1, <4>3
            <4>4. CASE mail'[x] = mail[x] \/ mail'[x] = [state |-> "shown", to |-> 0]
                BY <4>1, <4>2, <4>4
            <4> QED
                BY <1>3, <4>3, <4>4
        <3>2. mail' = [x \in Message |-> mail'[x]]
            BY <1>0 DEF SInv, SocialType, Promoted
        <3> QED
            BY <3>1, <3>2
    <2>2. request' \in [Side -> [Attempt -> RequestStatus]]
        BY <1>0 DEF SInv, SocialType, RequestStatus
    <2>3. connection' \in [Side -> BOOLEAN]
        BY <1>0 DEF SInv, SocialType
    <2> QED
        BY <1>0, <2>1, <2>2, <2>3 DEF SInv, SocialType
<1>5. \A x \in Message : mail'[x].state # "none" => mail[x].state # "none" \/ x = m
    BY <1>3
<1>6. SentInv'
    BY <1>0, <1>2, <1>5, MessageParts DEF SInv, SentInv, Sent, Basis
<1>7. contact[s]
    BY <1>0 DEF SInv, ContactInv
<1>8. ContactInv' /\ IncomingInv' /\ AttemptInv'
    BY <1>0, <1>2, <1>7, MessageKinds DEF SInv, ContactInv, IncomingInv, AttemptInv
<1>9. DecidedInv'
    BY <1>0, <1>1, <1>2 DEF SInv, DecidedInv
<1>10. AgreedInv'
    BY <1>0, <1>1, <1>2, MessageKinds DEF SInv, AgreedInv, Accepted
<1>11. VettedInv'
    <2> SUFFICES ASSUME NEW t \in Side, NEW x \in Chats(Other(t)),
                        mail'[x].state \in {"review", "shown", "refused"}
                 PROVE  /\ connection'[t]
                        /\ mail'[x].to # 0 => request'[t][mail'[x].to] = "accepted"
        BY <1>0 DEF VettedInv
    <2>1. x \in Message /\ x # m /\ x[2] = Other(t)
        BY MessageKinds
    <2>2. CASE mail'[x] = mail[x]
        <3>1. connection[t] /\ (mail[x].to # 0 => request[t][mail[x].to] = "accepted")
            BY <2>2 DEF SInv, VettedInv
        <3>2. mail[x].to \in 0..MaxAttempts
            BY <2>1 DEF SInv, SocialType
        <3> QED
            BY <1>0, <1>2, <2>2, <3>1, <3>2, SocialAssumption DEF Attempt
    <2>3. CASE /\ accepts /\ x \in Chats(p) /\ mail[x].to = k
               /\ mail'[x] = [mail[x] EXCEPT !.state = "review"]
        <3>1. t = s
            BY <2>1, <2>3, MessageKinds
        <3>2. mail'[x].to = k
            BY <2>1, <2>3 DEF SInv, SocialType
        <3> QED
            BY <1>0, <1>2, <2>3, <3>1, <3>2
    <2> QED
        BY <1>3, <2>1, <2>2, <2>3
<1>12. RetiredInv'
    <2> SUFFICES ASSUME NEW t \in Side, NEW x \in Message, <<t, x>> \in retired
                 PROVE  IF x[2] = t THEN OwnRetired(t, x)' ELSE PeerRetired(t, x)'
        BY <1>0 DEF RetiredInv
    <2>1. IF x[2] = t THEN OwnRetired(t, x) ELSE PeerRetired(t, x)
        BY DEF SInv, RetiredInv
    <2>2. CASE x[2] = t
        BY <1>0, <2>1, <2>2 DEF OwnRetired
    <2>3. CASE x[2] # t /\ x \in tomb
        BY <1>0, <2>3 DEF PeerRetired
    <2>4. CASE x[2] # t /\ x \notin tomb
        <3>1. x[1] = "accept" /\ mail[x].state = "none" /\ request[t][x[3]] = "blocked"
            BY <2>1, <2>4 DEF PeerRetired
        <3>2. x[3] \in Attempt /\ x[2] = Other(t)
            BY <2>4, <3>1, MessageParts DEF Side, Other
        <3>3. ~(t = s /\ x[3] = k)
            BY <1>0, <3>1
        <3>4. x # m
            BY <1>0, <3>2, <3>3, MessageKinds
        <3> QED
            BY <1>0, <1>2, <1>5, <2>4, <3>1, <3>2, <3>3, <3>4 DEF PeerRetired
    <2> QED
        BY <2>2, <2>3, <2>4
<1> QED
    BY <1>4, <1>6, <1>8, <1>9, <1>10, <1>11, <1>12 DEF SInv

LEMMA ReceiveKeeps ==
    ASSUME SInv, NEW s \in Side, NEW m \in Message, NEW b \in BOOLEAN, Receive(s, m, b)
    PROVE  SInv'
<1>1. CASE UNCHANGED <<connection, request, incoming, mail, tomb, retired>>
    <2>1. SocialType'
        BY <1>1 DEF Receive, SInv, SocialType
    <2>2. SentInv'
        BY <1>1 DEF Receive, SInv, SentInv, Sent, Basis
    <2>3. /\ ContactInv' /\ IncomingInv' /\ DecidedInv' /\ AgreedInv' /\ VettedInv'
          /\ AttemptInv'
        BY <1>1 DEF Receive, SInv, ContactInv, IncomingInv, DecidedInv, AgreedInv, Accepted,
            VettedInv, AttemptInv
    <2>4. RetiredInv'
        BY <1>1 DEF Receive, SInv, RetiredInv, OwnRetired, PeerRetired
    <2> QED
        BY <2>1, <2>2, <2>3, <2>4 DEF SInv
<1>2. CASE IngestBlocked(s, m)
    BY <1>2, IngestBlockedKeeps
<1>3. CASE m \notin tomb /\ \/ m[1] = "chat" /\ IngestChat(s, m)
                            \/ m[1] = "request" /\ IngestRequest(s, m)
                            \/ m[1] \in {"accept", "reject"} /\ IngestResponse(s, m)
    BY <1>3, IngestChatKeeps, IngestRequestKeeps, IngestResponseKeeps
<1> QED
    BY <1>1, <1>2, <1>3 DEF Receive

\* SInv holds in every reachable state.
THEOREM SocialInvariance == Spec => []SInv
<1>1. SInv /\ [Next]_vars => SInv'
    <2> SUFFICES ASSUME SInv, [Next]_vars PROVE SInv'
        OBVIOUS
    <2> QED
        BY StepCases, PassingKeeps, AskingKeeps, AddingKeeps, BlockKeeps, UnblockKeeps,
           RespondingKeeps, SayingKeeps, UninvitedKeeps, ReviewingKeeps, ReceiveKeeps,
           ConsumeKeeps, FlushKeeps
<1> QED
    BY <1>1, SInit, PTL DEF Spec

\* However the requests of the two agents cross, and whatever the helpers repeat
\* or keep back, a connection stands for two decisions, of one owner to ask and of
\* the other to accept, and words sent before that are seen only by way of it.
THEOREM ConsentHolds == Spec => []MutualConsent
<1>1. SInv => MutualConsent
    BY DEF SInv, MutualConsent, ContactInv, DecidedInv, AgreedInv, VettedInv
<1> QED
    BY <1>1, SocialInvariance, PTL

\* Where mail is put on its way, and where a decision is recorded.
LEMMA WireGrows ==
    ASSUME SInv, [Next]_vars, NEW m \in wire', m \notin wire
    PROVE  \/ outbox[m] = "queued"
           \/ \E s \in Side, n \in 1..MaxChats :
                 /\ m = <<"chat", s, n>>
                 /\ outbox[m] = "none" /\ asked[s][<<"chat", n>>] = "none"
<1>1. ASSUME NEW s \in Side, NEW x \in Message, NEW b \in BOOLEAN, Flush(s, x, b)
      PROVE  outbox[m] = "queued"
    BY <1>1 DEF Flush
<1>2. ASSUME NEW s \in Side, NEW n \in 1..MaxChats, Uninvited(s, n)
      PROVE  /\ m = <<"chat", s, n>>
             /\ outbox[m] = "none" /\ asked[s][<<"chat", n>>] = "none"
    BY <1>2 DEF Uninvited
<1>3. ASSUME NEW s \in Side, NEW x \in Message, NEW b \in BOOLEAN,
             Reviewing(s, x, b) \/ Receive(s, x, b) \/ ConsumeBlocked(s, x, b)
      PROVE  FALSE
    BY <1>3 DEF Reviewing, Receive, ConsumeBlocked
<1>4. ASSUME NEW s \in Side, BlockPeer(s) \/ UnblockPeer(s) PROVE FALSE
    BY <1>4 DEF BlockPeer, UnblockPeer
<1>5. ~Beside
    BY DEF Beside
<1> QED
    BY <1>1, <1>2, <1>3, <1>4, <1>5, StepCases
    DEF Passing, Asking, Adding, Responding, Saying

LEMMA DecisionComes ==
    ASSUME SInv, [Next]_vars, NEW s \in Side, NEW k \in Attempt
    PROVE  /\ request'[s][k] = "accepted" =>
                \/ request[s][k] = "accepted"
                \/ /\ request[s][k] = "pending"
                   /\ <<"accept", Other(s), k>> \notin tomb
           /\ incoming'[s][k] = "pending" =>
                \/ incoming[s][k] = "pending"
                \/ <<"request", Other(s), k>> \notin tomb
<1>0. /\ request \in [Side -> [Attempt -> RequestStatus]]
      /\ incoming \in [Side -> [Attempt -> RequestStatus]]
    BY DEF SInv, SocialType
<1> DEFINE Goal ==
           /\ request'[s][k] = "accepted" =>
                \/ request[s][k] = "accepted"
                \/ /\ request[s][k] = "pending"
                   /\ <<"accept", Other(s), k>> \notin tomb
           /\ incoming'[s][k] = "pending" =>
                \/ incoming[s][k] = "pending"
                \/ <<"request", Other(s), k>> \notin tomb
<1>1. ASSUME UNCHANGED <<request, incoming>> PROVE Goal
    BY <1>1
<1>2. ASSUME NEW t \in Side, Adding(t) PROVE Goal
    <2> DEFINE j == Tries(t) + 1
    <2>1. /\ incoming' = incoming
          /\ request' = request \/ request' = [request EXCEPT ![t][j] = "pending"]
        BY <1>2 DEF Adding, AddContact, RequestContact
    <2> HIDE DEF j
    <2> QED
        BY <1>0, <2>1
<1>3. ASSUME NEW t \in Side, BlockPeer(t) PROVE Goal
    BY <1>0, <1>3 DEF BlockPeer, Undone
<1>4. ASSUME NEW t \in Side, NEW d \in {"accept", "reject"}, NEW j \in Attempt,
             Responding(t, d, j)
      PROVE  Goal
    BY <1>0, <1>4 DEF Responding, Respond
<1>5. ASSUME NEW t \in Side, NEW m \in Message, NEW b \in BOOLEAN, Receive(t, m, b)
      PROVE  Goal
    <2>0. m[2] = Other(t) /\ m = <<m[1], m[2], m[3]>>
        BY <1>5, MessageKinds, MessageParts DEF Receive
    <2>1. CASE IngestBlocked(t, m) \/ IngestChat(t, m)
        BY <1>1, <2>1 DEF IngestBlocked, IngestChat
    <2>2. CASE m \notin tomb /\ m[1] = "request" /\ IngestRequest(t, m)
        <3>1. incoming' = [incoming EXCEPT ![t][m[3]] = IF @ = "none" THEN "pending" ELSE @]
              /\ request' = request
            BY <2>2 DEF IngestRequest
        <3>2. CASE t = s /\ m[3] = k
            BY <2>0, <2>2, <3>1, <3>2
        <3>3. CASE ~(t = s /\ m[3] = k)
            BY <1>0, <3>1, <3>3
        <3> QED
            BY <3>2, <3>3
    <2>3. CASE m \notin tomb /\ m[1] \in {"accept", "reject"} /\ IngestResponse(t, m)
        <3>1. /\ request' = [request EXCEPT ![t][m[3]] = IF m[1] = "accept" THEN "accepted"
                                                         ELSE "rejected"]
              /\ incoming' = incoming
              /\ request[t][m[3]] \in {"pending", IF m[1] = "accept" THEN "accepted"
                                                  ELSE "rejected"}
            BY <2>3 DEF IngestResponse, Answers
        <3>2. CASE t = s /\ m[3] = k
            BY <1>0, <2>0, <2>3, <3>1, <3>2
        <3>3. CASE ~(t = s /\ m[3] = k)
            BY <1>0, <3>1, <3>3
        <3> QED
            BY <3>2, <3>3
    <2> QED
        BY <1>1, <1>5, <2>1, <2>2, <2>3 DEF Receive
<1>6. ASSUME NEW t \in Side, NEW m \in Message, NEW b \in BOOLEAN,
             Reviewing(t, m, b) \/ ConsumeBlocked(t, m, b) \/ Flush(t, m, b)
      PROVE  UNCHANGED <<request, incoming>>
    BY <1>6 DEF Reviewing, ConsumeBlocked, Flush
<1>7. ASSUME NEW t \in Side, NEW n \in 1..MaxChats, Saying(t, n) \/ Uninvited(t, n)
      PROVE  UNCHANGED <<request, incoming>>
    BY <1>7 DEF Saying, Uninvited
<1>8. ASSUME NEW t \in Side, NEW q \in Question, Asking(t, q)
      PROVE  UNCHANGED <<request, incoming>>
    BY <1>8 DEF Asking
<1>9. ASSUME NEW t \in Side, UnblockPeer(t) \/ Passing PROVE UNCHANGED <<request, incoming>>
    BY <1>9 DEF UnblockPeer, Passing
<1> HIDE DEF Goal
<1>10. Goal
    BY <1>1, <1>2, <1>3, <1>4, <1>5, <1>6, <1>7, <1>8, <1>9, StepCases DEF Side
<1> QED
    BY <1>10 DEF Goal

\* What a block found unfinished, or kept out, is over for both agents: it is not
\* seen, does not leave, and completes nothing, although nothing unmakes the
\* block's record when the peer is unblocked.
THEOREM BlocksHold == Spec => BlockIsFinal
<1> DEFINE Over(s, m) ==
      IF m[2] = s THEN m \in wire' => m \in wire
      ELSE /\ ~Visible(s, m)'
           /\ m[1] = "accept" /\ request'[s][m[3]] = "accepted" => request[s][m[3]] = "accepted"
           /\ m[1] = "request" /\ incoming'[s][m[3]] = "pending" => incoming[s][m[3]] = "pending"
<1>1. ASSUME SInv, SInv', [Next]_vars, NEW s \in Side, NEW m \in Message,
             <<s, m>> \in retired, <<s, m>> \in retired'
      PROVE  Over(s, m)
    <2>1. CASE m[2] = s
        <3>1. OwnRetired(s, m)
            BY <1>1, <2>1 DEF SInv, RetiredInv
        <3>2. ASSUME NEW t \in Side, NEW n \in 1..MaxChats, m = <<"chat", t, n>>,
                     outbox[m] = "none", asked[t][<<"chat", n>>] = "none"
              PROVE  FALSE
            <4>1. m[1] = "chat" /\ m[3] = n /\ t = s
                BY <2>1, <3>2
            <4> QED
                BY <3>1, <3>2, <4>1 DEF OwnRetired
        <3>3. ASSUME m \in wire', m \notin wire PROVE FALSE
            BY <1>1, <2>1, <3>1, <3>2, <3>3, WireGrows DEF OwnRetired
        <3> QED
            BY <2>1, <3>3
    <2>2. CASE m[2] # s
        <3>1. PeerRetired(s, m) /\ PeerRetired(s, m)'
            BY <1>1, <2>2 DEF SInv, RetiredInv
        <3>2. ~Visible(s, m)'
            BY <3>1 DEF PeerRetired, Visible
        <3>3. m[2] = Other(s)
            BY <2>2, MessageParts DEF Side, Other
        <3>4. ASSUME m[1] = "accept", request'[s][m[3]] = "accepted"
              PROVE  request[s][m[3]] = "accepted"
            <4>1. m[3] \in Attempt /\ m = <<"accept", Other(s), m[3]>>
                BY <3>3, <3>4, MessageParts
            <4> QED
                BY <1>1, <3>1, <3>4, <4>1, DecisionComes DEF PeerRetired
        <3>5. ASSUME m[1] = "request", incoming'[s][m[3]] = "pending"
              PROVE  incoming[s][m[3]] = "pending"
            <4>1. m[3] \in Attempt /\ m = <<"request", Other(s), m[3]>>
                BY <3>3, <3>5, MessageParts
            <4> QED
                BY <1>1, <3>1, <3>5, <4>1, DecisionComes DEF PeerRetired
        <3> QED
            BY <2>2, <3>2, <3>4, <3>5
    <2> QED
        BY <2>1, <2>2
<1>2. ASSUME SInv, SInv', [Next]_vars
      PROVE  \A w \in retired \cap retired' : Over(w[1], w[2])
    <2> SUFFICES ASSUME NEW w \in retired \cap retired' PROVE Over(w[1], w[2])
        OBVIOUS
    <2>1. w[1] \in Side /\ w[2] \in Message /\ w = <<w[1], w[2]>>
        BY <1>2 DEF SInv, SocialType
    <2> HIDE DEF Over
    <2> QED
        BY <1>1, <1>2, <2>1
<1>3. SInv /\ SInv' /\ [Next]_vars => [\A w \in retired \cap retired' : Over(w[1], w[2])]_vars
    BY <1>2
<1>4. (\A w \in retired \cap retired' : Over(w[1], w[2])) =
      (\A w \in retired \cap retired' :
         LET s == w[1] m == w[2] p == Other(s)
         IN IF m[2] = s THEN m \in wire' => m \in wire
            ELSE /\ ~Visible(s, m)'
                 /\ m[1] = "accept" /\ request'[s][m[3]] = "accepted" =>
                       request[s][m[3]] = "accepted"
                 /\ m[1] = "request" /\ incoming'[s][m[3]] = "pending" =>
                       incoming[s][m[3]] = "pending")
    OBVIOUS
<1> QED
    BY <1>3, SocialInvariance, PTL DEF Spec, BlockIsFinal

-----------------------------------------------------------------------------
(* The types of the whole.                                                  *)

Submitted == {r \in Request : turn[r] = "submitted"}

\* What RInv leaves out of RemoteType.
RestInv ==
    /\ pairing.count <= MaxPairings
    /\ late \subseteq Request /\ control \subseteq Request /\ receipt \subseteq Request
    /\ threads \subseteq Request /\ up \in BOOLEAN /\ worked \subseteq Request
    /\ IsFiniteSet(Submitted)

\* Only a submission adds to the submitted turns, and only one.
LEMMA SubmittedStep ==
    ASSUME RInv, [Next]_vars, IsFiniteSet(Submitted)
    PROVE  IsFiniteSet(Submitted')
<1>1. ASSUME \A r \in Request : turn'[r] = "submitted" => turn[r] = "submitted"
      PROVE  IsFiniteSet(Submitted')
    <2>1. Submitted' \in SUBSET Submitted
        BY <1>1 DEF Submitted
    <2> QED
        BY <2>1, FS_Subset
<1>2. ASSUME NEW r \in Request, InvokeHere(r) PROVE IsFiniteSet(Submitted')
    <2>1. turn' = [turn EXCEPT ![r] = "submitted"] \/ turn' = turn
        BY <1>2 DEF InvokeHere
    <2>2. Submitted' \in SUBSET (Submitted \cup {r})
        BY <2>1 DEF Submitted, RInv, Shape
    <2>3. IsFiniteSet(Submitted \cup {r})
        BY FS_AddElement
    <2> QED
        BY <2>2, <2>3, FS_Subset
<1>3. ASSUME TurnStep PROVE IsFiniteSet(Submitted')
    <2>1. CASE ClaimTurn
        <3>1. CASE Authorized
            <4>1. turn' = [turn EXCEPT ![Head(order)] = "running"]
                BY <2>1, <3>1 DEF ClaimTurn
            <4> QED
                BY <1>1, <4>1 DEF RInv, Shape
        <3>2. CASE ~Authorized
            <4>1. turn' = [r \in Request |-> IF turn[r] = "submitted" THEN "failed" ELSE turn[r]]
                BY <2>1, <3>2 DEF ClaimTurn
            <4> QED
                BY <1>1, <4>1
        <3> QED
            BY <3>1, <3>2
    <2>2. ASSUME NEW o \in {"completed", "failed", "interrupted"}, FinishTurn(o)
          PROVE  IsFiniteSet(Submitted')
        BY <1>1, <2>2 DEF FinishTurn, RInv, Shape
    <2>3. ASSUME NEW r \in Request, Tool(r) \/ ThreadEnds(r) PROVE IsFiniteSet(Submitted')
        BY <1>1, <2>3 DEF Tool, ThreadEnds
    <2> QED
        BY <1>3, <2>1, <2>2, <2>3 DEF TurnStep
<1>4. CASE Start
    BY <1>1, <1>4 DEF Start
<1>5. CASE UNCHANGED remoteVars \/ ConsoleStep \/ Crash \/ HandleKnown \/ Commit \/ Record
    BY <1>1, <1>5 DEF remoteVars, ConsoleStep, Submit, Deadline, Revoke, Pair, Regrant, Crash,
        HandleKnown, Commit, Record
<1>6. ASSUME NEW r \in Request,
             Take(r) \/ Mutate(r) \/ Replay(r) \/ Refuse(r) \/ Claim(r) \/ Execute(r)
             \/ Complete(r)
      PROVE  IsFiniteSet(Submitted')
    BY <1>1, <1>6 DEF Take, Mutate, Replay, Refuse, Claim, Execute, Complete
<1>7. ASSUME NEW yes \in BOOLEAN, Deliver(yes) \/ Acknowledge(yes)
      PROVE  IsFiniteSet(Submitted')
    BY <1>1, <1>7 DEF Deliver, Acknowledge
<1> QED
    BY <1>2, <1>3, <1>4, <1>5, <1>6, <1>7, NextCases

LEMMA RestStep ==
    ASSUME RInv, RestInv, [Next]_vars
    PROVE  RestInv'
<1> DEFINE Rest ==
      /\ pairing'.count <= MaxPairings
      /\ late' \subseteq Request /\ control' \subseteq Request /\ receipt' \subseteq Request
      /\ threads' \subseteq Request /\ up' \in BOOLEAN /\ worked' \subseteq Request
<1> USE DEF RestInv
<1>1. ASSUME UNCHANGED remoteVars \/ HandleKnown \/ Commit PROVE Rest
    BY <1>1 DEF remoteVars, HandleKnown, Commit
<1>2. ASSUME ConsoleStep PROVE Rest
    <2>1. ASSUME Revoke \/ Pair PROVE Rest
        <3>1. pairing \in [live : BOOLEAN, count : Nat] /\ MaxPairings \in Nat
            BY RemoteAssumption DEF RInv, Shape
        <3>2. pairing'.count <= MaxPairings
            BY <2>1, <3>1 DEF Revoke, Pair, Regrant
        <3> QED
            BY <2>1, <3>2 DEF Revoke, Pair, Regrant
    <2>2. ASSUME NEW r \in Request, Submit(r) \/ Deadline(r) PROVE Rest
        BY <2>2 DEF Submit, Deadline
    <2> QED
        BY <1>2, <2>1, <2>2 DEF ConsoleStep
<1>3. ASSUME TurnStep PROVE Rest
    <2>1. ASSUME ClaimTurn PROVE Rest
        <3>1. order # <<>> /\ order \in Seq(Request)
            BY <2>1 DEF ClaimTurn, Claimable, RInv, Shape
        <3>2. Head(order) \in Request
            BY <3>1
        <3> QED
            BY <2>1, <3>2 DEF ClaimTurn
    <2>2. ASSUME NEW o \in {"completed", "failed", "interrupted"}, FinishTurn(o) PROVE Rest
        BY <2>2 DEF FinishTurn
    <2>3. ASSUME NEW r \in Request, Tool(r) \/ ThreadEnds(r) PROVE Rest
        BY <2>3 DEF Tool, ThreadEnds
    <2> QED
        BY <1>3, <2>1, <2>2, <2>3 DEF TurnStep
<1>4. ASSUME Crash \/ Start PROVE Rest
    BY <1>4 DEF Crash, Start
<1>5. ASSUME Record PROVE Rest
    BY <1>5 DEF Record, At, RInv, HandInv
<1>6. ASSUME NEW r \in Request,
             Take(r) \/ Mutate(r) \/ Replay(r) \/ Refuse(r) \/ Claim(r)
             \/ Complete(r) \/ InvokeHere(r)
      PROVE  Rest
    BY <1>6 DEF Take, Mutate, Replay, Refuse, Claim, Complete, InvokeHere
<1>7. ASSUME NEW r \in Request, Execute(r) PROVE Rest
    BY <1>7, ExecuteFacts
<1>8. ASSUME NEW yes \in BOOLEAN, Deliver(yes) \/ Acknowledge(yes) PROVE Rest
    BY <1>8 DEF Deliver, Acknowledge
<1> HIDE DEF Rest
<1>9. Rest
    BY <1>1, <1>2, <1>3, <1>4, <1>5, <1>6, <1>7, <1>8, NextCases DEF Rest
<1> QED
    BY <1>9, SubmittedStep DEF Rest

\* The submitted turns that wait are all different.
LEMMA OrderLength ==
    ASSUME RInv, RestInv
    PROVE  Len(order) <= Cardinality(Submitted)
<1>1. order \in Seq(Request) /\ Len(order) \in Nat
    BY DEF RInv, Shape
<1>2. order \in Injection(1..Len(order), Submitted)
    <2>1. order \in [1..Len(order) -> Request]
        BY <1>1
    <2>2. \A i, j \in 1..Len(order) : turn[order[i]] = "submitted" /\ (order[i] = order[j] => i = j)
        BY DEF RInv, TurnInv
    <2>3. order \in [1..Len(order) -> Submitted]
        BY <2>1, <2>2 DEF Submitted
    <2> QED
        BY <2>2, <2>3 DEF Injection, IsInjective
<1>3. Cardinality(1..Len(order)) = Len(order)
    <2>1. \A d \in Nat : Cardinality(1..d) = d
        BY FS_Interval
    <2> QED
        BY <1>1, <2>1
<1>4. Cardinality(1..Len(order)) <= Cardinality(Submitted)
    BY <1>2, FS_Injection DEF RestInv
<1> QED
    BY <1>3, <1>4

\* Every variable of the two stores, the bridge and the adapter keeps its type;
\* no more turns wait than were submitted and not begun.
THEOREM TypeCorrect == Spec => []TypeOK
<1>1. Init => RestInv
    <2>1. ASSUME Init PROVE Submitted = {}
        BY <2>1 DEF Init, RemoteInit, Submitted
    <2>2. ASSUME Init PROVE IsFiniteSet(Submitted)
        BY <2>1, <2>2, FS_EmptySet
    <2>3. MaxPairings \in Nat /\ 1 <= MaxPairings
        BY RemoteAssumption
    <2> QED
        BY <2>2, <2>3 DEF Init, RemoteInit, RestInv
<1>2. RInv /\ RestInv /\ [Next]_vars => RestInv'
    BY RestStep
<1>3. RInv /\ RestInv => RemoteType
    <2> SUFFICES ASSUME RInv, RestInv PROVE RemoteType
        OBVIOUS
    <2>1. Len(order) <= Cardinality({r \in Request : turn[r] = "submitted"})
        BY OrderLength DEF Submitted
    <2>2. pairing \in [live : BOOLEAN, count : 0..MaxPairings]
        BY RemoteAssumption DEF RInv, Shape, RestInv
    <2> QED
        BY <2>1, <2>2 DEF RInv, Shape, RestInv, RemoteType
<1>4. SInv => SocialType
    BY DEF SInv
<1> QED
    BY <1>1, <1>2, <1>3, <1>4, Invariance, SocialInvariance, PTL DEF Spec, TypeOK
=============================================================================
