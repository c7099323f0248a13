-------------------------------- MODULE Remote --------------------------------
(***************************************************************************)
(* The paired owner console (agent_comm_runtime/remote.py with             *)
(* Store.remote_mutation and Store.execute_owner_once, and the Hermes      *)
(* adapter's consumer in platform.py), driving agent A of Social.          *)
(*                                                                         *)
(* A request passes through three databases: the owner's operation and its *)
(* replay record commit in the Store, the reply in the bridge's own, the   *)
(* completion receipt in the adapter's; then the reply is stored in the    *)
(* helper and the request acknowledged.  The process may die between any   *)
(* two of them and the helper delivers the request again.  The pairing is  *)
(* revoked and renewed by another process, under the lock of the bridge's  *)
(* database.  Conversation turns run beside the consumer; the host's       *)
(* threads may outlive the turn they were started for.                     *)
(*                                                                         *)
(* Abstracted: one console, one owner, a pairing scope that covers every   *)
(* request; the contents of reads; the attention projections of turns.     *)
(***************************************************************************)
EXTENDS Social, Sequences

CONSTANTS
    Request,        \* the console's requests
    Method,         \* what each asks: a record [kind, n]
    MaxPairings,    \* bound: pairings of this console
    None

\* Kinds of request: an owner operation of the Store, an action of the agent's
\* runtime, a conversation turn, a read.
Mutations == {"add", "accept", "reject", "block", "unblock", "send", "approve", "refuse"}
Kinds == Mutations \cup {"act", "turn", "read"}

ASSUME RemoteAssumption ==
    /\ Method \in [Request -> [kind : Kinds, n : Nat]]
    /\ MaxPairings \in Nat \ {0} /\ None \notin Request

VARIABLES
    pairing,    \* the console's pairing: whether it stands, and its count
    late,       \* requests whose deadline has passed
    control,    \* requests in the helper, until acknowledged
    receipt,    \* requests the adapter completed
    cached,     \* the bridge's replies, by request
    kept,       \* the Store's replay records, by request
    hand,       \* the consumer: the request it works on and how far it is
    told,       \* replies the console may have received
    turn,       \* conversation turns, by request
    order,      \* submitted turns, oldest first
    runner,     \* the turn the adapter runs
    threads,    \* host threads still bound to a turn
    up,         \* whether the process runs
    effects,    \* history: how often each request took effect
    worked      \* history: turns whose tools have acted

remoteVars == <<pairing, late, control, receipt, cached, kept, hand, told, turn,
                order, runner, threads, up, effects, worked>>
vars == <<socialVars, remoteVars>>

Free == [pc |-> "free", r |-> None, reply |-> "none"]
Replies == {"done", "uncertain"}

RemoteType ==
    /\ pairing \in [live : BOOLEAN, count : 0..MaxPairings]
    /\ late \subseteq Request /\ control \subseteq Request /\ receipt \subseteq Request
    /\ cached \in [Request -> {"none"} \cup Replies]
    /\ kept \in [Request -> {"none", "started", "done"}]
    /\ hand \in [pc : {"free", "taken", "mutated", "claimed", "acted", "handled",
                       "answered", "completed"},
                 r : Request \cup {None}, reply : {"none", "error"} \cup Replies]
    /\ told \in [Request -> SUBSET ({"error"} \cup Replies)]
    /\ turn \in [Request -> {"none", "submitted", "running", "completed", "failed",
                             "interrupted"}]
    /\ order \in Seq(Request)
    /\ Len(order) <= Cardinality({r \in Request : turn[r] = "submitted"})
    /\ runner \in Request \cup {None} /\ threads \subseteq Request
    /\ up \in BOOLEAN
    /\ effects \in [Request -> Nat] /\ worked \subseteq Request

RemoteInit ==
    /\ pairing = [live |-> TRUE, count |-> 1]
    /\ late = {} /\ control = {} /\ receipt = {}
    /\ cached = [r \in Request |-> "none"] /\ kept = [r \in Request |-> "none"]
    /\ hand = Free /\ told = [r \in Request |-> {}]
    /\ turn = [r \in Request |-> "none"] /\ order = <<>>
    /\ runner = None /\ threads = {} /\ up = TRUE
    /\ effects = [r \in Request |-> 0] /\ worked = {}

\* A consumer inside _invoke holds the bridge's database.
Unlocked == hand.pc \notin {"mutated", "claimed", "acted"}
Authorized == pairing.live

-----------------------------------------------------------------------------
(* The console and the administrator.                                       *)

\* The console sends, or repeats, a request.
Submit(r) ==
    /\ r \in plan /\ r \notin late
    /\ control' = control \cup {r}
    /\ UNCHANGED <<pairing, late, receipt, cached, kept, hand, told, turn, order, runner,
                   threads, up, effects, worked>>
    /\ UNCHANGED socialVars

Deadline(r) ==
    /\ <<A, "deadline">> \in plan /\ r \in control /\ late' = late \cup {r}
    /\ UNCHANGED <<pairing, control, receipt, cached, kept, hand, told, turn, order, runner,
                   threads, up, effects, worked>>
    /\ UNCHANGED socialVars

Regrant(live) ==
    /\ UNCHANGED <<late, control, receipt, cached, kept, hand, told, turn, order, runner,
                   threads, up, effects, worked>>
    /\ UNCHANGED socialVars
    /\ pairing' = [live |-> live, count |-> IF live THEN pairing.count + 1 ELSE pairing.count]

Revoke == Unlocked /\ <<A, "revoke">> \in plan /\ pairing.live /\ Regrant(FALSE)
Pair == Unlocked /\ ~pairing.live /\ pairing.count < MaxPairings /\ Regrant(TRUE)

-----------------------------------------------------------------------------
(* The consumer.                                                            *)

At(pc) == up /\ hand.pc = pc

\* _consume: what is already complete is only acknowledged, what is late is
\* completed without execution.
Take(r) ==
    /\ At("free") /\ r \in control
    /\ hand' = [pc |-> IF r \in receipt \/ r \in late THEN "completed" ELSE "taken",
                r |-> r, reply |-> "none"]
    /\ receipt' = IF r \in late THEN receipt \cup {r} ELSE receipt
    /\ UNCHANGED <<pairing, late, control, cached, kept, told, turn, order, runner,
                   threads, up, effects, worked>>
    /\ UNCHANGED socialVars

Replying(reply) == hand' = [hand EXCEPT !.pc = "handled", !.reply = reply]

\* handle, where nothing is executed: too late for a reply, not authorised,
\* answered before, refused, or left uncertain by an earlier attempt.
Known(r) ==
    IF r \in late THEN "none"
    ELSE IF ~Authorized THEN "error"
    ELSE cached[r]

HandleKnown ==
    LET r == hand.r
    IN /\ At("taken")
       /\ r \in late \/ ~Authorized \/ cached[r] # "none"
       /\ Replying(Known(r))
       /\ UNCHANGED <<pairing, late, control, receipt, cached, kept, told, turn, order,
                      runner, threads, up, effects, worked>>
       /\ UNCHANGED socialVars

\* Mutant: what the bridge answered before is executed again.
InvokesAgain(r) == At("taken") /\ hand.r = r /\ r \notin late /\ Authorized

Invokes(r) == At("taken") /\ hand.r = r /\ r \notin late /\ Authorized /\ cached[r] = "none"

\* The owner operations of remote_mutation, as Social defines them.
Operate(method) ==
    LET n == method.n
        keep == UNCHANGED <<blocked, wire, mail, tomb, blocks, plan>>
    IN \/ /\ method.kind = "add" /\ AddContact(A) /\ keep /\ UNCHANGED retired
          /\ asked' = [asked EXCEPT ![A][<<"contact", 0>>] = IF @ = "open" THEN "closed" ELSE @]
       \/ /\ method.kind \in {"accept", "reject"} /\ Respond(A, method.kind, n)
          /\ keep /\ UNCHANGED <<asked, retired>>
       \/ /\ method.kind \in {"accept", "reject"} /\ Responded(A, method.kind, n)
          /\ UNCHANGED socialVars
       \/ method.kind = "send" /\ Send(A, n) /\ keep /\ UNCHANGED asked
       \/ method.kind = "block" /\ BlockPeer(A)
       \/ method.kind = "unblock" /\ UnblockPeer(A)
       \/ /\ method.kind \in {"approve", "refuse"}
          /\ Review(A, <<"chat", B, n>>, method.kind = "approve")
          /\ UNCHANGED <<contact, connection, blocked, request, incoming, outbox, wire,
                         tomb, asked, blocks, plan, retired>>

\* Mutant: the reply is kept in the bridge's database only.
MutateUnkept(r) ==
    /\ Invokes(r) /\ Method[r].kind \in Mutations
    /\ Operate(Method[r])
    /\ effects' = [effects EXCEPT ![r] = @ + 1]
    /\ hand' = [hand EXCEPT !.pc = "mutated", !.reply = "done"]
    /\ UNCHANGED <<pairing, late, control, receipt, cached, kept, told, turn, order, runner,
                   threads, up, worked>>

\* remote_mutation: the operation and its replay record are one transaction.
Mutate(r) ==
    /\ Invokes(r) /\ Method[r].kind \in Mutations /\ kept[r] = "none"
    /\ Operate(Method[r])
    /\ effects' = [effects EXCEPT ![r] = @ + 1]
    /\ kept' = [kept EXCEPT ![r] = "done"]
    /\ hand' = [hand EXCEPT !.pc = "mutated", !.reply = "done"]
    /\ UNCHANGED <<pairing, late, control, receipt, cached, told, turn, order, runner,
                   threads, up, worked>>

\* A replay finds the record and repeats its result.  An action of the runtime
\* that was claimed and never completed is not repeated.
Replay(r) ==
    /\ Invokes(r) /\ kept[r] # "none"
    /\ hand' = [hand EXCEPT !.pc = "mutated",
                            !.reply = IF kept[r] = "done" THEN "done" ELSE "uncertain"]
    /\ UNCHANGED <<pairing, late, control, receipt, cached, kept, told, turn, order, runner,
                   threads, up, effects, worked>>
    /\ UNCHANGED socialVars

\* The operation cannot be carried out as things stand.
Refusable(r) == ~ENABLED Operate(Method[r])

\* A refused operation, or one that fails, is answered with an error and leaves
\* nothing behind to replay.
Refuse(r) ==
    /\ Invokes(r) /\ Method[r].kind \in Mutations /\ kept[r] = "none"
    /\ Refusable(r)
    /\ Replying("error")
    /\ UNCHANGED <<pairing, late, control, receipt, cached, kept, told, turn, order, runner,
                   threads, up, effects, worked>>
    /\ UNCHANGED socialVars

\* execute_owner_once: the claim, the action in transactions of its own, the
\* completion.  An action that fails leaves its claim.
Claim(r) ==
    /\ Invokes(r) /\ Method[r].kind = "act" /\ kept[r] = "none"
    /\ kept' = [kept EXCEPT ![r] = "started"]
    /\ hand' = [hand EXCEPT !.pc = "claimed"]
    /\ UNCHANGED <<pairing, late, control, receipt, cached, told, turn, order, runner,
                   threads, up, effects, worked>>
    /\ UNCHANGED socialVars

\* The actions modelled here prepare a contact or a message: the owner is asked.
Execute(r) ==
    LET q == IF Method[r].n = 0 THEN <<"contact", 0>> ELSE <<"chat", Method[r].n>>
    IN /\ At("claimed") /\ hand.r = r
       /\ IF asked[A][q] = "none" /\ Askable(A, q)
          THEN /\ asked' = [asked EXCEPT ![A][q] = "open"]
               /\ effects' = [effects EXCEPT ![r] = @ + 1]
               /\ hand' = [hand EXCEPT !.pc = "acted"]
          ELSE Replying("error") /\ UNCHANGED <<asked, effects>>
       /\ UNCHANGED <<contact, connection, blocked, request, incoming, outbox, wire, mail,
                      tomb, blocks, plan, retired>>
       /\ UNCHANGED <<pairing, late, control, receipt, cached, kept, told, turn, order,
                      runner, threads, up, worked>>

Complete(r) ==
    /\ At("acted") /\ hand.r = r
    /\ kept' = [kept EXCEPT ![r] = "done"]
    /\ hand' = [hand EXCEPT !.pc = "mutated", !.reply = "done"]
    /\ UNCHANGED <<pairing, late, control, receipt, cached, told, turn, order, runner,
                   threads, up, effects, worked>>
    /\ UNCHANGED socialVars

\* The bridge's transaction commits; a turn or a read needs nothing else.
Commit ==
    /\ At("mutated")
    /\ cached' = [cached EXCEPT ![hand.r] = hand.reply]
    /\ hand' = [hand EXCEPT !.pc = "handled"]
    /\ UNCHANGED <<pairing, late, control, receipt, kept, told, turn, order, runner,
                   threads, up, effects, worked>>
    /\ UNCHANGED socialVars

InvokeHere(r) ==
    /\ Invokes(r) /\ Method[r].kind \in {"turn", "read"}
    /\ cached' = [cached EXCEPT ![r] = "done"]
    /\ Replying("done")
    /\ IF Method[r].kind = "turn"
       THEN turn' = [turn EXCEPT ![r] = "submitted"] /\ order' = Append(order, r)
       ELSE UNCHANGED <<turn, order>>
    /\ UNCHANGED <<pairing, late, control, receipt, kept, told, runner, threads, up,
                   effects, worked>>
    /\ UNCHANGED socialVars

\* Mutant: what was authorised when it was handled is delivered.
DisclosedThen ==
    IF hand.r \in late THEN {} ELSE {hand.reply} \ {"none"}

\* delivery: a result is disclosed only under a pairing that stands now.
Disclosed ==
    IF hand.r \in late THEN {}
    ELSE IF hand.reply \in Replies /\ ~Authorized THEN {"error"}
    ELSE {hand.reply} \ {"none"}

\* The reply goes to the helper, still under the bridge's lock; a failure of
\* the call leaves the request for a later delivery.
Deliver(answered) ==
    /\ At("handled")
    /\ told' = [told EXCEPT ![hand.r] = @ \cup Disclosed]
    /\ hand' = IF answered THEN [hand EXCEPT !.pc = "answered"] ELSE Free
    /\ UNCHANGED <<pairing, late, control, receipt, cached, kept, turn, order, runner,
                   threads, up, effects, worked>>
    /\ UNCHANGED socialVars

Record ==
    /\ At("answered")
    /\ receipt' = receipt \cup {hand.r}
    /\ hand' = [hand EXCEPT !.pc = "completed"]
    /\ UNCHANGED <<pairing, late, control, cached, kept, told, turn, order, runner,
                   threads, up, effects, worked>>
    /\ UNCHANGED socialVars

Acknowledge(lost) ==
    /\ At("completed")
    /\ control' = IF lost THEN control ELSE control \ {hand.r}
    /\ hand' = Free
    /\ UNCHANGED <<pairing, late, receipt, cached, kept, told, turn, order, runner,
                   threads, up, effects, worked>>
    /\ UNCHANGED socialVars

-----------------------------------------------------------------------------
(* Conversation turns.                                                      *)

Claimable ==
    /\ up /\ Unlocked /\ runner = None /\ order # <<>>
    /\ \A r \in Request : turn[r] # "running"

\* claim_turn: the oldest submitted turn runs; without a pairing all of them fail.
ClaimTurn ==
    /\ Claimable
    /\ IF Authorized
       THEN /\ turn' = [turn EXCEPT ![Head(order)] = "running"]
            /\ order' = Tail(order)
            /\ runner' = Head(order) /\ threads' = threads \cup {Head(order)}
            /\ effects' = [effects EXCEPT ![Head(order)] = @ + 1]
       ELSE /\ turn' = [r \in Request |-> IF turn[r] = "submitted" THEN "failed" ELSE turn[r]]
            /\ order' = <<>> /\ UNCHANGED <<runner, threads, effects>>
    /\ UNCHANGED <<pairing, late, control, receipt, cached, kept, hand, told, up, worked>>
    /\ UNCHANGED socialVars

\* PairedTurn.validate.
Bound(r) == r \in threads /\ Authorized /\ turn[r] = "running"

\* handle_paired_tool.
Tool(r) ==
    /\ up /\ Unlocked /\ Bound(r)
    /\ worked' = worked \cup {r}
    /\ UNCHANGED <<pairing, late, control, receipt, cached, kept, hand, told, turn, order,
                   runner, threads, up, effects>>
    /\ UNCHANGED socialVars

\* finish_turn: once, and only a running turn.
FinishTurn(outcome) ==
    /\ up /\ Unlocked /\ runner # None
    /\ turn' = [turn EXCEPT ![runner] = IF @ = "running" THEN outcome ELSE @]
    /\ runner' = None
    /\ UNCHANGED <<pairing, late, control, receipt, cached, kept, hand, told, order,
                   threads, up, effects, worked>>
    /\ UNCHANGED socialVars

\* A host thread ends, maybe long after its turn.
ThreadEnds(r) ==
    /\ r \in threads \ {runner} /\ threads' = threads \ {r}
    /\ UNCHANGED <<pairing, late, control, receipt, cached, kept, hand, told, turn, order,
                   runner, up, effects, worked>>
    /\ UNCHANGED socialVars

-----------------------------------------------------------------------------
\* The process dies: an open transaction of the bridge is rolled back, what the
\* Store committed stays.
Crash ==
    /\ <<A, "crash">> \in plan /\ up /\ up' = FALSE /\ hand' = Free /\ runner' = None /\ threads' = {}
    /\ UNCHANGED <<pairing, late, control, receipt, cached, kept, told, turn, order,
                   effects, worked>>
    /\ UNCHANGED socialVars

\* connect, with recover_interrupted_turns before the first claim.
Start ==
    /\ ~up /\ up' = TRUE
    /\ turn' = [r \in Request |-> IF turn[r] = "running" THEN "interrupted" ELSE turn[r]]
    /\ UNCHANGED <<pairing, late, control, receipt, cached, kept, hand, told, order, runner,
                   threads, effects, worked>>
    /\ UNCHANGED socialVars

ConsoleStep == Revoke \/ Pair \/ \E r \in Request : Submit(r) \/ Deadline(r)

ConsumerStep ==
    \/ HandleKnown \/ Commit \/ Record
    \/ \E r \in Request : \/ Take(r) \/ Mutate(r) \/ Replay(r) \/ Refuse(r)
                          \/ Claim(r) \/ Execute(r) \/ Complete(r) \/ InvokeHere(r)
    \/ \E yes \in BOOLEAN : Deliver(yes) \/ Acknowledge(yes)

TurnStep ==
    \/ ClaimTurn \/ \E outcome \in {"completed", "failed", "interrupted"} : FinishTurn(outcome)
    \/ \E r \in Request : Tool(r) \/ ThreadEnds(r)

Next ==
    \/ (NativeStep \/ MailStep) /\ UNCHANGED remoteVars
    \/ ConsoleStep \/ ConsumerStep \/ TurnStep \/ Crash \/ Start

Init == SocialInit /\ RemoteInit
Spec == Init /\ [][Next]_vars

-----------------------------------------------------------------------------
TypeOK == SocialType /\ RemoteType

\* Whatever is lost, repeated or interrupted, a request takes effect at most
\* once; the console is told of a success only if there was one, and never of a
\* success and an uncertain end of the same request; a request is out of the
\* way only when it was answered or had expired; at most one turn runs.
EachRequestOnce ==
    /\ \A r \in Request :
          /\ effects[r] <= 1
          /\ "done" \in told[r] /\ Method[r].kind \in Mutations \cup {"act"} => effects[r] = 1
          /\ ~(Replies \subseteq told[r])
          /\ r \in receipt => told[r] # {} \/ r \in late
    /\ \A r, q \in Request : turn[r] = "running" /\ turn[q] = "running" => r = q

\* After a revocation has returned, and until the next pairing, no request
\* takes effect, no result is disclosed, no turn starts and no tool of an
\* earlier turn acts; nor does a tool after its turn has ended.
NothingAfterRevoke ==
    [][/\ ~pairing.live =>
            /\ effects' = effects /\ worked' = worked
            /\ \A r \in Request : /\ told'[r] \cap Replies = told[r] \cap Replies
                                  /\ turn'[r] = "running" => turn[r] = "running"
       /\ \A r \in worked' \ worked : turn[r] = "running"]_vars

\* What a block found unfinished, or kept out, is over, unblocked or not: mail
\* withdrawn or refused is not seen again, queued words do not leave, and a
\* request that was pending is neither accepted nor revived.
BlockIsFinal ==
    [][\A w \in retired \cap retired' :
         LET s == w[1] m == w[2] p == Other(s)
         IN IF m[2] = s THEN m \in wire' => m \in wire
            ELSE /\ ~Visible(s, m)'
                 /\ m[1] = "accept" /\ request'[s][m[3]] = "accepted" =>
                       request[s][m[3]] = "accepted"
                 /\ m[1] = "request" /\ incoming'[s][m[3]] = "pending" =>
                       incoming[s][m[3]] = "pending"]_vars
=============================================================================
