# Verification of agent-comm

TLA+ models of agent-comm, the TLC runs that check them on small instances, and
TLAPS proofs that hold for every instance. File names and line numbers refer to
this repository. Run everything inside this directory:

    tlc -workers 2 -config V2HandshakeSafety.cfg MCV2Handshake.tla
    tlapm V2MessagingProofs.tla
    tlapm WorkerProofs.tla
    tlapm WorkerPolicyProofs.tla
    tlapm CollaborationProofs.tla

and so on for the other modules named `...Proofs`. `CollaborationProofs` takes some five
minutes on two cores, each other one less than half of that.

## 1. The system

agent-comm lets the agents of different owners exchange end-to-end encrypted
messages. A **helper** (Go) runs beside each agent; a **Platform** or a set of MQ
relays stores what one helper has for another; a **runtime** (Python) decides
what an agent may say, with the owner's approval; **connectors** attach host
applications to the runtime.

| Component | State it keeps | Operations | Interacts with |
| --- | --- | --- | --- |
| Helper v2 engine, handshake (`cmd/helper/v2_daemon.go`, `v2/handshake.go`) | `helper_v2_handshakes`, `helper_v2_sessions`, `helper_v2_seen_frames` | `processFrames`, `handleInit`, `handleAccept`, `handleFinished`, `resendPending`, `startHandshake` | the Platform's frame queue; sessions are used by the outbox |
| Helper v2 engine, messages (`v2_daemon.go`, `v2_mailbox.go`) | `helper_v2_outbox`, `helper_v2_sessions`, `helper_inbox`, `helper_v2_policy_state` | `handleV2Store`, `refreshPolicy`, `deliverNext`, `retryV2`, `processMessages` | the runtime (store, inbox, SSE), the Platform's message queue |
| Sequence repair (`v2_sequence_skip.go`) | `helper_v2_sequence_repairs`, `helper_v2_skipped_inbox` | `scheduleV2SequenceSkip`, `receiveV2SequenceSkip` | outbox and inbox above |
| Disclosure, managed keys (`v2_disclosure.go`, `managed_store.go`) | authorisation files | authorise, revoke | read by every step that discloses |
| Helper v1 (`mailbox.go`, `daemon.go`) | `helper_inbox`, `helper_outbox` | accept, prepare, deliver, receive, ack | agent, MQ relay, runtime |
| Agent (`agent/`) | contact and DNS caches | reliable send, durable handler, polling | MQ relay, libp2p |
| MQ relay (`mq/`) | `messages` table | Store, Retrieve, Ack, cleanup | agents |
| Double Ratchet (`dr/`) | ratchet state, saved by its caller | Send, Receive, DH ratchet | libp2p streams |
| Runtime store (`python/agent_comm_runtime/store.py`) | tasks, approvals, operations, budget | prepare, confirm, dispatch, revoke, ingest | helper, worker, remote |
| Collaboration protocol (`collaboration_v2.py`) | events, cursors, agreement | dispatch, ingest, drain, form, withdraw, sync | the peer's runtime through the helpers |
| Social layer (`social.py`) | contacts, connections, requests, blocks, outbox, quarantined mail | request, respond, send, block, flush, promote | store, helper |
| Worker (`worker.py`) | policy, runs, attention | prepare policy, pause, tick | collaboration, store, a host timer |
| Remote control (`remote.py`) and the Hermes adapter (`platform.py`, `collaboration/`) | pairings, replies, replay records, receipts, turns | pair, revoke, handle, deliver, claim and finish a turn, recover | store, helper, the paired console |

What makes it hard: a helper may stop between any two durable writes; every
request may be lost or take effect while its response is lost; both peers may
act at once; messages, frames and acknowledgements are repeated and reordered;
keys are derived from counters that must never be used twice; policies, keys,
approvals and blocks change while messages are under way; deadlines pass.

What makes each part correct:

* handshake: one pending handshake per peer; a ready session is of a transcript
  the peer completed too; counters never go back; a pair that can talk ends with
  a session; the ephemeral secret goes when the session is ready;
* messages: one content per sequence; in-order, once-only reception; nothing is
  acknowledged that is not durable; a permanent refusal is final; what was
  withdrawn is not sent; what was admitted is received;
* v1 and the relay: the committed envelope wins; a success is not demoted;
  a repeated message is suppressed; nothing commits after the drain;
* ratchet: no message key used twice; a failed message leaves the state usable;
* approvals and dispatch: at most one decision per approval; nothing leaves that
  was not approved; the budgets are respected over retries and crashes; nothing is
  sent after a revocation, a block or a deadline;
* collaboration: both sides hold the same agreement, backed by an acceptance of
  each; events are reduced in order and the repair of a gap is not dropped; terms
  are reviewed before they are used; a cancellation is final;
* social: a connection is mutual; a block is final for what it found;
* worker: one step per run, no step twice, none past one that a run left uncertain;
* remote: a request takes effect at most once; nothing is disclosed after a
  revocation.

`PROJECT.json` lists every component with its status and every hazard with its
line and the properties that cover it, or why none does.

## 2. The modules

| Module | What it is |
| --- | --- |
| `V2Handshake` | two helpers that run the signed handshake through the Platform |
| `MCV2Handshake` | its TLC instances: which requests and writes may fail |
| `V2HandshakeProofs` | the theorems about `V2Handshake` |
| `OrderedChannel` | what the helpers promise of the messages of one sender to one receiver |
| `V2Messaging` | outbox, sessions, policy, Platform, inbox and repair; implements `OrderedChannel` |
| `MCV2Messaging` | its TLC instances |
| `V2MessagingProofs` | the theorems about `V2Messaging` |
| `Collaboration` | two runtimes that negotiate one collaboration |
| `MCCollaboration` | its TLC instances: who asks for what, and what may fail |
| `CollaborationProofs` | the theorems about `Collaboration` |
| `Approvals` | questions to the owner, under leases, answered in two places |
| `Delegation` | a delegated task, its operations and their dispatch; uses `Approvals` |
| `Worker` | the background worker, composed with `Delegation` and `Approvals` |
| `MCWorker` | its TLC instance |
| `WorkerProofs` | the theorems about `Worker`, `Delegation` and `Approvals` |
| `WorkerPolicyProofs` | further ones: the limits of the worker's policy |
| `Social` | friendship, messages and blocks between two agents |
| `Remote` | the paired console, composed with `Social` as agent `A` |
| `MCRemote` | its TLC instance |
| `RemoteProofs` | the theorems about `Remote` composed with `Social` |
| `SocialProofs` | further ones: the two agents of `Social`, and the types of the whole |
| `V1Delivery` | helpers over one v1 outbox, the relays, and the recipient's durable listener with its shutdown |
| `MCV1Delivery` | its TLC instance |
| `V1DeliveryProofs` | the theorems about `V1Delivery` |

### V2Handshake

State: per helper the three tables (`record`, `session`, `seen`), the number of
accepted messages without an envelope (`outbox`), and where its tick is (`phase`,
with the `batch` of frames it has retrieved); the Platform's unacknowledged frames
(`box`) and, as history, all it ever stored (`wire`).

A frame binds a nonce and an ephemeral key; the model numbers the Accepts (`tx`),
so a session ID with a `tx` is a transcript. Signatures are right or the frame is
rejected before it changes anything; a MAC is right when the transcripts agree.

| Action | Code |
| --- | --- |
| `BeginTick`, `ProcessFrame`, `EndFrames` | `processFrames`: retrieve up to 100 frames, handle each in order, mark seen, acknowledge |
| `HandleInit`, `HandleAccept`, `HandleFinished` | the three handlers, each with all its writes and requests in order |
| `Resend` | `resendPending` |
| `Deliver`, `NotDue` | `deliverNext` for an entry without an envelope: seal it, or `startHandshake` |
| `Crash`, `Expire` | a restart; the hour of a handshake runs out |

A handler is one step with one disjunct per point at which it can fail, in the
order of the code; a request that returns an error has reached the Platform or
not. A helper that stops inside a handler leaves what the failure at that point
followed by `Crash` leaves. `Vacates` is the one point at which a handler that fails has
taken something away: the record that gives way to a crossing Init is deleted
(`v2_daemon.go:408`, `416`) and its successor not written (`443`). `resendPending` loops over the records of all peers;
with one peer, and `AtMostOneHandshake`, that is one record. The policy stays
the same; its rotation is in `V2Messaging`. Storing and receiving messages is
left out, since it changes nothing the handshake reads.

### V2Messaging

State: the sender's outbox (`status`, `env`), its session and policy (`sSess`,
`sendSeq`, `sUsed`, `sEpoch`) and the store it waits for (`waiting`, `resp`); the
receiver's durable rows and session (`received`, `rSess`, `recvSeq`, `rUsed`,
`rEpoch`); requests on their way (`req`), which may outlive the wait for them and
be handled more than once; what the Platform binds and has not delivered (`bound`,
`unread`); which deadlines and lifetimes have passed (`overdue`, `stale`).

| Action | Code |
| --- | --- |
| `SJoin`/`RJoin`, `SDrop`/`RDrop` | `saveV2Session` and `deleteV2Session`; `V2Handshake` models how |
| `SRefresh`/`RRefresh` | `refreshPolicy` and `saveV2Policy` |
| `Accept` | `handleV2Store` and `acceptV2`, at any time |
| `Expire`, `Seal`, `StoreAgain`, `Quarantine` | the branches of `deliverNext` up to the store |
| `Record`, `GiveUp` | the rest of `deliverNext` and `retryV2`; a lost request or answer, a failed write, a restart |
| `ScheduleSkip` | `scheduleV2SequenceSkip` and `saveV2SequenceSkip` |
| `Process` | `processMessages`: `processOneMessage`, `receiveV2` or `receiveV2SequenceSkip`, the acknowledgement |
| `NewPolicy`, `HandleStore` | the Platform, as `v2/client.go` and the tests use it |

The engine is one goroutine, so the sender's steps other than `Accept` wait while
a store is in progress. An envelope is the session and sequence its signature
binds, which with the message ID determine its bytes. The model takes from the
handshake that each helper joins a session at most once (`sUsed`, `rUsed`).
**`V2HandshakeReplay` shows failures after which the code does not keep this**;
everything `V2Messaging` shows is conditional on it. The rule at `v2_daemon.go:594`
needs no action: `PendingIsCurrent` proves its condition cannot hold.

### OrderedChannel

Each message is given one slot of one session for ever; a message is delivered
once, after every earlier slot of its session was delivered or cancelled; a
cancelled message is never delivered. The refinement maps `slot` to the
envelopes, `cancelled` to the conflicts and `delivered` to the receiver's rows;
sealing, the record of a 409 and the commit of a message are its three steps, and
everything else, controls included, is a stutter.

### Collaboration

State, per runtime: its `v2_collaboration` record (`view`), its own `v2_event` rows in
sequence (`own`), the status of the peer's (`inb`), the maintenance outbox (`mops`), the
owner's operations that are not reserved (`ops`), the decisions on what the peer sent
(`review`), the mandate (`task`, `expired`); and the packets between them (`mail`).

| Action | Code |
| --- | --- |
| `Prepare`, `Approve`, `Drop` | `prepare_collaboration` and the decision on its approval |
| `Reserve`, `ReserveMaintenance` | the first transaction of `dispatch_collaboration` |
| `Submit`, `SubmitSync` | the second: checks again, applies the event here, calls the helper, which may fail or leave its answer unknown |
| `ReceiveEvent`, `ReceiveReviewable` | `ingest_v2_record`, with the review gate of `peer_review.py` |
| `ReceiveSyncRequest`, `ReceiveSyncResponse` | the two recovery packets; the answer records several events at once |
| `Review` | `_review_peer` with the ingestion and drain that follow |
| `RevokeTask`, `RevokePermit`, `Expire` | `revoke`, `revoke_collaboration_maintenance`, time |
| `Lose` | the mailbox |

`Apply` is `_v2_apply` as a function on a record of what the reducer may change; its
result is ok, wait (`_Buffered`) or bad (`ValueError`), and only ok keeps the change,
as the savepoint in `_v2_drain` does. `Drain` runs after everything that arrives; it is a
recursive function over the number of events it has passed. A chain of `if` and `elif`
is IF/ELSE here and never CASE, whose arms may overlap (section 5).
An event is its sender and number, so that the predecessor digests are implicit;
the terms of version *v* are the number *v*. `Compilable` is what the compiler of
payloads refuses; `Precondition` is checked both when an event is prepared and
when it is reduced, as in the code.

### Approvals, Delegation, Worker

`Approvals` keeps the approval rows with their lease and token, the native calls that
wait for an answer (`ui`), and what each call has reported (`told`). `Begin`, `LeaseEnds`,
`Finish` and `WebRespond` are `begin_confirmation`, the end of a lease,
`finish_confirmation` with what `Runtime._execute` reports, and
`_remote_respond_approval`. What a question is about is passed in.

`Delegation` adds the mandate and its spent actions, the operation rows, the
proposal, deliveries, blocks, and the helper's outbox.

| Action | Code |
| --- | --- |
| `PrepareTask`, `PrepareAction`, `ImportProposal` | the methods of those names; `Evaluate` is `policy.evaluate` |
| `Reserve`, `AskAgain`, `Resume` | the first transaction of `dispatch`, by what it finds |
| `Submit`, `DispatchEnds` | one recipient, in its own transaction; a check that stops the call, or its death |
| `Revoke`, `Deadline`, `Block`, `Unblock` | `revoke`, time, `_set_peer_block` |

`Worker` adds the policy, its runs, the ticks under way and the collaboration as the
worker reads it (`joint`, whose changes by the peer are free; `Collaboration` models
where they come from).

| Action | Code |
| --- | --- |
| `PreparePolicy`, `Pause` | `prepare_worker_policy`; `pause_worker` and `revoke_worker` |
| `TickClaim`, `TickPrepare`, `TickReserve`, `TickSubmit`, `TickFinish` | the transactions of `run_worker_tick`, those of the dispatch under its worker context included |
| `TickStops`, `TickRefused`, `TickFails` | its other ends |
| `OwnerAnswers` | the decision on an acceptance the run had to ask for |
| `OwnerReserves`, `OwnerSends` | the two transactions of the owner's own `dispatch_collaboration`, of any operation that is ready or already being sent, at any time |
| `PeerTerms`, `PeerAgrees`, `PeerAsks`, `PeerCloses` | what the peer's events change, and the fixed messages they queue |
| `Crash`, `Age` | a process that dies, and the minute after which its run counts as abandoned |

Ticks overlap. `Hands` is the second transaction of a dispatch, the same for a run and
for the owner: it checks the operation again, applies the event here once (`Takes`),
and calls the helper, which accepts it, fails, or leaves its answer unknown. Every
message of the protocol (`MAINTENANCE`) is one step `Receipt`, queued once.
`Lead` and `Follow` are the two flags of a policy, `allow_propose` and `allow_accept`;
in the run of both, the collaboration is one the owner leads. With `Asks` the peer's
terms exceed the scope, so that the run's acceptance is asked of the owner
(`worker.py:245`) and may become ready later. The answer to it is one step: leases and
tokens are those of every approval, and `Approvals` has them for the other questions.
`PreparePolicy` asks for phase `open`: `worker.py:62` also admits a collaboration that was
closed without an agreement, but the code closes one only on a receipt of the agreement,
or on a cancellation of it (`collaboration_v2.py:697`, `720`, `732`).

### Social and Remote

`Social` has both agents' stores: contacts, connections, requests in both directions,
outbox, mail and tombstones, with the helpers between them (`wire`), which repeat and
reorder. A transaction of the store is one action: `Ask`/`Answer` are a native question
and its decision, `BlockPeer`/`UnblockPeer` are `_set_peer_block`, `Receive` is
`ingest_message` with all it does for a request, a response or a message,
`ConsumeBlocked` is `consume_blocked_peer`, `Review` and `Flush` are `_review_peer` and
`flush_social_outbox`.

`Uninvited` is the one thing a peer's client may do that this code would not: send words
nobody agreed to. It uses numbers its own outbox does not, so that a message has one sender.

`Remote` drives agent `A` of `Social`. A request passes through three databases, and
the process may die between any two commits: `Take`, `HandleKnown`, `Mutate`/`Claim`,
`Execute`, `Complete`, `Commit`, `Deliver`, `Record`, `Acknowledge` follow the consumer
from `platform.py` through `RemoteBridge.handle`, `Store.remote_mutation` or
`execute_owner_once`, and back. `ClaimTurn`, `Tool`, `FinishTurn`, `ThreadEnds` are the
conversation turns and the host threads that may outlive them; `Start` is `connect`
with `recover_interrupted_turns`. `Operate` uses the operations of `Social`, so a block
from the console is the block `BlockIsFinal` speaks of.

### V1Delivery

The v1 path from the owner's request to the connector. The sender's side is
`helper_outbox` (`outbox`) and the helpers over it (`worker`: where `deliverNext` is,
and the envelope it holds): `Accept`, `Pick` (`nextOutgoing` and the first look at the
deadline), `Prepare` (`PrepareMessage`), `SaveEnvelope`, `Check` (the second look),
`Send` (`DeliverEnvelope` with the relay's `StoreEnvelope`, over the relays in order)
and `UpdateOutgoing` are separate steps, so that helpers interleave, stop
(`CrashHelper`) and lose requests or answers between any two. A relay is its
`messages` table (`row`) with expiry (`Age`), `Cleanup`, the limit of `Retrieve` and
`AckRelay`.

On the recipient's side one goroutine (`poll`) retrieves a batch and, for each
envelope, is admitted, commits in `helper_inbox` and acknowledges; direct streams
(`stream`) are admitted and commit on their own. `active` is the WaitGroup. `Cancel`,
`StopAdmission`, `Drain`, `Exit` are the shutdown up to the closed channel and the end
of the process, which may also come at any moment (`Exit` again); `Start` follows.
An envelope is a number, since two preparations of one message never agree; `lapsed`
is a ghost, the messages of which a row outlived its expiry unread.

## 3. The runs

| Run | Instance | Shows | States |
| --- | --- | --- | --- |
| `V2HandshakeSafety` | 2 failures of any kind, 1 expiry, 3 handshakes, 3 Accepts | `AtMostOneHandshake`, `MatchingConversation` | 907,424 |
| `V2HandshakeRecovery` | 2 failures, all kinds but `finished` and `mark` | every message is sealed, the secret is erased, the send sequence never falls | 51,838 |
| `V2HandshakeReplay` | 2 failures of any kind | **violated**: the send sequence falls | |
| `V2HandshakeStall` | 1 failed store of a Finished | **violated**: a message is never sealed | |
| `V2MessagingSessions` | 2 messages, 1 deadline, 3 sessions, 2 epochs, 1 lifetime, quota 1 | ordered delivery across sessions and policies, one content per sequence, custody, final withdrawals | 3,263,824 |
| `V2MessagingDelivery` | 2 messages, 1 session, no deadline | what was admitted is received | 2,616 |
| `V2MessagingDeadline` | the same with a deadline | **violated**: an expired message blocks the session | |
| `Collaboration` | 6 plans, 4 events a side | one agreement backed by both; order, review, revocation; a repair that has begun is not dropped | 164,642 |
| `CollaborationCancellation` | 1 plan, 5 events a side | **violated**: a cancelled collaboration is completed | |
| `DelegationAndWorker` | 7 plans, 5 operations, 2 recipients, 2 timers, 2 policies of 3 runs | nothing unapproved leaves; budgets; one step per run, none past what a run left open; nothing after a revocation | 679,932 |
| `SocialAndRemote` | 15 plans, 2 requests and 1 message each way, 1 block, 2 pairings | mutual consent; each console request once; blocks and revocations are final | 412,548 |
| `V1Delivery` | 1 message with a deadline, 1 refused message, 1 stream, 2 helpers, 2 relays, 1 mishap of any kind | one envelope, one outcome, an accepted message is kept and received, nothing commits after the drain, the drain ends | 683,564 |

**Bounds.** A handshake is between two helpers and touches no third, so two are
enough. Both may have a message, so that Inits cross; three handshakes allow both
first ones and a replacement; three Accepts allow one to be made again twice. Two
failures are what the replay needs, and let a failure hit the recovery from
another. For messages, two in two sessions of one epoch and one session of the
next show every crossing of sealing, dropping and rotation, and two in one session
a gap and the message behind it; what holds of more messages is proved (section 5). A
taken message ID is chosen freely at the start. A quota of 1 makes the queue
overflow. The bound of `SDrop` (another session must be left to join) keeps the
receiver from being stuck only because the model ran out of sessions. The
`V2Messaging` runs do not check deadlock: they stop when the bounded inputs are
used up. The liveness run gives the queue room for every message: PROTOCOL_V2.md
documents that a full queue can hide a repair.

**Plans.** The runtime's modules have many independent sources of trouble, and all
of them at once is beyond TLC. A constant `Plans` lists sets of what may come up in
one behaviour, and a behaviour draws one of them at its start. Everything within a
plan interleaves freely, and the plans are chosen so that each hazard meets the
operations it can disturb: a loss with the repair, a second version with the
acceptances, a withdrawal with the formation, a block with the dispatch and the
next policy, a crash with each kind of console request. The proofs about `Worker`
hold for any `Plans`, the one that allows everything included.

In `Collaboration` four events a side are an invitation or a join, a proposal, an
acceptance and one more, with agreement and acknowledgment; the cancellation needs a
fifth. Permits of two or three events run out. One lost packet is enough to need a
repair, and `MaxOps` of one says that an owner has one undecided operation at a time,
which the other side's events still overtake. `Receipted` names the receipts that
change anything where they are read; the others would only add numbers. In
`DelegationAndWorker` two policies are the least with a successor, three runs let one
be abandoned and another follow, and a limit of two sends and two actions is reached
in several ways; an operation with two recipients lets a dispatch be cut in the
middle. In `SocialAndRemote` two attempts allow a refused request to be made again and
a message to wait for the wrong one; two pairings are a revocation and a renewal.
These runs do not check deadlock: they end when the plan is used up.

In `V1Delivery` messages share nothing but a batch, so one message with two helpers and
two relays shows every race of preparing, committing, storing and recording, a relay
that has a copy whose answer was lost included. The refused message and the stream are
what a pass and a drain must get past. A behaviour draws one mishap for all actors
(`Mishaps`): a failure anywhere, a row that outlives its retention, or a shutdown or
crash of the recipient. The helpers alone race without any, so an expired row may be
stored again; the proofs allow any number of mishaps together. A retrieval returns two
rows where one message is refused: with as many refused messages as the limit (500 rows,
or 4 MiB, `mq/server.go:130`, `149`) the messages behind them would not be retrieved
before those expire, and `AcceptedIsReceived` does not hold; nothing in the repository
promises it. The run ends when every message is settled and the mishap is used up, so
deadlock is not checked.

**Types.** The type invariants of `V2Handshake`, `V2Messaging` and `V1Delivery` are proved
(section 5) and not run; the other modules' are invariants of their runs.

**Fairness.** `run` ticks for ever, so `V2Handshake` assumes weak fairness of a
tick and strong fairness of `Deliver`: an entry's backoff is at most 256 seconds,
so it is due again and again. Failures, stops, expiry and `NotDue` are not fair.
`V2Messaging` assumes that handshakes complete (which `V2HandshakeStall` shows to
depend on failures), that both tickers run (`DeliverEntry`, `ScheduleSkip`,
`Process`), and that a store tried again and again is at last handled while the
sender waits (`HandleAwaited`) and its answer recorded (`Record`). Loss is never
forced to stop by a counter; it is only not for ever.
The runtime runs are about safety and assume nothing. In particular nothing is assumed of
the repair of gaps in `Collaboration`: the Hermes adapter's loop (`platform.py:345`) reads
the inbox and ticks the worker, but a recovery request or answer that is queued leaves only
by an explicit dispatch, or by a worker policy with few runs and sends, so a gap may stay
unrepaired for as long as neither comes. What the code does promise is about steps:
`RepairGoesOn` says that as long as a request for the cursor or an answer that fills
the gap is queued, on its way or under review, each step settles the event that waits, or
leaves such a request or answer for the cursor then reached, in whatever order events,
requests and answers arrive. It ends where a permit is spent or revoked, or where an
acceptance waits for terms that were replaced (`RepairEnds`), and says nothing of a request
that was never made: one refused for want of room is not made again.
`V1Delivery` assumes of each helper that `runOutbox` goes on, of the recipient that
`pollMQDurable` goes on while the process is up, that admitted callbacks return, that
a shutdown proceeds and that a stopped process is started again; requests, expiry,
stops and the arrival of streams are not fair.

**Mutants.** Every property of a passing run has, beside the definition it
guards, a variant with a plausible bug (a comment starting with `Mutant:`) that
TLC shows to violate it; the specification does not use them.

## 4. What the violated runs found

1. `V2HandshakeReplay`: an Init that was handled, but whose handler or mark failed
   twice, is handled again after the session was used. `handleInit` replaces the
   ready session by a new one of the same ID with its counters at zero
   (`v2_daemon.go:465`).
2. `V2HandshakeStall`: a helper whose store of its Finished fails becomes ready by
   the peer's Finished in the same batch, and deletes the record from which the
   Finished would be sent again (`v2_daemon.go:506`, `522`). The peer waits for ever.
3. `V2MessagingDeadline`: a sealed message that expires before it is admitted leaves
   a sequence that the repair does not consider (`v2_daemon.go:592`,
   `v2_sequence_skip.go:49`); later admitted messages of the session are never
   received.
4. `CollaborationCancellation`: an acknowledgment of the agreement that is reduced
   after the collaboration was cancelled overwrites the cancellation
   (`collaboration_v2.py:697`), which the receipt branch (731) and the agreement
   branch (646) take care not to do; the rule at line 424 then no longer applies.

## 5. What is proved

### Messages

`V2MessagingProofs` proves, for any set of messages, sessions, epochs, deadlines
and any quota and bounds satisfying `MessagingAssumption`:

| Theorem | Statement |
| --- | --- |
| `Invariance` | `Spec => []IInv` |
| `TypeCorrect` | `[]TypeOK` |
| `SequenceOwner` | `[]OneOwnerPerSequence` |
| `ConflictExcluded` | `[]ConflictNeverReceived` |
| `InOrderOnce` | `[]ReceivedInOrder` |
| `AcknowledgedLast` | `[]AcknowledgedIsReceived` |
| `AdmittedOnReceipt` | `[]QueuedIsAdmitted` |
| `CustodyKept` | `[]Custody`, the two together |
| `PolicyCurrent` | `[]PendingIsCurrent` |
| `WithdrawalIsFinal` | `WithdrawnStaysWithdrawn` |
| `Refinement` | `ChannelSpec`: the system implements the ordered channel |

The assumption says that a control ID is no message ID (refused at
`v2_daemon.go:162`) and differs between messages (it is a hash), and types the
other constants.

None of the properties is inductive. `IInv` adds why they hold:

* `StatusInv`: what a status says of the envelope, and that a conflict comes from
  an ID the Platform bound to other bytes;
* `CountInv`: a session's envelopes are of sequences up to `sendSeq`, and a session
  not joined has none;
* `ControlInv`: a control has the envelope of its message, and only a conflicting
  message has one;
* `OwnerInv`: two IDs share an envelope only as message and control;
* `StoreInv`, `CopyInv`: what is waited for, requested or bound is the ID's own
  envelope, or foreign bytes bound from the start;
* `HeldInv`: what the receiver holds was bound by the Platform;
* `PrefixInv`: the receiver's rows of its session fill `1..recvSeq`.

One lemma per action proves that it preserves `IInv`; `NextInv` combines them. The
invariance of `PrefixInv` under `Process` rests on `OwnerInv` (a sequence already
taken is not taken by another row), that of `OwnerInv` under `Seal` on `CountInv`
(the new sequence is above all others), and `ConflictNeverReceived` on `CopyInv`
(a message bound elsewhere was never bound to its envelope). The refinement shows
that `Init` maps to the channel's `Init`, that `Seal`, `Record` and `Process` map to
`Offer`, `Cancel` and `Deliver` (lemmas `SealOffers`, `RecordCancels`,
`ProcessDelivers`), and that every other step stutters.

### Approvals, dispatch and the worker

`WorkerProofs` and `WorkerPolicyProofs` (the last two) prove, for any sets of operations,
recipients, approvals, conversations and timers, any plans and any limits satisfying
the three assumptions of the modules:

| Theorem | Statement |
| --- | --- |
| `TypeCorrect` | `[]TypeOK` |
| `DecisionsAgree` | `[]OneDecision` |
| `ApprovedFirst` | `[]NothingUnapproved` |
| `BudgetCorrect` | `[]BudgetHolds` |
| `StopsImmediately` | `StopsAtOnce` |
| `ProposalAdvances` | `ProposalNeverReverts` |
| `CandidatesCorrect` | `[]CandidatesBounded` |
| `SendsBounded` | `[]WorkerWithinPolicy` |
| `UncertainStops` | `NeverPastItsOwn` |

The assumptions type the constants, say that a version of a proposal is positive,
that `None` is neither a proposal nor a step,
that a disclosure is a finite set, and that the approvals asked for exist and that a
policy's is not an operation's or the task's (they are fingerprints of different
records).

* `TypeCorrect` needs `PolicyInv`: a policy that exists has a revision. `WorkerType` is
  split into rows (`RowTypes`), and each kind of step has one lemma.
* `DecisionsAgree` rests on `DecidedStays`: a decided approval is never asked,
  superseded, expired or decided differently, because a call that reports holds the
  token, and a decision takes the token away.
* `ApprovedFirst` has the inductive invariant `Granted`: the mandate is approved while it
  is active (`GrantedTask`), what is approved once has its approval (`GrantedOnce`),
  so has every operation outside the scope that was reserved (`GrantedBegun`), the
  active policy (`GrantedPolicy`), and every policy whose run handed something over
  (`GrantedHanded`). `DecisionCases` reduces the two places of decision to one fact.
* `BudgetCorrect` has `BudgetInv`: the operations and steps on which the budget was spent,
  which include all that left, are at most `task.used`. A step is charged by its
  reservation, a run's or the owner's, and by nothing else (`ChargedStep`), an operation by `Reserve`,
  and both count once however often they are resumed.
* `StopsImmediately` follows from what a step that hands something over has checked
  (`HelperStep`, `HandedStep`), with the types; `ProposalAdvances` from `BaseInv`: the base of
  an operation is older than its content.
* `CandidatesCorrect` has `CandidatesInv`, for as long as there is no block: what left, or is
  on its way, was reserved first (`ClaimedFirst`), and the slots of the reserved operations
  that no approval of their own covers are within the limit for each contact
  (`BeyondBounded`). Only `Reserve` adds to them, and it has just counted (`Exposed`) what
  every reserved operation discloses; the retry of an uncertain operation adds nothing.
* `SendsBounded` and `UncertainStops` have the inductive invariant `PolicyRuns`. A tick under
  way has an open run of its own (`TickInv`), a policy has one open run at a time
  (`OpenInv`), and of runs and policies to come there is nothing (`FutureInv`). What a run
  hands over is the step it reserved (`ReservedInv`); the steps the runs of a policy
  reserved are at most its `sends` (`SendsInv`). A step its policy has begun is not begun
  again (`BegunInv`): it was taken, or the policy is over, or the run that began it is
  open, also when its process died, and no other is claimed. Hence a step is prepared
  once and handed over by one run (`HandsInv`). The owner may dispatch any operation that is
  ready beside the runs. A step a run has reserved is no longer such an operation, unless
  the task has no action left, and then the owner cannot reserve it either (`StuckInv`); a
  step that was applied shows in the collaboration (`AppliedInv`), so it is not begun again,
  whoever sent it. Hence, while a run of the current policy may still send, no other step that
  a run has reserved is uncertain (`AloneInv`). The owner's may be: without "that a run has
  reserved" the statement is false (section 6). `NextMoves` reduces every step of
  the composition to a few moves of the policy, its runs, ticks and steps, and each
  conjunct is then shown over those.

### Handshakes

`V2HandshakeProofs` proves, for any bounds on messages, identifiers, requests,
expiries and failures (`HandshakeAssumption`: the two helpers differ, and the bounds
are natural numbers):

| Theorem | Statement |
| --- | --- |
| `Invariance` | `Spec => []IInv` |
| `TypeCorrect` | `[]TypeOK` |
| `OneHandshake` | `[]AtMostOneHandshake` |
| `TranscriptShared` | `[]MatchingConversation` |
| `SequenceNeverFalls` | `SendSequenceMonotonic`, assuming `Recovered` |

`IInv` says where each piece of a handshake comes from:

* `RowInv`: what is accepted without an envelope and what was sealed are at most the
  accepted messages;
* `QueueInv`: every frame given to a helper was stored by its peer, so a stale or a
  repeated frame still tells what the peer once did;
* `WireInv`: an identifier belongs to one initiator, and an Accept answers an Init that
  was stored;
* `RecordInv`: a helper has at most one record, and a responder's record is for an Init
  the peer stored;
* `SessionInv`: a saved session rests on the stored Init and Accept of its identifier, a
  ready one of a responder on the peer's Finished.

`TranscriptShared` follows from `WireInv` and `SessionInv`: both ends of a session name
the same Init and the same Accept, since either is stored once.

`SequenceNeverFalls` assumes of the constants what `V2HandshakeRecovery` takes
(`Recovered`: no StoreFrame of a Finished and no seen mark fails, and no handshake outlives
its hour), and further that `Vacates` does not happen, which would let a helper start a
second time (there the property is only model-checked). It is proved for any number of
messages, handshakes, Accepts and failures of the
other seven kinds, helpers that stop elsewhere included. A session is written whole
(`saveV2Session`, `v2_mailbox.go:249`), with its sequence at 0, so the property is that no
session replaces one with its own identifier. What keeps it so spans both helpers
(`SeqInv`):

* `MarkInv`: the Init, or the Accept, a session was saved for has been marked seen;
* `OfferInv`: the Accepts a peer stored or holds for an Init that is still waited for are
  one, and it keeps that one until it has marked the Init seen, so an Init that is handled
  twice is answered with the Accept it was given;
* `OnceInv`: a helper starts at most once, and not after it has answered; hence an Init a
  helper is given belongs to the start its peer waits for;
* `FreshInv`: a helper without a pending handshake and a ready session has said nothing.

The steps are reduced first to five moves of a helper (`Repeats`, `Answers`, `Joins`,
`Completes`, `Starts`; `StepMoves`), which say what a step stores and leaves, and the
invariant is then shown over those. With a Finished or a mark that is lost the
statement is false: `V2HandshakeReplay`. With handshakes that expire a helper may start
again, `OnceInv` no longer holds, and no theorem is claimed.

### Console

`RemoteProofs` proves, for any sets of requests, kinds and plans that satisfy
`RemoteAssumption`, of `Remote` with `Social` as the agent it operates:

| Theorem | Statement |
| --- | --- |
| `Invariance` | `Spec => []RInv` |
| `OnceOnly` | `[]EachRequestOnce` |
| `RevocationHolds` | `NothingAfterRevoke` |

`RInv` ties the consumer's program counter to the tables: inside the transaction the
pairing stood when the consumer looked and nobody can have revoked it since
(`LockInv`); what the request in hand has behind it at each place (`HandInv`); how
often a request took effect, by its kind and by the record kept of it (`EffectInv`);
that the console knows at most the reply the bridge kept, and a success only with its
record (`ReplyInv`); and that turns are submitted once, wait in order and run one at a
time (`TurnInv`). A request is refused when the operation it names is not enabled;
ENABLED is not expanded in the proof, which uses only that a refusal changes nothing.

### v1 delivery

`V1DeliveryProofs` proves, for any messages, refused messages, streams, helpers, number
of relays, limit of a retrieval and number of mishaps (`DeliveryAssumption`: the three
kinds of message have different IDs, there is a relay, and a retrieval returns a row):

| Theorem | Statement |
| --- | --- |
| `DeliveryInvariant` | `Spec => []DInv` |
| `DeliveryTypes` | `[]TypeOK` |
| `OneEnvelope` | `[]OneCiphertext` |
| `AcknowledgedLast` | `[]AcknowledgedIsDurable` |
| `Custody` | `[]NothingLost`: that, and a queued message is kept |
| `ClosedStaysClosed` | `NoCommitAfterDrain` |
| `ReportIsFinal` | `ReportedStays` |

None of the properties is inductive alone. `HoldInv` says that a helper past the commit
holds an envelope, so the row has one and it is never replaced (`EnvelopeStays`).
`RowInv` says what the marks of a relay's row mean, and `KeptInv` that a message a relay
confirmed, whether its sender knows it yet or not, has a row, is in the inbox, or lapsed:
a row goes away only by `Cleanup`, and then it was read, and the inbox has the message,
or it lapsed. `PollInv` carries the commit from the callback to the acknowledgement.
`CountInv` says that the WaitGroup is the number of admitted callbacks, of streams and of
the poll, and that none is left after the drain; without it neither `TypeOK` (the counter
is decremented) nor `NoCommitAfterDrain` is preserved. `Frames` lists once which actions
change which part of the state, and each conjunct is then shown over those.

### Two agents and their mail

`SocialProofs` proves, under the same assumption, with the console driving one agent or
not, for any numbers of requests, messages and blocks:

| Theorem | Statement |
| --- | --- |
| `SocialInvariance` | `Spec => []SInv` |
| `ConsentHolds` | `[]MutualConsent` |
| `BlocksHold` | `BlockIsFinal` |
| `TypeCorrect` | `[]TypeOK`, that of `Remote` with `Social` |

`SInv` says what stands behind each piece of mail: what was ever written, is on the wire or
lies in a mailbox rests on a request made or a decision taken by its sender (`SentInv`,
`IncomingInv`), a decision the requester knows is the one its peer made (`DecidedInv`), a
connection is of two decisions (`AgreedInv`), and words passed on to review have a
connection and, if they waited for a request, that very one (`VettedInv`). `RetiredInv` is
what a block leaves: of the agent's own mail, nothing queued and nothing that could be
written again; of the peer's, a tombstone, or a request whose answer will be refused.
`StepCases` reduces the steps of the composition, those of the console among them, to
twelve moves of the two stores, and each is shown to preserve the parts it touches.
`TypeCorrect` adds what `RInv` leaves open: turns that wait are counted by the submitted
ones. The attempt to prove these theorems gave three guards that TLC's instances implied
and the model did not say: `Respond` answers a request that is there, `Send` writes
a message of its own, and `Uninvited` does not reuse one; and `RemoteAssumption` asks for
a pairing at least.

### Collaboration

`CollaborationProofs` proves, for any plan (any owners' wishes, losses, failures, versions,
permits) and any number of events satisfying `CollaborationAssumption`:

| Theorem | Statement |
| --- | --- |
| `CollaborationInvariance` | `Spec => []CollInv` |
| `TypeCorrect` | `[]TypeOK` |
| `ReservationsStay` | `[]NothingReservedLeaves` |
| `OrderHolds` | `[]ReducedInOrder` |
| `ReviewHolds` | `[]ReviewedBeforeUse` |
| `AgreementHolds` | `[]AgreementSound` |
| `WithdrawalsHonoured` | `FormationHonoursWithdrawal` |
| `RevocationsHold` | `RevokedStaysSilent` |

An action of this module is a whole transaction: it opens a side's rows, applies one
event, drains what is buffered behind it, and commits. The proof follows that order and
states its invariant of the copy a transaction works on. `TxInv(s, d, now)` holds of the
copy `d` of side `s` at every moment of the drain, while the event `now` is being reduced,
and `InOrder(d)` between two events; the reachable states are transactions just opened
(`SidesInv`). `CollInv` adds the shape of what owners ask for (`Shapes`), that a side which
has not joined holds nothing but the invitation (`BoundInv`), and that the mailbox holds
only what its sender has applied (`MailInv`). The parts of `TxInv`:

* `Arrived`: what a side has of an event, its sender has applied; `Vetted`: the owner has
  approved every reviewable one among them;
* `AcceptancesInv`: an acceptance on record is an applied event of that side, or the one
  being reduced. That is why `now` is needed: within one event the reducer forms the agreement
  from an acceptance that is marked applied only afterwards;
* `Truthful`: what waits in the outbox or was numbered says what its sender holds, an
  agreement its own, a receipt what it reduced, an answer what it applied;
* `AgreedInv`, `SyncedInv`: the initiator's agreement rests on `Evidence`, the peer's is the
  initiator's, and a mark of synchronization is true of the other side. They compare a copy
  with the other side's committed rows, which no transaction of `s` changes;
* `WithdrawnInv`, `HonoursInv`: an acceptance whose withdrawal the initiator has applied is
  inactive there, so that formation cannot use it; a formed agreement stays;
* `Grown`: no transaction takes back what it found applied.

One lemma for each kind of event shows that `Apply` keeps them (`OnAcceptHandled`,
`OnAgreementHandled`, ...), `Applying` puts them together, the drain is then an induction
over the events it has passed, carried out as the search for a least counterexample in
the well-founded order on numbers (the library's induction theorems take an operator and
cannot be used), and
`OwnerKeeps`, `HostKeeps` and `MailboxKeeps` are the actions.

The attempt exposed one thing about the model: four definitions of the reducer (`OnAgreement`,
`OnCancel`, `DrainBuffered`, `Drained`) were CASE expressions whose guards overlap. TLA+ leaves
open which arm such a CASE takes; TLC takes the first, so the runs had seen what the code
does, while no theorem could. They are IF/ELSE now, as in the code. `TypeOK` types whole rows
now, of the owners' operations and of the mailbox as well.

### Only model-checked

The liveness properties (`EveryMessageSealed`, `SecretErased`, `AdmittedIsReceived`,
`AcceptedIsReceived`, `DrainEnds`), since TLAPS does not reason about
fairness and ENABLED here. `SendSequenceMonotonic` is proved without expiries and without `Vacates` only, and
`RepairGoesOn`, which follows every packet of a repair through the drain, is not proved.

## 6. What is not modelled

Cryptography, parsing and canonical encoding are abstracted to which values are
bound to which; discovery and key pinning to requests that may fail.
`retirePersistedV2Conflicts` corrects rows of older helpers only. One sender and one
receiver stand for all pairs: rows, sessions and frames of different peers share
nothing but the tick, whose failures are per row. The selection of the due row by
time is any accepted row. Compliance revocation appears as a store that does not
follow a seal; the authorisation files are not modelled.

Of the v1 path: the content of a message (one ID has one content, `accept` refuses
another), the order and the back-off of the outbox, the order within a batch, the HTTP
relay as against the libp2p ones (it is one relay), and the reply on a direct stream.

Two ends of a scan are simplified: `LaterAdmitted` passes over a later row that no longer
verifies, where `v2_sequence_skip.go:87-97` gives up for this tick; and the choice of a
conflict to repair is any of them. In `Collaboration` the owner prepares business events
only: `prepare_collaboration` would also queue the protocol's own messages for an owner who
asks for them (`collaboration_v2.py:275`), which the reducer queues by itself. A review that
is repeated with the same answer (`peer_review.py:120`) changes nothing and has no step of
its own; a contact request answered again, by the console too, has (`Responded`).

Of the runtime: one task with one proposal, one collaboration, one console and one
peer of each kind; presence, read marks, attention items, audit and migrations; what
a read returns; and the waiting reasons and phases that are only shown (all but
`peer_review_required`, which decides whether a gap is asked for). The remaining
components are listed in section 7 or, when they are pure functions, generated code
or I/O, in `PROJECT.json` with the reason.

Behaviour of the code that the models reproduce and that a reader should know, since
no property excludes it:

* A withdrawal of the initiator that is reserved and not yet applied is counted in
  the sequence an agreement is formed at (`collaboration_v2.py:601`). The peer reduces
  the withdrawal first and then rejects the agreement the initiator holds.
* An acceptance of version 1 that crosses the proposal of version 2 waits for terms
  that were replaced, and all later events of its sender wait behind it until it
  expires (`collaboration_v2.py:442`).
* A number that is reserved and never submitted leaves a gap no recovery can fill;
  recovery requests with the same cursor are made once (`collaboration_v2.py:565`).
* The room in a permit counts an event being sent twice (`collaboration_v2.py:575`).
* An event from a recovery answer that its owner rejects keeps `ReviewSafe` false for
  good: nothing more is prepared or sent in that collaboration on that side.
* The transaction for one recipient of a dispatch does not look at the operation's
  status again (`store.py:857`): a block of another recipient in between denies the
  operation, and the loop then marks it as sending again.
* A block denies uncertain operations, and `_evaluate_current` then no longer counts
  what they disclosed (`store.py:499`); `CandidatesBounded` is stated without blocks.
* The question by which the owner confirms a policy says that an uncertain send pauses it
  at once (`worker.py:92`, and the connector's skill in the same words), but only the claim
  of a run looks for one (`worker.py:224`). When the owner dispatches a queued fixed message
  between the claim and the submission, and the helper does not answer, the run hands over
  its acceptance all the same; the next claim pauses the policy. `NeverPastItsOwn` therefore
  speaks of what the runs themselves have left open; TLC refutes it, in a behaviour of 13
  states, when it is widened to every operation of the collaboration.
* A block supersedes every undecided approval of the task, those for other
  recipients included, and a question once answered or superseded is not asked again.
* A block of a peer whose request was accepted withdraws the acceptance if it is still
  queued but keeps the connection; an acceptance that arrives during a block is consumed for good.
* A request retired by a block still counts as pending (`social.py:226`), so the peer
  cannot be asked natively again, and its late response is refused at every delivery.
* Replies that are errors are not kept (`remote.py:398`): a request answered with an
  error may take effect when it is delivered again.
* A v1 message may be reported as `expired` although another attempt stored it at a
  relay: the first outcome that is written stays (`mailbox.go:267`).
* A store repeated on a row that expired and is not cleaned up yet is confirmed, and the
  message reported as queued although it will not be retrieved (`mq/server.go:108`).

## 7. Plan

Done, in this order: `V2Handshake`, `OrderedChannel`, `V2Messaging` and its proofs;
`Collaboration`; `Approvals`, `Delegation`, `Worker` and their proofs; `Social`, `Remote`;
the proofs about `Remote` and `V2Handshake`; `V1Delivery` and its proofs; the proofs
about `CandidatesBounded`, `Social`, `Collaboration` and `SendSequenceMonotonic`.

Left:

1. **DoubleRatchet** (`dr/`): symbolic keys, failed writes, lost and repeated
   messages, restarts from saved states; no key used twice.
2. Extensions of the core: a bound on what one retrieval reads (`v2/client.go:108`),
   disclosure revocation, the composition of `Worker` with `Collaboration`.
3. `SequenceNeverFalls` for handshakes that expire and for `Vacates`, which needs an
   invariant about the Inits of starts that were given up.
4. A proof of `RepairGoesOn`.
