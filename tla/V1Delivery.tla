----------------------------- MODULE V1Delivery -----------------------------
(***************************************************************************)
(* The v1 delivery path: the helpers that share one durable outbox          *)
(* (cmd/helper/mailbox.go, deliverNext in cmd/helper/daemon.go), the relays *)
(* that keep a queue (mq/server.go), and the recipient's durable listener   *)
(* with its inbox and its shutdown (agent/durable_handler.go).              *)
(*                                                                          *)
(* An envelope is a number: every preparation encrypts anew, so two of them *)
(* differ, and 0 is an envelope column that is NULL or a row that is not    *)
(* there.  Whatever the envelope, a message has one content.                *)
(***************************************************************************)
EXTENDS Naturals, FiniteSets

CONSTANTS
    Message,    \* what the sender's owner may ask to send
    Foreign,    \* messages of other senders which the recipient refuses
    Direct,     \* messages that arrive on streams of their own
    Helper,     \* helper processes over the sender's mailbox
    Nodes,      \* number of relays, tried in this order
    Batch,      \* rows one retrieval returns
    Deadlined,  \* messages with a deadline
    Mishaps,    \* bounds: failures, rows that outlive their retention, stops together
    None

Id == Message \cup Foreign
Relay == 1..Nodes
Kind == {"fault", "age", "stop"}

ASSUME DeliveryAssumption ==
    /\ Nodes \in Nat \ {0} /\ Batch \in Nat \ {0}
    /\ Deadlined \subseteq Message
    /\ Message \cap Foreign = {} /\ Message \cap Direct = {}
    /\ Mishaps \subseteq [Kind -> Nat]
    /\ None \notin Id

VARIABLES
    outbox,     \* helper_outbox: status and committed envelope of each message
    worker,     \* deliverNext of each helper: where it is and what it holds
    made,       \* envelopes prepared so far
    late,       \* messages whose deadline has passed
    row,        \* the messages table of each relay
    clock,      \* rows each relay has stored, its order of retrieval
    lapsed,     \* messages of which an unread row outlived its expiry
    inbox,      \* helper_inbox
    proc,       \* the recipient's process: its shutdown
    active,     \* the WaitGroup of application callbacks
    poll,       \* pollMQDurable
    stream,     \* direct streams
    left        \* mishaps still to come

sender == <<outbox, worker, made>>
relay == <<row, clock, lapsed>>
recipient == <<inbox, proc, active, poll, stream>>
vars == <<sender, late, relay, recipient, left>>

Status == {"none", "accepted", "expired", "platform_queued"}
Fresh(e, at) == [envelope |-> e, at |-> at, read |-> FALSE, old |-> FALSE]
NoRow == Fresh(0, 0)
Idle == [pc |-> "idle", m |-> None, envelope |-> 0, node |-> 1]
Resting(n) == [pc |-> "idle", node |-> n, batch |-> {}, id |-> None]

TypeOK ==
    /\ outbox \in [Message -> [status : Status, envelope : Nat]]
    /\ worker \in [Helper -> [pc : {"idle", "late", "preparing", "prepared", "ready",
                                    "sending", "stored", "failed"},
                              m : Message \cup {None}, envelope : Nat, node : Relay]]
    /\ made \in Nat
    /\ late \subseteq Deadlined
    /\ row \in [Relay -> [Id -> [envelope : Nat, at : Nat, read : BOOLEAN, old : BOOLEAN]]]
    /\ clock \in [Relay -> Nat]
    /\ lapsed \subseteq Id
    /\ inbox \in [Message \cup Direct -> {"none", "pending", "consumed"}]
    /\ proc \in {"up", "cancelled", "stopped", "drained", "down"}
    /\ active \in Nat
    /\ poll \in [pc : {"idle", "batch", "admitted", "committed"}, node : Relay,
                 batch : SUBSET Id, id : Id \cup {None}]
    /\ stream \in [Direct -> {"idle", "admitted", "over"}]
    /\ left \in [Kind -> Nat]

Init ==
    /\ outbox = [m \in Message |-> [status |-> "none", envelope |-> 0]]
    /\ worker = [w \in Helper |-> Idle]
    /\ made = 0 /\ late = {}
    /\ row = [n \in Relay |-> [id \in Id |-> NoRow]]
    /\ clock = [n \in Relay |-> 0] /\ lapsed = {}
    /\ inbox = [m \in Message \cup Direct |-> "none"]
    /\ proc = "up" /\ active = 0
    /\ poll = Resting(1)
    /\ stream = [d \in Direct |-> "idle"]
    /\ left \in Mishaps

\* A mishap of a kind happens, if the bound allows it.
Mishap(kind) == left[kind] > 0 /\ left' = [left EXCEPT ![kind] = @ - 1]

-----------------------------------------------------------------------------
(* The sender.  Several helpers may run over one mailbox.                   *)

\* The owner's request is stored before it is answered; the same request again
\* only reads its status.
Accept(m) ==
    /\ outbox[m].status = "none"
    /\ outbox' = [outbox EXCEPT ![m].status = "accepted"]
    /\ UNCHANGED <<worker, made, late, relay, recipient, left>>

Deadline(m) ==
    /\ m \in Deadlined \ late
    /\ late' = late \cup {m}
    /\ UNCHANGED <<sender, relay, recipient, left>>

\* A helper reads a due row with the envelope it has, and looks at the deadline.
Pick(w, m) ==
    /\ worker[w].pc = "idle" /\ outbox[m].status = "accepted"
    /\ LET e == outbox[m].envelope
       IN  worker' = [worker EXCEPT ![w] =
              [Idle EXCEPT !.pc = IF m \in late THEN "late"
                                  ELSE IF e = 0 THEN "preparing" ELSE "ready",
                           !.m = m, !.envelope = e]]
    /\ UNCHANGED <<outbox, made, late, relay, recipient, left>>

\* Discovery may fail; encryption is fresh.
Prepare(w) ==
    /\ worker[w].pc = "preparing"
    /\ \/ /\ made' = made + 1
          /\ worker' = [worker EXCEPT ![w].pc = "prepared", ![w].envelope = made + 1]
          /\ UNCHANGED left
       \/ /\ Mishap("fault")
          /\ worker' = [worker EXCEPT ![w].pc = "failed"]
          /\ UNCHANGED made
    /\ UNCHANGED <<outbox, late, relay, recipient>>

\* Mutant: the helper sends the envelope it prepared.
SaveEnvelopeOwn(w) ==
    /\ worker[w].pc = "prepared"
    /\ LET m == worker[w].m
           e == IF outbox[m].envelope = 0 THEN worker[w].envelope ELSE outbox[m].envelope
       IN  outbox' = [outbox EXCEPT ![m].envelope = e]
    /\ worker' = [worker EXCEPT ![w].pc = "ready"]
    /\ UNCHANGED <<made, late, relay, recipient, left>>

\* The envelope goes into the row unless it has one, and the helper takes the
\* one that is there.
SaveEnvelope(w) ==
    /\ worker[w].pc = "prepared"
    /\ LET m == worker[w].m
           e == IF outbox[m].envelope = 0 THEN worker[w].envelope ELSE outbox[m].envelope
       IN  /\ outbox' = [outbox EXCEPT ![m].envelope = e]
           /\ worker' = [worker EXCEPT ![w].pc = "ready", ![w].envelope = e]
    /\ UNCHANGED <<made, late, relay, recipient, left>>

\* The last look at the deadline before the envelope leaves.
Check(w) ==
    /\ worker[w].pc = "ready"
    /\ worker' = [worker EXCEPT ![w].pc = IF worker[w].m \in late THEN "late" ELSE "sending"]
    /\ UNCHANGED <<outbox, made, late, relay, recipient, left>>

\* After a failure the next relay is tried; after the last one the attempt fails.
Elsewhere(w) ==
    worker' = IF worker[w].node < Nodes THEN [worker EXCEPT ![w].node = @ + 1]
                                        ELSE [worker EXCEPT ![w].pc = "failed"]

\* The relay keeps one row per ID: the same envelope again is confirmed whatever
\* became of the row, another one is refused.
StoreEnvelope(n, id, e) ==
    /\ row[n][id].envelope \in {0, e}
    /\ IF row[n][id].envelope = 0
       THEN /\ row' = [row EXCEPT ![n][id] = Fresh(e, clock[n] + 1)]
            /\ clock' = [clock EXCEPT ![n] = @ + 1]
       ELSE UNCHANGED <<row, clock>>
    /\ UNCHANGED lapsed

\* The request may be lost, or its answer.
Send(w) ==
    /\ worker[w].pc = "sending"
    /\ LET n == worker[w].node
           m == worker[w].m
           e == worker[w].envelope
       IN  \/ /\ StoreEnvelope(n, m, e)
              /\ \/ worker' = [worker EXCEPT ![w].pc = "stored"] /\ UNCHANGED left
                 \/ Elsewhere(w) /\ Mishap("fault")
           \/ /\ row[n][m].envelope \notin {0, e}
              /\ Elsewhere(w)
              /\ UNCHANGED <<relay, left>>
           \/ /\ Elsewhere(w) /\ Mishap("fault")
              /\ UNCHANGED relay
    /\ UNCHANGED <<outbox, made, late, recipient>>

Outcome(pc) == CASE pc = "stored" -> "platform_queued"
                 [] pc = "late"   -> "expired"
                 [] OTHER         -> "accepted"

\* Mutant: the last attempt to end decides.
UpdateOutgoingAlways(w) ==
    /\ worker[w].pc \in {"stored", "late", "failed"}
    /\ outbox' = [outbox EXCEPT ![worker[w].m].status = Outcome(worker[w].pc)]
    /\ worker' = [worker EXCEPT ![w] = Idle]
    /\ UNCHANGED <<made, late, relay, recipient, left>>

\* The outcome is written only while the row is still accepted.
UpdateOutgoing(w) ==
    /\ worker[w].pc \in {"stored", "late", "failed"}
    /\ LET m == worker[w].m
       IN  outbox' = IF outbox[m].status = "accepted"
                     THEN [outbox EXCEPT ![m].status = Outcome(worker[w].pc)] ELSE outbox
    /\ worker' = [worker EXCEPT ![w] = Idle]
    /\ UNCHANGED <<made, late, relay, recipient, left>>

\* A helper stops in the middle and starts again.
CrashHelper(w) ==
    /\ worker[w].pc # "idle"
    /\ Mishap("fault")
    /\ worker' = [worker EXCEPT ![w] = Idle]
    /\ UNCHANGED <<outbox, made, late, relay, recipient>>

DeliverNext(w) ==
    \/ \E m \in Message : Pick(w, m)
    \/ Prepare(w) \/ SaveEnvelope(w) \/ Check(w) \/ Send(w) \/ UpdateOutgoing(w)

-----------------------------------------------------------------------------
(* The relay by itself.                                                     *)

\* Another sender stores a message the recipient will refuse, one it cannot
\* decrypt or without text, at the first relay that takes it.
StoreForeign(n, f) ==
    /\ \A k \in Relay : row[k][f].envelope = 0
    /\ f \notin lapsed
    /\ StoreEnvelope(n, f, 1)
    /\ UNCHANGED <<sender, late, recipient, left>>

\* The retention of a row runs out: it is not retrieved any more.
Age(n, id) ==
    /\ row[n][id].envelope # 0 /\ ~row[n][id].old
    /\ Mishap("age")
    /\ row' = [row EXCEPT ![n][id].old = TRUE]
    /\ lapsed' = IF row[n][id].read THEN lapsed ELSE lapsed \cup {id}
    /\ UNCHANGED <<clock, sender, late, recipient>>

\* Every five minutes, the rows whose retention ran out are deleted.
Cleanup(n) ==
    /\ \E id \in Id : row[n][id].old
    /\ row' = [row EXCEPT ![n] = [id \in Id |-> IF row[n][id].old THEN NoRow ELSE row[n][id]]]
    /\ UNCHANGED <<clock, lapsed, sender, late, recipient, left>>

-----------------------------------------------------------------------------
(* The recipient: one goroutine polls the relays in turn, direct streams    *)
(* have one each.                                                           *)

Unread(n) == {id \in Id : row[n][id].envelope # 0 /\ ~row[n][id].read /\ ~row[n][id].old}

\* A retrieval stops at its limit: the rows stored first are returned.
Retrieved(n) ==
    {id \in Unread(n) :
        Cardinality({j \in Unread(n) : row[n][j].at < row[n][id].at}) < Batch}

NextRelay(n) == IF n < Nodes THEN n + 1 ELSE 1

\* What is left of a batch, or the next relay.
Onward(rest) == poll' = IF rest = {} THEN Resting(NextRelay(poll.node))
                        ELSE [poll EXCEPT !.pc = "batch", !.batch = rest, !.id = None]

Retrieve ==
    /\ proc = "up" /\ poll.pc = "idle"
    /\ \/ Onward(Retrieved(poll.node)) /\ UNCHANGED left
       \/ Onward({}) /\ Mishap("fault")
    /\ UNCHANGED <<inbox, proc, active, stream, sender, late, relay>>

\* Mutant: the first failure ends the pass.
RefuseReturns(id) ==
    /\ proc = "up" /\ poll.pc = "batch" /\ id \in poll.batch \cap Foreign
    /\ Onward({})
    /\ UNCHANGED <<inbox, proc, active, stream, sender, late, relay, left>>

\* A message that cannot be decrypted or validated is left at the relay, and the
\* others are still looked at.
Refuse(id) ==
    /\ proc = "up" /\ poll.pc = "batch" /\ id \in poll.batch \cap Foreign
    /\ Onward(poll.batch \ {id})
    /\ UNCHANGED <<inbox, proc, active, stream, sender, late, relay, left>>

\* Mutant: a callback is admitted whatever the shutdown has reached.
AdmittedAlways == active' = active + 1

\* Admission is under the lock that the shutdown takes.
Admitted == proc = "up" /\ active' = active + 1

AdmitPolled(id) ==
    /\ poll.pc = "batch" /\ id \in poll.batch \ Foreign
    /\ Admitted
    /\ poll' = [poll EXCEPT !.pc = "admitted", !.batch = @ \ {id}, !.id = id]
    /\ UNCHANGED <<inbox, proc, stream, sender, late, relay, left>>

\* A pass stops between two messages when the context was cancelled or its time is up.
Abandon ==
    /\ poll.pc = "batch"
    /\ IF proc = "up" THEN Mishap("fault") ELSE UNCHANGED left
    /\ poll' = Resting(1)
    /\ UNCHANGED <<inbox, proc, active, stream, sender, late, relay>>

\* The inbox keeps the first row of an ID, consumed or not.
Receive(m) == inbox' = [inbox EXCEPT ![m] = IF @ = "none" THEN "pending" ELSE @]

\* Mutant: a failed write is taken for a commit.
HandlePolledUnchecked ==
    /\ poll.pc = "admitted"
    /\ \/ Receive(poll.id) /\ UNCHANGED left
       \/ Mishap("fault") /\ UNCHANGED inbox
    /\ poll' = [poll EXCEPT !.pc = "committed"]
    /\ active' = active - 1
    /\ UNCHANGED <<proc, stream, sender, late, relay>>

\* The callback commits, or the write fails; either way it is over.
HandlePolled ==
    /\ poll.pc = "admitted"
    /\ \/ /\ Receive(poll.id)
          /\ poll' = [poll EXCEPT !.pc = "committed"]
          /\ UNCHANGED left
       \/ /\ Mishap("fault")
          /\ Onward(poll.batch)
          /\ UNCHANGED inbox
    /\ active' = active - 1
    /\ UNCHANGED <<proc, stream, sender, late, relay>>

\* Only then is the relay told, in the context of the pass; the request may be
\* lost, or its answer, which nothing depends on.
AckRelay ==
    /\ poll.pc = "committed"
    /\ LET n == poll.node
       IN  \/ /\ row' = [row EXCEPT ![n][poll.id].read = row[n][poll.id].envelope # 0]
              /\ UNCHANGED left
           \/ /\ IF proc = "up" THEN Mishap("fault") ELSE UNCHANGED left
              /\ UNCHANGED row
    /\ Onward(poll.batch)
    /\ UNCHANGED <<clock, lapsed, inbox, proc, active, stream, sender, late>>

\* Mutant: a callback is counted before it is turned away.
AdmitStreamCounted(d) ==
    /\ proc # "down" /\ stream[d] = "idle"
    /\ active' = active + 1
    /\ stream' = [stream EXCEPT ![d] = IF proc = "up" THEN "admitted" ELSE "over"]
    /\ UNCHANGED <<inbox, proc, poll, sender, late, relay, left>>

\* The process lives as long as its streams are served: one that was read and
\* decrypted is admitted or turned away, whatever the shutdown has reached.
AdmitStream(d) ==
    /\ proc # "down" /\ stream[d] = "idle"
    /\ \/ Admitted /\ stream' = [stream EXCEPT ![d] = "admitted"]
       \/ proc # "up" /\ stream' = [stream EXCEPT ![d] = "over"] /\ UNCHANGED active
    /\ UNCHANGED <<inbox, proc, poll, sender, late, relay, left>>

HandleStream(d) ==
    /\ stream[d] = "admitted"
    /\ \/ Receive(d) /\ UNCHANGED left
       \/ Mishap("fault") /\ UNCHANGED inbox
    /\ stream' = [stream EXCEPT ![d] = "over"]
    /\ active' = active - 1
    /\ UNCHANGED <<proc, poll, sender, late, relay>>

\* The connector acknowledges a message it has processed.
Consume(m) ==
    /\ proc # "down" /\ inbox[m] = "pending"
    /\ inbox' = [inbox EXCEPT ![m] = "consumed"]
    /\ UNCHANGED <<proc, active, poll, stream, sender, late, relay, left>>

-----------------------------------------------------------------------------
(* The recipient's shutdown.                                                *)

Cancel ==
    /\ proc = "up" /\ Mishap("stop")
    /\ proc' = "cancelled"
    /\ UNCHANGED <<inbox, active, poll, stream, sender, late, relay>>

\* The drain takes the admission lock,
StopAdmission ==
    /\ proc = "cancelled"
    /\ proc' = "stopped"
    /\ UNCHANGED <<inbox, active, poll, stream, sender, late, relay, left>>

\* and waits for the polling goroutine and for every callback before the caller
\* closes the mailbox.
Drain ==
    /\ proc = "stopped" /\ poll.pc = "idle" /\ active = 0
    /\ proc' = "drained"
    /\ UNCHANGED <<inbox, active, poll, stream, sender, late, relay, left>>

Gone(streams) == [d \in Direct |-> IF streams[d] = "over" THEN "over" ELSE "idle"]

\* The process ends, after the drain or in a crash: what is not in the database is lost.
Exit ==
    /\ proc # "down"
    /\ IF proc = "drained" THEN UNCHANGED left ELSE Mishap("stop")
    /\ proc' = "down" /\ active' = 0
    /\ poll' = Resting(1) /\ stream' = Gone(stream)
    /\ UNCHANGED <<inbox, sender, late, relay>>

Start ==
    /\ proc = "down"
    /\ proc' = "up"
    /\ UNCHANGED <<inbox, active, poll, stream, sender, late, relay, left>>

PollStep ==
    \/ Retrieve \/ Abandon \/ HandlePolled \/ AckRelay
    \/ \E id \in Id : Refuse(id) \/ AdmitPolled(id)

Shutdown == StopAdmission \/ Drain \/ (proc = "drained" /\ Exit) \/ Start

Next ==
    \/ \E m \in Message : Accept(m) \/ Deadline(m)
    \/ \E w \in Helper : DeliverNext(w) \/ CrashHelper(w)
    \/ \E n \in Relay : \/ Cleanup(n)
                        \/ \E f \in Foreign : StoreForeign(n, f)
                        \/ \E id \in Id : Age(n, id)
    \/ PollStep
    \/ \E d \in Direct : AdmitStream(d) \/ HandleStream(d)
    \/ \E m \in Message \cup Direct : Consume(m)
    \/ Cancel \/ Shutdown \/ Exit

Spec == Init /\ [][Next]_vars

\* runOutbox and pollMQDurable loop for ever, admitted callbacks return, and a
\* process that is stopped is started again.
FairSpec ==
    /\ Spec
    /\ \A w \in Helper : WF_vars(DeliverNext(w))
    /\ WF_vars(PollStep) /\ WF_vars(Shutdown)
    /\ \A d \in Direct : WF_vars(HandleStream(d))

-----------------------------------------------------------------------------
(* Properties.                                                              *)

\* mailbox.go:253-254: every copy of a message that leaves a helper, or is at a
\* relay, is the envelope its row was committed with, whichever helpers prepared
\* one and wherever they stopped; a relay never sees a conflict.
OneCiphertext ==
    /\ \A w \in Helper : worker[w].pc \in {"ready", "sending", "stored"}
          => worker[w].envelope = outbox[worker[w].m].envelope
    /\ \A m \in Message, n \in Relay : row[n][m].envelope \in {0, outbox[m].envelope}

\* durable_handler.go:22-23: a relay is told only of what the inbox has, and a
\* refused message is never acknowledged.
AcknowledgedIsDurable ==
    \A n \in Relay, id \in Id : row[n][id].read => id \in Message /\ inbox[id] # "none"

\* A message reported as queued is unread at a relay or in the recipient's inbox,
\* until its row outlives the retention: no lost answer, crash, shutdown or
\* acknowledgement leaves it nowhere.
QueuedIsKept ==
    \A m \in Message \ lapsed :
        outbox[m].status = "platform_queued"
          => inbox[m] # "none" \/ \E n \in Relay : m \in Unread(n)

\* Both ends of the custody of a message.
NothingLost == AcknowledgedIsDurable /\ QueuedIsKept

\* durable_handler.go:26-27: nothing is committed once the returned channel is
\* closed and the caller may have closed the inbox, whatever streams still run.
NoCommitAfterDrain ==
    [][\A m \in Message \cup Direct : inbox[m] = "none" /\ inbox'[m] # "none"
          => proc \notin {"drained", "down"}]_vars

\* What was reported is not taken back: a late attempt neither demotes a delivery
\* (mailbox.go:266) nor revives a message reported as expired, and what the
\* connector has consumed is not offered to it again, even if a relay stores and
\* delivers it once more after a cleanup.
ReportedStays ==
    [][/\ \A m \in Message : outbox[m].status \in {"platform_queued", "expired"}
             => outbox'[m].status = outbox[m].status
       /\ \A m \in Message \cup Direct : inbox[m] = "consumed" => inbox'[m] = "consumed"]_vars

\* Every accepted message is received at last, unless it is reported as expired or
\* its row outlives the retention: although requests fail, helpers stop, the
\* recipient is shut down, and fewer refused messages than a retrieval returns
\* stay at the relay.
AcceptedIsReceived ==
    \A m \in Message :
        outbox[m].status = "accepted"
          ~> inbox[m] # "none" \/ m \in lapsed \/ outbox[m].status = "expired"

\* A shutdown that has begun is completed: no callback is waited for that was not
\* admitted, and none is forgotten.
DrainEnds == proc = "cancelled" ~> proc \in {"drained", "down"}

=============================================================================
