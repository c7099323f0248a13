-------------------------- MODULE V1DeliveryProofs --------------------------
(***************************************************************************)
(* V1Delivery, for any messages, streams, helpers and relays, any limit of  *)
(* a retrieval, and any number of mishaps.                                  *)
(***************************************************************************)
EXTENDS V1Delivery, FiniteSetTheorems, TLAPS

-----------------------------------------------------------------------------
(* The invariant.                                                           *)

InHandler == {d \in Direct : stream[d] = "admitted"}

\* What a helper holds: past the commit it has the row's envelope, which is then there.
HoldInv ==
    \A w \in Helper :
      /\ worker[w].pc # "idle" => worker[w].m \in Message
      /\ worker[w].pc = "prepared" => worker[w].envelope # 0
      /\ worker[w].pc \in {"ready", "sending", "stored"} => worker[w].envelope # 0

\* A row that is not there has no marks; one that outlived its expiry unread is recorded.
RowInv ==
    \A n \in Relay, id \in Id :
      /\ row[n][id].envelope = 0 => ~row[n][id].read /\ ~row[n][id].old
      /\ row[n][id].old /\ ~row[n][id].read => id \in lapsed

Kept(m) == m \in lapsed \/ inbox[m] # "none" \/ \E n \in Relay : row[n][m].envelope # 0

\* What a relay has confirmed is kept, before the status says so and after.
KeptInv ==
    /\ \A w \in Helper : worker[w].pc = "stored" => Kept(worker[w].m)
    /\ \A m \in Message : outbox[m].status = "platform_queued" => Kept(m)

\* The poll has in hand a message it may commit, and acknowledges what it committed.
PollInv ==
    /\ poll.pc \in {"admitted", "committed"} => poll.id \in Message
    /\ poll.pc = "committed" => inbox[poll.id] # "none"

\* The WaitGroup counts the callbacks, and after the drain there are none.
CountInv ==
    /\ IsFiniteSet(InHandler)
    /\ active = Cardinality(InHandler) + IF poll.pc = "admitted" THEN 1 ELSE 0
    /\ proc \in {"drained", "down"} => poll.pc = "idle" /\ active = 0

DInv == TypeOK /\ OneCiphertext /\ HoldInv /\ RowInv /\ AcknowledgedIsDurable /\ KeptInv
        /\ PollInv /\ CountInv

-----------------------------------------------------------------------------
(* The initial states.                                                      *)

LEMMA DInit == Init => DInv
<1> SUFFICES ASSUME Init PROVE DInv
    OBVIOUS
<1>0. 1 \in Relay /\ Relay \subseteq Nat
    BY DeliveryAssumption DEF Relay
<1>1. TypeOK
  <2>1. outbox \in [Message -> [status : Status, envelope : Nat]]
      BY DEF Init, Status
  <2>2. worker \in [Helper -> [pc : {"idle", "late", "preparing", "prepared", "ready",
                                     "sending", "stored", "failed"},
                               m : Message \cup {None}, envelope : Nat, node : Relay]]
      BY <1>0 DEF Init, Idle
  <2>3. row \in [Relay -> [Id -> [envelope : Nat, at : Nat, read : BOOLEAN, old : BOOLEAN]]]
      BY DEF Init, NoRow, Fresh
  <2>4. poll \in [pc : {"idle", "batch", "admitted", "committed"}, node : Relay,
                  batch : SUBSET Id, id : Id \cup {None}]
      BY <1>0 DEF Init, Resting
  <2> QED
      BY <2>1, <2>2, <2>3, <2>4, DeliveryAssumption DEF TypeOK, Init
<1>2. \A n \in Relay, id \in Id : row[n][id] = NoRow
    BY DEF Init
<1>3. \A w \in Helper : worker[w].pc = "idle"
    BY DEF Init, Idle
<1>4. poll.pc = "idle"
    BY DEF Init, Resting
<1>5. OneCiphertext
    BY <1>2, <1>3 DEF OneCiphertext, NoRow, Fresh, Id
<1>6. HoldInv
    BY <1>3 DEF HoldInv
<1>7. RowInv
    BY <1>2 DEF RowInv, NoRow, Fresh
<1>8. AcknowledgedIsDurable
    BY <1>2 DEF AcknowledgedIsDurable, NoRow, Fresh
<1>9. KeptInv
    BY <1>3 DEF KeptInv, Init
<1>10. PollInv
    BY <1>4 DEF PollInv
<1>11. CountInv
  <2>1. InHandler = {}
      BY DEF InHandler, Init
  <2> QED
      BY <2>1, <1>4, FS_EmptySet DEF CountInv, Init
<1> QED
    BY <1>1, <1>5, <1>6, <1>7, <1>8, <1>9, <1>10, <1>11 DEF DInv

-----------------------------------------------------------------------------
(* Which actions change which part of the state.                            *)

OutboxStep ==
    \/ \E m \in Message : Accept(m)
    \/ \E w \in Helper : SaveEnvelope(w) \/ UpdateOutgoing(w)

WorkerStep ==
    \E w \in Helper : CrashHelper(w) \/ DeliverNext(w)

RelayStep ==
    \/ \E w \in Helper : Send(w)
    \/ \E n \in Relay : \/ Cleanup(n)
                        \/ \E f \in Foreign : StoreForeign(n, f)
                        \/ \E id \in Id : Age(n, id)
    \/ AckRelay

InboxStep ==
    \/ HandlePolled
    \/ \E d \in Direct : HandleStream(d)
    \/ \E m \in Message \cup Direct : Consume(m)

DrainStep ==
    \/ PollStep
    \/ \E d \in Direct : AdmitStream(d) \/ HandleStream(d)
    \/ Cancel \/ Shutdown \/ Exit

LEMMA Frames ==
    ASSUME [Next]_vars
    PROVE  /\ OutboxStep \/ UNCHANGED outbox
           /\ WorkerStep \/ UNCHANGED <<worker, made>>
           /\ RelayStep \/ UNCHANGED <<row, clock, lapsed>>
           /\ InboxStep \/ UNCHANGED inbox
           /\ DrainStep \/ UNCHANGED <<proc, active, poll, stream>>
<1>1. CASE UNCHANGED vars
    BY <1>1 DEF vars, sender, relay, recipient
<1>2. CASE \E m \in Message : Accept(m) \/ Deadline(m)
    BY <1>2 DEF Accept, Deadline, OutboxStep, sender, relay, recipient
<1>3. CASE \E w \in Helper : DeliverNext(w) \/ CrashHelper(w)
  <2>1. PICK w \in Helper : DeliverNext(w) \/ CrashHelper(w)
      BY <1>3
  <2>2. /\ WorkerStep /\ UNCHANGED <<inbox, proc, active, poll, stream>>
      BY <2>1 DEF DeliverNext, Pick, Prepare, SaveEnvelope, Check, Send, UpdateOutgoing,
                  CrashHelper, WorkerStep, recipient
  <2>3. OutboxStep \/ UNCHANGED outbox
      BY <2>1 DEF DeliverNext, Pick, Prepare, Check, Send, CrashHelper, OutboxStep
  <2>4. RelayStep \/ UNCHANGED <<row, clock, lapsed>>
      BY <2>1 DEF DeliverNext, Pick, Prepare, SaveEnvelope, Check, UpdateOutgoing,
                  CrashHelper, RelayStep, relay
  <2> QED
      BY <2>2, <2>3, <2>4
<1>4. CASE \E n \in Relay : \/ Cleanup(n)
                            \/ \E f \in Foreign : StoreForeign(n, f)
                            \/ \E id \in Id : Age(n, id)
    BY <1>4 DEF Cleanup, StoreForeign, Age, RelayStep, sender, recipient
<1>5. CASE PollStep
    BY <1>5 DEF PollStep, Retrieve, Abandon, HandlePolled, AckRelay, Refuse, AdmitPolled,
                RelayStep, InboxStep, DrainStep, sender, relay
<1>6. CASE \E d \in Direct : AdmitStream(d) \/ HandleStream(d)
    BY <1>6 DEF AdmitStream, HandleStream, InboxStep, DrainStep,
                sender, relay
<1>7. CASE \E m \in Message \cup Direct : Consume(m)
    BY <1>7 DEF Consume, InboxStep, sender, relay
<1>8. CASE Cancel \/ Shutdown \/ Exit
    BY <1>8 DEF Cancel, Shutdown, StopAdmission, Drain, Exit, Start, DrainStep, sender, relay
<1> QED
    BY <1>1, <1>2, <1>3, <1>4, <1>5, <1>6, <1>7, <1>8 DEF Next

-----------------------------------------------------------------------------
(* The count of callbacks.                                                  *)

LEMMA OnwardPc ==
    ASSUME TypeOK, NEW rest, Onward(rest)
    PROVE  poll'.pc \in {"idle", "batch"}
BY DEF Onward, Resting, TypeOK

\* The WaitGroup is the number of callbacks that run, through every admission, end,
\* failure, drain and crash.
LEMMA CountStep ==
    ASSUME TypeOK, CountInv, [Next]_vars
    PROVE  CountInv' /\ active' \in Nat
<1> DEFINE polled == IF poll.pc = "admitted" THEN 1 ELSE 0
<1>0. /\ IsFiniteSet(InHandler) /\ Cardinality(InHandler) \in Nat
      /\ active = Cardinality(InHandler) + polled
      /\ stream \in [Direct -> {"idle", "admitted", "over"}]
      /\ active \in Nat
      /\ poll \in [pc : {"idle", "batch", "admitted", "committed"}, node : Relay,
                   batch : SUBSET Id, id : Id \cup {None}]
    BY FS_CardinalityType DEF CountInv, TypeOK
<1>1. ASSUME proc \in {"drained", "down"} PROVE poll.pc = "idle" /\ active = 0 /\ InHandler = {}
    BY <1>0, <1>1, FS_EmptySet DEF CountInv
<1>2. ASSUME stream' = stream PROVE InHandler' = InHandler
    BY <1>2 DEF InHandler
<1>3. CASE UNCHANGED <<proc, active, poll, stream>>
    BY <1>0, <1>2, <1>3 DEF CountInv
<1>4. CASE PollStep
  <2>1. InHandler' = InHandler
      BY <1>2, <1>4 DEF PollStep, Retrieve, Abandon, HandlePolled, AckRelay, Refuse, AdmitPolled
  <2>2. proc' = proc
      BY <1>4 DEF PollStep, Retrieve, Abandon, HandlePolled, AckRelay, Refuse, AdmitPolled
  <2>3. CASE Retrieve \/ AckRelay
    <3>1. poll'.pc \in {"idle", "batch"} /\ active' = active /\ poll.pc # "admitted"
        BY <2>3, OnwardPc DEF Retrieve, AckRelay
    <3>2. proc \notin {"drained", "down"}
        BY <1>1, <2>3 DEF Retrieve, AckRelay
    <3> QED
        BY <1>0, <2>1, <2>2, <3>1, <3>2 DEF CountInv
  <2>4. CASE Abandon
      BY <1>0, <1>1, <2>1, <2>2, <2>4 DEF CountInv, Abandon, Resting
  <2>5. CASE HandlePolled
    <3>1. poll'.pc # "admitted" /\ active' = active - 1 /\ poll.pc = "admitted"
        BY <1>0, <2>5, OnwardPc DEF HandlePolled
    <3>2. proc \notin {"drained", "down"}
        BY <1>1, <3>1
    <3> QED
        BY <1>0, <2>1, <2>2, <3>1, <3>2 DEF CountInv
  <2>6. CASE \E id \in Id : Refuse(id)
      BY <1>0, <1>1, <2>1, <2>2, <2>6 DEF CountInv, Refuse, Onward, Resting
  <2>7. CASE \E id \in Id : AdmitPolled(id)
      BY <1>0, <1>1, <2>1, <2>2, <2>7 DEF CountInv, AdmitPolled, Admitted
  <2> QED
      BY <1>4, <2>3, <2>4, <2>5, <2>6, <2>7 DEF PollStep
<1>5. ASSUME NEW d \in Direct, AdmitStream(d) \/ HandleStream(d)
      PROVE  CountInv' /\ active' \in Nat
  <2>1. poll' = poll /\ proc' = proc
      BY <1>5 DEF AdmitStream, HandleStream
  <2>3. CASE AdmitStream(d) /\ proc # "up"
    <3>1. InHandler' = InHandler /\ active' = active
        BY <1>0, <2>3 DEF AdmitStream, Admitted, InHandler
    <3> QED
        BY <1>0, <2>1, <3>1 DEF CountInv
  <2>4. CASE AdmitStream(d) /\ proc = "up"
    <3>1. d \notin InHandler /\ InHandler' = InHandler \cup {d} /\ active' = active + 1
        BY <1>0, <2>4 DEF AdmitStream, Admitted, InHandler
    <3>2. IsFiniteSet(InHandler') /\ Cardinality(InHandler') = Cardinality(InHandler) + 1
        BY <1>0, <3>1, FS_AddElement
    <3> QED
        BY <1>0, <2>1, <2>4, <3>1, <3>2 DEF CountInv
  <2>5. CASE HandleStream(d)
    <3>1. d \in InHandler /\ InHandler' = InHandler \ {d} /\ active' = active - 1
        BY <1>0, <2>5 DEF HandleStream, InHandler
    <3>2. IsFiniteSet(InHandler') /\ Cardinality(InHandler') = Cardinality(InHandler) - 1
          /\ Cardinality(InHandler') \in Nat
        BY <1>0, <3>1, FS_RemoveElement, FS_CardinalityType
    <3> QED
        BY <1>0, <1>1, <2>1, <3>1, <3>2 DEF CountInv
  <2> QED
      BY <1>5, <2>3, <2>4, <2>5
<1>6. CASE Cancel \/ StopAdmission \/ Drain \/ Start
    BY <1>0, <1>1, <1>2, <1>6 DEF CountInv, Cancel, StopAdmission, Drain, Start
<1>7. CASE Exit
  <2>1. InHandler' = {}
      BY <1>0, <1>7 DEF Exit, Gone, InHandler
  <2> QED
      BY <1>7, <2>1, FS_EmptySet DEF Exit, CountInv, Resting
<1> QED
    BY <1>3, <1>4, <1>5, <1>6, <1>7, Frames DEF DrainStep, Shutdown

-----------------------------------------------------------------------------
(* Types.                                                                   *)

LEMMA SenderTypes ==
    ASSUME TypeOK, HoldInv, [Next]_vars
    PROVE  /\ outbox' \in [Message -> [status : Status, envelope : Nat]]
           /\ worker' \in [Helper -> [pc : {"idle", "late", "preparing", "prepared", "ready",
                                            "sending", "stored", "failed"},
                                     m : Message \cup {None}, envelope : Nat, node : Relay]]
<1> DEFINE Worker == [pc : {"idle", "late", "preparing", "prepared", "ready", "sending",
                            "stored", "failed"},
                      m : Message \cup {None}, envelope : Nat, node : Relay]
           Row == [status : Status, envelope : Nat]
<1>0. /\ outbox \in [Message -> Row] /\ worker \in [Helper -> Worker] /\ made \in Nat
      /\ 1 \in Relay
    BY DeliveryAssumption DEF TypeOK, Relay
<1>1. outbox' \in [Message -> Row]
  <2>1. CASE \E m \in Message : Accept(m)
      BY <1>0, <2>1 DEF Accept, Status
  <2>2. ASSUME NEW w \in Helper, SaveEnvelope(w) PROVE outbox' \in [Message -> Row]
    <3>1. worker[w].m \in Message /\ worker[w].envelope \in Nat
        BY <1>0, <2>2 DEF HoldInv, SaveEnvelope
    <3> QED
        BY <1>0, <2>2, <3>1 DEF SaveEnvelope
  <2>3. ASSUME NEW w \in Helper, UpdateOutgoing(w) PROVE outbox' \in [Message -> Row]
    <3> DEFINE m == worker[w].m
               st == Outcome(worker[w].pc)
    <3>1. m \in Message /\ st \in Status
        BY <2>3 DEF HoldInv, UpdateOutgoing, Outcome, Status
    <3>2. outbox' = outbox \/ outbox' = [outbox EXCEPT ![m].status = st]
        BY <2>3 DEF UpdateOutgoing
    <3>3. [outbox[m] EXCEPT !.status = st] \in Row
        BY <1>0, <3>1
    <3> QED
        BY <1>0, <3>1, <3>2, <3>3
  <2> QED
      BY <1>0, <2>1, <2>2, <2>3, Frames DEF OutboxStep
<1>2. ASSUME NEW w \in Helper, WorkerStep, CrashHelper(w) \/ DeliverNext(w)
      PROVE  worker' \in [Helper -> Worker]
  <2>0. worker[w] \in Worker
      BY <1>0
  <2>1. CASE CrashHelper(w) \/ UpdateOutgoing(w)
      BY <1>0, <2>1 DEF CrashHelper, UpdateOutgoing, Idle
  <2>2. ASSUME NEW m \in Message, Pick(w, m) PROVE worker' \in [Helper -> Worker]
    <3>1. outbox[m].envelope \in Nat
        BY <1>0
    <3> QED
        BY <1>0, <2>2, <3>1 DEF Pick, Idle
  <2>3. CASE Prepare(w)
      BY <1>0, <2>3 DEF Prepare
  <2>4. CASE SaveEnvelope(w)
    <3>1. worker[w].m \in Message /\ outbox[worker[w].m].envelope \in Nat
        BY <1>0, <2>4 DEF HoldInv, SaveEnvelope
    <3>2. PICK e \in Nat : worker' = [worker EXCEPT ![w].pc = "ready", ![w].envelope = e]
        BY <2>0, <2>4, <3>1 DEF SaveEnvelope
    <3>3. [worker[w] EXCEPT !.pc = "ready", !.envelope = e] \in Worker
        BY <2>0
    <3>4. worker' = [worker EXCEPT ![w] = [worker[w] EXCEPT !.pc = "ready", !.envelope = e]]
        BY <1>0, <3>2
    <3> QED
        BY <1>0, <3>3, <3>4
  <2>5. CASE Check(w)
      BY <1>0, <2>5 DEF Check
  <2>6. ASSUME Elsewhere(w) PROVE worker' \in [Helper -> Worker]
    <3>1. worker[w].node < Nodes => worker[w].node + 1 \in Relay
        BY <2>0, DeliveryAssumption DEF Relay
    <3> QED
        BY <1>0, <2>0, <2>6, <3>1 DEF Elsewhere
  <2>7. CASE Send(w)
      BY <1>0, <2>6, <2>7 DEF Send
  <2> QED
      BY <1>2, <2>1, <2>2, <2>3, <2>4, <2>5, <2>7 DEF DeliverNext
<1> QED
    BY <1>0, <1>1, <1>2, Frames DEF WorkerStep

Row == [envelope : Nat, at : Nat, read : BOOLEAN, old : BOOLEAN]

\* A row is replaced, and no other one.
LEMMA RowUpdate ==
    ASSUME row \in [Relay -> [Id -> Row]], NEW n \in Relay, NEW id \in Id, NEW r \in Row,
           row' = [row EXCEPT ![n][id] = r]
    PROVE  /\ row' \in [Relay -> [Id -> Row]]
           /\ row'[n][id] = r
           /\ \A k \in Relay, j \in Id : k # n \/ j # id => row'[k][j] = row[k][j]
<1>1. row[n] \in [Id -> Row]
    OBVIOUS
<1>2. [row[n] EXCEPT ![id] = r] \in [Id -> Row]
    BY <1>1
<1>3. row' = [row EXCEPT ![n] = [row[n] EXCEPT ![id] = r]]
    OBVIOUS
<1> QED
    BY <1>1, <1>2, <1>3

\* What becomes of the row in each step of a relay.
LEMMA StoreEffect ==
    ASSUME TypeOK, NEW n \in Relay, NEW id \in Id, NEW e \in Nat, StoreEnvelope(n, id, e)
    PROVE  /\ row' \in [Relay -> [Id -> Row]] /\ clock' \in [Relay -> Nat] /\ lapsed' = lapsed
           /\ row'[n][id].envelope = e
           /\ IF row[n][id].envelope = 0 THEN ~row'[n][id].read /\ ~row'[n][id].old
                                        ELSE row'[n][id] = row[n][id]
           /\ \A k \in Relay, j \in Id : k # n \/ j # id => row'[k][j] = row[k][j]
<1>1. row \in [Relay -> [Id -> Row]] /\ clock \in [Relay -> Nat]
    BY DEF TypeOK, Row
<1>2. CASE row[n][id].envelope # 0
    BY <1>1, <1>2 DEF StoreEnvelope
<1>3. CASE row[n][id].envelope = 0
  <2> DEFINE r == Fresh(e, clock[n] + 1)
  <2>1. clock[n] + 1 \in Nat
      BY <1>1
  <2>2. r \in Row /\ r.envelope = e /\ ~r.read /\ ~r.old
      BY <2>1 DEF Row, Fresh
  <2>3. row' = [row EXCEPT ![n][id] = r] /\ clock' = [clock EXCEPT ![n] = @ + 1]
        /\ lapsed' = lapsed
      BY <1>3 DEF StoreEnvelope
  <2>4. /\ row' \in [Relay -> [Id -> Row]] /\ row'[n][id] = r
        /\ \A k \in Relay, j \in Id : k # n \/ j # id => row'[k][j] = row[k][j]
    <3> HIDE DEF r
    <3> QED
        BY <1>1, <2>2, <2>3, RowUpdate
  <2>5. clock' \in [Relay -> Nat]
      BY <1>1, <2>3 
  <2>6. row'[n][id].envelope = e /\ ~row'[n][id].read /\ ~row'[n][id].old
    <3> HIDE DEF r
    <3> QED
        BY <2>2, <2>4
  <2> QED
      BY <1>3, <2>3, <2>4, <2>5, <2>6
<1> QED
    BY <1>2, <1>3

LEMMA AgeEffect ==
    ASSUME TypeOK, NEW n \in Relay, NEW id \in Id, Age(n, id)
    PROVE  /\ row' \in [Relay -> [Id -> Row]] /\ clock' = clock
           /\ row[n][id].envelope # 0 /\ row'[n][id].old
           /\ row'[n][id].envelope = row[n][id].envelope
           /\ row'[n][id].read = row[n][id].read
           /\ lapsed' = IF row[n][id].read THEN lapsed ELSE lapsed \cup {id}
           /\ \A k \in Relay, j \in Id : k # n \/ j # id => row'[k][j] = row[k][j]
<1> DEFINE r == [row[n][id] EXCEPT !.old = TRUE]
<1>1. row \in [Relay -> [Id -> Row]] /\ row[n][id] \in Row
    BY DEF TypeOK, Row
<1>2. /\ r \in Row /\ r.old /\ r.envelope = row[n][id].envelope /\ r.read = row[n][id].read
    BY <1>1 DEF Row
<1>3. row' = [row EXCEPT ![n][id] = r]
    BY DEF Age
<1>4. /\ row' \in [Relay -> [Id -> Row]] /\ row'[n][id] = r
      /\ \A k \in Relay, j \in Id : k # n \/ j # id => row'[k][j] = row[k][j]
  <2> HIDE DEF r
  <2> QED
      BY <1>1, <1>2, <1>3, RowUpdate
<1> QED
    BY <1>2, <1>4 DEF Age

LEMMA AckEffect ==
    ASSUME TypeOK, PollInv, AckRelay
    PROVE  \E n \in Relay, id \in Message :
             /\ poll.pc = "committed" /\ n = poll.node /\ id = poll.id
             /\ row' \in [Relay -> [Id -> Row]] /\ clock' = clock /\ lapsed' = lapsed
             /\ row'[n][id].envelope = row[n][id].envelope
             /\ row'[n][id].old = row[n][id].old
             /\ \/ row'[n][id].read = row[n][id].read
                \/ row'[n][id].read = (row[n][id].envelope # 0)
             /\ \A k \in Relay, j \in Id : k # n \/ j # id => row'[k][j] = row[k][j]
<1> DEFINE n == poll.node
           id == poll.id
           r == [row[n][id] EXCEPT !.read = row[n][id].envelope # 0]
<1>1. n \in Relay /\ id \in Message /\ id \in Id /\ poll.pc = "committed"
    BY DEF AckRelay, PollInv, TypeOK, Id
<1>2. row \in [Relay -> [Id -> Row]] /\ row[n][id] \in Row
    BY <1>1 DEF TypeOK, Row
<1>3. CASE row' = row
    BY <1>1, <1>2, <1>3 DEF AckRelay
<1>4. CASE row' # row
  <2>1. r \in Row /\ r.envelope = row[n][id].envelope /\ r.old = row[n][id].old
        /\ r.read = (row[n][id].envelope # 0)
      BY <1>2 DEF Row
  <2>2. row' = [row EXCEPT ![n][id] = r]
      BY <1>4 DEF AckRelay
  <2>3. /\ row' \in [Relay -> [Id -> Row]] /\ row'[n][id] = r
        /\ \A k \in Relay, j \in Id : k # n \/ j # id => row'[k][j] = row[k][j]
    <3> HIDE DEF r, n, id
    <3> QED
        BY <1>1, <1>2, <2>1, <2>2, RowUpdate
  <2>4. clock' = clock /\ lapsed' = lapsed
      BY DEF AckRelay
  <2>5. row'[n][id].envelope = row[n][id].envelope /\ row'[n][id].old = row[n][id].old
        /\ row'[n][id].read = (row[n][id].envelope # 0)
    <3> HIDE DEF r, n, id
    <3> QED
        BY <2>1, <2>3
  <2> HIDE DEF r
  <2> QED
      BY <1>1, <2>3, <2>4, <2>5
<1> QED
    BY <1>3, <1>4

LEMMA RelayTypes ==
    ASSUME TypeOK, HoldInv, PollInv, [Next]_vars
    PROVE  /\ row' \in [Relay -> [Id -> Row]]
           /\ clock' \in [Relay -> Nat]
           /\ lapsed' \subseteq Id
<1> DEFINE Typed == /\ row' \in [Relay -> [Id -> Row]]
                    /\ clock' \in [Relay -> Nat]
                    /\ lapsed' \subseteq Id
<1>0. row \in [Relay -> [Id -> Row]] /\ clock \in [Relay -> Nat] /\ lapsed \subseteq Id
    BY DEF TypeOK, Row
<1>1. ASSUME NEW n \in Relay, NEW id \in Id, NEW e \in Nat, StoreEnvelope(n, id, e) PROVE Typed
    BY <1>0, <1>1, StoreEffect
<1>2. ASSUME NEW w \in Helper, Send(w) PROVE Typed
  <2>1. worker[w].m \in Id /\ worker[w].node \in Relay /\ worker[w].envelope \in Nat
      BY <1>2 DEF TypeOK, HoldInv, Send, Id
  <2> QED
      BY <1>0, <1>1, <1>2, <2>1 DEF Send, relay
<1>3. ASSUME NEW n \in Relay, NEW f \in Foreign, StoreForeign(n, f) PROVE Typed
    BY <1>1, <1>3 DEF StoreForeign, Id
<1>4. ASSUME NEW n \in Relay, NEW id \in Id, Age(n, id) PROVE Typed
    BY <1>0, <1>4, AgeEffect
<1>5. ASSUME NEW n \in Relay, Cleanup(n) PROVE Typed
    BY <1>0, <1>5 DEF Cleanup, NoRow, Fresh, Row
<1>6. CASE AckRelay
    BY <1>0, <1>6, AckEffect
<1> QED
    BY <1>0, <1>2, <1>3, <1>4, <1>5, <1>6, Frames DEF RelayStep

LEMMA RecipientTypes ==
    ASSUME TypeOK, PollInv, [Next]_vars
    PROVE  /\ inbox' \in [Message \cup Direct -> {"none", "pending", "consumed"}]
           /\ proc' \in {"up", "cancelled", "stopped", "drained", "down"}
           /\ poll' \in [pc : {"idle", "batch", "admitted", "committed"}, node : Relay,
                         batch : SUBSET Id, id : Id \cup {None}]
           /\ stream' \in [Direct -> {"idle", "admitted", "over"}]
<1> DEFINE Poll == [pc : {"idle", "batch", "admitted", "committed"}, node : Relay,
                    batch : SUBSET Id, id : Id \cup {None}]
<1>0. /\ inbox \in [Message \cup Direct -> {"none", "pending", "consumed"}]
      /\ proc \in {"up", "cancelled", "stopped", "drained", "down"}
      /\ poll \in Poll
      /\ stream \in [Direct -> {"idle", "admitted", "over"}]
      /\ 1 \in Relay
    BY DeliveryAssumption DEF TypeOK, Relay
<1>1. inbox' \in [Message \cup Direct -> {"none", "pending", "consumed"}]
    BY <1>0, Frames DEF InboxStep, HandlePolled, HandleStream, Consume, Receive
<1>2. proc' \in {"up", "cancelled", "stopped", "drained", "down"}
    BY <1>0, Frames DEF DrainStep, PollStep, Retrieve, Abandon, HandlePolled, AckRelay, Refuse,
       AdmitPolled, AdmitStream, HandleStream, Cancel, Shutdown,
       StopAdmission, Drain, Exit, Start
<1>3. ASSUME NEW rest \in SUBSET Id, Onward(rest) PROVE poll' \in Poll
  <2>1. NextRelay(poll.node) \in Relay
      BY <1>0, DeliveryAssumption DEF NextRelay, Relay
  <2> QED
      BY <1>0, <1>3, <2>1 DEF Onward, Resting
<1>4. poll' \in Poll
  <2>1. CASE PollStep
    <3>1. CASE Retrieve
        BY <1>3, <3>1 DEF Retrieve, Retrieved, Unread
    <3>2. CASE Abandon
        BY <1>0, <3>2 DEF Abandon, Resting
    <3>3. CASE HandlePolled
        BY <1>0, <1>3, <3>3 DEF HandlePolled
    <3>4. CASE AckRelay
        BY <1>0, <1>3, <3>4 DEF AckRelay
    <3>5. ASSUME NEW id \in Id, Refuse(id) PROVE poll' \in Poll
        BY <1>0, <1>3, <3>5 DEF Refuse
    <3>6. ASSUME NEW id \in Id, AdmitPolled(id) PROVE poll' \in Poll
        BY <1>0, <3>6 DEF AdmitPolled
    <3> QED
        BY <2>1, <3>1, <3>2, <3>3, <3>4, <3>5, <3>6 DEF PollStep
  <2>2. CASE Exit
      BY <1>0, <2>2 DEF Exit, Resting
  <2>3. CASE \/ \E d \in Direct : AdmitStream(d) \/ HandleStream(d)
             \/ Cancel \/ StopAdmission \/ Drain \/ Start
      BY <1>0, <2>3 DEF AdmitStream, HandleStream, Cancel,
         StopAdmission, Drain, Start
  <2> QED
      BY <1>0, <2>1, <2>2, <2>3, Frames DEF DrainStep, Shutdown
<1>5. stream' \in [Direct -> {"idle", "admitted", "over"}]
  <2>1. CASE PollStep \/ Cancel \/ StopAdmission \/ Drain \/ Start
      BY <1>0, <2>1 DEF PollStep, Retrieve, Abandon, HandlePolled, AckRelay, Refuse,
         AdmitPolled, Cancel, StopAdmission, Drain, Start
  <2>2. CASE Exit
      BY <1>0, <2>2 DEF Exit, Gone
  <2>3. CASE \E d \in Direct : AdmitStream(d) \/ HandleStream(d)
      BY <1>0, <2>3 DEF AdmitStream, HandleStream
  <2> QED
      BY <1>0, <2>1, <2>2, <2>3, Frames DEF DrainStep, Shutdown
<1> QED
    BY <1>1, <1>2, <1>4, <1>5

LEMMA TypeStep ==
    ASSUME TypeOK, HoldInv, PollInv, CountInv, [Next]_vars
    PROVE  TypeOK'
<1>1. made' \in Nat
  <2>1. made' \in {made, made + 1}
      BY Frames DEF WorkerStep, CrashHelper, DeliverNext, Pick, Prepare, SaveEnvelope, Check,
         Send, UpdateOutgoing
  <2> QED
      BY <2>1 DEF TypeOK
<1>2. late' \subseteq Deadlined
    BY DEF TypeOK, Next, vars, sender, relay, recipient, Accept, Deadline, DeliverNext, Pick,
       Prepare, SaveEnvelope, Check, Send, UpdateOutgoing, CrashHelper, Cleanup, StoreForeign,
       Age, PollStep, Retrieve, Abandon, HandlePolled, AckRelay, Refuse, AdmitPolled, 
       AdmitStream, HandleStream, Consume, Cancel, Shutdown, StopAdmission, Drain,
       Exit, Start
<1>3. left' \in [Kind -> Nat]
  <2>1. ASSUME NEW k \in Kind, Mishap(k) PROVE left' \in [Kind -> Nat]
      BY <2>1 DEF Mishap, TypeOK
  <2>2. left' = left \/ \E k \in Kind : Mishap(k)
      BY DEF Kind, Next, vars, sender, relay, recipient, Accept, Deadline, DeliverNext, Pick,
         Prepare, SaveEnvelope, Check, Send, UpdateOutgoing, CrashHelper, Cleanup, StoreForeign,
         Age, PollStep, Retrieve, Abandon, HandlePolled, AckRelay, Refuse, AdmitPolled,
         AdmitStream, HandleStream, Consume, Cancel, Shutdown,
         StopAdmission, Drain, Exit, Start
  <2> QED
      BY <2>1, <2>2 DEF TypeOK
<1>4. row' \in [Relay -> [Id -> [envelope : Nat, at : Nat, read : BOOLEAN, old : BOOLEAN]]]
    BY RelayTypes DEF Row
<1> QED
    BY <1>1, <1>2, <1>3, <1>4, SenderTypes, RelayTypes, RecipientTypes, CountStep DEF TypeOK

-----------------------------------------------------------------------------
(* The sender: one envelope for each message.                               *)

\* The envelope of a row is set once.
LEMMA EnvelopeStays ==
    ASSUME TypeOK, [Next]_vars, NEW m \in Message, outbox[m].envelope # 0
    PROVE  outbox'[m].envelope = outbox[m].envelope
<1>0. outbox \in [Message -> [status : Status, envelope : Nat]]
    BY DEF TypeOK
<1>1. CASE \E k \in Message : Accept(k)
    BY <1>0, <1>1 DEF Accept
<1>2. ASSUME NEW w \in Helper, SaveEnvelope(w) PROVE outbox'[m].envelope = outbox[m].envelope
    BY <1>0, <1>2 DEF SaveEnvelope
<1>3. ASSUME NEW w \in Helper, UpdateOutgoing(w) PROVE outbox'[m].envelope = outbox[m].envelope
    BY <1>0, <1>3 DEF UpdateOutgoing
<1> QED
    BY <1>1, <1>2, <1>3, Frames DEF OutboxStep

\* What one helper may come to hold, and that the others hold what they held.
LEMMA HelperStep ==
    ASSUME TypeOK, HoldInv, NEW w \in Helper, CrashHelper(w) \/ DeliverNext(w),
           NEW v \in Helper, worker'[v].pc # "idle"
    PROVE  /\ worker'[v].m \in Message
           /\ worker'[v].pc = "prepared" => worker'[v].envelope # 0
           /\ \/ worker'[v].pc \notin {"ready", "sending", "stored"}
              \/ /\ worker[v].pc \in {"ready", "sending", "stored"}
                 /\ worker'[v].m = worker[v].m /\ worker'[v].envelope = worker[v].envelope
              \/ /\ worker'[v].envelope # 0
                 /\ worker'[v].envelope = outbox'[worker'[v].m].envelope
<1> DEFINE Goal == /\ worker'[v].m \in Message
                   /\ worker'[v].pc = "prepared" => worker'[v].envelope # 0
                   /\ \/ worker'[v].pc \notin {"ready", "sending", "stored"}
                      \/ /\ worker[v].pc \in {"ready", "sending", "stored"}
                         /\ worker'[v].m = worker[v].m
                         /\ worker'[v].envelope = worker[v].envelope
                      \/ /\ worker'[v].envelope # 0
                         /\ worker'[v].envelope = outbox'[worker'[v].m].envelope
<1>0. /\ outbox \in [Message -> [status : Status, envelope : Nat]] /\ made \in Nat
      /\ worker \in [Helper -> [pc : {"idle", "late", "preparing", "prepared", "ready",
                                     "sending", "stored", "failed"},
                               m : Message \cup {None}, envelope : Nat, node : Relay]]
    BY DEF TypeOK
<1>1. CASE worker'[v] = worker[v]
    BY <1>0, <1>1 DEF HoldInv
<1>2. CASE v # w
    BY <1>0, <1>1, <1>2 DEF CrashHelper, DeliverNext, Pick, Prepare, SaveEnvelope, Check, Send,
       Elsewhere, UpdateOutgoing
<1>3. CASE v = w
  <2>1. CASE CrashHelper(w) \/ UpdateOutgoing(w)
      BY <1>0, <1>3, <2>1 DEF CrashHelper, UpdateOutgoing, Idle
  <2>2. CASE \E m \in Message : Pick(w, m)
      BY <1>0, <1>3, <2>2 DEF Pick, Idle
  <2>3. CASE Prepare(w)
      BY <1>0, <1>3, <2>3 DEF Prepare, HoldInv
  <2>4. CASE SaveEnvelope(w)
    <3>1. worker[w].m \in Message /\ worker[w].envelope # 0
        BY <2>4 DEF SaveEnvelope, HoldInv
    <3> QED
        BY <1>0, <1>3, <2>4, <3>1 DEF SaveEnvelope
  <2>5. CASE Check(w)
      BY <1>0, <1>3, <2>5 DEF Check, HoldInv
  <2>6. CASE Send(w)
      BY <1>0, <1>3, <2>6 DEF Send, Elsewhere, HoldInv
  <2> QED
      BY <2>1, <2>2, <2>3, <2>4, <2>5, <2>6 DEF DeliverNext
<1> QED
    BY <1>2, <1>3

LEMMA HoldStep ==
    ASSUME TypeOK, HoldInv, OneCiphertext, [Next]_vars
    PROVE  /\ HoldInv'
           /\ \A v \in Helper : worker'[v].pc \in {"ready", "sending", "stored"}
                 => worker'[v].envelope = outbox'[worker'[v].m].envelope
<1>1. CASE worker' = worker
    BY <1>1, EnvelopeStays DEF HoldInv, OneCiphertext
<1>2. ASSUME NEW w \in Helper, CrashHelper(w) \/ DeliverNext(w), NEW v \in Helper,
             worker'[v].pc # "idle"
      PROVE  /\ worker'[v].m \in Message
             /\ worker'[v].pc = "prepared" => worker'[v].envelope # 0
             /\ worker'[v].pc \in {"ready", "sending", "stored"} =>
                  /\ worker'[v].envelope # 0
                  /\ worker'[v].envelope = outbox'[worker'[v].m].envelope
    BY <1>2, HelperStep, EnvelopeStays DEF HoldInv, OneCiphertext
<1> QED
    BY <1>1, <1>2, Frames DEF WorkerStep, HoldInv

\* What a relay stores of a message is what its helper holds.
LEMMA SendEffect ==
    ASSUME TypeOK, HoldInv, NEW w \in Helper, Send(w)
    PROVE  \/ UNCHANGED relay
           \/ /\ worker[w].pc = "sending"
              /\ worker[w].node \in Relay /\ worker[w].m \in Message /\ worker[w].m \in Id
              /\ worker[w].envelope \in Nat \ {0}
              /\ StoreEnvelope(worker[w].node, worker[w].m, worker[w].envelope)
BY DEF Send, TypeOK, HoldInv, Id

LEMMA CiphertextStep ==
    ASSUME TypeOK, HoldInv, PollInv, OneCiphertext, [Next]_vars
    PROVE  OneCiphertext'
<1> DEFINE Same(n, m) == row'[n][m].envelope \in {0, outbox[m].envelope}
<1>1. ASSUME NEW n \in Relay, NEW m \in Message PROVE Same(n, m)
  <2>0. m \in Id /\ m \notin Foreign /\ row[n][m].envelope \in {0, outbox[m].envelope}
        /\ row \in [Relay -> [Id -> Row]]
      BY DeliveryAssumption DEF Id, OneCiphertext, TypeOK, Row
  <2>1. CASE row' = row
      BY <2>0, <2>1
  <2>2. ASSUME NEW w \in Helper, Send(w), row' # row PROVE Same(n, m)
    <3>1. /\ worker[w].node \in Relay /\ worker[w].m \in Message /\ worker[w].m \in Id
          /\ worker[w].envelope \in Nat
          /\ StoreEnvelope(worker[w].node, worker[w].m, worker[w].envelope)
          /\ worker[w].envelope = outbox[worker[w].m].envelope
        BY <2>2, SendEffect DEF relay, OneCiphertext
    <3> QED
        BY <2>0, <3>1, StoreEffect
  <2>3. ASSUME NEW k \in Relay, NEW f \in Foreign, StoreForeign(k, f) PROVE Same(n, m)
    <3>1. StoreEnvelope(k, f, 1) /\ f \in Id /\ 1 \in Nat
        BY <2>3 DEF StoreForeign, Id
    <3> QED
        BY <2>0, <3>1, StoreEffect
  <2>4. ASSUME NEW k \in Relay, NEW id \in Id, Age(k, id) PROVE Same(n, m)
      BY <2>0, <2>4, AgeEffect
  <2>5. ASSUME NEW k \in Relay, Cleanup(k) PROVE Same(n, m)
      BY <2>0, <2>5 DEF Cleanup, NoRow, Fresh
  <2>6. CASE AckRelay
      BY <2>0, <2>6, AckEffect DEF Id
  <2> QED
      BY <2>1, <2>2, <2>3, <2>4, <2>5, <2>6, Frames DEF RelayStep
<1>2. ASSUME NEW n \in Relay, NEW m \in Message
      PROVE  row'[n][m].envelope \in {0, outbox'[m].envelope}
    BY <1>1, EnvelopeStays
<1> QED
    BY <1>2, HoldStep DEF OneCiphertext

-----------------------------------------------------------------------------
(* The relays: what they confirmed is kept.                                 *)

\* The inbox only gains messages.
LEMMA InboxStays ==
    ASSUME TypeOK, PollInv, [Next]_vars, NEW m \in Message \cup Direct, inbox[m] # "none"
    PROVE  inbox'[m] # "none"
BY Frames DEF TypeOK, InboxStep, HandlePolled, HandleStream, Consume, Receive

\* So does the record of rows that outlived their expiry unread.
LEMMA LapsedStays ==
    ASSUME [Next]_vars PROVE lapsed \subseteq lapsed'
BY Frames DEF RelayStep, Send, relay, StoreEnvelope, StoreForeign, Age, Cleanup, AckRelay

LEMMA RowStep ==
    ASSUME TypeOK, HoldInv, PollInv, RowInv, AcknowledgedIsDurable, [Next]_vars
    PROVE  RowInv' /\ AcknowledgedIsDurable'
<1> DEFINE Good(n, id) == /\ row'[n][id].envelope = 0 => ~row'[n][id].read /\ ~row'[n][id].old
                          /\ row'[n][id].old /\ ~row'[n][id].read => id \in lapsed'
                          /\ row'[n][id].read => id \in Message /\ inbox'[id] # "none"
<1>1. ASSUME NEW n \in Relay, NEW id \in Id PROVE Good(n, id)
  <2>0. /\ row \in [Relay -> [Id -> Row]]
        /\ row[n][id].envelope = 0 => ~row[n][id].read /\ ~row[n][id].old
        /\ row[n][id].old /\ ~row[n][id].read => id \in lapsed'
        /\ row[n][id].read => id \in Message /\ inbox'[id] # "none"
      BY InboxStays, LapsedStays DEF RowInv, AcknowledgedIsDurable, TypeOK, Row
  <2>1. CASE row'[n][id] = row[n][id]
      BY <2>0, <2>1
  <2>2. ASSUME NEW k \in Relay, NEW j \in Id, NEW e \in Nat \ {0}, StoreEnvelope(k, j, e)
        PROVE  Good(n, id)
    <3>1. CASE k = n /\ j = id /\ row[k][j].envelope = 0
      <4>1. row'[n][id].envelope = e /\ ~row'[n][id].read /\ ~row'[n][id].old
          BY <2>2, <3>1, StoreEffect
      <4> QED
          BY <4>1
    <3> QED
        BY <2>1, <2>2, <3>1, StoreEffect
  <2>3. ASSUME NEW w \in Helper, Send(w) PROVE Good(n, id)
      BY <2>1, <2>2, <2>3, SendEffect DEF relay
  <2>4. ASSUME NEW k \in Relay, NEW f \in Foreign, StoreForeign(k, f) PROVE Good(n, id)
      BY <2>2, <2>4 DEF StoreForeign, Id
  <2>5. ASSUME NEW k \in Relay, NEW j \in Id, Age(k, j) PROVE Good(n, id)
    <3>1. CASE k = n /\ j = id
      <4>1. /\ row[n][id].envelope # 0 /\ row'[n][id].envelope = row[n][id].envelope
            /\ row'[n][id].read = row[n][id].read
            /\ ~row[n][id].read => id \in lapsed'
          BY <2>5, <3>1, AgeEffect
      <4> QED
          BY <2>0, <4>1
    <3> QED
        BY <2>1, <2>5, <3>1, AgeEffect
  <2>6. ASSUME NEW k \in Relay, Cleanup(k) PROVE Good(n, id)
    <3>1. CASE row'[n][id] = NoRow
        BY <3>1 DEF NoRow, Fresh
    <3> QED
        BY <2>0, <2>1, <2>6, <3>1 DEF Cleanup
  <2>7. CASE AckRelay
    <3>1. PICK k \in Relay, j \in Message :
             /\ poll.pc = "committed" /\ k = poll.node /\ j = poll.id
             /\ row' \in [Relay -> [Id -> Row]] /\ clock' = clock /\ lapsed' = lapsed
             /\ row'[k][j].envelope = row[k][j].envelope
             /\ row'[k][j].old = row[k][j].old
             /\ \/ row'[k][j].read = row[k][j].read
                \/ row'[k][j].read = (row[k][j].envelope # 0)
             /\ \A k1 \in Relay, j1 \in Id : k1 # k \/ j1 # j => row'[k1][j1] = row[k1][j1]
        BY <2>7, AckEffect, Zenon
    <3>2. inbox'[j] # "none"
        BY <3>1, InboxStays DEF PollInv
    <3>3. CASE k = n /\ j = id
      <4>1. /\ row'[n][id].envelope = row[n][id].envelope /\ row'[n][id].old = row[n][id].old
            /\ row'[n][id].read = row[n][id].read \/ row'[n][id].read = (row[n][id].envelope # 0)
            /\ id \in Message /\ inbox'[id] # "none"
          BY <3>1, <3>2, <3>3
      <4> QED
          BY <2>0, <4>1
    <3>4. CASE k # n \/ j # id
        BY <2>1, <3>1, <3>4
    <3> QED
        BY <3>3, <3>4
  <2> QED
      BY <2>1, <2>3, <2>4, <2>5, <2>6, <2>7, Frames DEF RelayStep
<1> QED
    BY <1>1 DEF RowInv, AcknowledgedIsDurable

LEMMA KeptStays ==
    ASSUME TypeOK, HoldInv, PollInv, RowInv, AcknowledgedIsDurable, [Next]_vars,
           NEW m \in Message, Kept(m)
    PROVE  Kept(m)'
<1>1. CASE m \in lapsed \/ inbox[m] # "none"
    BY <1>1, InboxStays, LapsedStays DEF Kept
<1>2. ASSUME NEW n \in Relay, row[n][m].envelope # 0 PROVE Kept(m)'
  <2>0. m \in Id /\ m \notin Foreign /\ row \in [Relay -> [Id -> Row]]
      BY DeliveryAssumption DEF Id, TypeOK, Row
  <2>1. CASE row'[n][m].envelope = row[n][m].envelope
      BY <1>2, <2>1 DEF Kept
  <2>2. ASSUME NEW k \in Relay, NEW j \in Id, NEW e \in Nat \ {0}, StoreEnvelope(k, j, e)
        PROVE  Kept(m)'
      BY <1>2, <2>0, <2>1, <2>2, StoreEffect
  <2>3. ASSUME NEW w \in Helper, Send(w) PROVE Kept(m)'
      BY <2>1, <2>2, <2>3, SendEffect DEF relay
  <2>4. ASSUME NEW k \in Relay, NEW f \in Foreign, StoreForeign(k, f) PROVE Kept(m)'
      BY <2>2, <2>4 DEF StoreForeign, Id
  <2>5. ASSUME NEW k \in Relay, NEW j \in Id, Age(k, j) PROVE Kept(m)'
      BY <2>0, <2>1, <2>5, AgeEffect
  <2>6. ASSUME NEW k \in Relay, Cleanup(k) PROVE Kept(m)'
    <3>1. CASE row[n][m].old
        BY <1>1, <2>0, <3>1 DEF RowInv, AcknowledgedIsDurable
    <3> QED
        BY <2>0, <2>1, <2>6, <3>1 DEF Cleanup
  <2>7. CASE AckRelay
      BY <2>0, <2>1, <2>7, AckEffect DEF Id
  <2> QED
      BY <2>1, <2>3, <2>4, <2>5, <2>6, <2>7, Frames DEF RelayStep
<1> QED
    BY <1>1, <1>2 DEF Kept

\* A helper comes to "stored" only by a store the relay confirmed, and a row is
\* reported as queued only by such a helper.
LEMMA KeptStep ==
    ASSUME TypeOK, OneCiphertext, HoldInv, PollInv, RowInv, AcknowledgedIsDurable, KeptInv,
           [Next]_vars
    PROVE  KeptInv'
<1>0. /\ outbox \in [Message -> [status : Status, envelope : Nat]]
      /\ worker \in [Helper -> [pc : {"idle", "late", "preparing", "prepared", "ready",
                                     "sending", "stored", "failed"},
                               m : Message \cup {None}, envelope : Nat, node : Relay]]
    BY DEF TypeOK
<1>1. ASSUME NEW w \in Helper, worker'[w].pc = "stored", NEW m \in Message, worker'[w].m = m
      PROVE  Kept(m)'
  <2>1. CASE worker'[w] = worker[w]
    <3>1. Kept(m)
        BY <1>1, <2>1 DEF KeptInv
    <3> QED
        BY <3>1, KeptStays
  <2>2. ASSUME NEW v \in Helper, CrashHelper(v) \/ DeliverNext(v), ~Send(v)
        PROVE  worker'[w] = worker[w]
    <3>1. CASE v # w
        BY <1>0, <2>2, <3>1 DEF CrashHelper, DeliverNext, Pick, Prepare, SaveEnvelope, Check,
           UpdateOutgoing
    <3>2. CASE v = w
      <4>1. CASE CrashHelper(w) \/ UpdateOutgoing(w)
          BY <1>0, <1>1, <4>1 DEF CrashHelper, UpdateOutgoing, Idle
      <4>2. ASSUME NEW k \in Message, Pick(w, k) PROVE FALSE
          BY <1>0, <1>1, <4>2 DEF Pick, Idle
      <4>3. CASE Prepare(w) \/ SaveEnvelope(w) \/ Check(w)
          BY <1>0, <1>1, <4>3 DEF Prepare, SaveEnvelope, Check
      <4> QED
          BY <2>2, <3>2, <4>1, <4>2, <4>3 DEF DeliverNext
    <3> QED
        BY <3>1, <3>2
  <2>3. ASSUME NEW v \in Helper, Send(v), worker'[w] # worker[w] PROVE Kept(m)'
    <3>1. v = w
        BY <1>0, <2>3 DEF Send, Elsewhere
    <3>2. ~Elsewhere(w)
        BY <1>0, <1>1, <2>3, <3>1 DEF Send, Elsewhere
    <3>3. worker' = [worker EXCEPT ![w].pc = "stored"]
          /\ StoreEnvelope(worker[w].node, worker[w].m, worker[w].envelope)
        BY <2>3, <3>1, <3>2 DEF Send
    <3>4. /\ worker[w].node \in Relay /\ worker[w].m = m /\ m \in Id
          /\ worker[w].envelope \in Nat \ {0}
        BY <1>0, <1>1, <2>3, <3>1, <3>3 DEF Send, HoldInv, Id
    <3>5. row'[worker[w].node][m].envelope # 0
        BY <3>3, <3>4, StoreEffect
    <3> QED
        BY <3>4, <3>5 DEF Kept
  <2> QED
      BY <2>1, <2>2, <2>3, Frames DEF WorkerStep
<1>2. ASSUME NEW m \in Message, outbox'[m].status = "platform_queued" PROVE Kept(m)'
  <2>1. CASE outbox[m].status = "platform_queued"
      BY <2>1, KeptStays DEF KeptInv
  <2>2. CASE \E k \in Message : Accept(k)
      BY <1>0, <1>2, <2>1, <2>2 DEF Accept
  <2>3. ASSUME NEW w \in Helper, SaveEnvelope(w) PROVE Kept(m)'
      BY <1>0, <1>2, <2>1, <2>3 DEF SaveEnvelope
  <2>4. ASSUME NEW w \in Helper, UpdateOutgoing(w), outbox[m].status # "platform_queued"
        PROVE  Kept(m)'
    <3>1. worker[w].m = m /\ worker[w].pc = "stored"
        BY <1>0, <1>2, <2>4 DEF UpdateOutgoing, Outcome
    <3>2. Kept(m)
        BY <3>1 DEF KeptInv
    <3> QED
        BY <3>2, KeptStays
  <2> QED
      BY <1>2, <2>1, <2>2, <2>3, <2>4, Frames DEF OutboxStep
<1>3. \A w \in Helper : worker'[w].pc = "stored" => worker'[w].m \in Message
    BY HoldStep DEF HoldInv
<1> QED
    BY <1>1, <1>2, <1>3 DEF KeptInv, Kept

LEMMA PollHandStep ==
    ASSUME TypeOK, PollInv, [Next]_vars
    PROVE  PollInv'
<1>1. CASE poll' = poll
    BY <1>1, InboxStays DEF PollInv
<1>2. ASSUME NEW rest, Onward(rest) PROVE PollInv'
    BY <1>2, OnwardPc DEF PollInv
<1>3. CASE PollStep
  <2>1. CASE Retrieve \/ AckRelay
      BY <1>2, <2>1 DEF Retrieve, AckRelay
  <2>2. CASE Abandon
      BY <2>2 DEF Abandon, Resting, PollInv
  <2>3. CASE HandlePolled
    <3>1. poll.pc = "admitted" /\ poll.id \in Message
        BY <2>3 DEF HandlePolled, PollInv
    <3>2. CASE Onward(poll.batch)
        BY <1>2, <3>2
    <3>3. CASE poll' = [poll EXCEPT !.pc = "committed"] /\ inbox'[poll.id] # "none"
        BY <3>1, <3>3 DEF TypeOK, PollInv
    <3> QED
        BY <2>3, <3>1, <3>2, <3>3 DEF HandlePolled, Receive, TypeOK
  <2>4. ASSUME NEW id \in Id, Refuse(id) PROVE PollInv'
      BY <1>2, <2>4 DEF Refuse
  <2>5. ASSUME NEW id \in Id, AdmitPolled(id) PROVE PollInv'
      BY <2>5 DEF AdmitPolled, TypeOK, PollInv, Id
  <2> QED
      BY <1>3, <2>1, <2>2, <2>3, <2>4, <2>5 DEF PollStep
<1>4. CASE Exit
    BY <1>4 DEF Exit, Resting, PollInv
<1>5. CASE \/ \E d \in Direct : AdmitStream(d) \/ HandleStream(d)
           \/ Cancel \/ StopAdmission \/ Drain \/ Start
    BY <1>1, <1>5 DEF AdmitStream, HandleStream, Cancel, StopAdmission,
       Drain, Start
<1> QED
    BY <1>1, <1>3, <1>4, <1>5, Frames DEF DrainStep, Shutdown

-----------------------------------------------------------------------------
(* The theorems.                                                            *)

LEMMA DStep == DInv /\ [Next]_vars => DInv'
BY TypeStep, HoldStep, CiphertextStep, RowStep, KeptStep, PollHandStep, CountStep DEF DInv

\* The conjunction of all these facts holds in every reachable state.
THEOREM DeliveryInvariant == Spec => []DInv
<1>1. Init => DInv
    BY DInit
<1>2. DInv /\ [Next]_vars => DInv'
    BY DStep
<1> QED
    BY <1>1, <1>2, PTL DEF Spec

\* The parameters are of their types; in particular the WaitGroup of callbacks never
\* becomes negative (durable_handler.go:47-57).
THEOREM DeliveryTypes == Spec => []TypeOK
<1>1. DInv => TypeOK
    BY DEF DInv
<1> QED
    BY <1>1, DeliveryInvariant, PTL

\* mailbox.go:253-254: however many helpers prepare, stop and retry, one envelope of
\* a message leaves them.
THEOREM OneEnvelope == Spec => []OneCiphertext
<1>1. DInv => OneCiphertext
    BY DEF DInv
<1> QED
    BY <1>1, DeliveryInvariant, PTL

\* durable_handler.go:22-23: a relay marks as read only what the inbox has.
THEOREM AcknowledgedLast == Spec => []AcknowledgedIsDurable
<1>1. DInv => AcknowledgedIsDurable
    BY DEF DInv
<1> QED
    BY <1>1, DeliveryInvariant, PTL

\* Custody: a relay forgets only what the inbox has, and a message reported as queued is
\* unread at a relay or in the inbox, as long as no row of it outlived its expiry unread.
THEOREM Custody == Spec => []NothingLost
<1>1. ASSUME DInv PROVE QueuedIsKept
  <2>1. ASSUME NEW m \in Message \ lapsed, outbox[m].status = "platform_queued",
               inbox[m] = "none"
        PROVE  \E n \in Relay : m \in Unread(n)
    <3>1. PICK n \in Relay : row[n][m].envelope # 0
        BY <1>1, <2>1 DEF DInv, KeptInv, Kept
    <3>2. m \in Id /\ ~row[n][m].read /\ ~row[n][m].old
        BY <1>1, <2>1 DEF DInv, RowInv, AcknowledgedIsDurable, Id
    <3> QED
        BY <3>1, <3>2 DEF Unread
  <2> QED
      BY <2>1 DEF QueuedIsKept
<1>2. DInv => NothingLost
    BY <1>1 DEF NothingLost, DInv
<1> QED
    BY <1>2, DeliveryInvariant, PTL

\* durable_handler.go:26-27: once the drain is over nothing is committed, because the
\* WaitGroup is zero exactly when no callback runs.
THEOREM ClosedStaysClosed == Spec => NoCommitAfterDrain
<1> DEFINE A == \A m \in Message \cup Direct : inbox[m] = "none" /\ inbox'[m] # "none"
                  => proc \notin {"drained", "down"}
<1>1. ASSUME DInv, [Next]_vars PROVE A
  <2>1. ASSUME NEW m \in Message \cup Direct, inbox[m] = "none", inbox'[m] # "none",
               proc \in {"drained", "down"}
        PROVE  FALSE
    <3>0. /\ poll.pc = "idle" /\ active = 0 /\ IsFiniteSet(InHandler)
          /\ active = Cardinality(InHandler) + IF poll.pc = "admitted" THEN 1 ELSE 0
          /\ Cardinality(InHandler) \in Nat
        BY <1>1, <2>1, FS_CardinalityType DEF DInv, CountInv
    <3>1. poll.pc # "admitted" /\ InHandler = {}
        BY <3>0, FS_EmptySet
    <3>2. ~HandlePolled /\ \A d \in Direct : ~HandleStream(d)
        BY <3>1 DEF HandlePolled, HandleStream, InHandler
    <3> QED
        BY <1>1, <2>1, <3>2, Frames DEF InboxStep, Consume, DInv, TypeOK
  <2> QED
      BY <2>1
<1>2. DInv /\ [Next]_vars => [A]_vars
    BY <1>1
<1> QED
    BY <1>2, DeliveryInvariant, PTL DEF Spec, NoCommitAfterDrain

\* mailbox.go:264-268 and 174: no later attempt changes an outcome that was recorded,
\* and what was consumed is not offered again.
THEOREM ReportIsFinal == Spec => ReportedStays
<1> DEFINE Reported == \A m \in Message : outbox[m].status \in {"platform_queued", "expired"}
                         => outbox'[m].status = outbox[m].status
           Consumed == \A m \in Message \cup Direct : inbox[m] = "consumed"
                         => inbox'[m] = "consumed"
<1>1. ASSUME DInv, [Next]_vars PROVE Reported
  <2>0. outbox \in [Message -> [status : Status, envelope : Nat]]
      BY <1>1 DEF DInv, TypeOK
  <2>1. CASE \E m \in Message : Accept(m)
      BY <2>0, <2>1 DEF Accept
  <2>2. ASSUME NEW w \in Helper, SaveEnvelope(w) PROVE Reported
      BY <2>0, <2>2 DEF SaveEnvelope
  <2>3. ASSUME NEW w \in Helper, UpdateOutgoing(w) PROVE Reported
      BY <2>0, <2>3 DEF UpdateOutgoing
  <2> QED
      BY <1>1, <2>1, <2>2, <2>3, Frames DEF OutboxStep
<1>2. ASSUME DInv, [Next]_vars PROVE Consumed
    BY <1>2, Frames DEF DInv, TypeOK, PollInv, InboxStep, HandlePolled, HandleStream, Consume,
       Receive
<1>3. DInv /\ [Next]_vars => [Reported /\ Consumed]_vars
    BY <1>1, <1>2
<1> QED
    BY <1>3, DeliveryInvariant, PTL DEF Spec, ReportedStays
=============================================================================
