------------------------- MODULE V2MessagingProofs -------------------------
(***************************************************************************)
(* V2Messaging for every set of messages, sessions and policies: its       *)
(* inductive invariant, the safety properties of its runs, and that it     *)
(* implements OrderedChannel.                                              *)
(***************************************************************************)
EXTENDS V2Messaging, TLAPS

-----------------------------------------------------------------------------
(* The inductive invariant *)

\* What the status of an entry says of its envelope.
StatusInv ==
    \A id \in Id :
        /\ status[id] = "none" => env[id] = None
        /\ status[id] \in {"platform_queued", "conflict"} => Sealed(id)
        /\ status[id] = "platform_queued" => bound[id] = env[id]
        /\ status[id] = "conflict" => bound[id] = Foreign

\* The sequences of a session are counted by SendSequence as long as it is
\* current, and by nobody before it is joined.
CountInv ==
    /\ \A id \in Id : Sealed(id) => env[id].sess \in sUsed
    /\ sSess # None =>
          /\ sSess \in sUsed
          /\ EpochOf[sSess] = sEpoch
          /\ \A id \in Id : (Sealed(id) /\ env[id].sess = sSess)
                               => env[id].seq <= sendSeq

\* A control has the envelope of a message refused for ever, and is never saved
\* without it.
ControlInv ==
    \A m \in Message :
        /\ status[ControlOf[m]] # "none" => Sealed(ControlOf[m])
        /\ Sealed(ControlOf[m]) => /\ status[m] = "conflict"
                                   /\ env[ControlOf[m]] = env[m]

\* Two messages never share a sequence.
OwnerInv ==
    \A m, n \in Message : (Sealed(m) /\ env[m] = env[n]) => m = n

\* The store in progress is that of a sealed, pending entry, and its answer is
\* what the Platform has bound to the ID.
StoreInv ==
    /\ waiting = None => resp = None
    /\ waiting # None =>
          /\ status[waiting] = "accepted"
          /\ Sealed(waiting)
          /\ resp = "receipt" => bound[waiting] = env[waiting]
          /\ resp = "conflict" => bound[waiting] = Foreign

\* Every copy of an envelope, on its way or at the Platform, is the saved one.
CopyInv ==
    /\ \A q \in req : env[q.id] = q.env
    /\ \A id \in Id : bound[id] \in Envelope => bound[id] = env[id]

\* What the receiver holds was admitted, and belongs to sessions it has joined.
HeldInv ==
    /\ rSess # None => rSess \in rUsed
    /\ \A id \in received : /\ bound[id] \in Envelope
                            /\ env[id].sess \in rUsed

\* The receiver has filled the sequences up to ReceiveSequence and no other.
PrefixInv ==
    rSess # None =>
        /\ \A id \in received : env[id].sess = rSess => env[id].seq <= recvSeq
        /\ \A n \in 1..recvSeq :
              \E id \in received : env[id].sess = rSess /\ env[id].seq = n

IInv ==
    /\ TypeOK
    /\ StatusInv /\ CountInv /\ ControlInv /\ OwnerInv
    /\ StoreInv /\ CopyInv /\ HeldInv /\ PrefixInv
    /\ AcknowledgedIsReceived /\ PendingIsCurrent
-----------------------------------------------------------------------------
(* Facts about IDs                                                          *)

\* The controls of two messages differ, and a control is not a message.
LEMMA ControlFacts ==
    ASSUME NEW m \in Message
    PROVE  /\ m \in Id /\ ControlOf[m] \in Id
           /\ ControlOf[m] \notin Message
           /\ \A n \in Message : ControlOf[n] = ControlOf[m] => n = m
BY MessagingAssumption DEF Id, Control

\* Every ID is a message or the control of one.
LEMMA IdCases ==
    ASSUME NEW id \in Id
    PROVE  id \in Message \/ \E m \in Message : id = ControlOf[m]
BY DEF Id, Control

\* The markers are no IDs, sessions, envelopes or answers.
LEMMA NoneFacts ==
    /\ None \notin Id /\ None \notin Session /\ None \notin Envelope
    /\ Foreign \notin Envelope /\ Foreign # None
    /\ None \notin {"receipt", "conflict", "error"}
BY MessagingAssumption

-----------------------------------------------------------------------------
(* The invariant holds initially and is preserved by every action           *)

\* The invariant holds in every initial state.
LEMMA InitInv == Init => IInv
<1> SUFFICES ASSUME Init PROVE IInv
    OBVIOUS
<1>1. TypeOK
    BY MessagingAssumption DEF Init, TypeOK, Status, Id
<1>2. StatusInv /\ CountInv /\ ControlInv /\ OwnerInv /\ StoreInv
    BY ControlFacts DEF Init, StatusInv, CountInv, ControlInv, OwnerInv, StoreInv, Sealed
<1>3. CopyInv /\ AcknowledgedIsReceived
    BY NoneFacts DEF Init, CopyInv, AcknowledgedIsReceived
<1>4. HeldInv /\ PrefixInv /\ PendingIsCurrent
    BY DEF Init, HeldInv, PrefixInv, PendingIsCurrent, Sealed
<1> QED
    BY <1>1, <1>2, <1>3, <1>4 DEF IInv

\* A session of the sender joined for the first time has no envelope yet.
LEMMA SJoinInv ==
    ASSUME IInv, NEW s \in Session, SJoin(s)
    PROVE  IInv'
<1>1. TypeOK'
    BY DEF IInv, TypeOK, SJoin, Idle, outbox, store, receiver, platform, time
<1>2. CountInv'
    BY NoneFacts DEF IInv, CountInv, TypeOK, Sealed, SJoin, Idle, outbox,
        store, receiver, platform, time
<1>3. (StatusInv /\ ControlInv /\ OwnerInv /\ StoreInv /\ CopyInv /\ HeldInv /\
        PrefixInv /\ AcknowledgedIsReceived /\ PendingIsCurrent)'
    BY DEF IInv, StatusInv, ControlInv, OwnerInv, StoreInv, CopyInv, HeldInv,
        PrefixInv, AcknowledgedIsReceived, PendingIsCurrent, Sealed, SJoin,
            Idle, outbox, store, receiver, platform, time
<1> QED
    BY <1>1, <1>2, <1>3 DEF IInv

\* Losing the session leaves every entry as it was.
LEMMA SDropInv ==
    ASSUME IInv, SDrop
    PROVE  IInv'
<1>1. TypeOK'
    BY DEF IInv, TypeOK, SDrop, Idle, outbox, store, receiver, platform, time
<1>2. CountInv'
    BY DEF IInv, CountInv, Sealed, SDrop, Idle, outbox, store, receiver,
        platform, time
<1>3. (StatusInv /\ ControlInv /\ OwnerInv /\ StoreInv /\ CopyInv /\ HeldInv /\
        PrefixInv /\ AcknowledgedIsReceived /\ PendingIsCurrent)'
    BY DEF IInv, StatusInv, ControlInv, OwnerInv, StoreInv, CopyInv, HeldInv,
        PrefixInv, AcknowledgedIsReceived, PendingIsCurrent, Sealed, SDrop,
            Idle, outbox, store, receiver, platform, time
<1> QED
    BY <1>1, <1>2, <1>3 DEF IInv

\* After saveV2Policy no entry waits with an envelope of the old policy.
LEMMA SRefreshInv ==
    ASSUME IInv, SRefresh
    PROVE  IInv'
<1>1. TypeOK'
    BY DEF IInv, TypeOK, Status, SRefresh, Idle, store, receiver, platform, time
<1>2. StatusInv'
    BY DEF IInv, StatusInv, TypeOK, Sealed, SRefresh, Idle, store, receiver,
        platform, time
<1>3. CountInv'
    BY DEF IInv, CountInv, Sealed, SRefresh, Idle, store, receiver, platform,
        time
<1>4. ControlInv'
    BY ControlFacts DEF IInv, ControlInv, TypeOK, Sealed, SRefresh, Idle,
        store, receiver, platform, time
<1>5. StoreInv'
    BY DEF IInv, StoreInv, SRefresh, Idle, store, receiver, platform, time
<1>6. PendingIsCurrent'
    BY DEF IInv, PendingIsCurrent, TypeOK, Sealed, SRefresh, Idle, store,
        receiver, platform, time
<1>7. (OwnerInv /\ CopyInv /\ HeldInv /\ PrefixInv /\ AcknowledgedIsReceived)'
    BY DEF IInv, OwnerInv, CopyInv, HeldInv, PrefixInv, AcknowledgedIsReceived,
        Sealed, SRefresh, Idle, store, receiver, platform, time
<1> QED
    BY <1>1, <1>2, <1>3, <1>4, <1>5, <1>6, <1>7 DEF IInv

\* A new entry has no envelope.
LEMMA AcceptInv ==
    ASSUME IInv, NEW m \in Message, Accept(m)
    PROVE  IInv'
<1>1. TypeOK'
    BY ControlFacts DEF IInv, TypeOK, Status, Accept, sender, store, receiver,
        platform, time
<1>2. StatusInv'
    BY DEF IInv, StatusInv, TypeOK, Sealed, Accept, sender, store, receiver,
        platform, time
<1>3. ControlInv'
    BY ControlFacts DEF IInv, ControlInv, StatusInv, TypeOK, Sealed, Accept,
        sender, store, receiver, platform, time
<1>4. StoreInv'
    BY DEF IInv, StoreInv, TypeOK, Sealed, Accept, sender, store, receiver,
        platform, time
<1>5. PendingIsCurrent'
    BY DEF IInv, PendingIsCurrent, StatusInv, TypeOK, Sealed, Accept, sender,
        store, receiver, platform, time
<1>6. (CountInv /\ OwnerInv /\ CopyInv /\ HeldInv /\ PrefixInv /\
        AcknowledgedIsReceived)'
    BY DEF IInv, CountInv, OwnerInv, CopyInv, HeldInv, PrefixInv,
        AcknowledgedIsReceived, Sealed, Accept, sender, store, receiver,
            platform, time
<1> QED
    BY <1>1, <1>2, <1>3, <1>4, <1>5, <1>6 DEF IInv

\* An entry past its deadline is not waiting any more.
LEMMA ExpireInv ==
    ASSUME IInv, NEW m \in Message, Expire(m)
    PROVE  IInv'
<1>1. TypeOK'
    BY ControlFacts DEF IInv, TypeOK, Status, Expire, Due, Idle, sender, store,
        receiver, platform, time
<1>2. StatusInv'
    BY DEF IInv, StatusInv, TypeOK, Sealed, Expire, Due, Idle, sender, store,
        receiver, platform, time
<1>3. ControlInv'
    BY ControlFacts DEF IInv, ControlInv, StatusInv, TypeOK, Sealed, Expire,
        Due, Idle, sender, store, receiver, platform, time
<1>4. StoreInv'
    BY DEF IInv, StoreInv, TypeOK, Sealed, Expire, Due, Idle, sender, store,
        receiver, platform, time
<1>5. PendingIsCurrent'
    BY DEF IInv, PendingIsCurrent, StatusInv, TypeOK, Sealed, Expire, Due,
        Idle, sender, store, receiver, platform, time
<1>6. (CountInv /\ OwnerInv /\ CopyInv /\ HeldInv /\ PrefixInv /\
        AcknowledgedIsReceived)'
    BY DEF IInv, CountInv, OwnerInv, CopyInv, HeldInv, PrefixInv,
        AcknowledgedIsReceived, Sealed, Expire, Due, Idle, sender, store,
            receiver, platform, time
<1> QED
    BY <1>1, <1>2, <1>3, <1>4, <1>5, <1>6 DEF IInv

\* An envelope past its lifetime is not waiting any more.
LEMMA QuarantineInv ==
    ASSUME IInv, NEW id \in Id, Quarantine(id)
    PROVE  IInv'
<1>1. TypeOK'
    BY DEF IInv, TypeOK, Status, Quarantine, Due, Idle, sender, store,
        receiver, platform, time
<1>2. StatusInv'
    BY DEF IInv, StatusInv, TypeOK, Sealed, Quarantine, Due, Idle, sender,
        store, receiver, platform, time
<1>3. ControlInv'
    BY ControlFacts DEF IInv, ControlInv, StatusInv, TypeOK, Sealed,
        Quarantine, Due, Idle, sender, store, receiver, platform, time
<1>4. StoreInv'
    BY DEF IInv, StoreInv, TypeOK, Sealed, Quarantine, Due, Idle, sender,
        store, receiver, platform, time
<1>5. PendingIsCurrent'
    BY DEF IInv, PendingIsCurrent, StatusInv, TypeOK, Sealed, Quarantine, Due,
        Idle, sender, store, receiver, platform, time
<1>6. (CountInv /\ OwnerInv /\ CopyInv /\ HeldInv /\ PrefixInv /\
        AcknowledgedIsReceived)'
    BY DEF IInv, CountInv, OwnerInv, CopyInv, HeldInv, PrefixInv,
        AcknowledgedIsReceived, Sealed, Quarantine, Due, Idle, sender, store,
            receiver, platform, time
<1> QED
    BY <1>1, <1>2, <1>3, <1>4, <1>5, <1>6 DEF IInv

\* The answer recorded is what the Platform has bound to the ID.
LEMMA RecordInv ==
    ASSUME IInv, Record
    PROVE  IInv'
<1>1. TypeOK'
    BY DEF IInv, TypeOK, Status, Record, Outcome, sender, receiver, platform,
        time
<1>2. StatusInv'
    BY DEF IInv, StatusInv, StoreInv, TypeOK, Sealed, Record, Outcome, sender,
        receiver, platform, time
<1>3. ControlInv'
    BY ControlFacts DEF IInv, ControlInv, StoreInv, TypeOK, Sealed, Record,
        Outcome, sender, receiver, platform, time
<1>4. StoreInv'
    BY DEF IInv, StoreInv, Record, Outcome, sender, receiver, platform, time
<1>5. PendingIsCurrent'
    BY DEF IInv, PendingIsCurrent, StoreInv, TypeOK, Sealed, Record, Outcome,
        sender, receiver, platform, time
<1>6. (CountInv /\ OwnerInv /\ CopyInv /\ HeldInv /\ PrefixInv /\
        AcknowledgedIsReceived)'
    BY DEF IInv, CountInv, OwnerInv, CopyInv, HeldInv, PrefixInv,
        AcknowledgedIsReceived, Sealed, Record, Outcome, sender, receiver,
            platform, time
<1> QED
    BY <1>1, <1>2, <1>3, <1>4, <1>5, <1>6 DEF IInv

\* Giving up a store changes no table.
LEMMA GiveUpInv ==
    ASSUME IInv, GiveUp
    PROVE  IInv'
<1>1. TypeOK'
    BY DEF IInv, TypeOK, GiveUp, outbox, sender, receiver, platform, time
<1>2. StoreInv'
    BY DEF IInv, StoreInv, GiveUp, outbox, sender, receiver, platform, time
<1>3. CopyInv'
    BY DEF IInv, CopyInv, GiveUp, outbox, sender, receiver, platform, time
<1>4. (StatusInv /\ CountInv /\ ControlInv /\ OwnerInv /\ HeldInv /\ PrefixInv
        /\ AcknowledgedIsReceived /\ PendingIsCurrent)'
    BY DEF IInv, StatusInv, CountInv, ControlInv, OwnerInv, HeldInv, PrefixInv,
        AcknowledgedIsReceived, PendingIsCurrent, Sealed, GiveUp, outbox,
            sender, receiver, platform, time
<1> QED
    BY <1>1, <1>2, <1>3, <1>4 DEF IInv

\* A policy published is not yet saved by anybody.
LEMMA NewPolicyInv ==
    ASSUME IInv, NewPolicy
    PROVE  IInv'
<1>1. TypeOK'
    BY MessagingAssumption DEF IInv, TypeOK, NewPolicy, outbox, sender, store,
        receiver, time
<1>2. (StatusInv /\ CountInv /\ ControlInv /\ OwnerInv /\ StoreInv /\ CopyInv
        /\ HeldInv /\ PrefixInv /\ AcknowledgedIsReceived /\ PendingIsCurrent)'
    BY DEF IInv, StatusInv, CountInv, ControlInv, OwnerInv, StoreInv, CopyInv,
        HeldInv, PrefixInv, AcknowledgedIsReceived, PendingIsCurrent, Sealed,
            NewPolicy, outbox, sender, store, receiver, time
<1> QED
    BY <1>1, <1>2 DEF IInv

\* A session of the receiver joined for the first time has no row yet.
LEMMA RJoinInv ==
    ASSUME IInv, NEW s \in Session, RJoin(s)
    PROVE  IInv'
<1>1. TypeOK'
    BY DEF IInv, TypeOK, RJoin, outbox, sender, store, platform, time
<1>2. HeldInv'
    BY DEF IInv, HeldInv, TypeOK, RJoin, outbox, sender, store, platform, time
<1>3. PrefixInv'
    BY DEF IInv, PrefixInv, HeldInv, TypeOK, RJoin, outbox, sender, store,
        platform, time
<1>4. (StatusInv /\ CountInv /\ ControlInv /\ OwnerInv /\ StoreInv /\ CopyInv
        /\ AcknowledgedIsReceived /\ PendingIsCurrent)'
    BY DEF IInv, StatusInv, CountInv, ControlInv, OwnerInv, StoreInv, CopyInv,
        AcknowledgedIsReceived, PendingIsCurrent, Sealed, RJoin, outbox,
            sender, store, platform, time
<1> QED
    BY <1>1, <1>2, <1>3, <1>4 DEF IInv

\* Losing the session leaves the inbox as it was.
LEMMA RDropInv ==
    ASSUME IInv, RDrop
    PROVE  IInv'
<1>1. TypeOK'
    BY DEF IInv, TypeOK, RDrop, outbox, sender, store, platform, time
<1>2. HeldInv'
    BY DEF IInv, HeldInv, RDrop, outbox, sender, store, platform, time
<1>3. PrefixInv'
    BY DEF IInv, PrefixInv, RDrop, outbox, sender, store, platform, time
<1>4. (StatusInv /\ CountInv /\ ControlInv /\ OwnerInv /\ StoreInv /\ CopyInv
        /\ AcknowledgedIsReceived /\ PendingIsCurrent)'
    BY DEF IInv, StatusInv, CountInv, ControlInv, OwnerInv, StoreInv, CopyInv,
        AcknowledgedIsReceived, PendingIsCurrent, Sealed, RDrop, outbox,
            sender, store, platform, time
<1> QED
    BY <1>1, <1>2, <1>3, <1>4 DEF IInv

\* A new policy leaves the inbox as it was.
LEMMA RRefreshInv ==
    ASSUME IInv, RRefresh
    PROVE  IInv'
<1>1. TypeOK'
    BY DEF IInv, TypeOK, RRefresh, outbox, sender, store, platform, time
<1>2. HeldInv'
    BY DEF IInv, HeldInv, RRefresh, outbox, sender, store, platform, time
<1>3. PrefixInv'
    BY DEF IInv, PrefixInv, RRefresh, outbox, sender, store, platform, time
<1>4. (StatusInv /\ CountInv /\ ControlInv /\ OwnerInv /\ StoreInv /\ CopyInv
        /\ AcknowledgedIsReceived /\ PendingIsCurrent)'
    BY DEF IInv, StatusInv, CountInv, ControlInv, OwnerInv, StoreInv, CopyInv,
        AcknowledgedIsReceived, PendingIsCurrent, Sealed, RRefresh, outbox,
            sender, store, platform, time
<1> QED
    BY <1>1, <1>2, <1>3, <1>4 DEF IInv

\* Time changes no table.
LEMMA PassDeadlineInv ==
    ASSUME IInv, NEW m \in Message, PassDeadline(m)
    PROVE  IInv'
<1>1. TypeOK'
    BY DEF IInv, TypeOK, PassDeadline, outbox, sender, store, receiver, platform
<1>2. (StatusInv /\ CountInv /\ ControlInv /\ OwnerInv /\ StoreInv /\ CopyInv
        /\ HeldInv /\ PrefixInv /\ AcknowledgedIsReceived /\ PendingIsCurrent)'
    BY DEF IInv, StatusInv, CountInv, ControlInv, OwnerInv, StoreInv, CopyInv,
        HeldInv, PrefixInv, AcknowledgedIsReceived, PendingIsCurrent, Sealed,
            PassDeadline, outbox, sender, store, receiver, platform
<1> QED
    BY <1>1, <1>2 DEF IInv

\* Time changes no table.
LEMMA OutliveEnvelopeInv ==
    ASSUME IInv, NEW id \in Id, OutliveEnvelope(id)
    PROVE  IInv'
<1>1. TypeOK'
    BY DEF IInv, TypeOK, OutliveEnvelope, outbox, sender, store, receiver,
        platform
<1>2. (StatusInv /\ CountInv /\ ControlInv /\ OwnerInv /\ StoreInv /\ CopyInv
        /\ HeldInv /\ PrefixInv /\ AcknowledgedIsReceived /\ PendingIsCurrent)'
    BY DEF IInv, StatusInv, CountInv, ControlInv, OwnerInv, StoreInv, CopyInv,
        HeldInv, PrefixInv, AcknowledgedIsReceived, PendingIsCurrent, Sealed,
            OutliveEnvelope, outbox, sender, store, receiver, platform
<1> QED
    BY <1>1, <1>2 DEF IInv

\* A message takes a sequence above all those of its session.
LEMMA SealInv ==
    ASSUME IInv, NEW id \in Id, Seal(id)
    PROVE  IInv'
<1> DEFINE e == [sess |-> sSess, seq |-> sendSeq + 1]
<1>1. /\ e \in Envelope /\ e # None
      /\ env[id] = None /\ env' = [env EXCEPT ![id] = e]
      /\ status[id] = "accepted" /\ status' = status
      /\ waiting = None
      /\ \/ waiting' = id /\ resp' = None /\ req' = req \cup {[id |-> id, env |-> e]}
         \/ waiting' = waiting /\ resp' = resp /\ req' = req
    BY NoneFacts DEF IInv, TypeOK, Envelope, Seal, Due, Idle, StartStore, store
<1>2. UNCHANGED <<sSess, sUsed, sEpoch, receiver, platform, time>> /\ sendSeq' = sendSeq + 1
    BY DEF Seal
<1>3. sSess \in Session /\ sSess # None /\ sSess \in sUsed
    BY DEF IInv, TypeOK, CountInv, Seal
<1>4. TypeOK'
  <2>1. env' \in [Id -> Envelope \cup {None}] /\ sendSeq' \in Nat
    BY <1>1, <1>2 DEF IInv, TypeOK
  <2>2. req' \subseteq [id : Id, env : Envelope]
    BY <1>1 DEF IInv, TypeOK
  <2> QED
    BY <1>1, <1>2, <2>1, <2>2 DEF IInv, TypeOK, receiver, platform, time
<1>5. id \in Message
    \* A control is never saved without its envelope.
    BY <1>1, IdCases, ControlFacts DEF IInv, ControlInv, Sealed
<1>6. CountInv'
    BY <1>1, <1>2, <1>3 DEF IInv, TypeOK, CountInv, Sealed, Envelope
<1>7. OwnerInv'
    \* No other envelope of the session has the new sequence.
    BY <1>1, <1>2, <1>3, <1>5, ControlFacts DEF IInv, TypeOK, CountInv, OwnerInv, Sealed, Envelope
<1>8. StatusInv' /\ ControlInv'
    BY <1>1, <1>2, <1>5, ControlFacts
    DEF IInv, TypeOK, StatusInv, ControlInv, CopyInv, Sealed, platform
<1>9. StoreInv'
    BY <1>1, <1>2, NoneFacts DEF IInv, TypeOK, StoreInv, Sealed, platform
<1>10. CopyInv'
    BY <1>1, <1>2, NoneFacts DEF IInv, TypeOK, CopyInv, platform
<1>11. \A i \in received : env'[i] = env[i]
    BY <1>1, NoneFacts DEF IInv, TypeOK, HeldInv, CopyInv
<1>12. (HeldInv /\ PrefixInv /\ AcknowledgedIsReceived)'
    BY <1>2, <1>11
    DEF IInv, TypeOK, HeldInv, PrefixInv, AcknowledgedIsReceived, receiver, platform
<1>13. PendingIsCurrent'
    BY <1>1, <1>2, <1>3 DEF IInv, TypeOK, CountInv, PendingIsCurrent, Sealed
<1> QED
    BY <1>4, <1>6, <1>7, <1>8, <1>9, <1>10, <1>12, <1>13 DEF IInv

\* What is sent again is the saved envelope.
LEMMA StoreAgainInv ==
    ASSUME IInv, NEW id \in Id, StoreAgain(id)
    PROVE  IInv'
<1>1. TypeOK'
  <2>1. [id |-> id, env |-> env[id]] \in [id : Id, env : Envelope]
    BY DEF IInv, TypeOK, StoreAgain
  <2> QED
    BY <2>1 DEF IInv, TypeOK, StoreAgain, StartStore, outbox, sender, receiver, platform, time
<1>2. StoreInv'
    BY NoneFacts
    DEF IInv, StoreInv, Sealed, StoreAgain, StartStore, Due, Idle, outbox, platform
<1>3. CopyInv'
    BY DEF IInv, CopyInv, StoreAgain, StartStore, outbox, platform
<1>4. (StatusInv /\ CountInv /\ ControlInv /\ OwnerInv /\ HeldInv /\ PrefixInv
         /\ AcknowledgedIsReceived /\ PendingIsCurrent)'
    BY DEF IInv, StatusInv, CountInv, ControlInv, OwnerInv, HeldInv, PrefixInv,
           AcknowledgedIsReceived, PendingIsCurrent, Sealed, StoreAgain,
           outbox, sender, receiver, platform, time
<1> QED
    BY <1>1, <1>2, <1>3, <1>4 DEF IInv

\* A control takes the envelope of a permanent conflict and of nothing else.
LEMMA ScheduleSkipInv ==
    ASSUME IInv, NEW m \in Message, ScheduleSkip(m)
    PROVE  IInv'
<1> DEFINE c == ControlOf[m]
<1>1. /\ c \in Id /\ m \in Id /\ c # m /\ env[m] # None /\ env[c] = None
      /\ status[m] = "conflict" /\ status[c] = "none"
      /\ status' = [status EXCEPT ![c] = "accepted"]
      /\ env' = [env EXCEPT ![c] = env[m]]
    BY ControlFacts DEF IInv, StatusInv, ScheduleSkip
<1>2. UNCHANGED <<sender, store, receiver, req, platform, time>> /\ waiting = None
    BY DEF ScheduleSkip, Idle
<1>3. TypeOK'
    BY <1>1, <1>2 DEF IInv, TypeOK, Status, sender, store, receiver, platform, time
<1>4. \A i \in Id : env[i] # None => env'[i] = env[i] /\ status'[i] = status[i]
    BY <1>1 DEF IInv, TypeOK, StatusInv
<1>5. StatusInv' /\ CountInv'
    BY <1>1, <1>2 DEF IInv, TypeOK, StatusInv, CountInv, Sealed, sender, platform
<1>6. ControlInv' /\ OwnerInv'
    BY <1>1, <1>2, ControlFacts DEF IInv, TypeOK, ControlInv, OwnerInv, Sealed
<1>7. StoreInv'
    BY <1>2 DEF IInv, StoreInv, store
<1>8. CopyInv'
    BY <1>1, <1>2, <1>4, NoneFacts DEF IInv, TypeOK, CopyInv, platform
<1>9. (HeldInv /\ PrefixInv /\ AcknowledgedIsReceived)'
    BY <1>2, <1>4, NoneFacts
    DEF IInv, TypeOK, HeldInv, CopyInv, PrefixInv, AcknowledgedIsReceived, receiver, platform
<1>10. PendingIsCurrent'
    \* The conflict is of the current session, so of the current policy.
    BY <1>1, <1>2, NoneFacts
    DEF IInv, TypeOK, CountInv, PendingIsCurrent, Sealed, Envelope, ScheduleSkip, sender
<1> QED
    BY <1>3, <1>5, <1>6, <1>7, <1>8, <1>9, <1>10 DEF IInv

\* The Platform binds only what was sent, and answers with what it has bound.
LEMMA HandleStoreInv ==
    ASSUME IInv, NEW q \in req, HandleStore(q)
    PROVE  IInv'
<1>1. /\ q.id \in Id /\ q.env \in Envelope /\ env[q.id] = q.env
      /\ UNCHANGED <<outbox, sender, receiver, pEpoch, time>>
    BY DEF IInv, TypeOK, CopyInv, HandleStore
<1>2. TypeOK'
    BY <1>1
    DEF IInv, TypeOK, HandleStore, Admit, Repeat, Refuse, Answer, outbox, sender, receiver, time
<1>3. StatusInv'
    BY <1>1, NoneFacts
    DEF IInv, TypeOK, StatusInv, Sealed, HandleStore, Admit, Repeat, Refuse, outbox
<1>4. StoreInv'
    BY <1>1, NoneFacts
    DEF IInv, TypeOK, StoreInv, CopyInv, Sealed, HandleStore, Admit, Repeat, Refuse, Answer, outbox
<1>5. CopyInv'
    BY <1>1, NoneFacts DEF IInv, TypeOK, CopyInv, HandleStore, Admit, Repeat, Refuse, outbox
<1>6. HeldInv' /\ AcknowledgedIsReceived'
    BY <1>1, NoneFacts
    DEF IInv, TypeOK, HeldInv, AcknowledgedIsReceived, HandleStore, Admit, Repeat, Refuse,
        outbox, receiver
<1>7. (CountInv /\ ControlInv /\ OwnerInv /\ PrefixInv /\ PendingIsCurrent)'
    BY <1>1
    DEF IInv, CountInv, ControlInv, OwnerInv, PrefixInv, PendingIsCurrent, Sealed,
        outbox, sender, receiver
<1> QED
    BY <1>2, <1>3, <1>4, <1>5, <1>6, <1>7 DEF IInv

\* A row is committed before it is acknowledged, and is the next sequence.
LEMMA ProcessInv ==
    ASSUME IInv, NEW id \in Id, Process(id)
    PROVE  IInv'
<1>1. UNCHANGED <<outbox, sender, store, rSess, rUsed, rEpoch, req, bound, pEpoch, time>>
    BY DEF Process
<1>2. /\ rSess \in Session /\ rSess # None /\ bound[id] \in Envelope
      /\ env[id] = bound[id] /\ env[id].sess = rSess
    BY NoneFacts DEF IInv, CopyInv, Process, Valid, Envelope
<1>3. \/ id \in received /\ received' = received /\ recvSeq' = recvSeq
      \/ /\ id \notin received /\ env[id].seq = recvSeq + 1
         /\ received' = received \cup {id} /\ recvSeq' = recvSeq + 1
    BY <1>2 DEF Process, Receive
<1>4. TypeOK'
    BY <1>1, <1>3 DEF IInv, TypeOK, Process, outbox, sender, store, time
<1>5. HeldInv'
    BY <1>1, <1>2, <1>3 DEF IInv, HeldInv, outbox
<1>6. PrefixInv'
  <2>1. CASE id \in received
    BY <1>1, <1>3, <2>1 DEF IInv, PrefixInv, outbox
  <2>2. CASE id \notin received
    <3>1. recvSeq \in Nat /\ env' = env /\ rSess' = rSess
        BY <1>1 DEF IInv, TypeOK, outbox
    <3>2. \A i \in received' : env[i].sess = rSess => env[i].seq <= recvSeq + 1
        BY <1>2, <1>3, <2>2, <3>1 DEF IInv, TypeOK, HeldInv, CopyInv, PrefixInv, Envelope
    <3>3. \A n \in 1..(recvSeq + 1) :
             \E i \in received' : env[i].sess = rSess /\ env[i].seq = n
        BY <1>2, <1>3, <2>2, <3>1 DEF IInv, PrefixInv
    <3> QED
        BY <1>3, <2>2, <3>1, <3>2, <3>3 DEF PrefixInv
  <2> QED
    BY <2>1, <2>2
<1>7. AcknowledgedIsReceived'
    BY <1>1, <1>3 DEF IInv, AcknowledgedIsReceived, Process
<1>8. (StatusInv /\ CountInv /\ ControlInv /\ OwnerInv /\ StoreInv /\ CopyInv
         /\ PendingIsCurrent)'
    BY <1>1
    DEF IInv, StatusInv, CountInv, ControlInv, OwnerInv, StoreInv, CopyInv, PendingIsCurrent,
        Sealed, outbox, sender, store
<1> QED
    BY <1>4, <1>5, <1>6, <1>7, <1>8 DEF IInv

-----------------------------------------------------------------------------
(* The theorems                                                             *)

\* Every step preserves the invariant.
LEMMA NextInv == IInv /\ [Next]_vars => IInv'
<1> SUFFICES ASSUME IInv, [Next]_vars PROVE IInv'
    OBVIOUS
<1>1. CASE UNCHANGED vars
    BY <1>1
    DEF IInv, TypeOK, StatusInv, CountInv, ControlInv, OwnerInv, StoreInv, CopyInv, HeldInv,
        PrefixInv, AcknowledgedIsReceived, PendingIsCurrent, Sealed,
        vars, outbox, sender, store, receiver, platform, time
<1>2. CASE SenderStep
    BY <1>2, SDropInv, SRefreshInv, RecordInv, GiveUpInv, SJoinInv, AcceptInv, ExpireInv,
       ScheduleSkipInv, SealInv, StoreAgainInv, QuarantineInv
    DEF SenderStep, DeliverEntry
<1>3. CASE ReceiverStep
    BY <1>3, RDropInv, RRefreshInv, RJoinInv, ProcessInv DEF ReceiverStep
<1>4. CASE PlatformStep
    BY <1>4, NewPolicyInv, HandleStoreInv DEF PlatformStep
<1>5. CASE TimeStep
    BY <1>5, PassDeadlineInv, OutliveEnvelopeInv DEF TimeStep
<1> QED
    BY <1>1, <1>2, <1>3, <1>4, <1>5 DEF Next

\* The inductive invariant holds in every state.
THEOREM Invariance == Spec => []IInv
    BY InitInv, NextInv, PTL DEF Spec

\* Every variable keeps its type.
THEOREM TypeCorrect == Spec => []TypeOK
<1>1. IInv => TypeOK
    BY DEF IInv
<1> QED
    BY <1>1, Invariance, PTL

\* Whatever the sender does, one sequence of a session has one owner, but for a
\* permanent conflict and its control.
THEOREM SequenceOwner == Spec => []OneOwnerPerSequence
<1>1. ASSUME IInv PROVE OneOwnerPerSequence
  <2> SUFFICES ASSUME NEW i \in Id, NEW j \in Id, Sealed(i), i # j, env[i] = env[j]
               PROVE  \E m \in Message : {i, j} = {m, ControlOf[m]} /\ status[m] = "conflict"
    BY DEF OneOwnerPerSequence
  <2>1. ASSUME NEW m \in Message, NEW x \in Id, x = ControlOf[m], env[x] # None
        PROVE  Sealed(m) /\ env[m] = env[x] /\ status[m] = "conflict"
    BY <1>1, <2>1 DEF IInv, ControlInv, Sealed
  <2>2. CASE i \in Message /\ j \in Message
    BY <1>1, <2>2 DEF IInv, OwnerInv
  <2>3. ASSUME NEW m \in Message, NEW n \in Message, i = ControlOf[m], j = ControlOf[n]
        PROVE  FALSE
    BY <1>1, <2>1, <2>3 DEF IInv, OwnerInv, Sealed
  <2>4. ASSUME NEW n \in Message, i \in Message, j = ControlOf[n]
        PROVE  i = n /\ status[n] = "conflict"
    BY <1>1, <2>1, <2>4 DEF IInv, OwnerInv, Sealed
  <2>5. ASSUME NEW m \in Message, j \in Message, i = ControlOf[m]
        PROVE  j = m /\ status[m] = "conflict"
    BY <1>1, <2>1, <2>5 DEF IInv, OwnerInv, Sealed
  <2> QED
    BY <2>2, <2>3, <2>4, <2>5, IdCases
<1> QED
    BY <1>1, Invariance, PTL

\* A permanent conflict is bound to foreign bytes, and those are never received.
LEMMA ConflictOut == IInv => ConflictNeverReceived
<1> SUFFICES ASSUME IInv, NEW m \in Message,
                    status[m] = "conflict" \/ ControlOf[m] \in received
             PROVE  m \notin received
    BY DEF ConflictNeverReceived
<1>1. status[m] = "conflict"
    BY ControlFacts, NoneFacts DEF IInv, TypeOK, ControlInv, CopyInv, HeldInv, Sealed
<1>2. bound[m] = Foreign
    BY <1>1, ControlFacts DEF IInv, StatusInv
<1> QED
    BY <1>2, NoneFacts DEF IInv, HeldInv

\* A message whose stored envelope was refused with 409 for ever (v2_daemon.go
\* deliverNext, retryV2) stays out of the inbox, repaired or not.
THEOREM ConflictExcluded == Spec => []ConflictNeverReceived
    BY ConflictOut, Invariance, PTL

\* The receiver's rows of its session are exactly 1..ReceiveSequence.
THEOREM InOrderOnce == Spec => []ReceivedInOrder
<1>1. ASSUME IInv PROVE ReceivedInOrder
  <2> SUFFICES ASSUME rSess # None
               PROVE  LET mine == {id \in received : env[id].sess = rSess}
                      IN  /\ {env[id].seq : id \in mine} = 1..recvSeq
                          /\ \A i, j \in mine : env[i].seq = env[j].seq => i = j
    BY DEF ReceivedInOrder
  <2> DEFINE mine == {id \in received : env[id].sess = rSess}
  <2>1. \A id \in received : id \in Id /\ env[id] \in Envelope /\ Sealed(id)
    BY <1>1, NoneFacts DEF IInv, TypeOK, HeldInv, CopyInv, Sealed
  <2>2. \A id \in mine : env[id].seq \in 1..recvSeq
    BY <1>1, <2>1 DEF IInv, TypeOK, PrefixInv, Envelope
  <2>3. \A n \in 1..recvSeq : \E id \in mine : env[id].seq = n
    BY <1>1 DEF IInv, PrefixInv
  <2>4. ASSUME NEW i \in mine, NEW j \in mine, env[i].seq = env[j].seq
        PROVE  i = j
    <3>1. env[i] = env[j]
        BY <2>1, <2>4 DEF Envelope
    <3>2. \A m \in Message : ~(m \in received /\ ControlOf[m] \in received)
        BY <1>1, ConflictOut DEF ConflictNeverReceived
    <3>3. CASE i \in Message /\ j \in Message
        BY <1>1, <2>1, <3>1, <3>3 DEF IInv, OwnerInv
    <3>4. ASSUME NEW m \in Message, NEW n \in Message,
                 i = ControlOf[m], j = ControlOf[n]
          PROVE  i = j
        BY <1>1, <2>1, <3>1, <3>4 DEF IInv, OwnerInv, ControlInv, Sealed
    <3>5. ASSUME NEW n \in Message, i \in Message, j = ControlOf[n]
          PROVE  FALSE
        BY <1>1, <2>1, <3>1, <3>2, <3>5 DEF IInv, OwnerInv, ControlInv, Sealed
    <3>6. ASSUME NEW m \in Message, j \in Message, i = ControlOf[m]
          PROVE  FALSE
        BY <1>1, <2>1, <3>1, <3>2, <3>6 DEF IInv, OwnerInv, ControlInv, Sealed
    <3> QED
        BY <2>1, <3>3, <3>4, <3>5, <3>6, IdCases
  <2> QED
    BY <2>2, <2>3, <2>4
<1> QED
    BY <1>1, Invariance, PTL

\* The Platform drops a message only after the receiver's durable commit of it
\* (the acknowledgement of v2_daemon.go follows CommitInbox).
THEOREM AcknowledgedLast == Spec => []AcknowledgedIsReceived
<1>1. IInv => AcknowledgedIsReceived
    BY DEF IInv
<1> QED
    BY <1>1, Invariance, PTL

\* A message reported as queued is bound, with the bytes of its envelope, at the
\* Platform: a receipt is never taken from an answer about other bytes.
THEOREM AdmittedOnReceipt == Spec => []QueuedIsAdmitted
<1>1. IInv => QueuedIsAdmitted
    BY DEF IInv, StatusInv, QueuedIsAdmitted
<1> QED
    BY <1>1, Invariance, PTL

\* Both: from the receipt on, the Platform or the receiver has the message.
THEOREM CustodyKept == Spec => []Custody
    BY AcknowledgedLast, AdmittedOnReceipt, PTL DEF Custody

\* An envelope that may still be sent was sealed under the saved policy: a new
\* policy leaves nothing pending of the old one.
THEOREM PolicyCurrent == Spec => []PendingIsCurrent
<1>1. IInv => PendingIsCurrent
    BY DEF IInv
<1> QED
    BY <1>1, Invariance, PTL

\* A message withdrawn before it was under way stays withdrawn.
THEOREM WithdrawalIsFinal == Spec => WithdrawnStaysWithdrawn
<1>1. ASSUME IInv, [Next]_vars, NEW id \in Id, Withdrawn(id)
      PROVE  Withdrawn(id)'
  <2>1. status[id] \notin {"none", "accepted", "conflict"} /\ waiting # id
    BY <1>1, NoneFacts DEF IInv, StoreInv, Withdrawn
  <2>2. CASE UNCHANGED vars \/ ReceiverStep \/ TimeStep
    BY <1>1, <2>2
    DEF Withdrawn, vars, outbox, platform, ReceiverStep, RDrop, RRefresh, RJoin, Process,
        TimeStep, PassDeadline, OutliveEnvelope
  <2>3. CASE PlatformStep
    BY <1>1, <2>3
    DEF IInv, TypeOK, Withdrawn, outbox, PlatformStep, NewPolicy, HandleStore, Admit, Repeat,
        Refuse
  <2>4. CASE SenderStep
    <3>1. status'[id] = status[id]
        BY <1>1, <2>1, <2>4, ControlFacts
        DEF IInv, TypeOK, outbox, SenderStep, SDrop, SRefresh, Record, GiveUp, SJoin, Accept,
            Expire, ScheduleSkip, DeliverEntry, Seal, StoreAgain, Quarantine, Due
    <3>2. bound' = bound
        BY <2>4
        DEF platform, SenderStep, SDrop, SRefresh, Record, GiveUp, SJoin, Accept,
            Expire, ScheduleSkip, DeliverEntry, Seal, StoreAgain, Quarantine
    <3>3. \A q \in req' : q \in req \/ status[q.id] = "accepted"
        BY <2>4
        DEF SenderStep, SDrop, SRefresh, Record, GiveUp, SJoin, Accept, Expire, ScheduleSkip,
            DeliverEntry, Seal, StoreAgain, Quarantine, StartStore, Due
    <3> QED
        BY <1>1, <2>1, <3>1, <3>2, <3>3 DEF Withdrawn
  <2> QED
    BY <1>1, <2>2, <2>3, <2>4 DEF Next
<1>2. IInv /\ [Next]_vars => \A id \in Id : Withdrawn(id) => Withdrawn(id)'
    BY <1>1
<1> QED
    BY <1>2, Invariance, PTL DEF Spec, WithdrawnStaysWithdrawn

-----------------------------------------------------------------------------
(* The refinement                                                           *)

\* The initial states are those of the channel.
LEMMA ChannelInit == Init => Channel!Init
    BY ControlFacts DEF Init, Channel!Init

\* Steps that change neither a message's envelope, nor what is in conflict, nor
\* the inbox are stutters of the channel.
LEMMA ChannelStutter ==
    ASSUME \A m \in Message : /\ env'[m] = env[m]
                              /\ status'[m] = "conflict" <=> status[m] = "conflict",
           received' \cap Message = received \cap Message
    PROVE  UNCHANGED Channel!vars
<1>1. [m \in Message |-> env[m]]' = [m \in Message |-> env[m]]
    OBVIOUS
<1>2. {m \in Message : status[m] = "conflict"}' = {m \in Message : status[m] = "conflict"}
    OBVIOUS
<1> QED
    BY <1>1, <1>2 DEF Channel!vars

\* Sealing a message offers it: its sequence is above those of its session.
LEMMA SealOffers ==
    ASSUME IInv, NEW id \in Id, Seal(id)
    PROVE  Channel!Next
<1> DEFINE e == [sess |-> sSess, seq |-> sendSeq + 1]
<1>1. id \in Message
    BY IdCases, ControlFacts, NoneFacts DEF IInv, ControlInv, Sealed, Seal, Due
<1>2. /\ env[id] = None /\ env' = [env EXCEPT ![id] = e] /\ status' = status
      /\ received' = received
    BY DEF Seal, receiver
<1>3. e \in Envelope /\ sSess # None
    BY DEF IInv, TypeOK, Envelope, Seal
<1>4. \A k \in Message : (env[k] # None /\ env[k].sess = sSess) => env[k].seq < e.seq
    BY ControlFacts DEF IInv, TypeOK, CountInv, Sealed, Envelope, Seal
<1>5. env' \in [Id -> Envelope \cup {None}] /\ env'[id] = e
    BY <1>2, <1>3 DEF IInv, TypeOK
<1>6. Channel!Offer(id)
  <2>1. [m \in Message |-> env[m]]' = [[m \in Message |-> env[m]] EXCEPT ![id] = e]
    BY <1>1, <1>2, ControlFacts DEF IInv, TypeOK
  <2> QED
    BY <1>1, <1>2, <1>3, <1>4, <1>5, <2>1 DEF Channel!Offer, Channel!Slot, Envelope
<1> QED
    BY <1>1, <1>6 DEF Channel!Next

\* A recorded conflict of a message cancels it; any other answer is a stutter.
LEMMA RecordCancels ==
    ASSUME IInv, Record
    PROVE  Channel!Next \/ UNCHANGED Channel!vars
<1>1. /\ waiting \in Id /\ env' = env /\ received' = received
      /\ status[waiting] = "accepted" /\ Sealed(waiting)
      /\ status' = [status EXCEPT ![waiting] = Outcome]
    BY DEF IInv, TypeOK, StoreInv, Record, receiver
<1>2. CASE waiting \in Message /\ resp = "conflict"
  <2>1. PICK m \in Message : m = waiting
    BY <1>2
  <2>2. m \notin received
    BY <1>2, <2>1, NoneFacts DEF IInv, StoreInv, HeldInv, Record
  <2>3. {k \in Message : status'[k] = "conflict"}
           = {k \in Message : status[k] = "conflict"} \cup {m}
    BY <1>1, <1>2, <2>1, ControlFacts DEF IInv, TypeOK, Outcome
  <2>4. Channel!Cancel(m)
    BY <1>1, <2>1, <2>2, <2>3 DEF Channel!Cancel, Sealed
  <2> QED
    BY <2>4 DEF Channel!Next
<1>3. CASE ~(waiting \in Message /\ resp = "conflict")
  <2>1. \A m \in Message : status'[m] = "conflict" <=> status[m] = "conflict"
    BY <1>1, <1>3, ControlFacts DEF IInv, TypeOK, Outcome
  <2> QED
    BY <1>1, <2>1, ChannelStutter
<1> QED
    BY <1>2, <1>3

\* A message is committed only when every earlier slot was delivered, or was
\* given up and filled by its control.
LEMMA ProcessDelivers ==
    ASSUME IInv, NEW id \in Id, Process(id)
    PROVE  Channel!Next \/ UNCHANGED Channel!vars
<1>1. /\ env' = env /\ status' = status /\ rSess # None /\ recvSeq \in Nat
      /\ bound[id] \in Envelope /\ bound[id] = env[id] /\ env[id].sess = rSess
    BY NoneFacts DEF IInv, TypeOK, CopyInv, Process, Valid, Envelope, outbox
<1>2. CASE id \in received \/ id \notin Message
  <2>1. received' \cap Message = received \cap Message
    BY <1>2 DEF Process, Receive
  <2> QED
    BY <1>1, <2>1, ChannelStutter
<1>3. CASE id \in Message /\ id \notin received
  <2>1. received' = received \cup {id} /\ env[id].seq = recvSeq + 1
    BY <1>1, <1>3 DEF Process, Receive
  <2>2. env[id] # None /\ status[id] # "conflict"
    BY <1>1, NoneFacts DEF IInv, StatusInv
  <2>3. ASSUME NEW k \in Message, env[k] # None, env[k].sess = rSess,
               env[k].seq < env[id].seq
        PROVE  k \in received \/ status[k] = "conflict"
    <3>0. k \in Id /\ id \in Id /\ env \in [Id -> Envelope \cup {None}]
        BY <2>3, ControlFacts DEF IInv, TypeOK
    <3>1. k \in Id /\ env[k] \in Envelope /\ env[k].seq \in 1..recvSeq
      <4>1. env[k] \in Envelope /\ env[id] \in Envelope
          BY <1>1, <2>3, <3>0
      <4> QED
          BY <1>1, <2>1, <2>3, <3>0, <4>1 DEF Envelope
    <3>2. PICK j \in received : env[j].sess = rSess /\ env[j].seq = env[k].seq
        BY <1>1, <3>1 DEF IInv, PrefixInv
    <3>3. j \in Id /\ env[j] \in Envelope /\ env[j] = env[k]
        BY <2>3, <3>1, <3>2 DEF IInv, TypeOK, HeldInv, CopyInv, Envelope
    <3>4. CASE j \in Message
        BY <2>3, <3>2, <3>3, <3>4 DEF IInv, OwnerInv, Sealed
    <3>5. ASSUME NEW n \in Message, j = ControlOf[n] PROVE status[k] = "conflict"
        BY <2>3, <3>3, <3>5 DEF IInv, OwnerInv, ControlInv, Sealed
    <3> QED
        BY <3>3, <3>4, <3>5, IdCases
  <2>4. Channel!Deliver(id)
    BY <1>1, <1>3, <2>1, <2>2, <2>3 DEF Channel!Deliver, Channel!Before
  <2> QED
    BY <1>3, <2>4 DEF Channel!Next
<1> QED
    BY <1>2, <1>3

\* Every step is one of the channel or a stutter.
LEMMA ChannelStep == IInv /\ [Next]_vars => [Channel!Next]_(Channel!vars)
<1> SUFFICES ASSUME IInv, [Next]_vars PROVE Channel!Next \/ UNCHANGED Channel!vars
    OBVIOUS
<1>1. CASE UNCHANGED vars \/ PlatformStep \/ TimeStep \/ RDrop \/ RRefresh
              \/ \E s \in Session : RJoin(s)
  <2>1. env' = env /\ status' = status /\ received' = received
    BY <1>1
    DEF vars, outbox, receiver, PlatformStep, NewPolicy, HandleStore, TimeStep, PassDeadline,
        OutliveEnvelope, RDrop, RRefresh, RJoin
  <2> QED
    BY <2>1, ChannelStutter
<1>2. CASE SDrop \/ SRefresh \/ GiveUp \/ (\E s \in Session : SJoin(s))
              \/ (\E m \in Message : Accept(m) \/ Expire(m) \/ ScheduleSkip(m))
              \/ (\E id \in Id : StoreAgain(id) \/ Quarantine(id))
  <2>1. received' = received
    BY <1>2
    DEF receiver, SDrop, SRefresh, GiveUp, SJoin, Accept, Expire, ScheduleSkip, StoreAgain,
        Quarantine
  <2>2. \A m \in Message : env'[m] = env[m]
    BY <1>2, ControlFacts
    DEF IInv, TypeOK, outbox, SDrop, SRefresh, GiveUp, SJoin, Accept, Expire, ScheduleSkip,
        StoreAgain, Quarantine
  <2>3. \A m \in Message : status'[m] = "conflict" <=> status[m] = "conflict"
    BY <1>2, ControlFacts
    DEF IInv, TypeOK, outbox, SDrop, SRefresh, GiveUp, SJoin, Accept, Expire, ScheduleSkip,
        StoreAgain, Quarantine, Due
  <2> QED
    BY <2>1, <2>2, <2>3, ChannelStutter
<1> QED
    BY <1>1, <1>2, SealOffers, RecordCancels, ProcessDelivers
    DEF Next, SenderStep, ReceiverStep, DeliverEntry

\* The helpers implement the ordered channel, for any number of messages,
\* sessions and policies.
THEOREM Refinement == Spec => ChannelSpec
    BY Invariance, ChannelInit, ChannelStep, PTL DEF Spec, ChannelSpec, Channel!Spec
=============================================================================
