---------------------------- MODULE V2Handshake ----------------------------
(***************************************************************************)
(* The signed ephemeral handshake two helpers run through the Platform:    *)
(* cmd/helper/v2_daemon.go (processFrames, handleInit, handleAccept,       *)
(* handleFinished, resendPending, startHandshake) over the durable tables  *)
(* of cmd/helper/v2_mailbox.go and the frames of v2/handshake.go.          *)
(*                                                                         *)
(* Every helper is one goroutine that runs a tick every two seconds: it    *)
(* retrieves its unacknowledged frames, handles them in order, replays the *)
(* pending handshakes and looks at the outbox.  Any request of a tick may  *)
(* fail, or take effect while its response is lost; the helper may stop    *)
(* between any two durable writes.  The tables survive, the batch in hand  *)
(* does not.                                                               *)
(*                                                                         *)
(* A frame is a record: its payload is abstracted to tx, the number of the *)
(* Accept whose nonce and ephemeral key it binds (0 in an Init).  The pair *)
(* (sid, tx) stands for the transcript and so for the derived secret.      *)
(***************************************************************************)
EXTENDS Naturals, Sequences, FiniteSets, SequencesExt

CONSTANTS
    A, B,          \* the two helpers; the URN of A sorts before the URN of B
    MaxMsgs,       \* messages each helper may have waiting at the start
    MaxSid,        \* bound: handshakes started in one behaviour
    MaxTx,         \* bound: Accepts created in one behaviour
    MaxExpired,    \* bound: handshakes whose one-hour lifetime runs out
    FaultKinds,    \* the requests and writes that may fail
    MaxFaults      \* bound: failures in one behaviour

AllFaults == {"retrieve", "save", "init", "accept", "finished", "resolve", "erase",
              "mark", "ack", "crash"}

ASSUME HandshakeAssumption ==
    /\ A # B
    /\ MaxMsgs \in Nat /\ MaxSid \in Nat /\ MaxTx \in Nat
    /\ MaxExpired \in Nat /\ MaxFaults \in Nat
    /\ FaultKinds \subseteq AllFaults

VARIABLES
    record,    \* helper_v2_handshakes: the pending handshakes of each helper
    session,   \* helper_v2_sessions: the session of each helper with its peer
    seen,      \* helper_v2_seen_frames
    outbox,    \* accepted messages of each helper that have no envelope yet
    batch,     \* frames the running tick has retrieved and not yet handled
    phase,     \* where the tick of each helper is
    box,       \* the Platform's queue of unacknowledged frames, per recipient
    wire,      \* every frame the Platform ever stored (history)
    expired,   \* handshakes whose lifetime has run out
    nextSid, nextTx, faults

store == <<record, session, seen, outbox>>
tick == <<batch, phase>>
vars == <<record, session, seen, outbox, batch, phase, box, wire,
          expired, nextSid, nextTx, faults>>

Node == {A, B}
Peer(p) == IF p = A THEN B ELSE A
SortsFirst(p) == p = A

NoSession == [sid |-> 0, tx |-> 0, ready |-> FALSE, snd |-> 0]
\* A session is saved after its own Finished is made, so OwnFinishedSent holds
\* in every saved session and Ready() is PeerFinishedVerified.
NewSession(sid, tx) == [sid |-> sid, tx |-> tx, ready |-> FALSE, snd |-> 0]

InitFrame(p, sid) == [type |-> "init", from |-> p, sid |-> sid, tx |-> 0]
AcceptFrame(p, sid, tx) == [type |-> "accept", from |-> p, sid |-> sid, tx |-> tx]
FinishedFrame(p, sid, tx) == [type |-> "finished", from |-> p, sid |-> sid, tx |-> tx]

Frame == [type : {"init", "accept", "finished"}, from : Node,
          sid : 1..MaxSid, tx : 0..MaxTx]
Record == [sid : 1..MaxSid, role : {"initiator", "responder"}, tx : 0..MaxTx]
Session == [sid : 0..MaxSid, tx : 0..MaxTx, ready : BOOLEAN, snd : 0..MaxMsgs]

TypeOK ==
    /\ record \in [Node -> SUBSET Record]
    /\ session \in [Node -> Session]
    /\ seen \in [Node -> SUBSET Frame]
    /\ outbox \in [Node -> 0..MaxMsgs]
    /\ \A p \in Node : /\ batch[p] \in Seq(Frame)
                       /\ box[p] \in Seq(Frame)
    /\ phase \in [Node -> {"idle", "frames", "resend", "deliver"}]
    /\ wire \in SUBSET Frame
    /\ expired \in SUBSET (1..MaxSid)
    /\ nextSid \in 1..(MaxSid + 1)
    /\ nextTx \in 1..(MaxTx + 1)
    /\ faults \in 0..MaxFaults

Init ==
    /\ record = [p \in Node |-> {}]
    /\ session = [p \in Node |-> NoSession]
    /\ seen = [p \in Node |-> {}]
    /\ outbox \in [Node -> 0..MaxMsgs]
    /\ batch = [p \in Node |-> <<>>]
    /\ phase = [p \in Node |-> "idle"]
    /\ box = [p \in Node |-> <<>>]
    /\ wire = {}
    /\ expired = {}
    /\ nextSid = 1 /\ nextTx = 1 /\ faults = 0

-----------------------------------------------------------------------------
(* The Platform (external): it refuses an Init or Accept whose lifetime is  *)
(* over and keeps one row per frame until the recipient acknowledges it.    *)

Relayable(f) == f.type = "finished" \/ f.sid \notin expired

Keep(q, f) == IF f \in ToSet(q) \/ ~Relayable(f) THEN q ELSE Append(q, f)

\* After the StoreFrame calls of one handler, two at most.
Queued(q, fs) ==
    CASE Len(fs) = 0 -> q
      [] Len(fs) = 1 -> Keep(q, fs[1])
      [] Len(fs) = 2 -> Keep(Keep(q, fs[1]), fs[2])

\* After the acknowledgement of f.
Without(q, f) ==
    IF f \in ToSet(q) THEN RemoveAt(q, CHOOSE i \in DOMAIN q : q[i] = f) ELSE q

Post(p, fs) ==
    /\ box' = [box EXCEPT ![Peer(p)] = Queued(@, fs)]
    /\ wire' = wire \cup {f \in ToSet(fs) : Relayable(f)}

Fault(kind) ==
    /\ kind \in FaultKinds
    /\ faults < MaxFaults
    /\ faults' = faults + 1

\* A StoreFrame of f that returns an error: the Platform may have kept f.
PostFailed(p, f, kind) ==
    /\ Fault(kind)
    /\ \E reached \in {<<>>, <<f>>} : Post(p, reached)

-----------------------------------------------------------------------------
(* processFrames: what becomes of the frame at the head of the batch.       *)

Finish(p, f, fs, acked) ==
    /\ batch' = [batch EXCEPT ![p] = Tail(@)]
    /\ box' = [box EXCEPT ![Peer(p)] = Queued(@, fs),
                          ![p] = IF acked THEN Without(@, f) ELSE @]
    /\ wire' = wire \cup {g \in ToSet(fs) : Relayable(g)}

\* Mutant: a frame that was handled is not marked seen.
HandledUnmarked(p, f, fs) ==
    /\ UNCHANGED seen
    /\ \/ Finish(p, f, fs, TRUE) /\ UNCHANGED faults
       \/ Finish(p, f, fs, FALSE) /\ Fault("ack")

\* The handler returned nil, having stored fs for the peer: the frame is
\* marked seen and then acknowledged; either write may fail.
Handled(p, f, fs) ==
    \/ /\ seen' = [seen EXCEPT ![p] = @ \cup {f}]
       /\ \/ Finish(p, f, fs, TRUE) /\ UNCHANGED faults
          \/ Finish(p, f, fs, FALSE) /\ Fault("ack")
    \/ /\ UNCHANGED seen
       /\ Finish(p, f, fs, FALSE) /\ Fault("mark")

\* The handler returned an error: the frame stays unseen and unacknowledged.
HandlerFailed(p, f, fs) ==
    /\ UNCHANGED seen
    /\ Finish(p, f, fs, FALSE)

\* The last StoreFrame of the handler returns an error: the Platform has the
\* frames before it, or all of them.
HandlerPostFailed(p, f, before, all, kind) ==
    /\ Fault(kind)
    /\ \E reached \in {before, all} : HandlerFailed(p, f, reached)

Rejected(p, f) ==
    /\ HandlerFailed(p, f, <<>>)
    /\ UNCHANGED <<record, session, nextTx, faults>>

\* retireV2Handshake refuses while an unfinished session depends on the record.
Retirable(p, r) == session[p].sid # r.sid \/ session[p].ready

-----------------------------------------------------------------------------
(* handleInit *)

\* handleInit after the tie-break: kept are the records it left in place.
Respond(p, f, kept) ==
    LET mine == {r \in kept : r.sid = f.sid}
        tx == IF mine = {} THEN nextTx ELSE (CHOOSE r \in mine : TRUE).tx
        accept == AcceptFrame(p, f.sid, tx)
        fin == FinishedFrame(p, f.sid, tx)
        saved == [session EXCEPT ![p] = NewSession(f.sid, tx)]
    IN  /\ tx <= MaxTx
        /\ nextTx' = IF mine = {} THEN nextTx + 1 ELSE nextTx
        /\ record' = [record EXCEPT ![p] =
                         kept \cup {[sid |-> f.sid, role |-> "responder", tx |-> tx]}]
        /\ \/ UNCHANGED session /\ HandlerPostFailed(p, f, <<>>, <<accept>>, "accept")
           \/ UNCHANGED session /\ Fault("resolve") /\ HandlerFailed(p, f, <<accept>>)
           \/ session' = saved /\ HandlerPostFailed(p, f, <<accept>>, <<accept, fin>>, "finished")
           \/ session' = saved /\ Handled(p, f, <<accept, fin>>)

\* Mutant: a simultaneous Init does not replace the handshake already pending.
HandleInitKeepsBoth(p, f) == Respond(p, f, record[p])

\* The record that gives way is deleted, and its successor not written: the
\* write fails, or the helper stops between the two.
Vacates(p, f, r) ==
    /\ Fault("save")
    /\ record' = [record EXCEPT ![p] = @ \ {r}]
    /\ UNCHANGED <<session, nextTx>>
    /\ HandlerFailed(p, f, <<>>)

HandleInit(p, f) ==
    LET other == {r \in record[p] : r.sid # f.sid}
    IN  \/ other = {} /\ Respond(p, f, record[p])
        \/ \E r \in other :
              \/ /\ r.sid \in expired /\ Retirable(p, r)
                 /\ Respond(p, f, record[p] \ {r}) \/ Vacates(p, f, r)
              \/ /\ r.sid \in expired /\ ~Retirable(p, r)
                 /\ Rejected(p, f)
              \/ /\ r.sid \notin expired /\ SortsFirst(p)
                 /\ Handled(p, f, <<>>)
                 /\ UNCHANGED <<record, session, nextTx>>
              \/ /\ r.sid \notin expired /\ ~SortsFirst(p)
                 /\ Respond(p, f, record[p] \ {r}) \/ Vacates(p, f, r)

(* handleAccept *)
HandleAccept(p, f) ==
    LET fin == FinishedFrame(p, f.sid, f.tx)
        saved == [session EXCEPT ![p] = NewSession(f.sid, f.tx)]
    IN  IF ~\E r \in record[p] : r.sid = f.sid /\ r.role = "initiator"
        THEN Rejected(p, f)
        ELSE /\ UNCHANGED <<record, nextTx>>
             /\ \/ UNCHANGED session /\ Fault("resolve") /\ HandlerFailed(p, f, <<>>)
                \/ session' = saved /\ HandlerPostFailed(p, f, <<>>, <<fin>>, "finished")
                \/ session' = saved /\ Handled(p, f, <<fin>>)

\* Mutant: a Finished of the right session is believed whatever it binds.
VerifyFinishedIdOnly(p, f) == session[p].sid = f.sid

\* VerifyFinished: the session and the MAC over its transcript.
VerifyFinished(p, f) == session[p].sid = f.sid /\ session[p].tx = f.tx

\* The ready session is saved and its pending handshake, with the ephemeral
\* secret, deleted; an error of the deletion is ignored, and the helper may also
\* stop between the two.
(* handleFinished *)
HandleFinished(p, f) ==
    IF ~VerifyFinished(p, f)
    THEN Rejected(p, f)
    ELSE /\ session' = [session EXCEPT ![p].ready = TRUE]
         /\ UNCHANGED nextTx
         /\ \/ /\ record' = [record EXCEPT ![p] = {r \in @ : r.sid # f.sid}]
               /\ Handled(p, f, <<>>)
            \/ /\ Fault("erase")
               /\ UNCHANGED record
               /\ \E marked \in BOOLEAN :
                     /\ seen' = IF marked THEN [seen EXCEPT ![p] = @ \cup {f}] ELSE seen
                     /\ Finish(p, f, <<>>, marked)

-----------------------------------------------------------------------------
(* The tick *)

\* RetrieveFrames
BeginTick(p) ==
    /\ phase[p] = "idle"
    /\ phase' = [phase EXCEPT ![p] = "frames"]
    /\ \/ batch' = [batch EXCEPT ![p] = box[p]] /\ UNCHANGED faults
       \/ UNCHANGED batch /\ Fault("retrieve")
    /\ UNCHANGED <<store, box, wire, expired, nextSid, nextTx>>

\* A frame already seen is only acknowledged again.
Reacknowledge(p, f) ==
    /\ UNCHANGED <<record, session, seen, nextTx>>
    /\ \/ Finish(p, f, <<>>, TRUE) /\ UNCHANGED faults
       \/ Finish(p, f, <<>>, FALSE) /\ Fault("ack")

ProcessFrame(p) ==
    /\ phase[p] = "frames"
    /\ batch[p] # <<>>
    /\ LET f == Head(batch[p]) IN
          \/ f \in seen[p] /\ Reacknowledge(p, f)
          \/ f \notin seen[p] /\ ~Relayable(f) /\ Rejected(p, f)
          \/ /\ f \notin seen[p] /\ Relayable(f)
             /\ \/ f.type = "init" /\ HandleInit(p, f)
                \/ f.type = "accept" /\ HandleAccept(p, f)
                \/ f.type = "finished" /\ HandleFinished(p, f)
    /\ UNCHANGED <<outbox, phase, expired, nextSid>>

EndFrames(p) ==
    /\ phase[p] = "frames"
    /\ batch[p] = <<>>
    /\ phase' = [phase EXCEPT ![p] = "resend"]
    /\ UNCHANGED <<store, batch, box, wire, expired, nextSid, nextTx, faults>>

Pending(p, r) == IF r.role = "initiator" THEN InitFrame(p, r.sid)
                                         ELSE AcceptFrame(p, r.sid, r.tx)

\* retireV2Handshake, or the deletion of a record a ready session needs no more.
Drop(p, r) ==
    /\ UNCHANGED <<box, wire>>
    /\ \/ record' = [record EXCEPT ![p] = @ \ {r}] /\ UNCHANGED faults
       \/ UNCHANGED record /\ Fault("erase")

Replay(p, f) ==
    /\ UNCHANGED record
    /\ \/ Post(p, <<f>>) /\ UNCHANGED faults
       \/ PostFailed(p, f, f.type)

\* Mutant: the Finished of the recorded session is replayed even if it is ready.
ResendOneReplaysFirst(p, r) ==
    LET s == session[p]
    IN  CASE s.sid = r.sid -> Replay(p, FinishedFrame(p, s.sid, s.tx))
          [] s.sid # r.sid /\ s.ready -> Drop(p, r)
          [] s.sid # r.sid /\ ~s.ready /\ r.sid \in expired -> Drop(p, r)
          [] OTHER -> Replay(p, Pending(p, r))

\* A pending handshake is dropped once a session is ready, completed by the
\* Finished it owes, retired when its time is over, or replayed.
ResendOne(p, r) ==
    LET s == session[p]
    IN  CASE s.ready -> Drop(p, r)
          [] ~s.ready /\ s.sid = r.sid -> Replay(p, FinishedFrame(p, s.sid, s.tx))
          [] ~s.ready /\ s.sid # r.sid /\ r.sid \in expired -> Drop(p, r)
          [] OTHER -> Replay(p, Pending(p, r))

\* Mutant: what was lost is never sent again.
ResendNothing(p) ==
    /\ phase[p] = "resend"
    /\ phase' = [phase EXCEPT ![p] = "deliver"]
    /\ UNCHANGED <<store, batch, box, wire, expired, nextSid, nextTx, faults>>

\* resendPending; AtMostOneHandshake makes its loop over the records one step.
Resend(p) ==
    /\ phase[p] = "resend"
    /\ phase' = [phase EXCEPT ![p] = "deliver"]
    /\ \/ record[p] = {} /\ UNCHANGED <<record, box, wire, faults>>
       \/ \E r \in record[p] : ResendOne(p, r)
    /\ UNCHANGED <<session, seen, outbox, batch, expired, nextSid, nextTx>>

\* startHandshake: a live handshake is left alone, a dead one is replaced.
StartHandshake(p) ==
    \/ /\ \E r \in record[p] : r.sid \notin expired \/ ~Retirable(p, r)
       /\ UNCHANGED <<record, box, wire, nextSid, faults>>
    \/ /\ \A r \in record[p] : r.sid \in expired /\ Retirable(p, r)
       /\ nextSid <= MaxSid
       /\ LET f == InitFrame(p, nextSid)
              r == [sid |-> nextSid, role |-> "initiator", tx |-> 0]
          IN  \/ /\ record' = [record EXCEPT ![p] = {}]
                 /\ Fault("resolve")
                 /\ UNCHANGED <<box, wire, nextSid>>
              \/ /\ record' = [record EXCEPT ![p] = {r}]
                 /\ nextSid' = nextSid + 1
                 /\ \/ Post(p, <<f>>) /\ UNCHANGED faults
                    \/ PostFailed(p, f, "init")

\* deliverNext for an entry without an envelope: seal it under the next
\* sequence of a ready session, or see to it that a handshake is under way.
Deliver(p) ==
    /\ phase[p] = "deliver"
    /\ outbox[p] > 0
    /\ phase' = [phase EXCEPT ![p] = "idle"]
    /\ \/ /\ session[p].ready
          /\ session' = [session EXCEPT ![p].snd = @ + 1]
          /\ outbox' = [outbox EXCEPT ![p] = @ - 1]
          /\ UNCHANGED <<record, box, wire, nextSid, faults>>
       \/ /\ ~session[p].ready
          /\ StartHandshake(p)
          /\ UNCHANGED <<session, outbox>>
    /\ UNCHANGED <<seen, batch, expired, nextTx>>

\* No entry is due: none is waiting, or its backoff has not run out.
NotDue(p) ==
    /\ phase[p] = "deliver"
    /\ phase' = [phase EXCEPT ![p] = "idle"]
    /\ UNCHANGED <<store, batch, box, wire, expired, nextSid, nextTx, faults>>

-----------------------------------------------------------------------------
(* The helper stops and starts again; time passes.                          *)

Crash(p) ==
    /\ phase[p] # "idle"
    /\ Fault("crash")
    /\ phase' = [phase EXCEPT ![p] = "idle"]
    /\ batch' = [batch EXCEPT ![p] = <<>>]
    /\ UNCHANGED <<store, box, wire, expired, nextSid, nextTx>>

Expire(sid) ==
    /\ sid < nextSid
    /\ Cardinality(expired) < MaxExpired
    /\ expired' = expired \cup {sid}
    /\ UNCHANGED <<store, tick, box, wire, nextSid, nextTx, faults>>

Tick(p) == BeginTick(p) \/ ProcessFrame(p) \/ EndFrames(p) \/ Resend(p)
              \/ Deliver(p) \/ NotDue(p)

Next ==
    \/ \E p \in Node : Tick(p) \/ Crash(p)
    \/ \E sid \in 1..MaxSid : sid \notin expired /\ Expire(sid)

Spec == Init /\ [][Next]_vars

\* The ticker of a running helper never stops, and a waiting entry becomes due
\* again and again; failures, stops and the passing of lifetimes are not fair.
Fairness ==
    \A p \in Node : WF_vars(Tick(p)) /\ SF_vars(Deliver(p))

FairSpec == Spec /\ Fairness

-----------------------------------------------------------------------------
(* Properties *)

\* A helper never has two handshakes pending with its peer, whatever Inits
\* cross, expire or are replayed: handleInit and startHandshake each dispose of
\* the record they find before they save another.
AtMostOneHandshake == \A p \in Node : Cardinality(record[p]) <= 1

\* A session is ready only if the peer has completed the same transcript: the
\* initiator's Init, this Accept and the peer's Finished for both were stored.
MatchingConversation ==
    \A p \in Node :
        LET s == session[p]
        IN  s.ready =>
              /\ FinishedFrame(Peer(p), s.sid, s.tx) \in wire
              /\ \E q \in Node : /\ InitFrame(q, s.sid) \in wire
                                /\ AcceptFrame(Peer(q), s.sid, s.tx) \in wire

\* v2/handshake.go:57 "SendSequence and ReceiveSequence are monotonic": while a
\* session keeps its identifier its send sequence never falls.
SendSequenceMonotonic ==
    [][\A p \in Node : session'[p].sid = session[p].sid
                          => session'[p].snd >= session[p].snd]_vars

\* Every accepted message is sealed at last: neither crossing Inits nor lost
\* frames, responses, acknowledgements or restarts leave the pair without a
\* ready session for ever.
EveryMessageSealed == \A p \in Node : outbox[p] > 0 ~> outbox[p] = 0

\* v2/handshake.go:55-56 the ephemeral private key is erased after both Finished
\* frames: a helper whose session is ready drops the pending record.
SecretErased == \A p \in Node : session[p].ready ~> record[p] = {}

=============================================================================
