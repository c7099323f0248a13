------------------------- MODULE V2HandshakeProofs -------------------------
(***************************************************************************)
(* V2Handshake, for any number of messages, handshakes, Accepts, expired   *)
(* handshakes and failures of any kind.                                    *)
(***************************************************************************)
EXTENDS V2Handshake, FiniteSetTheorems, TLAPS

-----------------------------------------------------------------------------
(* The invariant.                                                           *)

\* The queues are rows of frames, and a session has sealed no more than was
\* waiting for it.
RowInv ==
    /\ batch \in [Node -> Seq(Frame)] /\ box \in [Node -> Seq(Frame)]
    /\ \A p \in Node : session[p].snd + outbox[p] <= MaxMsgs

\* A helper is given frames its peer stored.
QueueInv ==
    \A p \in Node : \A f \in ToSet(batch[p]) \cup ToSet(box[p]) :
        f \in wire /\ f.from = Peer(p)

\* An identifier belongs to the helper that started with it, and an Accept
\* answers its Init.
WireInv ==
    \A f \in wire :
        /\ f.sid < nextSid
        /\ f.type = "accept" => InitFrame(Peer(f.from), f.sid) \in wire
        /\ f.type = "init" => /\ f = InitFrame(f.from, f.sid)
                              /\ InitFrame(Peer(f.from), f.sid) \notin wire

\* One pending handshake, begun by this helper or by the stored Init it answers.
RecordInv ==
    \A p \in Node :
        /\ \A r, s \in record[p] : r = s
        /\ \A r \in record[p] :
              /\ r.sid < nextSid
              /\ r.role = "initiator" =>
                    /\ InitFrame(Peer(p), r.sid) \notin wire
                    /\ \A s \in record[Peer(p)] : s.role = "initiator" => s.sid # r.sid
              /\ r.role = "responder" => InitFrame(Peer(p), r.sid) \in wire

\* What a saved session, and a ready one, rest on.
Answered(s) == \E q \in Node : /\ InitFrame(q, s.sid) \in wire
                               /\ AcceptFrame(Peer(q), s.sid, s.tx) \in wire
SessionInv ==
    \A p \in Node :
        /\ session[p].sid # 0 => Answered(session[p])
        /\ session[p].ready => /\ session[p].sid # 0
                               /\ FinishedFrame(Peer(p), session[p].sid, session[p].tx) \in wire

IInv == TypeOK /\ RowInv /\ QueueInv /\ WireInv /\ RecordInv /\ SessionInv

-----------------------------------------------------------------------------
(* Nodes, frames and queues.                                                *)

LEMMA NodeFacts ==
    /\ A \in Node /\ B \in Node
    /\ \A p \in Node : Peer(p) \in Node /\ Peer(p) # p /\ Peer(Peer(p)) = p
BY HandshakeAssumption DEF Node, Peer

LEMMA FrameFacts ==
    ASSUME NEW p \in Node, NEW sid \in 1..MaxSid, NEW tx \in 0..MaxTx
    PROVE  /\ InitFrame(p, sid) \in Frame /\ AcceptFrame(p, sid, tx) \in Frame
           /\ FinishedFrame(p, sid, tx) \in Frame
BY HandshakeAssumption DEF InitFrame, AcceptFrame, FinishedFrame, Frame

LEMMA KeepFacts ==
    ASSUME NEW q \in Seq(Frame), NEW f \in Frame
    PROVE  /\ Keep(q, f) \in Seq(Frame)
           /\ ToSet(Keep(q, f)) \subseteq ToSet(q) \cup {g \in {f} : Relayable(g)}
<1>1. CASE Keep(q, f) = q
    BY <1>1
<1>2. CASE Keep(q, f) = Append(q, f) /\ Relayable(f)
    <2>1. Append(q, f) \in Seq(Frame)
        OBVIOUS
    <2>2. ToSet(Append(q, f)) \subseteq ToSet(q) \cup {f}
        BY DEF ToSet
    <2> QED
        BY <1>2, <2>1, <2>2
<1> QED
    BY <1>1, <1>2 DEF Keep

\* The frames of a handler: none, one or two.
Some(fs) == fs \in Seq(Frame) /\ Len(fs) \in 0..2

LEMMA QueuedFacts ==
    ASSUME NEW q \in Seq(Frame), NEW fs, Some(fs)
    PROVE  /\ Queued(q, fs) \in Seq(Frame)
           /\ ToSet(Queued(q, fs)) \subseteq ToSet(q) \cup {g \in ToSet(fs) : Relayable(g)}
<1>1. CASE Len(fs) = 0
    BY <1>1 DEF Queued
<1>2. CASE Len(fs) = 1
    <2>1. fs[1] \in Frame /\ fs[1] \in ToSet(fs)
        BY <1>2 DEF Some, ToSet
    <2> QED
        BY <1>2, <2>1, KeepFacts DEF Queued
<1>3. CASE Len(fs) = 2
    <2>1. /\ fs[1] \in Frame /\ fs[1] \in ToSet(fs)
          /\ fs[2] \in Frame /\ fs[2] \in ToSet(fs)
        <3>1. DOMAIN fs = 1..2 /\ fs \in Seq(Frame)
            BY <1>3 DEF Some
        <3> QED
            BY <3>1 DEF ToSet
    <2> DEFINE kept == Keep(q, fs[1])
    <2>2. Queued(q, fs) = Keep(kept, fs[2])
        BY <1>3 DEF Queued
    <2>3. /\ kept \in Seq(Frame)
          /\ ToSet(kept) \subseteq ToSet(q) \cup {g \in {fs[1]} : Relayable(g)}
        BY <2>1, KeepFacts
    <2> HIDE DEF kept
    <2>4. /\ Keep(kept, fs[2]) \in Seq(Frame)
          /\ ToSet(Keep(kept, fs[2])) \subseteq ToSet(kept) \cup {g \in {fs[2]} : Relayable(g)}
        BY <2>1, <2>3, KeepFacts
    <2> QED
        BY <2>1, <2>2, <2>3, <2>4
<1> QED
    BY <1>1, <1>2, <1>3 DEF Some

LEMMA WithoutFacts ==
    ASSUME NEW q \in Seq(Frame), NEW f
    PROVE  Without(q, f) \in Seq(Frame) /\ ToSet(Without(q, f)) \subseteq ToSet(q)
<1>1. CASE f \notin ToSet(q)
    BY <1>1 DEF Without
<1>2. CASE f \in ToSet(q)
    <2> DEFINE i == CHOOSE j \in DOMAIN q : q[j] = f
    <2>1. i \in DOMAIN q
        BY <1>2 DEF ToSet
    <2>2. Without(q, f) = SubSeq(q, 1, i - 1) \o SubSeq(q, i + 1, Len(q))
        BY <1>2 DEF Without, RemoveAt
    <2> HIDE DEF i
    <2> DEFINE a == SubSeq(q, 1, i - 1)
               b == SubSeq(q, i + 1, Len(q))
    <2>3. a \in Seq(Frame) /\ b \in Seq(Frame)
        BY <2>1
    <2>4. ToSet(a) \subseteq ToSet(q) /\ ToSet(b) \subseteq ToSet(q)
        BY <2>1 DEF ToSet
    <2>5. Without(q, f) = a \o b
        BY <2>2
    <2> HIDE DEF a, b
    <2>6. a \o b \in Seq(Frame) /\ ToSet(a \o b) \subseteq ToSet(a) \cup ToSet(b)
        BY <2>3 DEF ToSet
    <2> QED
        BY <2>4, <2>5, <2>6
<1> QED
    BY <1>1, <1>2

LEMMA TailFacts ==
    ASSUME NEW q \in Seq(Frame), q # <<>>
    PROVE  /\ Tail(q) \in Seq(Frame) /\ ToSet(Tail(q)) \subseteq ToSet(q)
           /\ Head(q) \in Frame /\ Head(q) \in ToSet(q)
BY DEF ToSet

-----------------------------------------------------------------------------
(* What a step stores.                                                      *)

\* The frame f is done with, and fs went to the peer.
Stored(p, f, fs) == \E acked \in BOOLEAN : Finish(p, f, fs, acked)

LEMMA FinishFacts ==
    ASSUME IInv, NEW p \in Node, NEW f, NEW fs, Some(fs), \A g \in ToSet(fs) : g.from = p,
           batch[p] # <<>>, Stored(p, f, fs)
    PROVE  /\ batch' \in [Node -> Seq(Frame)] /\ box' \in [Node -> Seq(Frame)]
           /\ wire' = wire \cup {g \in ToSet(fs) : Relayable(g)}
           /\ wire' \subseteq Frame
           /\ QueueInv'
<1> PICK acked \in BOOLEAN : Finish(p, f, fs, acked)
    BY DEF Stored
<1> DEFINE q == Peer(p)
           new == Queued(box[q], fs)
           old == IF acked THEN Without(box[p], f) ELSE box[p]
<1>1. q \in Node /\ q # p /\ Peer(q) = p
    BY NodeFacts
<1>2. /\ batch' = [batch EXCEPT ![p] = Tail(@)]
      /\ box' = [box EXCEPT ![q] = new, ![p] = old]
      /\ wire' = wire \cup {g \in ToSet(fs) : Relayable(g)}
    BY <1>1 DEF Finish, IInv, RowInv
<1>3. /\ batch \in [Node -> Seq(Frame)] /\ box \in [Node -> Seq(Frame)]
    BY DEF IInv, RowInv
<1>4. new \in Seq(Frame) /\ ToSet(new) \subseteq ToSet(box[q]) \cup {g \in ToSet(fs) : Relayable(g)}
    BY <1>1, <1>3, QueuedFacts
<1>5. old \in Seq(Frame) /\ ToSet(old) \subseteq ToSet(box[p])
    BY <1>3, WithoutFacts
<1>6. Tail(batch[p]) \in Seq(Frame) /\ ToSet(Tail(batch[p])) \subseteq ToSet(batch[p])
    BY <1>3, TailFacts
<1> HIDE DEF q, new, old
<1>7. ToSet(fs) \subseteq Frame
    BY DEF Some, ToSet
<1>8. wire' \subseteq Frame
    BY <1>2, <1>7 DEF IInv, TypeOK
<1>9. QueueInv'
    <2> SUFFICES ASSUME NEW n \in Node,
                        NEW g \in ToSet(batch'[n]) \cup ToSet(box'[n])
                 PROVE  g \in wire' /\ g.from = Peer(n)
        BY DEF QueueInv
    <2>1. CASE g \in ToSet(batch[n]) \cup ToSet(box[n])
        BY <1>2, <2>1 DEF IInv, QueueInv
    <2>2. CASE g \notin ToSet(batch[n]) \cup ToSet(box[n])
        <3>1. n = q /\ g \in {h \in ToSet(fs) : Relayable(h)}
            BY <1>1, <1>2, <1>3, <1>4, <1>5, <1>6, <2>2
        <3> QED
            BY <1>1, <1>2, <3>1
    <2> QED
        BY <2>1, <2>2
<1> QED
    BY <1>1, <1>2, <1>3, <1>4, <1>5, <1>6, <1>8, <1>9

LEMMA PostFacts ==
    ASSUME IInv, NEW p \in Node, NEW fs, Some(fs), \A g \in ToSet(fs) : g.from = p,
           Post(p, fs), UNCHANGED batch
    PROVE  /\ box' \in [Node -> Seq(Frame)]
           /\ wire' = wire \cup {g \in ToSet(fs) : Relayable(g)}
           /\ wire' \subseteq Frame
           /\ QueueInv'
<1> DEFINE q == Peer(p)
           new == Queued(box[q], fs)
<1>1. q \in Node /\ q # p /\ Peer(q) = p
    BY NodeFacts
<1>2. box \in [Node -> Seq(Frame)]
    BY DEF IInv, RowInv
<1>3. /\ box' = [box EXCEPT ![q] = new]
      /\ wire' = wire \cup {g \in ToSet(fs) : Relayable(g)}
    BY DEF Post
<1>4. new \in Seq(Frame) /\ ToSet(new) \subseteq ToSet(box[q]) \cup {g \in ToSet(fs) : Relayable(g)}
    BY <1>1, <1>2, QueuedFacts
<1> HIDE DEF q, new
<1>5. ToSet(fs) \subseteq Frame
    BY DEF Some, ToSet
<1>6. wire' \subseteq Frame
    BY <1>3, <1>5 DEF IInv, TypeOK
<1>7. QueueInv'
    <2> SUFFICES ASSUME NEW n \in Node,
                        NEW g \in ToSet(batch'[n]) \cup ToSet(box'[n])
                 PROVE  g \in wire' /\ g.from = Peer(n)
        BY DEF QueueInv
    <2>1. CASE g \in ToSet(batch[n]) \cup ToSet(box[n])
        BY <1>3, <2>1 DEF IInv, QueueInv
    <2>2. CASE g \notin ToSet(batch[n]) \cup ToSet(box[n])
        <3>1. n = q /\ g \in {h \in ToSet(fs) : Relayable(h)}
            BY <1>1, <1>2, <1>3, <1>4, <2>2
        <3> QED
            BY <1>1, <1>3, <3>1
    <2> QED
        BY <2>1, <2>2
<1> QED
    BY <1>1, <1>2, <1>3, <1>4, <1>6, <1>7

\* What one helper adds to the wire keeps identifiers apart.
LEMMA WireGrows ==
    ASSUME IInv, NEW p \in Node, NEW new,
           wire' = wire \cup new, nextSid \in Nat, nextSid' \in Nat, nextSid <= nextSid',
           \A g \in new : /\ g.from = p /\ g.sid \in Nat /\ g.sid < nextSid'
                          /\ g.type = "accept" => InitFrame(Peer(p), g.sid) \in wire
                          /\ g.type = "init" => /\ g = InitFrame(p, g.sid)
                                                /\ InitFrame(Peer(p), g.sid) \notin wire
    PROVE  WireInv'
<1> SUFFICES ASSUME NEW f \in wire' PROVE
        /\ f.sid < nextSid'
        /\ f.type = "accept" => InitFrame(Peer(f.from), f.sid) \in wire'
        /\ f.type = "init" => /\ f = InitFrame(f.from, f.sid)
                              /\ InitFrame(Peer(f.from), f.sid) \notin wire'
    BY DEF WireInv
<1>1. CASE f \in wire
    <2>1. f \in Frame /\ f.sid \in Nat
        BY <1>1 DEF IInv, TypeOK, Frame
    <2>2. f.sid < nextSid'
        BY <1>1, <2>1 DEF IInv, WireInv
    <2>3. ASSUME f.type = "init", InitFrame(Peer(f.from), f.sid) \in new PROVE FALSE
        <3>1. Peer(f.from) = p
            BY <2>3 DEF InitFrame
        <3>2. f.from = Peer(p)
            BY <2>1, <3>1, NodeFacts DEF Frame
        <3>3. f = InitFrame(Peer(p), f.sid)
            BY <1>1, <2>3, <3>2 DEF IInv, WireInv
        <3> QED
            BY <1>1, <2>3, <3>3 DEF InitFrame
    <2> QED
        BY <1>1, <2>2, <2>3 DEF IInv, WireInv
<1>2. CASE f \in new
    <2>1. ASSUME f.type = "init", InitFrame(Peer(f.from), f.sid) \in new PROVE FALSE
        BY <1>2, <2>1, NodeFacts DEF InitFrame
    <2> QED
        BY <1>2, <2>1
<1> QED
    BY <1>1, <1>2

\* Sessions stand on frames that were stored, and what was stored stays so.
LEMMA SessionsStand ==
    ASSUME IInv, wire \subseteq wire', NEW p \in Node,
           \A q \in Node \ {p} : session'[q] = session[q],
           \/ /\ session'[p].sid = session[p].sid /\ session'[p].tx = session[p].tx
              /\ session'[p].ready = session[p].ready
           \/ /\ \E q \in Node : /\ InitFrame(q, session'[p].sid) \in wire'
                                 /\ AcceptFrame(Peer(q), session'[p].sid, session'[p].tx) \in wire'
              /\ session'[p].ready =>
                    /\ session'[p].sid # 0
                    /\ FinishedFrame(Peer(p), session'[p].sid, session'[p].tx) \in wire'
    PROVE  SessionInv'
<1> SUFFICES ASSUME NEW n \in Node
             PROVE  /\ session'[n].sid # 0 =>
                         \E q \in Node :
                            /\ InitFrame(q, session'[n].sid) \in wire'
                            /\ AcceptFrame(Peer(q), session'[n].sid, session'[n].tx) \in wire'
                    /\ session'[n].ready =>
                         /\ session'[n].sid # 0
                         /\ FinishedFrame(Peer(n), session'[n].sid, session'[n].tx) \in wire'
    BY DEF SessionInv, Answered
<1>1. /\ session[n].sid # 0 =>
            \E q \in Node : /\ InitFrame(q, session[n].sid) \in wire
                            /\ AcceptFrame(Peer(q), session[n].sid, session[n].tx) \in wire
      /\ session[n].ready =>
            /\ session[n].sid # 0
            /\ FinishedFrame(Peer(n), session[n].sid, session[n].tx) \in wire
    BY DEF IInv, SessionInv, Answered
<1>2. CASE n # p
    BY <1>1, <1>2
<1>3. CASE n = p
    BY <1>1, <1>3
<1> QED
    BY <1>2, <1>3

\* Frames other than Inits do not disturb the pending handshakes.
LEMMA RecordsStand ==
    ASSUME IInv, wire \subseteq wire', \A g \in wire' \ wire : g.type # "init",
           nextSid' = nextSid,
           NEW p \in Node, \A q \in Node \ {p} : record'[q] = record[q],
           record'[p] \subseteq record[p]
    PROVE  RecordInv'
<1>1. \A q \in Node, sid \in Nat :
          InitFrame(Peer(q), sid) \in wire' <=> InitFrame(Peer(q), sid) \in wire
    BY DEF InitFrame
<1>2. \A q \in Node : record'[q] \subseteq record[q] /\ \A r \in record[q] : r.sid \in Nat
    <2>1. \A q \in Node : record[q] \subseteq Record
        BY DEF IInv, TypeOK
    <2>2. \A r \in Record : r.sid \in Nat
        BY HandshakeAssumption DEF Record
    <2>3. \A q \in Node : record'[q] \subseteq record[q]
        OBVIOUS
    <2> QED
        BY <2>1, <2>2, <2>3
<1> QED
    BY <1>1, <1>2, NodeFacts DEF IInv, RecordInv

-----------------------------------------------------------------------------
(* The handlers.                                                            *)

LEMMA HeadFacts ==
    ASSUME IInv, NEW p \in Node, batch[p] # <<>>
    PROVE  /\ Head(batch[p]) \in Frame /\ Head(batch[p]) \in wire
           /\ Head(batch[p]).from = Peer(p)
           /\ Head(batch[p]).sid \in 1..MaxSid /\ Head(batch[p]).tx \in 0..MaxTx
           /\ Head(batch[p]).sid < nextSid
<1>1. batch[p] \in Seq(Frame)
    BY DEF IInv, RowInv
<1>2. Head(batch[p]) \in Frame /\ Head(batch[p]) \in ToSet(batch[p])
    BY <1>1, TailFacts
<1> QED
    BY <1>2 DEF IInv, QueueInv, WireInv, Frame

\* The marks a handled frame leaves, whatever fails.
Marked == seen' \in [Node -> SUBSET Frame] /\ faults' \in 0..MaxFaults

LEMMA FaultFacts ==
    ASSUME TypeOK, NEW kind, Fault(kind)
    PROVE  faults' \in 0..MaxFaults
BY HandshakeAssumption DEF TypeOK, Fault

LEMMA HandledFacts ==
    ASSUME IInv, NEW p \in Node, NEW f \in Frame, NEW fs, Handled(p, f, fs)
    PROVE  Stored(p, f, fs) /\ Marked
<1>1. Stored(p, f, fs)
    BY DEF Handled, Stored
<1>2. faults' \in 0..MaxFaults
    BY FaultFacts DEF Handled, IInv, TypeOK
<1>3. seen' \in [Node -> SUBSET Frame]
  <2>1. seen \in [Node -> SUBSET Frame]
      BY DEF IInv, TypeOK
  <2>2. seen' = seen \/ seen' = [seen EXCEPT ![p] = @ \cup {f}]
      BY DEF Handled
  <2> QED
      BY <2>1, <2>2
<1> QED
    BY <1>1, <1>2, <1>3 DEF Marked

LEMMA FailedFacts ==
    ASSUME IInv, NEW p \in Node, NEW f, NEW fs, HandlerFailed(p, f, fs),
           faults' \in 0..MaxFaults
    PROVE  Stored(p, f, fs) /\ Marked
BY DEF HandlerFailed, Stored, Marked, IInv, TypeOK

LEMMA PostFailedFacts ==
    ASSUME IInv, NEW p \in Node, NEW f, NEW before, NEW all, NEW kind,
           HandlerPostFailed(p, f, before, all, kind)
    PROVE  (Stored(p, f, before) \/ Stored(p, f, all)) /\ Marked
<1>1. faults' \in 0..MaxFaults
    BY FaultFacts DEF HandlerPostFailed, IInv
<1>2. HandlerFailed(p, f, before) \/ HandlerFailed(p, f, all)
    BY DEF HandlerPostFailed
<1> QED
    BY <1>1, <1>2, FailedFacts

\* A handler of p that stored fs keeps the invariant, if it keeps the parts about
\* its own handshakes and session.
LEMMA HandlerKeeps ==
    ASSUME IInv, NEW p \in Node, batch[p] # <<>>, NEW f, NEW fs, Some(fs), Stored(p, f, fs),
           \A g \in ToSet(fs) :
              /\ g.from = p /\ g.sid < nextSid /\ g.type # "init"
              /\ g.type = "accept" => InitFrame(Peer(p), g.sid) \in wire,
           UNCHANGED <<outbox, phase, expired, nextSid>>, Marked,
           nextTx' \in 1..(MaxTx + 1),
           record' \in [Node -> SUBSET Record], session' \in [Node -> Session],
           \A q \in Node : session'[q].snd <= session[q].snd,
           RecordInv', SessionInv'
    PROVE  IInv'
<1>1. /\ batch' \in [Node -> Seq(Frame)] /\ box' \in [Node -> Seq(Frame)]
      /\ wire' = wire \cup {g \in ToSet(fs) : Relayable(g)}
      /\ wire' \subseteq Frame /\ QueueInv'
    BY FinishFacts
<1>2. TypeOK'
    BY <1>1 DEF IInv, TypeOK, Marked
<1>3. RowInv'
    <2>1. \A q \in Node : /\ session[q].snd \in Nat /\ session'[q].snd \in Nat
                          /\ outbox[q] \in Nat
        BY HandshakeAssumption DEF IInv, TypeOK, Session
    <2>2. \A q \in Node : session[q].snd + outbox[q] <= MaxMsgs
        BY DEF IInv, RowInv
    <2>3. \A q \in Node : session'[q].snd + outbox'[q] <= MaxMsgs
        BY <2>1, <2>2, HandshakeAssumption
    <2> QED
        BY <1>1, <2>3 DEF RowInv
<1>4. WireInv'
    <2>1. \A g \in ToSet(fs) : g.sid \in Nat
        <3>1. ToSet(fs) \subseteq Frame
            BY DEF Some, ToSet
        <3> QED
            BY <3>1, HandshakeAssumption DEF Frame
    <2>2. nextSid \in Nat /\ nextSid' = nextSid
        BY HandshakeAssumption DEF IInv, TypeOK
    <2> DEFINE new == {g \in ToSet(fs) : Relayable(g)}
    <2>3. wire' = wire \cup new
        BY <1>1
    <2>4. \A g \in new : /\ g.from = p /\ g.sid \in Nat /\ g.sid < nextSid'
                         /\ g.type = "accept" => InitFrame(Peer(p), g.sid) \in wire
                         /\ g.type # "init"
        BY <2>1
    <2> HIDE DEF new
    <2>5. nextSid' \in Nat /\ nextSid <= nextSid'
        BY <2>2
    <2> QED
        BY <2>2, <2>3, <2>4, <2>5, WireGrows
<1> QED
    BY <1>1, <1>2, <1>3, <1>4 DEF IInv

\* The frame had no effect.
LEMMA IgnoredKeeps ==
    ASSUME IInv, NEW p \in Node, batch[p] # <<>>, NEW f, Stored(p, f, <<>>),
           UNCHANGED <<record, session, outbox, phase, expired, nextSid, nextTx>>, Marked
    PROVE  IInv'
<1>1. Some(<<>>) /\ ToSet(<<>>) = {}
    BY DEF Some, ToSet
<1>2. wire' = wire \cup {}
    BY <1>1, FinishFacts
<1>3. RecordInv'
    <2>1. nextSid' = nextSid /\ record' = record
        OBVIOUS
    <2>2. /\ wire \subseteq wire' /\ \A g \in wire' \ wire : g.type # "init"
          /\ \A q \in Node \ {p} : record'[q] = record[q]
          /\ record'[p] \subseteq record[p]
        BY <1>2, <2>1
    <2> QED
        BY <2>1, <2>2, RecordsStand
<1>4. SessionInv'
    BY <1>2, SessionsStand
<1>5. \A q \in Node : session'[q].snd <= session[q].snd
    BY HandshakeAssumption DEF IInv, TypeOK, Session
<1>6. /\ nextTx' \in 1..(MaxTx + 1)
      /\ record' \in [Node -> SUBSET Record] /\ session' \in [Node -> Session]
    BY DEF IInv, TypeOK
<1> QED
    BY <1>1, <1>3, <1>4, <1>5, <1>6, HandlerKeeps

\* The record of the Accept tx of sid.
Answer(sid, tx) == [sid |-> sid, role |-> "responder", tx |-> tx]

\* What handleInit did for f, with the Accept tx.
Responded(p, f, tx) ==
    LET accept == AcceptFrame(p, f.sid, tx)
        fin == FinishedFrame(p, f.sid, tx)
        saved == [session EXCEPT ![p] = NewSession(f.sid, tx)]
    IN  /\ record' = [record EXCEPT ![p] = {Answer(f.sid, tx)}]
        /\ nextTx' \in 1..(MaxTx + 1)
        /\ \/ session' = session /\ HandlerPostFailed(p, f, <<>>, <<accept>>, "accept")
           \/ session' = session /\ Fault("resolve") /\ HandlerFailed(p, f, <<accept>>)
           \/ session' = saved /\ HandlerPostFailed(p, f, <<accept>>, <<accept, fin>>, "finished")
           \/ session' = saved /\ Handled(p, f, <<accept, fin>>)

\* handleInit answers f: the record of f is the only one left.
LEMMA RespondFacts ==
    ASSUME IInv, NEW p \in Node, batch[p] # <<>>, NEW f, f = Head(batch[p]),
           f.type = "init", Relayable(f),
           NEW kept \in SUBSET record[p], \A r \in kept : r.sid = f.sid, Respond(p, f, kept)
    PROVE  \E tx \in 0..MaxTx : kept \subseteq {Answer(f.sid, tx)} /\ Responded(p, f, tx)
<1> DEFINE mine == {r \in kept : r.sid = f.sid}
           tx == IF mine = {} THEN nextTx ELSE (CHOOSE r \in mine : TRUE).tx
           accept == AcceptFrame(p, f.sid, tx)
           fin == FinishedFrame(p, f.sid, tx)
           new == Answer(f.sid, tx)
           saved == [session EXCEPT ![p] = NewSession(f.sid, tx)]
<1>1. /\ f \in Frame /\ f \in wire /\ f.from = Peer(p)
      /\ f.sid \in 1..MaxSid /\ f.tx \in 0..MaxTx /\ f.sid < nextSid
    BY HeadFacts
<1>2. f = InitFrame(Peer(p), f.sid)
    BY <1>1 DEF IInv, WireInv
<1>3. /\ record \in [Node -> SUBSET Record] /\ session \in [Node -> Session]
      /\ nextTx \in 1..(MaxTx + 1) /\ nextSid \in Nat
    BY HandshakeAssumption DEF IInv, TypeOK
<1>4. ASSUME NEW r \in kept PROVE r.role = "responder"
    <2>1. r \in record[p] /\ r.sid = f.sid /\ r \in Record
        BY <1>3
    <2>2. InitFrame(Peer(p), r.sid) \in wire
        BY <1>1, <1>2, <2>1
    <2> QED
        BY <2>1, <2>2 DEF IInv, RecordInv, Record
<1>5. tx <= MaxTx
    BY DEF Respond
<1>6. tx \in 0..MaxTx
    <2>1. CASE mine = {}
        BY <1>3, <1>5, <2>1, HandshakeAssumption
    <2>2. CASE mine # {}
        <3>1. (CHOOSE r \in mine : TRUE) \in mine
            BY <2>2
        <3>2. (CHOOSE r \in mine : TRUE) \in Record
            BY <1>3, <3>1
        <3> QED
            BY <2>2, <3>2 DEF Record
    <2> QED
        BY <2>1, <2>2
<1>7. kept \subseteq {new}
    <2> SUFFICES ASSUME NEW r \in kept PROVE r = new
        OBVIOUS
    <2>1. r \in record[p] /\ r \in Record /\ \A s \in kept : s = r
        BY <1>3 DEF IInv, RecordInv
    <2>2. mine = {r}
        BY <2>1
    <2>3. tx = r.tx
        BY <2>2
    <2> QED
        BY <1>4, <2>1, <2>3 DEF Record, Answer
<1>8. record' = [record EXCEPT ![p] = {new}]
    <2>1. record' = [record EXCEPT ![p] = kept \cup {new}]
        BY DEF Respond, Answer
    <2> QED
        BY <1>7, <2>1
<1>9. nextTx' \in 1..(MaxTx + 1)
    <2>1. nextTx' = IF mine = {} THEN nextTx + 1 ELSE nextTx
        BY DEF Respond
    <2>2. mine = {} => nextTx <= MaxTx
        BY <1>5
    <2> QED
        BY <1>3, <2>1, <2>2, HandshakeAssumption
<1>10. \/ session' = session /\ HandlerPostFailed(p, f, <<>>, <<accept>>, "accept")
       \/ session' = session /\ Fault("resolve") /\ HandlerFailed(p, f, <<accept>>)
       \/ session' = saved /\ HandlerPostFailed(p, f, <<accept>>, <<accept, fin>>, "finished")
       \/ session' = saved /\ Handled(p, f, <<accept, fin>>)
    BY DEF Respond
<1> HIDE DEF tx
<1> QED
    BY <1>6, <1>7, <1>8, <1>9, <1>10 DEF Responded

\* An answer keeps the invariant.
LEMMA RespondKeeps ==
    ASSUME IInv, NEW p \in Node, batch[p] # <<>>, NEW f, f = Head(batch[p]),
           f.type = "init", Relayable(f),
           NEW kept \in SUBSET record[p], \A r \in kept : r.sid = f.sid, Respond(p, f, kept),
           UNCHANGED <<outbox, phase, expired, nextSid>>
    PROVE  IInv'
<1>1. /\ f \in Frame /\ f \in wire /\ f.from = Peer(p)
      /\ f.sid \in 1..MaxSid /\ f.tx \in 0..MaxTx /\ f.sid < nextSid
    BY HeadFacts
<1>2. f = InitFrame(Peer(p), f.sid)
    BY <1>1 DEF IInv, WireInv
<1>3. /\ record \in [Node -> SUBSET Record] /\ session \in [Node -> Session]
      /\ nextSid \in Nat
    BY HandshakeAssumption DEF IInv, TypeOK
<1>4. PICK tx \in 0..MaxTx : Responded(p, f, tx)
    BY RespondFacts
<1> DEFINE accept == AcceptFrame(p, f.sid, tx)
           fin == FinishedFrame(p, f.sid, tx)
           new == Answer(f.sid, tx)
           saved == [session EXCEPT ![p] = NewSession(f.sid, tx)]
<1>5. new \in Record /\ saved \in [Node -> Session]
    BY <1>1, <1>3, HandshakeAssumption DEF Record, Answer, NewSession, Session
<1>6. record' = [record EXCEPT ![p] = {new}]
    BY <1>4 DEF Responded
<1>7. nextTx' \in 1..(MaxTx + 1)
    BY <1>4 DEF Responded
<1>8. accept \in Frame /\ fin \in Frame
    BY <1>1, FrameFacts
<1>9. \/ session' = session /\ HandlerPostFailed(p, f, <<>>, <<accept>>, "accept")
      \/ session' = session /\ Fault("resolve") /\ HandlerFailed(p, f, <<accept>>)
      \/ session' = saved /\ HandlerPostFailed(p, f, <<accept>>, <<accept, fin>>, "finished")
      \/ session' = saved /\ Handled(p, f, <<accept, fin>>)
    BY <1>4 DEF Responded
<1> HIDE DEF accept, fin, new, saved
<1>10. \E fs \in {<<>>, <<accept>>, <<accept, fin>>} :
          /\ Stored(p, f, fs) /\ Marked
          /\ session' = session \/ (session' = saved /\ fs # <<>>)
    <2>3. CASE session' = session /\ HandlerPostFailed(p, f, <<>>, <<accept>>, "accept")
        BY <2>3, PostFailedFacts
    <2>4. CASE session' = session /\ Fault("resolve") /\ HandlerFailed(p, f, <<accept>>)
        BY <2>4, FailedFacts, FaultFacts DEF IInv
    <2>5. CASE session' = saved /\ HandlerPostFailed(p, f, <<accept>>, <<accept, fin>>, "finished")
        BY <2>5, PostFailedFacts
    <2>6. CASE session' = saved /\ Handled(p, f, <<accept, fin>>)
        BY <1>1, <2>6, HandledFacts
    <2> QED
        BY <1>9, <2>3, <2>4, <2>5, <2>6
<1> PICK fs \in {<<>>, <<accept>>, <<accept, fin>>} :
          /\ Stored(p, f, fs) /\ Marked
          /\ session' = session \/ (session' = saved /\ fs # <<>>)
    BY <1>10
<1>11. Some(fs) /\ ToSet(fs) \subseteq {accept, fin} /\ (fs # <<>> => accept \in ToSet(fs))
    <2>1. Some(<<>>) /\ ToSet(<<>>) = {}
        BY DEF Some, ToSet
    <2>2. Some(<<accept>>) /\ ToSet(<<accept>>) = {accept}
        BY <1>8 DEF Some, ToSet
    <2>3. Some(<<accept, fin>>) /\ ToSet(<<accept, fin>>) = {accept, fin}
        BY <1>8 DEF Some, ToSet
    <2> QED
        BY <2>1, <2>2, <2>3
<1>12. \A g \in ToSet(fs) :
          /\ g.from = p /\ g.sid < nextSid /\ g.type # "init"
          /\ g.type = "accept" => InitFrame(Peer(p), g.sid) \in wire
    BY <1>1, <1>2, <1>11 DEF accept, fin, AcceptFrame, FinishedFrame
<1>13. wire' = wire \cup {g \in ToSet(fs) : Relayable(g)}
    BY <1>11, <1>12, FinishFacts
<1>14. session' \in [Node -> Session] /\ \A q \in Node : session'[q].snd <= session[q].snd
    <2>1. \A q \in Node : session[q].snd \in Nat
        BY <1>3, HandshakeAssumption DEF Session
    <2>2. \A q \in Node : saved[q].snd = session[q].snd \/ saved[q].snd = 0
        BY <1>3 DEF saved, NewSession
    <2>3. session' = session \/ session' = saved
        OBVIOUS
    <2> QED
        BY <1>3, <1>5, <2>1, <2>2, <2>3
<1>15. SessionInv'
    <2>1. wire \subseteq wire'
        BY <1>13
    <2>2. CASE session' = session
        BY <2>1, <2>2, SessionsStand
    <2>3. CASE session' = saved /\ fs # <<>>
        <3>1. accept \in wire' /\ InitFrame(Peer(p), f.sid) \in wire'
            BY <1>1, <1>2, <1>11, <1>13, <2>3 DEF accept, AcceptFrame, Relayable, InitFrame
        <3>2. /\ session'[p] = NewSession(f.sid, tx)
              /\ \A q \in Node \ {p} : session'[q] = session[q]
            BY <1>3, <2>3 DEF saved
        <3>3. /\ InitFrame(Peer(p), session'[p].sid) \in wire'
              /\ AcceptFrame(Peer(Peer(p)), session'[p].sid, session'[p].tx) \in wire'
              /\ ~session'[p].ready
            BY <3>1, <3>2, NodeFacts DEF accept, NewSession
        <3> QED
            BY <2>1, <3>2, <3>3, NodeFacts, SessionsStand
    <2> QED
        BY <2>2, <2>3
<1>16. RecordInv'
    <2>1. /\ new.sid = f.sid /\ new.role = "responder"
        BY DEF new, Answer
    <2>2. /\ record'[p] = {new} /\ \A q \in Node \ {p} : record'[q] = record[q]
        BY <1>3, <1>6
    <2>3. wire \subseteq wire' /\ \A g \in wire' \ wire : g.type # "init"
        BY <1>12, <1>13
    <2>4. \A q \in Node, sid \in Nat :
              InitFrame(Peer(q), sid) \in wire' <=> InitFrame(Peer(q), sid) \in wire
        BY <2>3 DEF InitFrame
    <2>5. \A q \in Node : \A r \in record[q] : r.sid \in Nat
        BY <1>3, HandshakeAssumption DEF Record
    <2> SUFFICES ASSUME NEW n \in Node
                 PROVE  /\ \A r, s \in record'[n] : r = s
                        /\ \A r \in record'[n] :
                              /\ r.sid < nextSid'
                              /\ r.role = "initiator" =>
                                    /\ InitFrame(Peer(n), r.sid) \notin wire'
                                    /\ \A s \in record'[Peer(n)] :
                                          s.role = "initiator" => s.sid # r.sid
                              /\ r.role = "responder" => InitFrame(Peer(n), r.sid) \in wire'
        BY DEF RecordInv
    <2>6. CASE n = p
        BY <1>1, <1>2, <2>1, <2>2, <2>3, <2>6
    <2>7. CASE n # p
        <3>1. Peer(n) = p
            BY <2>7 DEF Node, Peer
        <3> QED
            BY <2>1, <2>2, <2>4, <2>5, <2>7, <3>1 DEF IInv, RecordInv
    <2> QED
        BY <2>6, <2>7
<1>17. record' \in [Node -> SUBSET Record]
    BY <1>3, <1>5, <1>6
<1> QED
    BY <1>7, <1>11, <1>12, <1>14, <1>15, <1>16, <1>17, HandlerKeeps

LEMMA RejectedKeeps ==
    ASSUME IInv, NEW p \in Node, batch[p] # <<>>, NEW f, Rejected(p, f),
           UNCHANGED <<outbox, phase, expired, nextSid>>
    PROVE  IInv'
<1>1. HandlerFailed(p, f, <<>>) /\ UNCHANGED <<record, session, nextTx>> /\ faults' \in 0..MaxFaults
    BY DEF Rejected, IInv, TypeOK
<1> QED
    BY <1>1, FailedFacts, IgnoredKeeps

\* The record that gives way goes, and nothing takes its place.
LEMMA VacatesKeeps ==
    ASSUME IInv, NEW p \in Node, batch[p] # <<>>, NEW f, NEW r, Vacates(p, f, r),
           UNCHANGED <<outbox, phase, expired, nextSid>>
    PROVE  IInv'
<1>1. Some(<<>>) /\ ToSet(<<>>) = {}
    BY DEF Some, ToSet
<1>2. Stored(p, f, <<>>) /\ Marked
    BY FaultFacts, FailedFacts DEF Vacates, IInv
<1>3. wire' = wire \cup {}
    BY <1>1, <1>2, FinishFacts
<1>4. record \in [Node -> SUBSET Record] /\ record' = [record EXCEPT ![p] = @ \ {r}]
    BY DEF Vacates, IInv, TypeOK
<1>5. RecordInv'
    <2>1. /\ nextSid' = nextSid
          /\ \A q \in Node \ {p} : record'[q] = record[q]
          /\ record'[p] \subseteq record[p]
        BY <1>4
    <2>2. wire \subseteq wire' /\ \A g \in wire' \ wire : g.type # "init"
        BY <1>3
    <2> QED
        BY <2>1, <2>2, RecordsStand
<1>6. SessionInv'
    BY <1>3, SessionsStand DEF Vacates
<1>7. /\ record' \in [Node -> SUBSET Record]
      /\ session' \in [Node -> Session] /\ nextTx' \in 1..(MaxTx + 1)
      /\ \A q \in Node : session'[q].snd <= session[q].snd
    BY <1>4, HandshakeAssumption DEF Vacates, IInv, TypeOK, Session
<1> QED
    BY <1>1, <1>2, <1>5, <1>6, <1>7, HandlerKeeps

\* An Init that crosses, follows or repeats a handshake of this helper.
LEMMA InitKeeps ==
    ASSUME IInv, NEW p \in Node, batch[p] # <<>>, NEW f, f = Head(batch[p]),
           f.type = "init", Relayable(f), HandleInit(p, f),
           UNCHANGED <<outbox, phase, expired, nextSid>>
    PROVE  IInv'
<1> DEFINE other == {r \in record[p] : r.sid # f.sid}
<1>1. CASE other = {} /\ Respond(p, f, record[p])
    <2>1. \A r \in record[p] : r.sid = f.sid
        BY <1>1
    <2> QED
        BY <1>1, <2>1, RespondKeeps
<1>2. ASSUME NEW r \in other, Respond(p, f, record[p] \ {r}) PROVE IInv'
    <2>1. record[p] \ {r} = {}
        BY DEF IInv, RecordInv
    <2>2. record[p] \ {r} \in SUBSET record[p] /\ \A x \in record[p] \ {r} : x.sid = f.sid
        BY <2>1
    <2> QED
        BY <1>2, <2>2, RespondKeeps
<1>3. CASE Rejected(p, f)
    BY <1>3, RejectedKeeps
<1>4. CASE Handled(p, f, <<>>) /\ UNCHANGED <<record, session, nextTx>>
    BY <1>4, HeadFacts, HandledFacts, IgnoredKeeps
<1>5. CASE \E r \in other : Vacates(p, f, r)
    BY <1>5, VacatesKeeps
<1> QED
    BY <1>1, <1>2, <1>3, <1>4, <1>5 DEF HandleInit

\* An Accept: the session it offers rests on the Init it answers.
LEMMA AcceptKeeps ==
    ASSUME IInv, NEW p \in Node, batch[p] # <<>>, NEW f, f = Head(batch[p]),
           f.type = "accept", HandleAccept(p, f),
           UNCHANGED <<outbox, phase, expired, nextSid>>
    PROVE  IInv'
<1> DEFINE fin == FinishedFrame(p, f.sid, f.tx)
           saved == [session EXCEPT ![p] = NewSession(f.sid, f.tx)]
<1>1. /\ f \in Frame /\ f \in wire /\ f.from = Peer(p)
      /\ f.sid \in 1..MaxSid /\ f.tx \in 0..MaxTx /\ f.sid < nextSid
    BY HeadFacts
<1>2. f = AcceptFrame(Peer(p), f.sid, f.tx) /\ InitFrame(p, f.sid) \in wire
    BY <1>1, NodeFacts DEF IInv, WireInv, Frame, AcceptFrame
<1>3. fin \in Frame /\ fin.from = p /\ fin.sid = f.sid /\ fin.type = "finished"
    BY <1>1, FrameFacts DEF FinishedFrame
<1>4. /\ record \in [Node -> SUBSET Record] /\ session \in [Node -> Session]
      /\ nextTx \in 1..(MaxTx + 1) /\ nextSid \in Nat
    BY HandshakeAssumption DEF IInv, TypeOK
<1>5. saved \in [Node -> Session]
    BY <1>1, <1>4, HandshakeAssumption DEF NewSession, Session
<1>6. \/ Rejected(p, f)
      \/ /\ UNCHANGED <<record, nextTx>>
         /\ \/ session' = session /\ Fault("resolve") /\ HandlerFailed(p, f, <<>>)
            \/ session' = saved /\ HandlerPostFailed(p, f, <<>>, <<fin>>, "finished")
            \/ session' = saved /\ Handled(p, f, <<fin>>)
    BY DEF HandleAccept
<1> HIDE DEF fin, saved
<1>7. CASE Rejected(p, f)
    BY <1>7, RejectedKeeps
<1>8. CASE UNCHANGED <<record, session, nextTx>> /\ Fault("resolve") /\ HandlerFailed(p, f, <<>>)
    BY <1>8, FailedFacts, FaultFacts, IgnoredKeeps DEF IInv
<1>9. ASSUME UNCHANGED <<record, nextTx>>, session' = saved, Marked,
             NEW fs \in {<<>>, <<fin>>}, Stored(p, f, fs)
      PROVE  IInv'
    <2>1. Some(fs) /\ ToSet(fs) \subseteq {fin}
        <3>1. Some(<<>>) /\ ToSet(<<>>) = {}
            BY DEF Some, ToSet
        <3>2. Some(<<fin>>) /\ ToSet(<<fin>>) = {fin}
            BY <1>3 DEF Some, ToSet
        <3> QED
            BY <3>1, <3>2
    <2>2. \A g \in ToSet(fs) : g.from = p /\ g.sid < nextSid /\ g.type = "finished"
        BY <1>1, <1>3, <2>1
    <2>3. wire' = wire \cup {g \in ToSet(fs) : Relayable(g)}
        BY <1>9, <2>1, <2>2, FinishFacts
    <2>4. wire \subseteq wire' /\ \A g \in wire' \ wire : g.type # "init"
        BY <2>2, <2>3
    <2>5. RecordInv'
        <3>1. /\ \A q \in Node \ {p} : record'[q] = record[q]
              /\ record'[p] \subseteq record[p] /\ nextSid' = nextSid
            BY <1>9
        <3> QED
            BY <2>4, <3>1, RecordsStand
    <2>6. /\ session'[p] = NewSession(f.sid, f.tx)
          /\ \A q \in Node \ {p} : session'[q] = session[q]
        BY <1>4, <1>9 DEF saved
    <2>7. SessionInv'
        <3>1. /\ InitFrame(p, session'[p].sid) \in wire'
              /\ AcceptFrame(Peer(p), session'[p].sid, session'[p].tx) \in wire'
              /\ ~session'[p].ready
            BY <1>1, <1>2, <2>4, <2>6 DEF NewSession
        <3> QED
            BY <2>4, <2>6, <3>1, SessionsStand
    <2>8. \A q \in Node : session'[q].snd <= session[q].snd
        <3>1. \A q \in Node : session[q].snd \in Nat
            BY <1>4, HandshakeAssumption DEF Session
        <3> QED
            BY <2>6, <3>1 DEF NewSession
    <2>9. /\ session' \in [Node -> Session] /\ record' \in [Node -> SUBSET Record]
          /\ nextTx' \in 1..(MaxTx + 1)
        BY <1>4, <1>5, <1>9
    <2> QED
        BY <1>9, <2>1, <2>2, <2>5, <2>7, <2>8, <2>9, HandlerKeeps
<1>10. CASE UNCHANGED <<record, nextTx>> /\ session' = saved
            /\ HandlerPostFailed(p, f, <<>>, <<fin>>, "finished")
    BY <1>9, <1>10, PostFailedFacts
<1>11. CASE UNCHANGED <<record, nextTx>> /\ session' = saved /\ Handled(p, f, <<fin>>)
    BY <1>1, <1>9, <1>11, HandledFacts
<1> QED
    BY <1>6, <1>7, <1>8, <1>10, <1>11

\* A Finished: the peer holds the transcript of this session.
LEMMA FinishedKeeps ==
    ASSUME IInv, NEW p \in Node, batch[p] # <<>>, NEW f, f = Head(batch[p]),
           f.type = "finished", HandleFinished(p, f),
           UNCHANGED <<outbox, phase, expired, nextSid>>
    PROVE  IInv'
<1>1. /\ f \in Frame /\ f \in wire /\ f.from = Peer(p)
      /\ f.sid \in 1..MaxSid /\ f.tx \in 0..MaxTx /\ f.sid < nextSid
    BY HeadFacts
<1>2. f = FinishedFrame(Peer(p), f.sid, f.tx)
    BY <1>1 DEF Frame, FinishedFrame
<1>3. CASE Rejected(p, f)
    BY <1>3, RejectedKeeps
<1>4. CASE VerifyFinished(p, f)
    <2>1. /\ session' = [session EXCEPT ![p].ready = TRUE] /\ nextTx' = nextTx
          /\ record' = record \/ record' = [record EXCEPT ![p] = {r \in @ : r.sid # f.sid}]
        BY <1>4 DEF HandleFinished
    <2>2. Stored(p, f, <<>>) /\ Marked
        <3>1. CASE Handled(p, f, <<>>)
            BY <1>1, <3>1, HandledFacts
        <3>2. ASSUME Fault("erase"), NEW marked \in BOOLEAN, Finish(p, f, <<>>, marked),
                     seen' = IF marked THEN [seen EXCEPT ![p] = @ \cup {f}] ELSE seen
              PROVE  Stored(p, f, <<>>) /\ Marked
            <4>1. faults' \in 0..MaxFaults
                BY <3>2, FaultFacts DEF IInv
            <4>2. seen' \in [Node -> SUBSET Frame]
                BY <1>1, <3>2 DEF IInv, TypeOK
            <4> QED
                BY <3>2, <4>1, <4>2 DEF Stored, Marked
        <3> QED
            BY <1>4, <3>1, <3>2 DEF HandleFinished
    <2>3. Some(<<>>) /\ ToSet(<<>>) = {}
        BY DEF Some, ToSet
    <2>4. wire' = wire
        BY <2>2, <2>3, FinishFacts
    <2>5. /\ record \in [Node -> SUBSET Record] /\ session \in [Node -> Session]
          /\ nextTx \in 1..(MaxTx + 1)
        BY DEF IInv, TypeOK
    <2>6. /\ record'[p] \subseteq record[p] /\ \A q \in Node \ {p} : record'[q] = record[q]
          /\ record' \in [Node -> SUBSET Record]
        BY <2>1, <2>5
    <2>7. RecordInv'
        BY <2>4, <2>6, RecordsStand
    <2>8. /\ session'[p] = [session[p] EXCEPT !.ready = TRUE]
          /\ \A q \in Node \ {p} : session'[q] = session[q]
          /\ session' \in [Node -> Session]
        BY <2>1, <2>5 DEF Session
    <2>9. /\ session'[p].sid = f.sid /\ session'[p].tx = f.tx
          /\ session'[p].sid = session[p].sid /\ session'[p].tx = session[p].tx
        BY <1>4, <2>5, <2>8 DEF VerifyFinished, Session
    <2>10. SessionInv'
        <3>1. session[p].sid # 0
            BY <1>1, <2>9, HandshakeAssumption
        <3>2. \E q \in Node : /\ InitFrame(q, session'[p].sid) \in wire'
                              /\ AcceptFrame(Peer(q), session'[p].sid, session'[p].tx) \in wire'
            BY <2>4, <2>9, <3>1 DEF IInv, SessionInv, Answered
        <3>3. FinishedFrame(Peer(p), session'[p].sid, session'[p].tx) \in wire'
            BY <1>1, <1>2, <2>4, <2>9
        <3> QED
            BY <2>4, <2>8, <2>9, <3>1, <3>2, <3>3, SessionsStand
    <2>11. \A q \in Node : session'[q].snd <= session[q].snd
        <3>1. \A q \in Node : session[q].snd \in Nat
            BY <2>5, HandshakeAssumption DEF Session
        <3>2. session'[p].snd = session[p].snd
            BY <2>5, <2>8 DEF Session
        <3>3. \A q \in Node : session'[q].snd = session[q].snd
            BY <2>8, <3>2
        <3> QED
            BY <3>1, <3>3
    <2> QED
        BY <2>1, <2>2, <2>3, <2>5, <2>6, <2>7, <2>8, <2>10, <2>11, HandlerKeeps
<1> QED
    BY <1>3, <1>4 DEF HandleFinished

LEMMA ProcessKeeps ==
    ASSUME IInv, NEW p \in Node, ProcessFrame(p)
    PROVE  IInv'
<1> DEFINE f == Head(batch[p])
<1>1. batch[p] # <<>> /\ UNCHANGED <<outbox, phase, expired, nextSid>>
    BY DEF ProcessFrame
<1>2. CASE Reacknowledge(p, f)
    <2>1. UNCHANGED <<record, session, nextTx>> /\ Stored(p, f, <<>>)
        BY <1>2 DEF Reacknowledge, Stored
    <2>2. Marked
        BY <1>2, FaultFacts DEF Reacknowledge, Marked, IInv, TypeOK
    <2> QED
        BY <1>1, <2>1, <2>2, IgnoredKeeps
<1>3. CASE Rejected(p, f)
    BY <1>1, <1>3, RejectedKeeps
<1>4. CASE Relayable(f) /\ f.type = "init" /\ HandleInit(p, f)
    BY <1>1, <1>4, InitKeeps
<1>5. CASE f.type = "accept" /\ HandleAccept(p, f)
    BY <1>1, <1>5, AcceptKeeps
<1>6. CASE f.type = "finished" /\ HandleFinished(p, f)
    BY <1>1, <1>6, FinishedKeeps
<1> QED
    BY <1>2, <1>3, <1>4, <1>5, <1>6 DEF ProcessFrame

-----------------------------------------------------------------------------
(* The rest of the tick.                                                    *)

\* A step that stores, changes and forgets nothing.
LEMMA IdleKeeps ==
    ASSUME IInv, UNCHANGED <<store, wire, nextSid, nextTx>>,
           batch' \in [Node -> Seq(Frame)], box' \in [Node -> Seq(Frame)],
           \A p \in Node : ToSet(batch'[p]) \cup ToSet(box'[p])
                              \subseteq ToSet(batch[p]) \cup ToSet(box[p]),
           phase' \in [Node -> {"idle", "frames", "resend", "deliver"}],
           expired' \in SUBSET (1..MaxSid), faults' \in 0..MaxFaults
    PROVE  IInv'
<1>1. TypeOK'
    BY DEF IInv, TypeOK, store
<1>2. RowInv' /\ QueueInv'
    BY DEF IInv, RowInv, QueueInv, store
<1>3. WireInv' /\ RecordInv' /\ SessionInv'
    BY DEF IInv, WireInv, RecordInv, SessionInv, Answered, store
<1> QED
    BY <1>1, <1>2, <1>3 DEF IInv

LEMMA QuietKeeps ==
    ASSUME IInv,
           \/ \E p \in Node : BeginTick(p) \/ EndFrames(p) \/ NotDue(p) \/ Crash(p)
           \/ \E sid \in 1..MaxSid : Expire(sid)
    PROVE  IInv'
<1>1. /\ batch \in [Node -> Seq(Frame)] /\ box \in [Node -> Seq(Frame)]
      /\ phase \in [Node -> {"idle", "frames", "resend", "deliver"}]
      /\ expired \in SUBSET (1..MaxSid) /\ faults \in 0..MaxFaults
    BY DEF IInv, RowInv, TypeOK
<1>2. ASSUME NEW p \in Node, BeginTick(p) PROVE IInv'
    <2>1. /\ UNCHANGED <<store, wire, nextSid, nextTx, box, expired>>
          /\ batch' = [batch EXCEPT ![p] = box[p]] \/ batch' = batch
          /\ phase' = [phase EXCEPT ![p] = "frames"]
        BY <1>2 DEF BeginTick
    <2>2. faults' \in 0..MaxFaults
        BY <1>2, FaultFacts DEF BeginTick, IInv, TypeOK
    <2>3. /\ batch' \in [Node -> Seq(Frame)]
          /\ \A n \in Node : ToSet(batch'[n]) \subseteq ToSet(batch[n]) \cup ToSet(box[n])
        BY <1>1, <2>1
    <2>4. phase' \in [Node -> {"idle", "frames", "resend", "deliver"}]
        BY <1>1, <2>1
    <2> QED
        BY <1>1, <2>1, <2>2, <2>3, <2>4, IdleKeeps
<1>3. ASSUME NEW p \in Node, EndFrames(p) \/ NotDue(p) PROVE IInv'
    <2>1. /\ UNCHANGED <<store, wire, nextSid, nextTx, box, batch, expired, faults>>
          /\ phase' \in [Node -> {"idle", "frames", "resend", "deliver"}]
        BY <1>1, <1>3 DEF EndFrames, NotDue
    <2> QED
        BY <1>1, <2>1, IdleKeeps
<1>4. ASSUME NEW p \in Node, Crash(p) PROVE IInv'
    <2>1. /\ UNCHANGED <<store, wire, nextSid, nextTx, box, expired>>
          /\ batch' = [batch EXCEPT ![p] = <<>>] /\ phase' = [phase EXCEPT ![p] = "idle"]
        BY <1>4 DEF Crash
    <2>2. faults' \in 0..MaxFaults
        BY <1>4, FaultFacts DEF Crash, IInv
    <2>3. ToSet(<<>>) = {} /\ <<>> \in Seq(Frame)
        BY DEF ToSet
    <2>4. /\ batch' \in [Node -> Seq(Frame)]
          /\ phase' \in [Node -> {"idle", "frames", "resend", "deliver"}]
          /\ \A n \in Node : ToSet(batch'[n]) \subseteq ToSet(batch[n])
        BY <1>1, <2>1, <2>3
    <2> QED
        BY <1>1, <2>1, <2>2, <2>4, IdleKeeps
<1>5. ASSUME NEW sid \in 1..MaxSid, Expire(sid) PROVE IInv'
    <2>1. /\ UNCHANGED <<store, wire, nextSid, nextTx, box, batch, phase, faults>>
          /\ expired' \in SUBSET (1..MaxSid)
        BY <1>1, <1>5 DEF Expire, tick
    <2> QED
        BY <1>1, <2>1, IdleKeeps
<1> QED
    BY <1>2, <1>3, <1>4, <1>5

\* A pending handshake is dropped, or what it waits for is sent once more.
LEMMA ResendKeeps ==
    ASSUME IInv, NEW p \in Node, Resend(p)
    PROVE  IInv'
<1>1. /\ UNCHANGED <<session, seen, outbox, batch, expired, nextSid, nextTx>>
      /\ phase' \in [Node -> {"idle", "frames", "resend", "deliver"}]
    BY DEF Resend, IInv, TypeOK
<1>2. /\ record \in [Node -> SUBSET Record] /\ session \in [Node -> Session]
      /\ batch \in [Node -> Seq(Frame)] /\ box \in [Node -> Seq(Frame)]
      /\ nextSid \in Nat /\ faults \in 0..MaxFaults /\ wire \in SUBSET Frame
    BY HandshakeAssumption DEF IInv, TypeOK, RowInv
<1>3. ASSUME record' \in [Node -> SUBSET Record], record'[p] \subseteq record[p],
             \A q \in Node \ {p} : record'[q] = record[q],
             UNCHANGED <<box, wire>>, faults' \in 0..MaxFaults
      PROVE  IInv'
    <2>1. TypeOK'
        BY <1>1, <1>3 DEF IInv, TypeOK
    <2>2. RowInv' /\ QueueInv' /\ WireInv'
        BY <1>1, <1>3 DEF IInv, RowInv, QueueInv, WireInv
    <2>3. RecordInv'
        BY <1>1, <1>3, RecordsStand
    <2>4. SessionInv'
        BY <1>1, <1>3, SessionsStand
    <2> QED
        BY <2>1, <2>2, <2>3, <2>4 DEF IInv
<1>4. CASE UNCHANGED <<record, box, wire, faults>>
    BY <1>2, <1>3, <1>4
<1>5. ASSUME NEW r \in record[p], Drop(p, r) PROVE IInv'
    <2>1. faults' \in 0..MaxFaults
        BY <1>2, <1>5, FaultFacts DEF Drop, IInv
    <2>2. UNCHANGED <<box, wire>> /\ (record' = record \/ record' = [record EXCEPT ![p] = @ \ {r}])
        BY <1>5 DEF Drop
    <2>3. /\ record' \in [Node -> SUBSET Record] /\ record'[p] \subseteq record[p]
          /\ \A q \in Node \ {p} : record'[q] = record[q]
        BY <1>2, <2>2
    <2> QED
        BY <1>3, <2>1, <2>2, <2>3
<1>6. ASSUME NEW f \in Frame, Replay(p, f), f.from = p, f.sid < nextSid,
             f.type = "accept" => InitFrame(Peer(p), f.sid) \in wire,
             f.type = "init" => /\ f = InitFrame(p, f.sid)
                                /\ InitFrame(Peer(p), f.sid) \notin wire,
             f.type = "init" => \A r \in record[Peer(p)] : r.role = "initiator" => r.sid # f.sid
      PROVE  IInv'
    <2>1. record' = record
        BY <1>6 DEF Replay
    <2>2. faults' \in 0..MaxFaults
        BY <1>2, <1>6, FaultFacts DEF Replay, PostFailed, IInv
    <2>3. Some(<<>>) /\ ToSet(<<>>) = {} /\ Some(<<f>>) /\ ToSet(<<f>>) = {f}
        BY <1>6 DEF Some, ToSet
    <2> PICK fs \in {<<>>, <<f>>} : Post(p, fs)
        BY <1>6 DEF Replay, PostFailed
    <2>4. Some(fs) /\ ToSet(fs) \subseteq {f}
        BY <2>3
    <2>5. /\ box' \in [Node -> Seq(Frame)]
          /\ wire' = wire \cup {g \in ToSet(fs) : Relayable(g)}
          /\ wire' \subseteq Frame /\ QueueInv'
        BY <1>1, <1>6, <2>4, PostFacts
    <2>6. wire \subseteq wire' /\ wire' \subseteq wire \cup {f}
        BY <2>4, <2>5
    <2>7. TypeOK'
        BY <1>1, <2>1, <2>2, <2>5 DEF IInv, TypeOK
    <2>8. RowInv'
        BY <1>1, <2>5 DEF IInv, RowInv
    <2>9. WireInv'
        <3>1. f.sid \in Nat
            BY HandshakeAssumption DEF Frame
        <3> DEFINE new == wire' \ wire
        <3>2. wire' = wire \cup new /\ new \subseteq {f}
            BY <2>6
        <3> HIDE DEF new
        <3>3. \A g \in new : /\ g.from = p /\ g.sid \in Nat /\ g.sid < nextSid'
                             /\ g.type = "accept" => InitFrame(Peer(p), g.sid) \in wire
                             /\ g.type = "init" => /\ g = InitFrame(p, g.sid)
                                                   /\ InitFrame(Peer(p), g.sid) \notin wire
            BY <1>1, <1>6, <3>1, <3>2
        <3>4. nextSid' \in Nat /\ nextSid <= nextSid'
            BY <1>1, <1>2
        <3> QED
            BY <1>2, <3>2, <3>3, <3>4, WireGrows
    <2>10. SessionInv'
        BY <1>1, <2>6, SessionsStand
    <2>11. RecordInv'
        <3>1. CASE f.type # "init"
            BY <1>1, <2>1, <2>6, <3>1, RecordsStand
        <3>2. CASE f.type = "init"
            <4>1. \A n \in Node, sid \in Nat :
                      InitFrame(n, sid) \in wire' =>
                          InitFrame(n, sid) \in wire \/ (n = p /\ sid = f.sid)
                BY <1>6, <2>6, <3>2 DEF InitFrame
            <4>2. \A n \in Node : \A r \in record[n] : r.sid \in Nat
                BY <1>2, HandshakeAssumption DEF Record
            <4>3. ASSUME NEW n \in Node, NEW r \in record[n], r.role = "initiator"
                  PROVE  InitFrame(Peer(n), r.sid) \notin wire'
                <5>1. InitFrame(Peer(n), r.sid) \notin wire
                    BY <4>3 DEF IInv, RecordInv
                <5>2. ~(Peer(n) = p /\ r.sid = f.sid)
                    BY <1>6, <3>2, <4>3, NodeFacts
                <5> QED
                    BY <4>1, <4>2, <5>1, <5>2, NodeFacts
            <4> QED
                BY <1>1, <2>1, <2>6, <4>3 DEF IInv, RecordInv
        <3> QED
            BY <3>1, <3>2
    <2> QED
        BY <2>5, <2>7, <2>8, <2>9, <2>10, <2>11 DEF IInv
<1>7. ASSUME NEW r \in record[p], ResendOne(p, r) PROVE IInv'
    <2>1. r \in Record /\ r.sid \in 1..MaxSid /\ r.tx \in 0..MaxTx /\ r.sid < nextSid
        <3>1. r \in Record
            BY <1>2
        <3>2. r.sid < nextSid
            BY DEF IInv, RecordInv
        <3> QED
            BY <3>1, <3>2 DEF Record
    <2>2. CASE Drop(p, r)
        BY <1>5, <2>2
    <2>3. CASE session[p].sid = r.sid /\ Replay(p, FinishedFrame(p, session[p].sid, session[p].tx))
        <3>1. session[p].sid \in 1..MaxSid /\ session[p].tx \in 0..MaxTx
            BY <1>2, <2>1, <2>3 DEF Session
        <3>2. FinishedFrame(p, session[p].sid, session[p].tx) \in Frame
            BY <3>1, FrameFacts
        <3> QED
            BY <1>6, <2>1, <2>3, <3>2 DEF FinishedFrame
    <2>4. CASE Replay(p, Pending(p, r))
        <3>1. CASE r.role = "initiator"
            <4>1. Pending(p, r) = InitFrame(p, r.sid) /\ InitFrame(p, r.sid) \in Frame
                BY <2>1, <3>1, FrameFacts, HandshakeAssumption DEF Pending
            <4>2. /\ InitFrame(Peer(p), r.sid) \notin wire
                  /\ \A s \in record[Peer(p)] : s.role = "initiator" => s.sid # r.sid
                BY <3>1 DEF IInv, RecordInv
            <4>3. InitFrame(p, r.sid).sid = r.sid
                BY DEF InitFrame
            <4> QED
                BY <1>6, <2>1, <2>4, <4>1, <4>2, <4>3 DEF InitFrame
        <3>2. CASE r.role = "responder"
            <4>1. /\ Pending(p, r) = AcceptFrame(p, r.sid, r.tx)
                  /\ AcceptFrame(p, r.sid, r.tx) \in Frame
                BY <2>1, <3>2, FrameFacts DEF Pending
            <4>2. InitFrame(Peer(p), r.sid) \in wire
                BY <3>2 DEF IInv, RecordInv
            <4> QED
                BY <1>6, <2>1, <2>4, <4>1, <4>2 DEF AcceptFrame
        <3> QED
            BY <2>1, <3>1, <3>2 DEF Record
    <2> QED
        BY <1>7, <2>2, <2>3, <2>4 DEF ResendOne
<1> QED
    BY <1>4, <1>7 DEF Resend

\* A new handshake replaces one that is over, under an identifier of its own.
LEMMA StartKeeps ==
    ASSUME IInv, NEW p \in Node, StartHandshake(p),
           UNCHANGED <<session, seen, outbox, batch, expired, nextTx>>,
           phase' \in [Node -> {"idle", "frames", "resend", "deliver"}]
    PROVE  IInv'
<1> DEFINE f == InitFrame(p, nextSid)
           new == [sid |-> nextSid, role |-> "initiator", tx |-> 0]
<1>1. /\ record \in [Node -> SUBSET Record] /\ session \in [Node -> Session]
      /\ batch \in [Node -> Seq(Frame)] /\ box \in [Node -> Seq(Frame)]
      /\ nextSid \in 1..(MaxSid + 1) /\ nextSid \in Nat
      /\ faults \in 0..MaxFaults /\ wire \in SUBSET Frame
    BY HandshakeAssumption DEF IInv, TypeOK, RowInv
<1>2. ASSUME record' = record \/ record' = [record EXCEPT ![p] = {}],
             UNCHANGED <<box, wire, nextSid>>, faults' \in 0..MaxFaults
      PROVE  IInv'
    <2>1. /\ record' \in [Node -> SUBSET Record] /\ record'[p] \subseteq record[p]
          /\ \A q \in Node \ {p} : record'[q] = record[q]
        BY <1>1, <1>2
    <2>2. TypeOK'
        BY <1>2, <2>1 DEF IInv, TypeOK
    <2>3. RowInv' /\ QueueInv' /\ WireInv'
        BY <1>2 DEF IInv, RowInv, QueueInv, WireInv
    <2>4. RecordInv'
        BY <1>2, <2>1, RecordsStand
    <2>5. SessionInv'
        BY <1>2, SessionsStand
    <2> QED
        BY <2>2, <2>3, <2>4, <2>5 DEF IInv
<1>3. ASSUME nextSid <= MaxSid, record' = [record EXCEPT ![p] = {new}], nextSid' = nextSid + 1,
             faults' \in 0..MaxFaults, NEW fs \in {<<>>, <<f>>}, Post(p, fs)
      PROVE  IInv'
    <2>1. nextSid \in 1..MaxSid /\ f \in Frame /\ new \in Record
        BY <1>1, <1>3, HandshakeAssumption DEF InitFrame, Frame, Record
    <2>2. /\ f.from = p /\ f.sid = nextSid /\ f.type = "init"
          /\ new.sid = nextSid /\ new.role = "initiator"
        BY DEF InitFrame
    <2>3. Some(fs) /\ ToSet(fs) \subseteq {f}
        <3>1. Some(<<>>) /\ ToSet(<<>>) = {} /\ Some(<<f>>) /\ ToSet(<<f>>) = {f}
            BY <2>1 DEF Some, ToSet
        <3> QED
            BY <3>1
    <2>4. \A n \in Node : \A r \in record[n] : r.sid \in Nat /\ r.sid < nextSid
        <3>1. \A r \in Record : r.sid \in Nat
            BY HandshakeAssumption DEF Record
        <3> QED
            BY <1>1, <3>1 DEF IInv, RecordInv
    <2>5. \A n \in Node : InitFrame(n, nextSid) \notin wire
        <3> SUFFICES ASSUME NEW n \in Node, InitFrame(n, nextSid) \in wire PROVE FALSE
            OBVIOUS
        <3>1. InitFrame(n, nextSid).sid < nextSid
            BY DEF IInv, WireInv
        <3>2. InitFrame(n, nextSid).sid = nextSid
            BY DEF InitFrame
        <3> QED
            BY <1>1, <3>1, <3>2
    <2> HIDE DEF f, new
    <2>6. \A g \in ToSet(fs) : g.from = p
        BY <2>2, <2>3
    <2>7. /\ box' \in [Node -> Seq(Frame)]
          /\ wire' = wire \cup {g \in ToSet(fs) : Relayable(g)}
          /\ wire' \subseteq Frame /\ QueueInv'
        BY <1>3, <2>3, <2>6, PostFacts
    <2>8. wire \subseteq wire' /\ wire' \subseteq wire \cup {f}
        BY <2>3, <2>7
    <2>9. /\ record' \in [Node -> SUBSET Record] /\ record'[p] = {new}
          /\ \A q \in Node \ {p} : record'[q] = record[q]
        BY <1>1, <1>3, <2>1
    <2>10. nextSid' \in 1..(MaxSid + 1) /\ nextSid' \in Nat /\ nextSid <= nextSid'
        BY <1>1, <1>3, HandshakeAssumption
    <2>11. TypeOK'
        BY <1>3, <2>7, <2>9, <2>10 DEF IInv, TypeOK
    <2>12. RowInv'
        BY <2>7 DEF IInv, RowInv
    <2>13. WireInv'
        <3> DEFINE more == wire' \ wire
        <3>1. wire' = wire \cup more /\ more \subseteq {f}
            BY <2>8
        <3> HIDE DEF more
        <3>2. \A g \in more : /\ g.from = p /\ g.sid \in Nat /\ g.sid < nextSid'
                              /\ g.type = "accept" => InitFrame(Peer(p), g.sid) \in wire
                              /\ g.type = "init" => /\ g = InitFrame(p, g.sid)
                                                    /\ InitFrame(Peer(p), g.sid) \notin wire
            BY <1>1, <1>3, <2>2, <2>5, <3>1, NodeFacts DEF f
        <3> QED
            BY <1>1, <2>10, <3>1, <3>2, WireGrows
    <2>14. SessionInv'
        BY <2>8, SessionsStand
    <2>15. \A n \in Node, sid \in Nat :
               InitFrame(n, sid) \in wire' => InitFrame(n, sid) \in wire \/ (n = p /\ sid = nextSid)
        BY <2>2, <2>8 DEF f, InitFrame
    <2>16. RecordInv'
        <3> SUFFICES ASSUME NEW n \in Node
                     PROVE  /\ \A r, s \in record'[n] : r = s
                            /\ \A r \in record'[n] :
                                  /\ r.sid < nextSid'
                                  /\ r.role = "initiator" =>
                                        /\ InitFrame(Peer(n), r.sid) \notin wire'
                                        /\ \A s \in record'[Peer(n)] :
                                              s.role = "initiator" => s.sid # r.sid
                                  /\ r.role = "responder" => InitFrame(Peer(n), r.sid) \in wire'
            BY DEF RecordInv
        <3>1. CASE n = p
            <4>1. InitFrame(Peer(p), nextSid) \notin wire'
                BY <1>1, <2>5, <2>15, NodeFacts
            <4>2. \A s \in record'[Peer(p)] : s.sid # nextSid
                BY <2>4, <2>9, <1>1, NodeFacts
            <4> QED
                BY <1>1, <1>3, <2>2, <2>9, <3>1, <4>1, <4>2
        <3>2. CASE n # p
            <4>1. Peer(n) = p /\ record'[n] = record[n]
                BY <2>9, <3>2 DEF Node, Peer
            <4>2. \A r \in record[n] : r.sid \in Nat /\ r.sid < nextSid /\ r.sid < nextSid'
                BY <1>1, <1>3, <2>4
            <4>3. ASSUME NEW r \in record[n], r.role = "initiator"
                  PROVE  InitFrame(Peer(n), r.sid) \notin wire'
                <5>1. InitFrame(Peer(n), r.sid) \notin wire
                    BY <4>3 DEF IInv, RecordInv
                <5>2. r.sid # nextSid
                    BY <1>1, <4>2
                <5> QED
                    BY <2>15, <4>2, <5>1, <5>2, NodeFacts
            <4>4. \A r \in record[n] : \A s \in record'[p] : s.sid # r.sid
                BY <1>1, <2>2, <2>9, <4>2
            <4>5. /\ \A r, s \in record[n] : r = s
                  /\ \A r \in record[n] :
                        r.role = "responder" => InitFrame(Peer(n), r.sid) \in wire'
                BY <2>8 DEF IInv, RecordInv
            <4> QED
                BY <4>1, <4>2, <4>3, <4>4, <4>5
        <3> QED
            BY <3>1, <3>2
    <2> QED
        BY <2>7, <2>11, <2>12, <2>13, <2>14, <2>16 DEF IInv
<1>4. CASE UNCHANGED <<record, box, wire, nextSid, faults>>
    BY <1>1, <1>2, <1>4
<1>5. CASE /\ record' = [record EXCEPT ![p] = {}] /\ Fault("resolve")
           /\ UNCHANGED <<box, wire, nextSid>>
    BY <1>2, <1>5, FaultFacts DEF IInv
<1>6. CASE /\ nextSid <= MaxSid /\ record' = [record EXCEPT ![p] = {new}] /\ nextSid' = nextSid + 1
           /\ (Post(p, <<f>>) /\ UNCHANGED faults) \/ PostFailed(p, f, "init")
    <2>1. faults' \in 0..MaxFaults
        BY <1>1, <1>6, FaultFacts DEF PostFailed, IInv
    <2>2. \E fs \in {<<>>, <<f>>} : Post(p, fs)
        BY <1>6 DEF PostFailed
    <2> QED
        BY <1>3, <1>6, <2>1, <2>2
<1> QED
    BY <1>4, <1>5, <1>6 DEF StartHandshake

LEMMA DeliverKeeps ==
    ASSUME IInv, NEW p \in Node, Deliver(p)
    PROVE  IInv'
<1>1. phase' \in [Node -> {"idle", "frames", "resend", "deliver"}]
    BY DEF Deliver, IInv, TypeOK
<1>2. CASE StartHandshake(p) /\ UNCHANGED <<session, outbox>>
    BY <1>1, <1>2, StartKeeps DEF Deliver
<1>3. CASE /\ session' = [session EXCEPT ![p].snd = @ + 1]
           /\ outbox' = [outbox EXCEPT ![p] = @ - 1]
           /\ UNCHANGED <<record, box, wire, nextSid, faults>>
    <2>1. UNCHANGED <<seen, batch, expired, nextTx>> /\ outbox[p] > 0
        BY DEF Deliver
    <2>2. /\ session \in [Node -> Session] /\ outbox \in [Node -> 0..MaxMsgs]
          /\ session[p].snd \in Nat /\ session[p].snd + outbox[p] <= MaxMsgs
        BY HandshakeAssumption DEF IInv, TypeOK, RowInv, Session
    <2>3. session[p].snd + 1 \in 0..MaxMsgs /\ outbox[p] - 1 \in 0..MaxMsgs
        BY <2>1, <2>2, HandshakeAssumption
    <2>4. session' \in [Node -> Session] /\ outbox' \in [Node -> 0..MaxMsgs]
        BY <1>3, <2>2, <2>3 DEF Session
    <2>5. /\ session'[p] = [session[p] EXCEPT !.snd = @ + 1] /\ outbox'[p] = outbox[p] - 1
          /\ \A q \in Node \ {p} : session'[q] = session[q] /\ outbox'[q] = outbox[q]
        BY <1>3, <2>2
    <2>6. /\ session'[p].sid = session[p].sid /\ session'[p].tx = session[p].tx
          /\ session'[p].ready = session[p].ready /\ session'[p].snd = session[p].snd + 1
        BY <2>2, <2>5 DEF Session
    <2>7. TypeOK'
        BY <1>1, <1>3, <2>1, <2>4 DEF IInv, TypeOK
    <2>8. RowInv'
        <3>1. session'[p].snd + outbox'[p] <= MaxMsgs
            BY <2>1, <2>2, <2>5, <2>6, HandshakeAssumption
        <3>2. \A q \in Node : session'[q].snd + outbox'[q] <= MaxMsgs
            BY <2>5, <3>1 DEF IInv, RowInv
        <3> QED
            BY <1>3, <2>1, <3>2 DEF IInv, RowInv
    <2>9. QueueInv' /\ WireInv' /\ RecordInv'
        BY <1>3, <2>1 DEF IInv, QueueInv, WireInv, RecordInv
    <2>10. SessionInv'
        BY <1>3, <2>5, <2>6, SessionsStand
    <2> QED
        BY <2>7, <2>8, <2>9, <2>10 DEF IInv
<1> QED
    BY <1>2, <1>3 DEF Deliver

-----------------------------------------------------------------------------
(* The theorems.                                                            *)

\* The invariant holds in every reachable state.
THEOREM Invariance == Spec => []IInv
<1>1. ASSUME Init PROVE IInv
    <2>1. ToSet(<<>>) = {} /\ <<>> \in Seq(Frame)
        BY DEF ToSet
    <2>2. NoSession \in Session /\ NoSession.sid = 0 /\ NoSession.snd = 0 /\ ~NoSession.ready
        BY HandshakeAssumption DEF NoSession, Session
    <2>3. outbox \in [Node -> 0..MaxMsgs] /\ \A p \in Node : session[p] = NoSession
        BY <1>1 DEF Init
    <2>4. TypeOK
        BY <1>1, <2>1, <2>2, HandshakeAssumption DEF Init, TypeOK
    <2>5. RowInv
        BY <1>1, <2>1, <2>2, <2>3, HandshakeAssumption DEF Init, RowInv
    <2>6. QueueInv /\ WireInv /\ RecordInv
        BY <1>1, <2>1, NodeFacts DEF Init, QueueInv, WireInv, RecordInv
    <2>7. SessionInv
        BY <2>2, <2>3 DEF SessionInv
    <2> QED
        BY <2>4, <2>5, <2>6, <2>7 DEF IInv
<1>2. ASSUME IInv, [Next]_vars PROVE IInv'
    <2>1. CASE UNCHANGED vars
        BY <1>2, <2>1
        DEF vars, IInv, TypeOK, RowInv, QueueInv, WireInv, RecordInv, SessionInv, Answered
    <2>2. ASSUME NEW p \in Node, Tick(p) \/ Crash(p) PROVE IInv'
        BY <1>2, <2>2, ProcessKeeps, ResendKeeps, DeliverKeeps, QuietKeeps DEF Tick
    <2> QED
        BY <1>2, <2>1, <2>2, QuietKeeps DEF Next
<1> QED
    BY <1>1, <1>2, PTL DEF Spec

\* Every variable keeps its type; a session seals no more than was waiting.
THEOREM TypeCorrect == Spec => []TypeOK
<1>1. IInv => TypeOK
    BY DEF IInv
<1> QED
    BY <1>1, Invariance, PTL

\* A helper has one pending handshake with its peer at most.  The table is keyed
\* by session (v2_mailbox.go:280), not by peer: it is what handleInit and
\* startHandshake removed before they saved that keeps loadV2HandshakeByPeer from
\* overlooking one and resendPending from replaying two.
THEOREM OneHandshake == Spec => []AtMostOneHandshake
<1>1. ASSUME IInv, NEW p \in Node PROVE Cardinality(record[p]) <= 1
    <2>1. CASE record[p] = {}
        BY <2>1, FS_EmptySet
    <2>2. ASSUME NEW r \in record[p] PROVE Cardinality(record[p]) <= 1
        <3>1. record[p] = {r}
            BY <1>1, <2>2 DEF IInv, RecordInv
        <3>2. Cardinality({r}) = 1
            BY FS_Singleton
        <3> QED
            BY <3>1, <3>2
    <2> QED
        BY <2>1, <2>2
<1>2. IInv => AtMostOneHandshake
    BY <1>1 DEF AtMostOneHandshake
<1> QED
    BY <1>2, Invariance, PTL

\* A session is ready only over a transcript that the peer has completed too:
\* its Init, its Accept and the peer's Finished were all stored.
THEOREM TranscriptShared == Spec => []MatchingConversation
<1>1. IInv => MatchingConversation
    BY DEF IInv, SessionInv, Answered, MatchingConversation
<1> QED
    BY <1>1, Invariance, PTL
-----------------------------------------------------------------------------
(* The send sequence, when every failure is one that the replay makes good.  *)

\* A Finished and a seen mark are never lost, no record is lost that a crossing Init
\* replaces, and no handshake outlives its hour: V2HandshakeReplay shows what the
\* first two lead to.
Recovered == FaultKinds \cap {"finished", "mark", "save"} = {} /\ MaxExpired = 0

\* Helper p waits for the Accept of sid; it has made the Accept tx of sid, and
\* has it stored or may replay it.
Starting(p, sid) == \E r \in record[p] : r.role = "initiator" /\ r.sid = sid
Offered(p, sid, tx) == AcceptFrame(p, sid, tx) \in wire
Holds(p, sid, tx) == \E r \in record[p] : r.role = "responder" /\ r.sid = sid /\ r.tx = tx

\* Whoever has neither a pending handshake nor a ready session has said nothing.
FreshInv(p) ==
    record[p] = {} /\ ~session[p].ready => session[p].sid = 0 /\ \A f \in wire : f.from # p
\* A helper starts once, and not after it has answered.
OnceInv(p) ==
    /\ \A s, t \in 1..MaxSid :
          /\ InitFrame(p, s) \in wire \/ Starting(p, s)
          /\ InitFrame(p, t) \in wire \/ Starting(p, t)
          => s = t
    /\ \A s \in 1..MaxSid : Starting(p, s) => \A f \in wire : f.from = p => f.type # "accept"
\* What a session was saved for has been marked seen.
MarkInv(p) ==
    LET s == session[p]
    IN  /\ seen[p] \subseteq wire
        /\ InitFrame(Peer(p), s.sid) \in wire => InitFrame(Peer(p), s.sid) \in seen[p]
        /\ InitFrame(p, s.sid) \in wire => AcceptFrame(Peer(p), s.sid, s.tx) \in seen[p]
        /\ s.snd > 0 => s.ready
\* To a handshake p still waits for, its peer makes one Accept, and keeps it for
\* as long as the Init is not marked seen.
OfferInv(p) ==
    LET q == Peer(p)
    IN  \A s \in 1..MaxSid : Starting(p, s) =>
          /\ \A t, u \in 0..MaxTx :
                /\ Offered(q, s, t) \/ Holds(q, s, t)
                /\ Offered(q, s, u) \/ Holds(q, s, u)
                => t = u
          /\ InitFrame(p, s) \notin seen[q] =>
                \A t \in 0..MaxTx : Offered(q, s, t) => Holds(q, s, t)

SeqInv == /\ expired = {}
          /\ \A p \in Node : FreshInv(p) /\ OnceInv(p) /\ MarkInv(p) /\ OfferInv(p)

\* The moves of a helper p.  Only p's rows change, and it sends new.
Moves(p, new) ==
    /\ wire' = wire \cup new /\ expired' = {}
    /\ \A n \in Node \ {p} : /\ record'[n] = record[n] /\ session'[n] = session[n]
                              /\ seen'[n] = seen[n]
    /\ seen[p] \subseteq seen'[p] /\ seen'[p] \subseteq wire
    /\ new \subseteq Frame /\ \A g \in new : g.from = p
SameSession(p) ==
    /\ session'[p].sid = session[p].sid /\ session'[p].tx = session[p].tx
    /\ session'[p].ready = session[p].ready
    /\ session'[p].snd >= session[p].snd /\ (session'[p].snd > 0 => session[p].ready)

\* It repeats what it said, or seals a message.
Repeats(p) ==
    \E new : /\ Moves(p, new) /\ record'[p] = record[p] /\ SameSession(p)
             /\ new # {} => record[p] # {}
             /\ \A g \in new : g.type # "finished" => \E r \in record[p] : g = Pending(p, r)
\* It answers the Init of sid.
Answers(p) ==
    \E new \in SUBSET Frame, sid \in 1..MaxSid, tx \in 0..MaxTx :
       /\ Moves(p, new)
       /\ InitFrame(Peer(p), sid) \in wire /\ InitFrame(Peer(p), sid) \notin seen[p]
       /\ \A t \in 0..MaxTx : Holds(p, sid, t) => t = tx
       /\ record'[p] = {[sid |-> sid, role |-> "responder", tx |-> tx]}
       /\ \A g \in new : g = AcceptFrame(p, sid, tx) \/ g = FinishedFrame(p, sid, tx)
       /\ \/ session'[p] = session[p]
          \/ session'[p] = NewSession(sid, tx) /\ InitFrame(Peer(p), sid) \in seen'[p]
\* It takes up the Accept it waited for.
Joins(p) ==
    \E new \in SUBSET Frame, sid \in 1..MaxSid, tx \in 0..MaxTx :
       /\ Moves(p, new) /\ record'[p] = record[p] /\ Starting(p, sid)
       /\ Offered(Peer(p), sid, tx) /\ AcceptFrame(Peer(p), sid, tx) \notin seen[p]
       /\ \A g \in new : g = FinishedFrame(p, sid, tx)
       /\ session'[p] = NewSession(sid, tx) /\ AcceptFrame(Peer(p), sid, tx) \in seen'[p]
\* Its session is ready, and the handshake over.
Completes(p) ==
    /\ Moves(p, {})
    /\ session'[p].sid = session[p].sid /\ session'[p].tx = session[p].tx
    /\ session'[p].ready /\ session'[p].snd = session[p].snd
    /\ \/ session[p].ready /\ record'[p] \subseteq record[p]
       \/ record'[p] = record[p]
       \/ record'[p] = {r \in record[p] : r.sid # session[p].sid}
\* It starts.
Starts(p) ==
    \E new : /\ Moves(p, new) /\ record[p] = {} /\ ~session[p].ready
             /\ session'[p] = session[p] /\ seen'[p] = seen[p] /\ nextSid \in 1..MaxSid
             /\ record'[p] = {[sid |-> nextSid, role |-> "initiator", tx |-> 0]}
             /\ \A g \in new : g = InitFrame(p, nextSid)

\* What the peer said, and what it waits for, is as it was.
LEMMA PeerSaid ==
    ASSUME NEW p \in Node, NEW new, Moves(p, new)
    PROVE  /\ wire \subseteq wire' /\ \A f \in wire' : f.from = Peer(p) => f \in wire
           /\ \A s : InitFrame(Peer(p), s) \in wire' <=> InitFrame(Peer(p), s) \in wire
           /\ \A s, t : Offered(Peer(p), s, t)' <=> Offered(Peer(p), s, t)
           /\ \A s : Starting(Peer(p), s)' <=> Starting(Peer(p), s)
           /\ \A s, t : Holds(Peer(p), s, t)' <=> Holds(Peer(p), s, t)
<1> DEFINE q == Peer(p)
<1>0. q \in Node /\ q # p
    BY NodeFacts
<1>1. wire' = wire \cup new /\ (\A g \in new : g.from = p) /\ record'[q] = record[q]
    BY <1>0 DEF Moves
<1> HIDE DEF q
<1>2. wire \subseteq wire' /\ \A f \in wire' : f.from = q => f \in wire
    BY <1>0, <1>1
<1>3. \A s : InitFrame(q, s).from = q
    BY DEF InitFrame
<1>4. \A s, t : AcceptFrame(q, s, t).from = q
    BY DEF AcceptFrame
<1>5. \A s : InitFrame(q, s) \in wire' <=> InitFrame(q, s) \in wire
    BY <1>2, <1>3
<1>6. \A s, t : Offered(q, s, t)' <=> Offered(q, s, t)
    BY <1>2, <1>4 DEF Offered
<1>7. (\A s : Starting(q, s)' <=> Starting(q, s)) /\ (\A s, t : Holds(q, s, t)' <=> Holds(q, s, t))
    BY <1>1 DEF Starting, Holds
<1> QED
    BY <1>2, <1>5, <1>6, <1>7 DEF q

\* Both helpers make up the invariant.
LEMMA BothSides ==
    ASSUME NEW p \in Node, expired' = {},
           FreshInv(p)', OnceInv(p)', MarkInv(p)', OfferInv(p)',
           FreshInv(Peer(p))', OnceInv(Peer(p))', MarkInv(Peer(p))', OfferInv(Peer(p))'
    PROVE  SeqInv'
<1>1. \A n \in Node : n = p \/ n = Peer(p)
    BY DEF Node, Peer
<1> QED
    BY <1>1 DEF SeqInv

\* A session rests on one Init, and its identifier was given out.
LEMMA SessionRests ==
    ASSUME IInv, NEW n \in Node, session[n].sid # 0
    PROVE  /\ session[n].sid \in 1..MaxSid /\ session[n].sid < nextSid
           /\ session[n].tx \in 0..MaxTx
           /\ \E m \in Node : /\ InitFrame(m, session[n].sid) \in wire
                              /\ InitFrame(Peer(m), session[n].sid) \notin wire
                              /\ AcceptFrame(Peer(m), session[n].sid, session[n].tx) \in wire
<1> DEFINE sid == session[n].sid
           tx == session[n].tx
<1>1. sid \in 0..MaxSid /\ tx \in 0..MaxTx
    BY DEF IInv, TypeOK, Session
<1>2. PICK m \in Node : InitFrame(m, sid) \in wire /\ AcceptFrame(Peer(m), sid, tx) \in wire
    BY DEF IInv, SessionInv, Answered
<1>3. /\ InitFrame(m, sid).sid = sid /\ InitFrame(m, sid).from = m
      /\ InitFrame(m, sid).type = "init"
    BY DEF InitFrame
<1>4. sid < nextSid /\ InitFrame(Peer(m), sid) \notin wire
    BY <1>2, <1>3 DEF IInv, WireInv
<1> QED
    BY <1>1, <1>2, <1>4, HandshakeAssumption

\* The Init behind a session is not one that is still to come.
LEMMA NoNewInit ==
    ASSUME IInv, NEW p \in Node, NEW n \in Node, NEW new, Moves(p, new),
           \A g \in new : g.type = "init" =>
              Starting(p, g.sid) \/ (g.sid = nextSid /\ nextSid \in 1..MaxSid),
           InitFrame(p, session[n].sid) \in wire'
    PROVE  InitFrame(p, session[n].sid) \in wire
<1> DEFINE sid == session[n].sid
           f == InitFrame(p, sid)
<1>1. f.sid = sid /\ f.type = "init"
    BY DEF InitFrame
<1>2. wire' = wire \cup new /\ new \subseteq Frame
    BY DEF Moves
<1> SUFFICES ASSUME f \in new
             PROVE  f \in wire
    BY <1>2
<1>3. sid \in 1..MaxSid
    <2>1. f \in Frame
        BY <1>2
    <2> QED
        BY <1>1, <2>1 DEF Frame
<1>4. sid # 0
    BY <1>3
<1>5. PICK m \in Node : InitFrame(m, sid) \in wire
    BY <1>4, SessionRests
<1>6. sid < nextSid /\ nextSid \in Nat
    BY <1>4, SessionRests, HandshakeAssumption DEF IInv, TypeOK
<1>7. Starting(p, sid)
    BY <1>1, <1>3, <1>6
<1>8. InitFrame(Peer(p), sid) \notin wire
    BY <1>7 DEF Starting, IInv, RecordInv
<1>9. m = p
    BY <1>5, <1>8 DEF Node, Peer
<1> QED
    BY <1>5, <1>9

\* What the moves of p leave of the peer's side.
LEMMA PeerKeeps ==
    ASSUME IInv, SeqInv, NEW p \in Node, NEW new, Moves(p, new),
           InitFrame(p, session[Peer(p)].sid) \in wire'
              => InitFrame(p, session[Peer(p)].sid) \in wire
    PROVE  FreshInv(Peer(p))' /\ OnceInv(Peer(p))' /\ MarkInv(Peer(p))'
<1> DEFINE q == Peer(p)
<1>0. q \in Node /\ q # p /\ Peer(q) = p
    BY NodeFacts
<1>1. record'[q] = record[q] /\ session'[q] = session[q] /\ seen'[q] = seen[q]
    BY <1>0 DEF Moves
<1>2. /\ wire \subseteq wire' /\ \A f \in wire' : f.from = q => f \in wire
      /\ \A s : InitFrame(q, s) \in wire' <=> InitFrame(q, s) \in wire
      /\ \A s : Starting(q, s)' <=> Starting(q, s)
    BY PeerSaid
<1>3. FreshInv(q) /\ OnceInv(q) /\ MarkInv(q)
    BY <1>0 DEF SeqInv
<1>4. InitFrame(p, session[q].sid) \in wire' => InitFrame(p, session[q].sid) \in wire
    OBVIOUS
<1> HIDE DEF q
<1>5. FreshInv(q)'
    BY <1>1, <1>2, <1>3 DEF FreshInv
<1>6. OnceInv(q)'
    BY <1>2, <1>3 DEF OnceInv
<1>7. MarkInv(q)'
    BY <1>0, <1>1, <1>2, <1>3, <1>4 DEF MarkInv
<1> QED
    BY <1>5, <1>6, <1>7 DEF q

\* The offers to p are as they were, if p waits for nothing new.
LEMMA OwnOffers ==
    ASSUME SeqInv, NEW p \in Node, NEW new, Moves(p, new),
           \A s \in 1..MaxSid : Starting(p, s)' => Starting(p, s)
    PROVE  OfferInv(p)'
<1> DEFINE q == Peer(p)
<1>0. q \in Node /\ q # p
    BY NodeFacts
<1>1. seen'[q] = seen[q]
    BY <1>0 DEF Moves
<1>2. /\ \A s, t : Offered(q, s, t)' <=> Offered(q, s, t)
      /\ \A s, t : Holds(q, s, t)' <=> Holds(q, s, t)
    BY PeerSaid
<1>3. OfferInv(p)
    BY DEF SeqInv
<1>4. ASSUME NEW s \in 1..MaxSid, Starting(p, s)'
      PROVE  /\ \A t, u \in 0..MaxTx :
                  /\ Offered(q, s, t)' \/ Holds(q, s, t)'
                  /\ Offered(q, s, u)' \/ Holds(q, s, u)'
                  => t = u
             /\ InitFrame(p, s) \notin seen'[q] =>
                  \A t \in 0..MaxTx : Offered(q, s, t)' => Holds(q, s, t)'
    <2>1. Starting(p, s)
        BY <1>4
    <2> QED
        BY <1>1, <1>2, <1>3, <2>1 DEF OfferInv
<1> QED
    BY <1>4 DEF OfferInv

\* The offers of p are as they were, if p offers nothing new and keeps what the
\* peer has not marked seen.
LEMMA PeerOffers ==
    ASSUME SeqInv, NEW p \in Node, NEW new, Moves(p, new),
           \A s \in 1..MaxSid, t \in 0..MaxTx :
              Offered(p, s, t)' \/ Holds(p, s, t)' => Offered(p, s, t) \/ Holds(p, s, t),
           \A s \in 1..MaxSid, t \in 0..MaxTx :
              Starting(Peer(p), s) /\ InitFrame(Peer(p), s) \notin seen[p] /\ Offered(p, s, t)'
              => Holds(p, s, t)'
    PROVE  OfferInv(Peer(p))'
<1> DEFINE q == Peer(p)
<1>0. q \in Node /\ Peer(q) = p
    BY NodeFacts
<1>1. seen[p] \subseteq seen'[p]
    BY DEF Moves
<1>2. \A s : Starting(q, s)' <=> Starting(q, s)
    BY PeerSaid
<1>3. OfferInv(q)
    BY <1>0 DEF SeqInv
<1>4. ASSUME NEW s \in 1..MaxSid, Starting(q, s)'
      PROVE  /\ \A t, u \in 0..MaxTx :
                  /\ Offered(p, s, t)' \/ Holds(p, s, t)'
                  /\ Offered(p, s, u)' \/ Holds(p, s, u)'
                  => t = u
             /\ InitFrame(q, s) \notin seen'[p] =>
                  \A t \in 0..MaxTx : Offered(p, s, t)' => Holds(p, s, t)'
    <2>1. Starting(q, s)
        BY <1>2, <1>4
    <2>2. \A t, u \in 0..MaxTx :
             /\ Offered(p, s, t) \/ Holds(p, s, t)
             /\ Offered(p, s, u) \/ Holds(p, s, u)
             => t = u
        BY <1>0, <1>3, <2>1 DEF OfferInv
    <2> QED
        BY <1>1, <2>1, <2>2
<1> HIDE DEF q
<1> QED
    BY <1>0, <1>4 DEF OfferInv, q

\* Repeating what was said keeps the invariant.
LEMMA RepeatsKeep ==
    ASSUME IInv, SeqInv, NEW p \in Node, Repeats(p)
    PROVE  SeqInv'
<1> DEFINE q == Peer(p)
<1>0. q \in Node /\ q # p /\ Peer(q) = p
    BY NodeFacts
<1>1. PICK new : /\ Moves(p, new) /\ record'[p] = record[p] /\ SameSession(p)
                 /\ new # {} => record[p] # {}
                 /\ \A g \in new : g.type # "finished" => \E r \in record[p] : g = Pending(p, r)
    BY DEF Repeats
<1>2. /\ wire' = wire \cup new /\ expired' = {} /\ seen[p] \subseteq seen'[p]
      /\ seen'[p] \subseteq wire
    BY <1>1 DEF Moves
<1>3. FreshInv(p) /\ OnceInv(p) /\ MarkInv(p) /\ OfferInv(q)
    BY <1>0 DEF SeqInv
<1>4. ASSUME NEW g \in new, g.type = "init" PROVE Starting(p, g.sid)
    <2>1. PICK r \in record[p] : g = Pending(p, r)
        BY <1>1, <1>4
    <2>2. r.role = "initiator" /\ r.sid = g.sid
        BY <1>4, <2>1 DEF Pending, InitFrame, AcceptFrame
    <2> QED
        BY <2>2 DEF Starting
<1>5. ASSUME NEW g \in new, g.type = "accept" PROVE Holds(p, g.sid, g.tx)
    <2>1. PICK r \in record[p] : g = Pending(p, r)
        BY <1>1, <1>5
    <2>2. r.role \in {"initiator", "responder"}
        BY DEF IInv, TypeOK, Record
    <2>3. r.role = "responder" /\ r.sid = g.sid /\ r.tx = g.tx
        BY <1>5, <2>1, <2>2 DEF Pending, InitFrame, AcceptFrame
    <2> QED
        BY <2>3 DEF Holds
<1>6. /\ \A s : Starting(p, s)' <=> Starting(p, s)
      /\ \A s, t : Holds(p, s, t)' <=> Holds(p, s, t)
    BY <1>1 DEF Starting, Holds
<1>7. ASSUME NEW n \in Node, InitFrame(p, session[n].sid) \in wire'
      PROVE  InitFrame(p, session[n].sid) \in wire
    BY <1>1, <1>4, <1>7, NoNewInit
<1>8. FreshInv(q)' /\ OnceInv(q)' /\ MarkInv(q)'
    BY <1>0, <1>1, <1>7, PeerKeeps
<1>9. OfferInv(p)'
    BY <1>1, <1>6, OwnOffers
<1>10. \A s, t : Offered(p, s, t)' => Offered(p, s, t) \/ Holds(p, s, t)
    BY <1>2, <1>5 DEF Offered, AcceptFrame
<1>11. OfferInv(q)'
    <2>1. \A s \in 1..MaxSid, t \in 0..MaxTx :
              Starting(q, s) /\ InitFrame(q, s) \notin seen[p] /\ Offered(p, s, t)'
              => Holds(p, s, t)'
        BY <1>0, <1>3, <1>6, <1>10 DEF OfferInv
    <2> QED
        BY <1>1, <1>6, <1>10, <2>1, PeerOffers
<1>12. FreshInv(p)'
    BY <1>1, <1>2, <1>3 DEF FreshInv, SameSession
<1>13. OnceInv(p)'
    <2>1. \A s : InitFrame(p, s) \in wire' => InitFrame(p, s) \in wire \/ Starting(p, s)
        BY <1>2, <1>4 DEF InitFrame
    <2>2. ASSUME NEW s \in 1..MaxSid, Starting(p, s), NEW g \in new, g.type = "accept"
          PROVE  FALSE
        <3>1. Holds(p, g.sid, g.tx)
            BY <1>5, <2>2
        <3> QED
            BY <2>2, <3>1 DEF Holds, Starting, IInv, RecordInv
    <2>3. \A s \in 1..MaxSid : Starting(p, s)' => \A f \in wire' : f.from = p => f.type # "accept"
        BY <1>2, <1>3, <1>6, <2>2 DEF OnceInv
    <2> QED
        BY <1>3, <1>6, <2>1, <2>3 DEF OnceInv
<1>14. MarkInv(p)'
    <2>1. /\ session'[p].sid = session[p].sid /\ session'[p].tx = session[p].tx
          /\ session'[p].ready = session[p].ready
          /\ (session'[p].snd > 0 => session[p].ready)
        BY <1>1 DEF SameSession
    <2>2. \A s : InitFrame(q, s) \in wire' <=> InitFrame(q, s) \in wire
        BY <1>1, PeerSaid
    <2> QED
        BY <1>2, <1>3, <1>7, <2>1, <2>2 DEF MarkInv
<1> QED
    BY <1>2, <1>8, <1>9, <1>11, <1>12, <1>13, <1>14, BothSides

\* Answering an Init keeps the invariant: a start that still waits is the only
\* one, and the peer has the one Accept it was given.
LEMMA AnswersKeep ==
    ASSUME IInv, SeqInv, NEW p \in Node, Answers(p)
    PROVE  SeqInv'
<1> DEFINE q == Peer(p)
<1>0. q \in Node /\ q # p /\ Peer(q) = p
    BY NodeFacts
<1>1. PICK new \in SUBSET Frame, sid \in 1..MaxSid, tx \in 0..MaxTx :
         /\ Moves(p, new)
         /\ InitFrame(q, sid) \in wire /\ InitFrame(q, sid) \notin seen[p]
         /\ \A t \in 0..MaxTx : Holds(p, sid, t) => t = tx
         /\ record'[p] = {[sid |-> sid, role |-> "responder", tx |-> tx]}
         /\ \A g \in new : g = AcceptFrame(p, sid, tx) \/ g = FinishedFrame(p, sid, tx)
         /\ \/ session'[p] = session[p]
            \/ session'[p] = NewSession(sid, tx) /\ InitFrame(q, sid) \in seen'[p]
    BY DEF Answers
<1>2. /\ wire' = wire \cup new /\ expired' = {} /\ seen[p] \subseteq seen'[p]
      /\ seen'[p] \subseteq wire
    BY <1>1 DEF Moves
<1>3. OnceInv(p) /\ OnceInv(q) /\ MarkInv(p) /\ OfferInv(q)
    BY <1>0 DEF SeqInv
<1>4. \A g \in new : g.type # "init"
    BY <1>1 DEF AcceptFrame, FinishedFrame
<1>5. \A s : InitFrame(p, s) \in wire' => InitFrame(p, s) \in wire
    BY <1>2, <1>4 DEF InitFrame
<1>6. (\A s : ~Starting(p, s)') /\ Holds(p, sid, tx)' /\ record'[p] # {}
    BY <1>1 DEF Starting, Holds
<1>7. FreshInv(q)' /\ OnceInv(q)' /\ MarkInv(q)'
    BY <1>0, <1>1, <1>5, PeerKeeps
<1>8. OfferInv(p)'
    BY <1>1, <1>6, OwnOffers
<1>9. OfferInv(q)'
    <2>1. ASSUME NEW s \in 1..MaxSid, Starting(q, s)' PROVE s = sid /\ Starting(q, sid)
        <3>1. Starting(q, s)
            BY <1>1, <2>1, PeerSaid
        <3>2. s = sid
            BY <1>1, <1>3, <3>1 DEF OnceInv
        <3> QED
            BY <3>1, <3>2
    <2>2. ASSUME Starting(q, sid), NEW t \in 0..MaxTx, Offered(p, sid, t)' \/ Holds(p, sid, t)'
          PROVE  t = tx
        <3>1. CASE Offered(p, sid, t)
            BY <1>0, <1>1, <1>3, <2>2, <3>1 DEF OfferInv
        <3>2. CASE AcceptFrame(p, sid, t) \in new
            BY <1>1, <3>2 DEF AcceptFrame, FinishedFrame
        <3>3. CASE Holds(p, sid, t)'
            BY <1>1, <3>3 DEF Holds
        <3> QED
            BY <1>2, <2>2, <3>1, <3>2, <3>3 DEF Offered
    <2>3. ASSUME NEW s \in 1..MaxSid, Starting(q, s)'
          PROVE  /\ \A t, u \in 0..MaxTx :
                      /\ Offered(p, s, t)' \/ Holds(p, s, t)'
                      /\ Offered(p, s, u)' \/ Holds(p, s, u)'
                      => t = u
                 /\ \A t \in 0..MaxTx : Offered(p, s, t)' => Holds(p, s, t)'
        <3>1. s = sid /\ Starting(q, sid)
            BY <2>1, <2>3
        <3> QED
            BY <1>6, <2>2, <3>1
    <2> HIDE DEF q
    <2> QED
        BY <1>0, <2>3 DEF OfferInv
<1>10. FreshInv(p)'
    BY <1>6 DEF FreshInv
<1>11. OnceInv(p)'
    BY <1>3, <1>5, <1>6 DEF OnceInv
<1>12. MarkInv(p)'
    <2>1. \A s : InitFrame(q, s) \in wire' <=> InitFrame(q, s) \in wire
        BY <1>1, PeerSaid
    <2>2. CASE session'[p] = session[p]
        BY <1>2, <1>3, <1>5, <2>1, <2>2 DEF MarkInv
    <2>3. CASE session'[p] = NewSession(sid, tx) /\ InitFrame(q, sid) \in seen'[p]
        <3>1. session'[p].sid = sid /\ session'[p].tx = tx /\ session'[p].snd = 0
            BY <2>3 DEF NewSession
        <3>2. InitFrame(p, sid) \notin wire'
            <4>1. /\ InitFrame(q, sid).type = "init" /\ InitFrame(q, sid).sid = sid
                  /\ InitFrame(q, sid).from = q
                BY DEF InitFrame
            <4> QED
                BY <1>0, <1>1, <1>5, <4>1 DEF IInv, WireInv
        <3> QED
            BY <1>2, <2>3, <3>1, <3>2 DEF MarkInv
    <2> QED
        BY <1>1, <2>2, <2>3
<1> QED
    BY <1>2, <1>7, <1>8, <1>9, <1>10, <1>11, <1>12, BothSides

\* Taking up an Accept keeps it.
LEMMA JoinsKeep ==
    ASSUME IInv, SeqInv, NEW p \in Node, Joins(p)
    PROVE  SeqInv'
<1> DEFINE q == Peer(p)
<1>0. q \in Node /\ q # p /\ Peer(q) = p
    BY NodeFacts
<1>1. PICK new \in SUBSET Frame, sid \in 1..MaxSid, tx \in 0..MaxTx :
         /\ Moves(p, new) /\ record'[p] = record[p] /\ Starting(p, sid)
         /\ \A g \in new : g = FinishedFrame(p, sid, tx)
         /\ session'[p] = NewSession(sid, tx) /\ AcceptFrame(q, sid, tx) \in seen'[p]
    BY DEF Joins
<1>2. /\ wire' = wire \cup new /\ expired' = {} /\ seen[p] \subseteq seen'[p]
      /\ seen'[p] \subseteq wire
    BY <1>1 DEF Moves
<1>3. OnceInv(p) /\ OfferInv(q)
    BY <1>0 DEF SeqInv
<1>4. \A g \in new : g.type = "finished"
    BY <1>1 DEF FinishedFrame
<1>5. /\ \A s : InitFrame(p, s) \in wire' => InitFrame(p, s) \in wire
      /\ \A s, t : Offered(p, s, t)' => Offered(p, s, t)
    BY <1>2, <1>4 DEF InitFrame, AcceptFrame, Offered
<1>6. /\ \A s : Starting(p, s)' <=> Starting(p, s)
      /\ \A s, t : Holds(p, s, t)' <=> Holds(p, s, t)
      /\ record'[p] # {}
    BY <1>1 DEF Starting, Holds
<1>7. FreshInv(q)' /\ OnceInv(q)' /\ MarkInv(q)'
    BY <1>0, <1>1, <1>5, PeerKeeps
<1>8. OfferInv(p)'
    BY <1>1, <1>6, OwnOffers
<1>9. OfferInv(q)'
    <2>1. \A s \in 1..MaxSid, t \in 0..MaxTx :
              Starting(q, s) /\ InitFrame(q, s) \notin seen[p] /\ Offered(p, s, t)'
              => Holds(p, s, t)'
        BY <1>0, <1>3, <1>5, <1>6 DEF OfferInv
    <2> QED
        BY <1>1, <1>5, <1>6, <2>1, PeerOffers
<1>10. FreshInv(p)'
    BY <1>6 DEF FreshInv
<1>11. OnceInv(p)'
    <2>1. \A f \in wire' : f.type = "accept" => f \in wire
        BY <1>2, <1>4
    <2> QED
        BY <1>3, <1>5, <1>6, <2>1 DEF OnceInv
<1>12. MarkInv(p)'
    <2>1. session'[p].sid = sid /\ session'[p].tx = tx /\ session'[p].snd = 0
        BY <1>1 DEF NewSession
    <2>2. InitFrame(q, sid) \notin wire
        BY <1>1 DEF Starting, IInv, RecordInv
    <2>3. InitFrame(q, sid) \notin wire'
        BY <1>1, <2>2, PeerSaid
    <2> QED
        BY <1>1, <1>2, <2>1, <2>3 DEF MarkInv
<1> QED
    BY <1>2, <1>7, <1>8, <1>9, <1>10, <1>11, <1>12, BothSides

\* Completing a handshake keeps it: what is erased was marked seen.
LEMMA CompletesKeep ==
    ASSUME IInv, SeqInv, NEW p \in Node, Completes(p)
    PROVE  SeqInv'
<1> DEFINE q == Peer(p)
           s0 == session[p]
<1>0. q \in Node /\ q # p /\ Peer(q) = p
    BY NodeFacts
<1>1. /\ Moves(p, {})
      /\ session'[p].sid = s0.sid /\ session'[p].tx = s0.tx /\ session'[p].ready
      /\ \/ s0.ready /\ record'[p] \subseteq record[p]
         \/ record'[p] = record[p]
         \/ record'[p] = {r \in record[p] : r.sid # s0.sid}
    BY DEF Completes
<1>2. /\ wire' = wire /\ expired' = {} /\ seen[p] \subseteq seen'[p]
      /\ seen'[p] \subseteq wire
    BY <1>1 DEF Moves
<1>3. OnceInv(p) /\ OnceInv(q) /\ MarkInv(p) /\ OfferInv(q)
    BY <1>0 DEF SeqInv
<1>4. record'[p] \subseteq record[p]
    BY <1>1
<1>5. /\ \A s : Starting(p, s)' => Starting(p, s)
      /\ \A s, t : Holds(p, s, t)' => Holds(p, s, t)
      /\ \A s, t : Offered(p, s, t)' <=> Offered(p, s, t)
    BY <1>2, <1>4 DEF Starting, Holds, Offered
<1>6. FreshInv(q)' /\ OnceInv(q)' /\ MarkInv(q)'
    BY <1>0, <1>1, <1>2, PeerKeeps
<1>7. OfferInv(p)'
    BY <1>1, <1>5, OwnOffers
<1>8. ASSUME NEW s \in 1..MaxSid, Starting(q, s), InitFrame(q, s) \notin seen[p],
             NEW t, Holds(p, s, t)
      PROVE  Holds(p, s, t)'
    <2>1. PICK r \in record[p] : r.role = "responder" /\ r.sid = s /\ r.tx = t
        BY <1>8 DEF Holds
    <2>2. s # s0.sid
        <3>1. InitFrame(q, s) \in wire
            BY <2>1 DEF IInv, RecordInv
        <3> QED
            BY <1>3, <1>8, <3>1 DEF MarkInv
    <2>3. ~s0.ready
        <3> SUFFICES ASSUME s0.ready PROVE FALSE
            OBVIOUS
        <3>1. s0.sid # 0
            BY DEF IInv, SessionInv
        <3>2. s0.sid \in 1..MaxSid
            BY <3>1, SessionRests
        <3>3. PICK m \in Node : /\ InitFrame(m, s0.sid) \in wire
                                /\ AcceptFrame(Peer(m), s0.sid, s0.tx) \in wire
            BY <3>1, SessionRests
        <3>4. CASE m = q
            BY <1>3, <1>8, <2>2, <3>2, <3>3, <3>4 DEF OnceInv
        <3>5. CASE m = p
            BY <1>3, <1>8, <3>3, <3>5 DEF OnceInv, AcceptFrame
        <3> QED
            BY <3>4, <3>5 DEF Node, Peer
    <2>4. r \in record'[p]
        BY <1>1, <2>1, <2>2, <2>3
    <2> QED
        BY <2>1, <2>4 DEF Holds
<1>9. OfferInv(q)'
    <2>1. \A s \in 1..MaxSid, t \in 0..MaxTx :
              Starting(q, s) /\ InitFrame(q, s) \notin seen[p] /\ Offered(p, s, t)'
              => Holds(p, s, t)'
        BY <1>0, <1>3, <1>5, <1>8 DEF OfferInv
    <2> QED
        BY <1>1, <1>5, <2>1, PeerOffers
<1>10. FreshInv(p)'
    BY <1>1 DEF FreshInv
<1>11. OnceInv(p)'
    BY <1>2, <1>3, <1>5 DEF OnceInv
<1>12. MarkInv(p)'
    BY <1>1, <1>2, <1>3 DEF MarkInv
<1> QED
    BY <1>2, <1>6, <1>7, <1>9, <1>10, <1>11, <1>12, BothSides

\* Starting keeps it: nothing was said before, and the identifier is new.
LEMMA StartsKeep ==
    ASSUME IInv, SeqInv, NEW p \in Node, Starts(p)
    PROVE  SeqInv'
<1> DEFINE q == Peer(p)
<1>0. q \in Node /\ q # p /\ Peer(q) = p
    BY NodeFacts
<1>1. PICK new :
         /\ Moves(p, new) /\ record[p] = {} /\ ~session[p].ready
         /\ session'[p] = session[p] /\ seen'[p] = seen[p] /\ nextSid \in 1..MaxSid
         /\ record'[p] = {[sid |-> nextSid, role |-> "initiator", tx |-> 0]}
         /\ \A g \in new : g = InitFrame(p, nextSid)
    BY DEF Starts
<1>2. /\ wire' = wire \cup new /\ expired' = {} /\ seen'[p] \subseteq wire
    BY <1>1 DEF Moves
<1>3. FreshInv(p) /\ MarkInv(p)
    BY DEF SeqInv
<1>4. session[p].sid = 0 /\ \A f \in wire : f.from # p
    BY <1>1, <1>3 DEF FreshInv
<1>5. \A g \in new : g.type = "init" /\ g.sid = nextSid
    BY <1>1 DEF InitFrame
<1>6. /\ \A s : Starting(p, s)' => s = nextSid
      /\ \A s, t : ~Holds(p, s, t)'
      /\ record'[p] # {}
    BY <1>1 DEF Starting, Holds
<1>7. \A s, t : ~Offered(p, s, t)'
    BY <1>2, <1>4, <1>5 DEF Offered, AcceptFrame
<1>8. FreshInv(q)' /\ OnceInv(q)' /\ MarkInv(q)'
    <2>1. InitFrame(p, session[q].sid) \in wire' => InitFrame(p, session[q].sid) \in wire
        BY <1>0, <1>1, <1>5, NoNewInit
    <2> QED
        BY <1>1, <2>1, PeerKeeps
<1>9. OfferInv(p)'
    <2>1. ASSUME NEW t PROVE ~Offered(q, nextSid, t)
        <3>1. \A f \in wire : f.sid \in Nat /\ f.sid < nextSid
            BY DEF IInv, WireInv, TypeOK, Frame
        <3> QED
            BY <1>1, <3>1 DEF Offered, AcceptFrame
    <2>2. ASSUME NEW t PROVE ~Holds(q, nextSid, t)
        <3>1. \A r \in record[q] : r.sid \in Nat /\ r.sid < nextSid
            BY <1>0 DEF IInv, RecordInv, TypeOK, Record
        <3> QED
            BY <1>1, <3>1 DEF Holds
    <2>3. /\ \A s, t : Offered(q, s, t)' <=> Offered(q, s, t)
          /\ \A s, t : Holds(q, s, t)' <=> Holds(q, s, t)
        BY <1>1, PeerSaid
    <2> HIDE DEF q
    <2>4. ASSUME NEW s \in 1..MaxSid, Starting(p, s)', NEW t
          PROVE  ~Offered(q, s, t)' /\ ~Holds(q, s, t)'
        <3>1. s = nextSid
            BY <1>6, <2>4
        <3> QED
            BY <2>1, <2>2, <2>3, <3>1
    <2> QED
        BY <2>4 DEF OfferInv, q
<1>10. OfferInv(q)'
    BY <1>1, <1>6, <1>7, PeerOffers
<1>11. FreshInv(p)'
    BY <1>6 DEF FreshInv
<1>12. OnceInv(p)'
    <2>1. \A s : InitFrame(p, s) \in wire' => s = nextSid
        BY <1>2, <1>4, <1>5 DEF InitFrame
    <2>2. \A f \in wire' : f.from = p => f.type # "accept"
        BY <1>2, <1>4, <1>5
    <2> QED
        BY <1>6, <2>1, <2>2 DEF OnceInv
<1>13. MarkInv(p)'
    <2>1. wire' \subseteq Frame
        BY <1>1, <1>2 DEF Moves, IInv, TypeOK
    <2>2. \A n : InitFrame(n, 0) \notin wire'
        BY <2>1 DEF Frame, InitFrame
    <2> QED
        BY <1>1, <1>2, <1>3, <1>4, <2>2 DEF MarkInv
<1> QED
    BY <1>2, <1>8, <1>9, <1>10, <1>11, <1>12, <1>13, BothSides

Move(p) == Repeats(p) \/ Answers(p) \/ Joins(p) \/ Completes(p) \/ Starts(p)

LEMMA MoveKeeps ==
    ASSUME IInv, SeqInv, NEW p \in Node, Move(p)
    PROVE  SeqInv'
BY RepeatsKeep, AnswersKeep, JoinsKeep, CompletesKeep, StartsKeep DEF Move

\* A session saved anew has another identifier than the one it replaces: what
\* that one was saved for has been marked seen, and no other Accept was made.
LEMMA MoveNeverFalls ==
    ASSUME IInv, SeqInv, NEW p \in Node, Move(p)
    PROVE  \A n \in Node : session'[n].sid = session[n].sid => session'[n].snd >= session[n].snd
<1> DEFINE q == Peer(p)
<1>0. q \in Node /\ q # p /\ Peer(q) = p
    BY NodeFacts
<1>1. PICK new : Moves(p, new)
    BY DEF Move, Repeats, Answers, Joins, Completes, Starts
<1>2. \A n \in Node : /\ session[n].snd \in Nat /\ session[n].sid \in 0..MaxSid
                      /\ session[n].tx \in 0..MaxTx
    BY HandshakeAssumption DEF IInv, TypeOK, Session
<1>3. MarkInv(p) /\ OfferInv(p)
    BY DEF SeqInv
<1>4. ASSUME session'[p].sid = session[p].sid
      PROVE  session'[p].snd >= session[p].snd
    <2>1. CASE Repeats(p)
        BY <2>1 DEF Repeats, SameSession
    <2>2. CASE Answers(p)
        <3>1. PICK sid \in 1..MaxSid, tx \in 0..MaxTx :
                 /\ InitFrame(q, sid) \in wire /\ InitFrame(q, sid) \notin seen[p]
                 /\ session'[p] = session[p] \/ session'[p] = NewSession(sid, tx)
            BY <2>2 DEF Answers
        <3>2. session[p].sid # sid
            BY <1>3, <3>1 DEF MarkInv
        <3>3. session'[p] = session[p]
            BY <1>4, <3>1, <3>2 DEF NewSession
        <3> QED
            BY <1>2, <3>3
    <2>3. CASE Joins(p)
        <3>1. PICK sid \in 1..MaxSid, tx \in 0..MaxTx :
                 /\ Starting(p, sid) /\ Offered(q, sid, tx)
                 /\ AcceptFrame(q, sid, tx) \notin seen[p]
                 /\ session'[p] = NewSession(sid, tx)
            BY <2>3 DEF Joins
        <3>2. session[p].sid = sid
            BY <1>4, <3>1 DEF NewSession
        <3>3. InitFrame(p, sid) \in wire
            <4>1. /\ AcceptFrame(q, sid, tx).type = "accept"
                  /\ AcceptFrame(q, sid, tx).from = q /\ AcceptFrame(q, sid, tx).sid = sid
                BY DEF AcceptFrame
            <4> HIDE DEF q
            <4> QED
                BY <1>0, <3>1, <4>1 DEF Offered, IInv, WireInv
        <3>4. AcceptFrame(q, sid, session[p].tx) \in seen[p] /\ seen[p] \subseteq wire
            BY <1>3, <3>2, <3>3 DEF MarkInv
        <3>5. Offered(q, sid, session[p].tx)
            BY <3>4 DEF Offered
        <3>6. tx = session[p].tx
            BY <1>2, <1>3, <3>1, <3>5 DEF OfferInv
        <3> QED
            BY <3>1, <3>4, <3>6
    <2>4. CASE Completes(p)
        BY <1>2, <2>4 DEF Completes
    <2>5. CASE Starts(p)
        BY <1>2, <2>5 DEF Starts
    <2> QED
        BY <2>1, <2>2, <2>3, <2>4, <2>5 DEF Move
<1>5. \A n \in Node \ {p} : session'[n] = session[n]
    BY <1>1 DEF Moves
<1> QED
    BY <1>2, <1>4, <1>5

\* What p stores for its peer, with nothing expired.
LEMMA Said ==
    ASSUME IInv, SeqInv, NEW p \in Node, NEW fs, \A g \in ToSet(fs) : g \in Frame /\ g.from = p,
           wire' = wire \cup {g \in ToSet(fs) : Relayable(g)}, expired' = expired,
           \A n \in Node \ {p} : /\ record'[n] = record[n] /\ session'[n] = session[n]
                                 /\ seen'[n] = seen[n],
           seen[p] \subseteq seen'[p], seen'[p] \subseteq wire
    PROVE  \E new \in SUBSET ToSet(fs) : Moves(p, new)
<1> DEFINE new == {g \in ToSet(fs) : Relayable(g)}
<1>1. new \in SUBSET ToSet(fs) /\ expired = {}
    BY DEF SeqInv
<1>2. Moves(p, new)
    BY <1>1 DEF Moves
<1> QED
    BY <1>1, <1>2

\* A step in which p says nothing, and changes nothing but the number it sealed.
LEMMA Silent ==
    ASSUME IInv, SeqInv, NEW p \in Node, wire' = wire, expired' = expired, record' = record,
           \A n \in Node \ {p} : session'[n] = session[n] /\ seen'[n] = seen[n],
           seen[p] \subseteq seen'[p], seen'[p] \subseteq wire, SameSession(p)
    PROVE  Move(p)
<1>1. Moves(p, {})
    BY DEF Moves, SeqInv
<1>2. Repeats(p)
    BY <1>1 DEF Repeats
<1> QED
    BY <1>2 DEF Move

\* A session that is left alone.
LEMMA SessionAlone ==
    ASSUME IInv, SeqInv, NEW p \in Node, session'[p] = session[p]
    PROVE  SameSession(p)
<1>1. session[p].snd \in Nat
    BY HandshakeAssumption DEF IInv, TypeOK, Session
<1>2. MarkInv(p)
    BY DEF SeqInv
<1> QED
    BY <1>1, <1>2 DEF SameSession, MarkInv

\* A handled frame is marked seen, for marks are not lost.
LEMMA HandledMarks ==
    ASSUME Recovered, IInv, SeqInv, NEW p \in Node, NEW f \in wire, NEW fs, Handled(p, f, fs)
    PROVE  /\ seen' = [seen EXCEPT ![p] = @ \cup {f}]
           /\ seen[p] \subseteq seen'[p] /\ seen'[p] \subseteq wire /\ f \in seen'[p]
           /\ \A n \in Node \ {p} : seen'[n] = seen[n]
           /\ wire' = wire \cup {g \in ToSet(fs) : Relayable(g)}
<1>1. ~Fault("mark")
    BY DEF Recovered, Fault
<1>2. seen' = [seen EXCEPT ![p] = @ \cup {f}] /\ \E acked \in BOOLEAN : Finish(p, f, fs, acked)
    BY <1>1 DEF Handled
<1>3. seen \in [Node -> SUBSET Frame] /\ seen[p] \subseteq wire
    BY DEF IInv, TypeOK, SeqInv, MarkInv
<1>4. wire' = wire \cup {g \in ToSet(fs) : Relayable(g)}
    BY <1>2 DEF Finish
<1> QED
    BY <1>2, <1>3, <1>4

LEMMA FailedLeaves ==
    ASSUME IInv, SeqInv, NEW p \in Node, NEW f, NEW fs, HandlerFailed(p, f, fs)
    PROVE  /\ seen' = seen /\ seen[p] \subseteq seen'[p] /\ seen'[p] \subseteq wire
           /\ wire' = wire \cup {g \in ToSet(fs) : Relayable(g)}
BY DEF HandlerFailed, Finish, SeqInv, MarkInv

\* handleInit answers, or repeats its answer.
LEMMA RespondMoves ==
    ASSUME Recovered, IInv, SeqInv, NEW p \in Node, batch[p] # <<>>, NEW f, f = Head(batch[p]),
           f.type = "init", Relayable(f), f \notin seen[p], expired' = expired,
           NEW kept \in SUBSET record[p], \A r \in record[p] : r.sid = f.sid <=> r \in kept,
           Respond(p, f, kept)
    PROVE  Move(p)
<1>1. f \in wire /\ f.from = Peer(p) /\ f.sid \in 1..MaxSid
    BY HeadFacts
<1>2. f = InitFrame(Peer(p), f.sid)
    BY <1>1 DEF IInv, WireInv
<1>3. PICK tx \in 0..MaxTx : kept \subseteq {Answer(f.sid, tx)} /\ Responded(p, f, tx)
    BY RespondFacts
<1> DEFINE accept == AcceptFrame(p, f.sid, tx)
           fin == FinishedFrame(p, f.sid, tx)
           saved == [session EXCEPT ![p] = NewSession(f.sid, tx)]
<1>4. record' = [record EXCEPT ![p] = {Answer(f.sid, tx)}]
    BY <1>3 DEF Responded
<1>5. \/ session' = session /\ HandlerPostFailed(p, f, <<>>, <<accept>>, "accept")
      \/ session' = session /\ Fault("resolve") /\ HandlerFailed(p, f, <<accept>>)
      \/ session' = saved /\ HandlerPostFailed(p, f, <<accept>>, <<accept, fin>>, "finished")
      \/ session' = saved /\ Handled(p, f, <<accept, fin>>)
    BY <1>3 DEF Responded
<1>6. accept \in Frame /\ fin \in Frame /\ accept.from = p /\ fin.from = p
    BY <1>1, FrameFacts DEF AcceptFrame, FinishedFrame
<1>7. record \in [Node -> SUBSET Record] /\ session \in [Node -> Session]
    BY DEF IInv, TypeOK
<1> HIDE DEF accept, fin, saved
<1>8. ~HandlerPostFailed(p, f, <<accept>>, <<accept, fin>>, "finished")
    BY DEF Recovered, HandlerPostFailed, Fault
<1>9. /\ \E fs \in {<<>>, <<accept>>, <<accept, fin>>} :
            wire' = wire \cup {g \in ToSet(fs) : Relayable(g)}
      /\ seen[p] \subseteq seen'[p] /\ seen'[p] \subseteq wire
      /\ \A n \in Node \ {p} : seen'[n] = seen[n]
      /\ session' = session \/ (session' = saved /\ f \in seen'[p])
    <2>1. CASE session' = session /\ HandlerPostFailed(p, f, <<>>, <<accept>>, "accept")
        BY <2>1, FailedLeaves DEF HandlerPostFailed
    <2>2. CASE session' = session /\ HandlerFailed(p, f, <<accept>>)
        BY <2>2, FailedLeaves
    <2>3. CASE session' = saved /\ Handled(p, f, <<accept, fin>>)
        BY <1>1, <2>3, HandledMarks
    <2> QED
        BY <1>5, <1>8, <2>1, <2>2, <2>3
<1>10. PICK fs \in {<<>>, <<accept>>, <<accept, fin>>} :
          wire' = wire \cup {g \in ToSet(fs) : Relayable(g)}
    BY <1>9
<1>11. ToSet(fs) \subseteq {accept, fin}
    <2>1. ToSet(<<>>) = {} /\ ToSet(<<accept>>) = {accept} /\ ToSet(<<accept, fin>>) = {accept, fin}
        BY DEF ToSet
    <2> QED
        BY <2>1
<1>12. /\ \A n \in Node \ {p} : record'[n] = record[n] /\ session'[n] = session[n]
       /\ record'[p] = {Answer(f.sid, tx)}
       /\ session'[p] = session[p] \/ (session'[p] = NewSession(f.sid, tx) /\ f \in seen'[p])
    BY <1>4, <1>7, <1>9 DEF saved
<1>13. PICK new \in SUBSET ToSet(fs) : Moves(p, new)
    BY <1>6, <1>9, <1>10, <1>11, <1>12, Said
<1>14. \A t \in 0..MaxTx : Holds(p, f.sid, t) => t = tx
    BY <1>3 DEF Holds, Answer
<1>15. Answers(p)
    <2> DEFINE init == InitFrame(Peer(p), f.sid)
    <2>1. init \in wire /\ init \notin seen[p]
        BY <1>1, <1>2
    <2>2. record'[p] = {[sid |-> f.sid, role |-> "responder", tx |-> tx]}
        BY <1>12 DEF Answer
    <2>3. \A g \in new : g = AcceptFrame(p, f.sid, tx) \/ g = FinishedFrame(p, f.sid, tx)
        BY <1>11, <1>13 DEF accept, fin
    <2>4. session'[p] = session[p] \/ (session'[p] = NewSession(f.sid, tx) /\ init \in seen'[p])
        BY <1>2, <1>12
    <2>5. new \in SUBSET Frame
        BY <1>13 DEF Moves
    <2> QED
        BY <1>1, <1>13, <1>14, <2>1, <2>2, <2>3, <2>4, <2>5 DEF Answers
<1> QED
    BY <1>15 DEF Move

\* A frame that changes nothing but its own mark.
LEMMA IgnoredMoves ==
    ASSUME Recovered, IInv, SeqInv, NEW p \in Node, NEW f \in wire,
           UNCHANGED <<record, session, expired>>,
           HandlerFailed(p, f, <<>>) \/ Handled(p, f, <<>>)
    PROVE  Move(p)
<1>1. ToSet(<<>>) = {}
    BY DEF ToSet
<1>2. /\ wire' = wire /\ seen[p] \subseteq seen'[p] /\ seen'[p] \subseteq wire
      /\ \A n \in Node \ {p} : seen'[n] = seen[n]
    BY <1>1, HandledMarks, FailedLeaves
<1>3. SameSession(p)
    BY SessionAlone
<1> QED
    BY <1>2, <1>3, Silent

LEMMA RejectedMoves ==
    ASSUME Recovered, IInv, SeqInv, NEW p \in Node, NEW f \in wire, expired' = expired,
           Rejected(p, f)
    PROVE  Move(p)
BY IgnoredMoves DEF Rejected

LEMMA InitMoves ==
    ASSUME Recovered, IInv, SeqInv, NEW p \in Node, batch[p] # <<>>, NEW f, f = Head(batch[p]),
           f.type = "init", Relayable(f), f \notin seen[p], expired' = expired, HandleInit(p, f)
    PROVE  Move(p)
<1> DEFINE other == {r \in record[p] : r.sid # f.sid}
<1>1. f \in wire
    BY HeadFacts
<1>2. CASE other = {} /\ Respond(p, f, record[p])
    <2>1. \A r \in record[p] : r.sid = f.sid <=> r \in record[p]
        BY <1>2
    <2> QED
        BY <1>2, <2>1, RespondMoves
<1>3. ASSUME NEW r \in other, Respond(p, f, record[p] \ {r}) PROVE Move(p)
    <2>1. record[p] = {r} /\ r.sid # f.sid
        BY DEF IInv, RecordInv
    <2>2. /\ record[p] \ {r} \in SUBSET record[p]
          /\ \A x \in record[p] : x.sid = f.sid <=> x \in record[p] \ {r}
        BY <2>1
    <2> QED
        BY <1>3, <2>2, RespondMoves
<1>4. CASE Rejected(p, f)
    BY <1>1, <1>4, RejectedMoves
<1>5. CASE Handled(p, f, <<>>) /\ UNCHANGED <<record, session, nextTx>>
    BY <1>1, <1>5, IgnoredMoves
<1>6. ASSUME NEW r \in other, Vacates(p, f, r) PROVE FALSE
    BY <1>6 DEF Vacates, Fault, Recovered
<1> QED
    BY <1>2, <1>3, <1>4, <1>5, <1>6 DEF HandleInit

\* handleAccept takes up the Accept, or repeats its Finished.
LEMMA AcceptMoves ==
    ASSUME Recovered, IInv, SeqInv, NEW p \in Node, batch[p] # <<>>, NEW f, f = Head(batch[p]),
           f.type = "accept", f \notin seen[p], expired' = expired, HandleAccept(p, f)
    PROVE  Move(p)
<1> DEFINE fin == FinishedFrame(p, f.sid, f.tx)
           saved == [session EXCEPT ![p] = NewSession(f.sid, f.tx)]
<1>1. /\ f \in Frame /\ f \in wire /\ f.from = Peer(p) /\ f.sid \in 1..MaxSid /\ f.tx \in 0..MaxTx
    BY HeadFacts
<1>2. f = AcceptFrame(Peer(p), f.sid, f.tx)
    BY <1>1 DEF Frame, AcceptFrame
<1>3. CASE Rejected(p, f)
    BY <1>1, <1>3, RejectedMoves
<1>4. CASE record' = record /\ session' = session /\ HandlerFailed(p, f, <<>>)
    BY <1>1, <1>4, IgnoredMoves
<1>5. ASSUME \E r \in record[p] : r.sid = f.sid /\ r.role = "initiator",
             record' = record, session' = saved, Handled(p, f, <<fin>>)
      PROVE  Move(p)
    <2>1. session \in [Node -> Session]
        BY DEF IInv, TypeOK
    <2>2. fin \in Frame /\ fin.from = p
        BY <1>1, FrameFacts DEF FinishedFrame
    <2>3. ToSet(<<fin>>) = {fin}
        BY DEF ToSet
    <2>4. /\ session'[p] = NewSession(f.sid, f.tx)
          /\ \A n \in Node \ {p} : session'[n] = session[n]
        BY <1>5, <2>1
    <2> HIDE DEF fin, saved
    <2>5. /\ seen[p] \subseteq seen'[p] /\ seen'[p] \subseteq wire /\ f \in seen'[p]
          /\ \A n \in Node \ {p} : seen'[n] = seen[n]
          /\ wire' = wire \cup {g \in ToSet(<<fin>>) : Relayable(g)}
        BY <1>1, <1>5, HandledMarks
    <2>6. PICK new \in SUBSET ToSet(<<fin>>) : Moves(p, new)
        BY <1>5, <2>2, <2>3, <2>4, <2>5, Said
    <2>7. new \in SUBSET Frame
        BY <2>6 DEF Moves
    <2>8. \A g \in new : g = FinishedFrame(p, f.sid, f.tx)
        BY <2>3, <2>6 DEF fin
    <2> DEFINE accept == AcceptFrame(Peer(p), f.sid, f.tx)
    <2>9. accept \in wire /\ accept \notin seen[p] /\ accept \in seen'[p]
        BY <1>1, <1>2, <2>5
    <2>10. Starting(p, f.sid) /\ Offered(Peer(p), f.sid, f.tx)
        BY <1>5, <2>9 DEF Starting, Offered
    <2>11. Joins(p)
        BY <1>1, <1>5, <2>4, <2>6, <2>7, <2>8, <2>9, <2>10 DEF Joins
    <2> QED
        BY <2>11 DEF Move
<1>6. ~HandlerPostFailed(p, f, <<>>, <<fin>>, "finished")
    BY DEF Recovered, HandlerPostFailed, Fault
<1> QED
    BY <1>3, <1>4, <1>5, <1>6 DEF HandleAccept

\* handleFinished completes the handshake.
LEMMA FinishedMoves ==
    ASSUME Recovered, IInv, SeqInv, NEW p \in Node, batch[p] # <<>>, NEW f, f = Head(batch[p]),
           expired' = expired, HandleFinished(p, f)
    PROVE  Move(p)
<1>1. f \in wire
    BY HeadFacts
<1>2. /\ session \in [Node -> Session] /\ seen \in [Node -> SUBSET Frame]
      /\ record \in [Node -> SUBSET Record]
      /\ seen[p] \subseteq wire
    BY DEF IInv, TypeOK, SeqInv, MarkInv
<1>3. CASE Rejected(p, f)
    BY <1>1, <1>3, RejectedMoves
<1>4. CASE ~Rejected(p, f)
    <2>1. session' = [session EXCEPT ![p].ready = TRUE] /\ f.sid = session[p].sid
        BY <1>4 DEF HandleFinished, VerifyFinished
    <2>2. /\ session'[p] = [session[p] EXCEPT !.ready = TRUE]
          /\ \A n \in Node \ {p} : session'[n] = session[n]
        BY <1>2, <2>1
    <2>3. /\ session'[p].sid = session[p].sid /\ session'[p].tx = session[p].tx
          /\ session'[p].ready /\ session'[p].snd = session[p].snd
        BY <1>2, <2>2 DEF Session
    <2>4. \A n \in Node \ {p} : record'[n] = record[n]
        BY <1>2, <1>4 DEF HandleFinished
    <2>5. \/ record'[p] = record[p]
          \/ record'[p] = {r \in record[p] : r.sid # session[p].sid}
        BY <1>2, <1>4, <2>1 DEF HandleFinished
    <2>6. ToSet(<<>>) = {}
        BY DEF ToSet
    <2>7. /\ wire' = wire /\ seen[p] \subseteq seen'[p] /\ seen'[p] \subseteq wire
          /\ \A n \in Node \ {p} : seen'[n] = seen[n]
        <3>1. CASE Handled(p, f, <<>>)
            BY <1>1, <2>6, <3>1, HandledMarks
        <3>2. CASE \E marked \in BOOLEAN :
                     /\ seen' = IF marked THEN [seen EXCEPT ![p] = @ \cup {f}] ELSE seen
                     /\ Finish(p, f, <<>>, marked)
            BY <1>1, <1>2, <2>6, <3>2 DEF Finish
        <3> QED
            BY <1>4, <3>1, <3>2 DEF HandleFinished
    <2>8. Moves(p, {})
        BY <2>2, <2>4, <2>7 DEF Moves, SeqInv
    <2>9. Completes(p)
        BY <2>3, <2>5, <2>8 DEF Completes
    <2> QED
        BY <2>9 DEF Move
<1> QED
    BY <1>3, <1>4

LEMMA ProcessMoves ==
    ASSUME Recovered, IInv, SeqInv, NEW p \in Node, ProcessFrame(p)
    PROVE  Move(p)
<1> DEFINE f == Head(batch[p])
<1>1. batch[p] # <<>> /\ expired' = expired
    BY DEF ProcessFrame
<1>2. f \in wire
    BY <1>1, HeadFacts
<1>3. CASE Reacknowledge(p, f)
    <2>1. /\ UNCHANGED <<record, session, seen>>
          /\ \E acked \in BOOLEAN : Finish(p, f, <<>>, acked)
        BY <1>3 DEF Reacknowledge
    <2>2. ToSet(<<>>) = {}
        BY DEF ToSet
    <2>3. wire' = wire
        BY <2>1, <2>2 DEF Finish
    <2>4. seen'[p] \subseteq wire /\ SameSession(p)
        BY <2>1, SessionAlone DEF SeqInv, MarkInv
    <2> QED
        BY <1>1, <2>1, <2>3, <2>4, Silent
<1>4. CASE Rejected(p, f)
    BY <1>1, <1>2, <1>4, RejectedMoves
<1>5. CASE f \notin seen[p] /\ Relayable(f) /\ f.type = "init" /\ HandleInit(p, f)
    BY <1>1, <1>5, InitMoves
<1>6. CASE f \notin seen[p] /\ f.type = "accept" /\ HandleAccept(p, f)
    BY <1>1, <1>6, AcceptMoves
<1>7. CASE HandleFinished(p, f)
    BY <1>1, <1>7, FinishedMoves
<1> QED
    BY <1>3, <1>4, <1>5, <1>6, <1>7 DEF ProcessFrame

LEMMA QuietMoves ==
    ASSUME IInv, SeqInv, NEW p \in Node, BeginTick(p) \/ EndFrames(p) \/ NotDue(p) \/ Crash(p)
    PROVE  Move(p)
<1>1. UNCHANGED <<record, session, seen, wire, expired>>
    BY DEF BeginTick, EndFrames, NotDue, Crash, store
<1>2. seen'[p] \subseteq wire /\ SameSession(p)
    BY <1>1, SessionAlone DEF SeqInv, MarkInv
<1> QED
    BY <1>1, <1>2, Silent

\* A frame that is stored, or whose StoreFrame fails.
LEMMA Posted ==
    ASSUME IInv, SeqInv, NEW p \in Node, NEW f \in Frame, f.from = p, NEW kind,
           (Post(p, <<f>>) /\ UNCHANGED faults) \/ PostFailed(p, f, kind),
           UNCHANGED <<session, seen, expired>>, \A n \in Node \ {p} : record'[n] = record[n]
    PROVE  \E new \in SUBSET {f} : Moves(p, new)
<1>1. PICK fs \in {<<>>, <<f>>} : Post(p, fs)
    BY DEF PostFailed
<1>2. ToSet(fs) \subseteq {f}
    <2>1. ToSet(<<>>) = {} /\ ToSet(<<f>>) = {f}
        BY DEF ToSet
    <2> QED
        BY <2>1
<1>3. wire' = wire \cup {g \in ToSet(fs) : Relayable(g)} /\ seen[p] \subseteq wire
    BY <1>1 DEF Post, SeqInv, MarkInv
<1>4. \E new \in SUBSET ToSet(fs) : Moves(p, new)
    BY <1>2, <1>3, Said
<1> QED
    BY <1>2, <1>4

LEMMA ReplayMoves ==
    ASSUME IInv, SeqInv, NEW p \in Node, NEW r \in record[p], NEW f \in Frame, f.from = p,
           f.type # "finished" => f = Pending(p, r), Replay(p, f),
           UNCHANGED <<session, seen, expired>>
    PROVE  Move(p)
<1>1. PICK new \in SUBSET {f} : Moves(p, new)
    BY Posted DEF Replay
<1>2. record' = record /\ SameSession(p)
    BY SessionAlone DEF Replay
<1>3. Repeats(p)
    BY <1>1, <1>2 DEF Repeats
<1> QED
    BY <1>3 DEF Move

\* resendPending completes a handshake or repeats what it said.
LEMMA ResendMoves ==
    ASSUME IInv, SeqInv, NEW p \in Node, Resend(p)
    PROVE  Move(p)
<1>1. UNCHANGED <<session, seen, expired>> /\ expired = {} /\ seen[p] \subseteq wire
    BY DEF Resend, SeqInv, MarkInv
<1>2. /\ session[p] \in Session /\ record[p] \subseteq Record
      /\ record \in [Node -> SUBSET Record]
    BY DEF IInv, TypeOK
<1>3. SameSession(p)
    BY <1>1, SessionAlone
<1>4. CASE UNCHANGED <<record, wire>>
    BY <1>1, <1>3, <1>4, Silent
<1>5. ASSUME NEW r \in record[p], ResendOne(p, r) PROVE Move(p)
    <2>1. CASE session[p].ready
        <3>1. Drop(p, r)
            BY <1>5, <2>1 DEF ResendOne
        <3>2. wire' = wire /\ record'[p] \subseteq record[p]
              /\ \A n \in Node \ {p} : record'[n] = record[n]
            BY <1>2, <3>1 DEF Drop
        <3>3. Moves(p, {})
            BY <1>1, <3>2 DEF Moves
        <3>4. Completes(p)
            BY <1>1, <2>1, <3>2, <3>3 DEF Completes
        <3> QED
            BY <3>4 DEF Move
    <2>2. CASE ~session[p].ready /\ session[p].sid = r.sid
        <3> DEFINE fin == FinishedFrame(p, session[p].sid, session[p].tx)
        <3>1. Replay(p, fin)
            BY <1>5, <2>2 DEF ResendOne
        <3>2. fin \in Frame /\ fin.from = p /\ fin.type = "finished"
            <4>1. session[p].sid \in 1..MaxSid /\ session[p].tx \in 0..MaxTx
                BY <1>2, <2>2 DEF Record, Session
            <4> QED
                BY <4>1, FrameFacts DEF FinishedFrame
        <3> HIDE DEF fin
        <3> QED
            BY <1>1, <3>1, <3>2, ReplayMoves
    <2>3. CASE ~session[p].ready /\ session[p].sid # r.sid
        <3>1. Replay(p, Pending(p, r))
            BY <1>1, <1>5, <2>3 DEF ResendOne
        <3>2. Pending(p, r) \in Frame /\ Pending(p, r).from = p
            <4>1. r.sid \in 1..MaxSid /\ r.tx \in 0..MaxTx
                BY <1>2 DEF Record
            <4> QED
                BY <4>1, FrameFacts DEF Pending, InitFrame, AcceptFrame
        <3> QED
            BY <1>1, <3>1, <3>2, ReplayMoves
    <2> QED
        BY <2>1, <2>2, <2>3
<1> QED
    BY <1>4, <1>5 DEF Resend

\* deliverNext seals a message, waits or starts.
LEMMA DeliverMoves ==
    ASSUME IInv, SeqInv, NEW p \in Node, Deliver(p)
    PROVE  Move(p)
<1>1. UNCHANGED <<seen, expired>> /\ expired = {} /\ seen[p] \subseteq wire
    BY DEF Deliver, SeqInv, MarkInv
<1>2. /\ session \in [Node -> Session] /\ record \in [Node -> SUBSET Record]
      /\ nextSid \in 1..(MaxSid + 1)
    BY DEF IInv, TypeOK
<1>3. CASE /\ session[p].ready /\ session' = [session EXCEPT ![p].snd = @ + 1]
           /\ UNCHANGED <<record, wire>>
    <2>1. /\ session'[p] = [session[p] EXCEPT !.snd = @ + 1]
          /\ \A n \in Node \ {p} : session'[n] = session[n]
        BY <1>2, <1>3
    <2>2. session[p].snd \in Nat
        BY <1>2, HandshakeAssumption DEF Session
    <2>3. /\ session'[p].sid = session[p].sid /\ session'[p].tx = session[p].tx
          /\ session'[p].ready = session[p].ready /\ session'[p].snd = session[p].snd + 1
        BY <1>2, <2>1 DEF Session
    <2>4. session'[p].snd >= session[p].snd
        BY <2>2, <2>3
    <2>5. SameSession(p)
        BY <1>3, <2>3, <2>4 DEF SameSession
    <2> QED
        BY <1>1, <1>3, <2>1, <2>5, Silent
<1>4. CASE ~session[p].ready /\ session' = session /\ StartHandshake(p)
    <2>1. SameSession(p)
        BY <1>4, SessionAlone
    <2>2. CASE UNCHANGED <<record, wire>>
        BY <1>1, <1>4, <2>1, <2>2, Silent
    <2>3. CASE ~UNCHANGED <<record, wire>>
        <3> DEFINE f == InitFrame(p, nextSid)
                   r == [sid |-> nextSid, role |-> "initiator", tx |-> 0]
        <3>1. record[p] = {} /\ nextSid <= MaxSid
            BY <1>1, <1>4, <2>3 DEF StartHandshake
        <3>2. record' = [record EXCEPT ![p] = {}] => record' = record
            BY <1>2, <3>1
        <3>3. /\ record' = [record EXCEPT ![p] = {r}]
              /\ (Post(p, <<f>>) /\ UNCHANGED faults) \/ PostFailed(p, f, "init")
            BY <1>4, <2>3, <3>2 DEF StartHandshake
        <3>4. nextSid \in 1..MaxSid
            BY <1>2, <3>1, HandshakeAssumption
        <3>5. f \in Frame /\ f.from = p
            BY <3>4, HandshakeAssumption DEF Frame, InitFrame
        <3>6. record'[p] = {r} /\ \A n \in Node \ {p} : record'[n] = record[n]
            BY <1>2, <3>3
        <3> HIDE DEF f
        <3>7. PICK new \in SUBSET {f} : Moves(p, new)
            BY <1>1, <1>4, <3>3, <3>5, <3>6, Posted
        <3>8. Starts(p)
            BY <1>1, <1>4, <3>1, <3>4, <3>6, <3>7 DEF Starts, f
        <3> QED
            BY <3>8 DEF Move
    <2> QED
        BY <2>2, <2>3
<1> QED
    BY <1>3, <1>4 DEF Deliver

LEMMA StepMoves ==
    ASSUME Recovered, IInv, SeqInv, Next
    PROVE  \E p \in Node : Move(p)
<1>1. ~\E sid \in 1..MaxSid : Expire(sid)
    BY FS_EmptySet DEF Recovered, SeqInv, Expire
<1>2. ASSUME NEW p \in Node, Tick(p) \/ Crash(p) PROVE Move(p)
    BY <1>2, ProcessMoves, QuietMoves, ResendMoves, DeliverMoves DEF Tick
<1> QED
    BY <1>1, <1>2 DEF Next

\* The send sequence of a session never falls, if no StoreFrame of a Finished
\* and no seen mark fails and no handshake outlives its hour: saveV2Session
\* (v2_mailbox.go:249) writes the number of a new session over that of the old
\* one, and all that keeps it from restarting a session already in use is that
\* the Init or Accept it came from is marked seen, and that the peer offers one
\* Accept for one Init.
THEOREM SequenceNeverFalls ==
    ASSUME Recovered
    PROVE  Spec => SendSequenceMonotonic
<1>1. ASSUME Init PROVE SeqInv
    <2>1. NoSession.sid = 0 /\ NoSession.snd = 0 /\ ~NoSession.ready
        BY DEF NoSession
    <2>2. /\ wire = {} /\ expired = {}
          /\ \A p \in Node : session[p] = NoSession /\ record[p] = {} /\ seen[p] = {}
        BY <1>1 DEF Init
    <2>3. \A p \in Node : FreshInv(p) /\ OnceInv(p) /\ MarkInv(p) /\ OfferInv(p)
        BY <2>1, <2>2 DEF FreshInv, OnceInv, MarkInv, OfferInv, Starting
    <2> QED
        BY <2>2, <2>3 DEF SeqInv
<1>2. ASSUME IInv, SeqInv, [Next]_vars PROVE SeqInv'
    <2>1. CASE UNCHANGED vars
        BY <1>2, <2>1
        DEF vars, SeqInv, FreshInv, OnceInv, MarkInv, OfferInv, Starting, Offered, Holds
    <2> QED
        BY <1>2, <2>1, StepMoves, MoveKeeps
<1>3. ASSUME IInv, SeqInv, [Next]_vars
      PROVE  [\A p \in Node : session'[p].sid = session[p].sid
                                => session'[p].snd >= session[p].snd]_vars
    BY <1>3, StepMoves, MoveNeverFalls
<1> QED
    BY <1>1, <1>2, <1>3, Invariance, PTL DEF Spec, SendSequenceMonotonic
=============================================================================
