--------------------------- MODULE OrderedChannel ---------------------------
(***************************************************************************)
(* What the helpers promise of the business messages of one sender to one  *)
(* receiver, whatever the Platform, the network and restarts do to them: a *)
(* message is given one slot of one session for ever; within a session the *)
(* messages are delivered in the order of their slots, each at most once;  *)
(* a slot may be passed over only when its message was cancelled, and a    *)
(* cancelled message is never delivered.                                   *)
(* (v2/handshake.go Session, cmd/helper/v2_mailbox.go, PROTOCOL_V2.md)      *)
(***************************************************************************)
EXTENDS Naturals

CONSTANTS Message, Session, None

VARIABLES
    slot,       \* the session and sequence each message was given, or None
    cancelled,  \* messages whose slot is given up
    delivered   \* messages in the receiver's durable inbox

vars == <<slot, cancelled, delivered>>

Slot == [sess : Session, seq : Nat \ {0}]

Before(k, m) ==
    slot[k] # None /\ slot[k].sess = slot[m].sess /\ slot[k].seq < slot[m].seq

Init ==
    /\ slot = [m \in Message |-> None]
    /\ cancelled = {}
    /\ delivered = {}

\* A slot is later than every slot of its session.
Offer(m) ==
    /\ slot[m] = None
    /\ slot'[m] \in Slot
    /\ slot' = [slot EXCEPT ![m] = slot'[m]]
    /\ \A k \in Message : (slot[k] # None /\ slot[k].sess = slot'[m].sess)
                             => slot[k].seq < slot'[m].seq
    /\ UNCHANGED <<cancelled, delivered>>

Cancel(m) ==
    /\ slot[m] # None
    /\ m \notin delivered
    /\ cancelled' = cancelled \cup {m}
    /\ UNCHANGED <<slot, delivered>>

Deliver(m) ==
    /\ slot[m] # None
    /\ m \notin delivered \cup cancelled
    /\ \A k \in Message : Before(k, m) => k \in delivered \cup cancelled
    /\ delivered' = delivered \cup {m}
    /\ UNCHANGED <<slot, cancelled>>

Next == \E m \in Message : Offer(m) \/ Cancel(m) \/ Deliver(m)

Spec == Init /\ [][Next]_vars
=============================================================================
