--------------------------- MODULE MCCollaboration ---------------------------
(* Instances of Collaboration for TLC: who asks for what, and what may fail. *)
EXTENDS Collaboration

\* max_actions: the peer's is spent once it has accepted.
Tight == [s \in Side |-> IF s = A THEN 3 ELSE 2]
Ample == [s \in Side |-> 4]

Asking(initiator, peer) ==
    [s \in Side |-> IF s = A THEN {"invite", "proposal"} \cup initiator
                    ELSE {"join"} \cup peer]

\* Both accept, and nothing goes wrong.
Agrees == [kinds |-> Asking({"accept"}, {"accept"}), budget |-> Tight,
           permit |-> 2, versions |-> 1, lost |-> 0, faults |-> 0, revocable |-> {},
           expiring |-> {}, rejects |-> FALSE]

\* A packet is lost, and the permits have room to repair it.
Loses == [Agrees EXCEPT !.budget = Ample, !.permit = 3, !.lost = 1]

\* An acceptance may cross the next version of the terms.
Crosses == [Agrees EXCEPT !.budget = [s \in Side |-> 3], !.permit = 3, !.versions = 2]

\* The peer may think better of it, while an event is lost.
PeerWithdraws ==
    [Agrees EXCEPT !.kinds = Asking({"accept"}, {"accept", "withdraw"}),
                   !.permit = 3, !.lost = 1]

\* The initiator may think better of it, or its task be revoked.
InitiatorWithdraws ==
    [Agrees EXCEPT !.kinds = Asking({"accept", "withdraw"}, {"accept"}),
                   !.revocable = {<<A, "task">>}]

\* The helper fails, and the initiator's permit may be revoked.
Fails == [Agrees EXCEPT !.faults = 1, !.revocable = {<<A, "permit">>}]

\* The initiator's task may expire, an event be lost, and an owner reject what the
\* other sends.
Expires ==
    [Agrees EXCEPT !.kinds = Asking({"accept"}, {"accept", "change_request"}),
                   !.expiring = {A}, !.rejects = TRUE,
                   !.permit = 3, !.lost = 1]

\* They cancel what they agreed.
Cancels ==
    [Agrees EXCEPT !.kinds = Asking({"accept", "cancel_ack"}, {"accept", "cancel_request"}),
                   !.budget = Ample, !.permit = 3]

Withdrawing == {Loses, Crosses, PeerWithdraws, InitiatorWithdraws, Fails, Expires}
Cancelling == {Cancels}

\* The receipts that change anything where they are read.
Deciding == {"withdraw", "agreement_ack"}

Events == {"event"}
=============================================================================
