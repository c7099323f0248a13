--------------------------- MODULE MCV2Handshake ---------------------------
(* Instances of V2Handshake for TLC: which requests and writes may fail in  *)
(* a run.                                                                   *)
EXTENDS V2Handshake

AnyFault == AllFaults

\* The failures after which the handshake is completed by what is replayed: all
\* but those that leave a handled Init or Accept unseen behind its session.
RecoveredFaults == AllFaults \ {"finished", "mark"}

\* A StoreFrame of a Finished that fails.
FinishedFaults == {"finished"}
=============================================================================
