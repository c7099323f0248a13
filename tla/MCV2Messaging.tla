--------------------------- MODULE MCV2Messaging ---------------------------
(* Instances of V2Messaging for TLC: control IDs, and the policy epochs of  *)
(* the sessions.                                                            *)
EXTENDS V2Messaging

CONSTANTS m1, m2, m3, s1, s2, s3

TwoMessages == {m1, m2}
ThreeMessages == {m1, m2, m3}
ControlIds == [m \in Message |-> <<"v2skip", m>>]
FirstOnly == {m1}
NoMessage == {}

OneSession == {s1}
ThreeSessions == {s1, s2, s3}

\* s1 and s2 are sessions of the first policy, s3 of the second.
Epochs == [s \in Session |-> IF s = s3 THEN 2 ELSE 1]
=============================================================================
