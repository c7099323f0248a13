------------------------------ MODULE MCWorker ------------------------------
(* Instances of Worker for TLC: one task, five operations that may be        *)
(* attempted two at a time, and a policy for the same task.                  *)
EXTENDS Worker, TLC

CONSTANTS big, other, move, agree, note,   \* operations
          r1, r2, p1, p2, chat, t1, t2

AllOps == {big, other, move, agree, note}
Approvals == {TheTask} \cup {OpApproval(o) : o \in Op} \cup {PolicyApproval(k) : k \in Rev}
Versions == [p \in Payload \cup {None} |-> IF p = None THEN 0 ELSE IF p = p1 THEN 1 ELSE 2]
Capable == [o \in Op |-> IF o \in {big, other} THEN "share_slots"
                         ELSE IF o = move THEN "propose"
                         ELSE IF o = agree THEN "accept" ELSE "other"]
Sendees == [o \in Op |-> IF o = big THEN {r1, r2} ELSE {r1}]
Disclosing == [o \in Op |-> IF o = big THEN {1} ELSE IF o = other THEN {2} ELSE {}]
Contents == [o \in Op |-> IF o = move THEN p1 ELSE IF o = agree THEN p2 ELSE None]
FromPeer == {<<r1, p2>>}

\* What may come up together.
Mixed == {{big, other, chat}, {big, other, r1, Ends}, {move, agree, chat, Ends},
          {note, chat, r1, Ends}, {Lead, Renew}, {Lead, Follow, Ends},
          {Follow, Asks, r1, Ends}}

Tickers == Permutations(Ticker)
=============================================================================
