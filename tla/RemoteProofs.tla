---------------------------- MODULE RemoteProofs ----------------------------
(***************************************************************************)
(* Remote, for every set of requests, whatever each of them asks, for any  *)
(* number of pairings, contacts, messages and blocks.                      *)
(***************************************************************************)
EXTENDS Remote, TLAPS

-----------------------------------------------------------------------------
(* The invariant.                                                           *)

\* The types the properties need.
Shape ==
    /\ pairing \in [live : BOOLEAN, count : Nat]
    /\ cached \in [Request -> {"none"} \cup Replies]
    /\ kept \in [Request -> {"none", "started", "done"}]
    /\ hand \in [pc : {"free", "taken", "mutated", "claimed", "acted", "handled",
                       "answered", "completed"},
                 r : Request \cup {None}, reply : {"none", "error"} \cup Replies]
    /\ told \in [Request -> SUBSET ({"error"} \cup Replies)]
    /\ turn \in [Request -> {"none", "submitted", "running", "completed", "failed",
                             "interrupted"}]
    /\ order \in Seq(Request)
    /\ runner \in Request \cup {None}
    /\ effects \in [Request -> Nat]

\* A consumer that holds the bridge's database found the pairing standing, and
\* neither Revoke nor Pair gets the lock meanwhile.
LockInv == ~Unlocked => pairing.live

Recorded(r) == Method[r].kind \in Mutations \cup {"act"}

\* What the request in hand has behind it.
HandInv ==
    /\ hand.pc # "free" => hand.r \in Request
    /\ hand.pc \in {"mutated", "claimed", "acted"} => cached[hand.r] = "none"
    /\ hand.pc = "mutated" =>
          /\ hand.reply \in Replies
          /\ hand.reply = "done" /\ Recorded(hand.r) => kept[hand.r] = "done"
    /\ hand.pc \in {"claimed", "acted"} =>
          /\ Method[hand.r].kind = "act" /\ kept[hand.r] = "started"
          /\ effects[hand.r] = IF hand.pc = "claimed" THEN 0 ELSE 1
    /\ hand.pc = "handled" =>
          /\ hand.reply \in Replies => cached[hand.r] = hand.reply
          /\ hand.reply = "none" => hand.r \in late
    /\ hand.pc = "answered" => told[hand.r] # {} \/ hand.r \in late

\* What a request has done, by its kind and its record.
EffectInv ==
    \A r \in Request :
      /\ effects[r] <= 1
      /\ Method[r].kind \in Mutations => effects[r] = IF kept[r] = "done" THEN 1 ELSE 0
      /\ Method[r].kind = "act" => /\ kept[r] = "none" => effects[r] = 0
                                   /\ kept[r] = "done" => effects[r] = 1
      /\ turn[r] \in {"none", "submitted"} /\ ~Recorded(r) => effects[r] = 0

\* The console knows at most the reply the bridge kept, and that reply is a
\* success only with its record.
ReplyInv ==
    \A r \in Request :
      /\ told[r] \cap Replies \subseteq {cached[r]}
      /\ cached[r] = "done" /\ Recorded(r) => kept[r] = "done"
      /\ r \in receipt => told[r] # {} \/ r \in late

\* Turns are submitted once, wait in order, and run one at a time.
TurnInv ==
    /\ \A r \in Request : turn[r] # "none" => Method[r].kind = "turn" /\ cached[r] = "done"
    /\ \A i, j \in 1..Len(order) : /\ turn[order[i]] = "submitted"
                                   /\ order[i] = order[j] => i = j
    /\ \A r, q \in Request : turn[r] = "running" /\ turn[q] = "running" => r = q

RInv == Shape /\ LockInv /\ HandInv /\ EffectInv /\ ReplyInv /\ TurnInv

-----------------------------------------------------------------------------
(* The invariant is preserved.                                              *)

LEMMA RInit == Init => RInv
BY RemoteAssumption
DEF Init, RemoteInit, RInv, Shape, LockInv, Unlocked, HandInv, EffectInv, ReplyInv, TurnInv,
    Free, Replies

\* The steps of the whole, as far as the bridge is concerned.
LEMMA NextCases ==
    ASSUME [Next]_vars
    PROVE  \/ UNCHANGED remoteVars \/ ConsoleStep \/ TurnStep \/ Crash \/ Start
           \/ HandleKnown \/ Commit \/ Record
           \/ \E r \in Request : \/ Take(r) \/ Mutate(r) \/ Replay(r) \/ Refuse(r)
                                 \/ Claim(r) \/ Execute(r) \/ Complete(r) \/ InvokeHere(r)
           \/ \E yes \in BOOLEAN : Deliver(yes) \/ Acknowledge(yes)
BY DEF Next, vars, ConsumerStep

\* The consumer holds the lock only from an authorised request on.
LEMMA LockStep == RInv /\ [Next]_vars => LockInv'
<1> SUFFICES ASSUME RInv, [Next]_vars PROVE LockInv'
    OBVIOUS
<1> USE DEF RInv, Shape, LockInv, Unlocked, Authorized
<1>1. CASE UNCHANGED remoteVars \/ ConsoleStep \/ TurnStep \/ Crash \/ Start
    BY <1>1
    DEF remoteVars, ConsoleStep, Submit, Deadline, Revoke, Pair, Regrant, TurnStep, ClaimTurn,
        FinishTurn, Tool, ThreadEnds, Crash, Start, Free
<1>2. CASE HandleKnown \/ Commit \/ Record
    BY <1>2 DEF HandleKnown, Commit, Record, At, Replying
<1>3. ASSUME NEW r \in Request,
             Take(r) \/ Mutate(r) \/ Replay(r) \/ Refuse(r) \/ Claim(r) \/ Execute(r)
             \/ Complete(r) \/ InvokeHere(r)
      PROVE  LockInv'
    BY <1>3
    DEF Take, Mutate, Replay, Refuse, Claim, Execute, Complete, InvokeHere, Invokes, At, Replying
<1>4. ASSUME NEW yes \in BOOLEAN, Deliver(yes) \/ Acknowledge(yes) PROVE LockInv'
    BY <1>4 DEF Deliver, Acknowledge, At, Free
<1> QED
    BY <1>1, <1>2, <1>3, <1>4, NextCases

\* Replies and records agree, and are what the console is told.
LEMMA ReplyStep == RInv /\ [Next]_vars => ReplyInv'
<1> SUFFICES ASSUME RInv, [Next]_vars PROVE ReplyInv'
    OBVIOUS
<1> USE RemoteAssumption DEF RInv, Shape, HandInv, ReplyInv, Recorded, Replies
<1>1. CASE UNCHANGED remoteVars \/ ConsoleStep \/ TurnStep \/ Crash \/ Start
    BY <1>1
    DEF remoteVars, ConsoleStep, Submit, Deadline, Revoke, Pair, Regrant, TurnStep, ClaimTurn,
        FinishTurn, Tool, ThreadEnds, Crash, Start
<1>2. CASE HandleKnown
    BY <1>2 DEF HandleKnown
<1>3. CASE Commit
    BY <1>3 DEF Commit, At
<1>4. CASE Record
    BY <1>4 DEF Record, At
<1>5. ASSUME NEW r \in Request, Take(r) \/ Refuse(r) \/ Claim(r) \/ Replay(r) PROVE ReplyInv'
    BY <1>5 DEF Take, Refuse, Claim, Replay, Invokes, At
<1>9. ASSUME NEW r \in Request, InvokeHere(r) PROVE ReplyInv'
    BY <1>9 DEF InvokeHere, Invokes, At, Mutations
<1>6. ASSUME NEW r \in Request, Mutate(r) \/ Execute(r) \/ Complete(r) PROVE ReplyInv'
    BY <1>6 DEF Mutate, Execute, Complete, Invokes, At
<1>7. ASSUME NEW yes \in BOOLEAN, Deliver(yes) PROVE ReplyInv'
    BY <1>7 DEF Deliver, Disclosed, At
<1>8. ASSUME NEW yes \in BOOLEAN, Acknowledge(yes) PROVE ReplyInv'
    BY <1>8 DEF Acknowledge, At
<1> QED
    BY <1>1, <1>2, <1>3, <1>4, <1>5, <1>6, <1>7, <1>8, <1>9, NextCases

\* The only step outside the bridge's transaction that touches the Store: the
\* action runs between its claim and its completion.
LEMMA ExecuteFacts ==
    ASSUME RInv, NEW r \in Request, Execute(r)
    PROVE  /\ hand.pc = "claimed" /\ hand.r = r
           /\ \/ /\ effects' = [effects EXCEPT ![r] = @ + 1]
                 /\ hand' = [hand EXCEPT !.pc = "acted"]
              \/ /\ hand' = [hand EXCEPT !.pc = "handled", !.reply = "error"]
                 /\ effects' = effects
           /\ UNCHANGED <<pairing, late, control, receipt, cached, kept, told, turn, order,
                          runner, threads, up, worked>>
BY DEF Execute, At, Replying

\* The request in hand keeps behind it what its place says.
LEMMA HandStep == RInv /\ [Next]_vars => HandInv'
<1> SUFFICES ASSUME RInv, [Next]_vars PROVE HandInv'
    OBVIOUS
<1> USE RemoteAssumption DEF RInv, Shape, HandInv, Replies
<1>1. CASE UNCHANGED remoteVars \/ ConsoleStep \/ Crash \/ Start
    BY <1>1
    DEF remoteVars, ConsoleStep, Submit, Deadline, Revoke, Pair, Regrant, Crash, Start, Free
<1>2. CASE TurnStep
    BY <1>2 DEF TurnStep, ClaimTurn, Claimable, FinishTurn, Tool, ThreadEnds, Unlocked
<1>3. CASE HandleKnown
    BY <1>3 DEF HandleKnown, Known, Replying, At
<1>4. CASE Commit
    BY <1>4 DEF Commit, At
<1>5. CASE Record
    BY <1>5 DEF Record, At
<1>6. ASSUME NEW r \in Request, Take(r) PROVE HandInv'
    BY <1>6 DEF Take, At
<1>7. ASSUME NEW r \in Request, Refuse(r) PROVE HandInv'
    <2>1. /\ hand.pc = "taken" /\ hand.r = r
          /\ hand' = [hand EXCEPT !.pc = "handled", !.reply = "error"]
        BY <1>7 DEF Refuse, Replying, Invokes, At
    <2> QED
        BY <2>1
<1>8. ASSUME NEW r \in Request, InvokeHere(r) PROVE HandInv'
    BY <1>8 DEF InvokeHere, Replying, Invokes, At
<1>9. ASSUME NEW r \in Request, Mutate(r) PROVE HandInv'
    BY <1>9 DEF Mutate, Invokes, At
<1>10. ASSUME NEW r \in Request, Replay(r) PROVE HandInv'
    BY <1>10 DEF Replay, Invokes, At
<1>11. ASSUME NEW r \in Request, Claim(r) PROVE HandInv'
    BY <1>11 DEF Claim, Invokes, At, EffectInv
<1>12. ASSUME NEW r \in Request, Execute(r) PROVE HandInv'
    <2>1. CASE hand' = [hand EXCEPT !.pc = "handled", !.reply = "error"]
        BY <1>12, <2>1, ExecuteFacts
    <2>2. CASE effects' = [effects EXCEPT ![r] = @ + 1] /\ hand' = [hand EXCEPT !.pc = "acted"]
        BY <1>12, <2>2, ExecuteFacts
    <2> QED
        BY <1>12, <2>1, <2>2, ExecuteFacts
<1>13. ASSUME NEW r \in Request, Complete(r) PROVE HandInv'
    BY <1>13 DEF Complete, At
<1>14. ASSUME NEW yes \in BOOLEAN, Deliver(yes) PROVE HandInv'
    BY <1>14 DEF Deliver, Disclosed, At, Free
<1>15. ASSUME NEW yes \in BOOLEAN, Acknowledge(yes) PROVE HandInv'
    BY <1>15 DEF Acknowledge, At, Free
<1> QED
    BY <1>1, <1>2, <1>3, <1>4, <1>5, <1>6, <1>7, <1>8, <1>9, <1>10, <1>11, <1>12,
       <1>13, <1>14, <1>15, NextCases

\* A request takes effect once: its record, its place or its turn says so.
LEMMA EffectStep == RInv /\ [Next]_vars => EffectInv'
<1> SUFFICES ASSUME RInv, [Next]_vars PROVE EffectInv'
    OBVIOUS
<1> USE RemoteAssumption DEF RInv, Shape, EffectInv, Recorded, Mutations
<1>1. CASE UNCHANGED remoteVars \/ ConsoleStep \/ Crash \/ Start
    BY <1>1
    DEF remoteVars, ConsoleStep, Submit, Deadline, Revoke, Pair, Regrant, Crash, Start
<1>2. CASE TurnStep
    <2>1. CASE ClaimTurn
        <3>1. CASE UNCHANGED effects
            BY <2>1, <3>1 DEF ClaimTurn
        <3>2. CASE Authorized
            <4>1. /\ order # <<>> /\ Head(order) \in Request
                  /\ Head(order) = order[1] /\ 1 \in 1..Len(order)
                BY <2>1 DEF ClaimTurn, Claimable
            <4>2. turn[Head(order)] = "submitted" /\ Method[Head(order)].kind = "turn"
                BY <4>1 DEF TurnInv
            <4>3. /\ turn' = [turn EXCEPT ![Head(order)] = "running"]
                  /\ effects' = [effects EXCEPT ![Head(order)] = @ + 1]
                  /\ kept' = kept
                BY <2>1, <3>2 DEF ClaimTurn
            <4> QED
                BY <4>1, <4>2, <4>3
        <3> QED
            BY <2>1, <3>1, <3>2 DEF ClaimTurn
    <2>2. CASE /\ UNCHANGED <<effects, kept>>
               /\ \A r \in Request : turn'[r] \in {"none", "submitted"} =>
                                        turn[r] \in {"none", "submitted"}
        BY <2>2
    <2> QED
        BY <1>2, <2>1, <2>2 DEF TurnStep, FinishTurn, Tool, ThreadEnds
<1>3. CASE HandleKnown \/ Commit \/ Record
    BY <1>3 DEF HandleKnown, Commit, Record
<1>4. ASSUME NEW r \in Request, Take(r) \/ Refuse(r) \/ Claim(r) \/ Replay(r)
      PROVE  EffectInv'
    BY <1>4 DEF Take, Refuse, Claim, Replay
<1>5. ASSUME NEW r \in Request, Mutate(r) PROVE EffectInv'
    BY <1>5 DEF Mutate
<1>6. ASSUME NEW r \in Request, Execute(r) PROVE EffectInv'
    <2>1. effects[r] = 0 /\ kept[r] = "started" /\ Method[r].kind = "act"
        BY <1>6, ExecuteFacts DEF HandInv
    <2>2. /\ effects' = [effects EXCEPT ![r] = @ + 1] \/ effects' = effects
          /\ UNCHANGED <<kept, turn>>
        BY <1>6, ExecuteFacts
    <2> QED
        BY <2>1, <2>2
<1>7. ASSUME NEW r \in Request, Complete(r) PROVE EffectInv'
    BY <1>7 DEF Complete, At, HandInv
<1>8. ASSUME NEW r \in Request, InvokeHere(r) PROVE EffectInv'
    <2>1. turn[r] = "none" /\ UNCHANGED <<effects, kept>>
        BY <1>8 DEF InvokeHere, Invokes, TurnInv
    <2>2. \A q \in Request \ {r} : turn'[q] = turn[q]
        BY <1>8 DEF InvokeHere
    <2> QED
        BY <2>1, <2>2
<1>9. ASSUME NEW yes \in BOOLEAN, Deliver(yes) \/ Acknowledge(yes) PROVE EffectInv'
    BY <1>9 DEF Deliver, Acknowledge
<1> QED
    BY <1>1, <1>2, <1>3, <1>4, <1>5, <1>6, <1>7, <1>8, <1>9, NextCases

\* A turn is submitted once, and leaves the queue for good.
LEMMA TurnStepKeeps == RInv /\ [Next]_vars => TurnInv'
<1> SUFFICES ASSUME RInv, [Next]_vars PROVE TurnInv'
    OBVIOUS
<1> USE DEF RInv, TurnInv
<1>1. CASE UNCHANGED <<turn, cached, order>>
    BY <1>1
<1>2. CASE ConsoleStep \/ Crash
    BY <1>2 DEF ConsoleStep, Submit, Deadline, Revoke, Pair, Regrant, Crash
<1>3. CASE Start
    BY <1>3 DEF Start, Shape
<1>4. CASE ClaimTurn
    <2>1. CASE ~Authorized
        <3>1. /\ turn' = [r \in Request |-> IF turn[r] = "submitted" THEN "failed" ELSE turn[r]]
              /\ order' = <<>> /\ cached' = cached
            BY <1>4, <2>1 DEF ClaimTurn
        <3>2. Len(order') = 0
            BY <3>1
        <3>3. \A r \in Request : turn'[r] # "none" => turn[r] # "none"
            BY <3>1
        <3>4. \A r \in Request : turn'[r] = "running" => turn[r] = "running"
            BY <3>1
        <3> QED
            BY <3>1, <3>2, <3>3, <3>4
    <2>2. CASE Authorized
        <3> DEFINE r == Head(order)
        <3>1. /\ order # <<>> /\ r \in Request /\ r = order[1] /\ 1 \in 1..Len(order)
              /\ \A q \in Request : turn[q] # "running"
            BY <1>4 DEF ClaimTurn, Claimable, Shape
        <3>2. /\ turn' = [turn EXCEPT ![r] = "running"]
              /\ order' = Tail(order) /\ cached' = cached
            BY <1>4, <2>2 DEF ClaimTurn
        <3>3. /\ Len(order') = Len(order) - 1
              /\ \A i \in 1..Len(order') : i + 1 \in 1..Len(order) /\ order'[i] = order[i + 1]
            BY <3>1, <3>2 DEF Shape
        <3>4. turn[r] = "submitted"
            BY <3>1
        <3> HIDE DEF r
        <3>5. \A i, j \in 1..Len(order') : /\ turn'[order'[i]] = "submitted"
                                           /\ order'[i] = order'[j] => i = j
            <4> TAKE i, j \in 1..Len(order')
            <4>1. order[i + 1] # r /\ order[i + 1] \in Request
                BY <3>1, <3>3 DEF Shape
            <4> QED
                BY <3>2, <3>3, <4>1
        <3> QED
            BY <3>1, <3>2, <3>4, <3>5 DEF Shape
    <2> QED
        BY <1>4, <2>1, <2>2 DEF ClaimTurn
<1>5. ASSUME NEW o \in {"completed", "failed", "interrupted"}, FinishTurn(o) PROVE TurnInv'
    BY <1>5 DEF FinishTurn, Shape
<1>6. CASE Commit
    BY <1>6 DEF Commit, At, HandInv, Shape, Replies
<1>7. ASSUME NEW r \in Request, InvokeHere(r) PROVE TurnInv'
    <2>1. turn[r] = "none" /\ cached' = [cached EXCEPT ![r] = "done"]
        BY <1>7 DEF InvokeHere, Invokes, Shape
    <2>2. CASE UNCHANGED <<turn, order>>
        BY <2>1, <2>2 DEF Shape
    <2>3. CASE Method[r].kind = "turn" /\ turn' = [turn EXCEPT ![r] = "submitted"]
               /\ order' = Append(order, r)
        <3>1. /\ Len(order') = Len(order) + 1 /\ order'[Len(order) + 1] = r
              /\ \A i \in 1..Len(order) : /\ order'[i] = order[i]
                                          /\ order[i] # r /\ order[i] \in Request
            BY <2>1, <2>3 DEF Shape
        <3>2. \A i, j \in 1..Len(order') : /\ turn'[order'[i]] = "submitted"
                                           /\ order'[i] = order'[j] => i = j
            BY <2>3, <3>1 DEF Shape
        <3> QED
            BY <2>1, <2>3, <3>2 DEF Shape
    <2> QED
        BY <1>7, <2>2, <2>3 DEF InvokeHere
<1> QED
    <2>1. CASE TurnStep
        BY <1>1, <1>4, <1>5, <2>1 DEF TurnStep, Tool, ThreadEnds
    <2>2. CASE UNCHANGED remoteVars \/ HandleKnown \/ Record
        BY <1>1, <2>2 DEF remoteVars, HandleKnown, Record
    <2>3. ASSUME NEW r \in Request,
                 Take(r) \/ Mutate(r) \/ Replay(r) \/ Refuse(r) \/ Claim(r) \/ Execute(r)
                 \/ Complete(r)
          PROVE  UNCHANGED <<turn, cached, order>>
        BY <2>3 DEF Take, Mutate, Replay, Refuse, Claim, Execute, Complete
    <2>4. ASSUME NEW yes \in BOOLEAN, Deliver(yes) \/ Acknowledge(yes)
          PROVE  UNCHANGED <<turn, cached, order>>
        BY <2>4 DEF Deliver, Acknowledge
    <2> QED
        BY <1>1, <1>2, <1>3, <1>6, <1>7, <2>1, <2>2, <2>3, <2>4, NextCases

\* The variables keep their types: the place of the consumer first.
LEMMA HandShape ==
    ASSUME RInv, [Next]_vars
    PROVE  hand' \in [pc : {"free", "taken", "mutated", "claimed", "acted", "handled",
                            "answered", "completed"},
                      r : Request \cup {None}, reply : {"none", "error"} \cup Replies]
<1> DEFINE Hand == [pc : {"free", "taken", "mutated", "claimed", "acted", "handled",
                          "answered", "completed"},
                    r : Request \cup {None}, reply : {"none", "error"} \cup Replies]
<1>1. hand \in Hand /\ Free \in Hand
    BY DEF RInv, Shape, Free
<1>2. CASE HandleKnown
    <2>1. /\ hand.r \in Request /\ hand' = [hand EXCEPT !.pc = "handled", !.reply = Known(hand.r)]
        BY <1>2 DEF HandleKnown, Replying, At, RInv, HandInv
    <2>2. Known(hand.r) \in {"none", "error"} \cup Replies
        BY <2>1 DEF Known, RInv, Shape
    <2> QED
        BY <1>1, <2>1, <2>2
<1>3. CASE Commit \/ Record
    BY <1>1, <1>3 DEF Commit, Record
<1>4. ASSUME NEW r \in Request, Take(r) PROVE hand' \in Hand
    BY <1>4 DEF Take
<1>5. ASSUME NEW r \in Request, Replay(r) PROVE hand' \in Hand
    BY <1>1, <1>5 DEF Replay, Replies
<1>6. ASSUME NEW r \in Request, Refuse(r) PROVE hand' \in Hand
    BY <1>1, <1>6 DEF Refuse, Replying
<1>7. ASSUME NEW r \in Request, Claim(r) PROVE hand' \in Hand
    BY <1>1, <1>7 DEF Claim
<1>8. ASSUME NEW r \in Request, Mutate(r) \/ Complete(r) PROVE hand' \in Hand
    BY <1>1, <1>8 DEF Mutate, Complete, Replies
<1>9. ASSUME NEW r \in Request, Execute(r) PROVE hand' \in Hand
    <2>1. \/ hand' = [hand EXCEPT !.pc = "acted"]
          \/ hand' = [hand EXCEPT !.pc = "handled", !.reply = "error"]
        BY <1>9, ExecuteFacts
    <2> QED
        BY <1>1, <2>1
<1>10. ASSUME NEW r \in Request, InvokeHere(r) PROVE hand' \in Hand
    BY <1>1, <1>10 DEF InvokeHere, Replying, Replies
<1>11. ASSUME NEW yes \in BOOLEAN, Deliver(yes) PROVE hand' \in Hand
    BY <1>1, <1>11 DEF Deliver
<1>12. ASSUME NEW yes \in BOOLEAN, Acknowledge(yes) PROVE hand' \in Hand
    BY <1>1, <1>12 DEF Acknowledge
<1>13. CASE UNCHANGED hand \/ Crash
    BY <1>1, <1>13 DEF Crash
<1>14. UNCHANGED remoteVars \/ ConsoleStep \/ TurnStep \/ Start => UNCHANGED hand
    BY DEF remoteVars, ConsoleStep, Submit, Deadline, Revoke, Pair, Regrant, TurnStep,
        ClaimTurn, FinishTurn, Tool, ThreadEnds, Start
<1> QED
    BY <1>2, <1>3, <1>4, <1>5, <1>6, <1>7, <1>8, <1>9, <1>10, <1>11, <1>12, <1>13, <1>14,
       NextCases

\* Then what a turn does.
LEMMA TurnShape ==
    ASSUME RInv, TurnStep
    PROVE  Shape'
<1> USE DEF RInv, Shape
<1>1. CASE ClaimTurn
    <2>1. CASE ~Authorized
        <3>1. turn' = [r \in Request |-> IF turn[r] = "submitted" THEN "failed" ELSE turn[r]]
            BY <1>1, <2>1 DEF ClaimTurn
        <3>2. order' = <<>>
            BY <1>1, <2>1 DEF ClaimTurn
        <3>3. order' \in Seq(Request)
            BY <3>2
        <3>4. UNCHANGED <<pairing, cached, kept, hand, told, runner, effects>>
            BY <1>1, <2>1 DEF ClaimTurn
        <3>5. \A r \in Request : turn'[r] \in {"none", "submitted", "running", "completed",
                                               "failed", "interrupted"}
            BY <3>1
        <3> QED
            BY <3>1, <3>3, <3>4, <3>5
    <2>2. CASE Authorized
        <3>1. order # <<>>
            BY <1>1 DEF ClaimTurn, Claimable
        <3>2. Head(order) \in Request /\ Tail(order) \in Seq(Request)
            BY <3>1
        <3>3. /\ turn' = [turn EXCEPT ![Head(order)] = "running"] /\ order' = Tail(order)
              /\ runner' = Head(order) /\ effects' = [effects EXCEPT ![Head(order)] = @ + 1]
              /\ UNCHANGED <<pairing, cached, kept, hand, told>>
            BY <1>1, <2>2 DEF ClaimTurn
        <3> QED
            BY <3>2, <3>3
    <2> QED
        BY <2>1, <2>2
<1>2. ASSUME NEW o \in {"completed", "failed", "interrupted"}, FinishTurn(o) PROVE Shape'
    BY <1>2 DEF FinishTurn
<1>3. ASSUME NEW r \in Request, Tool(r) \/ ThreadEnds(r) PROVE Shape'
    BY <1>3 DEF Tool, ThreadEnds
<1> QED
    BY <1>1, <1>2, <1>3 DEF TurnStep

\* And the rest.
LEMMA ShapeStep == RInv /\ [Next]_vars => Shape'
<1> SUFFICES ASSUME RInv, [Next]_vars PROVE Shape'
    OBVIOUS
<1> DEFINE Rest ==
      /\ pairing' \in [live : BOOLEAN, count : Nat] /\ runner' \in Request \cup {None}
      /\ cached' \in [Request -> {"none"} \cup Replies]
      /\ kept' \in [Request -> {"none", "started", "done"}]
      /\ told' \in [Request -> SUBSET ({"error"} \cup Replies)]
      /\ turn' \in [Request -> {"none", "submitted", "running", "completed", "failed",
                                "interrupted"}]
      /\ order' \in Seq(Request) /\ effects' \in [Request -> Nat]
<1> USE DEF RInv, Shape
<1>1. ASSUME UNCHANGED <<pairing, runner, cached, kept, told, turn, order, effects>> PROVE Rest
    BY <1>1
<1>2. ASSUME UNCHANGED remoteVars \/ HandleKnown \/ Record PROVE Rest
    BY <1>1, <1>2 DEF remoteVars, HandleKnown, Record
<1>3. ASSUME Crash \/ Start PROVE Rest
    <2>1. UNCHANGED <<pairing, cached, kept, told, order, effects>>
        BY <1>3 DEF Crash, Start
    <2>2. runner' \in Request \cup {None}
        BY <1>3 DEF Crash, Start
    <2>3. \/ turn' = turn
          \/ turn' = [r \in Request |-> IF turn[r] = "running" THEN "interrupted" ELSE turn[r]]
        BY <1>3 DEF Crash, Start
    <2> QED
        BY <2>1, <2>2, <2>3
<1>4. ASSUME ConsoleStep PROVE Rest
    <2>1. CASE Revoke
        BY <2>1 DEF Revoke, Regrant
    <2>2. CASE Pair
        BY <2>2 DEF Pair, Regrant
    <2> QED
        BY <1>1, <1>4, <2>1, <2>2 DEF ConsoleStep, Submit, Deadline
<1>5. ASSUME Commit PROVE Rest
    BY <1>5 DEF Commit, At, HandInv
<1>6. ASSUME NEW r \in Request, Take(r) \/ Replay(r) \/ Refuse(r) PROVE Rest
    BY <1>1, <1>6 DEF Take, Replay, Refuse
<1>7. ASSUME NEW r \in Request, Claim(r) PROVE Rest
    BY <1>7 DEF Claim
<1>8. ASSUME NEW r \in Request, Mutate(r) PROVE Rest
    BY <1>8 DEF Mutate
<1>9. ASSUME NEW r \in Request, Complete(r) PROVE Rest
    BY <1>9 DEF Complete
<1>10. ASSUME NEW r \in Request, Execute(r) PROVE Rest
    <2>1. effects' = [effects EXCEPT ![r] = @ + 1] \/ effects' = effects
        BY <1>10, ExecuteFacts
    <2>2. effects' \in [Request -> Nat]
        BY <2>1
    <2>3. UNCHANGED <<pairing, runner, cached, kept, told, turn, order>>
        BY <1>10, ExecuteFacts
    <2> QED
        BY <2>2, <2>3
<1>11. ASSUME NEW r \in Request, InvokeHere(r) PROVE Rest
    <2>1. /\ cached' = [cached EXCEPT ![r] = "done"]
          /\ \/ turn' = [turn EXCEPT ![r] = "submitted"] /\ order' = Append(order, r)
             \/ UNCHANGED <<turn, order>>
          /\ UNCHANGED <<pairing, kept, told, runner, effects>>
        BY <1>11 DEF InvokeHere
    <2>2. order' \in Seq(Request)
        <3>1. order \in Seq(Request)
            OBVIOUS
        <3> HIDE DEF RInv, Shape
        <3>2. Append(order, r) \in Seq(Request)
            BY <3>1
        <3> QED
            BY <2>1, <3>1, <3>2
    <2> QED
        BY <2>1, <2>2 DEF Replies
<1>12. ASSUME NEW yes \in BOOLEAN, Deliver(yes) PROVE Rest
    <2>1. hand.reply \in {"none", "error"} \cup Replies
        OBVIOUS
    <2>2. Disclosed \subseteq {"error"} \cup Replies
        BY <2>1 DEF Disclosed
    <2>3. told' = [told EXCEPT ![hand.r] = @ \cup Disclosed]
        BY <1>12 DEF Deliver
    <2>4. told' \in [Request -> SUBSET ({"error"} \cup Replies)]
        BY <2>2, <2>3
    <2> QED
        BY <1>12, <2>4 DEF Deliver
<1>13. ASSUME NEW yes \in BOOLEAN, Acknowledge(yes) PROVE Rest
    BY <1>1, <1>13 DEF Acknowledge
<1>14. CASE TurnStep
    BY <1>14, TurnShape
<1>15. Rest => Shape'
    <2> HIDE DEF RInv
    <2> QED
        BY HandShape
<1> HIDE DEF Rest, RInv, Shape
<1> QED
    BY <1>2, <1>3, <1>4, <1>5, <1>6, <1>7, <1>8, <1>9, <1>10, <1>11, <1>12, <1>13, <1>14,
       <1>15, NextCases

-----------------------------------------------------------------------------
(* The theorems.                                                            *)

\* RInv holds in every reachable state.
THEOREM Invariance == Spec => []RInv
<1>1. RInv /\ [Next]_vars => RInv'
    BY ShapeStep, LockStep, HandStep, EffectStep, ReplyStep, TurnStepKeeps DEF RInv
<1> QED
    BY <1>1, RInit, PTL DEF Spec

\* However often a request is delivered, and wherever the process stops between
\* the databases of the Store, the bridge and the adapter, it takes effect once,
\* and what the console is told agrees with that.
THEOREM OnceOnly == Spec => []EachRequestOnce
<1>1. ASSUME RInv PROVE EachRequestOnce
    <2>1. ASSUME NEW r \in Request, "done" \in told[r], Recorded(r) PROVE effects[r] = 1
        <3>1. cached[r] = "done"
            BY <1>1, <2>1 DEF RInv, ReplyInv, Replies
        <3> QED
            BY <1>1, <2>1, <3>1 DEF RInv, ReplyInv, EffectInv, Recorded
    <2>2. ASSUME NEW r \in Request PROVE ~(Replies \subseteq told[r])
        BY <1>1, <2>2 DEF RInv, ReplyInv, Replies
    <2> QED
        BY <1>1, <2>1, <2>2 DEF RInv, ReplyInv, EffectInv, TurnInv, EachRequestOnce, Recorded
<1> QED
    BY <1>1, Invariance, PTL

\* Between the return of a revocation and the next pairing nothing the console
\* asked for happens: the bridge checks the pairing under the lock that
\* RemoteBridge.revoke takes.
THEOREM RevocationHolds == Spec => NothingAfterRevoke
<1> DEFINE Quiet ==
      /\ ~pairing.live =>
            /\ effects' = effects /\ worked' = worked
            /\ \A r \in Request : /\ told'[r] \cap Replies = told[r] \cap Replies
                                  /\ turn'[r] = "running" => turn[r] = "running"
      /\ \A r \in worked' \ worked : turn[r] = "running"
<1>1. ASSUME RInv, [Next]_vars PROVE [Quiet]_vars
    <2> USE DEF Quiet
    <2>1. CASE UNCHANGED <<effects, worked, told, turn>>
        BY <2>1
    <2>2. CASE ConsoleStep \/ Crash \/ UNCHANGED remoteVars \/ HandleKnown \/ Commit \/ Record
        BY <2>1, <2>2
        DEF ConsoleStep, Submit, Deadline, Revoke, Pair, Regrant, Crash, remoteVars,
            HandleKnown, Commit, Record
    <2>3. CASE Start
        BY <1>1, <2>3 DEF Start, RInv, Shape
    <2>4. CASE TurnStep
        BY <1>1, <2>4
        DEF TurnStep, ClaimTurn, FinishTurn, Tool, ThreadEnds, Bound, Authorized, RInv, Shape
    <2>5. ASSUME NEW r \in Request,
                 Take(r) \/ Replay(r) \/ Refuse(r) \/ Claim(r) \/ Complete(r)
          PROVE  Quiet
        BY <2>1, <2>5 DEF Take, Replay, Refuse, Claim, Complete
    <2>6. ASSUME NEW r \in Request, Mutate(r) \/ Execute(r) PROVE Quiet
        BY <1>1, <2>6, ExecuteFacts
        DEF Mutate, Invokes, Authorized, RInv, LockInv, Unlocked
    <2>7. ASSUME NEW r \in Request, InvokeHere(r) PROVE Quiet
        BY <1>1, <2>7 DEF InvokeHere, Invokes, Authorized, RInv, Shape
    <2>8. ASSUME NEW yes \in BOOLEAN, Deliver(yes) PROVE Quiet
        BY <1>1, <2>8 DEF Deliver, Disclosed, Authorized, RInv, Shape, Replies
    <2>9. ASSUME NEW yes \in BOOLEAN, Acknowledge(yes) PROVE Quiet
        BY <2>1, <2>9 DEF Acknowledge
    <2> QED
        BY <1>1, <2>2, <2>3, <2>4, <2>5, <2>6, <2>7, <2>8, <2>9, NextCases
<1> QED
    BY <1>1, Invariance, PTL DEF Spec, NothingAfterRevoke
=============================================================================
