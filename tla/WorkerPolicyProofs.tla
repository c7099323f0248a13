------------------------- MODULE WorkerPolicyProofs -------------------------
(***************************************************************************)
(* The limits of a worker's policy, for every number of host timers whose  *)
(* ticks overlap or die: what its runs hand over, and in which order.      *)
(***************************************************************************)
EXTENDS WorkerProofs

Open(i) == run[i].status \in {"running", "old"}
Busy(t) == tick[t].pc # "idle"
Sendable(t) == tick[t].pc \in {"prepare", "dispatch", "submit"}
Own(k) == {<<"proposal", k>>, <<"accept", k>>}

\* The collaboration shows that the step has been taken.
Taken(w) == IF w[1] = "accept" THEN joint.mine ELSE joint.terms > 0

-----------------------------------------------------------------------------
(* The inductive invariant.                                                 *)

\* A tick under way has an open run of its own.
TickInv ==
    /\ \A t \in Ticker : Busy(t) => tick[t].id \in RunID /\ Open(tick[t].id)
    /\ \A t, u \in Ticker : Busy(t) /\ Busy(u) /\ tick[t].id = tick[u].id => t = u
    /\ \A t \in Ticker : Sendable(t) => tick[t].step \in {Receipt} \cup Own(tick[t].id[1])

\* Nothing is there of runs and policies to come.
Later(i) == i[1] > worker.rev \/ (i[1] = worker.rev /\ i[2] > worker.runs)
Unasked(k) == k > worker.rev \/ (k = worker.rev /\ worker.status = "pending")
FutureInv ==
    /\ \A i \in RunID : Later(i) => run[i].status = "none" /\ run[i].step = None
    /\ \A k \in Rev : Unasked(k) => \A w \in Own(k) : wop[w].status = "none"
    /\ worker.status = "pending" => worker.runs = 0

\* A policy has one open run.
OpenInv == \A i, j \in RunID : i[1] = j[1] /\ Open(i) /\ Open(j) => i = j

\* What a run hands over is the step it reserved.
ReservedInv ==
    /\ \A w \in Step, i \in RunID : <<w, i>> \in handed => run[i].step = w
    /\ \A t \in Ticker : tick[t].pc = "submit" => run[tick[t].id].step = tick[t].step

\* Run i is still busy with step w, or died over it.
Doing(i, w) ==
    /\ Open(i)
    /\ \A t \in Ticker : Busy(t) /\ tick[t].id = i =>
          tick[t].pc \in {"dispatch", "submit", "stop"} /\ tick[t].step = w

\* A step a policy has begun it does not begin again: the step has been taken,
\* or the policy is over, or a run stands in the way.
Settled(k, w) == Taken(w) \/ \E i \in RunID : i[1] = k /\ Doing(i, w)
BegunInv ==
    /\ \A t \in Ticker : tick[t].pc = "prepare" =>
          tick[t].step \in Own(tick[t].id[1]) /\ wop[tick[t].step].status = "none"
    /\ \A k \in Rev : \A w \in Own(k) :
          /\ wop[w].status = "accepted" => Taken(w)
          /\ wop[w].status # "none" /\ worker.rev = k /\ worker.status = "active" =>
                Settled(k, w)

\* Run i has handed over w, or is about to.
HandsOver(w, i) ==
    \/ <<w, i>> \in handed
    \/ \E t \in Ticker : tick[t].pc = "submit" /\ tick[t].step = w /\ tick[t].id = i

Unsent == {"none", "asked", "ready"}
HandsInv ==
    \A w \in Step :
      /\ \A i, j \in RunID : HandsOver(w, i) /\ HandsOver(w, j) => i = j
      /\ wop[w].status \in Unsent => \A i \in RunID : ~HandsOver(w, i)

\* What has been applied shows.
AppliedInv == \A w \in Step : wop[w].applied /\ w # Receipt => Taken(w)

\* A step that a run has reserved has been submitted, or the task had no action
\* left for it: then the owner cannot dispatch it either.
StuckInv ==
    \A i \in RunID : run[i].step \in Step =>
        /\ wop[run[i].step].status \notin {"none", "asked"}
        /\ wop[run[i].step].status = "ready" =>
              run[i].step # Receipt /\ task.used >= MaxActions

\* While a run of the current policy may still send, no other step that a run
\* has reserved is uncertain.
AloneInv ==
    \A t \in Ticker : Sendable(t) /\ tick[t].id[1] = worker.rev =>
        \A i \in RunID : run[i].step \in Step \ {tick[t].step} =>
            wop[run[i].step].status # "sending"

\* The steps that the runs of a policy have reserved.
StepsOf(k) == {run[i].step : i \in {j \in RunID : j[1] = k}} \ {None}

SendsInv ==
    \A k \in Rev : /\ IsFiniteSet(StepsOf(k)) /\ Cardinality(StepsOf(k)) <= MaxSends
                   /\ k = worker.rev => Cardinality(StepsOf(k)) <= worker.sends

PolicyRuns == TickInv /\ FutureInv /\ OpenInv /\ ReservedInv /\ BegunInv /\ HandsInv
              /\ AppliedInv /\ StuckInv /\ AloneInv /\ SendsInv

-----------------------------------------------------------------------------
(* What a step of the whole does to the policy, its runs, ticks and steps.  *)

SameRuns(but) == \A i \in RunID \ but : run'[i] = run[i]
SameTicks(but) == \A t \in Ticker \ but : tick'[t] = tick[t]
SameSteps(but) == \A w \in Step \ but : wop'[w].status = wop[w].status
SameHanded == \A w \in Step, i \in RunID : <<w, i>> \in handed' <=> <<w, i>> \in handed
SameCount == worker'.rev = worker.rev /\ worker'.runs = worker.runs /\ worker'.sends = worker.sends
TakenStay == \A w \in Step : Taken(w) => Taken(w)'
AppliedShows == \A w \in Step : wop'[w].applied => wop[w].applied \/ w = Receipt \/ Taken(w)'

\* Owner, peer, clock and the rest of the task.
Elsewhere ==
    /\ SameCount /\ tick' = tick /\ TakenStay /\ AppliedShows /\ SameHanded
    /\ \/ worker'.status \in {worker.status, "stopped"}
       \/ worker.status = "pending" /\ worker'.status = "active"
    /\ \A i \in RunID : /\ run'[i].step = run[i].step /\ (Open(i)' <=> Open(i))
                        /\ run'[i].status = "none" <=> run[i].status = "none"
    /\ \A w \in Step :
          \/ wop'[w].status = wop[w].status
          \/ wop[w].status # "none" /\ wop'[w].status = "denied"
          \/ w = Receipt /\ wop[w].status = "none" /\ wop'[w].status = "ready"
          \/ wop[w].status = "asked" /\ wop'[w].status = "ready"
          \/ /\ wop[w].status = "ready" /\ wop'[w].status = "sending"
             /\ \A i \in RunID : run[i].step # w
          \/ wop[w].status = "sending" /\ wop'[w].status = "accepted" /\ (w # Receipt => Taken(w)')

NewPolicy ==
    /\ worker' = [status |-> "pending", rev |-> worker.rev + 1, runs |-> 0, sends |-> 0]
    /\ worker.rev + 1 \in Rev
    /\ UNCHANGED <<run, tick, joint, wop, handed>>

Chosen(row) ==
    \/ row.pc \in {"waiting", "stop"}
    \/ ~Sending /\ row.pc = "dispatch" /\ row.step = Receipt
    \/ ~Sending /\ row.pc = "prepare" /\ row.step \in Own(worker.rev) /\ ~Taken(row.step)

Claims(t, id) ==
    /\ id[1] = worker.rev /\ id[2] = worker.runs + 1 /\ id \in RunID
    /\ worker.status = "active" /\ ~Busy(t)
    /\ \A i \in RunID : i[1] = worker.rev => ~Open(i)
    /\ worker'.rev = worker.rev /\ worker'.runs = worker.runs + 1 /\ worker'.sends = worker.sends
    /\ run'[id].step = run[id].step /\ SameRuns({id})
    /\ UNCHANGED <<joint, wop, handed>>
    /\ \/ worker'.status = "stopped" /\ run'[id].status = "finished" /\ tick' = tick
       \/ /\ worker'.status = "active" /\ run'[id].status = "running"
          /\ SameTicks({t}) /\ tick'[t].id = id /\ Chosen(tick'[t])

\* Tick t goes on with its run and its step.
GoesOn(t) == tick'[t].id = tick[t].id /\ tick'[t].step = tick[t].step /\ SameTicks({t})

Prepares(t) ==
    /\ tick[t].pc = "prepare" /\ tick'[t].pc \in {"dispatch", "stop"} /\ GoesOn(t)
    /\ wop'[tick[t].step].status \in {"ready", "asked"} /\ SameSteps({tick[t].step})
    /\ AppliedShows
    /\ UNCHANGED <<worker, run, joint, handed>>

Reserves(t) ==
    LET w == tick[t].step
        i == tick[t].id
    IN /\ tick[t].pc = "dispatch" /\ GoesOn(t)
       /\ worker.rev = i[1] /\ wop[w].status = "ready" /\ run[i].step = None
       /\ worker'.rev = worker.rev /\ worker'.runs = worker.runs /\ worker'.status = worker.status
       /\ worker.sends < MaxSends /\ worker'.sends = worker.sends + 1
       /\ run'[i].step = w /\ run'[i].status = run[i].status /\ SameRuns({i})
       /\ UNCHANGED <<joint, handed>> /\ AppliedShows
       /\ \/ tick'[t].pc = "stop" /\ wop' = wop /\ w # Receipt /\ task.used >= MaxActions
          \/ tick'[t].pc = "submit" /\ wop'[w].status = "sending" /\ SameSteps({w})

Refused(t) ==
    /\ tick[t].pc \in {"dispatch", "submit"} /\ GoesOn(t)
    /\ tick'[t].pc = "stop" \/ (tick'[t].pc = "sent" /\ wop[tick[t].step].status = "accepted")
    /\ UNCHANGED <<worker, run, joint, wop, handed>>

Submits(t) ==
    LET w == tick[t].step
        i == tick[t].id
    IN /\ tick[t].pc = "submit" /\ tick'[t].pc \in {"sent", "stop"} /\ GoesOn(t)
       /\ worker.rev = i[1]
       /\ TakenStay /\ AppliedShows /\ \A x \in Step : x = w /\ w # Receipt => Taken(x)'
       /\ handed \subseteq handed' /\ handed' \subseteq handed \cup {<<w, i>>}
       /\ wop'[w].status \in {wop[w].status, "accepted"} /\ SameSteps({w})
       /\ UNCHANGED <<worker, run>>

Closes(t) ==
    /\ Busy(t) /\ tick'[t] = Idle /\ SameTicks({t})
    /\ run'[tick[t].id].status = "finished" /\ run'[tick[t].id].step = run[tick[t].id].step
    /\ SameRuns({tick[t].id}) /\ SameCount
    /\ worker'.status \in {worker.status, "stopped"}
    /\ tick[t].pc \notin {"waiting", "sent"} /\ worker.rev = tick[t].id[1] =>
          worker'.status # "active"
    /\ UNCHANGED <<joint, wop, handed>>

Dies(t) ==
    /\ Busy(t) /\ tick'[t] = Idle /\ SameTicks({t})
    /\ UNCHANGED <<worker, run, joint, wop, handed>>

Moves ==
    \/ Elsewhere \/ NewPolicy
    \/ \E t \in Ticker :
          \/ \E id \in RunID : Claims(t, id)
          \/ Prepares(t) \/ Reserves(t) \/ Refused(t) \/ Submits(t) \/ Closes(t) \/ Dies(t)

\* A row of a tick that moves on, and of the others.
LEMMA TickGoesOn ==
    ASSUME RowTypes, NEW t \in Ticker, NEW pc \in PC, tick' = [tick EXCEPT ![t].pc = pc]
    PROVE  tick'[t].pc = pc /\ GoesOn(t)
<1>1. tick \in [Ticker -> TickRow] /\ tick[t] \in TickRow
    BY DEF RowTypes
<1>2. /\ [tick[t] EXCEPT !.pc = pc].pc = pc
      /\ [tick[t] EXCEPT !.pc = pc].id = tick[t].id
      /\ [tick[t] EXCEPT !.pc = pc].step = tick[t].step
    BY <1>1, RowsChange
<1> QED
    BY <1>1, <1>2 DEF GoesOn, SameTicks

\* The same of the steps.
LEMMA StepChanges ==
    ASSUME RowTypes, NEW w \in Step,
           NEW st \in StepStatus,
           wop' = [wop EXCEPT ![w].status = st]
    PROVE  wop'[w].status = st /\ SameSteps({w}) /\ AppliedShows
<1>1. wop \in [Step -> StepRow] /\ wop[w] \in StepRow
    BY DEF RowTypes
<1>2. [wop[w] EXCEPT !.status = st].status = st
    BY <1>1, RowsChange
<1>3. [wop[w] EXCEPT !.status = st].applied = wop[w].applied
    BY <1>1 DEF StepRow
<1> QED
    BY <1>1, <1>2, <1>3 DEF SameSteps, AppliedShows

\* The step and the collaboration, when a step is handed over.
LEMMA StepHanded ==
    ASSUME RowTypes, AppliedInv, NEW w \in Step, NEW by, NEW outcome, Hands(w, by, outcome)
    PROVE  /\ wop'[w].status \in {wop[w].status, "accepted"} /\ SameSteps({w})
           /\ TakenStay /\ AppliedShows /\ (w # Receipt => Taken(w)')
<1>1. joint \in JointRow /\ joint.mine \in BOOLEAN
    BY Fields DEF RowTypes
<1>2. /\ wop'[w].status \in {wop[w].status, "accepted"}
      /\ \A x \in Step : x # w => wop'[x] = wop[x]
    BY HandsRow
<1>3. Takes(w)
    BY DEF Hands
<1>4. /\ joint'.terms = IF ~wop[w].applied /\ w[1] = "proposal" THEN 1 ELSE joint.terms
      /\ joint'.mine = (joint.mine \/ (~wop[w].applied /\ w[1] = "accept"))
    BY <1>1, <1>3 DEF Takes, JointRow
<1>5. w # Receipt => w[1] \in {"proposal", "accept"}
    BY DEF Step, Receipt
<1>6. TakenStay
    <2> SUFFICES ASSUME NEW x \in Step, Taken(x) PROVE Taken(x)'
        BY DEF TakenStay
    <2>1. CASE x[1] = "accept"
        BY <1>1, <1>4, <2>1 DEF Taken
    <2>2. CASE x[1] # "accept"
        BY <1>4, <2>2 DEF Taken
    <2> QED
        BY <2>1, <2>2
<1>7. w # Receipt => Taken(w)'
    <2>1. CASE wop[w].applied
        BY <1>6, <2>1 DEF AppliedInv, TakenStay
    <2>2. CASE ~wop[w].applied /\ w[1] = "accept"
        BY <1>1, <1>4, <2>2 DEF Taken
    <2>3. CASE ~wop[w].applied /\ w[1] = "proposal"
        <3>1. joint'.terms = 1
            BY <1>4, <2>3
        <3> QED
            BY <2>3, <3>1 DEF Taken
    <2> QED
        BY <1>5, <2>1, <2>2, <2>3
<1>8. AppliedShows
    BY <1>2, <1>7 DEF AppliedShows
<1> QED
    BY <1>2, <1>6, <1>7, <1>8 DEF SameSteps

\* The rows of the runs, when one changes.
LEMMA RunChanges ==
    ASSUME RowTypes, NEW i \in RunID
    PROVE  /\ \A st \in {"none", "running", "old", "finished"} :
                 run' = [run EXCEPT ![i].status = st] =>
                    run'[i].status = st /\ run'[i].step = run[i].step /\ SameRuns({i})
           /\ \A w \in Step :
                 run' = [run EXCEPT ![i].step = w] =>
                    run'[i].step = w /\ run'[i].status = run[i].status /\ SameRuns({i})
<1>1. run \in [RunID -> RunRow] /\ run[i] \in RunRow
    BY DEF RowTypes
<1> QED
    BY <1>1 DEF SameRuns, RunRow

\* The policy, when it changes its status.
LEMMA PolicyChanges ==
    ASSUME RowTypes, NEW st \in {"none", "pending", "active", "stopped"},
           worker' = [worker EXCEPT !.status = st]
    PROVE  SameCount /\ worker'.status = st
BY DEF RowTypes, PolicyRow, SameCount

\* A claim.
LEMMA ClaimMoves ==
    ASSUME RowTypes, PolicyInv, NEW t \in Ticker, TickClaim(t)
    PROVE  \E id \in RunID : Claims(t, id)
<1> DEFINE id == <<worker.rev, worker.runs + 1>>
<1>1. worker.rev \in Rev /\ worker.status = "active"
    BY DEF TickClaim, PolicyInv
<1>2. worker.runs \in 0..MaxRuns
    BY Fields DEF RowTypes
<1>3. id \in RunID /\ id[1] = worker.rev /\ id[2] = worker.runs + 1
    BY <1>1, <1>2, WorkerAssumption DEF TickClaim, Exhausted, RunID
<1>4. ~Busy(t) /\ \A i \in RunID : i[1] = worker.rev => ~Open(i)
    BY DEF TickClaim, Busy, Open, OpenRuns
<1>5. worker \in PolicyRow
    BY DEF RowTypes
<1>6. CASE joint.unsafe
    <2>1. /\ worker' = [worker EXCEPT !.status = "stopped", !.runs = @ + 1]
          /\ run' = [run EXCEPT ![id].status = "finished"]
          /\ UNCHANGED <<tick, joint, wop, handed>>
        BY <1>6 DEF TickClaim
    <2>2. /\ worker'.rev = worker.rev /\ worker'.runs = worker.runs + 1
          /\ worker'.sends = worker.sends /\ worker'.status = "stopped"
        BY <1>5, <2>1 DEF PolicyRow
    <2> HIDE DEF id
    <2>3. run'[id].status = "finished" /\ run'[id].step = run[id].step /\ SameRuns({id})
        BY <1>3, <2>1, RunChanges
    <2> QED
        BY <1>1, <1>3, <1>4, <2>1, <2>2, <2>3 DEF Claims
<1>7. CASE ~joint.unsafe
    <2> DEFINE row == [pc |-> Choice.pc, id |-> id, step |-> Choice.step]
    <2>1. /\ worker' = [worker EXCEPT !.runs = @ + 1]
          /\ run' = [run EXCEPT ![id].status = "running"]
          /\ tick' = [tick EXCEPT ![t] = row]
          /\ UNCHANGED <<joint, wop, handed>>
        BY <1>7 DEF TickClaim
    <2>2. /\ worker'.rev = worker.rev /\ worker'.runs = worker.runs + 1
          /\ worker'.sends = worker.sends /\ worker'.status = "active"
        BY <1>1, <1>5, <2>1 DEF PolicyRow
    <2>3. row.id = id /\ Chosen(row)
        <3>1. \/ Choice.pc \in {"waiting", "stop"}
              \/ ~Sending /\ Choice.pc = "dispatch" /\ Choice.step = Receipt
              \/ /\ ~Sending /\ Choice.pc = "prepare"
                 /\ \/ Choice.step = <<"proposal", worker.rev>> /\ joint.terms = 0
                    \/ Choice.step = <<"accept", worker.rev>> /\ ~joint.mine
            BY DEF Choice
        <3> QED
            BY <3>1 DEF Chosen, Own, Taken
    <2> HIDE DEF id, row
    <2>4. run'[id].status = "running" /\ run'[id].step = run[id].step /\ SameRuns({id})
        BY <1>3, <2>1, RunChanges
    <2>5. tick'[t] = row /\ SameTicks({t})
        BY <2>1 DEF RowTypes, SameTicks
    <2> QED
        BY <1>1, <1>3, <1>4, <2>1, <2>2, <2>3, <2>4, <2>5 DEF Claims
<1> QED
    BY <1>6, <1>7

\* A reservation.
LEMMA ReserveMoves ==
    ASSUME RowTypes, PolicyInv, TickInv, NEW t \in Ticker, TickReserve(t)
    PROVE  Reserves(t)
<1> DEFINE w == tick[t].step
           i == tick[t].id
<1>1. /\ tick[t].pc = "dispatch" /\ worker.rev = i[1]
      /\ wop[w].status = "ready" /\ run[i].step = None /\ worker.sends < MaxSends
      /\ worker' = [worker EXCEPT !.sends = @ + 1]
      /\ run' = [run EXCEPT ![i].step = w]
      /\ joint' = joint /\ handed' = handed
      /\ \/ /\ wop' = wop /\ tick' = [tick EXCEPT ![t].pc = "stop"]
            /\ w # Receipt /\ task.used >= MaxActions
         \/ wop' = [wop EXCEPT ![w].status = "sending"] /\ tick' = [tick EXCEPT ![t].pc = "submit"]
    BY DEF TickReserve, InContext, Active
<1>2. w \in Step /\ i \in RunID
    BY <1>1, Fields DEF RowTypes, TickInv, Busy
<1>3. /\ worker'.rev = worker.rev /\ worker'.runs = worker.runs
      /\ worker'.status = worker.status /\ worker'.sends = worker.sends + 1
    BY <1>1 DEF RowTypes, PolicyRow
<1>4. /\ run'[i].step = w /\ run'[i].status = run[i].status /\ SameRuns({i})
    BY <1>1, <1>2, RunChanges
<1>5. /\ GoesOn(t) /\ AppliedShows
      /\ \/ tick'[t].pc = "stop" /\ wop' = wop /\ w # Receipt /\ task.used >= MaxActions
         \/ tick'[t].pc = "submit" /\ wop'[w].status = "sending" /\ SameSteps({w})
    <2> HIDE DEF w, i
    <2>1. "stop" \in PC /\ "submit" \in PC /\ "sending" \in StepStatus
        BY DEF PC, StepStatus
    <2>2. wop' = wop => AppliedShows
        BY DEF AppliedShows
    <2> QED
        BY <1>1, <1>2, <2>1, <2>2, TickGoesOn, StepChanges
<1> QED
    BY <1>1, <1>3, <1>4, <1>5 DEF Reserves

\* A submission by a run.
LEMMA SubmitMoves ==
    ASSUME RowTypes, AppliedInv, NEW t \in Ticker, NEW outcome, TickSubmit(t, outcome)
    PROVE  Submits(t)
<1> DEFINE w == tick[t].step
           i == tick[t].id
<1>1. /\ tick[t].pc = "submit" /\ worker.rev = i[1] /\ Hands(w, i, outcome)
      /\ \E pc \in {"sent", "stop"} : tick' = [tick EXCEPT ![t].pc = pc]
      /\ UNCHANGED <<worker, run>>
    BY DEF TickSubmit, InContext, Active
<1>2. w \in Step
    BY Fields DEF RowTypes
<1>3. handed' = IF outcome = "failed" THEN handed ELSE handed \cup {<<w, i>>}
    BY <1>1 DEF Hands
<1> HIDE DEF w, i
<1>4. tick'[t].pc \in {"sent", "stop"} /\ GoesOn(t)
    <2>1. "stop" \in PC /\ "sent" \in PC
        BY DEF PC
    <2> QED
        BY <1>1, <2>1, TickGoesOn
<1>5. \A x \in Step : Hands(x, i, outcome) =>
         /\ wop'[x].status \in {wop[x].status, "accepted"} /\ SameSteps({x})
         /\ TakenStay /\ AppliedShows /\ (x # Receipt => Taken(x)')
    BY StepHanded
<1>6. /\ wop'[w].status \in {wop[w].status, "accepted"} /\ SameSteps({w})
      /\ TakenStay /\ AppliedShows /\ \A x \in Step : x = w /\ w # Receipt => Taken(x)'
    BY <1>1, <1>2, <1>5
<1>7. handed \subseteq handed' /\ handed' \subseteq handed \cup {<<w, i>>}
    BY <1>3
<1> QED
    BY <1>1, <1>4, <1>5, <1>6, <1>7 DEF Submits, w, i

\* The last transaction of a run.
LEMMA CloseMoves ==
    ASSUME RowTypes, TickInv, NEW t \in Ticker, TickFinish(t) \/ TickFails(t)
    PROVE  Closes(t)
<1>1. /\ Busy(t) /\ \E pause \in BOOLEAN : /\ Close(t, pause)
                                           /\ tick[t].pc \notin {"waiting", "sent"} => pause
    BY DEF TickFinish, TickFails, Busy
<1>2. PICK pause \in BOOLEAN : Close(t, pause) /\ (tick[t].pc \notin {"waiting", "sent"} => pause)
    BY <1>1
<1>3. tick[t].id \in RunID
    BY <1>1 DEF TickInv
<1>4. /\ run' = [run EXCEPT ![tick[t].id].status = "finished"]
      /\ tick' = [tick EXCEPT ![t] = Idle] /\ UNCHANGED <<joint, wop, handed>>
    BY <1>2 DEF Close
<1>5. tick'[t] = Idle /\ SameTicks({t})
    BY <1>4 DEF RowTypes, SameTicks
<1>6. /\ run'[tick[t].id].status = "finished" /\ run'[tick[t].id].step = run[tick[t].id].step
      /\ SameRuns({tick[t].id})
    BY <1>3, <1>4, RunChanges
<1>7. /\ SameCount /\ worker'.status \in {worker.status, "stopped"}
      /\ tick[t].pc \notin {"waiting", "sent"} /\ worker.rev = tick[t].id[1] =>
            worker'.status # "active"
    <2>1. CASE pause /\ worker.rev = tick[t].id[1] /\ worker.status = "active"
        <3>1. worker' = [worker EXCEPT !.status = "stopped"]
            BY <1>2, <2>1 DEF Close
        <3> QED
            BY <3>1, PolicyChanges
    <2>2. CASE ~(pause /\ worker.rev = tick[t].id[1] /\ worker.status = "active")
        <3>1. worker' = worker
            BY <1>2, <2>2 DEF Close
        <3> QED
            BY <1>2, <2>2, <3>1 DEF SameCount
    <2> QED
        BY <2>1, <2>2
<1> QED
    BY <1>1, <1>4, <1>5, <1>6, <1>7 DEF Closes

\* What a tick does.
LEMMA TickDoes ==
    ASSUME RowTypes, PolicyInv, TickInv, AppliedInv, NEW t \in Ticker, TickStep(t) \/ Crash(t)
    PROVE  Moves
<1>1. CASE TickClaim(t)
    BY <1>1, ClaimMoves DEF Moves
<1>2. ASSUME NEW verdict, TickPrepare(t, verdict) PROVE Moves
    <2> DEFINE w == tick[t].step
    <2>1. PICK st \in {"ready", "asked"}, pc \in {"dispatch", "stop"} :
            /\ tick[t].pc = "prepare" /\ tick' = [tick EXCEPT ![t].pc = pc]
            /\ wop' = [wop EXCEPT ![w] = [status |-> st, applied |-> FALSE, context |-> Context]]
            /\ UNCHANGED <<worker, run, joint, handed>>
        BY <1>2 DEF TickPrepare
    <2>2. w \in Step /\ pc \in PC
        BY Fields DEF RowTypes, PC
    <2> HIDE DEF w
    <2>3. wop'[w].status = st /\ ~wop'[w].applied /\ \A x \in Step \ {w} : wop'[x] = wop[x]
        BY <2>1, <2>2 DEF RowTypes
    <2>4. SameSteps({w}) /\ AppliedShows
        BY <2>3 DEF SameSteps, AppliedShows
    <2>5. tick'[t].pc = pc /\ GoesOn(t)
        BY <2>1, <2>2, TickGoesOn
    <2> QED
        BY <2>1, <2>3, <2>4, <2>5 DEF Moves, Prepares, w
<1>3. CASE TickReserve(t)
    BY <1>3, ReserveMoves DEF Moves
<1>4. CASE TickRefused(t)
    <2>1. /\ tick[t].pc \in {"dispatch", "submit"}
          /\ \/ tick' = [tick EXCEPT ![t].pc = "sent"] /\ wop[tick[t].step].status = "accepted"
             \/ tick' = [tick EXCEPT ![t].pc = "stop"]
          /\ UNCHANGED <<worker, run, joint, wop, handed>>
        BY <1>4 DEF TickRefused
    <2>2. "sent" \in PC /\ "stop" \in PC
        BY DEF PC
    <2> QED
        BY <2>1, <2>2, TickGoesOn DEF Moves, Refused
<1>5. ASSUME NEW outcome, TickSubmit(t, outcome) PROVE Moves
    BY <1>5, SubmitMoves DEF Moves
<1>6. CASE TickFinish(t) \/ TickFails(t)
    BY <1>6, CloseMoves DEF Moves
<1>7. CASE Crash(t)
    <2>1. Busy(t) /\ tick' = [tick EXCEPT ![t] = Idle] /\ UNCHANGED <<worker, run, joint, wop, handed>>
        BY <1>7 DEF Crash, Busy
    <2>2. tick'[t] = Idle /\ SameTicks({t})
        BY <2>1 DEF RowTypes, SameTicks
    <2> QED
        BY <2>1, <2>2 DEF Moves, Dies
<1> QED
    BY <1>1, <1>2, <1>3, <1>4, <1>5, <1>6, <1>7 DEF TickStep

\* What the rest of the system does.
LEMMA ElsewhereDoes ==
    ASSUME RowTypes, PolicyInv, UNCHANGED <<run, tick, joint, wop, handed>>, SameCount,
           \/ worker'.status \in {worker.status, "stopped"}
           \/ worker.status = "pending" /\ worker'.status = "active"
    PROVE  Elsewhere
BY DEF Elsewhere, TakenStay, Taken, AppliedShows, SameHanded, Open

\* Every step of the whole is one of these.
LEMMA NextMoves ==
    ASSUME TypeInv, TickInv, AppliedInv, StuckInv, [Next]_vars
    PROVE  Moves
<1>1. RowTypes /\ PolicyInv
    BY WorkerTypes DEF TypeInv, TypeOK
<1>2. CASE UNCHANGED workerVars
    BY <1>1, <1>2, ElsewhereDoes DEF workerVars, SameCount, Moves
<1>3. CASE Decision
    <2>1. ASSUME NEW a, NEW decided \in BOOLEAN, NEW d, Decides(a, decided, d) PROVE Moves
        <3>1. UNCHANGED <<run, tick, joint, wop, handed>>
            BY <2>1 DEF Decides, Effect
        <3>2. \/ worker' = worker
              \/ /\ worker.status = "pending"
                 /\ \E st \in {"active", "stopped"} : worker' = [worker EXCEPT !.status = st]
            <4>1. CASE decided /\ \E k \in Rev : a = PolicyApproval(k)
                <5>1. Current(a)
                    BY <2>1, <4>1 DEF Decides
                <5>2. a # TheTask /\ \A o \in Op : a # OpApproval(o)
                    BY <4>1, Kinds
                <5>3. worker.status = "pending"
                    BY <5>1, <5>2 DEF Current, ApprovalCurrent
                <5> QED
                    BY <2>1, <4>1, <5>3 DEF Decides, Effect
            <4>2. CASE ~(decided /\ \E k \in Rev : a = PolicyApproval(k))
                BY <2>1, <4>2 DEF Decides, Effect
            <4> QED
                BY <4>1, <4>2
        <3>3. SameCount
            BY <1>1, <3>2, PolicyChanges DEF SameCount
        <3>4. \/ worker'.status \in {worker.status, "stopped"}
              \/ worker.status = "pending" /\ worker'.status = "active"
            BY <1>1, <3>2, PolicyChanges
        <3> QED
            BY <1>1, <3>1, <3>3, <3>4, ElsewhereDoes DEF Moves
    <2> QED
        BY <1>2, <1>3, <2>1, DecisionCases
<1>4. CASE PreparePolicy
    <2>1. worker.rev \in 0..MaxRevs
        BY <1>1, Fields DEF RowTypes
    <2>2. worker.rev + 1 \in Rev
        BY <1>4, <2>1, WorkerAssumption DEF PreparePolicy, Rev
    <2> QED
        BY <1>4, <2>2 DEF PreparePolicy, NewPolicy, Moves
<1>5. CASE Pause \/ TickStops
    <2>1. /\ worker' = [worker EXCEPT !.status = "stopped"]
          /\ UNCHANGED <<run, tick, joint, wop, handed>>
        BY <1>5 DEF Pause, TickStops
    <2>2. SameCount /\ worker'.status = "stopped"
        BY <1>1, <2>1, PolicyChanges
    <2> QED
        BY <1>1, <2>1, <2>2, ElsewhereDoes DEF Moves
<1>6. CASE PeerActs
    <2>1. UNCHANGED <<worker, run, tick, handed>>
        BY <1>6 DEF PeerActs
    <2>2. TakenStay
        <3>1. joint \in JointRow /\ joint.terms \in 0..2
            BY <1>1, Fields DEF RowTypes
        <3>2. joint'.mine = joint.mine /\ (joint'.terms = joint.terms \/ joint'.terms = joint.terms + 1)
            BY <1>6, <3>1 DEF PeerActs, PeerTerms, PeerAgrees, PeerAsks, PeerCloses, JointRow
        <3> QED
            BY <3>1, <3>2 DEF TakenStay, Taken
    <2>3. /\ AppliedShows
          /\ \A w \in Step : \/ wop'[w].status = wop[w].status
                             \/ w = Receipt /\ wop[w].status = "none" /\ wop'[w].status = "ready"
        <3>1. \/ wop' = wop
              \/ wop' = [wop EXCEPT ![Receipt].status = IF @ = "none" THEN "ready" ELSE @]
              \/ wop' = [wop EXCEPT ![Receipt].status = "ready"] /\ wop[Receipt].status = "none"
            BY <1>6 DEF PeerActs, PeerTerms, PeerAgrees, PeerAsks, PeerCloses
        <3>2. wop[Receipt].status \in StepStatus /\ "ready" \in StepStatus
            BY <1>1, ReceiptIsStep DEF RowTypes, StepRow, StepStatus
        <3>3. wop' = wop => AppliedShows
            BY DEF AppliedShows
        <3> QED
            BY <1>1, <3>1, <3>2, <3>3, StepChanges, ReceiptIsStep DEF SameSteps
    <2> QED
        BY <2>1, <2>2, <2>3 DEF Moves, Elsewhere, SameCount, SameHanded, Open
<1>7. ASSUME NEW i \in RunID, Age(i) PROVE Moves
    <2>1. /\ run[i].status = "running" /\ run' = [run EXCEPT ![i].status = "old"]
          /\ UNCHANGED <<worker, tick, joint, wop, handed>>
        BY <1>7 DEF Age
    <2>2. run'[i].status = "old" /\ run'[i].step = run[i].step /\ SameRuns({i})
        BY <1>1, <2>1, RunChanges
    <2> QED
        BY <2>1, <2>2
        DEF Moves, Elsewhere, SameCount, SameHanded, SameRuns, TakenStay, Taken, AppliedShows, Open
<1>8. ASSUME NEW w \in Step, NEW outcome, OwnerSends(w, outcome) PROVE Moves
    <2>1. /\ wop[w].status = "sending" /\ Hands(w, ByOwner, outcome) /\ UNCHANGED <<worker, run, tick>>
          /\ handed' = IF outcome = "failed" THEN handed ELSE handed \cup {<<w, ByOwner>>}
        BY <1>8 DEF OwnerSends, Hands
    <2>2. /\ wop'[w].status \in {wop[w].status, "accepted"} /\ SameSteps({w})
          /\ TakenStay /\ AppliedShows /\ (w # Receipt => Taken(w)')
        BY <1>1, <2>1, StepHanded
    <2>3. \A x \in Step : x = w /\ x # Receipt => Taken(x)'
        BY <2>2 DEF Taken
    <2>4. SameHanded
        <3>1. ByOwner \notin RunID
            BY DEF ByOwner, RunID, Rev
        <3> QED
            BY <2>1, <3>1 DEF SameHanded
    <2> QED
        BY <2>1, <2>2, <2>3, <2>4 DEF Moves, Elsewhere, SameCount, SameSteps, Open
<1>11. ASSUME NEW w \in Step, NEW answer, OwnerAnswers(w, answer) PROVE Moves
    <2>1. PICK st \in {"ready", "denied"} :
            /\ wop[w].status = "asked" /\ wop' = [wop EXCEPT ![w].status = st]
            /\ UNCHANGED <<worker, run, tick, joint, handed>>
        BY <1>11 DEF OwnerAnswers
    <2>2. wop'[w].status = st /\ SameSteps({w}) /\ AppliedShows
        <3>1. st \in StepStatus
            BY DEF StepStatus
        <3> QED
            BY <1>1, <2>1, <3>1, StepChanges
    <2> QED
        BY <2>1, <2>2
        DEF Moves, Elsewhere, SameCount, SameHanded, SameSteps, TakenStay, Taken, Open
<1>12. ASSUME NEW w \in Step, OwnerReserves(w) PROVE Moves
    <2>1. /\ wop[w].status = "ready" /\ wop' = [wop EXCEPT ![w].status = "sending"]
          /\ w # Receipt => task.used < MaxActions
          /\ UNCHANGED <<worker, run, tick, joint, handed>>
        BY <1>12 DEF OwnerReserves
    <2>2. wop'[w].status = "sending" /\ SameSteps({w}) /\ AppliedShows
        BY <1>1, <2>1, StepChanges DEF StepStatus
    <2>3. \A i \in RunID : run[i].step # w
        <3>1. task.used \in Nat /\ MaxActions \in Nat
            BY UsedGrows, DelegationAssumption
        <3> QED
            BY <2>1, <3>1 DEF StuckInv
    <2> QED
        BY <2>1, <2>2, <2>3
        DEF Moves, Elsewhere, SameCount, SameHanded, SameSteps, TakenStay, Taken, Open
<1>9. ASSUME NEW r \in Recipient, BlockPeer(r) PROVE Moves
    <2>1. /\ worker' = worker \/ worker' = [worker EXCEPT !.status = "stopped"]
          /\ joint' = [joint EXCEPT !.unsafe = joint.unsafe \/ r = Peer]
          /\ UNCHANGED <<run, tick, handed>>
          /\ \A x \in Step : \/ wop'[x] = wop[x]
                             \/ /\ wop[x].status \in {"asked", "ready", "sending"}
                                /\ wop'[x] = [wop[x] EXCEPT !.status = "denied"]
        BY <1>9 DEF BlockPeer
    <2>2. TakenStay
        BY <1>1, <2>1 DEF TakenStay, Taken, RowTypes, JointRow
    <2>3. /\ \A x \in Step : \/ wop'[x].status = wop[x].status
                             \/ wop[x].status # "none" /\ wop'[x].status = "denied"
          /\ AppliedShows
        <3>1. \A x \in Step : /\ [wop[x] EXCEPT !.status = "denied"].status = "denied"
                              /\ [wop[x] EXCEPT !.status = "denied"].applied = wop[x].applied
            BY <1>1 DEF RowTypes, StepRow
        <3> QED
            BY <2>1, <3>1 DEF AppliedShows
    <2>4. SameCount /\ worker'.status \in {worker.status, "stopped"}
        <3>1. CASE worker' = worker
            BY <3>1 DEF SameCount
        <3>2. CASE worker' = [worker EXCEPT !.status = "stopped"]
            BY <1>1, <3>2, PolicyChanges
        <3> QED
            BY <2>1, <3>1, <3>2
    <2> QED
        BY <2>1, <2>2, <2>3, <2>4 DEF Moves, Elsewhere, SameHanded, Open
<1>10. CASE Work
    BY <1>1, <1>4, <1>5, <1>6, <1>7, <1>8, <1>10, <1>11, <1>12, TickDoes DEF Work
<1> QED
    BY <1>2, <1>3, <1>9, <1>10 DEF Next, Operation, workerVars, vars

-----------------------------------------------------------------------------
(* The invariant is kept.                                                   *)

\* Runs of the policy and steps of a row, and the idle tick.
LEMMA Rows ==
    ASSUME RowTypes
    PROVE  /\ \A t \in Ticker : tick[t].step \in Step
           /\ Idle.pc = "idle" /\ ~Idle.pc \in {"prepare", "dispatch", "submit"}
           /\ worker.rev \in Nat /\ worker.runs \in Nat /\ worker.sends \in 0..MaxSends
           /\ \A i \in RunID : i[1] \in Rev /\ i[1] \in Nat /\ i[2] \in Nat /\ i[2] > 0
           /\ \A k \in Rev : k \in Nat /\ Own(k) \subseteq Step /\ Receipt \notin Own(k)
           /\ \A j, k \in Rev : \A w \in Own(j) \cap Own(k) : j = k
<1>1. \A t \in Ticker : tick[t].step \in Step
    BY Fields DEF RowTypes
<1>2. Idle.pc = "idle"
    BY DEF Idle
<1>3. worker.rev \in Nat /\ worker.runs \in Nat /\ worker.sends \in 0..MaxSends
    BY Fields, WorkerAssumption DEF RowTypes
<1>4. \A i \in RunID : i[1] \in Rev /\ i[1] \in Nat /\ i[2] \in Nat /\ i[2] > 0
    BY WorkerAssumption DEF RunID, Rev
<1>5. \A k \in Rev : k \in Nat /\ Own(k) \subseteq Step /\ Receipt \notin Own(k)
    BY WorkerAssumption DEF Rev, Own, Step, Receipt
<1>6. \A j, k \in Rev : \A w \in Own(j) \cap Own(k) : j = k
    BY DEF Own
<1> QED
    BY <1>1, <1>2, <1>3, <1>4, <1>5, <1>6

\* A tick under way keeps its run to itself, and the run open.
LEMMA TickInvStep ==
    ASSUME RowTypes, TickInv, FutureInv, Moves
    PROVE  TickInv'
<1>1. CASE Elsewhere
    BY <1>1 DEF Elsewhere, TickInv, Busy, Sendable
<1>2. CASE NewPolicy
    BY <1>2 DEF NewPolicy, TickInv, Busy, Sendable, Open
<1>3. ASSUME NEW t \in Ticker, NEW id \in RunID, Claims(t, id) PROVE TickInv'
    <2>1. \A u \in Ticker : Busy(u) => tick[u].id # id /\ u # t
        BY <1>3, Rows DEF Claims, TickInv, FutureInv, Later, Open
    <2>2. \A i \in RunID \ {id} : Open(i)' <=> Open(i)
        BY <1>3 DEF Claims, SameRuns, Open
    <2>3. CASE tick' = tick
        BY <2>1, <2>2, <2>3 DEF TickInv, Busy, Sendable
    <2>4. CASE run'[id].status = "running" /\ SameTicks({t}) /\ tick'[t].id = id /\ Chosen(tick'[t])
        <3>1. Open(id)'
            BY <2>4 DEF Open
        <3>2. Sendable(t)' => tick'[t].step \in {Receipt} \cup Own(id[1])
            BY <1>3, <2>4 DEF Claims, Chosen, Sendable
        <3> QED
            BY <2>1, <2>2, <2>4, <3>1, <3>2 DEF TickInv, Busy, Sendable, SameTicks
    <2> QED
        BY <1>3, <2>3, <2>4 DEF Claims
<1>4. ASSUME NEW t \in Ticker, Busy(t), Sendable(t), GoesOn(t), \A i \in RunID : Open(i)' <=> Open(i)
      PROVE  TickInv'
    BY <1>4 DEF TickInv, Busy, Sendable, GoesOn, SameTicks
<1>5. ASSUME NEW t \in Ticker, Prepares(t) \/ Refused(t) \/ Submits(t) PROVE TickInv'
    BY <1>4, <1>5 DEF Prepares, Refused, Submits, Busy, Sendable, Open
<1>6. ASSUME NEW t \in Ticker, Reserves(t) PROVE TickInv'
    <2>1. \A i \in RunID : Open(i)' <=> Open(i)
        BY <1>6 DEF Reserves, SameRuns, Open
    <2> QED
        BY <1>4, <1>6, <2>1 DEF Reserves, Busy, Sendable
<1>7. ASSUME NEW t \in Ticker, Closes(t) \/ Dies(t) PROVE TickInv'
    <2>1. \A i \in RunID \ {tick[t].id} : Open(i)' <=> Open(i)
        BY <1>7 DEF Closes, Dies, SameRuns, Open
    <2>2. tick'[t] = Idle /\ SameTicks({t}) /\ Busy(t)
        BY <1>7 DEF Closes, Dies
    <2> QED
        BY <2>1, <2>2, Rows DEF TickInv, Busy, Sendable, SameTicks
<1> QED
    BY <1>1, <1>2, <1>3, <1>5, <1>6, <1>7 DEF Moves

\* A policy has one open run.
LEMMA OpenInvStep ==
    ASSUME RowTypes, TickInv, OpenInv, Moves
    PROVE  OpenInv'
<1>1. CASE Elsewhere \/ NewPolicy
    BY <1>1 DEF Elsewhere, NewPolicy, OpenInv, Open
<1>2. ASSUME NEW t \in Ticker, NEW id \in RunID, Claims(t, id) PROVE OpenInv'
    BY <1>2 DEF Claims, SameRuns, OpenInv, Open
<1>3. ASSUME NEW t \in Ticker, Prepares(t) \/ Refused(t) \/ Submits(t) \/ Dies(t) PROVE OpenInv'
    BY <1>3 DEF Prepares, Refused, Submits, Dies, OpenInv, Open
<1>4. ASSUME NEW t \in Ticker, Reserves(t) \/ Closes(t) PROVE OpenInv'
    BY <1>4 DEF Reserves, Closes, SameRuns, OpenInv, Open
<1> QED
    BY <1>1, <1>2, <1>3, <1>4 DEF Moves

\* Nothing is there of runs and policies to come.
LEMMA FutureInvStep ==
    ASSUME RowTypes, TickInv, FutureInv, Moves
    PROVE  FutureInv'
<1>r. /\ worker.rev \in Nat /\ worker.runs \in Nat
      /\ \A i \in RunID : i[1] \in Rev /\ i[1] \in Nat /\ i[2] \in Nat /\ i[2] > 0
      /\ \A k \in Rev : k \in Nat /\ Own(k) \subseteq Step /\ Receipt \notin Own(k)
    BY Rows
<1>o. \A t \in Ticker : Busy(t) => ~Later(tick[t].id) /\ ~Unasked(tick[t].id[1])
    BY <1>r DEF TickInv, FutureInv, Open, Later, Unasked
<1>1. CASE Elsewhere
    <2>1. \A i : Later(i)' <=> Later(i)
        BY <1>1 DEF Elsewhere, SameCount, Later
    <2>2. \A k : Unasked(k)' => Unasked(k)
        BY <1>1 DEF Elsewhere, SameCount, Unasked
    <2>3. \A k \in Rev : \A w \in Own(k) : wop[w].status = "none" => wop'[w].status = "none"
        BY <1>1, <1>r DEF Elsewhere
    <2> QED
        BY <1>1, <2>1, <2>2, <2>3 DEF Elsewhere, SameCount, FutureInv
<1>2. CASE NewPolicy
    <2>1. worker'.rev = worker.rev + 1 /\ worker'.status = "pending" /\ worker'.runs = 0
        BY <1>2 DEF NewPolicy
    <2> QED
        BY <1>2, <1>r, <2>1 DEF NewPolicy, FutureInv, Later, Unasked
<1>3. ASSUME NEW t \in Ticker, NEW id \in RunID, Claims(t, id) PROVE FutureInv'
    BY <1>3, <1>r DEF Claims, SameRuns, FutureInv, Later, Unasked
<1>4. ASSUME NEW t \in Ticker, Busy(t), SameRuns({tick[t].id}), SameCount,
             worker'.status = "pending" => worker.status = "pending",
             \A k \in Rev : Unasked(k) => \A w \in Own(k) : wop'[w].status = wop[w].status
      PROVE  FutureInv'
    BY <1>4, <1>o DEF SameRuns, SameCount, FutureInv, Later, Unasked
<1>5. ASSUME NEW t \in Ticker, Prepares(t) \/ Reserves(t) \/ Submits(t) PROVE FutureInv'
    <2>1. Busy(t) /\ Sendable(t) /\ SameSteps({tick[t].step})
        BY <1>5 DEF Prepares, Reserves, Submits, SameSteps, Busy, Sendable
    <2>2. tick[t].id \in RunID /\ tick[t].step \in {Receipt} \cup Own(tick[t].id[1])
        BY <2>1 DEF TickInv
    <2>3. ASSUME NEW k \in Rev, Unasked(k), NEW w \in Own(k) PROVE wop'[w].status = wop[w].status
        <3>1. tick[t].id[1] \in Rev /\ tick[t].id[1] # k
            BY <1>o, <1>r, <2>1, <2>2, <2>3
        <3>2. w # tick[t].step
            BY <1>r, <2>2, <2>3, <3>1, Rows
        <3> QED
            BY <1>r, <2>1, <2>3, <3>2 DEF SameSteps
    <2>4. /\ worker'.rev = worker.rev /\ worker'.runs = worker.runs /\ worker'.status = worker.status
          /\ SameRuns({tick[t].id})
        BY <1>5 DEF Prepares, Reserves, Submits, SameRuns
    <2> QED
        BY <1>o, <2>1, <2>3, <2>4 DEF SameRuns, FutureInv, Later, Unasked
<1>6. ASSUME NEW t \in Ticker, Refused(t) \/ Closes(t) \/ Dies(t) PROVE FutureInv'
    BY <1>4, <1>6 DEF Refused, Closes, Dies, SameRuns, SameCount, Busy
<1> QED
    BY <1>1, <1>2, <1>3, <1>5, <1>6 DEF Moves

\* What a run hands over is the step it reserved.
LEMMA ReservedInvStep ==
    ASSUME RowTypes, TickInv, ReservedInv, Moves
    PROVE  ReservedInv'
<1>1. CASE Elsewhere
    BY <1>1 DEF Elsewhere, SameHanded, TickInv, ReservedInv, Busy
<1>2. CASE NewPolicy
    BY <1>2 DEF NewPolicy, ReservedInv
<1>3. ASSUME NEW t \in Ticker, NEW id \in RunID, Claims(t, id) PROVE ReservedInv'
    <2>1. \A i \in RunID : run'[i].step = run[i].step
        BY <1>3 DEF Claims, SameRuns
    <2>2. \A u \in Ticker : tick'[u].pc = "submit" => tick'[u] = tick[u]
        BY <1>3 DEF Claims, Chosen, SameTicks
    <2> QED
        BY <1>3, <2>1, <2>2 DEF Claims, ReservedInv, TickInv, Busy
<1>4. ASSUME NEW t \in Ticker, Prepares(t) \/ Refused(t) \/ Dies(t) PROVE ReservedInv'
    <2>1. run' = run /\ handed' = handed /\ SameTicks({t}) /\ tick'[t].pc # "submit"
        BY <1>4, Rows DEF Prepares, Refused, Dies, GoesOn
    <2> QED
        BY <2>1 DEF SameTicks, ReservedInv
<1>5. ASSUME NEW t \in Ticker, Closes(t) PROVE ReservedInv'
    <2>1. handed' = handed /\ SameTicks({t}) /\ tick'[t].pc # "submit"
        BY <1>5, Rows DEF Closes
    <2>2. \A i \in RunID : run'[i].step = run[i].step
        BY <1>5 DEF Closes, SameRuns
    <2> QED
        BY <2>1, <2>2 DEF SameTicks, ReservedInv, TickInv, Busy
<1>6. ASSUME NEW t \in Ticker, Reserves(t) PROVE ReservedInv'
    <2>1. tick[t].id \in RunID /\ tick[t].step \in Step /\ None \notin Step
        BY <1>6, Rows, WorkerAssumption DEF Reserves, TickInv, Busy
    <2>2. \A u \in Ticker \ {t} : tick[u].pc = "submit" => tick[u].id \in RunID \ {tick[t].id}
        BY <1>6 DEF Reserves, TickInv, Busy
    <2>3. \A i \in RunID \ {tick[t].id} : run'[i].step = run[i].step
        BY <1>6 DEF Reserves, SameRuns
    <2>4. \A w \in Step : <<w, tick[t].id>> \notin handed
        BY <1>6, <2>1 DEF Reserves, ReservedInv
    <2> QED
        BY <1>6, <2>1, <2>2, <2>3, <2>4 DEF Reserves, GoesOn, SameTicks, ReservedInv
<1>7. ASSUME NEW t \in Ticker, Submits(t) PROVE ReservedInv'
    BY <1>7 DEF Submits, GoesOn, SameTicks, ReservedInv
<1> QED
    BY <1>1, <1>2, <1>3, <1>4, <1>5, <1>6, <1>7 DEF Moves

\* A step is handed over by one run.
LEMMA HandsInvStep ==
    ASSUME RowTypes, TickInv, BegunInv, HandsInv, Moves
    PROVE  HandsInv'
<1> SUFFICES ASSUME NEW w \in Step
             PROVE  /\ \A i, j \in RunID : HandsOver(w, i)' /\ HandsOver(w, j)' => i = j
                    /\ wop'[w].status \in Unsent => \A i \in RunID : ~HandsOver(w, i)'
    BY DEF HandsInv
<1> DEFINE Goal == /\ \A i, j \in RunID : HandsOver(w, i)' /\ HandsOver(w, j)' => i = j
                   /\ wop'[w].status \in Unsent => \A i \in RunID : ~HandsOver(w, i)'
<1>1. ASSUME \A i \in RunID : HandsOver(w, i)' => HandsOver(w, i),
             wop'[w].status \in Unsent => wop[w].status \in Unsent
      PROVE  Goal
    BY <1>1 DEF HandsInv
<1>2. CASE Elsewhere
    BY <1>1, <1>2 DEF Elsewhere, SameHanded, HandsOver, Unsent
<1>3. CASE NewPolicy
    BY <1>1, <1>3 DEF NewPolicy, HandsOver
<1>4. ASSUME NEW t \in Ticker, NEW id \in RunID, Claims(t, id) PROVE Goal
    <2>1. \A u \in Ticker : tick'[u].pc = "submit" => tick'[u] = tick[u]
        BY <1>4 DEF Claims, Chosen, SameTicks
    <2> QED
        BY <1>1, <1>4, <2>1 DEF Claims, HandsOver
<1>5. ASSUME NEW t \in Ticker, handed' = handed, SameTicks({t}), tick'[t].pc # "submit"
      PROVE  \A i \in RunID : HandsOver(w, i)' => HandsOver(w, i)
    BY <1>5 DEF SameTicks, HandsOver
<1>6. ASSUME NEW t \in Ticker, Refused(t) \/ Closes(t) \/ Dies(t) PROVE Goal
    <2>1. /\ handed' = handed /\ SameTicks({t}) /\ tick'[t].pc # "submit" /\ wop' = wop
        BY <1>6, Rows DEF Refused, Closes, Dies, GoesOn
    <2> QED
        BY <1>1, <1>5, <2>1
<1>7. ASSUME NEW t \in Ticker, Prepares(t) PROVE Goal
    <2>1. handed' = handed /\ SameTicks({t}) /\ tick'[t].pc # "submit"
        BY <1>7 DEF Prepares, GoesOn
    <2>2. wop'[w].status = wop[w].status \/ wop[w].status = "none"
        BY <1>7 DEF Prepares, SameSteps, BegunInv
    <2> QED
        BY <1>1, <1>5, <2>1, <2>2 DEF Unsent
<1>8. ASSUME NEW t \in Ticker, Reserves(t) PROVE Goal
    <2>1. handed' = handed /\ SameTicks({t}) /\ tick'[t].step = tick[t].step /\ tick'[t].id = tick[t].id
        BY <1>8 DEF Reserves, GoesOn
    <2>2. CASE tick[t].step # w \/ tick'[t].pc # "submit"
        <3>1. \A i \in RunID : HandsOver(w, i)' => HandsOver(w, i)
            BY <2>1, <2>2 DEF SameTicks, HandsOver
        <3>2. wop'[w].status = wop[w].status
            BY <1>8, <2>2 DEF Reserves, SameSteps
        <3> QED
            BY <1>1, <3>1, <3>2
    <2>3. CASE tick[t].step = w /\ tick'[t].pc = "submit"
        <3>1. wop[w].status = "ready" /\ wop'[w].status = "sending"
            BY <1>8, <2>3 DEF Reserves
        <3>2. \A i \in RunID : ~HandsOver(w, i)
            BY <3>1 DEF HandsInv, Unsent
        <3>3. \A i \in RunID : HandsOver(w, i)' => i = tick[t].id
            BY <2>1, <3>2 DEF SameTicks, HandsOver
        <3> QED
            BY <3>1, <3>3 DEF Unsent
    <2> QED
        BY <2>2, <2>3
<1>9. ASSUME NEW t \in Ticker, Submits(t) PROVE Goal
    <2>1. \A i \in RunID : HandsOver(w, i)' => HandsOver(w, i)
        BY <1>9 DEF Submits, GoesOn, SameTicks, HandsOver
    <2>2. wop'[w].status \in Unsent => wop'[w].status = wop[w].status
        BY <1>9 DEF Submits, SameSteps, Unsent
    <2> QED
        BY <1>1, <2>1, <2>2
<1> QED
    BY <1>2, <1>3, <1>4, <1>6, <1>7, <1>8, <1>9 DEF Moves

\* What has been applied shows.
LEMMA AppliedInvStep ==
    ASSUME AppliedInv, Moves
    PROVE  AppliedInv'
<1>1. ASSUME TakenStay, AppliedShows PROVE AppliedInv'
    BY <1>1 DEF TakenStay, AppliedShows, AppliedInv
<1>2. ASSUME joint' = joint PROVE TakenStay
    BY <1>2 DEF TakenStay, Taken
<1>3. ASSUME wop' = wop PROVE AppliedShows
    BY <1>3 DEF AppliedShows
<1>4. TakenStay /\ AppliedShows
    BY <1>2, <1>3
    DEF Moves, Elsewhere, NewPolicy, Claims, Prepares, Reserves, Refused, Submits, Closes, Dies
<1> QED
    BY <1>1, <1>4

\* A reserved step has been submitted, or there was no action left for it.
LEMMA StuckInvStep ==
    ASSUME RowTypes, TickInv, BegunInv, StuckInv, Moves,
           task.used \in Nat, task'.used \in Nat, task.used <= task'.used, MaxActions \in Nat
    PROVE  StuckInv'
<1> DEFINE Stuck(w) == /\ wop[w].status \notin {"none", "asked"}
                       /\ wop[w].status = "ready" => w # Receipt /\ task.used >= MaxActions
           Further(w) == /\ wop'[w].status \notin {"none", "asked"}
                         /\ wop'[w].status = "ready" => w # Receipt /\ task'.used >= MaxActions
<1>1. \A i \in RunID : run[i].step \in Step => Stuck(run[i].step)
    BY DEF StuckInv
<1>2. ASSUME NEW w \in Step, Stuck(w), wop'[w].status \notin {"none", "asked"},
             wop'[w].status = "ready" => wop[w].status = "ready"
      PROVE  Further(w)
    BY <1>2
<1>3. SUFFICES \A i \in RunID : run'[i].step \in Step => Further(run'[i].step)
    BY DEF StuckInv
<1>4. ASSUME \A i \in RunID : run'[i].step = run[i].step,
             \A w \in Step : Stuck(w) => Further(w)
      PROVE  \A i \in RunID : run'[i].step \in Step => Further(run'[i].step)
    <2> HIDE DEF Stuck, Further
    <2> QED
        BY <1>1, <1>4
<1>5. CASE Elsewhere
    <2>1. ASSUME NEW w \in Step, Stuck(w) PROVE Further(w)
        <3>1. /\ wop'[w].status \notin {"none", "asked"}
              /\ wop'[w].status = "ready" => wop[w].status = "ready"
            BY <1>5, <2>1 DEF Elsewhere
        <3> QED
            BY <1>2, <2>1, <3>1
    <2>2. \A i \in RunID : run'[i].step = run[i].step
        BY <1>5 DEF Elsewhere
    <2> QED
        BY <1>4, <2>1, <2>2
<1>6. ASSUME wop' = wop, \A i \in RunID : run'[i].step = run[i].step
      PROVE  \A i \in RunID : run'[i].step \in Step => Further(run'[i].step)
    BY <1>2, <1>4, <1>6
<1>7. CASE NewPolicy
    BY <1>6, <1>7 DEF NewPolicy
<1>8. ASSUME NEW t \in Ticker, NEW id \in RunID, Claims(t, id)
      PROVE  \A i \in RunID : run'[i].step \in Step => Further(run'[i].step)
    <2>1. wop' = wop /\ \A i \in RunID : run'[i].step = run[i].step
        BY <1>8 DEF Claims, SameRuns
    <2> QED
        BY <1>6, <2>1
<1>9. ASSUME NEW t \in Ticker, Refused(t) \/ Closes(t) \/ Dies(t)
      PROVE  \A i \in RunID : run'[i].step \in Step => Further(run'[i].step)
    <2>1. wop' = wop /\ \A i \in RunID : run'[i].step = run[i].step
        BY <1>9 DEF Refused, Closes, Dies, SameRuns
    <2> QED
        BY <1>6, <2>1
<1>10. ASSUME NEW t \in Ticker, Prepares(t)
       PROVE  \A i \in RunID : run'[i].step \in Step => Further(run'[i].step)
    <2>1. run' = run /\ wop[tick[t].step].status = "none" /\ SameSteps({tick[t].step})
        BY <1>10 DEF Prepares, BegunInv
    <2>2. ASSUME NEW i \in RunID, run[i].step \in Step PROVE Further(run[i].step)
        <3>1. Stuck(run[i].step)
            BY <1>1, <2>2
        <3>2. wop'[run[i].step].status = wop[run[i].step].status
            BY <2>1, <2>2, <3>1 DEF SameSteps
        <3> QED
            BY <1>2, <2>2, <3>1, <3>2
    <2> HIDE DEF Further
    <2> QED
        BY <2>1, <2>2
<1>11. ASSUME NEW t \in Ticker, Reserves(t)
       PROVE  \A i \in RunID : run'[i].step \in Step => Further(run'[i].step)
    <2> DEFINE w == tick[t].step
    <2>1. /\ wop[w].status = "ready" /\ w \in Step
          /\ \A i \in RunID : run'[i].step \in {run[i].step, w}
        BY <1>11, Rows DEF Reserves, SameRuns
    <2>2. Further(w)
        BY <1>11, <2>1 DEF Reserves
    <2>3. \A x \in Step \ {w} : wop'[x].status = wop[x].status
        BY <1>11 DEF Reserves, SameSteps
    <2>4. ASSUME NEW i \in RunID, run[i].step \in Step PROVE Further(run[i].step)
        <3>1. Stuck(run[i].step)
            BY <1>1, <2>4
        <3>2. CASE run[i].step # w
            <4>1. wop'[run[i].step].status = wop[run[i].step].status
                BY <2>3, <2>4, <3>2
            <4> QED
                BY <1>2, <2>4, <3>1, <4>1
        <3> QED
            BY <2>2, <3>2
    <2> HIDE DEF Further, w
    <2> QED
        BY <2>1, <2>2, <2>4
<1>12. ASSUME NEW t \in Ticker, Submits(t)
       PROVE  \A i \in RunID : run'[i].step \in Step => Further(run'[i].step)
    <2>1. ASSUME NEW w \in Step, Stuck(w) PROVE Further(w)
        <3>1. wop'[w].status \in {wop[w].status, "accepted"}
            BY <1>12 DEF Submits, SameSteps
        <3> QED
            BY <1>2, <2>1, <3>1
    <2>2. run' = run
        BY <1>12 DEF Submits
    <2> QED
        BY <1>4, <2>1, <2>2
<1> QED
    BY <1>5, <1>7, <1>8, <1>9, <1>10, <1>11, <1>12 DEF Moves

\* While a run of the current policy may send, no other reserved step is uncertain.
LEMMA AloneInvStep ==
    ASSUME RowTypes, TickInv, FutureInv, OpenInv, AloneInv, Moves
    PROVE  AloneInv'
<1>0. ASSUME NEW u \in Ticker, Sendable(u), tick[u].id[1] = worker.rev,
             NEW i \in RunID, run[i].step \in Step, run[i].step # tick[u].step
      PROVE  wop[run[i].step].status # "sending"
    BY <1>0 DEF AloneInv
<1>s. SUFFICES ASSUME NEW u \in Ticker, Sendable(u)', tick'[u].id[1] = worker'.rev,
                      NEW i \in RunID, run'[i].step \in Step, run'[i].step # tick'[u].step
               PROVE  wop'[run'[i].step].status # "sending"
    BY DEF AloneInv
<1>1. CASE Elsewhere
    <2>1. /\ worker'.rev = worker.rev /\ tick' = tick /\ run'[i].step = run[i].step
          /\ wop'[run[i].step].status = "sending" => wop[run[i].step].status = "sending"
        BY <1>1, <1>s DEF Elsewhere, SameCount
    <2>2. Sendable(u)
        BY <1>s, <2>1 DEF Sendable
    <2> QED
        BY <1>0, <1>s, <2>1, <2>2
<1>2. CASE NewPolicy
    <2>1. \A t \in Ticker : Busy(t) => tick[t].id[1] # worker.rev + 1
        BY Rows DEF TickInv, FutureInv, Later, Open
    <2> QED
        BY <1>2, <1>s, <2>1 DEF NewPolicy, Sendable, Busy
<1>3. ASSUME NEW t \in Ticker, NEW id \in RunID, Claims(t, id)
      PROVE  wop'[run'[i].step].status # "sending"
    <2>1. wop' = wop /\ run'[i].step = run[i].step /\ worker'.rev = worker.rev
        BY <1>3 DEF Claims, SameRuns
    <2>2. CASE tick'[u] = tick[u]
        BY <1>0, <1>s, <2>1, <2>2 DEF Sendable
    <2>3. CASE tick'[u] # tick[u]
        <3>1. u = t /\ Chosen(tick'[u])
            BY <1>3, <2>3 DEF Claims, SameTicks
        <3> QED
            BY <1>s, <2>1, <3>1 DEF Chosen, Sendable, Sending
    <2> QED
        BY <2>2, <2>3
<1>4. ASSUME NEW t \in Ticker, Refused(t) \/ Closes(t) \/ Dies(t)
      PROVE  wop'[run'[i].step].status # "sending"
    <2>1. /\ SameTicks({t}) /\ tick'[t].pc \notin {"prepare", "dispatch", "submit"}
          /\ wop' = wop /\ worker'.rev = worker.rev /\ run'[i].step = run[i].step
        BY <1>4, Rows DEF Refused, Closes, Dies, GoesOn, SameCount, SameRuns
    <2>2. tick'[u] = tick[u] /\ Sendable(u)
        BY <1>s, <2>1 DEF SameTicks, Sendable
    <2> QED
        BY <1>0, <1>s, <2>1, <2>2
<1>5. ASSUME NEW t \in Ticker, Prepares(t) \/ Submits(t)
      PROVE  wop'[run'[i].step].status # "sending"
    <2>1. /\ GoesOn(t) /\ Sendable(t) /\ worker'.rev = worker.rev /\ run' = run
          /\ \A v \in Step : wop'[v].status = "sending" => wop[v].status = "sending"
        BY <1>5 DEF Prepares, Submits, SameSteps, Sendable
    <2>2. Sendable(u) /\ tick'[u].id = tick[u].id /\ tick'[u].step = tick[u].step
        BY <1>s, <2>1 DEF GoesOn, SameTicks, Sendable
    <2> QED
        BY <1>0, <1>s, <2>1, <2>2
<1>6. ASSUME NEW t \in Ticker, Reserves(t)
      PROVE  wop'[run'[i].step].status # "sending"
    <2>1. GoesOn(t) /\ Sendable(t) /\ worker'.rev = worker.rev /\ tick[t].id[1] = worker.rev
        BY <1>6 DEF Reserves, Sendable
    <2>2. \A v \in Step \ {tick[t].step} : wop'[v].status = wop[v].status
        BY <1>6 DEF Reserves, SameSteps
    <2>3. Sendable(u) /\ tick'[u].id = tick[u].id /\ tick'[u].step = tick[u].step
        BY <1>s, <2>1 DEF GoesOn, SameTicks, Sendable
    <2>4. u = t
        BY <1>s, <2>1, <2>3 DEF TickInv, OpenInv, Sendable, Busy
    <2>5. run'[i].step = run[i].step
        BY <1>6, <1>s, <2>3, <2>4 DEF Reserves, SameRuns
    <2> QED
        BY <1>0, <1>s, <2>1, <2>2, <2>3, <2>4, <2>5
<1> QED
    BY <1>1, <1>2, <1>3, <1>4, <1>5, <1>6 DEF Moves

\* What a policy has begun it does not begin again.
LEMMA BegunInvStep ==
    ASSUME RowTypes, TickInv, FutureInv, OpenInv, BegunInv, Moves
    PROVE  BegunInv'
<1> DEFINE Ready == \A t \in Ticker : tick'[t].pc = "prepare" =>
                       tick'[t].step \in Own(tick'[t].id[1]) /\ wop'[tick'[t].step].status = "none"
           Kept == \A k \in Rev : \A w \in Own(k) : wop'[w].status = "accepted" => Taken(w)'
           Stays == \A k \in Rev : \A w \in Own(k) :
                       wop'[w].status # "none" /\ worker'.rev = k /\ worker'.status = "active" =>
                          Settled(k, w)'
<1> SUFFICES Ready /\ Kept /\ Stays
    BY DEF BegunInv
<1>r. /\ \A k \in Rev : Own(k) \subseteq Step /\ Receipt \notin Own(k)
      /\ \A i \in RunID : i[1] \in Rev
      /\ \A j, k \in Rev : \A w \in Own(j) \cap Own(k) : j = k
      /\ \A t \in Ticker : tick[t].step \in Step
    BY Rows
<1>k. \A k \in Rev : \A w \in Own(k) : wop[w].status = "accepted" => Taken(w)
    BY DEF BegunInv
<1>1. CASE Elsewhere
    <2>1. \A k \in Rev : \A w \in Own(k) :
             /\ wop[w].status = "none" => wop'[w].status = "none"
             /\ wop'[w].status = "accepted" => Taken(w)'
             /\ Taken(w) => Taken(w)'
        BY <1>1, <1>r, <1>k DEF Elsewhere, TakenStay
    <2>2. Ready
        BY <1>1, <1>r, <2>1 DEF Elsewhere, BegunInv, TickInv, Busy
    <2>3. ASSUME NEW k \in Rev, NEW w \in Own(k), wop'[w].status # "none",
                 worker'.rev = k, worker'.status = "active"
          PROVE  Settled(k, w)'
        <3>1. worker.rev = k /\ wop[w].status # "none"
            BY <1>1, <2>1, <2>3 DEF Elsewhere, SameCount
        <3>2. worker.status = "active"
            BY <1>1, <2>3, <3>1 DEF Elsewhere, FutureInv, Unasked
        <3>3. Settled(k, w)
            BY <3>1, <3>2 DEF BegunInv
        <3>4. \A i \in RunID : Doing(i, w) => Doing(i, w)'
            BY <1>1 DEF Elsewhere, Doing, Busy
        <3> QED
            BY <2>1, <3>3, <3>4 DEF Settled
    <2> QED
        BY <2>1, <2>2, <2>3
<1>2. CASE NewPolicy
    <2>1. worker'.status = "pending" /\ UNCHANGED <<tick, joint, wop>>
        BY <1>2 DEF NewPolicy
    <2> QED
        BY <2>1, <1>k DEF BegunInv, Taken
<1>3. ASSUME NEW t \in Ticker, NEW id \in RunID, Claims(t, id) PROVE Ready /\ Kept /\ Stays
    <2>1. /\ UNCHANGED <<joint, wop>> /\ worker.status = "active" /\ worker'.rev = worker.rev
          /\ id[1] = worker.rev
        BY <1>3 DEF Claims
    <2>2. ASSUME NEW w \in Own(worker.rev), wop[w].status # "none" PROVE Taken(w)
        <3>1. worker.rev \in Rev
            BY <1>r, <2>1
        <3>2. Settled(worker.rev, w)
            BY <2>1, <2>2, <3>1 DEF BegunInv
        <3> QED
            BY <1>3, <3>2 DEF Claims, Settled, Doing
    <2>3. Ready
        <3> SUFFICES ASSUME NEW u \in Ticker, tick'[u].pc = "prepare"
                     PROVE  tick'[u].step \in Own(tick'[u].id[1]) /\ wop'[tick'[u].step].status = "none"
            OBVIOUS
        <3>1. CASE tick'[u] = tick[u]
            BY <2>1, <3>1 DEF BegunInv
        <3>2. CASE tick'[u] # tick[u]
            <4>1. u = t /\ Chosen(tick'[u]) /\ tick'[u].id = id
                BY <1>3, <3>2 DEF Claims, SameTicks
            <4> QED
                BY <2>1, <2>2, <4>1 DEF Chosen
        <3> QED
            BY <3>1, <3>2
    <2>4. Kept /\ Stays
        BY <1>k, <2>1, <2>2 DEF Taken, Settled
    <2> QED
        BY <2>3, <2>4
<1>4. ASSUME NEW t \in Ticker, Busy(t), SameTicks({t}), tick'[t].pc # "prepare",
             \A w \in Step \ {tick[t].step} : wop'[w].status = wop[w].status,
             wop' = wop \/ Sendable(t)
      PROVE  Ready
    <2> SUFFICES ASSUME NEW u \in Ticker, tick'[u].pc = "prepare"
                 PROVE  tick'[u].step \in Own(tick'[u].id[1]) /\ wop'[tick'[u].step].status = "none"
        OBVIOUS
    <2>1. u # t /\ tick'[u] = tick[u] /\ Busy(u)
        BY <1>4 DEF SameTicks, Busy
    <2>2. /\ tick[u].step \in Own(tick[u].id[1]) /\ wop[tick[u].step].status = "none"
          /\ tick[u].id \in RunID /\ Open(tick[u].id)
        BY <2>1 DEF BegunInv, TickInv
    <2>3. wop' = wop \/ tick[u].step # tick[t].step
        <3> SUFFICES ASSUME Sendable(t), tick[u].step = tick[t].step PROVE FALSE
            BY <1>4
        <3>1. tick[t].id \in RunID /\ Open(tick[t].id) /\ tick[t].step \in {Receipt} \cup Own(tick[t].id[1])
            BY <1>4 DEF TickInv
        <3>2. tick[t].id[1] = tick[u].id[1]
            BY <1>r, <2>2, <3>1
        <3> QED
            BY <1>4, <2>1, <2>2, <3>1, <3>2 DEF OpenInv, TickInv
    <2> QED
        BY <1>4, <1>r, <2>1, <2>2, <2>3
<1>5. ASSUME NEW t \in Ticker, Busy(t), GoesOn(t), TakenStay,
             \A i \in RunID : Open(i)' <=> Open(i),
             worker'.rev = worker.rev, worker'.status = worker.status,
             \A w \in Step \ {tick[t].step} : wop'[w].status = wop[w].status,
             \/ Prepares(t) \/ Submits(t)
             \/ wop[tick[t].step].status = "none" => wop'[tick[t].step].status = "none",
             \/ tick'[t].pc \in {"dispatch", "submit", "stop"} \/ Submits(t)
             \/ tick[t].step # Receipt => Taken(tick[t].step)
      PROVE  Stays
    <2> SUFFICES ASSUME NEW k \in Rev, NEW w \in Own(k), wop'[w].status # "none",
                        worker'.rev = k, worker'.status = "active"
                 PROVE  Settled(k, w)'
        OBVIOUS
    <2>1. w \in Step /\ w # Receipt
        BY <1>r
    <2>2. CASE tick[t].step # w
        <3>1. Settled(k, w)
            BY <1>5, <2>1, <2>2 DEF BegunInv
        <3>2. \A i \in RunID : Doing(i, w) => Doing(i, w)'
            BY <1>5, <2>2 DEF GoesOn, SameTicks, Doing, Busy
        <3> QED
            BY <1>5, <2>1, <3>1, <3>2 DEF Settled, TakenStay
    <2>3. CASE tick[t].step = w /\ Submits(t)
        BY <2>1, <2>3 DEF Submits, Settled
    <2>4. CASE tick[t].step = w /\ Taken(w)
        BY <1>5, <2>1, <2>4 DEF Settled, TakenStay
    <2>5. CASE tick[t].step = w /\ Prepares(t)
        <3>1. PICK i \in RunID : i = tick[t].id /\ Open(i) /\ w \in Own(i[1])
            BY <1>5, <2>5 DEF Prepares, TickInv, BegunInv
        <3>2. i[1] = k
            BY <1>r, <3>1
        <3>3. Doing(i, w)'
            BY <1>5, <2>5, <3>1 DEF Prepares, Doing, GoesOn, SameTicks, TickInv, Busy
        <3> QED
            BY <3>1, <3>2, <3>3 DEF Settled
    <2>6. CASE tick[t].step = w /\ ~Prepares(t) /\ ~Submits(t) /\ ~Taken(w)
        <3>1. tick'[t].pc \in {"dispatch", "submit", "stop"} /\ wop[w].status # "none"
            BY <1>5, <2>1, <2>6
        <3>2. Settled(k, w)
            BY <1>5, <3>1 DEF BegunInv
        <3>3. PICK i \in RunID : i[1] = k /\ Doing(i, w)
            BY <2>6, <3>2 DEF Settled
        <3>4. Doing(i, w)'
            BY <1>5, <2>6, <3>1, <3>3 DEF GoesOn, SameTicks, Doing, Busy
        <3> QED
            BY <3>3, <3>4 DEF Settled
    <2> QED
        BY <2>2, <2>3, <2>4, <2>5, <2>6
<1>6. ASSUME NEW t \in Ticker, Prepares(t) \/ Reserves(t) \/ Refused(t) PROVE Ready /\ Kept /\ Stays
    <2>1. /\ Busy(t) /\ GoesOn(t) /\ joint' = joint /\ tick'[t].pc # "prepare" /\ Sendable(t)
          /\ worker'.rev = worker.rev /\ worker'.status = worker.status
          /\ \A w \in Step \ {tick[t].step} : wop'[w].status = wop[w].status
        BY <1>6 DEF Prepares, Reserves, Refused, Busy, Sendable, SameSteps
    <2>2. \A i \in RunID : Open(i)' <=> Open(i)
        BY <1>6 DEF Prepares, Reserves, Refused, SameRuns, Open
    <2>3. TakenStay
        BY <2>1 DEF TakenStay, Taken
    <2>4. Ready
        BY <1>4, <2>1 DEF GoesOn
    <2>5. Kept
        <3>1. wop'[tick[t].step].status = "accepted" => wop' = wop
            BY <1>6 DEF Prepares, Reserves, Refused
        <3> QED
            BY <1>k, <1>r, <2>1, <2>3, <3>1 DEF TakenStay
    <2>6. \/ Prepares(t)
          \/ wop[tick[t].step].status = "none" => wop'[tick[t].step].status = "none"
        BY <1>6 DEF Reserves, Refused
    <2>7. \/ tick'[t].pc \in {"dispatch", "submit", "stop"}
          \/ tick[t].step # Receipt => Taken(tick[t].step)
        <3>1. \/ tick'[t].pc \in {"dispatch", "submit", "stop"}
              \/ wop[tick[t].step].status = "accepted"
            BY <1>6 DEF Prepares, Reserves, Refused
        <3>2. tick[t].id \in RunID /\ tick[t].step \in {Receipt} \cup Own(tick[t].id[1])
            BY <2>1 DEF TickInv
        <3> QED
            BY <1>k, <1>r, <3>1, <3>2
    <2>8. Stays
        BY <1>5, <2>1, <2>2, <2>3, <2>6, <2>7
    <2> QED
        BY <2>4, <2>5, <2>8
<1>7. ASSUME NEW t \in Ticker, Submits(t) PROVE Ready /\ Kept /\ Stays
    <2>1. /\ Busy(t) /\ GoesOn(t) /\ tick'[t].pc # "prepare" /\ Sendable(t) /\ TakenStay
          /\ worker'.rev = worker.rev /\ worker'.status = worker.status
          /\ \A w \in Step \ {tick[t].step} : wop'[w].status = wop[w].status
          /\ \A w \in Step : w = tick[t].step /\ w # Receipt => Taken(w)'
        BY <1>7 DEF Submits, Busy, Sendable, SameSteps
    <2>2. \A i \in RunID : Open(i)' <=> Open(i)
        BY <1>7 DEF Submits, Open
    <2>3. Ready
        BY <1>4, <2>1 DEF GoesOn
    <2>4. Kept
        BY <1>k, <1>r, <2>1 DEF TakenStay
    <2>5. Stays
        BY <1>5, <1>7, <2>1, <2>2
    <2> QED
        BY <2>3, <2>4, <2>5
<1>8. ASSUME NEW t \in Ticker, Closes(t) \/ Dies(t) PROVE Ready /\ Kept /\ Stays
    <2>1. /\ Busy(t) /\ SameTicks({t}) /\ tick'[t].pc = "idle" /\ UNCHANGED <<joint, wop>>
          /\ worker'.rev = worker.rev /\ worker'.status \in {worker.status, "stopped"}
        BY <1>8, Rows DEF Closes, Dies, SameCount
    <2>2. Ready
        BY <1>4, <2>1
    <2>3. Kept
        BY <1>k, <2>1 DEF Taken
    <2>4. ASSUME NEW k \in Rev, NEW w \in Own(k), wop'[w].status # "none",
                 worker'.rev = k, worker'.status = "active"
          PROVE  Settled(k, w)'
        <3>1. Settled(k, w)
            BY <2>1, <2>4 DEF BegunInv
        <3>2. CASE Taken(w)
            BY <2>1, <3>2 DEF Settled, Taken
        <3>3. ASSUME NEW i \in RunID, i[1] = k, Doing(i, w) PROVE Doing(i, w)'
            <4>1. CASE tick[t].id = i /\ Closes(t)
                BY <2>1, <2>4, <3>3, <4>1 DEF Closes, Doing
            <4>2. CASE tick[t].id # i /\ Closes(t)
                BY <2>1, <3>3, <4>2 DEF Closes, SameRuns, SameTicks, Doing, Open, Busy
            <4>3. CASE Dies(t)
                BY <2>1, <3>3, <4>3 DEF Dies, SameTicks, Doing, Open, Busy
            <4> QED
                BY <1>8, <4>1, <4>2, <4>3
        <3> QED
            BY <3>1, <3>2, <3>3 DEF Settled
    <2> QED
        BY <2>2, <2>3, <2>4
<1> QED
    BY <1>1, <1>2, <1>3, <1>6, <1>7, <1>8 DEF Moves

\* Every reservation counts.
LEMMA SendsInvStep ==
    ASSUME RowTypes, TickInv, FutureInv, SendsInv, Moves
    PROVE  SendsInv'
<1>r. /\ worker.rev \in Nat /\ worker.sends \in Nat /\ MaxSends \in Nat
      /\ \A i \in RunID : i[1] \in Rev /\ i[1] \in Nat
      /\ \A k \in Rev : k \in Nat
    BY Rows, WorkerAssumption
<1>1. ASSUME \A i \in RunID : run'[i].step = run[i].step,
             worker'.rev = worker.rev, worker'.sends = worker.sends
      PROVE  SendsInv'
    <2>1. \A k \in Rev : StepsOf(k)' = StepsOf(k)
        BY <1>1 DEF StepsOf
    <2> QED
        BY <1>1, <2>1 DEF SendsInv
<1>2. CASE Elsewhere
    BY <1>1, <1>2 DEF Elsewhere, SameCount
<1>3. CASE NewPolicy
    <2>1. \A k \in Rev : StepsOf(k)' = StepsOf(k)
        BY <1>3 DEF NewPolicy, StepsOf
    <2>2. StepsOf(worker.rev + 1) = {}
        BY <1>r DEF StepsOf, FutureInv, Later
    <2>3. worker'.rev = worker.rev + 1 /\ worker'.sends = 0
        BY <1>3 DEF NewPolicy
    <2> QED
        BY <2>1, <2>2, <2>3, FS_EmptySet DEF SendsInv
<1>4. ASSUME NEW t \in Ticker, NEW id \in RunID, Claims(t, id) PROVE SendsInv'
    BY <1>1, <1>4 DEF Claims, SameRuns
<1>5. ASSUME NEW t \in Ticker, Prepares(t) \/ Refused(t) \/ Submits(t) \/ Closes(t) \/ Dies(t)
      PROVE  SendsInv'
    BY <1>1, <1>5 DEF Prepares, Refused, Submits, Closes, Dies, SameCount, SameRuns
<1>6. ASSUME NEW t \in Ticker, Reserves(t) PROVE SendsInv'
    <2> DEFINE w == tick[t].step
               more == StepsOf(worker.rev) \cup {w}
    <2>1. tick[t].id \in RunID /\ tick[t].id[1] = worker.rev
        BY <1>6 DEF Reserves, TickInv, Busy
    <2>2. /\ worker'.rev = worker.rev /\ worker.sends < MaxSends
          /\ worker'.sends = worker.sends + 1
        BY <1>6 DEF Reserves
    <2>3. \A k \in Rev \ {worker.rev} : StepsOf(k)' = StepsOf(k)
        BY <1>6, <2>1 DEF Reserves, SameRuns, StepsOf
    <2>4. StepsOf(worker.rev)' \subseteq more
        <3>1. \A i \in RunID : run'[i].step \in {run[i].step, w}
            BY <1>6 DEF Reserves, SameRuns
        <3> QED
            BY <2>2, <3>1 DEF StepsOf
    <2>5. worker.rev \in Rev /\ IsFiniteSet(StepsOf(worker.rev))
          /\ Cardinality(StepsOf(worker.rev)) <= worker.sends
        BY <1>r, <2>1 DEF SendsInv
    <2>6. Cardinality(StepsOf(worker.rev)) \in Nat
        BY <2>5, FS_CardinalityType
    <2> HIDE DEF w
    <2>7. IsFiniteSet(more) /\ Cardinality(more) <= worker.sends + 1
        <3>1. /\ IsFiniteSet(more)
              /\ \/ Cardinality(more) = Cardinality(StepsOf(worker.rev))
                 \/ Cardinality(more) = Cardinality(StepsOf(worker.rev)) + 1
            BY <2>5, FS_AddElement
        <3> HIDE DEF more
        <3> QED
            BY <1>r, <2>5, <2>6, <3>1
    <2> HIDE DEF more
    <2>8. /\ IsFiniteSet(StepsOf(worker.rev)')
          /\ Cardinality(StepsOf(worker.rev)') <= Cardinality(more)
        BY <2>4, <2>7, FS_Subset
    <2>9. Cardinality(StepsOf(worker.rev)') \in Nat /\ Cardinality(more) \in Nat
        BY <2>7, <2>8, FS_CardinalityType
    <2>10. Cardinality(StepsOf(worker.rev)') <= worker'.sends /\ worker'.sends <= MaxSends
        BY <1>r, <2>2, <2>7, <2>8, <2>9
    <2>11. ASSUME NEW k \in Rev
           PROVE  /\ IsFiniteSet(StepsOf(k)') /\ Cardinality(StepsOf(k)') <= MaxSends
                  /\ k = worker'.rev => Cardinality(StepsOf(k)') <= worker'.sends
        <3>1. CASE k = worker.rev
            <4>1. StepsOf(k)' = StepsOf(worker.rev)'
                BY <2>2, <3>1
            <4>2. worker'.sends \in Nat
                BY <1>r, <2>2
            <4> QED
                BY <1>r, <2>8, <2>9, <2>10, <4>1, <4>2
        <3>2. CASE k # worker.rev
            BY <2>2, <2>3, <3>2 DEF SendsInv
        <3> QED
            BY <3>1, <3>2
    <2> QED
        BY <2>11 DEF SendsInv
<1> QED
    BY <1>2, <1>3, <1>4, <1>5, <1>6 DEF Moves

-----------------------------------------------------------------------------
(* What follows from it.                                                    *)

\* At first there is no policy and nothing under way.
LEMMA PolicyRunsInit == Init => PolicyRuns
<1> SUFFICES ASSUME Init PROVE PolicyRuns
    OBVIOUS
<1>1. /\ worker.status = "none" /\ worker.rev = 0 /\ worker.runs = 0 /\ worker.sends = 0
      /\ \A i \in RunID : run[i].status = "none" /\ run[i].step = None
      /\ \A t \in Ticker : tick[t].pc = "idle"
      /\ \A w \in Step : wop[w].status = "none" /\ wop[w].applied = FALSE
      /\ handed = {}
    BY DEF Init, WorkerInit, Idle
<1>2. \A k \in Rev : Own(k) \subseteq Step /\ k \in Nat /\ k # 0
    BY WorkerAssumption DEF Rev, Own, Step
<1>3. SendsInv
    <2>1. \A k \in Rev : StepsOf(k) = {}
        BY <1>1 DEF StepsOf
    <2>2. IsFiniteSet({}) /\ Cardinality({}) = 0 /\ MaxSends \in Nat
        BY FS_EmptySet, WorkerAssumption
    <2> SUFFICES ASSUME NEW k \in Rev
                 PROVE  /\ IsFiniteSet(StepsOf(k)) /\ Cardinality(StepsOf(k)) <= MaxSends
                        /\ k = worker.rev => Cardinality(StepsOf(k)) <= worker.sends
        BY DEF SendsInv
    <2> QED
        BY <1>1, <2>1, <2>2
<1>4. TickInv /\ FutureInv /\ OpenInv /\ BegunInv
    BY <1>1, <1>2 DEF TickInv, FutureInv, OpenInv, BegunInv, Busy, Sendable, Open
<1>5. ReservedInv /\ HandsInv /\ AppliedInv /\ StuckInv /\ AloneInv
    BY <1>1, WorkerAssumption
    DEF ReservedInv, HandsInv, AppliedInv, StuckInv, AloneInv, HandsOver, Sendable
<1> QED
    BY <1>3, <1>4, <1>5 DEF PolicyRuns

\* Every step of the whole keeps the invariant.
LEMMA PolicyRunsStep ==
    ASSUME TypeInv, PolicyRuns, [Next]_vars
    PROVE  PolicyRuns'
<1>1. RowTypes /\ Moves
    BY WorkerTypes, NextMoves DEF TypeInv, TypeOK, PolicyRuns
<1>2. /\ task.used \in Nat /\ task'.used \in Nat /\ task.used <= task'.used
      /\ MaxActions \in Nat
    BY UsedGrows, DelegationAssumption
<1> QED
    BY <1>1, <1>2, TickInvStep, FutureInvStep, OpenInvStep, ReservedInvStep, BegunInvStep,
       HandsInvStep, AppliedInvStep, StuckInvStep, AloneInvStep, SendsInvStep DEF PolicyRuns

\* So it holds in every behaviour.
LEMMA PolicyRunsHold == Spec => [](TypeInv /\ PolicyRuns)
BY TypeInit, TypeStep, PolicyRunsInit, PolicyRunsStep, PTL DEF Spec

\* A policy hands over at most max_sends steps, one in a run, and none in two,
\* whichever timers tick over each other and whichever of them die.
THEOREM SendsBounded == Spec => []WorkerWithinPolicy
<1>1. ASSUME TypeInv, PolicyRuns PROVE WorkerWithinPolicy
    <2> DEFINE by(i) == {w \in Step : <<w, i>> \in handed}
               all(k) == UNION {by(i) : i \in {j \in RunID : j[1] = k}}
    <2>1. \A i \in RunID : \A w \in by(i) : w = run[i].step
        BY <1>1 DEF PolicyRuns, ReservedInv
    <2>2. ASSUME NEW k \in Rev PROVE Cardinality(all(k)) <= MaxSends
        <3>1. all(k) \subseteq StepsOf(k)
            <4> SUFFICES ASSUME NEW i \in RunID, i[1] = k, NEW w \in by(i)
                         PROVE  w \in StepsOf(k)
                OBVIOUS
            <4>1. w = run[i].step /\ w # None
                BY <2>1, WorkerAssumption
            <4> QED
                BY <4>1 DEF StepsOf
        <3>2. IsFiniteSet(StepsOf(k)) /\ Cardinality(StepsOf(k)) <= MaxSends
            BY <1>1 DEF PolicyRuns, SendsInv
        <3> HIDE DEF all
        <3>3. IsFiniteSet(all(k)) /\ Cardinality(all(k)) <= Cardinality(StepsOf(k))
            BY <3>1, <3>2, FS_Subset
        <3>4. Cardinality(all(k)) \in Nat /\ Cardinality(StepsOf(k)) \in Nat
            BY <3>2, <3>3, FS_CardinalityType
        <3> QED
            BY <3>2, <3>3, <3>4, WorkerAssumption
    <2>3. \A i, j \in RunID : i # j => by(i) \cap by(j) = {}
        BY <1>1 DEF PolicyRuns, HandsInv, HandsOver
    <2>4. ASSUME NEW i \in RunID PROVE Cardinality(by(i)) <= 1
        <3>1. by(i) = {} \/ by(i) = {run[i].step}
            BY <2>1
        <3> HIDE DEF by
        <3>2. Cardinality({}) = 0 /\ Cardinality({run[i].step}) = 1
            BY FS_EmptySet, FS_Singleton
        <3> QED
            BY <3>1, <3>2
    <2> QED
        BY <2>2, <2>3, <2>4 DEF WorkerWithinPolicy
<1> QED
    BY <1>1, PolicyRunsHold, PTL

\* No run hands over a step while the send of another that a run has reserved
\* is open, under whichever policy: a claim finds it, and nobody else can begin one
\* beside a run that may still send.
THEOREM UncertainStops == Spec => NeverPastItsOwn
<1> DEFINE Alone == \A m \in handed' \ handed : m[2] # ByOwner =>
                       \A i \in RunID : run[i].step \in Step \ {m[1]} =>
                                           wop[run[i].step].status # "sending"
<1>1. ASSUME PolicyRuns, [Next]_vars PROVE Alone
    <2>1. ASSUME NEW t \in Ticker, NEW outcome, TickSubmit(t, outcome) PROVE Alone
        <3>1. Sendable(t) /\ tick[t].id[1] = worker.rev
            BY <2>1 DEF TickSubmit, InContext, Active, Sendable
        <3>2. \A i \in RunID : run[i].step \in Step \ {tick[t].step} =>
                                  wop[run[i].step].status # "sending"
            BY <1>1, <3>1 DEF PolicyRuns, AloneInv
        <3>3. \A m \in handed' \ handed : m[1] = tick[t].step
            BY <2>1 DEF TickSubmit, Hands
        <3> QED
            BY <3>2, <3>3
    <2>2. ASSUME NEW w \in Step, NEW outcome, OwnerSends(w, outcome) PROVE Alone
        <3>1. \A m \in handed' \ handed : m[2] = ByOwner
            BY <2>2 DEF OwnerSends, Hands
        <3> QED
            BY <3>1
    <2> QED
        BY <1>1, <2>1, <2>2, HandedStep
<1>2. PolicyRuns /\ [Next]_vars => [Alone]_vars
    BY <1>1
<1>3. Spec => [][Alone]_vars
    BY <1>2, PolicyRunsHold, PTL DEF Spec
<1> QED
    BY <1>3 DEF NeverPastItsOwn
=============================================================================
