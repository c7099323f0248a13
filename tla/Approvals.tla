----------------------------- MODULE Approvals -----------------------------
(***************************************************************************)
(* The owner's decisions (agent_comm_runtime/store.py).  One approval can  *)
(* be shown in native conversations, under a lease whose token only the    *)
(* call that opened it holds, and be answered on the paired web console at *)
(* the same time.  A lease runs out, a conversation is left or its host    *)
(* stops, and the question may be shown again; the calls that were waiting *)
(* for an answer are still there and answer late.                          *)
(*                                                                         *)
(* What an approval is about, whether it is still current, and what a      *)
(* decision does belong to the module that asks; current is passed in.     *)
(***************************************************************************)
EXTENDS Naturals, FiniteSets

CONSTANTS
    Approval,     \* every approval that may be requested, named by its fingerprint
    Session,      \* native conversations of the owner
    MaxLeases     \* bound: presentations of questions

ASSUME ApprovalsAssumption == MaxLeases \in Nat

VARIABLES
    ap,       \* the approval rows
    leases,   \* presentations so far: tokens are never reused
    ui,       \* native calls that wait for the owner's answer
    told      \* the decisions that calls have reported of each approval

approvalVars == <<ap, leases, ui, told>>

Undecided == {"pending", "presenting", "expired"}
Decided == {"approved", "denied"}

ApprovalType ==
    /\ ap \in [Approval -> [status : {"none", "superseded"} \cup Undecided \cup Decided,
                            sess : Session \cup {"none"}, token : 0..MaxLeases,
                            live : BOOLEAN]]
    /\ leases \in 0..MaxLeases
    /\ ui \subseteq [sess : Session, a : Approval, token : 1..MaxLeases]
    /\ told \in [Approval -> SUBSET Decided]

NoApproval == [status |-> "none", sess |-> "none", token |-> 0, live |-> FALSE]

ApprovalInit ==
    /\ ap = [a \in Approval |-> NoApproval]
    /\ leases = 0 /\ ui = {} /\ told = [a \in Approval |-> {}]

Requested(p) == IF p.status = "none" THEN [p EXCEPT !.status = "pending"] ELSE p

\* A decision, or an invalidation, takes the token and the lease with it.
Closed(p, status) == [p EXCEPT !.status = status, !.token = 0, !.live = FALSE]

Live(p) == p.status = "presenting" /\ p.live

\* begin_confirmation.
Begin(s, a, current) ==
    /\ ap[a].status \in Undecided /\ ~Live(ap[a]) /\ current
    /\ ~\E b \in Approval : ap[b].sess = s /\ Live(ap[b])
    /\ leases < MaxLeases
    /\ leases' = leases + 1
    /\ ap' = [ap EXCEPT ![a] = [status |-> "presenting", sess |-> s,
                                token |-> leases + 1, live |-> TRUE]]
    /\ ui' = ui \cup {[sess |-> s, a |-> a, token |-> leases + 1]}
    /\ told' = told

\* The 360 seconds of a lease, or the deadline of the grant, are over.
LeaseEnds(a) ==
    /\ Live(ap[a])
    /\ ap' = [ap EXCEPT ![a].live = FALSE]
    /\ UNCHANGED <<leases, ui, told>>

\* Whether this call still holds the token of the question on display.
Holds(c) ==
    /\ ap[c.a].status = "presenting" /\ ap[c.a].sess = c.sess /\ ap[c.a].token = c.token

\* finish_confirmation: what becomes of the approval when the call returns.
\* A call that fails is an answer that is neither yes nor no.
Verdict(c, answer, current) ==
    CASE ~Holds(c) -> ap[c.a].status
      [] Holds(c) /\ ~(ap[c.a].live /\ current) -> "expired"
      [] Holds(c) /\ ap[c.a].live /\ current ->
           IF answer = "yes" THEN "approved" ELSE IF answer = "no" THEN "denied" ELSE "pending"

\* Mutant: the answer of a call counts whatever has happened to its question.
FinishLate(c, answer, current) ==
    /\ c \in ui /\ ui' = ui \ {c}
    /\ LET verdict == IF ~current THEN "expired" ELSE IF answer = "yes" THEN "approved"
                      ELSE IF answer = "no" THEN "denied" ELSE "pending"
       IN /\ ap' = [ap EXCEPT ![c.a] = Closed(@, verdict)]
          /\ told' = [told EXCEPT ![c.a] = @ \cup ({verdict} \cap Decided)]
    /\ UNCHANGED leases

\* The confirm action after its answer: a call that no longer holds the token
\* changes nothing and reports what was recorded meanwhile (confirmation_result).
Finish(c, answer, current) ==
    /\ c \in ui /\ ui' = ui \ {c}
    /\ ap' = IF Holds(c) THEN [ap EXCEPT ![c.a] = Closed(@, Verdict(c, answer, current))] ELSE ap
    /\ told' = [told EXCEPT ![c.a] = @ \cup ({Verdict(c, answer, current)} \cap Decided)]
    /\ UNCHANGED leases

\* The host of a waiting call stops.
HostStops(c) ==
    /\ c \in ui /\ ui' = ui \ {c}
    /\ UNCHANGED <<ap, leases, told>>

\* _remote_respond_approval: the short native lease does not bind the console.
WebDecides(a, decision, current) ==
    ap[a].status \in Undecided /\ current /\ decision \in Decided

WebRespond(a, decision, current) ==
    /\ WebDecides(a, decision, current) \/ (ap[a].status = decision /\ decision \in Decided)
    /\ ap' = [ap EXCEPT ![a] = Closed(@, decision)]
    /\ told' = [told EXCEPT ![a] = @ \cup {decision}]
    /\ UNCHANGED <<leases, ui>>

-----------------------------------------------------------------------------
\* Every call that reported a decision of an approval reported the one that is
\* recorded now, whoever answered first, however late the other answer came.
OneDecision == \A a \in Approval : told[a] \subseteq {ap[a].status}
=============================================================================
