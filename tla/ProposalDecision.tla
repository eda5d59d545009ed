--------------------------- MODULE ProposalDecision ---------------------------
(***************************************************************************)
(* What the proposal lifecycle promises a reviewer, without saying how:    *)
(* every proposal is decided at most once, "applied" is said only of a     *)
(* change that reached its target, a turned-down or reopened proposal has  *)
(* changed nothing, and while the outcome is unknown the row says so       *)
(* (apps/web/src/lib/proposals/service.ts, header).  The one exception is  *)
(* a change that landed without the request hearing of it.                 *)
(***************************************************************************)
CONSTANT Proposals

VARIABLES
    decision,   \* what the row says of each proposal
    landed,     \* proposals whose change has reached its target
    doubtful    \* those of them whose write once looked failed

vars == <<decision, landed, doubtful>>

Decisions == {"none", "open", "applying", "applied", "dismissed"}

Init ==
    /\ decision = [i \in Proposals |-> "none"]
    /\ landed = {}
    /\ doubtful = {}

Move(i, from, to) ==
    /\ decision[i] = from
    /\ decision' = [decision EXCEPT ![i] = to]

Say(i, from, to) == Move(i, from, to) /\ UNCHANGED <<landed, doubtful>>

Open(i) == Say(i, "none", "open")
Start(i) == Say(i, "open", "applying")
Dismiss(i) == Say(i, "open", "dismissed")
Abandon(i) == i \notin landed \ doubtful /\ Say(i, "applying", "open")
Finish(i) == i \in landed /\ Say(i, "applying", "applied")

Land(i) ==
    /\ decision[i] = "applying"
    /\ i \notin landed
    /\ landed' = landed \union {i}
    /\ doubtful' \in {doubtful, doubtful \union {i}}
    /\ UNCHANGED decision

Next ==
    \E i \in Proposals :
        Open(i) \/ Start(i) \/ Dismiss(i) \/ Abandon(i) \/ Finish(i) \/ Land(i)

Spec == Init /\ [][Next]_vars
===============================================================================
