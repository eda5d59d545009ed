------------------------------ MODULE AtomicRuns ------------------------------
(***************************************************************************)
(* What agents and people may take every call on a run for: one step, on   *)
(* the row as it is at that moment.  There is no lock here, no row read    *)
(* earlier, and no second look: an agent has one unfinished run on an item *)
(* ("another request opened the run ... the winner is the answer"), an     *)
(* open of that one shows its note and clears nothing (run-tools.ts), a    *)
(* report is accepted while the run is open and takes the note that is     *)
(* there ("every decision here is taken under a row lock"), and a cancel   *)
(* "must resolve to one answer" (runs/service.ts, runs/store.ts).  A skill *)
(* run is settled by its id, whatever it has become (skill-run.ts).        *)
(***************************************************************************)
EXTENDS Naturals, Sequences

CONSTANTS Agents, Nobody, Items, Runs, Notes, NoNote, MaxTrace

VARIABLES
    row,        \* the agent_runs rows
    steps,      \* how many steps each run has accepted
    delivered,  \* the notes a report has taken to an agent
    shown       \* the notes an open has shown to one, and left in place

vars == <<row, steps, delivered, shown>>

Active == {"running", "awaiting_input"}

Blank == [status |-> "absent", agent |-> Nobody, item |-> {}, note |-> NoNote, trace |-> <<>>]

Init ==
    /\ row = [r \in Runs |-> Blank]
    /\ steps = [r \in Runs |-> 0]
    /\ delivered = {}
    /\ shown = {}

Counted(r) == steps' = [steps EXCEPT ![r] = @ + 1]

(* The next step, after the latest of the others.                           *)
With(trace, step) ==
    IF Len(trace) < MaxTrace THEN Append(trace, step)
                             ELSE SubSeq(Append(trace, step), Len(trace) - MaxTrace + 2, Len(trace) + 1)

Open(r, a, i) ==
    /\ row[r].status = "absent"
    /\ a # Nobody => ~ \E s \in Runs : /\ row[s].status \in Active
                                       /\ row[s].agent = a /\ row[s].item = {i}
    /\ row' = [row EXCEPT ![r] = [status |-> "running", agent |-> a, item |-> {i},
                                  note |-> NoNote, trace |-> <<1>>]]
    /\ Counted(r)
    /\ UNCHANGED <<delivered, shown>>

(* An agent opens a run it has: it is handed the waiting note, which the    *)
(* next report hands it again.                                              *)
Join(r) ==
    /\ row[r].status \in Active
    /\ row[r].agent # Nobody
    /\ shown' = shown \union ({row[r].note} \ {NoNote})
    /\ UNCHANGED <<row, steps, delivered>>

Report(r, status) ==
    LET reported == [row[r] EXCEPT !.status = status, !.note = NoNote] IN
    /\ row[r].status \in Active
    /\ row[r].agent # Nobody
    /\ \/ row' = [row EXCEPT ![r] = reported] /\ UNCHANGED steps
       \/ /\ row' = [row EXCEPT ![r] =
                [reported EXCEPT !.trace = With(row[r].trace, steps[r] + 1)]]
          /\ Counted(r)
    /\ delivered' = delivered \union ({row[r].note} \ {NoNote})
    /\ UNCHANGED shown

Steer(r, n) ==
    /\ row[r].status # "absent"
    /\ n \notin delivered \union {row[s].note : s \in Runs}
    /\ row' = [row EXCEPT ![r].note = n]
    /\ UNCHANGED <<steps, delivered, shown>>

Cancel(r) ==
    /\ row[r].status \in Active
    /\ row' = [row EXCEPT ![r].status = "cancelled"]
    /\ UNCHANGED <<steps, delivered, shown>>

Settle(r, status) ==
    /\ row[r].status # "absent"
    /\ row[r].agent = Nobody
    /\ \/ /\ status = "failed"
          /\ row' = [row EXCEPT ![r].status = status]
          /\ UNCHANGED steps
       \/ /\ status = "succeeded"
          /\ row' = [row EXCEPT ![r] = [@ EXCEPT !.status = status,
                                                 !.trace = With(row[r].trace, steps[r] + 1)]]
          /\ Counted(r)
    /\ UNCHANGED <<delivered, shown>>

Next ==
    \E r \in Runs :
       \/ \E a \in Agents \union {Nobody}, i \in Items : Open(r, a, i)
       \/ Join(r)
       \/ \E status \in Active \union {"succeeded", "failed"} : Report(r, status)
       \/ \E n \in Notes : Steer(r, n)
       \/ Cancel(r)
       \/ \E status \in {"succeeded", "failed"} : Settle(r, status)

Spec == Init /\ [][Next]_vars
===============================================================================
