------------------------------ MODULE AgentRuns ------------------------------
(***************************************************************************)
(* Agent runs (apps/web/src/lib/runs: service.ts, store.ts, skill-run.ts,  *)
(* types.ts): an agent opens a run on an item and reports to it, people    *)
(* steer and cancel it, and a skill run of our own opens one, asks the     *)
(* model and settles it.                                                   *)
(*                                                                         *)
(* A call is one request in flight.  A statement of the database is one    *)
(* step; reportUnderLock, which reads the row FOR UPDATE and then decides, *)
(* is two, and between them the row is locked for every other writer.      *)
(***************************************************************************)
EXTENDS Integers, FiniteSets, Sequences

CONSTANTS
    Agents,      \* connected agents: the identities runs are opened under
    Nobody,      \* the null agent id of a scheduled skill run
    Items,       \* the items runs are opened on
    Runs,        \* ids of agent_runs rows
    Calls,       \* requests that may be in flight at once
    Notes,       \* steering notes people may leave
    NoNote,      \* the steer column is null
    MaxTrace,    \* MAX_TRACE_STEPS
    MaxSteps,    \* bound: steps accepted by one run
    MaxCrashes   \* bound: crashes

ASSUME RunsAssumption ==
    /\ Nobody \notin Agents
    /\ NoNote \notin Notes
    /\ MaxTrace \in Nat \ {0, 1}
    /\ MaxSteps \in Nat /\ MaxCrashes \in Nat

VARIABLES
    run,         \* the agent_runs rows
    call,        \* where each request is, and the row it has read
    drafts,      \* runs a proposal has been inserted for
    said,        \* history: the steps each run has accepted, in order
    fate,        \* history: what became of each steering note
    shown,       \* history: the notes an answer to an open has handed over
    crashes      \* crashes so far

vars == <<run, call, drafts, said, fate, shown, crashes>>

Active == {"running", "awaiting_input"}
Terminal == {"succeeded", "failed", "cancelled"}
Statuses == Active \union Terminal \union {"absent"}
Reportable == Active \union {"succeeded", "failed"}

(* find, insert, refind: openRun; report: the lock is held; steer: the      *)
(* row was read; model: a skill run waits for its completion; drafted: it   *)
(* has inserted a proposal.                                                 *)
Stages == {"idle", "find", "insert", "refind", "report", "steer", "model", "drafted"}

Fates == {"unsaid", "waiting", "delivered", "again", "replaced"}

NoRun == [status |-> "absent", agent |-> Nobody, item |-> {}, note |-> NoNote, trace |-> <<>>]
NoCall == [stage |-> "idle", agent |-> Nobody, item |-> {}, of |-> {}, seen |-> NoRun]

Init ==
    /\ run = [r \in Runs |-> NoRun]
    /\ call = [c \in Calls |-> NoCall]
    /\ drafts = {}
    /\ said = [r \in Runs |-> <<>>]
    /\ fate = [n \in Notes |-> "unsaid"]
    /\ shown = {}
    /\ crashes = 0

ActiveRuns(a, item) ==
    {r \in Runs : run[r].status \in Active /\ run[r].agent = a /\ run[r].item = item}

(* Mutant: the report reads without FOR UPDATE.                             *)
NeverLocked(r) == FALSE

(* A report has read the row and not yet committed.                         *)
Locked(r) == \E c \in Calls : call[c].stage = "report" /\ r \in call[c].of

(* Mutant: a request that is over still holds its run.                      *)
LeaveUncleared(c) == call' = [call EXCEPT ![c].stage = "idle"]
Leave(c) == call' = [call EXCEPT ![c] = NoCall]
Reach(c, stage) == call' = [call EXCEPT ![c].stage = stage]

(* Mutant: the newest steps go when the cap is reached.                     *)
appendStepOldest(trace, step) == SubSeq(Append(trace, step), 1, MaxTrace)

(* The trace keeps its latest MaxTrace steps.                               *)
appendStep(trace, step) ==
    LET next == Append(trace, step) IN
        IF Len(next) <= MaxTrace THEN next
        ELSE SubSeq(next, Len(next) - MaxTrace + 1, Len(next))

NextStep(r) == Len(said[r]) + 1
Accept(r) == said' = [said EXCEPT ![r] = Append(@, NextStep(r))]

-------------------------------------------------------------------------------
(* openRun.                                                                 *)

(* An agent calls in without a run id, or a schedule fires a skill.         *)
StartOpen(c, a, i) ==
    /\ call[c].stage = "idle"
    /\ call' = [call EXCEPT ![c] = [NoCall EXCEPT !.stage = "find", !.agent = a, !.item = {i}]]
    /\ UNCHANGED <<run, drafts, said, fate, shown, crashes>>

(* The answer to an agent's open shows it the note of the row, and leaves   *)
(* the note in its slot.                                                    *)
Answered(c, row) == Leave(c) /\ shown' = shown \union ({row.note} \ {NoNote})

(* What happens once openRun has a run to return: an agent is answered, a   *)
(* skill run goes on to the model with the row it was given.                *)
Opened(c, r, row) ==
    IF call[c].agent = Nobody
    THEN /\ call' = [call EXCEPT ![c] = [@ EXCEPT !.stage = "model", !.of = {r}, !.seen = row]]
         /\ UNCHANGED shown
    ELSE Answered(c, row)

(* findActiveRun: never finds the run of nobody.                            *)
Found(c) == IF call[c].agent = Nobody THEN {} ELSE ActiveRuns(call[c].agent, call[c].item)

Find(c) ==
    /\ call[c].stage = "find"
    /\ \/ \E r \in Found(c) : Opened(c, r, run[r])
       \/ Found(c) = {} /\ Reach(c, "insert") /\ UNCHANGED shown
    /\ UNCHANGED <<run, drafts, said, fate, crashes>>

(* Mutant: there is no unique index.                                        *)
NoConflict(c) == {}

(* agent_runs_one_active_uq, in which null agent ids are distinct.          *)
Conflict(c) == IF call[c].agent = Nobody THEN {} ELSE ActiveRuns(call[c].agent, call[c].item)

Created(c) ==
    [status |-> "running", agent |-> call[c].agent, item |-> call[c].item,
     note |-> NoNote, trace |-> <<1>>]

Insert(c) ==
    /\ call[c].stage = "insert"
    /\ Conflict(c) = {}
    /\ \E r \in Runs :
          /\ run[r].status = "absent"
          /\ run' = [run EXCEPT ![r] = Created(c)]
          /\ Accept(r)
          /\ Opened(c, r, Created(c))
    /\ UNCHANGED <<drafts, fate, crashes>>

InsertRefused(c) ==
    /\ call[c].stage = "insert"
    /\ Conflict(c) # {}
    /\ Reach(c, "refind")
    /\ UNCHANGED <<run, drafts, said, fate, shown, crashes>>

(* The winner's run, or "opened and closed while this one was starting".    *)
Refind(c) ==
    /\ call[c].stage = "refind"
    /\ \/ \E r \in Found(c) : Opened(c, r, run[r])
       \/ Found(c) = {} /\ Leave(c) /\ UNCHANGED shown
    /\ UNCHANGED <<run, drafts, said, fate, crashes>>

-------------------------------------------------------------------------------
(* reportRun.                                                               *)

(* The locked read, the ownership check and the terminal check; a refusal   *)
(* changes nothing.                                                         *)
ReportReads(c, a, r) ==
    /\ call[c].stage = "idle"
    /\ run[r].status \in Active
    /\ run[r].agent = a
    /\ ~ Locked(r)
    /\ call' = [call EXCEPT ![c] = [NoCall EXCEPT !.stage = "report", !.agent = a,
                                                  !.of = {r}, !.seen = run[r]]]
    /\ UNCHANGED <<run, drafts, said, fate, shown, crashes>>

(* A note a report takes is delivered, unless one has gone before it.       *)
Taken(n) == IF fate[n] = "waiting" THEN "delivered" ELSE "again"

(* Status, the step if there is one, and the taken note in one update; the  *)
(* note goes back to the agent.                                             *)
ReportWrites(c) ==
    /\ call[c].stage = "report"
    /\ \E r \in call[c].of, status \in Reportable :
          LET reported == [run[r] EXCEPT !.status = status, !.note = NoNote] IN
          \/ /\ run' = [run EXCEPT ![r] = reported]
             /\ UNCHANGED said
          \/ /\ Len(said[r]) < MaxSteps
             /\ run' = [run EXCEPT ![r] =
                   [reported EXCEPT !.trace = appendStep(call[c].seen.trace, NextStep(r))]]
             /\ Accept(r)
    /\ fate' = [n \in Notes |-> IF n = call[c].seen.note THEN Taken(n) ELSE fate[n]]
    /\ Leave(c)
    /\ UNCHANGED <<drafts, shown, crashes>>

-------------------------------------------------------------------------------
(* People: steerRun reads, checks, and then patches whatever is there;      *)
(* cancelRun decides in its WHERE clause.                                   *)

SteerReads(c, r) ==
    /\ call[c].stage = "idle"
    /\ run[r].status \in Active
    /\ call' = [call EXCEPT ![c] = [NoCall EXCEPT !.stage = "steer", !.of = {r}, !.seen = run[r]]]
    /\ UNCHANGED <<run, drafts, said, fate, shown, crashes>>

SteerWrites(c) ==
    /\ call[c].stage = "steer"
    /\ \E r \in call[c].of, n \in Notes :
          /\ fate[n] = "unsaid"
          /\ ~ Locked(r)
          /\ run' = [run EXCEPT ![r].note = n]
          /\ fate' = [m \in Notes |-> IF m = n THEN "waiting"
                                      ELSE IF m = run[r].note THEN "replaced" ELSE fate[m]]
    /\ Leave(c)
    /\ UNCHANGED <<drafts, said, shown, crashes>>

Cancel(r) ==
    /\ run[r].status \in Active
    /\ ~ Locked(r)
    /\ run' = [run EXCEPT ![r].status = "cancelled"]
    /\ UNCHANGED <<call, drafts, said, fate, shown, crashes>>

-------------------------------------------------------------------------------
(* runSkillOnItem, after openRun: the model is asked, what it proposes is   *)
(* inserted, and the run is settled by a patch keyed by its id alone.       *)

SkillProposes(c) ==
    /\ call[c].stage = "model"
    /\ drafts' = drafts \union call[c].of
    /\ Reach(c, "drafted")
    /\ UNCHANGED <<run, said, fate, shown, crashes>>

SkillSucceeds(c) ==
    /\ call[c].stage \in {"model", "drafted"}
    /\ \E r \in call[c].of :
          /\ ~ Locked(r)
          /\ run' = [run EXCEPT ![r] = [@ EXCEPT
                        !.status = "succeeded",
                        !.trace = Append(call[c].seen.trace, NextStep(r))]]
          /\ Accept(r)
    /\ Leave(c)
    /\ UNCHANGED <<drafts, fate, shown, crashes>>

SkillFails(c) ==
    /\ call[c].stage = "model"
    /\ \E r \in call[c].of :
          /\ ~ Locked(r)
          /\ run' = [run EXCEPT ![r].status = "failed"]
    /\ Leave(c)
    /\ UNCHANGED <<drafts, said, fate, shown, crashes>>

(* The process that serves a request dies: its transaction rolls back.      *)
Crash(c) ==
    /\ call[c].stage # "idle"
    /\ crashes < MaxCrashes
    /\ crashes' = crashes + 1
    /\ Leave(c)
    /\ UNCHANGED <<run, drafts, said, fate, shown>>

Next ==
    \/ \E c \in Calls :
          \/ \E a \in Agents \union {Nobody}, i \in Items : StartOpen(c, a, i)
          \/ Find(c) \/ Insert(c) \/ InsertRefused(c) \/ Refind(c)
          \/ \E r \in Runs : (\E a \in Agents : ReportReads(c, a, r)) \/ SteerReads(c, r)
          \/ ReportWrites(c) \/ SteerWrites(c)
          \/ SkillProposes(c) \/ SkillSucceeds(c) \/ SkillFails(c) \/ Crash(c)
    \/ \E r \in Runs : Cancel(r)

Spec == Init /\ [][Next]_vars

-------------------------------------------------------------------------------
(* Types, and that a call is on one run exactly from the time it has one.   *)
TypeOK ==
    /\ run \in [Runs -> [status : Statuses, agent : Agents \union {Nobody},
                         item : SUBSET Items, note : Notes \union {NoNote}, trace : Seq(Nat)]]
    /\ call \in [Calls -> [stage : Stages, agent : Agents \union {Nobody}, item : SUBSET Items,
                           of : SUBSET Runs,
                           seen : [status : Statuses, agent : Agents \union {Nobody},
                                   item : SUBSET Items, note : Notes \union {NoNote},
                                   trace : Seq(Nat)]]]
    /\ \A c \in Calls :
          call[c].stage \in {"report", "steer", "model", "drafted"} <=> \E r \in Runs : call[c].of = {r}
    /\ drafts \subseteq Runs
    /\ said \in [Runs -> Seq(Nat)]
    /\ fate \in [Notes -> Fates]
    /\ shown \subseteq Notes
    /\ crashes \in 0..MaxCrashes

Owned(r) == run[r].agent # Nobody

(* "Two agents working the same item is a legitimate thing, one agent       *)
(* working it twice is not" (store.ts): however its calls race to open one, *)
(* an agent has at most one unfinished run on an item.                      *)
OneActiveRun ==
    \A a \in Agents, i \in Items : Cardinality(ActiveRuns(a, {i})) <= 1

(* "A report could write running over a cancellation and undo it" (the race *)
(* AR-01): it no longer can.  The run of a connected agent, once over, has  *)
(* the outcome and the trace it ended with.                                 *)
OwnedRunStaysFinished ==
    [][\A r \in Runs : Owned(r) /\ run[r].status \in Terminal =>
            run'[r].status = run[r].status /\ run'[r].trace = run[r].trace]_vars

(* A steering note "can no longer be cleared undelivered" (AR-02): a note   *)
(* that no report has taken and no later one has replaced is still in its   *)
(* slot, whatever opens have shown of it; one that has been is not; and no  *)
(* second report, nor one that came after the replacement, takes it again.  *)
NoNoteClearedUndelivered ==
    \A n \in Notes :
        /\ fate[n] = "waiting" <=> \E r \in Runs : run[r].note = n
        /\ fate[n] # "again"

(* "Two reports could each write a whole replacement trace, losing a step": *)
(* a trace is exactly the latest accepted steps, in the order they were     *)
(* accepted, up to the cap.                                                 *)
TraceIsLatestSteps ==
    \A r \in Runs :
        run[r].trace = SubSeq(said[r],
                              IF Len(said[r]) > MaxTrace THEN Len(said[r]) - MaxTrace + 1 ELSE 1,
                              Len(said[r]))

(* Every call is one step, on the row as it is when the step is taken: the  *)
(* lock, the unique index and the WHERE clauses leave nothing to be seen of *)
(* what a call had read earlier.                                            *)
Atomic == INSTANCE AtomicRuns WITH
    row <- run,
    steps <- [r \in Runs |-> Len(said[r])],
    delivered <- {n \in Notes : fate[n] \in {"delivered", "again"}}

ImplementsAtomicRuns == Atomic!Spec

(* Succeeded, failed and cancelled are the statuses of "a run nobody can    *)
(* change any more" (types.ts), for a skill run as for any other.           *)
FinishedRunStaysFinished ==
    [][\A r \in Runs : run[r].status \in Terminal => run'[r].status = run[r].status]_vars
===============================================================================
