------------------------------ MODULE Schedules ------------------------------
(***************************************************************************)
(* Scheduled skill runs (apps/web/src/lib/schedules: dispatcher.ts and     *)
(* store.ts, and apps/web/src/lib/schedules-service.ts).                   *)
(*                                                                         *)
(* Every server process sweeps once a minute.  A sweep leases what is due, *)
(* fires it one schedule after the other (each firing is a model call),    *)
(* writes what came of it to the row by id, and announces a failure        *)
(* through the outbox.  Owners edit and delete schedules meanwhile.  What  *)
(* a firing does to runs is AgentRuns' business; here it ends well or not. *)
(***************************************************************************)
EXTENDS Integers, FiniteSets

CONSTANTS
    Schedules,      \* ids of agent_schedules rows
    Sweepers,       \* server processes, each with one dispatcher
    ClaimLimit,     \* CLAIM_LIMIT: schedules one sweep takes
    GiveUpAfter,    \* GIVE_UP_AFTER: consecutive failures before the stop
    MaxDisturbances \* bound: edits, deletions, crashes, outlived leases and lost
                    \* announcements together

ASSUME SchedulesAssumption ==
    /\ ClaimLimit \in Nat \ {0}
    /\ GiveUpAfter \in Nat \ {0}
    /\ MaxDisturbances \in Nat

VARIABLES
    row,        \* per schedule: is it there yet or still, enabled, when due, how many failures
    sweep,      \* per process: sweepOnce's and fireOne's local state
    said,       \* schedules whose switching off has been announced
    failed,     \* history: failed firings in a row since the last edit or success
    inRow,      \* history: failed firings in a row since the last success
    lapsed,     \* history: made due again under a sweep that still had it in hand
    muddled,    \* history: edited under a sweep that still had it in hand
    edits, mishaps   \* what the bounds count, so far

past == <<failed, inRow, lapsed, muddled>>
vars == <<row, sweep, said, failed, inRow, lapsed, muddled, edits, mishaps>>

Dues == {"now", "lease", "later", "never"}
Stages == {"idle", "next", "firing", "failed", "announce", "off"}

NoRow == [life |-> "absent", enabled |-> FALSE, due |-> "never", failures |-> 0]

(* batch: the claimed rows not yet fired; at: the schedule being fired;     *)
(* seen: the failure counts the claim returned.                             *)
AtRest == [stage |-> "idle", batch |-> {}, at |-> {}, seen |-> [s \in Schedules |-> 0]]

Init ==
    /\ row = [s \in Schedules |-> NoRow]
    /\ sweep = [w \in Sweepers |-> AtRest]
    /\ said = {}
    /\ failed = [s \in Schedules |-> 0]
    /\ inRow = [s \in Schedules |-> 0]
    /\ lapsed = {}
    /\ muddled = {}
    /\ edits = 0
    /\ mishaps = 0

Exists(s) == row[s].life = "there"

Mishap == edits + mishaps < MaxDisturbances /\ mishaps' = mishaps + 1
Edited == edits + mishaps < MaxDisturbances /\ edits' = edits + 1

(* A sweep has the schedule in hand until it has recorded its firing.       *)
InHand(w, s) ==
    \/ s \in sweep[w].batch
    \/ s \in sweep[w].at /\ sweep[w].stage \in {"firing", "failed"}
Holders(s) == {w \in Sweepers : InHand(w, s)}

(* A row written while no sweep has it in hand owes nothing to older ones.  *)
Settled(s) == lapsed' = lapsed \ {s} /\ muddled' = muddled \ {s}

-------------------------------------------------------------------------------
(* Owners.                                                                  *)

createSchedule(s) ==
    /\ row[s].life = "absent"
    /\ \E on \in BOOLEAN :
          row' = [row EXCEPT ![s] = [life |-> "there", enabled |-> on, due |-> "later", failures |-> 0]]
    /\ UNCHANGED <<sweep, said, past, edits, mishaps>>

(* Every edit starts the schedule clean and computes a new next run.        *)
updateSchedule(s) ==
    /\ Exists(s)
    /\ Edited
    /\ \E on \in BOOLEAN :
          row' = [row EXCEPT ![s] = [@ EXCEPT !.enabled = on, !.due = "later", !.failures = 0]]
    /\ failed' = [failed EXCEPT ![s] = 0]
    /\ said' = said \ {s}
    /\ IF Holders(s) = {}
       THEN Settled(s)
       ELSE muddled' = muddled \union {s} /\ UNCHANGED lapsed
    /\ UNCHANGED <<sweep, inRow, mishaps>>

removeSchedule(s) ==
    /\ Exists(s)
    /\ row' = [row EXCEPT ![s] = [NoRow EXCEPT !.life = "deleted"]]
    /\ Edited
    /\ UNCHANGED <<sweep, said, past, mishaps>>

(* next_run_at passes.  The lease outlives a firing, but it is one lease    *)
(* for a whole batch of firings in a row.                                   *)
TimePasses(s) ==
    /\ row[s].due \in {"lease", "later"}
    /\ \/ Holders(s) = {} /\ UNCHANGED <<lapsed, mishaps>>
       \/ Holders(s) # {} /\ Mishap /\ lapsed' = lapsed \union {s}
    /\ row' = [row EXCEPT ![s].due = "now"]
    /\ UNCHANGED <<sweep, said, failed, inRow, muddled, edits>>

-------------------------------------------------------------------------------
(* sweepOnce.                                                               *)

(* Mutant: a lease that never ends.                                         *)
LeasedForGood(r) == [r EXCEPT !.due = "never"]

(* Mutant: the row stays due.                                               *)
LeasedNotAtAll(r) == r

Leased(r) == [r EXCEPT !.due = "lease"]

Due == {s \in Schedules : row[s].enabled /\ row[s].due = "now"}

(* claimDueSchedules: one statement; a sweep under way lets the tick pass.  *)
Claim(w) ==
    /\ sweep[w].stage = "idle"
    /\ Due # {}
    /\ \E B \in SUBSET Due :
          /\ Cardinality(B) = IF Cardinality(Due) < ClaimLimit THEN Cardinality(Due) ELSE ClaimLimit
          /\ row' = [s \in Schedules |-> IF s \in B THEN Leased(row[s]) ELSE row[s]]
          /\ sweep' = [sweep EXCEPT ![w] =
                [AtRest EXCEPT !.stage = "next", !.batch = B,
                               !.seen = [s \in Schedules |-> IF s \in B THEN row[s].failures ELSE 0]]]
    /\ UNCHANGED <<said, past, edits, mishaps>>

Fire(w) ==
    /\ sweep[w].stage = "next"
    /\ \E s \in sweep[w].batch :
          sweep' = [sweep EXCEPT ![w] = [@ EXCEPT !.stage = "firing", !.at = {s},
                                                  !.batch = sweep[w].batch \ {s}]]
    /\ UNCHANGED <<row, said, past, edits, mishaps>>

(* The item or the skill is gone, the owner may not, the model failed.      *)
FiringFails(w) ==
    /\ sweep[w].stage = "firing"
    /\ sweep' = [sweep EXCEPT ![w].stage = "failed"]
    /\ UNCHANGED <<row, said, past, edits, mishaps>>

(* UPDATE ... WHERE id: what is left of a row that is still there.          *)
Recorded(s, change) == IF Exists(s) THEN change ELSE row[s]

(* Mutant: the schedule just fired stays in hand.                           *)
MovedOnUncleared(w) == [sweep EXCEPT ![w].stage = "next"]

MovedOn(w) == [sweep EXCEPT ![w] = [@ EXCEPT !.stage = "next", !.at = {}]]

RecordSuccess(w) ==
    /\ sweep[w].stage = "firing"
    /\ \E s \in sweep[w].at :
          /\ row' = [row EXCEPT ![s] = Recorded(s, [@ EXCEPT !.due = "later", !.failures = 0])]
          /\ failed' = [failed EXCEPT ![s] = 0]
          /\ inRow' = [inRow EXCEPT ![s] = 0]
          /\ muddled' = muddled \ {s}
          /\ lapsed' = IF Holders(s) = {w} THEN lapsed \ {s} ELSE lapsed
    /\ sweep' = MovedOn(w)
    /\ UNCHANGED <<said, edits, mishaps>>

(* Mutant: the claimed row's count is written back.                         *)
FailuresAsClaimed(w, s) == sweep[w].seen[s]

(* consecutiveFailures + 1 of the claimed row.                              *)
Failures(w, s) == sweep[w].seen[s] + 1

(* Mutant: the stop comes a failure early.                                  *)
AfterFailureEager(w, s) ==
    [row[s] EXCEPT !.due = "later", !.failures = Failures(w, s),
                   !.enabled = @ /\ Failures(w, s) + 1 < GiveUpAfter]

(* enabled is written only to give up.                                      *)
AfterFailure(w, s) ==
    [row[s] EXCEPT !.due = "later", !.failures = Failures(w, s),
                   !.enabled = @ /\ Failures(w, s) < GiveUpAfter]

RecordFailure(w) ==
    /\ sweep[w].stage = "failed"
    /\ \E s \in sweep[w].at :
          /\ row' = [row EXCEPT ![s] = Recorded(s, AfterFailure(w, s))]
          /\ failed' = [failed EXCEPT ![s] = @ + 1]
          /\ inRow' = [inRow EXCEPT ![s] = @ + 1]
          /\ sweep' = [sweep EXCEPT ![w].stage =
                          IF Failures(w, s) >= GiveUpAfter THEN "off" ELSE "announce"]
    /\ UNCHANGED <<said, lapsed, muddled, edits, mishaps>>

(* Mutant: a stop is announced like any failure.                            *)
AnnouncedAsFailure(w) == said

Announced(w) == IF sweep[w].stage = "off" THEN said \union sweep[w].at ELSE said

(* announceFailure: an outbox row, or an error nobody hears of.             *)
AnnounceFailure(w) ==
    /\ sweep[w].stage \in {"announce", "off"}
    /\ \/ /\ said' = Announced(w)
          /\ UNCHANGED mishaps
       \/ Mishap /\ UNCHANGED said
    /\ sweep' = MovedOn(w)
    /\ UNCHANGED <<row, past, edits>>

EndSweep(w) ==
    /\ sweep[w].stage = "next"
    /\ sweep[w].batch = {}
    /\ sweep' = [sweep EXCEPT ![w] = AtRest]
    /\ UNCHANGED <<row, said, past, edits, mishaps>>

(* The process dies, or recordFiring fails and takes the sweep with it:     *)
(* what it had in hand is due again when the lease ends.                    *)
Crash(w) ==
    /\ sweep[w].stage # "idle"
    /\ Mishap
    /\ sweep' = [sweep EXCEPT ![w] = AtRest]
    /\ UNCHANGED <<row, said, past, edits>>

SweepStep(w) ==
    \/ Fire(w) \/ FiringFails(w) \/ RecordSuccess(w) \/ RecordFailure(w)
    \/ AnnounceFailure(w) \/ EndSweep(w)

Next ==
    \/ \E s \in Schedules :
          createSchedule(s) \/ updateSchedule(s) \/ removeSchedule(s) \/ TimePasses(s)
    \/ \E w \in Sweepers : Claim(w) \/ SweepStep(w) \/ Crash(w)

Spec == Init /\ [][Next]_vars

(* The clock advances, the interval of each process keeps ticking, and a    *)
(* sweep that has begun goes on (a model call has a timeout).               *)
Fairness ==
    /\ \A s \in Schedules : WF_vars(TimePasses(s))
    /\ \A w \in Sweepers : WF_vars(Claim(w)) /\ WF_vars(SweepStep(w))

FairSpec == Spec /\ Fairness

-------------------------------------------------------------------------------
(* Types, and that a sweep has one schedule in hand exactly while it fires  *)
(* one.                                                                     *)
TypeOK ==
    /\ row \in [Schedules -> [life : {"absent", "there", "deleted"}, enabled : BOOLEAN, due : Dues, failures : Nat]]
    /\ sweep \in [Sweepers -> [stage : Stages, batch : SUBSET Schedules,
                               at : SUBSET Schedules, seen : [Schedules -> Nat]]]
    /\ \A w \in Sweepers :
          sweep[w].stage \notin {"idle", "next"} <=> \E s \in Schedules : sweep[w].at = {s}
    /\ said \subseteq Schedules
    /\ failed \in [Schedules -> Nat]
    /\ inRow \in [Schedules -> Nat]
    /\ lapsed \subseteq Schedules
    /\ muddled \subseteq Schedules
    /\ {edits, mishaps} \subseteq 0..MaxDisturbances

(* "A lease shorter than the work would let a second sweep pick up a        *)
(* schedule that is still running" (dispatcher.ts): unless a schedule was   *)
(* due again while a sweep had it in hand, no two sweeps fire it at once,   *)
(* however its owner edits it meanwhile.                                    *)
OneSweepPerSchedule ==
    \A s \in Schedules \ lapsed : Cardinality(Holders(s)) <= 1

(* The count that decides about the stop is computed from a row read before *)
(* the firing, and may undo an edit made during it.  It never forgets a     *)
(* failure since the last edit, never counts what did not fail in a row,    *)
(* and is exact again after a success, or an edit between two firings.      *)
FailureCountIsTrue ==
    \A s \in Schedules \ lapsed :
        Exists(s) => /\ failed[s] <= row[s].failures
                     /\ row[s].failures <= inRow[s]
                     /\ s \notin muddled => row[s].failures = failed[s]

(* So a firing switches off only a schedule that failed that often in a     *)
(* row; and since its last edit, unless that edit came during a firing.     *)
StoppedOnlyAfterFailures ==
    [][\A s \in Schedules \ lapsed :
          row[s].enabled /\ Exists(s)' /\ ~ row'[s].enabled =>
              \/ edits' > edits
              \/ /\ inRow'[s] >= GiveUpAfter
                 /\ s \notin muddled => failed'[s] >= GiveUpAfter]_vars

(* Nothing but its owner's edit switches a schedule on: no firing under way *)
(* undoes a stop.                                                           *)
OnlyOwnersSwitchOn ==
    [][\A s \in Schedules :
          Exists(s) /\ ~ row[s].enabled /\ row'[s].enabled => edits' > edits]_vars

(* "A firing that crashes leaves a row that becomes due again after the     *)
(* lease rather than one that is lost" (store.ts): an enabled schedule that *)
(* is due has its firing recorded in the end, unless it is switched off.    *)
EveryDueScheduleFires ==
    \A s \in Schedules :
        row[s].enabled /\ row[s].due = "now" ~> ~ row[s].enabled \/ row[s].due = "later"

(* "Being switched off is itself announced" (dispatcher.ts): a schedule     *)
(* that gave up says so, or is edited or deleted first, as long as no       *)
(* process dies and no announcement is swallowed (the row is written before *)
(* the announcement, in a transaction of its own).                          *)
StopIsAnnounced ==
    \A s \in Schedules :
        Exists(s) /\ failed[s] >= GiveUpAfter ~>
            s \in said \/ failed[s] = 0 \/ ~ Exists(s) \/ mishaps > 0
===============================================================================
