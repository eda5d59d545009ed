---------------------------- MODULE WebhookDelivery ----------------------------
(***************************************************************************)
(* The delivery drainer (apps/web/src/lib/webhooks/drainer.ts, store.ts):  *)
(* due deliveries are leased, POSTed outside any transaction, and their    *)
(* outcome recorded by statements of their own, each keyed by the row's id *)
(* alone.                                                                  *)
(*                                                                         *)
(* A worker is one deliverOne call in flight.  The workers of one process  *)
(* run concurrently (Promise.all) exactly as those of two processes do, so *)
(* the model does not tell them apart; a claim of a batch is as many       *)
(* claims of one row.  Time is not counted: a lease or a backoff ends when *)
(* TimePasses, which a worker still busy with that row survives a bounded  *)
(* number of times (a POST is cut off after 5 s and the shortest of these  *)
(* delays is 60 s, but DNS, the database and a suspended machine are not). *)
(***************************************************************************)
EXTENDS Integers, FiniteSets

CONSTANTS
    Deliveries,      \* webhook_deliveries rows
    Endpoints,       \* webhook_endpoints rows
    EndpointOf,      \* the endpoint each delivery goes to
    Workers,         \* deliverOne calls that may be in flight at once
    Budget,          \* Len(BACKOFF_SECONDS): failed attempts that are retried
    Threshold,       \* WEBHOOK_FAILURE_DISABLE_THRESHOLD
    MaxMishaps       \* bound: requeues, lapses, crashes and settings changes together

ASSUME DeliveryAssumption ==
    /\ EndpointOf \in [Deliveries -> Endpoints]
    /\ Budget \in Nat
    /\ Threshold \in Nat \ {0}
    /\ MaxMishaps \in Nat

VARIABLES
    row,         \* per delivery: status, attempts, and when it is next due
    ep,          \* per endpoint: does it exist, is it active, its streak
    job,         \* per worker: what it is doing, for which row, at which attempt
    owed,        \* history: requeued and not claimed since
    exposed,     \* history: requeued or due again under a worker busy with the row
    lost,        \* history: attempts of each delivery lost to a crash or a lapse
    mishaps      \* what MaxMishaps bounds, so far

vars == <<row, ep, job, owed, exposed, lost, mishaps>>

Statuses == {"none", "pending", "delivered", "failed", "deleted"}
Dues == {"now", "lease", "backoff", "never"}
Phases == {"idle", "claimed", "off", "post", "ok", "refused", "blocked", "reset", "streak"}

(* Phases in which a worker has yet to write the row it claimed.            *)
Busy == {"claimed", "off", "post", "ok", "refused", "blocked"}

Idle == [phase |-> "idle", of |-> {}, attempt |-> 0]

Init ==
    /\ row = [d \in Deliveries |-> [status |-> "none", attempts |-> 0, due |-> "never"]]
    /\ ep = [p \in Endpoints |-> [exists |-> TRUE, active |-> TRUE, streak |-> 0]]
    /\ job = [w \in Workers |-> Idle]
    /\ owed = {}
    /\ exposed = {}
    /\ lost = [d \in Deliveries |-> 0]
    /\ mishaps = 0

(* What the bound counts.                                                   *)
Mishap == mishaps < MaxMishaps /\ mishaps' = mishaps + 1

Live(d) == row[d].status \notin {"none", "deleted"}
WorkersOn(d) == {w \in Workers : job[w].phase \in Busy /\ d \in job[w].of}
Target(w) == EndpointOf[CHOOSE d \in Deliveries : d \in job[w].of]

-------------------------------------------------------------------------------
(* The relay inserts a row for an endpoint it has just found active; the    *)
(* columns' defaults make it pending, untried and due now.                  *)
Enqueue(d) ==
    /\ row[d].status = "none"
    /\ ep[EndpointOf[d]].exists
    /\ row' = [row EXCEPT ![d] = [status |-> "pending", attempts |-> 0, due |-> "now"]]
    /\ UNCHANGED <<ep, job, owed, exposed, lost, mishaps>>

(* next_attempt_at passes.  Under a worker still busy with the row it is a  *)
(* lapse: the row can be claimed again while the first worker is at it.     *)
TimePasses(d) ==
    /\ row[d].due \in {"lease", "backoff"}
    /\ \/ WorkersOn(d) = {} /\ UNCHANGED <<exposed, lost, mishaps>>
       \/ /\ WorkersOn(d) # {}
          /\ Mishap
          /\ exposed' = exposed \union {d}
          /\ lost' = [lost EXCEPT ![d] = @ + 1]
    /\ row' = [row EXCEPT ![d].due = "now"]
    /\ UNCHANGED <<ep, job, owed>>

(* Mutants: a claim that takes no lease; one whose lease never ends.        *)
LeasedNotAtAll(r) == [r EXCEPT !.attempts = @ + 1]
LeasedForGood(r) == [r EXCEPT !.attempts = @ + 1, !.due = "never"]

(* The row a claim leaves behind.                                           *)
Leased(r) == [r EXCEPT !.attempts = @ + 1, !.due = "lease"]

(* claimDueDeliveries: one statement.                                       *)
Claim(w, d) ==
    /\ job[w].phase = "idle"
    /\ row[d].status = "pending"
    /\ row[d].due = "now"
    /\ row' = [row EXCEPT ![d] = Leased(@)]
    /\ job' = [job EXCEPT ![w] = [phase |-> "claimed", of |-> {d},
                                  attempt |-> row[d].attempts + 1]]
    /\ owed' = owed \ {d}
    /\ UNCHANGED <<ep, exposed, lost, mishaps>>

(* endpointDeliveryTarget.                                                  *)
ReadTarget(w) ==
    /\ job[w].phase = "claimed"
    /\ LET t == ep[Target(w)] IN
         job' = [job EXCEPT ![w].phase = IF t.exists /\ t.active THEN "post" ELSE "off"]
    /\ UNCHANGED <<row, ep, owed, exposed, lost, mishaps>>

(* postSignedEnvelope: a 2xx; any other answer, an error or a timeout (the  *)
(* endpoint may have taken the event all the same); or a URL that no longer *)
(* passes the address check, in which case nothing is sent.                 *)
Post(w) ==
    /\ job[w].phase = "post"
    /\ \E answer \in {"ok", "refused", "blocked"} :
         job' = [job EXCEPT ![w].phase = answer]
    /\ UNCHANGED <<row, ep, owed, exposed, lost, mishaps>>

-------------------------------------------------------------------------------
(* Mutant: the WHERE clause is missing.                                     *)
WrittenEverywhere(w, status, due) ==
    [d \in Deliveries |->
        IF Live(d) THEN [row[d] EXCEPT !.status = status, !.due = due] ELSE row[d]]

(* Recording the outcome.  UPDATE ... WHERE id = the row's id: whatever the *)
(* row has become meanwhile, unless it is gone.                             *)
Written(w, status, due) ==
    [d \in Deliveries |->
        IF d \in job[w].of /\ Live(d)
        THEN [row[d] EXCEPT !.status = status, !.due = due]
        ELSE row[d]]

(* Mutant: the row a worker is at is forgotten with its phase.              *)
FinishForgetting(w, phase) == job' = [job EXCEPT ![w] = [Idle EXCEPT !.phase = phase]]

(* The statement is done; the worker goes on to the endpoint or is free.    *)
Finish(w, phase) ==
    job' = [job EXCEPT ![w] = IF phase = "idle" THEN Idle ELSE [@ EXCEPT !.phase = phase]]

MarkDelivered(w) ==
    /\ job[w].phase = "ok"
    /\ row' = Written(w, "delivered", "never")
    /\ Finish(w, "reset")
    /\ UNCHANGED <<ep, owed, exposed, lost, mishaps>>

(* Mutant: the table is read one entry too far.                             *)
BudgetSpentLate(w) == job[w].attempt > Budget + 1

(* BACKOFF_SECONDS[d.attempts - 1] is undefined.                            *)
BudgetSpent(w) == job[w].attempt > Budget

MarkRetry(w) ==
    /\ job[w].phase = "refused"
    /\ ~ BudgetSpent(w)
    /\ row' = Written(w, "pending", "backoff")
    /\ Finish(w, "idle")
    /\ UNCHANGED <<ep, owed, exposed, lost, mishaps>>

(* The budget is spent, or the URL is blocked: a give-up.                   *)
GiveUp(w) ==
    /\ \/ job[w].phase = "refused" /\ BudgetSpent(w)
       \/ job[w].phase = "blocked"
    /\ row' = Written(w, "failed", "never")
    /\ Finish(w, "streak")
    /\ UNCHANGED <<ep, owed, exposed, lost, mishaps>>

(* The endpoint is off or gone: the row fails, the streak is not touched.   *)
MarkInactive(w) ==
    /\ job[w].phase = "off"
    /\ row' = Written(w, "failed", "never")
    /\ Finish(w, "idle")
    /\ UNCHANGED <<ep, owed, exposed, lost, mishaps>>

(* resetEndpointFailures.                                                   *)
ResetStreak(w) ==
    /\ job[w].phase = "reset"
    /\ ep' = [ep EXCEPT ![Target(w)].streak = 0]
    /\ Finish(w, "idle")
    /\ UNCHANGED <<row, owed, exposed, lost, mishaps>>

(* Mutant: the decision sees the streak before the increment.               *)
BumpedLate(e) ==
    [e EXCEPT !.streak = @ + 1, !.active = @ /\ e.streak < Threshold]

(* The endpoint after one more give-up: recordEndpointFailure, increment    *)
(* and disable decision in one statement.                                   *)
Bumped(e) ==
    [e EXCEPT !.streak = @ + 1, !.active = @ /\ e.streak + 1 < Threshold]

BumpStreak(w) ==
    /\ job[w].phase = "streak"
    /\ LET p == Target(w) IN
         ep' = [ep EXCEPT ![p] = IF @.exists THEN Bumped(@) ELSE @]
    /\ Finish(w, "idle")
    /\ UNCHANGED <<row, owed, exposed, lost, mishaps>>

(* The process dies, or a database or decryption error leaves deliverOne    *)
(* (drainOnce swallows it): the claim stays until its lease ends.           *)
Crash(w) ==
    /\ job[w].phase # "idle"
    /\ Mishap
    /\ lost' = [d \in Deliveries |-> IF d \in job[w].of THEN lost[d] + 1 ELSE lost[d]]
    /\ Finish(w, "idle")
    /\ UNCHANGED <<row, ep, owed, exposed>>

-------------------------------------------------------------------------------
(* The settings page.                                                       *)

(* requeueDelivery: unconditional on the row's status.                      *)
Requeued(r) == [status |-> "pending", attempts |-> 0, due |-> "now"]

Requeue(d) ==
    /\ Live(d)
    /\ Mishap
    /\ lost' = [lost EXCEPT ![d] = 0]
    /\ row' = [row EXCEPT ![d] = Requeued(@)]
    /\ owed' = owed \union {d}
    /\ exposed' = IF WorkersOn(d) # {} THEN exposed \union {d} ELSE exposed
    /\ UNCHANGED <<ep, job>>

Pause(p) ==
    /\ ep[p].exists /\ ep[p].active
    /\ Mishap
    /\ ep' = [ep EXCEPT ![p].active = FALSE]
    /\ UNCHANGED <<row, job, owed, exposed, lost>>

(* updateEndpoint with active = true: a manual resume clears the streak.    *)
Resume(p) ==
    /\ ep[p].exists
    /\ Mishap
    /\ ep' = [ep EXCEPT ![p] = [@ EXCEPT !.active = TRUE, !.streak = 0]]
    /\ UNCHANGED <<row, job, owed, exposed, lost>>

(* deleteEndpoint: its deliveries go with it (foreign key cascade).         *)
DeleteEndpoint(p) ==
    /\ ep[p].exists
    /\ Mishap
    /\ ep' = [ep EXCEPT ![p] = [exists |-> FALSE, active |-> FALSE, streak |-> 0]]
    /\ row' = [d \in Deliveries |->
                  IF EndpointOf[d] = p /\ Live(d)
                  THEN [row[d] EXCEPT !.status = "deleted", !.due = "never"] ELSE row[d]]
    /\ UNCHANGED <<job, owed, exposed, lost>>

WorkerStep(w) ==
    \/ ReadTarget(w) \/ Post(w) \/ MarkDelivered(w) \/ MarkRetry(w) \/ GiveUp(w)
    \/ MarkInactive(w) \/ ResetStreak(w) \/ BumpStreak(w)

Next ==
    \/ \E d \in Deliveries : Enqueue(d) \/ TimePasses(d) \/ Requeue(d)
    \/ \E w \in Workers :
          \/ \E d \in Deliveries : Claim(w, d)
          \/ WorkerStep(w) \/ Crash(w)
    \/ \E p \in Endpoints : Pause(p) \/ Resume(p) \/ DeleteEndpoint(p)

Spec == Init /\ [][Next]_vars

(* A sweep runs every 30 s and claims what is due, oldest due first; a      *)
(* deliverOne call in flight goes on; clocks advance.                       *)
Fairness ==
    /\ \A d \in Deliveries : /\ WF_vars(TimePasses(d))
                             /\ WF_vars(\E w \in Workers : Claim(w, d))
    /\ \A w \in Workers : WF_vars(WorkerStep(w))

FairSpec == Spec /\ Fairness

-------------------------------------------------------------------------------
(* Types, and that a worker busy with a delivery is busy with one.          *)
TypeOK ==
    /\ row \in [Deliveries -> [status : Statuses, attempts : Nat, due : Dues]]
    /\ ep \in [Endpoints -> [exists : BOOLEAN, active : BOOLEAN, streak : Nat]]
    /\ job \in [Workers -> [phase : Phases, of : SUBSET Deliveries, attempt : Nat]]
    /\ \A w \in Workers : job[w].phase # "idle" => Cardinality(job[w].of) = 1
    /\ owed \subseteq Deliveries
    /\ exposed \subseteq Deliveries
    /\ lost \in [Deliveries -> Nat]
    /\ mishaps \in 0..MaxMishaps

(* The lease stands in for a lock that is not held during the POST: unless  *)
(* somebody requeued the row, or its lease ran out, under a worker still    *)
(* busy with it, no two workers send the same delivery.                     *)
OneWorkerPerDelivery ==
    \A d \in Deliveries \ exposed : Cardinality(WorkersOn(d)) <= 1

(* And then a delivery the log shows as delivered stays so until somebody   *)
(* requeues it: no late outcome and no write meant for another row reopens  *)
(* it.                                                                      *)
DeliveredIsFinal ==
    [][\A d \in Deliveries \ exposed : row[d].status = "delivered" =>
            \/ row'[d].status \in {"delivered", "deleted"}
            \/ d \in owed']_vars

(* A delivery is tried at most Budget + 1 times, plus one for every try     *)
(* that was lost to a crash or to a lapsed lease: retries are bounded.      *)
BudgetRespected ==
    \A d \in Deliveries : row[d].attempts <= Budget + 1 + lost[d]

(* An endpoint that still gets events has a streak below the threshold,     *)
(* however increments, resets, pauses and resumes interleave.               *)
ActiveBelowThreshold ==
    \A p \in Endpoints : ep[p].active => ep[p].streak < Threshold

(* "A crash mid-POST makes the row due again" (store.ts): every delivery is *)
(* settled in the end, by success, by give-up or by its endpoint's removal. *)
EveryDeliverySettles ==
    \A d \in Deliveries : row[d].status = "pending" ~> row[d].status # "pending"

(* "Re-queue a delivery for an immediate send" (store.ts): a redelivered    *)
(* row is not given up before somebody has claimed it again.                *)
RequeueGetsItsSend ==
    \A d \in owed : row[d].status # "failed"
===============================================================================
