------------------------------ MODULE OutboxRelay ------------------------------
(***************************************************************************)
(* The transactional outbox and the relay that empties it                  *)
(* (apps/web/src/lib/webhooks/relay.ts, the drainOnce loop of drainer.ts,  *)
(* and the fan-out of notifications/fanout.ts that runs in the same        *)
(* transaction).                                                           *)
(*                                                                         *)
(* A domain write commits together with an outbox event.  Every server     *)
(* process runs a relay: it reads the ids of the oldest unprocessed        *)
(* events without a lock, then expands each one in a transaction of its    *)
(* own (row lock with SKIP LOCKED, delivery rows, in-app notices and the   *)
(* processedAt stamp), and mails what the transaction built only after it  *)
(* has committed.                                                          *)
(*                                                                         *)
(* A transaction is modelled from lock to commit: what it writes becomes   *)
(* visible in Commit and is gone in Abort or Crash.  The database is       *)
(* PostgreSQL: a statement that fails aborts its transaction, whatever the *)
(* JavaScript around it catches.                                           *)
(***************************************************************************)
EXTENDS Integers, FiniteSets

CONSTANTS
    Events,      \* outbox event ids; a smaller id was created earlier
    Endpoints,   \* webhook endpoints subscribed to the events' type
    Relays,      \* server processes, each running one relay
    NoOne,       \* "this row is not locked"
    Batch,       \* BATCH: ids one relay pass reads
    Poison,      \* events whose fan-out hits an SQL error every time
    MaxFaults,   \* bound: transient SQL errors in a fan-out
    MaxCrashes   \* bound: process crashes

ASSUME RelayAssumption ==
    /\ Events \subseteq Nat
    /\ NoOne \notin Relays
    /\ Batch \in Nat \ {0}
    /\ Poison \subseteq Events
    /\ MaxFaults \in Nat
    /\ MaxCrashes \in Nat

VARIABLES
    outbox,      \* outbox_events: what became of each event
    lock,        \* the row lock a relay's transaction holds on an event
    rows,        \* webhook_deliveries committed, per event and endpoint
    notices,     \* in-app fan-outs committed, per event
    mailed,      \* mailings begun, per event
    active,      \* endpoints whose active flag is set
    proc,        \* is the process up, and its draining / rerun / kick flags
    relay,       \* where relayOutbox is in each process
    faults,      \* transient fan-out errors so far
    crashes      \* crashes so far

vars == <<outbox, lock, rows, notices, mailed, active, proc, relay, faults, crashes>>

EventStates == {"absent", "pending", "processed", "pruned"}
Stages == {"idle", "relay", "expand", "stamp", "mail"}

(* The local variables of one relayOutbox call: the candidate ids left, the *)
(* event being expanded, the endpoints its delivery rows go to, and whether *)
(* a statement of its transaction has failed.                               *)
AtRest == [stage |-> "idle", todo |-> {}, ev |-> {}, targets |-> {}, aborted |-> FALSE]

(* A process that has just booted: one drain is scheduled (startDrainer).   *)
Booted == [up |-> TRUE, draining |-> FALSE, rerun |-> FALSE, kick |-> TRUE]

Init ==
    /\ outbox = [e \in Events |-> "absent"]
    /\ lock = [e \in Events |-> NoOne]
    /\ rows = [e \in Events |-> [p \in Endpoints |-> 0]]
    /\ notices = [e \in Events |-> 0]
    /\ mailed = [e \in Events |-> 0]
    /\ active \in SUBSET Endpoints
    /\ proc = [r \in Relays |-> Booted]
    /\ relay = [r \in Relays |-> AtRest]
    /\ faults = 0
    /\ crashes = 0

Pending == {e \in Events : outbox[e] = "pending"}

(* The unlocked read of candidates: the Batch oldest unprocessed events.    *)
Candidates == {e \in Pending : Cardinality({f \in Pending : f < e}) < Batch}

Oldest(S) == {e \in S : \A f \in S : e <= f}

-------------------------------------------------------------------------------
(* The rest of the program.                                                 *)

(* A domain write commits with its outbox row, and notifyOutbox nudges the  *)
(* drainer of the process that served it.  The process may die in between.  *)
DomainCommit(e, r) ==
    /\ outbox[e] = "absent"
    /\ proc[r].up
    /\ outbox' = [outbox EXCEPT ![e] = "pending"]
    /\ \/ proc' = [proc EXCEPT ![r].kick = TRUE]
       \/ UNCHANGED proc
    /\ UNCHANGED <<lock, rows, notices, mailed, active, relay, faults, crashes>>

(* An admin pauses or resumes an endpoint, or the drainer disables it.      *)
ToggleEndpoint(p) ==
    /\ active' = IF p \in active THEN active \ {p} ELSE active \union {p}
    /\ UNCHANGED <<outbox, lock, rows, notices, mailed, proc, relay, faults, crashes>>

(* Mutant: the sweep goes by age alone.                                     *)
PruneAnyOld(e) ==
    /\ outbox[e] \in {"pending", "processed"}
    /\ outbox' = [outbox EXCEPT ![e] = "pruned"]
    /\ UNCHANGED <<lock, rows, notices, mailed, active, proc, relay, faults, crashes>>

(* pruneProcessedOutbox: only processed rows are deleted.                   *)
Prune(e) ==
    /\ outbox[e] = "processed"
    /\ outbox' = [outbox EXCEPT ![e] = "pruned"]
    /\ UNCHANGED <<lock, rows, notices, mailed, active, proc, relay, faults, crashes>>

-------------------------------------------------------------------------------
(* drainOnce: at most one pass per process; a trigger that finds a pass     *)
(* running asks for another one.                                            *)

Trigger(r) ==
    IF proc[r].draining
    THEN /\ proc' = [proc EXCEPT ![r] = [@ EXCEPT !.rerun = TRUE, !.kick = FALSE]]
         /\ UNCHANGED relay
    ELSE /\ proc' = [proc EXCEPT ![r] = [@ EXCEPT !.draining = TRUE, !.kick = FALSE]]
         /\ relay' = [relay EXCEPT ![r] = [AtRest EXCEPT !.stage = "relay", !.todo = Candidates]]

(* The 30 s interval fires.                                                 *)
IntervalFires(r) ==
    /\ proc[r].up
    /\ Trigger(r)
    /\ UNCHANGED <<outbox, lock, rows, notices, mailed, active, faults, crashes>>

(* A drainSoon, rerun or boot timer fires.                                  *)
KickFires(r) ==
    /\ proc[r].up
    /\ proc[r].kick
    /\ Trigger(r)
    /\ UNCHANGED <<outbox, lock, rows, notices, mailed, active, faults, crashes>>

(* Mutants: the guard is not released; the pass leaves its locals behind.   *)
PassOverHolding(r) ==
    /\ relay' = [relay EXCEPT ![r] = AtRest]
    /\ proc' = [proc EXCEPT ![r] = [proc[r] EXCEPT !.rerun = FALSE, !.kick = @ \/ proc[r].rerun]]
PassOverUncleared(r) ==
    /\ relay' = [relay EXCEPT ![r].stage = "idle"]
    /\ proc' = [proc EXCEPT ![r].draining = FALSE]

(* The finally block: the guard is released, and a pass that was asked for  *)
(* meanwhile is scheduled.                                                  *)
PassOver(r) ==
    /\ relay' = [relay EXCEPT ![r] = AtRest]
    /\ proc' = [proc EXCEPT ![r] = [proc[r] EXCEPT !.draining = FALSE,
                                                   !.rerun = FALSE,
                                                   !.kick = @ \/ proc[r].rerun]]

EndPass(r) ==
    /\ relay[r].stage = "relay"
    /\ relay[r].todo = {}
    /\ PassOver(r)
    /\ UNCHANGED <<outbox, lock, rows, notices, mailed, active, faults, crashes>>

-------------------------------------------------------------------------------
(* relayOutbox and expandOne.                                               *)

(* Mutant: the locked read does not look at the stamp again.                *)
ClaimableUnlocked(e) == lock[e] = NoOne

(* What the locked read of a candidate finds.                               *)
Claimable(e) == outbox[e] = "pending" /\ lock[e] = NoOne

(* SELECT ... WHERE processed_at IS NULL FOR UPDATE SKIP LOCKED.            *)
Claim(r) ==
    /\ relay[r].stage = "relay"
    /\ \E e \in Oldest(relay[r].todo) :
         /\ Claimable(e)
         /\ lock' = [lock EXCEPT ![e] = r]
         /\ relay' = [relay EXCEPT ![r] = [relay[r] EXCEPT !.stage = "expand",
                                                           !.todo = @ \ {e},
                                                           !.ev = {e}]]
    /\ UNCHANGED <<outbox, rows, notices, mailed, active, proc, faults, crashes>>

(* The row is locked by another relay, or already processed or pruned.      *)
Skip(r) ==
    /\ relay[r].stage = "relay"
    /\ \E e \in Oldest(relay[r].todo) :
         /\ ~ Claimable(e)
         /\ relay' = [relay EXCEPT ![r].todo = @ \ {e}]
    /\ UNCHANGED <<outbox, lock, rows, notices, mailed, active, proc, faults, crashes>>

(* The matching endpoints are read and their delivery rows inserted, then   *)
(* the fan-out runs its statements.                                         *)
Expand(r) ==
    /\ relay[r].stage = "expand"
    /\ relay[r].ev \intersect Poison = {}
    /\ relay' = [relay EXCEPT ![r] = [@ EXCEPT !.stage = "stamp", !.targets = active]]
    /\ UNCHANGED <<outbox, lock, rows, notices, mailed, active, proc, faults, crashes>>

(* A statement of the fan-out fails.  fanOutNotifications catches the       *)
(* exception and returns no notice, but its transaction is aborted.         *)
ExpandFaulty(r) ==
    /\ relay[r].stage = "expand"
    /\ \/ relay[r].ev \intersect Poison # {} /\ UNCHANGED faults
       \/ relay[r].ev \intersect Poison = {} /\ faults < MaxFaults /\ faults' = faults + 1
    /\ relay' = [relay EXCEPT ![r] = [@ EXCEPT !.stage = "stamp",
                                               !.targets = active,
                                               !.aborted = TRUE]]
    /\ UNCHANGED <<outbox, lock, rows, notices, mailed, active, proc, crashes>>

(* The processedAt stamp and the commit: rows, notices and stamp together.  *)
Commit(r) ==
    /\ relay[r].stage = "stamp"
    /\ ~ relay[r].aborted
    /\ LET ev == relay[r].ev IN
         /\ outbox' = [e \in Events |-> IF e \in ev THEN "processed" ELSE outbox[e]]
         /\ lock' = [e \in Events |-> IF e \in ev THEN NoOne ELSE lock[e]]
         /\ rows' = [e \in Events |-> [p \in Endpoints |->
                        IF e \in ev /\ p \in relay[r].targets THEN rows[e][p] + 1
                                                              ELSE rows[e][p]]]
         /\ notices' = [e \in Events |-> IF e \in ev THEN notices[e] + 1 ELSE notices[e]]
    /\ relay' = [relay EXCEPT ![r].stage = "mail"]
    /\ UNCHANGED <<mailed, active, proc, faults, crashes>>

(* The stamp is refused by the aborted transaction: rollback, the error     *)
(* leaves relayOutbox and ends the whole pass (drainOnce's catch).          *)
Abort(r) ==
    /\ relay[r].stage = "stamp"
    /\ relay[r].aborted
    /\ lock' = [e \in Events |-> IF e \in relay[r].ev THEN NoOne ELSE lock[e]]
    /\ PassOver(r)
    /\ UNCHANGED <<outbox, rows, notices, mailed, active, faults, crashes>>

(* sendNotificationEmails and sendPortalEmails, after the commit.           *)
SendMail(r) ==
    /\ relay[r].stage = "mail"
    /\ mailed' = [e \in Events |-> IF e \in relay[r].ev THEN mailed[e] + 1 ELSE mailed[e]]
    /\ relay' = [relay EXCEPT ![r] = [@ EXCEPT !.stage = "relay", !.ev = {}, !.targets = {}]]
    /\ UNCHANGED <<outbox, lock, rows, notices, active, proc, faults, crashes>>

-------------------------------------------------------------------------------
(* The process dies: its transaction is rolled back, its timers and its     *)
(* unsent mail are gone.                                                    *)
Crash(r) ==
    /\ proc[r].up
    /\ crashes < MaxCrashes
    /\ crashes' = crashes + 1
    /\ proc' = [proc EXCEPT ![r] = [up |-> FALSE, draining |-> FALSE, rerun |-> FALSE, kick |-> FALSE]]
    /\ relay' = [relay EXCEPT ![r] = AtRest]
    /\ lock' = [e \in Events |-> IF lock[e] = r THEN NoOne ELSE lock[e]]
    /\ UNCHANGED <<outbox, rows, notices, mailed, active, faults>>

Restart(r) ==
    /\ ~ proc[r].up
    /\ proc' = [proc EXCEPT ![r] = Booted]
    /\ UNCHANGED <<outbox, lock, rows, notices, mailed, active, relay, faults, crashes>>

RelayStep(r) ==
    \/ EndPass(r) \/ Claim(r) \/ Skip(r) \/ Expand(r) \/ ExpandFaulty(r)
    \/ Commit(r) \/ Abort(r) \/ SendMail(r)

Next ==
    \/ \E e \in Events, r \in Relays : DomainCommit(e, r)
    \/ \E p \in Endpoints : ToggleEndpoint(p)
    \/ \E e \in Events : Prune(e)
    \/ \E r \in Relays :
          \/ IntervalFires(r) \/ KickFires(r) \/ Crash(r) \/ Restart(r)
          \/ RelayStep(r)

Spec == Init /\ [][Next]_vars

(* A running process goes on (the event loop runs what is ready), its       *)
(* interval keeps firing and a dead process is restarted by the platform.   *)
Fairness ==
    \A r \in Relays : /\ WF_vars(RelayStep(r))
                      /\ WF_vars(IntervalFires(r) /\ ~ proc[r].draining)
                      /\ WF_vars(Restart(r))

FairSpec == Spec /\ Fairness

-------------------------------------------------------------------------------
Processes == [up : BOOLEAN, draining : BOOLEAN, rerun : BOOLEAN, kick : BOOLEAN]
Passes == [stage : Stages, todo : SUBSET Events, ev : SUBSET Events,
           targets : SUBSET Endpoints, aborted : BOOLEAN]

(* Types, and that a pass works on one event exactly while it expands or    *)
(* mails it.                                                                *)
TypeOK ==
    /\ outbox \in [Events -> EventStates]
    /\ lock \in [Events -> Relays \union {NoOne}]
    /\ rows \in [Events -> [Endpoints -> Nat]]
    /\ notices \in [Events -> Nat]
    /\ mailed \in [Events -> Nat]
    /\ active \subseteq Endpoints
    /\ proc \in [Relays -> Processes]
    /\ relay \in [Relays -> Passes]
    /\ \A r \in Relays :
         relay[r].stage \in {"expand", "stamp", "mail"} <=> \E e \in Events : relay[r].ev = {e}
    /\ faults \in 0..MaxFaults
    /\ crashes \in 0..MaxCrashes

(* "Concurrent relays never double-fan-out" and "one event can never notify *)
(* twice" (relay.ts): however the candidate lists of several relays overlap *)
(* and wherever they crash, an event is expanded at most once.              *)
ExpandedAtMostOnce ==
    \A e \in Events :
        /\ notices[e] <= 1
        /\ mailed[e] <= notices[e]
        /\ \A p \in Endpoints : rows[e][p] <= notices[e]

(* The delivery rows, the notices and the stamp commit together: an event   *)
(* has effects exactly when it is stamped, so neither a crash nor a failed  *)
(* fan-out leaves half an expansion behind, and pruning, which deletes only *)
(* stamped events, never deletes one nobody has expanded.                   *)
StampedIffExpanded ==
    \A e \in Events : outbox[e] \in {"processed", "pruned"} <=> notices[e] = 1

(* A stamp is for ever: no later pass or crash puts an event back to work.  *)
StampIsFinal ==
    [][\A e \in Events : outbox[e] \in {"processed", "pruned"} =>
            /\ outbox'[e] \in {"processed", "pruned"}
            /\ rows'[e] = rows[e]]_vars

(* Every committed event is expanded in the end, through crashes and        *)
(* transient failures of the fan-out.                                       *)
EveryEventExpanded ==
    \A e \in Events : outbox[e] = "pending" ~> outbox[e] # "pending"

(* What fanOutNotifications says of itself: it never throws, because        *)
(* "failing the relay transaction over one would strand the webhook         *)
(* deliveries in the same event and retry the whole expansion forever"      *)
(* (fanout.ts).  So an event whose fan-out keeps failing is still expanded. *)
FanoutFailureStrandsNothing ==
    \A e \in Poison : outbox[e] = "pending" ~> outbox[e] # "pending"
===============================================================================
