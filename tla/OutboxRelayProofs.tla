--------------------------- MODULE OutboxRelayProofs ---------------------------
(***************************************************************************)
(* The safety of the relay, for any set of events, endpoints and server    *)
(* processes, any batch size and any number of crashes and SQL errors.     *)
(***************************************************************************)
EXTENDS OutboxRelay, TLAPS

(* The two conjuncts of TypeOK that speak of the passes.                    *)
HasOneInHand(pass) ==
    pass.stage \in {"expand", "stamp", "mail"} <=> \E e \in Events : pass.ev = {e}

PassTypes ==
    /\ relay \in [Relays -> Passes]
    /\ \A r \in Relays : HasOneInHand(relay[r])

(* A step that moves one pass keeps them, if that pass keeps them.          *)
LEMMA OnePassMoves ==
    ASSUME TypeOK, NEW r \in Relays, NEW pass \in Passes, HasOneInHand(pass),
           relay' = [relay EXCEPT ![r] = pass]
    PROVE  PassTypes'
<1>1. relay' \in [Relays -> Passes]
  BY DEF TypeOK
<1>2. \A q \in Relays : HasOneInHand(relay[q])
  BY DEF TypeOK, HasOneInHand
<1>3. \A q \in Relays : relay'[q] = relay[q] \/ relay'[q] = pass
  BY DEF TypeOK
<1>4. \A q \in Relays : HasOneInHand(relay'[q])
  BY <1>2, <1>3
<1> QED BY <1>1, <1>4 DEF PassTypes, HasOneInHand

(* A pass at rest is well typed ...                                         *)
LEMMA RestIsTyped == AtRest \in Passes /\ HasOneInHand(AtRest)
BY DEF AtRest, Passes, Stages, HasOneInHand

(* ... and so are the flags of a process whose pass is over.                *)
LEMMA ReleasedIsTyped ==
    ASSUME NEW p \in Processes
    PROVE  [p EXCEPT !.draining = FALSE, !.rerun = FALSE, !.kick = @ \/ p.rerun] \in Processes
BY Zenon DEF Processes

(* A pass that begins or ends is well typed.                                *)
LEMMA PassBounds ==
    ASSUME TypeOK, NEW r \in Relays
    PROVE  /\ PassOver(r) => PassTypes' /\ proc' \in [Relays -> Processes]
           /\ Trigger(r) => PassTypes' /\ proc' \in [Relays -> Processes]
<1>1. ASSUME PassOver(r) PROVE PassTypes' /\ proc' \in [Relays -> Processes]
  <2>1. proc' \in [Relays -> Processes]
    <3>1. PICK done \in Processes : proc' = [proc EXCEPT ![r] = done]
      BY <1>1, ReleasedIsTyped, Zenon DEF PassOver, TypeOK
    <3> QED BY <3>1 DEF TypeOK
  <2>2. PassTypes'
    BY <1>1, OnePassMoves, RestIsTyped DEF PassOver
  <2> QED BY <2>1, <2>2
<1>2. ASSUME Trigger(r) PROVE PassTypes' /\ proc' \in [Relays -> Processes]
  <2>1. proc' \in [Relays -> Processes]
    <3> DEFINE first == [proc[r] EXCEPT !.draining = TRUE, !.kick = FALSE]
               again == [proc[r] EXCEPT !.rerun = TRUE, !.kick = FALSE]
    <3>1. first \in Processes /\ again \in Processes
      BY DEF TypeOK, Processes
    <3>2. proc' = [proc EXCEPT ![r] = first] \/ proc' = [proc EXCEPT ![r] = again]
      BY <1>2, Zenon DEF Trigger
    <3> HIDE DEF first, again
    <3> QED BY <3>1, <3>2 DEF TypeOK
  <2> DEFINE begun == [AtRest EXCEPT !.stage = "relay", !.todo = Candidates]
  <2>2. begun \in Passes /\ HasOneInHand(begun)
    <3>1. Candidates \in SUBSET Events
      BY DEF Candidates, Pending
    <3> HIDE DEF Candidates
    <3> QED BY <3>1 DEF AtRest, Passes, Stages, HasOneInHand
  <2>3. relay' = relay \/ relay' = [relay EXCEPT ![r] = begun]
    BY <1>2, Zenon DEF Trigger
  <2> HIDE DEF begun
  <2>4. PassTypes'
    BY <2>2, <2>3, OnePassMoves DEF TypeOK, PassTypes, HasOneInHand
  <2> QED BY <2>1, <2>4
<1> QED BY <1>1, <1>2

(* The initial state has the declared types.                                *)
LEMMA InitTypes == Init => TypeOK
<1> SUFFICES ASSUME Init PROVE TypeOK
  OBVIOUS
<1>1. outbox \in [Events -> EventStates] /\ lock \in [Events -> Relays \union {NoOne}]
  BY DEF Init, EventStates
<1>2. rows \in [Events -> [Endpoints -> Nat]]
  BY DEF Init
<1>3. notices \in [Events -> Nat] /\ mailed \in [Events -> Nat] /\ active \subseteq Endpoints
  BY DEF Init
<1>4. proc \in [Relays -> Processes]
  BY DEF Init, Booted, Processes
<1>5. relay \in [Relays -> Passes]
  BY DEF Init, AtRest, Passes, Stages
<1>6. \A r \in Relays :
         relay[r].stage \in {"expand", "stamp", "mail"} <=> \E e \in Events : relay[r].ev = {e}
  BY DEF Init, AtRest
<1>7. faults \in 0..MaxFaults /\ crashes \in 0..MaxCrashes
  BY RelayAssumption DEF Init
<1> QED BY <1>1, <1>2, <1>3, <1>4, <1>5, <1>6, <1>7 DEF TypeOK

(* Every step keeps them.                                                   *)
LEMMA StepTypes == TypeOK /\ [Next]_vars => TypeOK'
<1> SUFFICES ASSUME TypeOK, [Next]_vars PROVE TypeOK'
  OBVIOUS
<1>1. ASSUME NEW e \in Events, NEW r \in Relays, DomainCommit(e, r) PROVE TypeOK'
  <2>1. outbox' \in [Events -> EventStates]
    BY <1>1 DEF DomainCommit, TypeOK, EventStates
  <2>2. proc' \in [Relays -> Processes]
    <3> DEFINE kicked == [proc[r] EXCEPT !.kick = TRUE]
    <3>1. kicked \in Processes
      BY DEF TypeOK, Processes
    <3>2. proc' = [proc EXCEPT ![r] = kicked] \/ proc' = proc
      BY <1>1, Zenon DEF DomainCommit
    <3> HIDE DEF kicked
    <3> QED BY <3>1, <3>2 DEF TypeOK
  <2> QED BY <1>1, <2>1, <2>2 DEF DomainCommit, TypeOK
<1>2. ASSUME NEW p \in Endpoints, ToggleEndpoint(p) PROVE TypeOK'
  <2>1. active' \subseteq Endpoints
    BY <1>2 DEF ToggleEndpoint, TypeOK
  <2> QED BY <1>2, <2>1 DEF ToggleEndpoint, TypeOK
<1>3. ASSUME NEW e \in Events, Prune(e) PROVE TypeOK'
  <2>1. outbox' \in [Events -> EventStates]
    BY <1>3 DEF Prune, TypeOK, EventStates
  <2> QED BY <1>3, <2>1 DEF Prune, TypeOK
<1>4. ASSUME NEW r \in Relays, IntervalFires(r) \/ KickFires(r) PROVE TypeOK'
  <2>1. PassTypes' /\ proc' \in [Relays -> Processes]
    BY <1>4, PassBounds DEF IntervalFires, KickFires
  <2> QED BY <1>4, <2>1 DEF IntervalFires, KickFires, TypeOK, PassTypes, HasOneInHand
<1>5. ASSUME NEW r \in Relays, EndPass(r) PROVE TypeOK'
  <2>1. PassTypes' /\ proc' \in [Relays -> Processes]
    BY <1>5, PassBounds DEF EndPass
  <2> QED BY <1>5, <2>1 DEF EndPass, TypeOK, PassTypes, HasOneInHand
<1>6. ASSUME NEW r \in Relays, Claim(r) PROVE TypeOK'
  <2>1. PICK e \in relay[r].todo :
          /\ lock' = [lock EXCEPT ![e] = r]
          /\ relay' = [relay EXCEPT ![r] = [relay[r] EXCEPT !.stage = "expand", !.todo = @ \ {e}, !.ev = {e}]]
    BY <1>6, Zenon DEF Claim, Oldest
  <2> DEFINE pass == [relay[r] EXCEPT !.stage = "expand", !.todo = @ \ {e}, !.ev = {e}]
  <2>2. e \in Events /\ pass \in Passes /\ HasOneInHand(pass)
    BY DEF TypeOK, Passes, Stages, HasOneInHand
  <2>3. lock' \in [Events -> Relays \union {NoOne}]
    BY <2>1 DEF TypeOK
  <2>4. PassTypes'
    <3>1. relay' = [relay EXCEPT ![r] = pass]
      BY <2>1
    <3> HIDE DEF pass
    <3> QED BY <2>2, <3>1, OnePassMoves
  <2> QED BY <1>6, <2>3, <2>4 DEF Claim, TypeOK, PassTypes, HasOneInHand
<1>7. ASSUME NEW r \in Relays, Skip(r) PROVE TypeOK'
  <2>1. PICK e \in relay[r].todo : relay' = [relay EXCEPT ![r].todo = @ \ {e}]
    BY <1>7 DEF Skip, Oldest
  <2> DEFINE pass == [relay[r] EXCEPT !.todo = @ \ {e}]
  <2>2. pass \in Passes /\ HasOneInHand(pass)
    BY DEF TypeOK, Passes, HasOneInHand
  <2>3. PassTypes'
    BY <2>1, <2>2, OnePassMoves
  <2> QED BY <1>7, <2>3 DEF Skip, TypeOK, PassTypes, HasOneInHand
<1>8. ASSUME NEW r \in Relays, Expand(r) PROVE TypeOK'
  <2> DEFINE pass == [relay[r] EXCEPT !.stage = "stamp", !.targets = active]
  <2>1. pass \in Passes /\ HasOneInHand(pass)
    BY <1>8 DEF Expand, TypeOK, Passes, Stages, HasOneInHand
  <2>2. PassTypes'
    BY <1>8, <2>1, OnePassMoves DEF Expand
  <2> QED BY <1>8, <2>2 DEF Expand, TypeOK, PassTypes, HasOneInHand
<1>9. ASSUME NEW r \in Relays, ExpandFaulty(r) PROVE TypeOK'
  <2> DEFINE pass == [relay[r] EXCEPT !.stage = "stamp", !.targets = active, !.aborted = TRUE]
  <2>1. pass \in Passes /\ HasOneInHand(pass)
    BY <1>9 DEF ExpandFaulty, TypeOK, Passes, Stages, HasOneInHand
  <2>2. PassTypes'
    BY <1>9, <2>1, OnePassMoves DEF ExpandFaulty
  <2>3. faults' \in 0..MaxFaults
    BY <1>9, RelayAssumption DEF ExpandFaulty, TypeOK
  <2> QED BY <1>9, <2>2, <2>3 DEF ExpandFaulty, TypeOK, PassTypes, HasOneInHand
<1>10. ASSUME NEW r \in Relays, Commit(r) PROVE TypeOK'
  <2>1. outbox' \in [Events -> EventStates] /\ lock' \in [Events -> Relays \union {NoOne}]
    BY <1>10 DEF Commit, TypeOK, EventStates
  <2>2. rows' \in [Events -> [Endpoints -> Nat]] /\ notices' \in [Events -> Nat]
    BY <1>10 DEF Commit, TypeOK
  <2> DEFINE pass == [relay[r] EXCEPT !.stage = "mail"]
  <2>3. pass \in Passes /\ HasOneInHand(pass)
    BY <1>10 DEF Commit, TypeOK, Passes, Stages, HasOneInHand
  <2>4. PassTypes'
    BY <1>10, <2>3, OnePassMoves DEF Commit
  <2> QED BY <1>10, <2>1, <2>2, <2>4 DEF Commit, TypeOK, PassTypes, HasOneInHand
<1>11. ASSUME NEW r \in Relays, Abort(r) PROVE TypeOK'
  <2>1. PassTypes' /\ proc' \in [Relays -> Processes]
    BY <1>11, PassBounds DEF Abort
  <2>2. lock' \in [Events -> Relays \union {NoOne}]
    BY <1>11 DEF Abort, TypeOK
  <2> QED BY <1>11, <2>1, <2>2 DEF Abort, TypeOK, PassTypes, HasOneInHand
<1>12. ASSUME NEW r \in Relays, SendMail(r) PROVE TypeOK'
  <2>1. mailed' \in [Events -> Nat]
    BY <1>12 DEF SendMail, TypeOK
  <2> DEFINE pass == [relay[r] EXCEPT !.stage = "relay", !.ev = {}, !.targets = {}]
  <2>2. pass \in Passes /\ HasOneInHand(pass)
    BY DEF TypeOK, Passes, Stages, HasOneInHand
  <2>3. PassTypes'
    BY <1>12, <2>2, OnePassMoves DEF SendMail
  <2> QED BY <1>12, <2>1, <2>3 DEF SendMail, TypeOK, PassTypes, HasOneInHand
<1>13. ASSUME NEW r \in Relays, Crash(r) PROVE TypeOK'
  <2>1. proc' \in [Relays -> Processes]
    BY <1>13 DEF Crash, TypeOK, Processes
  <2>2. lock' \in [Events -> Relays \union {NoOne}]
    BY <1>13 DEF Crash, TypeOK
  <2>3. PassTypes'
    BY <1>13, OnePassMoves, RestIsTyped DEF Crash
  <2>4. crashes' \in 0..MaxCrashes
    BY <1>13, RelayAssumption DEF Crash, TypeOK
  <2> QED BY <1>13, <2>1, <2>2, <2>3, <2>4 DEF Crash, TypeOK, PassTypes, HasOneInHand
<1>14. ASSUME NEW r \in Relays, Restart(r) PROVE TypeOK'
  <2>1. proc' \in [Relays -> Processes]
    BY <1>14 DEF Restart, TypeOK, Processes, Booted
  <2> QED BY <1>14, <2>1 DEF Restart, TypeOK
<1>15. CASE UNCHANGED vars
  BY <1>15 DEF vars, TypeOK
<1> QED
  BY <1>1, <1>2, <1>3, <1>4, <1>5, <1>6, <1>7, <1>8, <1>9, <1>10, <1>11, <1>12,
     <1>13, <1>14, <1>15 DEF Next, RelayStep

(* The model's state never leaves the types it declares.                    *)
THEOREM TypesHold == Spec => []TypeOK
BY InitTypes, StepTypes, PTL DEF Spec

-------------------------------------------------------------------------------
(* The inductive invariant.                                                 *)

Holds(r, e) == relay[r].stage \in {"expand", "stamp"} /\ relay[r].ev = {e}
Mails(r, e) == relay[r].stage = "mail" /\ relay[r].ev = {e}

(* The in-process guard: a pass is under way exactly while "draining" is    *)
(* set, so a trigger never restarts a pass that has a transaction open.     *)
OnePass ==
    \A r \in Relays : /\ proc[r].draining = (relay[r].stage # "idle")
                      /\ proc[r].up \/ relay[r].stage = "idle"

(* A row lock is held exactly by the pass whose transaction is open on it,  *)
(* and only on an event that is still to be processed.                      *)
Locking ==
    \A e \in Events : /\ \A r \in Relays : lock[e] = r <=> Holds(r, e)
                      /\ lock[e] # NoOne => outbox[e] = "pending"

(* An event has been expanded once if it is stamped and not at all if not.  *)
Counting ==
    \A e \in Events :
        /\ notices[e] = IF outbox[e] \in {"processed", "pruned"} THEN 1 ELSE 0
        /\ \A p \in Endpoints : rows[e][p] <= notices[e]
        /\ mailed[e] <= notices[e]

(* A pass about to mail an event is alone, and the mail is still due.       *)
Mailing ==
    \A e \in Events : \A r \in Relays :
        Mails(r, e) => /\ mailed[e] < notices[e]
                       /\ \A q \in Relays : Mails(q, e) => q = r

IInv == TypeOK /\ OnePass /\ Locking /\ Counting /\ Mailing

(* It holds at first: nothing is locked, expanded or under way.             *)
LEMMA InitInductive == Init => IInv
<1> SUFFICES ASSUME Init PROVE IInv
  OBVIOUS
<1>1. OnePass
  BY DEF Init, OnePass, AtRest, Booted
<1>2. Locking
  BY RelayAssumption DEF Init, Locking, Holds, AtRest
<1>3. Counting
  BY DEF Init, Counting
<1>4. Mailing
  BY DEF Init, Mailing, Mails, AtRest
<1> QED BY <1>1, <1>2, <1>3, <1>4, InitTypes DEF IInv

(* What a pass holds and mails depends on nothing but its own variables.    *)
LEMMA OthersAsBefore ==
    ASSUME TypeOK, NEW r \in Relays, NEW pass, relay' = [relay EXCEPT ![r] = pass],
           NEW q \in Relays, NEW e \in Events, q # r
    PROVE  /\ Holds(q, e)' <=> Holds(q, e)
           /\ Mails(q, e)' <=> Mails(q, e)
BY DEF TypeOK, Holds, Mails

(* Steps that neither begin, move nor end a transaction.                    *)
LEMMA OutsideSteps ==
    ASSUME IInv,
           \/ \E e \in Events, r \in Relays : DomainCommit(e, r)
           \/ \E p \in Endpoints : ToggleEndpoint(p)
           \/ \E e \in Events : Prune(e)
           \/ \E r \in Relays : Restart(r)
           \/ UNCHANGED vars
    PROVE  OnePass' /\ Locking' /\ Counting' /\ Mailing'
<1>1. ASSUME NEW e \in Events, NEW r \in Relays, DomainCommit(e, r)
      PROVE  OnePass' /\ Locking' /\ Counting' /\ Mailing'
  <2>1. OnePass'
    <3>1. \A q \in Relays : proc'[q].draining = proc[q].draining /\ proc'[q].up = proc[q].up
      BY <1>1 DEF DomainCommit, IInv, TypeOK, Processes
    <3> QED BY <1>1, <3>1 DEF DomainCommit, IInv, OnePass
  <2>2. Locking'
    BY <1>1 DEF DomainCommit, IInv, TypeOK, Locking, Holds
  <2>3. Counting' /\ Mailing'
    BY <1>1 DEF DomainCommit, IInv, TypeOK, Counting, Mailing, Mails
  <2> QED BY <2>1, <2>2, <2>3
<1>2. ASSUME NEW p \in Endpoints, ToggleEndpoint(p)
      PROVE  OnePass' /\ Locking' /\ Counting' /\ Mailing'
  BY <1>2 DEF ToggleEndpoint, IInv, OnePass, Locking, Holds, Counting, Mailing, Mails
<1>3. ASSUME NEW e \in Events, Prune(e)
      PROVE  OnePass' /\ Locking' /\ Counting' /\ Mailing'
  <2>1. Locking'
    BY <1>3 DEF Prune, IInv, TypeOK, Locking, Holds
  <2>2. Counting'
    BY <1>3 DEF Prune, IInv, TypeOK, Counting
  <2> QED BY <1>3, <2>1, <2>2 DEF Prune, IInv, OnePass, Mailing, Mails
<1>4. ASSUME NEW r \in Relays, Restart(r)
      PROVE  OnePass' /\ Locking' /\ Counting' /\ Mailing'
  <2>1. OnePass'
    BY <1>4 DEF Restart, Booted, IInv, TypeOK, OnePass
  <2> QED BY <1>4, <2>1 DEF Restart, IInv, Locking, Holds, Counting, Mailing, Mails
<1>5. CASE UNCHANGED vars
  BY <1>5 DEF vars, IInv, OnePass, Locking, Holds, Counting, Mailing, Mails
<1> QED BY <1>1, <1>2, <1>3, <1>4, <1>5

(* A pass begins: where none was under way, nothing was held.               *)
LEMMA TriggerSteps ==
    ASSUME IInv, NEW r \in Relays, IntervalFires(r) \/ KickFires(r)
    PROVE  OnePass' /\ Locking' /\ Counting' /\ Mailing'
<1> DEFINE begun == [AtRest EXCEPT !.stage = "relay", !.todo = Candidates]
<1>1. /\ proc[r].up
      /\ UNCHANGED <<outbox, lock, rows, notices, mailed>>
  BY DEF IntervalFires, KickFires
<1>2. CASE proc[r].draining
  <2>1. relay' = relay
    BY <1>2 DEF IntervalFires, KickFires, Trigger
  <2>2. proc' = [proc EXCEPT ![r] = [@ EXCEPT !.rerun = TRUE, !.kick = FALSE]]
    BY <1>2 DEF IntervalFires, KickFires, Trigger
  <2>3. OnePass'
    BY <2>1, <2>2 DEF IInv, TypeOK, Processes, OnePass
  <2> QED BY <1>1, <2>1, <2>3 DEF IInv, Locking, Holds, Counting, Mailing, Mails
<1>3. CASE ~ proc[r].draining
  <2>1. relay[r].stage = "idle" /\ relay' = [relay EXCEPT ![r] = begun]
    BY <1>3 DEF IntervalFires, KickFires, Trigger, IInv, OnePass
  <2>2. proc' = [proc EXCEPT ![r] = [@ EXCEPT !.draining = TRUE, !.kick = FALSE]]
    BY <1>3 DEF IntervalFires, KickFires, Trigger
  <2>3. begun.stage = "relay" /\ begun.ev = {}
    BY DEF AtRest
  <2> HIDE DEF begun
  <2>4. OnePass'
    BY <1>1, <2>1, <2>2, <2>3 DEF IInv, TypeOK, Processes, OnePass
  <2>5. \A q \in Relays, e \in Events : (Holds(q, e)' <=> Holds(q, e)) /\ (Mails(q, e)' <=> Mails(q, e))
    BY <2>1, <2>3 DEF IInv, TypeOK, Holds, Mails
  <2> QED BY <1>1, <2>4, <2>5 DEF IInv, Locking, Counting, Mailing
<1> QED BY <1>2, <1>3

(* A pass is over, in the finally block.                                    *)
LEMMA PassOverSteps ==
    ASSUME IInv, NEW r \in Relays, EndPass(r) \/ Abort(r)
    PROVE  OnePass' /\ Locking' /\ Counting' /\ Mailing'
<1>1. /\ PassOver(r)
      /\ UNCHANGED <<outbox, rows, notices, mailed>>
  BY DEF EndPass, Abort
<1>2. relay' = [relay EXCEPT ![r] = AtRest] /\ AtRest.stage = "idle"
  BY <1>1 DEF PassOver, AtRest
<1>3. OnePass'
  <2> DEFINE done == [proc[r] EXCEPT !.draining = FALSE, !.rerun = FALSE, !.kick = @ \/ proc[r].rerun]
  <2>1. proc[r] \in Processes /\ proc' = [proc EXCEPT ![r] = done]
    BY <1>1 DEF PassOver, IInv, TypeOK
  <2>2. done.draining = FALSE
    BY <2>1 DEF Processes
  <2> HIDE DEF done
  <2> QED BY <1>2, <2>1, <2>2 DEF IInv, TypeOK, OnePass
<1>4. \A e \in Events : ~ Holds(r, e)' /\ ~ Mails(r, e)'
  BY <1>2 DEF IInv, TypeOK, Holds, Mails
<1>5. \A q \in Relays \ {r}, e \in Events : (Holds(q, e)' <=> Holds(q, e)) /\ (Mails(q, e)' <=> Mails(q, e))
  BY <1>2, OthersAsBefore DEF IInv
<1>6. Locking'
  <2>1. lock' = [e \in Events |-> IF lock[e] = r THEN NoOne ELSE lock[e]]
    <3>1. CASE EndPass(r)
      <4>1. \A e \in Events : lock[e] # r
        BY <3>1 DEF EndPass, IInv, Locking, Holds
      <4> QED BY <3>1, <4>1 DEF EndPass, IInv, TypeOK
    <3>2. CASE Abort(r)
      <4>1. \A e \in Events : lock[e] = r <=> e \in relay[r].ev
        BY <3>2 DEF Abort, IInv, TypeOK, Locking, Holds
      <4> QED BY <3>2, <4>1 DEF Abort
    <3> QED BY <3>1, <3>2
  <2> QED BY <1>1, <1>4, <1>5, <2>1, RelayAssumption DEF IInv, TypeOK, Locking
<1>7. Counting' /\ Mailing'
  BY <1>1, <1>4, <1>5 DEF IInv, Counting, Mailing
<1> QED BY <1>3, <1>6, <1>7

(* Claim and Skip: the lock is taken on an unlocked pending row only.       *)
LEMMA ClaimSteps ==
    ASSUME IInv, NEW r \in Relays, Claim(r) \/ Skip(r)
    PROVE  OnePass' /\ Locking' /\ Counting' /\ Mailing'
<1>1. CASE Claim(r)
  <2>1. PICK e \in relay[r].todo :
          /\ outbox[e] = "pending" /\ lock[e] = NoOne
          /\ lock' = [lock EXCEPT ![e] = r]
          /\ relay' = [relay EXCEPT ![r] = [relay[r] EXCEPT !.stage = "expand", !.todo = @ \ {e}, !.ev = {e}]]
    BY <1>1, Zenon DEF Claim, Claimable, Oldest
  <2> DEFINE pass == [relay[r] EXCEPT !.stage = "expand", !.todo = @ \ {e}, !.ev = {e}]
  <2>2. /\ e \in Events
        /\ pass.stage = "expand" /\ pass.ev = {e}
        /\ relay' = [relay EXCEPT ![r] = pass]
        /\ UNCHANGED <<outbox, rows, notices, mailed, proc>>
        /\ relay[r].stage = "relay"
    <3>1. relay[r] \in Passes /\ e \in Events
      BY DEF IInv, TypeOK, Passes
    <3>2. pass.stage = "expand" /\ pass.ev = {e}
      BY <3>1 DEF Passes
    <3>3. relay' = [relay EXCEPT ![r] = pass]
      BY <2>1
    <3>4. relay[r].stage = "relay" /\ UNCHANGED <<outbox, rows, notices, mailed, proc>>
      BY <1>1, Zenon DEF Claim
    <3> HIDE DEF pass
    <3> QED BY <3>1, <3>2, <3>3, <3>4
  <2> HIDE DEF pass
  <2>3. \A f \in Events : /\ Holds(r, f)' <=> f = e
                          /\ ~ Holds(r, f) /\ ~ Mails(r, f) /\ ~ Mails(r, f)'
    BY <2>2 DEF IInv, TypeOK, Holds, Mails
  <2>4. \A q \in Relays \ {r}, f \in Events : (Holds(q, f)' <=> Holds(q, f)) /\ (Mails(q, f)' <=> Mails(q, f))
    BY <2>2, OthersAsBefore DEF IInv
  <2>5. OnePass'
    BY <2>2 DEF IInv, TypeOK, OnePass
  <2>6. Locking'
    BY <2>1, <2>2, <2>3, <2>4, RelayAssumption DEF IInv, TypeOK, Locking
  <2>7. Counting' /\ Mailing'
    BY <2>2, <2>3, <2>4 DEF IInv, Counting, Mailing
  <2> QED BY <2>5, <2>6, <2>7
<1>2. CASE Skip(r)
  <2>1. PICK e \in relay[r].todo : relay' = [relay EXCEPT ![r].todo = @ \ {e}]
    BY <1>2, Zenon DEF Skip, Oldest
  <2>2. /\ \A q \in Relays : relay'[q].stage = relay[q].stage /\ relay'[q].ev = relay[q].ev
        /\ UNCHANGED <<outbox, lock, rows, notices, mailed, proc>>
    BY <1>2, <2>1 DEF Skip, IInv, TypeOK, Passes
  <2> QED BY <2>2 DEF IInv, OnePass, Locking, Holds, Counting, Mailing, Mails
<1> QED BY <1>1, <1>2

(* The fan-out runs its statements: the transaction stays open.             *)
LEMMA ExpandSteps ==
    ASSUME IInv, NEW r \in Relays, Expand(r) \/ ExpandFaulty(r)
    PROVE  OnePass' /\ Locking' /\ Counting' /\ Mailing'
<1>1. /\ relay[r].stage = "expand" /\ relay[r] \in Passes
      /\ UNCHANGED <<outbox, lock, rows, notices, mailed, proc>>
  BY DEF Expand, ExpandFaulty, IInv, TypeOK
<1>2. PICK pass : /\ relay' = [relay EXCEPT ![r] = pass]
                  /\ pass.stage = "stamp" /\ pass.ev = relay[r].ev
  <2>1. CASE Expand(r)
    <3> DEFINE pass == [relay[r] EXCEPT !.stage = "stamp", !.targets = active]
    <3>1. relay' = [relay EXCEPT ![r] = pass]
      BY <2>1 DEF Expand
    <3>2. pass.stage = "stamp" /\ pass.ev = relay[r].ev
      BY <1>1 DEF Passes
    <3> HIDE DEF pass
    <3> QED BY <3>1, <3>2
  <2>2. CASE ExpandFaulty(r)
    <3> DEFINE pass == [relay[r] EXCEPT !.stage = "stamp", !.targets = active, !.aborted = TRUE]
    <3>1. relay' = [relay EXCEPT ![r] = pass]
      BY <2>2 DEF ExpandFaulty
    <3>2. pass.stage = "stamp" /\ pass.ev = relay[r].ev
      BY <1>1 DEF Passes
    <3> HIDE DEF pass
    <3> QED BY <3>1, <3>2
  <2> QED BY <2>1, <2>2
<1>3. \A q \in Relays, e \in Events : (Holds(q, e)' <=> Holds(q, e)) /\ (Mails(q, e)' <=> Mails(q, e))
  BY <1>1, <1>2 DEF IInv, TypeOK, Holds, Mails
<1>4. OnePass'
  BY <1>1, <1>2 DEF IInv, TypeOK, OnePass
<1> QED BY <1>1, <1>3, <1>4 DEF IInv, Locking, Counting, Mailing

(* Rows, notices and stamp commit together: the row was locked, hence       *)
(* pending, hence without effects, and nobody else holds or mails it.       *)
LEMMA CommitSteps ==
    ASSUME IInv, NEW r \in Relays, Commit(r)
    PROVE  OnePass' /\ Locking' /\ Counting' /\ Mailing'
<1>1. relay[r].stage = "stamp" /\ relay[r] \in Passes
  BY DEF Commit, IInv, TypeOK
<1>2. PICK e \in Events : relay[r].ev = {e}
  BY <1>1 DEF IInv, TypeOK
<1>3. lock[e] = r /\ outbox[e] = "pending" /\ notices[e] = 0 /\ mailed[e] = 0
  BY <1>1, <1>2, RelayAssumption DEF IInv, TypeOK, Locking, Holds, Counting
<1>4. PICK pass : /\ relay' = [relay EXCEPT ![r] = pass]
                  /\ pass.stage = "mail" /\ pass.ev = {e}
  <2> DEFINE pass == [relay[r] EXCEPT !.stage = "mail"]
  <2>1. relay' = [relay EXCEPT ![r] = pass]
    BY DEF Commit
  <2>2. pass.stage = "mail" /\ pass.ev = {e}
    BY <1>1, <1>2 DEF Passes
  <2> HIDE DEF pass
  <2> QED BY <2>1, <2>2
<1>5. \A f \in Events : ~ Holds(r, f)' /\ (Mails(r, f)' <=> f = e) /\ (Holds(r, f) <=> f = e) /\ ~ Mails(r, f)
  BY <1>1, <1>2, <1>4 DEF IInv, TypeOK, Holds, Mails
<1>6. \A q \in Relays \ {r}, f \in Events : (Holds(q, f)' <=> Holds(q, f)) /\ (Mails(q, f)' <=> Mails(q, f))
  BY <1>4, OthersAsBefore DEF IInv
<1>7. /\ outbox' = [outbox EXCEPT ![e] = "processed"]
      /\ lock' = [lock EXCEPT ![e] = NoOne]
      /\ notices' = [notices EXCEPT ![e] = @ + 1]
      /\ UNCHANGED <<mailed, proc>>
  BY <1>2 DEF Commit, IInv, TypeOK
<1>8. \A f \in Events, p \in Endpoints :
        rows'[f][p] = IF f = e /\ p \in relay[r].targets THEN rows[f][p] + 1 ELSE rows[f][p]
  BY <1>2 DEF Commit
<1>9. OnePass'
  BY <1>1, <1>4, <1>7 DEF IInv, TypeOK, OnePass
<1>10. Locking'
  BY <1>3, <1>5, <1>6, <1>7, RelayAssumption DEF IInv, TypeOK, Locking
<1>11. Counting'
  BY <1>3, <1>7, <1>8 DEF IInv, TypeOK, Counting
<1>12. Mailing'
  <2> SUFFICES ASSUME NEW f \in Events, NEW q \in Relays, Mails(q, f)'
               PROVE  /\ mailed'[f] < notices'[f]
                      /\ \A s \in Relays : Mails(s, f)' => s = q
    BY DEF Mailing
  <2>1. CASE f = e
    <3>1. \A s \in Relays \ {r} : ~ Mails(s, e)
      BY <1>3 DEF IInv, TypeOK, Mailing
    <3> QED BY <1>3, <1>6, <1>7, <2>1, <3>1 DEF IInv, TypeOK
  <2>2. CASE f # e
    BY <1>5, <1>6, <1>7, <2>2 DEF IInv, TypeOK, Mailing
  <2> QED BY <2>1, <2>2
<1> QED BY <1>9, <1>10, <1>11, <1>12

(* The mail a pass owes is sent by that pass alone, and once.               *)
LEMMA MailSteps ==
    ASSUME IInv, NEW r \in Relays, SendMail(r)
    PROVE  OnePass' /\ Locking' /\ Counting' /\ Mailing'
<1>1. relay[r].stage = "mail" /\ relay[r] \in Passes
  BY DEF SendMail, IInv, TypeOK
<1>2. PICK e \in Events : relay[r].ev = {e}
  BY <1>1 DEF IInv, TypeOK
<1>3. PICK pass : /\ relay' = [relay EXCEPT ![r] = pass]
                  /\ pass.stage = "relay" /\ pass.ev = {}
  <2> DEFINE pass == [relay[r] EXCEPT !.stage = "relay", !.ev = {}, !.targets = {}]
  <2>1. relay' = [relay EXCEPT ![r] = pass]
    BY DEF SendMail
  <2>2. pass.stage = "relay" /\ pass.ev = {}
    BY <1>1 DEF Passes
  <2> HIDE DEF pass
  <2> QED BY <2>1, <2>2
<1>4. /\ mailed' = [mailed EXCEPT ![e] = @ + 1]
      /\ UNCHANGED <<outbox, lock, rows, notices, proc>>
  BY <1>2 DEF SendMail, IInv, TypeOK
<1>5. \A f \in Events : /\ ~ Holds(r, f)' /\ ~ Mails(r, f)'
                        /\ ~ Holds(r, f) /\ (Mails(r, f) <=> f = e)
  BY <1>1, <1>2, <1>3 DEF IInv, TypeOK, Holds, Mails
<1>6. \A q \in Relays \ {r}, f \in Events : (Holds(q, f)' <=> Holds(q, f)) /\ (Mails(q, f)' <=> Mails(q, f))
  BY <1>3, OthersAsBefore DEF IInv
<1>7. OnePass'
  BY <1>1, <1>3, <1>4 DEF IInv, TypeOK, OnePass
<1>8. Locking'
  BY <1>4, <1>5, <1>6 DEF IInv, TypeOK, Locking
<1>9. mailed[e] < notices[e] /\ \A q \in Relays \ {r} : ~ Mails(q, e)
  BY <1>5 DEF IInv, Mailing
<1>10. Counting'
  BY <1>4, <1>9 DEF IInv, TypeOK, Counting
<1>11. Mailing'
  BY <1>4, <1>5, <1>6, <1>9 DEF IInv, TypeOK, Mailing
<1> QED BY <1>7, <1>8, <1>10, <1>11

(* A crash gives back what the process held, and nothing else changes.      *)
LEMMA CrashSteps ==
    ASSUME IInv, NEW r \in Relays, Crash(r)
    PROVE  OnePass' /\ Locking' /\ Counting' /\ Mailing'
<1>1. /\ relay' = [relay EXCEPT ![r] = AtRest]
      /\ AtRest.stage = "idle" /\ AtRest.ev = {}
      /\ lock' = [e \in Events |-> IF lock[e] = r THEN NoOne ELSE lock[e]]
      /\ UNCHANGED <<outbox, rows, notices, mailed>>
  BY DEF Crash, AtRest
<1>2. OnePass'
  BY <1>1 DEF Crash, IInv, TypeOK, OnePass
<1>3. \A f \in Events : ~ Holds(r, f)' /\ ~ Mails(r, f)'
  BY <1>1 DEF IInv, TypeOK, Holds, Mails
<1>4. \A q \in Relays \ {r}, f \in Events : (Holds(q, f)' <=> Holds(q, f)) /\ (Mails(q, f)' <=> Mails(q, f))
  BY <1>1, OthersAsBefore DEF IInv
<1>5. Locking'
  BY <1>1, <1>3, <1>4, RelayAssumption DEF IInv, TypeOK, Locking
<1>6. Counting' /\ Mailing'
  BY <1>1, <1>3, <1>4 DEF IInv, Counting, Mailing
<1> QED BY <1>2, <1>5, <1>6

(* Every step keeps the invariant ...                                       *)
LEMMA StepInductive == IInv /\ [Next]_vars => IInv'
<1> SUFFICES ASSUME IInv, [Next]_vars PROVE IInv'
  OBVIOUS
<1>1. TypeOK'
  BY StepTypes DEF IInv
<1>2. OnePass' /\ Locking' /\ Counting' /\ Mailing'
  BY OutsideSteps, TriggerSteps, PassOverSteps, ClaimSteps, ExpandSteps, CommitSteps,
     MailSteps, CrashSteps, Zenon DEF Next, RelayStep
<1> QED BY <1>1, <1>2 DEF IInv

(* ... so it holds for ever.  Each safety theorem below follows from it.    *)
THEOREM Inductive == Spec => []IInv
BY InitInductive, StepInductive, PTL DEF Spec

(* However many processes relay, whatever they read before they lock and    *)
(* wherever they die, an event's deliveries, notices and mail are each made *)
(* at most once (expandOne and relayOutbox).                                *)
THEOREM NeverTwice == Spec => []ExpandedAtMostOnce
<1>1. IInv => ExpandedAtMostOnce
  BY DEF IInv, TypeOK, Counting, ExpandedAtMostOnce
<1> QED BY <1>1, Inductive, PTL

(* The stamp and the effects of an event are never seen apart, whatever     *)
(* transaction fails and whatever the pruning deletes.                      *)
THEOREM NeverHalf == Spec => []StampedIffExpanded
<1>1. IInv => StampedIffExpanded
  BY DEF IInv, TypeOK, Counting, StampedIffExpanded
<1> QED BY <1>1, Inductive, PTL

(* A stamped event is never worked on again: only a row that is locked, and *)
(* hence pending, is committed.                                             *)
THEOREM StampStays == Spec => StampIsFinal
<1>1. IInv /\ [Next]_vars =>
        [\A e \in Events : outbox[e] \in {"processed", "pruned"} =>
            /\ outbox'[e] \in {"processed", "pruned"}
            /\ rows'[e] = rows[e]]_vars
  <2> SUFFICES ASSUME IInv, Next, NEW e \in Events, outbox[e] \in {"processed", "pruned"}
               PROVE  outbox'[e] \in {"processed", "pruned"} /\ rows'[e] = rows[e]
    OBVIOUS
  <2>1. ASSUME NEW r \in Relays, Commit(r) PROVE outbox'[e] = outbox[e] /\ rows'[e] = rows[e]
    <3>1. PICK f \in Events : relay[r].ev = {f}
      BY <2>1 DEF Commit, IInv, TypeOK
    <3>2. outbox[f] = "pending"
      BY <2>1, <3>1, RelayAssumption DEF Commit, IInv, Locking, Holds
    <3>3. e \notin relay[r].ev
      BY <3>1, <3>2
    <3> QED BY <2>1, <3>3 DEF Commit, IInv, TypeOK
  <2>2. ASSUME NEW f \in Events, Prune(f)
        PROVE  outbox'[e] \in {"processed", "pruned"} /\ rows' = rows
    BY <2>2 DEF Prune, IInv, TypeOK
  <2>3. ASSUME NEW f \in Events, NEW r \in Relays, DomainCommit(f, r)
        PROVE  outbox'[e] = outbox[e] /\ rows' = rows
    BY <2>3 DEF DomainCommit, IInv, TypeOK
  <2>4. ASSUME NEW p \in Endpoints, ToggleEndpoint(p) PROVE outbox' = outbox /\ rows' = rows
    BY <2>4 DEF ToggleEndpoint
  <2>5. ASSUME NEW r \in Relays,
               \/ IntervalFires(r) \/ KickFires(r) \/ Crash(r) \/ Restart(r)
               \/ EndPass(r) \/ Claim(r) \/ Skip(r) \/ Expand(r) \/ ExpandFaulty(r)
               \/ Abort(r) \/ SendMail(r)
        PROVE  outbox' = outbox /\ rows' = rows
    BY <2>5, Zenon DEF IntervalFires, KickFires, Crash, Restart, EndPass, Claim, Skip, Expand,
                ExpandFaulty, Abort, SendMail
  <2> QED BY <2>1, <2>2, <2>3, <2>4, <2>5 DEF Next, RelayStep
<1> QED BY <1>1, Inductive, PTL DEF Spec, StampIsFinal
===============================================================================
