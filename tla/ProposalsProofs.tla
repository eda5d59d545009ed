---------------------------- MODULE ProposalsProofs ----------------------------
(***************************************************************************)
(* What holds of deciding about proposals for any set of proposals,        *)
(* targets and concurrent requests, any number of hand edits, crashes and  *)
(* unheard writes; and that the lifecycle implements ProposalDecision.     *)
(***************************************************************************)
EXTENDS Proposals, TLAPS, FiniteSetTheorems

(* A request as TypeOK wants it.                                            *)
OnOne(call) == call.stage # "idle" <=> \E i \in Proposals : call.of = {i}

RequestTypes == req \in [Requests -> Calls] /\ \A k \in Requests : OnOne(req[k])

(* A request that goes on or leaves stays well typed.                       *)
LEMMA RequestMoves ==
    ASSUME TypeOK, NEW k \in Requests
    PROVE  /\ Leave(k) => RequestTypes'
           /\ \A stage \in Stages \ {"idle"} :
                req[k].stage # "idle" /\ Reach(k, stage) => RequestTypes'
<1>1. \A q \in Requests : OnOne(req[q])
  BY DEF TypeOK, OnOne
<1>2. ASSUME Leave(k) PROVE RequestTypes'
  <2>1. NoRequest \in Calls /\ OnOne(NoRequest)
    BY DEF NoRequest, Calls, Stages, OnOne
  <2>2. req' \in [Requests -> Calls]
    BY <1>2, <2>1 DEF Leave, TypeOK
  <2>3. \A q \in Requests : req'[q] = req[q] \/ req'[q] = NoRequest
    BY <1>2 DEF Leave, TypeOK
  <2>4. \A q \in Requests : OnOne(req'[q])
    BY <1>1, <2>1, <2>3
  <2> QED BY <2>2, <2>4 DEF RequestTypes, OnOne
<1>3. ASSUME NEW stage \in Stages \ {"idle"}, req[k].stage # "idle", Reach(k, stage)
      PROVE  RequestTypes'
  <2> DEFINE call == [req[k] EXCEPT !.stage = stage]
  <2>1. call \in Calls /\ call.of = req[k].of /\ call.stage = stage
    BY DEF TypeOK, Calls
  <2>2. OnOne(call)
    BY <1>1, <1>3, <2>1 DEF OnOne
  <2>3. req' = [req EXCEPT ![k] = call]
    BY <1>3 DEF Reach
  <2> HIDE DEF call
  <2>4. req' \in [Requests -> Calls]
    BY <2>1, <2>3 DEF TypeOK
  <2>5. \A q \in Requests : req'[q] = req[q] \/ req'[q] = call
    BY <2>3 DEF TypeOK
  <2>6. \A q \in Requests : OnOne(req'[q])
    BY <1>1, <2>2, <2>5
  <2> QED BY <2>4, <2>6 DEF RequestTypes, OnOne
<1> QED BY <1>2, <1>3

(* A row whose status changes stays well typed.                             *)
LEMMA StatusTypes ==
    ASSUME TypeOK, NEW i \in Proposals, NEW status \in Statuses, SetStatus(i, status)
    PROVE  prop' \in [Proposals -> Rows]
<1>1. [prop[i] EXCEPT !.status = status, !.old = FALSE] \in Rows
  BY DEF TypeOK, Rows
<1> QED BY <1>1 DEF SetStatus, TypeOK

(* What every write keeps in its type.                                      *)
LEMMA LandsTypes ==
    ASSUME TypeOK, NEW k \in Requests, NEW i \in Proposals, Lands(k, i)
    PROVE  /\ target' \in [Targets -> Texts]
           /\ written' \in [Proposals -> Nat]
           /\ lost' \subseteq {"sinceDraft", "outsideWindow"}
<1>1. Writable(i) \subseteq Texts
  BY DEF Writable, Texts
<1>2. target' \in [Targets -> Texts]
  BY <1>1 DEF Lands, TypeOK
<1>3. written' \in [Proposals -> Nat]
  BY DEF Lands, TypeOK
<1>4. lost' \subseteq {"sinceDraft", "outsideWindow"}
  BY Zenon DEF Lands, TypeOK
<1> QED BY <1>2, <1>3, <1>4

(* The initial state has the declared types.                                *)
LEMMA InitTypes == Init => TypeOK
<1> SUFFICES ASSUME Init PROVE TypeOK
  OBVIOUS
<1>1. prop \in [Proposals -> Rows]
  BY DEF Init, Rows, Statuses
<1>2. target \in [Targets -> Texts]
  BY DEF Init, Texts
<1>3. RequestTypes
  BY DEF Init, NoRequest, RequestTypes, Calls, Stages, OnOne
<1>4. edits \in 0..MaxEdits /\ faults \in 0..MaxFaults
  BY ProposalsAssumption DEF Init
<1> QED BY <1>1, <1>2, <1>3, <1>4 DEF Init, TypeOK, RequestTypes, OnOne

(* Every step keeps them.                                                   *)
LEMMA StepTypes == TypeOK /\ [Next]_vars => TypeOK'
<1> SUFFICES ASSUME TypeOK, [Next]_vars PROVE TypeOK'
  OBVIOUS
<1>1. ASSUME NEW i \in Proposals, Draft(i) PROVE TypeOK'
  <2>1. PICK base \in {Text(i), NoBase} :
          prop' = [prop EXCEPT ![i] = [status |-> "open", base |-> base, old |-> FALSE]]
    BY <1>1 DEF Draft
  <2>2. base \in Texts \union {NoBase}
    BY ProposalsAssumption DEF Text, TypeOK
  <2>3. prop' \in [Proposals -> Rows]
    BY <2>1, <2>2 DEF TypeOK, Rows, Statuses
  <2> QED BY <1>1, <2>3 DEF Draft, TypeOK
<1>2. ASSUME NEW i \in Proposals, GraceEnds(i) PROVE TypeOK'
  <2>1. prop' \in [Proposals -> Rows]
    BY <1>2 DEF GraceEnds, TypeOK, Rows
  <2> QED BY <1>2, <2>1 DEF GraceEnds, TypeOK
<1>3. ASSUME NEW i \in Proposals, ReconcileRead(i) PROVE TypeOK'
  BY <1>3 DEF ReconcileRead, TypeOK
<1>4. ASSUME NEW i \in Proposals, ReconcileSettle(i) PROVE TypeOK'
  <2>1. prop' \in [Proposals -> Rows]
    BY <1>4, StatusTypes DEF ReconcileSettle, TypeOK, Statuses
  <2> QED BY <1>4, <2>1 DEF ReconcileSettle, TypeOK
<1>5. ASSUME NEW i \in Proposals, NEW k \in Requests, Load(k, i) PROVE TypeOK'
  <2> DEFINE call == [NoRequest EXCEPT !.stage = "loaded", !.of = {i}]
  <2>1. call \in Calls /\ OnOne(call)
    BY DEF NoRequest, Calls, Stages, OnOne
  <2>2. req' = [req EXCEPT ![k] = call]
    BY <1>5 DEF Load
  <2> HIDE DEF call
  <2>3. req' \in [Requests -> Calls] /\ \A q \in Requests : req'[q] = req[q] \/ req'[q] = call
    BY <2>1, <2>2 DEF TypeOK
  <2>4. RequestTypes'
    <3>1. \A q \in Requests : OnOne(req[q])
      BY DEF TypeOK, OnOne
    <3>2. \A q \in Requests : OnOne(req'[q])
      BY <2>1, <2>3, <3>1
    <3> QED BY <2>3, <3>2 DEF RequestTypes, OnOne
  <2> QED BY <1>5, <2>4 DEF Load, TypeOK, RequestTypes, OnOne
<1>6. ASSUME NEW t \in Targets, HandEdit(t) PROVE TypeOK'
  <2>1. target' \in [Targets -> Texts]
    BY <1>6 DEF HandEdit, TypeOK, Texts
  <2>2. edits' \in 0..MaxEdits
    BY <1>6, ProposalsAssumption DEF HandEdit, TypeOK
  <2> QED BY <1>6, <2>1, <2>2 DEF HandEdit, TypeOK
<1>7. ASSUME NEW k \in Requests, Check(k) PROVE TypeOK'
  <2>1. RequestTypes'
    <3>1. CASE Leave(k)
      BY <3>1, RequestMoves
    <3>2. ASSUME NEW i \in req[k].of,
                 req' = [req EXCEPT ![k] = [@ EXCEPT !.stage = "checked", !.saw = Text(i)]]
          PROVE  RequestTypes'
      <4> DEFINE call == [req[k] EXCEPT !.stage = "checked", !.saw = Text(i)]
      <4>1. req[k] \in Calls /\ req[k].stage = "loaded" /\ Text(i) \in Texts
        BY <1>7, ProposalsAssumption DEF Check, TypeOK, Calls, Text
      <4>2. call \in Calls /\ call.stage = "checked" /\ call.of = req[k].of
        BY <4>1 DEF Calls, Stages
      <4>3. req' = [req EXCEPT ![k] = call]
        BY <3>2
      <4> HIDE DEF call
      <4>4. OnOne(call)
        BY <4>1, <4>2 DEF TypeOK, OnOne
      <4> QED BY <4>2, <4>3, <4>4 DEF TypeOK, RequestTypes, OnOne
    <3> QED BY <1>7, <3>1, <3>2, Zenon DEF Check
  <2> QED BY <1>7, <2>1 DEF Check, TypeOK, RequestTypes, OnOne
<1>8. ASSUME NEW k \in Requests, Fingerprint(k) PROVE TypeOK'
  <2>1. PICK i \in req[k].of :
          req' = [req EXCEPT ![k] = [@ EXCEPT !.stage = "prepared", !.expect = Text(i)]]
    BY <1>8, Zenon DEF Fingerprint
  <2> DEFINE call == [req[k] EXCEPT !.stage = "prepared", !.expect = Text(i)]
  <2>2. req[k] \in Calls /\ req[k].stage = "checked" /\ Text(i) \in Texts
    BY <1>8, ProposalsAssumption DEF Fingerprint, TypeOK, Calls, Text
  <2>3. call \in Calls /\ call.stage = "prepared" /\ call.of = req[k].of
    BY <2>2 DEF Calls, Stages
  <2>4. req' = [req EXCEPT ![k] = call]
    BY <2>1
  <2> HIDE DEF call
  <2>5. OnOne(call)
    BY <2>2, <2>3 DEF TypeOK, OnOne
  <2>6. RequestTypes'
    BY <2>3, <2>4, <2>5 DEF TypeOK, RequestTypes, OnOne
  <2> QED BY <1>8, <2>6 DEF Fingerprint, TypeOK, RequestTypes, OnOne
<1>9. ASSUME NEW k \in Requests, ClaimApply(k) PROVE TypeOK'
  <2>1. RequestTypes'
    BY <1>9, RequestMoves, Zenon DEF ClaimApply, Stages
  <2>2. prop' \in [Proposals -> Rows]
    BY <1>9, StatusTypes DEF ClaimApply, TypeOK, Calls, Statuses
  <2> QED BY <1>9, <2>1, <2>2 DEF ClaimApply, TypeOK, RequestTypes, OnOne
<1>10. ASSUME NEW k \in Requests, ClaimDismiss(k) PROVE TypeOK'
  <2>1. RequestTypes'
    BY <1>10, RequestMoves DEF ClaimDismiss
  <2>2. prop' \in [Proposals -> Rows]
    BY <1>10, StatusTypes DEF ClaimDismiss, TypeOK, Calls, Statuses
  <2> QED BY <1>10, <2>1, <2>2 DEF ClaimDismiss, TypeOK, RequestTypes, OnOne
<1>11. ASSUME NEW k \in Requests, Write(k) PROVE TypeOK'
  <2>1. RequestTypes'
    BY <1>11, RequestMoves DEF Write, Stages
  <2>2. PICK i \in Proposals : Lands(k, i)
    BY <1>11 DEF Write, TypeOK, Calls
  <2> QED BY <1>11, <2>1, <2>2, LandsTypes DEF Write, TypeOK, RequestTypes, OnOne
<1>12. ASSUME NEW k \in Requests, WriteUnheard(k) PROVE TypeOK'
  <2>1. RequestTypes'
    BY <1>12, RequestMoves DEF WriteUnheard, Stages
  <2>2. PICK i \in Proposals : Lands(k, i) /\ unheard' = [unheard EXCEPT ![i] = @ + 1]
    BY <1>12 DEF WriteUnheard, TypeOK, Calls
  <2>3. unheard' \in [Proposals -> Nat]
    BY <2>2 DEF TypeOK
  <2>4. faults' \in 0..MaxFaults
    BY <1>12, ProposalsAssumption DEF WriteUnheard, TypeOK
  <2> QED BY <1>12, <2>1, <2>2, <2>3, <2>4, LandsTypes DEF WriteUnheard, TypeOK, RequestTypes, OnOne
<1>13. ASSUME NEW k \in Requests, WriteRefused(k) PROVE TypeOK'
  <2>1. RequestTypes'
    BY <1>13, RequestMoves DEF WriteRefused, Stages
  <2> QED BY <1>13, <2>1 DEF WriteRefused, TypeOK, RequestTypes, OnOne
<1>14. ASSUME NEW k \in Requests, ReleaseClaim(k) PROVE TypeOK'
  <2>1. RequestTypes'
    BY <1>14, RequestMoves DEF ReleaseClaim
  <2>2. prop' \in [Proposals -> Rows]
    BY <1>14, StatusTypes DEF ReleaseClaim, TypeOK, Calls, Statuses
  <2> QED BY <1>14, <2>1, <2>2 DEF ReleaseClaim, TypeOK, RequestTypes, OnOne
<1>15. ASSUME NEW k \in Requests, Settle(k) PROVE TypeOK'
  <2>1. RequestTypes'
    BY <1>15, RequestMoves DEF Settle
  <2>2. prop' \in [Proposals -> Rows]
    BY <1>15, StatusTypes DEF Settle, TypeOK, Calls, Statuses
  <2> QED BY <1>15, <2>1, <2>2 DEF Settle, TypeOK, RequestTypes, OnOne
<1>16. ASSUME NEW k \in Requests, Crash(k) PROVE TypeOK'
  <2>1. RequestTypes'
    BY <1>16, RequestMoves DEF Crash
  <2>2. faults' \in 0..MaxFaults
    BY <1>16, ProposalsAssumption DEF Crash, TypeOK
  <2> QED BY <1>16, <2>1, <2>2 DEF Crash, TypeOK, RequestTypes, OnOne
<1>17. CASE UNCHANGED vars
  BY <1>17 DEF vars, TypeOK
<1> QED
  BY <1>1, <1>2, <1>3, <1>4, <1>5, <1>6, <1>7, <1>8, <1>9, <1>10, <1>11, <1>12, <1>13,
     <1>14, <1>15, <1>16, <1>17 DEF Next, RequestStep

(* The model's state never leaves the types it declares.                    *)
THEOREM TypesHold == Spec => []TypeOK
BY InitTypes, StepTypes, PTL DEF Spec

-------------------------------------------------------------------------------
(* The inductive invariant.                                                 *)

Works(k, i) == req[k].stage \in Applying /\ i \in req[k].of

(* A claim has one holder, and while it has, the row is not open to others. *)
SoleApplier ==
    \A i \in Proposals : \A k \in Requests :
        Works(k, i) => /\ Status(i) \in {"applying", "applied"}
                       /\ \A l \in Requests : Works(l, i) => l = k

(* A change is heard of once at most; from then on the proposal can only be *)
(* applied, and a request about to write or to release is not told apart    *)
(* from one that comes before it was heard of.                              *)
Heard ==
    \A i \in Proposals :
        /\ written[i] \in {unheard[i], unheard[i] + 1}
        /\ written[i] # unheard[i] => Status(i) \in {"applying", "applied"}
        /\ \A k \in Requests :
             i \in req[k].of => /\ req[k].stage \in {"claimed", "failed"} => written[i] = unheard[i]
                                /\ req[k].stage = "written" => written[i] # unheard[i]

(* Whoever says "applied", or finds the text, has a landed change to go by. *)
LandedFirst ==
    /\ \A i \in Proposals : Status(i) = "applied" \/ i \in reconciling => written[i] > 0
    /\ \A i \in IsWholeText : Text(i) = TextOf[i] => written[i] > 0

IInv == TypeOK /\ SoleApplier /\ Heard /\ LandedFirst

(* It holds at first: nobody works, and no target holds a proposed text.    *)
LEMMA InitInductive == Init => IInv
<1> SUFFICES ASSUME Init PROVE IInv
  OBVIOUS
<1>1. SoleApplier
  BY DEF Init, SoleApplier, Works, Applying, NoRequest
<1>2. Heard
  BY DEF Init, Heard, NoRequest
<1>3. LandedFirst
  BY ProposalsAssumption, OwnTextAssumption DEF Init, LandedFirst, Status, Text
<1> QED BY <1>1, <1>2, <1>3, InitTypes DEF IInv

(* What a status update does to the statuses ...                            *)
LEMMA StatusAfter ==
    ASSUME TypeOK, NEW i \in Proposals, NEW status \in Statuses, SetStatus(i, status)
    PROVE  \A j \in Proposals : Status(j)' = IF j = i THEN status ELSE Status(j)
BY DEF TypeOK, Rows, SetStatus, Status

(* ... and what going on or leaving does to the requests.                   *)
LEMMA RequestsAfter ==
    ASSUME TypeOK, NEW k \in Requests
    PROVE  /\ Leave(k) => \A q \in Requests :
                 /\ q # k => req'[q] = req[q]
                 /\ req'[k].stage = "idle" /\ req'[k].of = {}
           /\ \A stage \in Stages : Reach(k, stage) => \A q \in Requests :
                 /\ req'[q].stage = IF q = k THEN stage ELSE req[q].stage
                 /\ req'[q].of = req[q].of
<1>1. ASSUME Leave(k)
      PROVE  \A q \in Requests : /\ q # k => req'[q] = req[q]
                                 /\ req'[k].stage = "idle" /\ req'[k].of = {}
  BY <1>1 DEF Leave, NoRequest, TypeOK
<1>2. ASSUME NEW stage \in Stages, Reach(k, stage)
      PROVE  \A q \in Requests : /\ req'[q].stage = IF q = k THEN stage ELSE req[q].stage
                                 /\ req'[q].of = req[q].of
  <2>1. req[k] \in Calls
    BY DEF TypeOK
  <2> QED BY <1>2, <2>1 DEF Reach, TypeOK, Calls
<1> QED BY <1>1, <1>2

(* Steps of people, of time and of the reconciler.                          *)
LEMMA OutsideSteps ==
    ASSUME IInv, NEW i \in Proposals,
           \/ Draft(i) \/ GraceEnds(i) \/ ReconcileRead(i) \/ ReconcileSettle(i)
    PROVE  SoleApplier' /\ Heard' /\ LandedFirst'
<1>1. CASE Draft(i)
  <2>1. Status(i) = "none" /\ \A j \in Proposals : Status(j)' = IF j = i THEN "open" ELSE Status(j)
    BY <1>1 DEF Draft, Status, IInv, TypeOK, Rows
  <2>2. UNCHANGED <<target, req, reconciling, written, unheard>>
    BY <1>1 DEF Draft
  <2>3. SoleApplier'
    BY <2>1, <2>2 DEF IInv, SoleApplier, Works
  <2>4. Heard'
    BY <2>1, <2>2 DEF IInv, Heard
  <2>5. LandedFirst'
    BY <2>1, <2>2, ProposalsAssumption DEF IInv, LandedFirst, Text
  <2> QED BY <2>3, <2>4, <2>5
<1>2. CASE GraceEnds(i)
  <2>1. \A j \in Proposals : Status(j)' = Status(j)
    BY <1>2 DEF GraceEnds, Status, IInv, TypeOK, Rows
  <2>2. UNCHANGED <<target, req, reconciling, written, unheard>>
    BY <1>2 DEF GraceEnds
  <2> QED BY <2>1, <2>2 DEF IInv, SoleApplier, Works, Heard, LandedFirst, Text
<1>3. CASE ReconcileRead(i)
  <2>1. UNCHANGED <<prop, target, req, written, unheard>> /\ reconciling' = reconciling \union {i}
    BY <1>3 DEF ReconcileRead
  <2>2. written[i] > 0
    BY <1>3 DEF ReconcileRead, Decidable, IInv, LandedFirst
  <2>3. LandedFirst'
    BY <2>1, <2>2 DEF IInv, LandedFirst, Status, Text
  <2> QED BY <2>1, <2>3 DEF IInv, SoleApplier, Works, Heard, Status
<1>4. CASE ReconcileSettle(i)
  <2>1. UNCHANGED <<target, req, written, unheard>> /\ reconciling' = reconciling \ {i}
    BY <1>4 DEF ReconcileSettle
  <2>2. written[i] > 0
    BY <1>4 DEF ReconcileSettle, IInv, LandedFirst
  <2>3. \A j \in Proposals :
          \/ Status(j)' = Status(j)
          \/ j = i /\ Status(j) = "applying" /\ Status(j)' = "applied"
    BY <1>4, StatusAfter DEF ReconcileSettle, IInv, Status, Statuses
  <2>4. SoleApplier'
    BY <2>1, <2>3 DEF IInv, SoleApplier, Works
  <2>5. Heard'
    BY <2>1, <2>3 DEF IInv, Heard
  <2>6. LandedFirst'
    BY <2>1, <2>2, <2>3, ProposalsAssumption DEF IInv, LandedFirst, Text
  <2> QED BY <2>4, <2>5, <2>6
<1> QED BY <1>1, <1>2, <1>3, <1>4

(* A hand edit never writes a proposed text.                                *)
LEMMA EditSteps ==
    ASSUME IInv, NEW t \in Targets, HandEdit(t)
    PROVE  SoleApplier' /\ Heard' /\ LandedFirst'
<1>1. UNCHANGED <<prop, req, reconciling, written, unheard>>
  BY DEF HandEdit
<1>2. \A i \in Proposals : Text(i)' = Text(i) \/ Text(i)' \in HandTexts
  BY ProposalsAssumption DEF HandEdit, Text, IInv, TypeOK
<1>3. LandedFirst'
  BY <1>1, <1>2, ProposalsAssumption, OwnTextAssumption DEF IInv, LandedFirst, Status
<1> QED BY <1>1, <1>3 DEF IInv, SoleApplier, Works, Heard, Status

(* Before the claim a request changes nothing but itself; a dismissal       *)
(* touches only an open row, which nobody works on.                         *)
LEMMA EarlySteps ==
    ASSUME IInv, NEW k \in Requests,
           \/ \E i \in Proposals : Load(k, i)
           \/ Check(k) \/ Fingerprint(k) \/ ClaimDismiss(k)
    PROVE  SoleApplier' /\ Heard' /\ LandedFirst'
<1>1. UNCHANGED <<target, reconciling, written, unheard>>
  BY Zenon DEF Load, Check, Fingerprint, ClaimDismiss
<1>2. /\ \A q \in Requests : q # k => req'[q] = req[q]
      /\ req'[k].stage \in {"idle", "loaded", "checked", "prepared"}
      /\ req[k].stage \in {"idle", "loaded", "checked"}
  <2>1. ASSUME NEW i \in Proposals, Load(k, i)
        PROVE  /\ \A q \in Requests : q # k => req'[q] = req[q]
               /\ req'[k].stage = "loaded" /\ req[k].stage = "idle"
    <3> DEFINE call == [NoRequest EXCEPT !.stage = "loaded", !.of = {i}]
    <3>1. call.stage = "loaded"
      BY DEF NoRequest
    <3>2. req' = [req EXCEPT ![k] = call] /\ req[k].stage = "idle"
      BY <2>1, Zenon DEF Load
    <3> HIDE DEF call
    <3> QED BY <3>1, <3>2 DEF IInv, TypeOK
  <2>2. CASE Check(k)
    <3>1. req[k].stage = "loaded"
      BY <2>2, Zenon DEF Check
    <3>2. CASE Leave(k)
      BY <3>1, <3>2, RequestsAfter DEF IInv, TypeOK, Leave
    <3>3. ASSUME NEW i \in req[k].of,
                 req' = [req EXCEPT ![k] = [@ EXCEPT !.stage = "checked", !.saw = Text(i)]]
          PROVE  /\ \A q \in Requests : q # k => req'[q] = req[q]
                 /\ req'[k].stage = "checked"
      BY <3>3 DEF IInv, TypeOK, Calls
    <3> QED BY <2>2, <3>1, <3>2, <3>3, Zenon DEF Check
  <2>3. CASE Fingerprint(k)
    <3>1. PICK i \in req[k].of :
            req' = [req EXCEPT ![k] = [@ EXCEPT !.stage = "prepared", !.expect = Text(i)]]
      BY <2>3, Zenon DEF Fingerprint
    <3>2. req[k].stage = "checked"
      BY <2>3, Zenon DEF Fingerprint
    <3> DEFINE call == [req[k] EXCEPT !.stage = "prepared", !.expect = Text(i)]
    <3>3. call.stage = "prepared" /\ req' = [req EXCEPT ![k] = call]
      BY <3>1 DEF IInv, TypeOK, Calls
    <3> HIDE DEF call
    <3> QED BY <3>2, <3>3 DEF IInv, TypeOK
  <2>4. CASE ClaimDismiss(k)
    <3>1. req[k].stage = "loaded" /\ Leave(k)
      BY <2>4 DEF ClaimDismiss
    <3> QED BY <3>1, RequestsAfter DEF IInv
  <2> QED BY <2>1, <2>2, <2>3, <2>4
<1>3. \A j \in Proposals :
        Status(j)' = Status(j) \/ (Status(j) = "open" /\ Status(j)' = "dismissed")
  <2>1. CASE prop' = prop
    BY <2>1 DEF Status
  <2>2. CASE ClaimDismiss(k)
    <3>1. PICK i \in req[k].of : IF CanClaim(i) THEN SetStatus(i, "dismissed") ELSE UNCHANGED prop
      BY <2>2, Zenon DEF ClaimDismiss
    <3>2. i \in Proposals
      BY DEF IInv, TypeOK, Calls
    <3>3. CASE Status(i) = "open"
      <4>1. SetStatus(i, "dismissed")
        BY <3>1, <3>3 DEF CanClaim
      <4> QED BY <3>2, <3>3, <4>1, StatusAfter DEF Statuses, IInv
    <3>4. CASE Status(i) # "open"
      <4>1. prop' = prop
        BY <3>1, <3>4 DEF CanClaim
      <4> QED BY <2>1, <4>1
    <3> QED BY <3>3, <3>4
  <2>3. prop' = prop \/ ClaimDismiss(k)
    BY Zenon DEF Load, Check, Fingerprint
  <2> QED BY <2>1, <2>2, <2>3
<1>4. SoleApplier'
  BY <1>2, <1>3 DEF IInv, SoleApplier, Works, Applying
<1>5. Heard'
  BY <1>1, <1>2, <1>3 DEF IInv, Heard
<1>6. LandedFirst'
  BY <1>1, <1>3, ProposalsAssumption DEF IInv, LandedFirst, Text
<1> QED BY <1>4, <1>5, <1>6

(* The claim: only an open row is taken, so nobody else works on it and     *)
(* none of its writes has been heard of.                                    *)
LEMMA ClaimSteps ==
    ASSUME IInv, NEW k \in Requests, ClaimApply(k)
    PROVE  SoleApplier' /\ Heard' /\ LandedFirst'
<1>1. req[k].stage = "prepared" /\ UNCHANGED <<target, reconciling, written, unheard>>
  BY DEF ClaimApply
<1>2. PICK i \in Proposals : req[k].of = {i}
  BY <1>1 DEF IInv, TypeOK
<1>3. IF CanClaim(i) THEN SetStatus(i, "applying") /\ Reach(k, "claimed")
                     ELSE UNCHANGED prop /\ Leave(k)
  BY <1>2, Zenon DEF ClaimApply
<1>4. CASE Status(i) = "open"
  <2>1. SetStatus(i, "applying") /\ Reach(k, "claimed")
    BY <1>3, <1>4 DEF CanClaim
  <2>2. \A j \in Proposals : Status(j)' = IF j = i THEN "applying" ELSE Status(j)
    BY <2>1, StatusAfter DEF Statuses, IInv
  <2>3. \A q \in Requests : /\ req'[q].stage = IF q = k THEN "claimed" ELSE req[q].stage
                            /\ req'[q].of = req[q].of
    BY <2>1, RequestsAfter DEF IInv, Stages
  <2>4. \A q \in Requests : ~ Works(q, i)
    BY <1>4 DEF IInv, SoleApplier
  <2>5. SoleApplier'
    BY <1>1, <1>2, <2>2, <2>3, <2>4 DEF IInv, SoleApplier, Works, Applying
  <2>6. Heard'
    BY <1>1, <1>2, <1>4, <2>2, <2>3 DEF IInv, Heard
  <2>7. LandedFirst'
    BY <1>1, <2>2, ProposalsAssumption DEF IInv, LandedFirst, Text
  <2> QED BY <2>5, <2>6, <2>7
<1>5. CASE Status(i) # "open"
  <2>1. prop' = prop /\ Leave(k)
    BY <1>3, <1>5 DEF CanClaim
  <2>2. \A q \in Requests : /\ q # k => req'[q] = req[q]
                            /\ req'[k].stage = "idle" /\ req'[k].of = {}
    BY <2>1, RequestsAfter DEF IInv
  <2> QED BY <1>1, <2>1, <2>2 DEF IInv, SoleApplier, Works, Applying, Heard, LandedFirst, Status, Text
<1> QED BY <1>4, <1>5

(* A write is made by the sole holder of the claim, before any of the       *)
(* proposal's writes has been heard of.                                     *)
LEMMA LandsAfter ==
    ASSUME IInv, NEW k \in Requests, NEW i \in Proposals, Lands(k, i)
    PROVE  /\ written' = [written EXCEPT ![i] = @ + 1]
           /\ \A j \in IsWholeText : Text(j)' = TextOf[j] => Text(j) = TextOf[j] \/ j = i
<1>1. PICK x \in Writable(i) : target' = [target EXCEPT ![TargetOf[i]] = x]
  BY DEF Lands
<1>2. \A j \in IsWholeText \ {i} : x # TextOf[j]
  BY OwnTextAssumption, ProposalsAssumption DEF Writable
<1>3. \A j \in IsWholeText \ {i} : Text(j)' = TextOf[j] => Text(j) = TextOf[j]
  BY <1>1, <1>2, ProposalsAssumption DEF Text, IInv, TypeOK
<1> QED BY <1>3 DEF Lands

(* The three ways a write may go keep the invariant.                        *)
LEMMA WriteSteps ==
    ASSUME IInv, NEW k \in Requests, Write(k) \/ WriteUnheard(k) \/ WriteRefused(k)
    PROVE  SoleApplier' /\ Heard' /\ LandedFirst'
<1>1. req[k].stage = "claimed" /\ UNCHANGED <<prop, reconciling>>
  BY Zenon DEF Write, WriteUnheard, WriteRefused
<1>2. PICK i \in Proposals : req[k].of = {i}
  BY <1>1 DEF IInv, TypeOK
<1>3. /\ Status(i) \in {"applying", "applied"}
      /\ \A q \in Requests \ {k} : ~ Works(q, i)
      /\ written[i] = unheard[i]
  BY <1>1, <1>2 DEF IInv, SoleApplier, Heard, Works, Applying
<1>4. PICK stage \in {"written", "failed"} :
        \A q \in Requests : /\ req'[q].stage = IF q = k THEN stage ELSE req[q].stage
                            /\ req'[q].of = req[q].of
  <2>1. Reach(k, "written") \/ Reach(k, "failed")
    BY Zenon DEF Write, WriteUnheard, WriteRefused
  <2> QED BY <2>1, RequestsAfter DEF IInv, Stages
<1>5. SoleApplier'
  BY <1>1, <1>2, <1>3, <1>4 DEF IInv, SoleApplier, Works, Applying, Status
<1>6. CASE Write(k)
  <2>1. Lands(k, i) /\ unheard' = unheard /\ req'[k].stage = "written"
    BY <1>2, <1>6, RequestsAfter DEF Write, IInv, Stages
  <2>2. written' = [written EXCEPT ![i] = @ + 1]
    BY <2>1, LandsAfter
  <2>3. Heard'
    BY <1>1, <1>2, <1>3, <1>4, <2>1, <2>2 DEF IInv, TypeOK, Heard, Works, Applying, Status
  <2>4. LandedFirst'
    BY <1>1, <2>1, <2>2, LandsAfter, ProposalsAssumption DEF IInv, TypeOK, LandedFirst, Status
  <2> QED BY <1>5, <2>3, <2>4
<1>7. CASE WriteUnheard(k)
  <2>1. Lands(k, i) /\ unheard' = [unheard EXCEPT ![i] = @ + 1] /\ req'[k].stage = "failed"
    BY <1>2, <1>7, RequestsAfter DEF WriteUnheard, IInv, Stages
  <2>2. written' = [written EXCEPT ![i] = @ + 1]
    BY <2>1, LandsAfter
  <2>3. Heard'
    BY <1>1, <1>2, <1>3, <1>4, <2>1, <2>2 DEF IInv, TypeOK, Heard, Works, Applying, Status
  <2>4. LandedFirst'
    BY <1>1, <2>1, <2>2, LandsAfter, ProposalsAssumption DEF IInv, TypeOK, LandedFirst, Status
  <2> QED BY <1>5, <2>3, <2>4
<1>8. CASE WriteRefused(k)
  <2>1. UNCHANGED <<target, written, unheard>> /\ req'[k].stage = "failed"
    BY <1>8, RequestsAfter DEF WriteRefused, IInv, Stages
  <2>2. Heard'
    BY <1>1, <1>3, <1>4, <2>1 DEF IInv, Heard, Works, Applying, Status
  <2>3. LandedFirst'
    BY <1>1, <2>1 DEF IInv, LandedFirst, Status, Text
  <2> QED BY <1>5, <2>2, <2>3
<1> QED BY <1>6, <1>7, <1>8

(* A request that ends, by settling, by giving its claim back or by dying.  *)
LEMMA LateSteps ==
    ASSUME IInv, NEW k \in Requests, Settle(k) \/ ReleaseClaim(k) \/ Crash(k)
    PROVE  SoleApplier' /\ Heard' /\ LandedFirst'
<1>1. Leave(k) /\ req[k].stage # "idle" /\ UNCHANGED <<target, reconciling, written, unheard>>
  BY Zenon DEF Settle, ReleaseClaim, Crash
<1>2. PICK i \in Proposals : req[k].of = {i}
  BY <1>1 DEF IInv, TypeOK
<1>3. \A q \in Requests : /\ q # k => req'[q] = req[q]
                          /\ req'[k].stage = "idle" /\ req'[k].of = {}
  BY <1>1, RequestsAfter DEF IInv
<1>4. CASE \A j \in Proposals : Status(j)' = Status(j)
  BY <1>1, <1>3, <1>4 DEF IInv, SoleApplier, Works, Applying, Heard, LandedFirst, Text
<1>5. CASE Settle(k) /\ \A j \in Proposals : Status(j)' = IF j = i THEN "applied" ELSE Status(j)
  <2>1. written[i] > 0
    BY <1>2, <1>5 DEF Settle, IInv, TypeOK, Heard
  <2>2. SoleApplier'
    BY <1>3, <1>5 DEF IInv, SoleApplier, Works, Applying
  <2>3. Heard'
    BY <1>1, <1>3, <1>5 DEF IInv, Heard
  <2>4. LandedFirst'
    BY <1>1, <1>5, <2>1, ProposalsAssumption DEF IInv, LandedFirst, Text
  <2> QED BY <2>2, <2>3, <2>4
<1>6. CASE ReleaseClaim(k) /\ \A j \in Proposals : Status(j)' = IF j = i THEN "open" ELSE Status(j)
  <2>1. req[k].stage = "failed"
    BY <1>6 DEF ReleaseClaim
  <2>2. written[i] = unheard[i] /\ \A q \in Requests \ {k} : ~ Works(q, i)
    BY <1>2, <2>1 DEF IInv, Heard, SoleApplier, Works, Applying
  <2>3. SoleApplier'
    BY <1>3, <1>6, <2>2 DEF IInv, SoleApplier, Works, Applying
  <2>4. Heard'
    BY <1>1, <1>3, <1>6, <2>2 DEF IInv, Heard
  <2>5. LandedFirst'
    BY <1>1, <1>6, ProposalsAssumption DEF IInv, LandedFirst, Text
  <2> QED BY <2>3, <2>4, <2>5
<1>7. \/ \A j \in Proposals : Status(j)' = Status(j)
      \/ Settle(k) /\ \A j \in Proposals : Status(j)' = IF j = i THEN "applied" ELSE Status(j)
      \/ ReleaseClaim(k) /\ \A j \in Proposals : Status(j)' = IF j = i THEN "open" ELSE Status(j)
  <2>1. CASE Settle(k)
    <3>1. SetStatus(i, "applied") \/ prop' = prop
      BY <1>2, <2>1, Zenon DEF Settle
    <3> QED BY <2>1, <3>1, StatusAfter DEF IInv, Statuses, Status
  <2>2. CASE ReleaseClaim(k)
    <3>1. SetStatus(i, "open") \/ prop' = prop
      BY <1>2, <2>2, Zenon DEF ReleaseClaim
    <3> QED BY <2>2, <3>1, StatusAfter DEF IInv, Statuses, Status
  <2>3. CASE Crash(k)
    BY <2>3 DEF Crash, Status
  <2> QED BY <2>1, <2>2, <2>3
<1> QED BY <1>4, <1>5, <1>6, <1>7

(* Every step keeps the invariant ...                                       *)
LEMMA StepInductive == IInv /\ [Next]_vars => IInv'
<1> SUFFICES ASSUME IInv, [Next]_vars PROVE IInv'
  OBVIOUS
<1>1. TypeOK'
  BY StepTypes DEF IInv
<1>2. CASE UNCHANGED vars
  BY <1>1, <1>2 DEF vars, IInv, SoleApplier, Works, Heard, LandedFirst, Status, Text
<1>3. CASE Next
  <2>1. SoleApplier' /\ Heard' /\ LandedFirst'
    BY <1>3, OutsideSteps, EditSteps, EarlySteps, ClaimSteps, WriteSteps, LateSteps, Zenon
       DEF Next, RequestStep
  <2> QED BY <1>1, <2>1 DEF IInv
<1> QED BY <1>2, <1>3

(* ... so it holds for ever.                                                *)
THEOREM Inductive == Spec => []IInv
BY InitInductive, StepInductive, PTL DEF Spec

(* "Step 3 before step 4 is what stops a double-click writing twice"        *)
(* (service.ts), for any number of reviewers, crashes and reconciliations.  *)
THEOREM NeverTwoAppliers == Spec => []OneApplier
<1>1. IInv => OneApplier
  <2> SUFFICES ASSUME IInv, NEW i \in Proposals
               PROVE  Cardinality(Claimants(i)) <= 1 /\ written[i] <= 1 + unheard[i]
    BY DEF OneApplier
  <2>1. written[i] <= 1 + unheard[i]
    BY DEF IInv, TypeOK, Heard
  <2>2. CASE Claimants(i) = {}
    BY <2>1, <2>2, FS_EmptySet
  <2>3. CASE Claimants(i) # {}
    <3>1. PICK k : k \in Claimants(i)
      BY <2>3
    <3>2. \A l \in Claimants(i) : l = k
      BY <3>1, Zenon DEF Claimants, IInv, SoleApplier, Works
    <3>3. Claimants(i) = {k}
      BY <3>1, <3>2
    <3> HIDE DEF Claimants
    <3> QED BY <2>1, <3>3, FS_Singleton
  <2> QED BY <2>2, <2>3
<1> QED BY <1>1, Inductive, PTL

(* Applied and dismissed are final: every update is conditional on the      *)
(* status it replaces (store.ts).                                           *)
THEOREM DecisionStays == Spec => DecisionIsFinal
<1>1. TypeOK /\ [Next]_vars =>
        [\A i \in Proposals : Status(i) \in {"applied", "dismissed"} => prop'[i] = prop[i]]_vars
  <2> SUFFICES ASSUME TypeOK, Next, NEW i \in Proposals, Status(i) \in {"applied", "dismissed"}
               PROVE  prop'[i] = prop[i]
    OBVIOUS
  <2>1. ASSUME NEW j \in Proposals,
               Draft(j) \/ GraceEnds(j) \/ ReconcileRead(j) \/ ReconcileSettle(j)
        PROVE  prop'[i] = prop[i]
    BY <2>1 DEF Draft, GraceEnds, ReconcileRead, ReconcileSettle, SetStatus, Status, TypeOK
  <2>2. ASSUME NEW k \in Requests,
               ClaimApply(k) \/ ClaimDismiss(k) \/ ReleaseClaim(k) \/ Settle(k)
        PROVE  prop'[i] = prop[i]
    <3>1. PICK j \in Proposals : req[k].of = {j}
      BY <2>2 DEF ClaimApply, ClaimDismiss, ReleaseClaim, Settle, TypeOK
    <3>2. \/ prop' = prop
          \/ Status(j) \in {"open", "applying"} /\ \E status \in Statuses : SetStatus(j, status)
      <4>1. CASE ClaimApply(k)
        BY <3>1, <4>1, Zenon DEF ClaimApply, CanClaim, Statuses
      <4>2. CASE ClaimDismiss(k)
        BY <3>1, <4>2, Zenon DEF ClaimDismiss, CanClaim, Statuses
      <4>3. CASE ReleaseClaim(k)
        BY <3>1, <4>3, Zenon DEF ReleaseClaim, Statuses
      <4>4. CASE Settle(k)
        BY <3>1, <4>4, Zenon DEF Settle, Statuses
      <4> QED BY <2>2, <4>1, <4>2, <4>3, <4>4
    <3>3. ASSUME NEW status \in Statuses, SetStatus(j, status), j # i PROVE prop'[i] = prop[i]
      BY <3>3 DEF SetStatus, TypeOK
    <3> QED BY <3>2, <3>3, Zenon
  <2>3. ASSUME NEW k \in Requests,
               \/ \E j \in Proposals : Load(k, j)
               \/ Check(k) \/ Fingerprint(k) \/ Write(k) \/ WriteUnheard(k)
               \/ WriteRefused(k) \/ Crash(k)
        PROVE  prop'[i] = prop[i]
    BY <2>3, Zenon DEF Load, Check, Fingerprint, Write, WriteUnheard, WriteRefused, Crash
  <2>4. ASSUME NEW t \in Targets, HandEdit(t) PROVE prop'[i] = prop[i]
    BY <2>4 DEF HandEdit
  <2> QED BY <2>1, <2>2, <2>3, <2>4, Zenon DEF Next, RequestStep
<1> QED BY <1>1, TypesHold, PTL DEF Spec, DecisionIsFinal

-------------------------------------------------------------------------------
(* The lifecycle implements what it promises a reviewer.                    *)

(* The refinement mapping, as ImplementsDecision has it.                    *)
Decision == [i \in Proposals |-> prop[i].status]
Landed == {i \in Proposals : written[i] > 0}
Doubtful == {i \in Proposals : unheard[i] > 0}

(* Nothing is decided or landed at first.                                   *)
LEMMA InitRefines == Init => Abstract!Init
BY DEF Init, Abstract!Init

(* A status update is a step of the abstract decision.                      *)
LEMMA StatusRefines ==
    ASSUME TypeOK, UNCHANGED <<written, unheard>>, NEW i \in Proposals,
           NEW from, NEW to, Status(i) = from,
           \A j \in Proposals : Status(j)' = IF j = i THEN to ELSE Status(j)
    PROVE  Abstract!Say(i, from, to)
<1>1. Decision' = [Decision EXCEPT ![i] = to]
  BY DEF Decision, Status
<1>2. Landed' = Landed /\ Doubtful' = Doubtful
  BY DEF Landed, Doubtful
<1> QED BY <1>1, <1>2 DEF Abstract!Say, Abstract!Move, Decision, Landed, Doubtful, Status

(* A step that changes no status and writes nothing is a stutter.           *)
LEMMA Stutters ==
    ASSUME UNCHANGED <<written, unheard>>, \A j \in Proposals : Status(j)' = Status(j)
    PROVE  UNCHANGED Abstract!vars
<1>1. Decision' = Decision
  BY DEF Decision, Status
<1>2. Landed' = Landed /\ Doubtful' = Doubtful
  BY DEF Landed, Doubtful
<1> QED BY <1>1, <1>2 DEF Abstract!vars, Decision, Landed, Doubtful

(* The first write of a proposal is its landing; a later one, which only    *)
(* follows writes nobody heard of, tells a reviewer nothing new.            *)
LEMMA WriteRefines ==
    ASSUME IInv, NEW k \in Requests, Write(k) \/ WriteUnheard(k)
    PROVE  Abstract!Next \/ UNCHANGED Abstract!vars
<1>1. req[k].stage = "claimed" /\ prop' = prop
  BY Zenon DEF Write, WriteUnheard
<1>2. PICK i \in Proposals : req[k].of = {i}
  BY <1>1 DEF IInv, TypeOK
<1>3. Status(i) \in {"applying", "applied"} /\ written[i] = unheard[i]
  BY <1>1, <1>2 DEF IInv, SoleApplier, Heard, Works, Applying
<1>4. /\ written' = [written EXCEPT ![i] = @ + 1]
      /\ unheard' = unheard \/ unheard' = [unheard EXCEPT ![i] = @ + 1]
  BY <1>2, Zenon DEF Write, WriteUnheard, Lands
<1>5. Decision' = Decision
  BY <1>1 DEF Decision
<1>6. Landed' = Landed \union {i} /\ Doubtful' \in {Doubtful, Doubtful \union {i}}
  BY <1>4 DEF Landed, Doubtful, IInv, TypeOK
<1>7. CASE written[i] = 0
  <2>1. Status(i) = "applying" /\ i \notin Landed
    BY <1>3, <1>7 DEF IInv, LandedFirst, Landed
  <2>2. Abstract!Land(i)
    BY <1>5, <1>6, <2>1 DEF Abstract!Land, Decision, Landed, Doubtful, Status
  <2> QED BY <2>2 DEF Abstract!Next
<1>8. CASE written[i] # 0
  <2>1. i \in Landed /\ i \in Doubtful
    BY <1>3, <1>8 DEF Landed, Doubtful, IInv, TypeOK
  <2> QED BY <1>5, <1>6, <2>1 DEF Abstract!vars, Decision, Landed, Doubtful
<1> QED BY <1>7, <1>8

(* Every other step moves one proposal's status, or nothing.                *)
LEMMA OtherRefines ==
    ASSUME IInv, UNCHANGED <<written, unheard>>,
           \/ \A j \in Proposals : Status(j)' = Status(j)
           \/ \E i \in Proposals, to \in Statuses :
                /\ \A j \in Proposals : Status(j)' = IF j = i THEN to ELSE Status(j)
                /\ \/ Status(i) = "none" /\ to = "open"
                   \/ Status(i) = "open" /\ to \in {"applying", "dismissed"}
                   \/ Status(i) = "applying" /\ to = "open" /\ written[i] = unheard[i]
                   \/ Status(i) = "applying" /\ to = "applied" /\ written[i] > 0
    PROVE  Abstract!Next \/ UNCHANGED Abstract!vars
<1>1. CASE \A j \in Proposals : Status(j)' = Status(j)
  BY <1>1, Stutters
<1>2. ASSUME NEW i \in Proposals, NEW to \in Statuses,
             \A j \in Proposals : Status(j)' = IF j = i THEN to ELSE Status(j),
             \/ Status(i) = "none" /\ to = "open"
             \/ Status(i) = "open" /\ to \in {"applying", "dismissed"}
             \/ Status(i) = "applying" /\ to = "open" /\ written[i] = unheard[i]
             \/ Status(i) = "applying" /\ to = "applied" /\ written[i] > 0
      PROVE  Abstract!Next
  <2>1. Abstract!Say(i, Status(i), to)
    BY <1>2, StatusRefines DEF IInv
  <2>2. /\ written[i] = unheard[i] => i \notin Landed \ Doubtful
        /\ written[i] > 0 => i \in Landed
    BY DEF Landed, Doubtful
  <2>3. Abstract!Open(i) \/ Abstract!Start(i) \/ Abstract!Dismiss(i) \/ Abstract!Abandon(i) \/ Abstract!Finish(i)
    BY <1>2, <2>1, <2>2 DEF Abstract!Open, Abstract!Start, Abstract!Dismiss, Abstract!Abandon,
       Abstract!Finish, Landed, Doubtful
  <2> QED BY <2>3 DEF Abstract!Next
<1> QED BY <1>1, <1>2

(* Which moves a step makes.                                                *)
LEMMA StepRefines == IInv /\ [Next]_vars => [Abstract!Next]_(Abstract!vars)
<1> SUFFICES ASSUME IInv, [Next]_vars PROVE Abstract!Next \/ UNCHANGED Abstract!vars
  OBVIOUS
<1> DEFINE Still == \A j \in Proposals : Status(j)' = Status(j)
           Becomes(i, to) == \A j \in Proposals : Status(j)' = IF j = i THEN to ELSE Status(j)
<1>1. ASSUME NEW i \in Proposals, Draft(i) PROVE Abstract!Next \/ UNCHANGED Abstract!vars
  <2>1. Status(i) = "none" /\ Becomes(i, "open") /\ UNCHANGED <<written, unheard>>
    BY <1>1 DEF Draft, Status, IInv, TypeOK, Rows
  <2> QED BY <2>1, OtherRefines DEF Statuses
<1>2. ASSUME NEW i \in Proposals, ReconcileSettle(i) PROVE Abstract!Next \/ UNCHANGED Abstract!vars
  <2>1. written[i] > 0 /\ UNCHANGED <<written, unheard>>
    BY <1>2 DEF ReconcileSettle, IInv, LandedFirst
  <2>2. Still \/ (Status(i) = "applying" /\ Becomes(i, "applied"))
    <3>1. prop' = prop \/ (Status(i) = "applying" /\ SetStatus(i, "applied"))
      BY <1>2, Zenon DEF ReconcileSettle
    <3> QED BY <3>1, StatusAfter DEF IInv, Statuses, Status
  <2> QED BY <2>1, <2>2, OtherRefines DEF Statuses
<1>3. ASSUME NEW k \in Requests, ClaimApply(k) \/ ClaimDismiss(k)
      PROVE  Abstract!Next \/ UNCHANGED Abstract!vars
  <2>1. PICK i \in Proposals : req[k].of = {i}
    BY <1>3 DEF ClaimApply, ClaimDismiss, IInv, TypeOK
  <2>2. UNCHANGED <<written, unheard>>
    BY <1>3 DEF ClaimApply, ClaimDismiss
  <2>3. Still \/ (Status(i) = "open" /\ (Becomes(i, "applying") \/ Becomes(i, "dismissed")))
    <3>1. CASE ClaimApply(k)
      <4>1. prop' = prop \/ (Status(i) = "open" /\ SetStatus(i, "applying"))
        BY <2>1, <3>1, Zenon DEF ClaimApply, CanClaim
      <4> QED BY <4>1, StatusAfter DEF IInv, Statuses, Status
    <3>2. CASE ClaimDismiss(k)
      <4>1. prop' = prop \/ (Status(i) = "open" /\ SetStatus(i, "dismissed"))
        BY <2>1, <3>2, Zenon DEF ClaimDismiss, CanClaim
      <4> QED BY <4>1, StatusAfter DEF IInv, Statuses, Status
    <3> QED BY <1>3, <3>1, <3>2
  <2> QED BY <2>2, <2>3, OtherRefines DEF Statuses
<1>4. ASSUME NEW k \in Requests, Settle(k) PROVE Abstract!Next \/ UNCHANGED Abstract!vars
  <2>1. PICK i \in Proposals : req[k].of = {i}
    BY <1>4 DEF Settle, IInv, TypeOK
  <2>2. written[i] > 0 /\ UNCHANGED <<written, unheard>>
    BY <1>4, <2>1 DEF Settle, IInv, TypeOK, Heard
  <2>3. Still \/ (Status(i) = "applying" /\ Becomes(i, "applied"))
    <3>1. prop' = prop \/ (Status(i) = "applying" /\ SetStatus(i, "applied"))
      BY <1>4, <2>1, Zenon DEF Settle
    <3> QED BY <3>1, StatusAfter DEF IInv, Statuses, Status
  <2> QED BY <2>2, <2>3, OtherRefines DEF Statuses
<1>5. ASSUME NEW k \in Requests, ReleaseClaim(k) PROVE Abstract!Next \/ UNCHANGED Abstract!vars
  <2>1. PICK i \in Proposals : req[k].of = {i}
    BY <1>5 DEF ReleaseClaim, IInv, TypeOK
  <2>2. written[i] = unheard[i] /\ UNCHANGED <<written, unheard>>
    BY <1>5, <2>1 DEF ReleaseClaim, IInv, Heard
  <2>3. Still \/ (Status(i) = "applying" /\ Becomes(i, "open"))
    <3>1. prop' = prop \/ (Status(i) = "applying" /\ SetStatus(i, "open"))
      BY <1>5, <2>1, Zenon DEF ReleaseClaim
    <3> QED BY <3>1, StatusAfter DEF IInv, Statuses, Status
  <2> QED BY <2>2, <2>3, OtherRefines DEF Statuses
<1>6. ASSUME NEW i \in Proposals, GraceEnds(i) PROVE Abstract!Next \/ UNCHANGED Abstract!vars
  <2>1. Still /\ UNCHANGED <<written, unheard>>
    BY <1>6 DEF GraceEnds, Status, IInv, TypeOK, Rows
  <2> QED BY <2>1, OtherRefines
<1>7. ASSUME \/ \E i \in Proposals : ReconcileRead(i) \/ \E k \in Requests : Load(k, i)
             \/ \E t \in Targets : HandEdit(t)
             \/ \E k \in Requests : Check(k) \/ Fingerprint(k) \/ WriteRefused(k) \/ Crash(k)
             \/ UNCHANGED vars
      PROVE  Abstract!Next \/ UNCHANGED Abstract!vars
  <2>1. prop' = prop /\ UNCHANGED <<written, unheard>>
    BY <1>7, Zenon DEF ReconcileRead, Load, HandEdit, Check, Fingerprint, WriteRefused, Crash, vars
  <2> QED BY <2>1, OtherRefines DEF Status
<1> QED
  BY <1>1, <1>2, <1>3, <1>4, <1>5, <1>6, <1>7, WriteRefines, Zenon DEF Next, RequestStep

(* Every proposal is decided at most once, "applied" is said only of a      *)
(* change that landed, and a reopened one has landed nothing that was heard *)
(* of: each step of the lifecycle is a step of ProposalDecision or hidden.  *)
THEOREM LifecycleImplementsDecision == Spec => ImplementsDecision
BY Inductive, InitRefines, StepRefines, PTL DEF Spec, ImplementsDecision, Abstract!Spec

-------------------------------------------------------------------------------
(* The stages between the first reading of the target and the write.        *)
Checked == {"checked", "prepared", "claimed"}

(* What the staleness check judged is what the proposal was drafted         *)
(* against, for as long as the request may still write; a proposal somebody *)
(* has loaded is never drafted again.                                       *)
Judged ==
    \A k \in Requests : \A i \in req[k].of :
        /\ Status(i) # "none"
        /\ req[k].stage \in Checked => NotStale(prop[i].base, req[k].saw)

(* What a request keeps while it does not read the target.                  *)
Kept(q) ==
    \/ req'[q].of = {}
    \/ /\ req'[q].of = req[q].of /\ req'[q].saw = req[q].saw
       /\ req'[q].stage \in Checked => req[q].stage \in Checked

(* A step that drafts nothing and judges nothing keeps what was judged.     *)
LEMMA JudgedKept ==
    ASSUME TypeOK, TypeOK', Judged, \A q \in Requests : Kept(q),
           \A i \in Proposals : /\ prop'[i].base = prop[i].base
                                /\ prop[i].status # "none" => prop'[i].status # "none"
    PROVE  Judged'
<1> SUFFICES ASSUME NEW k \in Requests, NEW i \in req'[k].of
             PROVE  /\ prop'[i].status # "none"
                    /\ req'[k].stage \in Checked => NotStale(prop'[i].base, req'[k].saw)
  BY Zenon DEF Judged, Status
<1>1. req'[k].of = req[k].of /\ req'[k].saw = req[k].saw
      /\ (req'[k].stage \in Checked => req[k].stage \in Checked)
  BY DEF Kept
<1>2. i \in Proposals
  BY DEF TypeOK, Calls
<1>3. /\ prop[i].status # "none"
      /\ req[k].stage \in Checked => NotStale(prop[i].base, req[k].saw)
  BY <1>1 DEF Judged, Status
<1> QED BY <1>1, <1>2, <1>3

(* The status updates of a request and the reconciler change no base.       *)
LEMMA BasesKept ==
    ASSUME TypeOK, NEW i \in Proposals, NEW status \in Statuses \ {"none"},
           prop' = prop \/ SetStatus(i, status)
    PROVE  \A j \in Proposals : /\ prop'[j].base = prop[j].base
                                /\ prop[j].status # "none" => prop'[j].status # "none"
<1>1. CASE prop' = prop
  BY <1>1
<1>2. CASE SetStatus(i, status)
  <2>1. prop[i] \in Rows
    BY DEF TypeOK
  <2>2. /\ prop'[i].base = prop[i].base /\ prop'[i].status = status
        /\ \A j \in Proposals \ {i} : prop'[j] = prop[j]
    BY <1>2, <2>1 DEF TypeOK, Rows, SetStatus
  <2> QED BY <2>2
<1> QED BY <1>1, <1>2

(* Going on to a stage before the write, and leaving.                       *)
LEMMA MovesKeep ==
    ASSUME TypeOK, NEW k \in Requests,
           \/ Leave(k)
           \/ \E stage \in {"claimed", "written", "failed"} :
                 Reach(k, stage) /\ (stage = "claimed" => req[k].stage \in Checked)
    PROVE  \A q \in Requests : Kept(q)
<1>1. CASE Leave(k)
  BY <1>1 DEF Leave, NoRequest, TypeOK, Kept
<1>2. ASSUME NEW stage \in {"claimed", "written", "failed"}, Reach(k, stage),
             stage = "claimed" => req[k].stage \in Checked
      PROVE  \A q \in Requests : Kept(q)
  <2>1. req[k] \in Calls
    BY DEF TypeOK
  <2>2. \A q \in Requests : /\ req'[q].stage = IF q = k THEN stage ELSE req[q].stage
                            /\ req'[q].of = req[q].of /\ req'[q].saw = req[q].saw
    BY <1>2, <2>1 DEF Reach, TypeOK, Calls
  <2> QED BY <1>2, <2>2 DEF Kept, Checked
<1> QED BY <1>1, <1>2

(* The two readings of a request.                                           *)
LEMMA ReadingsJudged ==
    ASSUME TypeOK, Judged, NEW k \in Requests, Check(k) \/ Fingerprint(k)
    PROVE  Judged'
<1>0. TypeOK'
  BY StepTypes DEF Next, RequestStep
<1>1. UNCHANGED prop
  BY Zenon DEF Check, Fingerprint
<1>2. CASE Leave(k)
  BY <1>0, <1>1, <1>2, MovesKeep, JudgedKept
<1>3. ASSUME Check(k), NEW i \in req[k].of, NotStale(prop[i].base, Text(i)),
             req' = [req EXCEPT ![k] = [@ EXCEPT !.stage = "checked", !.saw = Text(i)]]
      PROVE  Judged'
  <2>1. req[k] \in Calls /\ req[k].of = {i}
    <3>1. req[k] \in Calls /\ (req[k].stage # "idle" <=> \E j \in Proposals : req[k].of = {j})
      BY DEF TypeOK
    <3>2. req[k].stage = "loaded"
      BY <1>3, Zenon DEF Check
    <3>3. PICK j \in Proposals : req[k].of = {j}
      BY <3>1, <3>2
    <3> QED BY <1>3, <3>1, <3>3
  <2>2. req'[k].of = {i} /\ req'[k].saw = Text(i)
    BY <1>3, <2>1 DEF TypeOK, Calls
  <2>3. \A q \in Requests \ {k} : req'[q] = req[q]
    BY <1>3 DEF TypeOK
  <2> QED BY <1>1, <1>3, <2>1, <2>2, <2>3 DEF Judged, Status
<1>4. ASSUME Fingerprint(k) PROVE Judged'
  <2>1. PICK i \in req[k].of :
          req' = [req EXCEPT ![k] = [@ EXCEPT !.stage = "prepared", !.expect = Text(i)]]
    BY <1>4, Zenon DEF Fingerprint
  <2>2. req[k] \in Calls /\ req[k].stage = "checked"
    BY <1>4 DEF Fingerprint, TypeOK
  <2>3. \A q \in Requests : Kept(q)
    BY <2>1, <2>2 DEF TypeOK, Calls, Kept, Checked
  <2> QED BY <1>0, <1>1, <2>3, JudgedKept
<1> QED BY <1>2, <1>3, <1>4, Zenon DEF Check

(* Every step keeps what was judged.                                        *)
LEMMA StepJudged == TypeOK /\ Judged /\ [Next]_vars => Judged'
<1> SUFFICES ASSUME TypeOK, Judged, [Next]_vars PROVE Judged'
  OBVIOUS
<1>0. TypeOK'
  BY StepTypes
<1>1. ASSUME NEW i \in Proposals, Draft(i) PROVE Judged'
  <2>1. \A q \in Requests : i \notin req[q].of
    BY <1>1 DEF Draft, Judged, Status
  <2>2. \A j \in Proposals \ {i} : prop'[j] = prop[j]
    BY <1>1 DEF Draft, TypeOK
  <2>3. req' = req
    BY <1>1, Zenon DEF Draft
  <2> QED BY <2>1, <2>2, <2>3 DEF Judged, Status, TypeOK, Calls
<1>2. ASSUME NEW i \in Proposals, GraceEnds(i) \/ ReconcileRead(i) \/ ReconcileSettle(i) PROVE Judged'
  <2>1. \A q \in Requests : Kept(q)
    BY <1>2, Zenon DEF GraceEnds, ReconcileRead, ReconcileSettle, Kept
  <2>2. \A j \in Proposals : /\ prop'[j].base = prop[j].base
                             /\ prop[j].status # "none" => prop'[j].status # "none"
    <3>1. CASE GraceEnds(i)
      BY <3>1 DEF GraceEnds, TypeOK, Rows
    <3>2. CASE ReconcileRead(i)
      BY <3>2 DEF ReconcileRead
    <3>3. CASE ReconcileSettle(i)
      <4>1. prop' = prop \/ SetStatus(i, "applied")
        BY <3>3, Zenon DEF ReconcileSettle
      <4> QED BY <4>1, BasesKept DEF Statuses
    <3> QED BY <1>2, <3>1, <3>2, <3>3
  <2> QED BY <1>0, <2>1, <2>2, JudgedKept
<1>3. ASSUME NEW i \in Proposals, NEW k \in Requests, Load(k, i) PROVE Judged'
  <2>1. /\ req'[k].of = {i} /\ req'[k].stage = "loaded"
        /\ \A q \in Requests \ {k} : req'[q] = req[q]
    BY <1>3 DEF Load, NoRequest, TypeOK
  <2>2. prop' = prop /\ Status(i) = "open"
    BY <1>3, Zenon DEF Load
  <2> QED BY <2>1, <2>2 DEF Judged, Status, Checked
<1>4. ASSUME NEW t \in Targets, HandEdit(t) PROVE Judged'
  BY <1>4 DEF HandEdit, Judged, Status
<1>5. ASSUME NEW k \in Requests, Check(k) \/ Fingerprint(k) PROVE Judged'
  BY <1>5, ReadingsJudged
<1>6. ASSUME NEW k \in Requests,
             \/ ClaimApply(k) \/ ClaimDismiss(k) \/ Write(k) \/ WriteUnheard(k)
             \/ WriteRefused(k) \/ ReleaseClaim(k) \/ Settle(k) \/ Crash(k)
      PROVE  Judged'
  <2>1. \/ Leave(k)
        \/ Reach(k, "claimed") /\ req[k].stage = "prepared"
        \/ Reach(k, "written") \/ Reach(k, "failed")
    BY <1>6, Zenon DEF ClaimApply, ClaimDismiss, Write, WriteUnheard, WriteRefused, ReleaseClaim,
       Settle, Crash
  <2>2. \A q \in Requests : Kept(q)
    BY <2>1, MovesKeep DEF Checked
  <2>3. req[k].stage # "idle" => \E i \in Proposals : req[k].of = {i}
    BY DEF TypeOK
  <2>4. \E i \in Proposals, status \in {"applying", "dismissed", "open", "applied"} :
          prop' = prop \/ SetStatus(i, status)
    BY <1>6, <2>3, Zenon DEF ClaimApply, ClaimDismiss, Write, WriteUnheard, WriteRefused,
       ReleaseClaim, Settle, Crash
  <2>5. \A j \in Proposals : /\ prop'[j].base = prop[j].base
                             /\ prop[j].status # "none" => prop'[j].status # "none"
    BY <2>4, BasesKept DEF Statuses
  <2> QED BY <1>0, <2>2, <2>5, JudgedKept
<1>7. CASE UNCHANGED vars
  BY <1>7 DEF vars, Judged, Status
<1> QED
  BY <1>1, <1>2, <1>3, <1>4, <1>5, <1>6, <1>7, Zenon DEF Next, RequestStep

(* A write that goes through finds the text its fingerprint read; if that   *)
(* is the text that was judged, it is the text the draft was made against.  *)
LEMMA OnlyThroughTheWindow ==
    ASSUME Judged, NEW k \in Requests, NEW i \in req[k].of, req[k].stage = "claimed",
           Lands(k, i), NoEditLostOutsideWindow
    PROVE  NoEditLostOutsideWindow'
<1>1. Text(i) = req[k].expect
  BY DEF Lands, Unchanged
<1>2. prop[i].base \in {NoBase, req[k].saw}
  BY DEF Judged, Checked, NotStale
<1>3. ~ (Moved(i) /\ SameReadings(k))
  BY <1>1, <1>2 DEF Moved, SameReadings
<1>4. lost' \subseteq lost \union {"sinceDraft"}
  BY <1>3, Zenon DEF Lands
<1> QED BY <1>4 DEF NoEditLostOutsideWindow

(* For any number of requests, proposals, edits and crashes, the one window *)
(* of the staleness guard is between its two readings of the target: an     *)
(* apply that replaces an edit made after its draft met it there.           *)
THEOREM OnlyOneWindow == Spec => []NoEditLostOutsideWindow
<1>1. Init => Judged /\ NoEditLostOutsideWindow
  BY DEF Init, NoRequest, Judged, NoEditLostOutsideWindow
<1>2. TypeOK /\ Judged /\ NoEditLostOutsideWindow /\ [Next]_vars
        => Judged' /\ NoEditLostOutsideWindow'
  <2> SUFFICES ASSUME TypeOK, Judged, NoEditLostOutsideWindow, [Next]_vars
               PROVE  NoEditLostOutsideWindow'
    BY StepJudged
  <2>1. ASSUME NEW k \in Requests, Write(k) \/ WriteUnheard(k)
        PROVE  NoEditLostOutsideWindow'
    <3>1. PICK i \in req[k].of : req[k].stage = "claimed" /\ Lands(k, i)
      BY <2>1, Zenon DEF Write, WriteUnheard
    <3> QED BY <3>1, OnlyThroughTheWindow
  <2>2. lost' = lost => NoEditLostOutsideWindow'
    BY DEF NoEditLostOutsideWindow
  <2>3. ASSUME NEW k \in Requests,
               \/ Check(k) \/ Fingerprint(k) \/ ClaimApply(k) \/ ClaimDismiss(k)
               \/ WriteRefused(k) \/ ReleaseClaim(k) \/ Settle(k) \/ Crash(k)
        PROVE  lost' = lost
    BY <2>3, Zenon DEF Check, Fingerprint, ClaimApply, ClaimDismiss, WriteRefused, ReleaseClaim,
       Settle, Crash
  <2>4. ASSUME \/ \E i \in Proposals : \/ Draft(i) \/ GraceEnds(i) \/ ReconcileRead(i)
                                       \/ ReconcileSettle(i) \/ \E k \in Requests : Load(k, i)
               \/ \E t \in Targets : HandEdit(t)
               \/ UNCHANGED vars
        PROVE  lost' = lost
    BY <2>4, Zenon DEF Draft, GraceEnds, ReconcileRead, ReconcileSettle, Load, HandEdit, vars
  <2> QED BY <2>1, <2>2, <2>3, <2>4, Zenon DEF Next, RequestStep
<1> QED BY <1>1, <1>2, TypesHold, PTL DEF Spec
===============================================================================
