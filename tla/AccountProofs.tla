----------------------------- MODULE AccountProofs -----------------------------
(***************************************************************************)
(* What belongs to an account: a workspace keeps an active owner, and the  *)
(* caps on its own model are ceilings, for any users, invitations, days,   *)
(* budgets and caps and any number of concurrent requests.  Members and    *)
(* ModelSpend share no variable: two sections, each with its inductive     *)
(* invariant, and the sums over sets that the second needs.                *)
(***************************************************************************)
EXTENDS Members, ModelSpend, TLAPS, FiniteSetTheorems, WellFoundedInduction

(***************************************************************************)
(* Members and invitations.                                                *)
(***************************************************************************)
Verbs == Roles \union {"activate", "deactivate", "remove"}

(* A request that has counted and is not out of date leaves an owner.       *)
Counted ==
    \A c \in MemberCalls :
       change[c].stage = "change" /\ Reduces(change[c].what) /\ ~change[c].met
          => OwnersIn(member) \ {change[c].user} # {}

MemberInv == MemberTypeOK /\ OwnerRemains /\ Counted

(* assertNotLastOwner does what it says.                                    *)
LEMMA AnotherOwner ==
    ASSUME NEW u \in Users, NotLastOwner(u), OwnersIn(member) # {}, member[u].in
    PROVE  OwnersIn(member) \ {u} # {}
<1>1. CASE u \notin OwnersIn(member)
  BY <1>1
<1>2. CASE u \in OwnersIn(member)
  <2>1. Cardinality(OwnersIn(member)) > 1
    BY <1>2 DEF NotLastOwner, OwnersIn
  <2>2. IsFiniteSet(OwnersIn(member))
    BY FS_Subset, MembersAssumption DEF OwnersIn
  <2>3. Cardinality(OwnersIn(member) \ {u}) = Cardinality(OwnersIn(member)) - 1
    BY <1>2, <2>2, FS_RemoveElement
  <2>4. Cardinality(OwnersIn(member)) \in Nat
    BY <2>2, FS_CardinalityType
  <2>5. Cardinality(OwnersIn(member) \ {u}) # 0
    BY <2>1, <2>3, <2>4
  <2> QED BY <2>5, FS_EmptySet
<1> QED BY <1>1, <1>2

(* A row that is there has a role and may be active; the other one is Out.  *)
Joined == [role : Roles, active : BOOLEAN, in : {TRUE}]

LEMMA RowKinds ==
    /\ Memberships = Joined \union {Out}
    /\ \A row \in Joined : row.in = TRUE
    /\ Out.in = FALSE
<1>1. Out.in = FALSE
  BY Zenon DEF Out
<1>2. \A row \in Joined : row.in = TRUE
  BY DEF Joined
<1>3. Memberships = Joined \union {Out}
  BY Zenon DEF Memberships, Joined, Out
<1> QED BY <1>1, <1>2, <1>3

(* A change touches one row, which keeps its kind; only one that reduces    *)
(* takes an owner, and only the user it is about.                           *)
LEMMA AfterKeepsOthers ==
    ASSUME NEW u \in Users, NEW what \in Verbs, MemberTypeOK
    PROVE  LET table == [member EXCEPT ![u] = IF @.in THEN After(@, what) ELSE @]
           IN  /\ table \in [Users -> Memberships]
               /\ OwnersIn(member) \ {u} \subseteq OwnersIn(table)
               /\ ~Reduces(what) => OwnersIn(member) \subseteq OwnersIn(table)
<1> DEFINE row == IF member[u].in THEN After(member[u], what) ELSE member[u]
           table == [member EXCEPT ![u] = row]
<1>1. member[u] \in Memberships /\ multi \in BOOLEAN
  BY DEF MemberTypeOK
<1>2. row \in Memberships
  <2>1. CASE ~member[u].in
    BY <1>1, <2>1
  <2>2. CASE member[u].in
    <3>1. member[u] \in Joined
      BY <1>1, <2>2, RowKinds, Zenon
    <3>2. row = After(member[u], what)
      BY <2>2, Zenon
    <3>3. /\ \A role \in Roles : [member[u] EXCEPT !.role = role] \in Joined
          /\ \A flag \in BOOLEAN : [member[u] EXCEPT !.active = flag] \in Joined
      BY <3>1 DEF Joined
    <3>4. After(member[u], what) \in Joined \union {Out}
      BY <3>3, Zenon DEF After, Verbs
    <3> QED BY <3>2, <3>4, RowKinds, Zenon
  <2> QED BY <2>1, <2>2
<1>3. ~Reduces(what) /\ u \in OwnersIn(member) =>
         row.in /\ row.role = "owner" /\ row.active
  <2> SUFFICES ASSUME ~Reduces(what), u \in OwnersIn(member)
               PROVE  row.in /\ row.role = "owner" /\ row.active
    OBVIOUS
  <2>1. member[u].in /\ member[u].role = "owner" /\ member[u].active
    BY DEF OwnersIn
  <2>2. member[u] \in Joined
    BY <1>1, <2>1, RowKinds, Zenon
  <2>3. what \in {"owner", "activate"}
    BY DEF Reduces, Verbs, Roles
  <2>4. CASE what = "owner"
    <3>1. row = [member[u] EXCEPT !.role = "owner"]
      BY <2>1, <2>4 DEF After, Roles
    <3> QED BY <2>1, <2>2, <3>1 DEF Joined
  <2>5. CASE what = "activate"
    <3>1. row = [member[u] EXCEPT !.active = TRUE]
      BY <2>1, <2>5 DEF After, Roles
    <3> QED BY <2>1, <2>2, <3>1 DEF Joined
  <2> QED BY <2>3, <2>4, <2>5
<1> HIDE DEF row
<1>4. table \in [Users -> Memberships]
  BY <1>2 DEF MemberTypeOK
<1>5. \A v \in Users : table[v] = IF v = u THEN row ELSE member[v]
  BY DEF MemberTypeOK
<1>6. OwnersIn(member) \ {u} \subseteq OwnersIn(table)
  BY <1>5 DEF OwnersIn
<1>7. ~Reduces(what) => OwnersIn(member) \subseteq OwnersIn(table)
  BY <1>3, <1>5 DEF OwnersIn
<1> QED BY <1>4, <1>6, <1>7 DEF row

(* The requests after one of them has ended, an owner gone or not.          *)
LEMMA OthersOvertaken ==
    ASSUME MemberTypeOK, NEW c \in MemberCalls, NEW lost \in BOOLEAN,
           change' = [(IF lost THEN Overtake(MemberCalls \ {c}) ELSE change) EXCEPT ![c] = NoChange]
    PROVE  /\ change' \in [MemberCalls -> Changes]
           /\ \A d \in MemberCalls :
                 /\ change'[d].stage # "idle" => /\ d # c
                                                 /\ change[d].stage = change'[d].stage
                 /\ change'[d].stage = "redeem" => change'[d] = change[d]
                 /\ change'[d].stage = "change" =>
                       /\ change'[d].user = change[d].user
                       /\ change'[d].what = change[d].what
                       /\ ~change'[d].met => ~lost /\ ~change[d].met
<1>1. NoChange \in Changes /\ NoChange.stage = "idle"
  BY DEF NoChange, Changes
<1>2. change \in [MemberCalls -> Changes]
  BY DEF MemberTypeOK
<1> DEFINE met(d) == [change[d] EXCEPT !.met = TRUE]
<1>3. \A d \in MemberCalls : change[d].stage = "change" =>
         /\ met(d) \in Changes /\ met(d).stage = "change" /\ met(d).met
         /\ met(d).user = change[d].user /\ met(d).what = change[d].what
  <2> SUFFICES ASSUME NEW d \in MemberCalls, change[d].stage = "change"
               PROVE  /\ met(d) \in Changes /\ met(d).stage = "change" /\ met(d).met
                      /\ met(d).user = change[d].user /\ met(d).what = change[d].what
    OBVIOUS
  <2>1. change[d] \in [stage : {"change"}, user : Users, met : BOOLEAN,
                       what : Roles \union {"activate", "deactivate", "remove"}]
    BY <1>2 DEF Changes
  <2>2. met(d) \in [stage : {"change"}, user : Users, met : BOOLEAN,
                    what : Roles \union {"activate", "deactivate", "remove"}]
    BY <2>1
  <2> QED BY <2>1, <2>2 DEF Changes
<1>4. \A d \in MemberCalls :
         change'[d] = IF d = c THEN NoChange
                      ELSE IF lost /\ change[d].stage = "change" THEN met(d) ELSE change[d]
  BY <1>2 DEF Overtake
<1>5. DOMAIN change' = MemberCalls /\ change' = [d \in MemberCalls |-> change'[d]]
  BY <1>2 DEF Overtake
<1> HIDE DEF met
<1>6. \A d \in MemberCalls : change'[d] \in Changes
  <2> SUFFICES ASSUME NEW d \in MemberCalls PROVE change'[d] \in Changes
    OBVIOUS
  <2>1. change[d] \in Changes
    BY <1>2
  <2> QED BY <1>1, <1>3, <1>4, <2>1, Zenon
<1>7. change' \in [MemberCalls -> Changes]
  BY <1>5, <1>6
<1> QED BY <1>1, <1>3, <1>4, <1>7

-------------------------------------------------------------------------------
(* One lemma per kind of step: what it does to the types, and to the two    *)
(* conjuncts about owners.                                                  *)
LEMMA ChangeReadKeeps ==
    ASSUME MemberInv, NEW c \in MemberCalls, NEW u \in Users, NEW what \in Verbs, ChangeRead(c, u, what)
    PROVE  MemberInv'
<1> DEFINE request == [stage |-> "change", user |-> u, what |-> what, met |-> FALSE]
<1>1. request \in Changes /\ request.stage = "change"
  BY DEF Changes, Verbs
<1>2. /\ change' = [change EXCEPT ![c] = request]
      /\ UNCHANGED <<multi, member, invite, loosened>>
      /\ filed < MaxMemberCalls /\ filed' = filed + 1
  BY DEF ChangeRead, AdminFiles
<1>3. request.user = u /\ request.what = what
  OBVIOUS
<1>4. Reduces(what) => OwnersIn(member) \ {u} # {}
  BY AnotherOwner DEF ChangeRead, AdminFiles
<1> HIDE DEF request
<1>5. \A d \in MemberCalls : change'[d] = IF d = c THEN request ELSE change[d]
  BY <1>2 DEF MemberInv, MemberTypeOK
<1>6. OwnersIn(member)' = OwnersIn(member)
  BY <1>2 DEF OwnersIn
<1>7. MemberTypeOK'
  <2>1. change' \in [MemberCalls -> Changes]
    BY <1>1, <1>2 DEF MemberInv, MemberTypeOK
  <2>2. \A d \in MemberCalls : change'[d].stage = "redeem" => change'[d] = change[d]
    BY <1>1, <1>5
  <2>3. \A d \in MemberCalls : change'[d].stage = "redeem" => invite'[change'[d].invite] # NoInvite
    BY <1>2, <2>2 DEF MemberInv, MemberTypeOK
  <2>4. filed' \in 0..MaxMemberCalls
    BY <1>2, MembersAssumption DEF MemberInv, MemberTypeOK
  <2> QED BY <1>2, <2>1, <2>3, <2>4 DEF MemberInv, MemberTypeOK
<1>8. OwnerRemains'
  BY <1>2, <1>6 DEF MemberInv, OwnerRemains
<1>9. Counted'
  <2> SUFFICES ASSUME NEW d \in MemberCalls, change'[d].stage = "change",
                      Reduces(change'[d].what), ~change'[d].met
               PROVE  OwnersIn(member)' \ {change'[d].user} # {}
    BY DEF Counted, Reduces
  <2>1. CASE d = c
    BY <1>3, <1>4, <1>5, <1>6, <2>1
  <2>2. CASE d # c
    BY <1>5, <1>6, <2>2 DEF MemberInv, Counted
  <2> QED BY <2>1, <2>2
<1> QED BY <1>7, <1>8, <1>9 DEF MemberInv

(* A table that lost no owner, or whose loss everybody has been told of.    *)
LEMMA LossKeeps ==
    ASSUME MemberInv, NEW c \in MemberCalls, NEW lost \in BOOLEAN,
           lost <=> OwnersIn(member) \ OwnersIn(member') # {},
           change' = [(IF lost THEN Overtake(MemberCalls \ {c}) ELSE change) EXCEPT ![c] = NoChange]
    PROVE  Counted'
<1> SUFFICES ASSUME NEW d \in MemberCalls, change'[d].stage = "change",
                    Reduces(change'[d].what), ~change'[d].met
             PROVE  OwnersIn(member') \ {change'[d].user} # {}
  BY DEF Counted, Reduces, OwnersIn
<1>1. /\ change[d].stage = "change" /\ ~change[d].met /\ ~lost
      /\ change'[d].user = change[d].user /\ change'[d].what = change[d].what
  BY OthersOvertaken DEF MemberInv
<1>2. OwnersIn(member) \ {change[d].user} # {}
  BY <1>1 DEF MemberInv, Counted
<1>3. OwnersIn(member) \subseteq OwnersIn(member')
  BY <1>1
<1> QED BY <1>1, <1>2, <1>3

LEMMA ChangeWriteKeeps ==
    ASSUME MemberInv, NEW c \in MemberCalls, ChangeWrite(c)
    PROVE  MemberInv'
<1> DEFINE u == change[c].user
           what == change[c].what
           table == [member EXCEPT ![u] = IF @.in THEN After(@, what) ELSE @]
           lost == OwnersIn(member) \ OwnersIn(table) # {}
<1>1. u \in Users /\ what \in Verbs
  <2>1. change[c] \in Changes /\ change[c].stage = "change"
    BY DEF MemberInv, MemberTypeOK, ChangeWrite
  <2> QED BY <2>1 DEF Changes, Verbs
<1>2. /\ member' = table
      /\ loosened' = (loosened \/ (lost /\ change[c].met))
      /\ change' = [(IF lost THEN Overtake(MemberCalls \ {c}) ELSE change) EXCEPT ![c] = NoChange]
      /\ UNCHANGED <<multi, invite, filed>>
      /\ change[c].stage = "change"
  BY DEF ChangeWrite
<1>3. /\ table \in [Users -> Memberships]
      /\ OwnersIn(member) \ {u} \subseteq OwnersIn(table)
      /\ ~Reduces(what) => OwnersIn(member) \subseteq OwnersIn(table)
  BY <1>1, AfterKeepsOthers DEF MemberInv
<1> HIDE DEF table
<1>4. lost \in BOOLEAN
  OBVIOUS
<1>5. lost <=> OwnersIn(member) \ OwnersIn(member') # {}
  BY <1>2
<1>6. /\ change' \in [MemberCalls -> Changes]
      /\ \A d \in MemberCalls : change'[d].stage = "redeem" => change'[d] = change[d]
  BY <1>2, <1>4, OthersOvertaken DEF MemberInv
<1>7. Counted'
  BY <1>2, <1>4, <1>5, LossKeeps
<1>8. change[c].met \in BOOLEAN
  <2>1. change[c] \in Changes
    BY DEF MemberInv, MemberTypeOK
  <2> QED BY <1>2, <2>1 DEF Changes
<1>9. MemberTypeOK'
  <2>1. \A d \in MemberCalls : change'[d].stage = "redeem" => invite'[change'[d].invite] # NoInvite
    BY <1>2, <1>6 DEF MemberInv, MemberTypeOK
  <2>2. loosened' \in BOOLEAN
    BY <1>2, <1>8 DEF MemberInv, MemberTypeOK
  <2>3. member' \in [Users -> Memberships]
    BY <1>2, <1>3
  <2> QED BY <1>2, <1>6, <2>1, <2>2, <2>3 DEF MemberInv, MemberTypeOK
<1>10. OwnerRemains'
  <2> SUFFICES ASSUME ~loosened' PROVE OwnersIn(member') # {}
    BY DEF OwnerRemains, OwnersIn
  <2>1. ~loosened /\ ~(lost /\ change[c].met)
    BY <1>2
  <2>2. OwnersIn(member) # {}
    BY <2>1 DEF MemberInv, OwnerRemains
  <2>3. CASE ~lost
    BY <1>2, <2>2, <2>3
  <2>4. CASE lost
    <3>1. ~change[c].met /\ Reduces(what)
      BY <1>3, <2>1, <2>4
    <3>2. OwnersIn(member) \ {u} # {}
      BY <1>2, <3>1 DEF MemberInv, Counted
    <3> QED BY <1>2, <1>3, <3>2
  <2> QED BY <2>3, <2>4
<1> QED BY <1>7, <1>9, <1>10 DEF MemberInv

LEMMA RedeemWriteKeeps ==
    ASSUME MemberInv, NEW c \in MemberCalls, RedeemWrite(c)
    PROVE  MemberInv'
<1> DEFINE k == change[c].invite
           u == invite[k].for
           row == [role |-> invite[k].role, active |-> TRUE, in |-> TRUE]
           table == [member EXCEPT ![u] = row]
           lost == OwnersIn(member) \ OwnersIn(table) # {}
<1>1. k \in Invites /\ invite[k] # NoInvite
  <2>1. change[c] \in Changes /\ change[c].stage = "redeem"
    BY DEF MemberInv, MemberTypeOK, RedeemWrite
  <2> QED BY <2>1 DEF Changes, MemberInv, MemberTypeOK
<1>2. invite[k] \in [status : InviteStates, for : Users, role : Roles]
  BY <1>1 DEF MemberInv, MemberTypeOK
<1>3. row \in Memberships
  BY <1>2 DEF Memberships
<1>4. /\ member' = table
      /\ invite' = [invite EXCEPT ![k].status = "accepted"]
      /\ loosened' = (loosened \/ lost)
      /\ change' = [(IF lost THEN Overtake(MemberCalls \ {c}) ELSE change) EXCEPT ![c] = NoChange]
      /\ UNCHANGED <<multi, filed>>
  BY DEF RedeemWrite
<1> HIDE DEF row
<1>5. table \in [Users -> Memberships]
  BY <1>3 DEF MemberInv, MemberTypeOK
<1> HIDE DEF table
<1>6. lost \in BOOLEAN
  OBVIOUS
<1>7. lost <=> OwnersIn(member) \ OwnersIn(member') # {}
  BY <1>4
<1>8. /\ change' \in [MemberCalls -> Changes]
      /\ \A d \in MemberCalls : change'[d].stage = "redeem" => change'[d] = change[d]
  BY <1>4, <1>6, OthersOvertaken DEF MemberInv
<1>9. Counted'
  BY <1>4, <1>6, <1>7, LossKeeps
<1>10. MemberTypeOK'
  <2> DEFINE settled == [invite[k] EXCEPT !.status = "accepted"]
  <2>1. settled \in [status : InviteStates, for : Users, role : Roles]
    BY <1>2 DEF InviteStates
  <2>2. invite' = [invite EXCEPT ![k] = settled]
    BY <1>4
  <2> HIDE DEF settled, k
  <2>3. invite' \in [Invites -> [status : InviteStates, for : Users, role : Roles] \union {NoInvite}]
    BY <2>1, <2>2 DEF MemberInv, MemberTypeOK
  <2>4. settled # NoInvite
    BY <2>1, MembersAssumption
  <2>5. \A j \in Invites : invite[j] # NoInvite => invite'[j] # NoInvite
    BY <2>2, <2>4 DEF MemberInv, MemberTypeOK
  <2>6. \A d \in MemberCalls : change[d].stage = "redeem" =>
           change[d].invite \in Invites /\ invite[change[d].invite] # NoInvite
    BY DEF MemberInv, MemberTypeOK, Changes
  <2>7. \A d \in MemberCalls : change'[d].stage = "redeem" => invite'[change'[d].invite] # NoInvite
    BY <1>8, <2>5, <2>6
  <2>8. loosened' \in BOOLEAN
    BY <1>4 DEF MemberInv, MemberTypeOK
  <2> QED BY <1>4, <1>5, <1>8, <2>3, <2>7, <2>8 DEF MemberInv, MemberTypeOK
<1>11. OwnerRemains'
  BY <1>4 DEF MemberInv, OwnerRemains, OwnersIn
<1> QED BY <1>9, <1>10, <1>11 DEF MemberInv

(* Steps that change no member and no counted request.                      *)
LEMMA QuietKeeps ==
    ASSUME MemberInv, MemberTypeOK', UNCHANGED <<member, loosened>>,
           \A c \in MemberCalls : change'[c].stage = "change" => change'[c] = change[c]
    PROVE  MemberInv'
<1>1. OwnersIn(member)' = OwnersIn(member)
  BY DEF OwnersIn
<1>2. OwnerRemains'
  BY <1>1 DEF MemberInv, OwnerRemains
<1>3. Counted'
  <2> SUFFICES ASSUME NEW c \in MemberCalls, change'[c].stage = "change",
                      Reduces(change'[c].what), ~change'[c].met
               PROVE  OwnersIn(member)' \ {change'[c].user} # {}
    BY DEF Counted, Reduces
  <2> QED BY <1>1 DEF MemberInv, Counted
<1> QED BY <1>2, <1>3 DEF MemberInv

(* What the invitations are, whatever their status.                         *)
Invitations == [status : InviteStates, for : Users, role : Roles]

LEMMA InvitationKeeps ==
    ASSUME MemberInv, invite' \in [Invites -> Invitations \union {NoInvite}],
           \A k \in Invites : invite[k] # NoInvite => invite'[k] # NoInvite,
           UNCHANGED <<multi, member, change, loosened>>, filed' \in 0..MaxMemberCalls
    PROVE  MemberInv'
<1>1. \A c \in MemberCalls : change[c].stage = "redeem" =>
         change[c].invite \in Invites /\ invite[change[c].invite] # NoInvite
  BY DEF MemberInv, MemberTypeOK, Changes
<1>2. MemberTypeOK'
  BY <1>1 DEF MemberInv, MemberTypeOK, Invitations
<1> QED BY <1>2, QuietKeeps

LEMMA CreateInvitationKeeps ==
    ASSUME MemberInv, NEW k \in Invites, NEW u \in Users, NEW role \in Roles, CreateInvitation(k, u, role)
    PROVE  MemberInv'
<1> DEFINE new == [status |-> "pending", for |-> u, role |-> role]
           revoked(j) == [invite[j] EXCEPT !.status = "revoked"]
<1>1. new \in Invitations
  BY DEF Invitations, InviteStates
<1>2. \A j \in Invites : invite[j] # NoInvite => invite[j] \in Invitations /\ revoked(j) \in Invitations
  BY DEF MemberInv, MemberTypeOK, Invitations, InviteStates
<1>3. NoInvite \notin Invitations
  BY MembersAssumption DEF Invitations
<1>4. /\ UNCHANGED <<multi, member, change, loosened>>
      /\ filed < MaxMemberCalls /\ filed' = filed + 1
  BY DEF CreateInvitation, AdminFiles
<1>5. filed' \in 0..MaxMemberCalls
  BY <1>4, MembersAssumption DEF MemberInv, MemberTypeOK
<1> HIDE DEF new, revoked
<1>6. \A j \in Invites :
         \/ invite'[j] = new
         \/ invite[j] # NoInvite /\ invite'[j] = revoked(j)
         \/ invite'[j] = invite[j]
  BY DEF CreateInvitation, new, revoked
<1>7. \A j \in Invites : invite[j] \in Invitations \union {NoInvite}
  BY DEF MemberInv, MemberTypeOK, Invitations
<1>8. \A j \in Invites : invite'[j] \in Invitations \union {NoInvite}
  BY <1>1, <1>2, <1>6, <1>7
<1>9. \A j \in Invites : invite[j] # NoInvite => invite'[j] # NoInvite
  BY <1>1, <1>2, <1>3, <1>6
<1>10. invite' = [j \in Invites |-> invite'[j]]
  BY DEF CreateInvitation
<1>11. invite' \in [Invites -> Invitations \union {NoInvite}]
  BY <1>8, <1>10
<1> QED BY <1>4, <1>5, <1>9, <1>11, InvitationKeeps

LEMMA SettleInvitationKeeps ==
    ASSUME MemberInv, NEW k \in Invites, NEW status \in {"revoked", "expired"}, SettleInvitation(k, status)
    PROVE  MemberInv'
<1> DEFINE settled == [invite[k] EXCEPT !.status = status]
           table == [invite EXCEPT ![k] = settled]
<1>1. invite' = table /\ UNCHANGED <<multi, member, change, filed, loosened>> /\ invite[k] # NoInvite
  BY DEF SettleInvitation
<1>2. settled \in Invitations
  BY <1>1 DEF MemberInv, MemberTypeOK, Invitations, InviteStates
<1>3. settled # NoInvite
  BY <1>2, MembersAssumption DEF Invitations
<1> HIDE DEF settled
<1>4. /\ table \in [Invites -> Invitations \union {NoInvite}]
      /\ \A j \in Invites : invite[j] # NoInvite => table[j] # NoInvite
  BY <1>2, <1>3 DEF MemberInv, MemberTypeOK, Invitations
<1>5. filed' \in 0..MaxMemberCalls
  BY <1>1 DEF MemberInv, MemberTypeOK
<1> QED BY <1>1, <1>4, <1>5, InvitationKeeps

LEMMA RedeemReadKeeps ==
    ASSUME MemberInv, NEW c \in MemberCalls, NEW k \in Invites, RedeemRead(c, k)
    PROVE  MemberInv'
<1> DEFINE request == [stage |-> "redeem", invite |-> k]
<1>1. request \in Changes /\ request.stage = "redeem" /\ request.invite = k
  BY DEF Changes
<1>2. /\ change' = [change EXCEPT ![c] = request]
      /\ UNCHANGED <<multi, member, invite, loosened>>
      /\ filed < MaxMemberCalls /\ filed' = filed + 1
      /\ invite[k] # NoInvite
  BY DEF RedeemRead
<1> HIDE DEF request
<1>3. change' \in [MemberCalls -> Changes]
  BY <1>1, <1>2 DEF MemberInv, MemberTypeOK
<1>4. \A d \in MemberCalls : change'[d] = IF d = c THEN request ELSE change[d]
  BY <1>2 DEF MemberInv, MemberTypeOK
<1>5. filed' \in 0..MaxMemberCalls
  BY <1>2, MembersAssumption DEF MemberInv, MemberTypeOK
<1>6. MemberTypeOK'
  BY <1>1, <1>2, <1>3, <1>4, <1>5 DEF MemberInv, MemberTypeOK
<1>7. \A d \in MemberCalls : change'[d].stage = "change" => change'[d] = change[d]
  BY <1>1, <1>4
<1> QED BY <1>2, <1>6, <1>7, QuietKeeps

LEMMA AutoJoinKeeps ==
    ASSUME MemberInv, NEW u \in Users, AutoJoin(u)
    PROVE  MemberInv'
<1> DEFINE row == [role |-> "member", active |-> TRUE, in |-> TRUE]
<1>1. /\ member' = [member EXCEPT ![u] = row]
      /\ UNCHANGED <<multi, invite, change, filed, loosened>>
      /\ ~member[u].in
  BY DEF AutoJoin
<1>2. row \in Memberships
  BY DEF Memberships, Roles
<1> HIDE DEF row
<1>3. MemberTypeOK'
  BY <1>1, <1>2 DEF MemberInv, MemberTypeOK
<1>4. OwnersIn(member) \subseteq OwnersIn(member')
  BY <1>1 DEF OwnersIn, MemberInv, MemberTypeOK
<1>5. OwnerRemains'
  BY <1>1, <1>4 DEF MemberInv, OwnerRemains, OwnersIn
<1>6. Counted'
  <2> SUFFICES ASSUME NEW c \in MemberCalls, change[c].stage = "change",
                      Reduces(change[c].what), ~change[c].met
               PROVE  OwnersIn(member') \ {change[c].user} # {}
    BY <1>1 DEF Counted, Reduces, OwnersIn
  <2> QED BY <1>4 DEF MemberInv, Counted
<1> QED BY <1>3, <1>5, <1>6 DEF MemberInv

-------------------------------------------------------------------------------
LEMMA MemberStarts == MemberInit => MemberInv
<1> SUFFICES ASSUME MemberInit PROVE MemberInv
  OBVIOUS
<1>1. NoChange \in Changes /\ NoChange.stage = "idle"
  BY DEF NoChange, Changes
<1>2. \A c \in MemberCalls : change[c] = NoChange
  BY DEF MemberInit
<1>3. change \in [MemberCalls -> Changes]
  BY <1>1 DEF MemberInit
<1>4. MemberTypeOK
  <2>1. \A c \in MemberCalls : change[c].stage # "redeem"
    BY <1>1, <1>2
  <2>2. filed \in 0..MaxMemberCalls
    BY MembersAssumption DEF MemberInit
  <2>5. loosened \in BOOLEAN
    BY DEF MemberInit
  <2>3. invite \in [Invites -> Invitations \union {NoInvite}]
    BY DEF MemberInit
  <2>4. multi \in BOOLEAN /\ member \in [Users -> Memberships]
    BY DEF MemberInit
  <2> QED BY <1>3, <2>1, <2>2, <2>3, <2>4, <2>5 DEF MemberTypeOK, Invitations
<1>5. OwnerRemains /\ Counted
  BY <1>1, <1>2 DEF MemberInit, OwnerRemains, Counted
<1> QED BY <1>4, <1>5 DEF MemberInv

LEMMA MemberSteps == MemberInv /\ [MemberNext]_memberVars => MemberInv'
<1> SUFFICES ASSUME MemberInv, [MemberNext]_memberVars PROVE MemberInv'
  OBVIOUS
<1>1. ASSUME NEW c \in MemberCalls, NEW u \in Users, NEW what \in Verbs, ChangeRead(c, u, what)
      PROVE  MemberInv'
  BY <1>1, ChangeReadKeeps
<1>2. ASSUME NEW c \in MemberCalls, ChangeWrite(c) PROVE MemberInv'
  BY <1>2, ChangeWriteKeeps
<1>3. ASSUME NEW c \in MemberCalls, RedeemWrite(c) PROVE MemberInv'
  BY <1>3, RedeemWriteKeeps
<1>4. ASSUME NEW k \in Invites, NEW u \in Users, NEW role \in Roles, CreateInvitation(k, u, role)
      PROVE  MemberInv'
  BY <1>4, CreateInvitationKeeps
<1>5. ASSUME NEW k \in Invites, NEW status \in {"revoked", "expired"}, SettleInvitation(k, status)
      PROVE  MemberInv'
  BY <1>5, SettleInvitationKeeps
<1>6. ASSUME NEW c \in MemberCalls, NEW k \in Invites, RedeemRead(c, k) PROVE MemberInv'
  BY <1>6, RedeemReadKeeps
<1>7. ASSUME NEW u \in Users, AutoJoin(u) PROVE MemberInv'
  BY <1>7, AutoJoinKeeps
<1>8. CASE UNCHANGED memberVars
  <2>1. UNCHANGED <<multi, member, invite, change, filed, loosened>>
    BY <1>8 DEF memberVars
  <2>2. MemberTypeOK'
    BY <2>1 DEF MemberInv, MemberTypeOK
  <2> QED BY <2>1, <2>2, QuietKeeps
<1> QED BY <1>1, <1>2, <1>3, <1>4, <1>5, <1>6, <1>7, <1>8 DEF MemberNext, Verbs

(* The rows, invitations and requests keep their types.                     *)
THEOREM MembersTyped == MemberSpec => []MemberTypeOK
<1>1. MemberInv => MemberTypeOK
  BY DEF MemberInv
<1> QED BY <1>1, MemberStarts, MemberSteps, PTL DEF MemberSpec

(* A workspace keeps an active owner, but for two changes that counted at   *)
(* once and for an invitation that takes an owner's role.                   *)
THEOREM OwnerStays == MemberSpec => []OwnerRemains
<1>1. MemberInv => OwnerRemains
  BY DEF MemberInv
<1> QED BY <1>1, MemberStarts, MemberSteps, PTL DEF MemberSpec

(***************************************************************************)
(* Sums over finite sets.  Total is the fold of the library, whose         *)
(* recursive function has no theorems: what it computes is proved here, by *)
(* the well-foundedness of the subsets of a finite set.                    *)
(***************************************************************************)

(* Induction over the subsets of a finite set: a set of them that holds every *)
(* subset whose proper subsets it holds is all of them.                       *)
LEMMA SubsetInduction ==
    ASSUME NEW F, IsFiniteSet(F), NEW Good,
           \A S \in SUBSET F : (\A T \in SUBSET S : T # S => T \in Good) => S \in Good
    PROVE  SUBSET F \subseteq Good
<1> DEFINE Bad == (SUBSET F) \ Good
<1> SUFFICES ASSUME Bad # {} PROVE FALSE
  OBVIOUS
<1>1. IsWellFoundedOn(StrictSubsetOrdering(F), SUBSET F)
  <2>1. FiniteSubsetsOf(F) = SUBSET F
    BY FS_FiniteSubsetsOfFinite
  <2>2. IsWellFoundedOn(StrictSubsetOrdering(F), FiniteSubsetsOf(F))
    BY FS_StrictSubsetOrderingWellFounded
  <2> QED BY <2>1, <2>2, Zenon
<1>2. PICK S \in Bad : \A T \in Bad : << T, S >> \notin StrictSubsetOrdering(F)
  <2> HIDE DEF Bad
  <2>1. Bad \subseteq SUBSET F
    BY DEF Bad
  <2> QED BY <1>1, <2>1, WFMin
<1>3. \A T \in SUBSET S : T # S => T \in Good
  BY <1>2 DEF StrictSubsetOrdering
<1> QED BY <1>2, <1>3

(* The sum of f over S, as the fold computes it.                              *)
SumOver(f, S) == MapThenSumSet(LAMBDA x : f[x], S)

Pick(S) == CHOOSE x \in S : TRUE

Sums(f, S, g) == g = [s \in SUBSET S |-> IF s = {} THEN 0 ELSE f[Pick(s)] + g[s \ {Pick(s)}]]

LEMMA SumIsFold ==
    ASSUME NEW S, NEW f, NEW g, Sums(f, S, g)
    PROVE  \E h : Sums(f, S, h) /\ SumOver(f, S) = h[S]
<1> DEFINE h == CHOOSE x : Sums(f, S, x)
<1>1. Sums(f, S, h)
  BY Zenon
<1>2. SumOver(f, S) = h[S]
  BY Zenon DEF SumOver, MapThenSumSet, MapThenFoldSet, Sums, Pick
<1> QED BY <1>1, <1>2, Zenon

(* Two foldings agree where both are defined.                                 *)
LEMMA SumsAgree ==
    ASSUME NEW F, IsFiniteSet(F), NEW S \in SUBSET F, NEW T \in SUBSET F, NEW f, NEW g, NEW h,
           Sums(f, S, g), Sums(f, T, h)
    PROVE  \A s \in SUBSET (S \intersect T) : g[s] = h[s]
<1> DEFINE Good == {s \in SUBSET F : s \subseteq S \intersect T => g[s] = h[s]}
<1>1. ASSUME NEW s \in SUBSET F, \A t \in SUBSET s : t # s => t \in Good
      PROVE  s \in Good
  <2> SUFFICES ASSUME s \subseteq S \intersect T, s # {} PROVE g[s] = h[s]
    <3>1. s = {} => g[s] = 0 /\ h[s] = 0
      BY DEF Sums
    <3> QED BY <3>1
  <2>1. Pick(s) \in s
    BY Zenon DEF Pick
  <2>2. g[s \ {Pick(s)}] = h[s \ {Pick(s)}]
    <3>1. s \ {Pick(s)} \in Good
      BY <1>1, <2>1
    <3> QED BY <3>1
  <2>3. /\ g[s] = f[Pick(s)] + g[s \ {Pick(s)}]
        /\ h[s] = f[Pick(s)] + h[s \ {Pick(s)}]
    BY DEF Sums
  <2> QED BY <2>2, <2>3
<1>2. SUBSET F \subseteq Good
  <2> HIDE DEF Good
  <2> QED BY <1>1, SubsetInduction
<1> QED BY <1>2

(* Every finite set can be folded.                                            *)
LEMMA SumsExist ==
    ASSUME NEW F, IsFiniteSet(F), NEW f
    PROVE  \A S \in SUBSET F : \E g : Sums(f, S, g)
<1> DEFINE Good == {S \in SUBSET F : \E g : Sums(f, S, g)}
<1>1. ASSUME NEW S \in SUBSET F, \A T \in SUBSET S : T # S => T \in Good
      PROVE  \E g : Sums(f, S, g)
  <2> DEFINE sub(x) == CHOOSE g : Sums(f, S \ {x}, g)
             all == [s \in SUBSET S |->
                       IF s = {} THEN 0 ELSE f[Pick(s)] + sub(Pick(s))[s \ {Pick(s)}]]
  <2>1. \A x \in S : Sums(f, S \ {x}, sub(x))
    <3> TAKE x \in S
    <3>1. S \ {x} \in Good
      BY <1>1
    <3>2. \E g : Sums(f, S \ {x}, g)
      BY <3>1
    <3> QED BY <3>2, Zenon
  <2>2. \A s \in SUBSET S : s # {} => Pick(s) \in s
    BY Zenon DEF Pick
  <2>3. \A s \in SUBSET S : s # {} => all[s \ {Pick(s)}] = sub(Pick(s))[s \ {Pick(s)}]
    <3> SUFFICES ASSUME NEW s \in SUBSET S, s # {}
                 PROVE  all[s \ {Pick(s)}] = sub(Pick(s))[s \ {Pick(s)}]
      OBVIOUS
    <3> DEFINE x == Pick(s)
               t == s \ {x}
               y == Pick(t)
    <3>1. x \in s /\ t \in SUBSET (S \ {x})
      BY <2>2
    <3>2. Sums(f, S \ {x}, sub(x))
      BY <2>1, <3>1
    <3>3. CASE t = {}
      <4>1. sub(x)[t] = 0
        <5> HIDE DEF sub, x, t
        <5> QED BY <3>1, <3>2, <3>3 DEF Sums
      <4>2. all[t] = 0
        <5> HIDE DEF sub, x, t
        <5> QED BY <3>1, <3>3
      <4> QED BY <4>1, <4>2
    <3>4. CASE t # {}
      <4>1. y \in t /\ Sums(f, S \ {y}, sub(y))
        BY <2>1, <2>2, <3>1, <3>4
      <4>2. sub(x)[t] = f[y] + sub(x)[t \ {y}]
        <5> HIDE DEF sub, x, t
        <5> QED BY <3>1, <3>2, <3>4 DEF Sums
      <4>3. all[t] = f[y] + sub(y)[t \ {y}]
        <5> HIDE DEF sub, x, t
        <5> QED BY <3>1, <3>4
      <4>4. sub(x)[t \ {y}] = sub(y)[t \ {y}]
        <5> HIDE DEF sub, all, x, t, y
        <5>1. t \ {y} \in SUBSET ((S \ {x}) \intersect (S \ {y}))
          BY <3>1
        <5>2. S \ {x} \in SUBSET F /\ S \ {y} \in SUBSET F
          OBVIOUS
        <5> QED BY <3>2, <4>1, <5>1, <5>2, SumsAgree
      <4> QED BY <4>2, <4>3, <4>4
    <3> QED BY <3>3, <3>4
  <2>4. all = [s \in SUBSET S |-> IF s = {} THEN 0 ELSE f[Pick(s)] + all[s \ {Pick(s)}]]
    <3>1. \A s \in SUBSET S :
             all[s] = IF s = {} THEN 0 ELSE f[Pick(s)] + sub(Pick(s))[s \ {Pick(s)}]
      <4> HIDE DEF sub
      <4> QED OBVIOUS
    <3>2. \A s \in SUBSET S : all[s] = IF s = {} THEN 0 ELSE f[Pick(s)] + all[s \ {Pick(s)}]
      <4> HIDE DEF all, sub
      <4> QED BY <2>3, <3>1
    <3>3. all = [s \in SUBSET S |-> all[s]]
      <4> HIDE DEF sub
      <4> QED OBVIOUS
    <3> HIDE DEF all, sub
    <3> QED BY <3>2, <3>3
  <2> HIDE DEF all
  <2> QED BY <2>4 DEF Sums
<1>2. SUBSET F \subseteq Good
  <2>1. \A S \in SUBSET F : (\A T \in SUBSET S : T # S => T \in Good) => S \in Good
    BY <1>1
  <2> HIDE DEF Good
  <2> QED BY <2>1, SubsetInduction
<1> QED BY <1>2

(* What the fold computes: nothing for the empty set, and otherwise the value *)
(* of one of the elements and the sum of the others.                          *)
LEMMA SumStep ==
    ASSUME NEW S, IsFiniteSet(S), NEW f
    PROVE  /\ S = {} => SumOver(f, S) = 0
           /\ S # {} => /\ Pick(S) \in S
                        /\ SumOver(f, S) = f[Pick(S)] + SumOver(f, S \ {Pick(S)})
<1>1. PICK g : Sums(f, S, g) /\ SumOver(f, S) = g[S]
  <2>1. S \in SUBSET S
    OBVIOUS
  <2>2. \E g : Sums(f, S, g)
    BY <2>1, SumsExist
  <2> QED BY <2>2, SumIsFold
<1>2. CASE S = {}
  BY <1>1, <1>2 DEF Sums
<1>3. CASE S # {}
  <2> DEFINE T == S \ {Pick(S)}
  <2>1. Pick(S) \in S
    BY <1>3, Zenon DEF Pick
  <2>2. PICK h : Sums(f, T, h) /\ SumOver(f, T) = h[T]
    <3>1. T \in SUBSET S
      OBVIOUS
    <3>2. \E h : Sums(f, T, h)
      BY <3>1, SumsExist
    <3> QED BY <3>2, SumIsFold
  <2>3. g[T] = h[T]
    <3>1. T \in SUBSET (S \intersect T) /\ S \in SUBSET S /\ T \in SUBSET S
      OBVIOUS
    <3> HIDE DEF T
    <3> QED BY <1>1, <2>2, <3>1, SumsAgree
  <2>4. g[S] = f[Pick(S)] + g[T]
    BY <1>1, <1>3 DEF Sums
  <2> QED BY <1>1, <1>3, <2>1, <2>2, <2>3, <2>4
<1> QED BY <1>2, <1>3

(* A sum of naturals is a natural.                                            *)
LEMMA SumIsNat ==
    ASSUME NEW F, IsFiniteSet(F), NEW f \in [F -> Nat]
    PROVE  \A S \in SUBSET F : SumOver(f, S) \in Nat
<1> DEFINE Good == {S \in SUBSET F : SumOver(f, S) \in Nat}
<1>1. ASSUME NEW S \in SUBSET F, \A T \in SUBSET S : T # S => T \in Good
      PROVE  SumOver(f, S) \in Nat
  <2>1. IsFiniteSet(S)
    BY FS_Subset
  <2>2. CASE S # {}
    <3>1. Pick(S) \in S /\ SumOver(f, S) = f[Pick(S)] + SumOver(f, S \ {Pick(S)})
      BY <2>1, <2>2, SumStep
    <3>2. S \ {Pick(S)} \in Good
      BY <1>1, <3>1
    <3>3. SumOver(f, S \ {Pick(S)}) \in Nat /\ f[Pick(S)] \in Nat
      BY <3>1, <3>2
    <3> QED BY <3>1, <3>3
  <2> QED BY <2>1, <2>2, SumStep
<1>2. SUBSET F \subseteq Good
  <2>1. \A S \in SUBSET F : (\A T \in SUBSET S : T # S => T \in Good) => S \in Good
    BY <1>1
  <2> HIDE DEF Good
  <2> QED BY <2>1, SubsetInduction
<1> QED BY <1>2

(* Whatever element is taken out first, the sum is the same.                  *)
LEMMA SumRemove ==
    ASSUME NEW F, IsFiniteSet(F), NEW f \in [F -> Nat]
    PROVE  \A S \in SUBSET F : \A x \in S : SumOver(f, S) = f[x] + SumOver(f, S \ {x})
<1> DEFINE Good == {S \in SUBSET F : \A x \in S : SumOver(f, S) = f[x] + SumOver(f, S \ {x})}
<1>1. ASSUME NEW S \in SUBSET F, \A T \in SUBSET S : T # S => T \in Good, NEW x \in S
      PROVE  SumOver(f, S) = f[x] + SumOver(f, S \ {x})
  <2> DEFINE y == Pick(S)
             rest == SumOver(f, (S \ {x}) \ {y})
  <2>1. IsFiniteSet(S)
    BY FS_Subset
  <2>2. y \in S /\ SumOver(f, S) = f[y] + SumOver(f, S \ {y})
    BY <2>1, SumStep
  <2>3. CASE x # y
    <3> HIDE DEF y
    <3>1. S \ {y} \in Good /\ S \ {x} \in Good
      BY <1>1, <2>2
    <3>2. SumOver(f, S \ {y}) = f[x] + SumOver(f, (S \ {y}) \ {x})
      BY <2>3, <3>1
    <3>3. SumOver(f, S \ {x}) = f[y] + rest
      BY <2>2, <2>3, <3>1
    <3>4. (S \ {y}) \ {x} = (S \ {x}) \ {y}
      OBVIOUS
    <3>5. rest \in Nat /\ f[x] \in Nat /\ f[y] \in Nat
      <4>1. (S \ {x}) \ {y} \in SUBSET F
        OBVIOUS
      <4> QED BY <2>2, <4>1, SumIsNat
    <3>6. SumOver(f, S \ {y}) = f[x] + rest
      BY <3>2, <3>4
    <3> HIDE DEF rest
    <3> QED BY <2>2, <3>3, <3>5, <3>6
  <2> QED BY <2>2, <2>3
<1>2. SUBSET F \subseteq Good
  <2>1. \A S \in SUBSET F : (\A T \in SUBSET S : T # S => T \in Good) => S \in Good
    BY <1>1
  <2> HIDE DEF Good
  <2> QED BY <2>1, SubsetInduction
<1> QED BY <1>2

(* The sum over more lines is not less.                                       *)
LEMMA SumMonotone ==
    ASSUME NEW F, IsFiniteSet(F), NEW f \in [F -> Nat]
    PROVE  \A S \in SUBSET F : \A T \in SUBSET S : SumOver(f, T) <= SumOver(f, S)
<1> DEFINE Good == {S \in SUBSET F : \A T \in SUBSET S : SumOver(f, T) <= SumOver(f, S)}
<1>1. ASSUME NEW S \in SUBSET F, \A T \in SUBSET S : T # S => T \in Good, NEW T \in SUBSET S
      PROVE  SumOver(f, T) <= SumOver(f, S)
  <2>1. SumOver(f, S) \in Nat /\ SumOver(f, T) \in Nat
    BY SumIsNat
  <2>2. CASE T # S
    <3>1. PICK x \in S : x \notin T
      BY <2>2
    <3>2. SumOver(f, T) <= SumOver(f, S \ {x})
      <4>1. S \ {x} \in Good
        BY <1>1
      <4> QED BY <3>1, <4>1
    <3>3. SumOver(f, S) = f[x] + SumOver(f, S \ {x})
      BY SumRemove
    <3>4. f[x] \in Nat /\ SumOver(f, S \ {x}) \in Nat
      BY SumIsNat
    <3> QED BY <2>1, <3>2, <3>3, <3>4
  <2> QED BY <2>1, <2>2
<1>2. SUBSET F \subseteq Good
  <2>1. \A S \in SUBSET F : (\A T \in SUBSET S : T # S => T \in Good) => S \in Good
    BY <1>1
  <2> HIDE DEF Good
  <2> QED BY <2>1, SubsetInduction
<1> QED BY <1>2

(* A sum of zeros is zero.                                                    *)
LEMMA SumOfZeros ==
    ASSUME NEW F, IsFiniteSet(F), NEW f, \A x \in F : f[x] = 0
    PROVE  \A S \in SUBSET F : SumOver(f, S) = 0
<1> DEFINE Good == {S \in SUBSET F : SumOver(f, S) = 0}
<1>1. ASSUME NEW S \in SUBSET F, \A T \in SUBSET S : T # S => T \in Good
      PROVE  SumOver(f, S) = 0
  <2>1. IsFiniteSet(S)
    BY FS_Subset
  <2>2. CASE S # {}
    <3>1. Pick(S) \in S /\ SumOver(f, S) = f[Pick(S)] + SumOver(f, S \ {Pick(S)})
      BY <2>1, <2>2, SumStep
    <3>2. S \ {Pick(S)} \in Good
      BY <1>1, <3>1
    <3> QED BY <3>1, <3>2
  <2> QED BY <2>1, <2>2, SumStep
<1>2. SUBSET F \subseteq Good
  <2>1. \A S \in SUBSET F : (\A T \in SUBSET S : T # S => T \in Good) => S \in Good
    BY <1>1
  <2> HIDE DEF Good
  <2> QED BY <2>1, SubsetInduction
<1> QED BY <1>2

(* Adding to one line adds to the sums it is in, and to no other.             *)
LEMMA SumUpdate ==
    ASSUME NEW F, IsFiniteSet(F), NEW f \in [F -> Nat], NEW d \in F, NEW t \in Nat,
           NEW g, g[d] = f[d] + t, \A x \in F \ {d} : g[x] = f[x]
    PROVE  \A S \in SUBSET F : /\ d \in S => SumOver(g, S) = SumOver(f, S) + t
                               /\ d \notin S => SumOver(g, S) = SumOver(f, S)
<1> DEFINE Claim(S) == SumOver(g, S) = IF d \in S THEN SumOver(f, S) + t ELSE SumOver(f, S)
           Good == {S \in SUBSET F : Claim(S)}
<1>1. ASSUME NEW S \in SUBSET F, \A T \in SUBSET S : T # S => T \in Good
      PROVE  Claim(S)
  <2> DEFINE x == Pick(S)
             T == S \ {x}
  <2>1. IsFiniteSet(S)
    BY FS_Subset
  <2>2. CASE S = {}
    BY <2>1, <2>2, SumStep
  <2>3. CASE S # {}
    <3>1. x \in S /\ SumOver(f, S) = f[x] + SumOver(f, T) /\ SumOver(g, S) = g[x] + SumOver(g, T)
      BY <2>1, <2>3, SumStep
    <3>2. T \in Good
      <4> HIDE DEF Good
      <4> QED BY <1>1, <3>1
    <3>3. SumOver(g, T) = IF d \in T THEN SumOver(f, T) + t ELSE SumOver(f, T)
      BY <3>2
    <3>4. SumOver(f, T) \in Nat /\ f[x] \in Nat
      <4>1. T \in SUBSET F
        OBVIOUS
      <4> HIDE DEF T
      <4> QED BY <3>1, <4>1, SumIsNat
    <3>5. g[x] = IF x = d THEN f[x] + t ELSE f[x]
      <4> HIDE DEF x
      <4> QED BY <3>1
    <3>6. d \in S <=> d = x \/ d \in T
      BY <3>1
    <3>7. d = x => d \notin T
      OBVIOUS
    <3> HIDE DEF x, T
    <3> QED BY <3>1, <3>3, <3>4, <3>5, <3>6, <3>7
  <2> QED BY <2>2, <2>3
<1>2. SUBSET F \subseteq Good
  <2>1. \A S \in SUBSET F : (\A T \in SUBSET S : T # S => T \in Good) => S \in Good
    BY <1>1
  <2> HIDE DEF Good
  <2> QED BY <2>1, SubsetInduction
<1> QED BY <1>2

(***************************************************************************)
(* Spending on the workspace's own model.                                  *)
(***************************************************************************)

(* What a call that was checked still has room for.                           *)
Lines == Days \X People
InMonth(m) == {line \in Lines : MonthOf[line[1]] = m}
SinceMonth(d) == {line \in Lines : MonthOf[line[1]] >= MonthOf[d]}
SinceDay(d, u) == {line \in Days \X {u} : line[1] >= d}

Checks == {"monthly", "daily"}

Running ==
    [stage : {"monthly", "daily", "sent"}, user : People, budget : Budgets, now : Days,
     row : Limits, met : SUBSET Checks]

(* A check that is not out of date was made against the caps in force, and    *)
(* what it counted is still all there is.                                     *)
StillFits(t) ==
    /\ t.met # Checks => t.row = limits
    /\ t.stage # "monthly" /\ "monthly" \notin t.met =>
          Allows(t.row.monthly, SumOver(ledger, SinceMonth(t.now)), t.budget)
    /\ t.stage = "sent" /\ "daily" \notin t.met =>
          Allows(t.row.daily, SumOver(ledger, SinceDay(t.now, t.user)), t.budget)

SpendSound(t) == t = NoInference \/ (t \in Running /\ t.now <= today /\ StillFits(t))

SpendInv ==
    /\ SpendTypeOK
    /\ CapIsACeiling
    /\ DOMAIN inference = SpendCalls
    /\ \A c \in SpendCalls : SpendSound(inference[c])

LEMMA LinesFinite ==
    /\ IsFiniteSet(Lines)
    /\ \A m : InMonth(m) \in SUBSET Lines
    /\ \A d : SinceMonth(d) \in SUBSET Lines
    /\ \A d : \A u \in People : SinceDay(d, u) \in SUBSET Lines
<1>1. IsFiniteSet(Days)
  BY FS_Interval, ModelSpendAssumption DEF Days
<1>2. IsFiniteSet(Lines)
  BY <1>1, FS_Product, ModelSpendAssumption DEF Lines
<1> QED BY <1>2 DEF InMonth, SinceMonth, SinceDay, Lines

(* The sums of the model are sums over the ledger.                            *)
LEMMA TotalIsSum ==
    /\ \A S : Total(S) = SumOver(ledger, S)
    /\ \A S : Total(S)' = SumOver(ledger', S)
<1>1. \A S : Total(S) = SumOver(ledger, S)
  BY Zenon DEF Total, SumOver, MapThenSumSet, MapThenFoldSet
<1>2. \A S : Total(S)' = SumOver(ledger', S)
  BY Zenon DEF Total, SumOver, MapThenSumSet, MapThenFoldSet
<1> QED BY <1>1, <1>2

SpentIn(l, p) == IF p[2] = Everyone THEN SumOver(l, InMonth(p[1])) ELSE l[p]

LEMMA SpentIsSum ==
    ASSUME NEW p
    PROVE  Spent(p) = SpentIn(ledger, p) /\ Spent(p)' = SpentIn(ledger', p)
BY TotalIsSum, Zenon DEF Spent, SpentIn, InMonth, Lines

LEMMA PeriodKinds ==
    ASSUME NEW p \in Periods
    PROVE  \/ /\ p[2] = Everyone
              /\ \E d \in Days : p = << MonthOf[d], Everyone >>
           \/ p[2] # Everyone /\ p \in Lines
BY ModelSpendAssumption DEF Periods, Lines

LEMMA SpentIsNat ==
    ASSUME SpendTypeOK, NEW p \in Periods
    PROVE  Spent(p) \in Nat
<1>1. ledger \in [Lines -> Nat]
  BY DEF SpendTypeOK, Lines
<1>2. SumOver(ledger, InMonth(p[1])) \in Nat
  BY <1>1, LinesFinite, SumIsNat
<1>3. p[2] # Everyone => ledger[p] \in Nat
  BY <1>1, PeriodKinds
<1> QED BY <1>2, <1>3, SpentIsSum DEF SpentIn

(* Nothing is spent at first.                                                 *)
LEMMA SpendInitHolds == SpendInit => SpendInv
<1> SUFFICES ASSUME SpendInit PROVE SpendInv
  OBVIOUS
<1>1. SpendTypeOK
  <2>1. today \in Days /\ begun \in 0..MaxSpendCalls /\ limits \in Limits
    BY ModelSpendAssumption DEF SpendInit, Days
  <2>2. ledger \in [Days \X People -> Nat] /\ slack \in [Periods -> Nat]
    BY DEF SpendInit
  <2>3. \A line \in Days \X People : ledger[line] = 0
    BY DEF SpendInit
  <2>4. \A c \in SpendCalls : inference[c] = NoInference
    BY DEF SpendInit
  <2> QED BY <2>1, <2>2, <2>3, <2>4 DEF SpendTypeOK
<1>2. CapIsACeiling
  <2> SUFFICES ASSUME NEW p \in Periods, CapOn(p, limits) # NoCap
               PROVE  Spent(p) <= CapOn(p, limits) + slack[p]
    BY DEF CapIsACeiling
  <2>1. CapOn(p, limits) \in Nat
    BY <1>1, ModelSpendAssumption DEF CapOn, SpendTypeOK, Limits
  <2>2. slack[p] = 0
    BY DEF SpendInit
  <2>3. Spent(p) = 0
    <3>1. \A line \in Lines : ledger[line] = 0
      BY DEF SpendInit, Lines
    <3>2. SumOver(ledger, InMonth(p[1])) = 0
      BY <3>1, LinesFinite, SumOfZeros
    <3>3. p[2] # Everyone => ledger[p] = 0
      BY <3>1, PeriodKinds
    <3> QED BY <3>2, <3>3, SpentIsSum DEF SpentIn
  <2> QED BY <2>1, <2>2, <2>3
<1>3. DOMAIN inference = SpendCalls /\ \A c \in SpendCalls : SpendSound(inference[c])
  BY DEF SpendInit, SpendSound
<1> QED BY <1>1, <1>2, <1>3 DEF SpendInv

(* While neither the ledger nor the caps move, only the calls can break the   *)
(* invariant.                                                                 *)
LEMMA SpendQuiet ==
    ASSUME SpendInv, UNCHANGED <<limits, ledger, slack>>, today' \in Days, today <= today',
           begun' \in 0..MaxSpendCalls, DOMAIN inference' = SpendCalls,
           \A c \in SpendCalls : SpendSound(inference'[c])
    PROVE  SpendInv'
<1>1. \A t : SpendSound(t) => SpendSound(t)'
  <2>1. \A t : StillFits(t)' <=> StillFits(t)
    BY DEF StillFits, SinceMonth, SinceDay, Lines
  <2> QED BY <2>1, ModelSpendAssumption DEF SpendSound, SpendInv, SpendTypeOK, Running, Days
<1>2. \A c \in SpendCalls : SpendSound(inference[c])'
  <2> SUFFICES ASSUME NEW c \in SpendCalls PROVE SpendSound(inference[c])'
    OBVIOUS
  <2>1. SpendSound(inference'[c])
    OBVIOUS
  <2> QED BY <1>1, <2>1
<1>3. SpendTypeOK'
  <2>1. \A c \in SpendCalls : inference'[c] # NoInference =>
           /\ inference'[c].user \in People
           /\ inference'[c].now \in 1..today'
           /\ inference'[c].row \in Limits
    BY <1>2, ModelSpendAssumption DEF SpendSound, Running, Days
  <2>2. \A line \in Days \X People : line[1] > today' => ledger'[line] = 0
    BY ModelSpendAssumption DEF SpendInv, SpendTypeOK, Days
  <2> QED BY <2>1, <2>2 DEF SpendInv, SpendTypeOK
<1>4. CapIsACeiling'
  <2> SUFFICES ASSUME NEW p \in Periods, CapOn(p, limits) # NoCap
               PROVE  Spent(p)' <= CapOn(p, limits) + slack[p]
    BY DEF CapIsACeiling, CapOn
  <2>1. Spent(p)' = Spent(p)
    BY SpentIsSum DEF SpentIn
  <2> QED BY <2>1 DEF SpendInv, CapIsACeiling
<1> QED BY <1>2, <1>3, <1>4 DEF SpendInv

LEMMA OneCallMoves ==
    ASSUME SpendInv, NEW c \in SpendCalls, NEW t, SpendSound(t),
           inference' = [inference EXCEPT ![c] = t]
    PROVE  DOMAIN inference' = SpendCalls /\ \A d \in SpendCalls : SpendSound(inference'[d])
<1>1. \A d \in SpendCalls : inference'[d] = IF d = c THEN t ELSE inference[d]
  BY DEF SpendInv
<1>2. \A d \in SpendCalls : SpendSound(inference'[d])
  BY <1>1 DEF SpendInv
<1>3. DOMAIN inference' = SpendCalls
  BY DEF SpendInv
<1> QED BY <1>2, <1>3

(* The steps that spend nothing.                                              *)
LEMMA SpendAsks ==
    ASSUME SpendInv, NEW c \in SpendCalls, NEW u \in People, NEW budget \in Budgets,
           SpendAsk(c, u, budget)
    PROVE  SpendInv'
<1> DEFINE t == [stage |-> "monthly", user |-> u, budget |-> budget, now |-> today,
                 row |-> limits, met |-> {}]
<1>1. inference' = [inference EXCEPT ![c] = t] /\ UNCHANGED <<today, limits, ledger, slack>>
  BY DEF SpendAsk
<1>2. begun' \in 0..MaxSpendCalls
  BY ModelSpendAssumption DEF SpendAsk, SpendInv, SpendTypeOK
<1>3. t \in Running
  BY DEF Running, Checks, SpendInv, SpendTypeOK
<1>4. SpendSound(t)
  <2>1. t.stage = "monthly" /\ t.row = limits /\ t.now = today
    OBVIOUS
  <2>2. today <= today
    BY ModelSpendAssumption DEF SpendInv, SpendTypeOK, Days
  <2> HIDE DEF t
  <2> QED BY <1>3, <2>1, <2>2 DEF SpendSound, StillFits
<1> HIDE DEF t
<1>5. today' \in Days /\ today <= today'
  BY <1>1, ModelSpendAssumption DEF SpendInv, SpendTypeOK, Days
<1> QED BY <1>1, <1>2, <1>4, <1>5, OneCallMoves, SpendQuiet

LEMMA SpendChecks ==
    ASSUME SpendInv, NEW c \in SpendCalls, CheckMonthly(c) \/ CheckDaily(c) \/ RecordLost(c)
    PROVE  SpendInv'
<1> DEFINE Further(stage) == [inference[c] EXCEPT !.stage = stage]
<1>1. UNCHANGED <<today, limits, ledger, begun, slack>>
  BY Zenon DEF CheckMonthly, CheckDaily, RecordLost
<1>2. PICK t : inference' = [inference EXCEPT ![c] = t] /\ SpendSound(t)
  <2>1. SpendSound(NoInference)
    BY DEF SpendSound
  <2>2. CASE inference' = [inference EXCEPT ![c] = NoInference]
    BY <2>1, <2>2
  <2>3. CASE /\ CheckMonthly(c)
             /\ inference' # [inference EXCEPT ![c] = NoInference]
    <3>1. /\ inference[c].stage = "monthly"
          /\ Allows(inference[c].row.monthly, Total(SinceMonth(inference[c].now)), inference[c].budget)
          /\ inference' = [inference EXCEPT ![c] = Further("daily")]
      BY <2>3, Zenon DEF CheckMonthly, SinceMonth, Lines
    <3>2. Allows(inference[c].row.monthly, SumOver(ledger, SinceMonth(inference[c].now)), inference[c].budget)
      BY <3>1, TotalIsSum
    <3>3. inference[c] \in Running /\ inference[c].now <= today /\ StillFits(inference[c])
      BY <3>1 DEF SpendInv, SpendSound, NoInference
    <3>4. /\ Further("daily") \in Running
          /\ Further("daily").stage = "daily"
          /\ Further("daily").met = inference[c].met
          /\ Further("daily").row = inference[c].row
          /\ Further("daily").now = inference[c].now
          /\ Further("daily").budget = inference[c].budget
      BY <3>3 DEF Running
    <3> HIDE DEF Further
    <3>5. StillFits(Further("daily"))
      BY <3>2, <3>3, <3>4 DEF StillFits
    <3> QED BY <3>1, <3>3, <3>4, <3>5 DEF SpendSound
  <2>4. CASE /\ CheckDaily(c)
             /\ inference' # [inference EXCEPT ![c] = NoInference]
    <3>1. /\ inference[c].stage = "daily"
          /\ Allows(inference[c].row.daily, Total(SinceDay(inference[c].now, inference[c].user)),
                    inference[c].budget)
          /\ inference' = [inference EXCEPT ![c] = Further("sent")]
      BY <2>4, Zenon DEF CheckDaily, SinceDay
    <3>2. Allows(inference[c].row.daily, SumOver(ledger, SinceDay(inference[c].now, inference[c].user)),
                 inference[c].budget)
      BY <3>1, TotalIsSum
    <3>3. inference[c] \in Running /\ inference[c].now <= today /\ StillFits(inference[c])
      BY <3>1 DEF SpendInv, SpendSound, NoInference
    <3>4. /\ Further("sent") \in Running
          /\ Further("sent").stage = "sent"
          /\ Further("sent").met = inference[c].met
          /\ Further("sent").row = inference[c].row
          /\ Further("sent").now = inference[c].now
          /\ Further("sent").user = inference[c].user
          /\ Further("sent").budget = inference[c].budget
      BY <3>3 DEF Running
    <3> HIDE DEF Further
    <3>5. StillFits(Further("sent"))
      BY <3>1, <3>2, <3>3, <3>4 DEF StillFits
    <3> QED BY <3>1, <3>3, <3>4, <3>5 DEF SpendSound
  <2> QED BY <2>2, <2>3, <2>4, Zenon DEF RecordLost
<1>3. today' \in Days /\ today <= today' /\ begun' \in 0..MaxSpendCalls
  BY <1>1, ModelSpendAssumption DEF SpendInv, SpendTypeOK, Days
<1> QED BY <1>1, <1>2, <1>3, OneCallMoves, SpendQuiet

LEMMA SpendNextDay == ASSUME SpendInv, NextDay PROVE SpendInv'
<1>1. today' \in Days /\ today <= today' /\ begun' \in 0..MaxSpendCalls
  BY ModelSpendAssumption DEF NextDay, SpendInv, SpendTypeOK, Days
<1>2. UNCHANGED <<limits, ledger, inference, slack>>
  BY DEF NextDay
<1>3. DOMAIN inference' = SpendCalls /\ \A c \in SpendCalls : SpendSound(inference'[c])
  BY <1>2 DEF SpendInv
<1> QED BY <1>1, <1>2, <1>3, SpendQuiet

(* Caps that change: what is spent by then is what they may be over by.       *)
LEMMA SpendNewCaps ==
    ASSUME SpendInv, NEW row \in Limits, SaveUsageLimits(row)
    PROVE  SpendInv'
<1>1. /\ limits' = row
      /\ UNCHANGED <<today, ledger>>
      /\ begun' \in 0..MaxSpendCalls
  BY ModelSpendAssumption DEF SaveUsageLimits, SpendInv, SpendTypeOK
<1>2. \A p \in Periods : CapOn(p, row) # NoCap => CapOn(p, row) \in Nat
  BY ModelSpendAssumption DEF CapOn, Limits
<1>3. \A p \in Periods : Spent(p) \in Nat
  BY SpentIsNat DEF SpendInv
<1>4. slack' = [p \in Periods |->
          IF CapOn(p, row) # NoCap /\ Spent(p) > CapOn(p, row) THEN Spent(p) - CapOn(p, row) ELSE 0]
  BY DEF SaveUsageLimits
<1>5. slack' \in [Periods -> Nat]
  BY <1>2, <1>3, <1>4
<1>6. CapIsACeiling'
  <2> SUFFICES ASSUME NEW p \in Periods, CapOn(p, row) # NoCap
               PROVE  Spent(p)' <= CapOn(p, row) + slack'[p]
    BY <1>1 DEF CapIsACeiling, CapOn
  <2>1. Spent(p)' = Spent(p)
    BY <1>1, SpentIsSum DEF SpentIn
  <2>2. slack'[p] = IF CapOn(p, row) # NoCap /\ Spent(p) > CapOn(p, row)
                    THEN Spent(p) - CapOn(p, row) ELSE 0
    BY <1>4
  <2> QED BY <1>2, <1>3, <2>1, <2>2
<1>7. \A c \in SpendCalls : SpendSound(inference[c])'
  <2> SUFFICES ASSUME NEW c \in SpendCalls, inference'[c] # NoInference
               PROVE  inference'[c] \in Running /\ (inference'[c].now <= today /\ inference'[c].met = Checks)
    BY <1>1 DEF SpendSound, StillFits, Checks
  <2>1. /\ inference[c] # NoInference
        /\ inference'[c] = [inference[c] EXCEPT !.met = Checks]
    BY DEF SaveUsageLimits, Checks
  <2>2. inference[c] \in Running /\ inference[c].now <= today
    BY <2>1 DEF SpendInv, SpendSound
  <2> QED BY <2>1, <2>2 DEF Running
<1>8. DOMAIN inference' = SpendCalls
  BY DEF SaveUsageLimits
<1>9. SpendTypeOK'
  <2>1. \A c \in SpendCalls : inference'[c] # NoInference =>
           /\ inference'[c].user \in People
           /\ inference'[c].now \in 1..today'
           /\ inference'[c].row \in Limits
    BY <1>7, ModelSpendAssumption DEF SpendSound, Running, Days
  <2> QED BY <1>1, <1>5, <2>1 DEF SpendInv, SpendTypeOK
<1> QED BY <1>6, <1>7, <1>8, <1>9 DEF SpendInv

(* A call whose check still stands was let through: what it was budgeted fits *)
(* the month it ends in, and the day.                                         *)
LEMMA RecordFitsMonth ==
    ASSUME SpendInv, NEW c \in SpendCalls,
           inference[c].stage = "sent", "monthly" \notin inference[c].met,
           limits.monthly # NoCap
    PROVE  SumOver(ledger, InMonth(MonthOf[today])) + inference[c].budget <= limits.monthly
<1> DEFINE t == inference[c]
           since == SumOver(ledger, SinceMonth(t.now))
           month == SumOver(ledger, InMonth(MonthOf[today]))
<1>1. t \in Running /\ t.now <= today /\ StillFits(t)
  BY DEF SpendInv, SpendSound, NoInference
<1>2. /\ limits.monthly \in Nat /\ t.budget \in Nat
      /\ today \in Days /\ t.now \in Days /\ ledger \in [Lines -> Nat]
  BY <1>1, ModelSpendAssumption DEF Running, SpendInv, SpendTypeOK, Limits, Lines
<1>3. InMonth(MonthOf[today]) \in SUBSET SinceMonth(t.now)
  <2>1. MonthOf[t.now] <= MonthOf[today]
    BY <1>1, <1>2, ModelSpendAssumption
  <2> HIDE DEF t
  <2> QED BY <2>1 DEF InMonth, SinceMonth
<1>4. month <= since /\ month \in Nat /\ since \in Nat
  <2> HIDE DEF t
  <2> QED BY <1>2, <1>3, LinesFinite, SumMonotone, SumIsNat
<1>5. since + t.budget <= limits.monthly
  <2>1. t.met # Checks
    BY DEF Checks
  <2>2. t.stage = "sent" /\ "monthly" \notin t.met
    OBVIOUS
  <2>3. Allows(limits.monthly, since, t.budget)
    <3>1. t.row = limits /\ Allows(t.row.monthly, since, t.budget)
      <4> HIDE DEF t
      <4> QED BY <1>1, <2>1, <2>2 DEF StillFits
    <3> HIDE DEF t, since
    <3> QED BY <3>1
  <2> HIDE DEF since, t
  <2> QED BY <2>3 DEF Allows
<1> HIDE DEF since, month
<1> QED BY <1>2, <1>4, <1>5 DEF month

LEMMA RecordFitsDay ==
    ASSUME SpendInv, NEW c \in SpendCalls,
           inference[c].stage = "sent", "daily" \notin inference[c].met,
           limits.daily # NoCap
    PROVE  ledger[<< today, inference[c].user >>] + inference[c].budget <= limits.daily
<1> DEFINE t == inference[c]
           since == SumOver(ledger, SinceDay(t.now, t.user))
           line == << today, t.user >>
<1>1. t \in Running /\ t.now <= today /\ StillFits(t)
  BY DEF SpendInv, SpendSound, NoInference
<1>2. /\ limits.daily \in Nat /\ t.budget \in Nat /\ t.user \in People
      /\ today \in Days /\ t.now \in Days /\ ledger \in [Lines -> Nat]
  BY <1>1, ModelSpendAssumption DEF Running, SpendInv, SpendTypeOK, Limits, Lines
<1>3. line \in SinceDay(t.now, t.user) /\ line \in Lines
  <2> HIDE DEF t
  <2> QED BY <1>1, <1>2 DEF SinceDay, Lines
<1>4. ledger[line] <= since /\ ledger[line] \in Nat /\ since \in Nat
  <2> HIDE DEF t, line
  <2>1. since = ledger[line] + SumOver(ledger, SinceDay(t.now, t.user) \ {line})
    BY <1>2, <1>3, LinesFinite, SumRemove
  <2>2. SumOver(ledger, SinceDay(t.now, t.user) \ {line}) \in Nat /\ ledger[line] \in Nat
    <3>1. SinceDay(t.now, t.user) \ {line} \in SUBSET Lines
      BY <1>2, LinesFinite
    <3> QED BY <1>2, <1>3, <3>1, LinesFinite, SumIsNat
  <2> HIDE DEF since
  <2> QED BY <2>1, <2>2
<1>5. since + t.budget <= limits.daily
  <2>1. t.met # Checks
    BY DEF Checks
  <2>2. t.stage = "sent" /\ "daily" \notin t.met
    OBVIOUS
  <2>3. Allows(limits.daily, since, t.budget)
    <3>1. t.row = limits /\ Allows(t.row.daily, since, t.budget)
      <4> HIDE DEF t
      <4> QED BY <1>1, <2>1, <2>2 DEF StillFits
    <3> HIDE DEF t, since
    <3> QED BY <3>1
  <2> HIDE DEF since, t
  <2> QED BY <2>3 DEF Allows
<1> HIDE DEF since
<1> QED BY <1>2, <1>4, <1>5

(* A line of the ledger that grows shows in the sums it is in.                *)
LEMMA LedgerSums ==
    ASSUME ledger \in [Lines -> Nat], NEW line \in Lines, NEW tokens \in Nat,
           ledger'[line] = ledger[line] + tokens,
           \A x \in Lines \ {line} : ledger'[x] = ledger[x]
    PROVE  \A S \in SUBSET Lines :
              /\ line \in S => SumOver(ledger', S) = SumOver(ledger, S) + tokens
              /\ line \notin S => SumOver(ledger', S) = SumOver(ledger, S)
BY LinesFinite, SumUpdate

(* The line is written: every period costs what it did, but for the day and   *)
(* the month the line is in.                                                  *)
LEMMA RecordSpends ==
    ASSUME SpendInv, NEW u \in People, NEW tokens \in Nat,
           ledger' = [ledger EXCEPT ![<< today, u >>] = @ + tokens]
    PROVE  \A p \in Periods :
              Spent(p)' = IF p = << MonthOf[today], Everyone >> \/ p = << today, u >>
                          THEN Spent(p) + tokens ELSE Spent(p)
<1> DEFINE line == << today, u >>
<1>1. line \in Lines /\ ledger \in [Lines -> Nat] /\ today \in Days
  BY DEF SpendInv, SpendTypeOK, Lines
<1>2. ledger' = [ledger EXCEPT ![line] = @ + tokens]
  OBVIOUS
<1>3. \A m : SumOver(ledger', InMonth(m)) =
               IF line \in InMonth(m) THEN SumOver(ledger, InMonth(m)) + tokens
                                      ELSE SumOver(ledger, InMonth(m))
  <2> HIDE DEF line
  <2>1. \A S \in SUBSET Lines :
           /\ line \in S => SumOver(ledger', S) = SumOver(ledger, S) + tokens
           /\ line \notin S => SumOver(ledger', S) = SumOver(ledger, S)
    <3>1. ledger'[line] = ledger[line] + tokens /\ \A x \in Lines \ {line} : ledger'[x] = ledger[x]
      BY <1>1, <1>2
    <3>2. IsFiniteSet(Lines) /\ tokens \in Nat /\ line \in Lines /\ ledger \in [Lines -> Nat]
      BY <1>1, LinesFinite
    <3> QED BY <3>1, <3>2, LedgerSums
  <2> QED BY <2>1, LinesFinite
<1>4. \A m : line \in InMonth(m) <=> m = MonthOf[today]
  BY <1>1 DEF InMonth
<1> SUFFICES ASSUME NEW p \in Periods
             PROVE  Spent(p)' = IF p = << MonthOf[today], Everyone >> \/ p = line
                                THEN Spent(p) + tokens ELSE Spent(p)
  OBVIOUS
<1>5. Spent(p) = SpentIn(ledger, p) /\ Spent(p)' = SpentIn(ledger', p)
  BY SpentIsSum
<1>6. ASSUME p[2] = Everyone, NEW d \in Days, p = << MonthOf[d], Everyone >>
      PROVE  SpentIn(ledger', p) = IF p = << MonthOf[today], Everyone >> \/ p = line
                                   THEN SpentIn(ledger, p) + tokens ELSE SpentIn(ledger, p)
  <2>1. p # line
    BY <1>6, ModelSpendAssumption
  <2>2. p = << MonthOf[today], Everyone >> <=> p[1] = MonthOf[today]
    BY <1>6
  <2> HIDE DEF line
  <2> QED BY <1>3, <1>4, <1>6, <2>1, <2>2 DEF SpentIn
<1>7. ASSUME p[2] # Everyone, p \in Lines
      PROVE  SpentIn(ledger', p) = IF p = << MonthOf[today], Everyone >> \/ p = line
                                   THEN SpentIn(ledger, p) + tokens ELSE SpentIn(ledger, p)
  <2>1. p # << MonthOf[today], Everyone >>
    BY <1>7
  <2> HIDE DEF line
  <2> QED BY <1>1, <1>2, <1>7, <2>1 DEF SpentIn
<1> QED BY <1>5, <1>6, <1>7, PeriodKinds

(* A call that goes on keeps only the checks that the new line left alone.    *)
LEMMA OutdatedSound ==
    ASSUME SpendInv, NEW u \in People, NEW tokens \in Nat, UNCHANGED <<today, limits>>,
           ledger' = [ledger EXCEPT ![<< today, u >>] = @ + tokens],
           NEW d \in SpendCalls, NEW t, t = Outdated(d, u)
    PROVE  SpendSound(t)'
<1> DEFINE r == inference[d]
           line == << today, u >>
<1>1. r = NoInference \/ (r \in Running /\ r.now <= today /\ StillFits(r))
  BY DEF SpendInv, SpendSound
<1>2. line \in Lines /\ ledger \in [Lines -> Nat]
  BY DEF SpendInv, SpendTypeOK, Lines
<1>3. CASE r = NoInference
  <2>1. t = r
    BY <1>3, Zenon DEF Outdated, NoInference
  <2> QED BY <1>3, <2>1 DEF SpendSound
<1>4. CASE r \in Running /\ r.now <= today /\ StillFits(r)
  <2>1. r.stage \in {"monthly", "daily", "sent"} /\ r.user \in People
    BY <1>4 DEF Running
  <2>2. PICK met \in SUBSET Checks :
          /\ t = [r EXCEPT !.met = met]
          /\ r.met \subseteq met
          /\ r.stage # "monthly" => "monthly" \in met
          /\ r.stage = "sent" /\ r.user = u => met = Checks
    <3>1. CASE r.stage = "monthly"
      <4>1. t = r
        <5>1. r.stage # "idle"
          BY <3>1
        <5> QED BY <3>1, <5>1, Zenon DEF Outdated
      <4>2. r = [r EXCEPT !.met = r.met] /\ r.met \in SUBSET Checks
        BY <1>4 DEF Running
      <4> HIDE DEF r
      <4> QED BY <3>1, <4>1, <4>2
    <3>2. CASE r.stage = "sent" /\ r.user = u
      <4>1. r.stage # "idle" /\ r.stage # "monthly"
        BY <3>2
      <4>2. t = [r EXCEPT !.met = Checks]
        BY <3>2, <4>1, Zenon DEF Outdated, Checks
      <4>3. r.met \in SUBSET Checks
        BY <1>4 DEF Running
      <4> HIDE DEF r
      <4> QED BY <3>2, <4>2, <4>3 DEF Checks
    <3>3. CASE r.stage # "monthly" /\ ~(r.stage = "sent" /\ r.user = u)
      <4>1. r.stage # "idle"
        BY <2>1
      <4>2. t = [r EXCEPT !.met = r.met \union {"monthly"}]
        BY <3>3, <4>1, Zenon DEF Outdated
      <4>3. r.met \in SUBSET Checks
        BY <1>4 DEF Running
      <4>4. r.met \union {"monthly"} \in SUBSET Checks
        BY <4>3 DEF Checks
      <4> HIDE DEF r
      <4> QED BY <3>3, <4>2, <4>4
    <3> QED BY <3>1, <3>2, <3>3
  <2>3. /\ t \in Running /\ t.stage = r.stage /\ t.user = r.user /\ t.now = r.now
        /\ t.row = r.row /\ t.budget = r.budget /\ t.met = met
    BY <1>4, <2>2 DEF Running
  <2>4. t.met # Checks => t.row = limits
    <3>1. met # Checks => r.met # Checks
      BY <2>2
    <3> QED BY <1>4, <2>3, <3>1 DEF StillFits
  <2>5. t.stage # "monthly" => "monthly" \in t.met
    BY <2>2, <2>3
  <2>6. t.stage = "sent" /\ "daily" \notin t.met =>
           Allows(t.row.daily, SumOver(ledger', SinceDay(t.now, t.user)), t.budget)
    <3> SUFFICES ASSUME t.stage = "sent", "daily" \notin t.met
                 PROVE  Allows(t.row.daily, SumOver(ledger', SinceDay(t.now, t.user)), t.budget)
      OBVIOUS
    <3>1. r.user # u /\ "daily" \notin r.met
      BY <2>2, <2>3 DEF Checks
    <3>2. line \notin SinceDay(t.now, t.user)
      BY <2>3, <3>1 DEF SinceDay
    <3>3. SumOver(ledger', SinceDay(t.now, t.user)) = SumOver(ledger, SinceDay(t.now, t.user))
      <4>1. SinceDay(t.now, t.user) \in SUBSET Lines
        BY <2>1, <2>3, LinesFinite
      <4>2. ledger' = [ledger EXCEPT ![line] = @ + tokens]
        OBVIOUS
      <4> HIDE DEF line
      <4>3. \A S \in SUBSET Lines :
               /\ line \in S => SumOver(ledger', S) = SumOver(ledger, S) + tokens
               /\ line \notin S => SumOver(ledger', S) = SumOver(ledger, S)
        <5>1. ledger'[line] = ledger[line] + tokens /\ \A x \in Lines \ {line} : ledger'[x] = ledger[x]
          BY <1>2, <4>2
        <5>2. IsFiniteSet(Lines) /\ tokens \in Nat /\ line \in Lines /\ ledger \in [Lines -> Nat]
          BY <1>2, LinesFinite
        <5> QED BY <5>1, <5>2, LedgerSums
      <4> QED BY <3>2, <4>1, <4>3
    <3>4. Allows(r.row.daily, SumOver(ledger, SinceDay(r.now, r.user)), r.budget)
      <4>1. r.stage = "sent"
        BY <2>3
      <4> HIDE DEF r
      <4> QED BY <1>4, <3>1, <4>1 DEF StillFits
    <3> HIDE DEF r, line
    <3> QED BY <2>3, <3>3, <3>4
  <2>7. StillFits(t)'
    <3>1. SinceDay(t.now, t.user)' = SinceDay(t.now, t.user)
      BY DEF SinceDay
    <3> QED BY <2>4, <2>5, <2>6, <3>1 DEF StillFits
  <2> QED BY <1>4, <2>3, <2>7 DEF SpendSound
<1> QED BY <1>1, <1>3, <1>4

LEMMA SpendRecords ==
    ASSUME SpendInv, NEW c \in SpendCalls, NEW tokens \in Reports, Record(c, tokens)
    PROVE  SpendInv'
<1> DEFINE u == inference[c].user
           month == << MonthOf[today], Everyone >>
           day == << today, u >>
           beyond == Excess(tokens, inference[c].budget)
<1>0. inference[c].stage = "sent"
  BY Zenon DEF Record
<1>1. /\ inference[c] \in Running /\ u \in People /\ tokens \in Nat
      /\ inference[c].met \in SUBSET Checks /\ inference[c].budget \in Nat
  <2>1. inference[c] \in Running
    BY <1>0 DEF SpendInv, SpendSound, NoInference
  <2> QED BY <2>1, ModelSpendAssumption DEF Running
<1>2. /\ ledger' = [ledger EXCEPT ![day] = @ + tokens]
      /\ slack' = [p \in Periods |->
            IF p \notin {month, day} THEN slack[p]
            ELSE IF CheckOn(p) \in inference[c].met THEN slack[p] + tokens ELSE beyond]
      /\ inference' = [d \in SpendCalls |-> IF d = c THEN NoInference ELSE Outdated(d, u)]
      /\ UNCHANGED <<today, limits, begun>>
  BY Zenon DEF Record
<1>3. /\ today \in Days /\ day \in Lines /\ day \in Periods /\ month \in Periods /\ day # month
      /\ day[2] # Everyone /\ month[2] = Everyone
  BY <1>1, ModelSpendAssumption DEF SpendInv, SpendTypeOK, Lines, Periods
<1>4. slack \in [Periods -> Nat] /\ ledger \in [Lines -> Nat]
  BY DEF SpendInv, SpendTypeOK, Lines
<1>11. beyond \in Nat /\ tokens <= inference[c].budget + beyond
  <2> HIDE DEF u
  <2> QED BY <1>1 DEF Excess
<1> HIDE DEF beyond
<1>5. \A p \in Periods : slack'[p] =
         IF p \notin {month, day} THEN slack[p]
         ELSE IF CheckOn(p) \in inference[c].met THEN slack[p] + tokens ELSE beyond
  BY <1>2
<1>6. slack' \in [Periods -> Nat]
  <2> HIDE DEF month, day
  <2>1. slack' = [p \in Periods |-> slack'[p]]
    BY <1>2, <1>4
  <2> QED BY <1>1, <1>4, <1>5, <1>11, <2>1
<1>7. \A d \in SpendCalls : SpendSound(inference[d])'
  <2> SUFFICES ASSUME NEW d \in SpendCalls PROVE SpendSound(inference[d])'
    OBVIOUS
  <2>1. CASE d = c
    BY <1>2, <2>1 DEF SpendSound
  <2>2. CASE d # c
    <3> DEFINE t == Outdated(d, u)
    <3>1. inference'[d] = t
      BY <1>2, <2>2
    <3>2. \A x : x = t => SpendSound(x)'
      <4> HIDE DEF u
      <4> QED BY <1>1, <1>2, OutdatedSound
    <3> HIDE DEF t
    <3> QED BY <3>1, <3>2
  <2> QED BY <2>1, <2>2
<1>8. SpendTypeOK'
  <2>1. \A d \in SpendCalls : inference'[d] # NoInference =>
           /\ inference'[d].user \in People
           /\ inference'[d].now \in 1..today'
           /\ inference'[d].row \in Limits
    BY <1>7, ModelSpendAssumption DEF SpendSound, Running, Days
  <2>2. ledger' \in [Days \X People -> Nat]
    <3> HIDE DEF day
    <3> QED BY <1>1, <1>2, <1>3, <1>4 DEF Lines
  <2>3. \A line \in Days \X People : line[1] > today' => ledger'[line] = 0
    <3> SUFFICES ASSUME NEW line \in Lines, line[1] > today PROVE ledger'[line] = 0
      BY <1>2 DEF Lines
    <3>1. line # day
      BY <1>3, ModelSpendAssumption DEF Days
    <3>2. ledger[line] = 0
      BY DEF SpendInv, SpendTypeOK, Lines
    <3> HIDE DEF day
    <3> QED BY <1>2, <1>4, <3>1, <3>2
  <2> QED BY <1>2, <1>6, <2>1, <2>2, <2>3 DEF SpendInv, SpendTypeOK
<1>9. CapIsACeiling'
  <2> SUFFICES ASSUME NEW p \in Periods, CapOn(p, limits) # NoCap
               PROVE  Spent(p)' <= CapOn(p, limits) + slack'[p]
    BY <1>2 DEF CapIsACeiling, CapOn
  <2>1. /\ CapOn(p, limits) \in Nat /\ slack[p] \in Nat /\ Spent(p) \in Nat
        /\ Spent(p) <= CapOn(p, limits) + slack[p]
    BY <1>4, SpentIsNat, ModelSpendAssumption
       DEF SpendInv, SpendTypeOK, CapIsACeiling, CapOn, Limits
  <2>2. Spent(p)' = IF p = month \/ p = day THEN Spent(p) + tokens ELSE Spent(p)
    <3> HIDE DEF u
    <3> QED BY <1>1, <1>2, RecordSpends
  <2>3. slack'[p] = IF p \notin {month, day} THEN slack[p]
                    ELSE IF CheckOn(p) \in inference[c].met THEN slack[p] + tokens ELSE beyond
    BY <1>5
  <2>4. ASSUME p = month, "monthly" \notin inference[c].met
        PROVE  Spent(p) + inference[c].budget <= CapOn(p, limits)
    <3>1. CapOn(p, limits) = limits.monthly
      BY <1>3, <2>4 DEF CapOn
    <3>2. Spent(p) = SumOver(ledger, InMonth(MonthOf[today]))
      BY <2>4, SpentIsSum DEF SpentIn
    <3> HIDE DEF month
    <3> QED BY <1>0, <2>4, <3>1, <3>2, RecordFitsMonth
  <2>5. ASSUME p = day, "daily" \notin inference[c].met
        PROVE  Spent(p) + inference[c].budget <= CapOn(p, limits)
    <3>1. CapOn(p, limits) = limits.daily
      BY <1>3, <2>5 DEF CapOn
    <3>2. Spent(p) = ledger[<< today, inference[c].user >>]
      BY <1>3, <2>5, SpentIsSum DEF SpentIn
    <3> HIDE DEF day, u
    <3> QED BY <1>0, <2>5, <3>1, <3>2, RecordFitsDay
  <2>6. tokens \in Nat /\ CheckOn(month) = "monthly" /\ CheckOn(day) = "daily"
    BY <1>1, <1>3 DEF CheckOn
  <2> HIDE DEF month, day, u
  <2>7. CASE p \in {month, day} /\ CheckOn(p) \notin inference[c].met
    <3>1. Spent(p)' = Spent(p) + tokens /\ slack'[p] = beyond
      BY <2>2, <2>3, <2>7
    <3>2. Spent(p) + inference[c].budget <= CapOn(p, limits)
      BY <2>4, <2>5, <2>6, <2>7
    <3> QED BY <1>1, <1>11, <2>1, <3>1, <3>2
  <2>8. CASE p \in {month, day} /\ CheckOn(p) \in inference[c].met
    <3>1. Spent(p)' = Spent(p) + tokens /\ slack'[p] = slack[p] + tokens
      BY <2>2, <2>3, <2>8
    <3> QED BY <2>1, <2>6, <3>1
  <2>9. CASE p \notin {month, day}
    <3>1. Spent(p)' = Spent(p) /\ slack'[p] = slack[p]
      BY <2>2, <2>3, <2>9
    <3> QED BY <2>1, <3>1
  <2> QED BY <2>7, <2>8, <2>9
<1>10. DOMAIN inference' = SpendCalls
  BY <1>2
<1> QED BY <1>7, <1>8, <1>9, <1>10 DEF SpendInv

LEMMA SpendStepInductive == SpendInv /\ [SpendNext]_spendVars => SpendInv'
<1> SUFFICES ASSUME SpendInv, [SpendNext]_spendVars PROVE SpendInv'
  OBVIOUS
<1>1. CASE UNCHANGED spendVars
  <2>1. /\ today' \in Days /\ today <= today' /\ begun' \in 0..MaxSpendCalls
        /\ UNCHANGED <<limits, ledger, inference, slack>>
    BY <1>1, ModelSpendAssumption DEF spendVars, SpendInv, SpendTypeOK, Days
  <2>2. DOMAIN inference' = SpendCalls /\ \A c \in SpendCalls : SpendSound(inference'[c])
    BY <2>1 DEF SpendInv
  <2> QED BY <2>1, <2>2, SpendQuiet
<1> QED
  BY <1>1, SpendAsks, SpendChecks, SpendRecords, SpendNewCaps, SpendNextDay, Zenon DEF SpendNext

(* What holds of the spending at every moment.                                *)
LEMMA SpendAlways == SpendSpec => []SpendInv
BY SpendInitHolds, SpendStepInductive, PTL DEF SpendSpec

(* No month of the workspace and no day of a person costs more than its cap,  *)
(* however many calls overlap each other, midnight and the turn of a month,   *)
(* but for what the last call whose check stood cost beyond its estimate, for *)
(* the calls since then whose check had been overtaken by a recorded call or  *)
(* by new caps, and for what was spent when a cap was lowered.                *)
THEOREM CeilingHolds == SpendSpec => []CapIsACeiling
<1>1. SpendInv => CapIsACeiling
  BY DEF SpendInv
<1> QED BY <1>1, SpendAlways, PTL
===============================================================================
