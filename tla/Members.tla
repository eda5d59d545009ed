-------------------------------- MODULE Members --------------------------------
(***************************************************************************)
(* Who belongs to a workspace and who owns it: role changes, suspensions   *)
(* and removals (org-members-service.ts), invitations                      *)
(* (invitations-service.ts) and the auto-join of a single-tenant           *)
(* deployment (workspace.ts).                                              *)
(*                                                                         *)
(* A change of a member reads the row and counts the owners, then writes,  *)
(* with nothing locked and no transaction around the two.  API keys and    *)
(* product grants, which the same calls also take away, are left out, and  *)
(* so are service accounts.  An invitation's address is the user it is for.*)
(***************************************************************************)
EXTENDS Integers, FiniteSets

CONSTANTS
    Users,
    Invites,          \* invitation ids
    NoInvite,         \* an invitation nobody has made
    MemberCalls,      \* requests that may run at once
    MaxMemberCalls    \* bound: requests

Roles == {"owner", "member"}

(* Rows of members; out is the row that is not there.                       *)
Memberships == [role : Roles, active : BOOLEAN, in : {TRUE}]
               \union {[role |-> "member", active |-> FALSE, in |-> FALSE]}
Out == [role |-> "member", active |-> FALSE, in |-> FALSE]

InviteStates == {"pending", "accepted", "revoked", "expired"}

ASSUME MembersAssumption ==
    /\ IsFiniteSet(Users)
    /\ NoInvite \notin [status : InviteStates, for : Users, role : Roles]
    /\ MaxMemberCalls \in Nat

VARIABLES
    multi,       \* a multi-tenant deployment
    member,      \* the row of each user
    invite,      \* the invitations
    change,      \* the requests under way
    filed,       \* what MaxMemberCalls bounds, so far
    loosened     \* history: an owner was lost to two changes at once, or to an invitation

memberVars == <<multi, member, invite, change, filed, loosened>>

NoChange == [stage |-> "idle"]

OwnersIn(table) == {u \in Users : table[u].in /\ table[u].role = "owner" /\ table[u].active}

MemberInit ==
    /\ multi \in BOOLEAN
    /\ member \in [Users -> Memberships]
    /\ OwnersIn(member) # {}
    /\ invite = [k \in Invites |-> NoInvite]
    /\ change = [c \in MemberCalls |-> NoChange]
    /\ filed = 0
    /\ loosened = FALSE

(* What an owner asks for; an organization without one has nobody to ask.   *)
AdminFiles ==
    /\ OwnersIn(member) # {}
    /\ filed < MaxMemberCalls
    /\ filed' = filed + 1

-------------------------------------------------------------------------------
(* setMemberRole, setMemberActive and removeMember: what each makes of a    *)
(* row.  Removing deactivates where everyone is joined again automatically. *)
After(row, what) ==
    CASE what \in Roles -> [row EXCEPT !.role = what]
      [] what = "activate" -> [row EXCEPT !.active = TRUE]
      [] what = "deactivate" -> [row EXCEPT !.active = FALSE]
      [] what = "remove" -> IF multi THEN Out ELSE [row EXCEPT !.active = FALSE]

Reduces(what) == what \in {"member", "deactivate", "remove"}

(* Mutant: owners are counted whether or not they are suspended.            *)
NotLastOwnerOfAny(u) ==
    member[u].role = "owner" /\ member[u].active
       => Cardinality({v \in Users : member[v].in /\ member[v].role = "owner"}) > 1

(* assertNotLastOwner.                                                      *)
NotLastOwner(u) ==
    member[u].role = "owner" /\ member[u].active => Cardinality(OwnersIn(member)) > 1

(* met: since the count, an owner has gone.                                 *)
ChangeRead(c, u, what) ==
    /\ change[c] = NoChange
    /\ AdminFiles
    /\ member[u].in
    /\ member[u].role # what
    /\ Reduces(what) => NotLastOwner(u)
    /\ change' = [change EXCEPT ![c] = [stage |-> "change", user |-> u, what |-> what, met |-> FALSE]]
    /\ UNCHANGED <<multi, member, invite, loosened>>

(* An owner goes: every other request that has counted is out of date.      *)
Overtake(others) ==
    [d \in MemberCalls |-> IF d \in others /\ change[d].stage = "change"
                           THEN [change[d] EXCEPT !.met = TRUE] ELSE change[d]]

(* The write, by user, whatever the row has become.                         *)
ChangeWrite(c) ==
    LET u == change[c].user
        table == [member EXCEPT ![u] = IF @.in THEN After(@, change[c].what) ELSE @]
        lost == OwnersIn(member) \ OwnersIn(table) # {}
    IN  /\ change[c].stage = "change"
        /\ member' = table
        /\ loosened' = (loosened \/ (lost /\ change[c].met))
        /\ change' = [(IF lost THEN Overtake(MemberCalls \ {c}) ELSE change) EXCEPT ![c] = NoChange]
        /\ UNCHANGED <<multi, invite, filed>>

-------------------------------------------------------------------------------
(* createInvitation: not for an active member; an earlier one is revoked.   *)
CreateInvitation(k, u, role) ==
    /\ AdminFiles
    /\ invite[k] = NoInvite
    /\ ~(member[u].in /\ member[u].active)
    /\ invite' = [j \in Invites |->
          IF j = k THEN [status |-> "pending", for |-> u, role |-> role]
          ELSE IF invite[j] # NoInvite /\ invite[j].for = u /\ invite[j].status = "pending"
               THEN [invite[j] EXCEPT !.status = "revoked"] ELSE invite[j]]
    /\ UNCHANGED <<multi, member, change, loosened>>

(* revokeInvitation settles only what is pending; so does time, until the   *)
(* invitation is sent again (resendInvitation).                             *)
SettleInvitation(k, status) ==
    /\ invite[k] # NoInvite /\ invite[k].status = "pending"
    /\ invite' = [invite EXCEPT ![k].status = status]
    /\ UNCHANGED <<multi, member, change, filed, loosened>>

(* redeemInvitation: the invitation is read and found pending, the write    *)
(* comes in a transaction of its own.                                       *)
RedeemRead(c, k) ==
    /\ change[c] = NoChange
    /\ filed < MaxMemberCalls
    /\ filed' = filed + 1
    /\ invite[k] # NoInvite /\ invite[k].status = "pending"
    /\ change' = [change EXCEPT ![c] = [stage |-> "redeem", invite |-> k]]
    /\ UNCHANGED <<multi, member, invite, loosened>>

(* The row is inserted, or updated, with the role of the invitation; an     *)
(* owner with an old invitation as a member is one no more.                 *)
RedeemWrite(c) ==
    LET k == change[c].invite
        u == invite[k].for
        table == [member EXCEPT ![u] = [role |-> invite[k].role, active |-> TRUE, in |-> TRUE]]
        lost == OwnersIn(member) \ OwnersIn(table) # {}
    IN  /\ change[c].stage = "redeem"
        /\ member' = table
        /\ invite' = [invite EXCEPT ![k].status = "accepted"]
        /\ loosened' = (loosened \/ lost)
        /\ change' = [(IF lost THEN Overtake(MemberCalls \ {c}) ELSE change) EXCEPT ![c] = NoChange]
        /\ UNCHANGED <<multi, filed>>

(* ensureMembership: a signed-in user without a row joins as a member.      *)
AutoJoin(u) ==
    /\ ~multi
    /\ ~member[u].in
    /\ member' = [member EXCEPT ![u] = [role |-> "member", active |-> TRUE, in |-> TRUE]]
    /\ UNCHANGED <<multi, invite, change, filed, loosened>>

MemberNext ==
    \/ \E c \in MemberCalls, u \in Users, what \in Roles \union {"activate", "deactivate", "remove"} :
          ChangeRead(c, u, what)
    \/ \E c \in MemberCalls : ChangeWrite(c) \/ RedeemWrite(c)
    \/ \E k \in Invites, u \in Users, role \in Roles : CreateInvitation(k, u, role)
    \/ \E k \in Invites, status \in {"revoked", "expired"} : SettleInvitation(k, status)
    \/ \E c \in MemberCalls, k \in Invites : RedeemRead(c, k)
    \/ \E u \in Users : AutoJoin(u)

MemberSpec == MemberInit /\ [][MemberNext]_memberVars

-------------------------------------------------------------------------------
(* Every row, invitation and request is of its kind.                        *)
Changes ==
    [stage : {"idle"}]
    \union [stage : {"change"}, user : Users, met : BOOLEAN,
            what : Roles \union {"activate", "deactivate", "remove"}]
    \union [stage : {"redeem"}, invite : Invites]

MemberTypeOK ==
    /\ multi \in BOOLEAN
    /\ member \in [Users -> Memberships]
    /\ invite \in [Invites -> [status : InviteStates, for : Users, role : Roles] \union {NoInvite}]
    /\ change \in [MemberCalls -> Changes]
    /\ filed \in 0..MaxMemberCalls
    /\ loosened \in BOOLEAN
    /\ \A c \in MemberCalls : change[c].stage = "redeem" => invite[change[c].invite] # NoInvite

(* OwnerRemains: a workspace never loses its last active owner ("You can't  *)
(* demote the only owner", org-members-service.ts), by any sequence of role *)
(* changes, suspensions, removals, invitations and joins.  Excused: a       *)
(* change that counted the owners before another of them went, and an       *)
(* invitation that takes the role of an owner, which counts nobody.         *)
OwnerRemains == OwnersIn(member) # {} \/ loosened
===============================================================================
