--------------------------- MODULE MCWorkspaceWrites ---------------------------
(***************************************************************************)
(* ItemTree, Planning, StageGates, Members and ModelSpend on small         *)
(* instances.  They share no variable, so their composition shows nothing  *)
(* that one of them does not: a behaviour is one component's, chosen at    *)
(* the start, and the others stand still in a state they may begin in.     *)
(***************************************************************************)
EXTENDS ItemTree, Planning, StageGates, Members, ModelSpend, TLC

CONSTANTS c1, c2,                               \* requests
          epic, group, card, new, key1, key2,   \* ItemTree
          w1, w2, w3, r1, r2, y1, y2, p1, p2,   \* Planning
          x1, backlog, build, ship, g1, g2,     \* StageGates
          u1, u2, u3, i1                        \* Members, ModelSpend

VARIABLE part

MCCalls == {c1, c2}
Sym == Permutations(MCCalls)

-------------------------------------------------------------------------------
(* An epic, a grouping that may hang under it, a leaf that hangs under the  *)
(* grouping or under nothing, with a spec or without; and an id to come.    *)
MCItems == {epic, group, card, new}
MCKeys == {key1, key2}

InTree(level, parent, who) ==
    [NoRow EXCEPT !.here = TRUE, !.id = 1, !.level = level, !.parent = parent, !.setBy = who]

Scene(over, leaf) ==
    [i \in MCItems |->
       CASE i = epic -> InTree(0, NoItem, "nobody")
         [] i = group -> [InTree(1, over, IF over = NoItem THEN "nobody" ELSE "user") EXCEPT !.key = key1]
         [] i = card -> leaf
         [] OTHER -> NoRow]

MCScenes ==
    {Scene(epic, [InTree(2, group, "system") EXCEPT !.spec = TRUE, !.synced = key1]),
     Scene(NoItem, InTree(2, group, "user")),
     Scene(NoItem, [InTree(2, NoItem, "user") EXCEPT !.spec = TRUE, !.synced = key1])}

-------------------------------------------------------------------------------
(* Three items in a chain, the lowest of another product.                   *)
MCWork == {w1, w2, w3}
MCOver == [w \in MCWork |-> CASE w = w1 -> NoWork [] w = w2 -> w1 [] OTHER -> w2]
MCProductOf == [w \in MCWork |-> IF w = w3 THEN p2 ELSE p1]
MCFinished == {}
MCReleases == {r1, r2}
MCCycles == {y1, y2}
MCProducts == {p1, p2}

Own(p) == [here |-> TRUE, product |-> p]
In(r, y) == [release |-> r, cycle |-> y]

MCBoards ==
    {[slot |-> r1 :> Own(Shared) @@ r2 :> Own(p1) @@ y1 :> Own(Shared) @@ y2 :> Own(p2),
      at |-> w1 :> In(NoSlot, NoSlot) @@ w2 :> In(r2, y1) @@ w3 :> In(NoSlot, y1)],
     [slot |-> r1 :> Own(p1) @@ r2 :> Own(Shared) @@ y1 :> Own(p1) @@ y2 :> Own(Shared),
      at |-> w1 :> In(r1, y1) @@ w2 :> In(NoSlot, NoSlot) @@ w3 :> In(r2, NoSlot)]}

-------------------------------------------------------------------------------
(* One ticket, three stages, a field gate and a checklist gate.             *)
MCTickets == {x1}
MCStages == {backlog, build, ship}
MCBuiltIn == <<backlog, build, ship>>
MCOrders == {MCBuiltIn, <<ship, build, backlog>>, <<build, ship>>}
MCGates == {g1, g2}
MCFieldGates == {g2}

-------------------------------------------------------------------------------
MCUsers == {u1, u2, u3}
MCInvites == {i1}

(* Three days, the last of the next month.                                  *)
MCPeople == {u1, u2}
MCMonthOf == <<1, 1, 2>>
MCBudgets == {1, 3}
MCReports == {0, 1, 4}
MCCaps == {2, 3}

-------------------------------------------------------------------------------
Pinned(name, still) == part = name \/ still

WorkspaceInit ==
    /\ part \in {"tree", "plan", "gates", "members", "spend"}
    /\ TreeInit /\ Pinned("tree", item = CHOOSE T \in Scenes : TRUE)
    /\ PlanInit /\ Pinned("plan", [slot |-> slot, at |-> at] = CHOOSE b \in Boards : TRUE)
    /\ GateInit /\ Pinned("gates", /\ order = CHOOSE o \in Orders : TRUE
                                   /\ strict
                                   /\ gate = [g \in Gates |-> NoStage]
                                   /\ ticket = [x \in Tickets |-> NoTicket])
    /\ MemberInit /\ Pinned("members", multi /\ OwnersIn(member) = Users)
    /\ SpendInit /\ Pinned("spend", limits = [monthly |-> NoCap, daily |-> NoCap])

WorkspaceNext ==
    /\ UNCHANGED part
    /\ \/ part = "tree" /\ TreeNext /\ UNCHANGED <<planVars, gateVars, memberVars, spendVars>>
       \/ part = "plan" /\ PlanNext /\ UNCHANGED <<treeVars, gateVars, memberVars, spendVars>>
       \/ part = "gates" /\ GateNext /\ UNCHANGED <<treeVars, planVars, memberVars, spendVars>>
       \/ part = "members" /\ MemberNext /\ UNCHANGED <<treeVars, planVars, gateVars, spendVars>>
       \/ part = "spend" /\ SpendNext /\ UNCHANGED <<treeVars, planVars, gateVars, memberVars>>

WorkspaceSpec ==
    WorkspaceInit /\ [][WorkspaceNext]_<<part, treeVars, planVars, gateVars, memberVars, spendVars>>

(* Everything is of its kind, in every component.                           *)
WorkspaceTypeOK == TreeTypeOK /\ PlanTypeOK /\ GateTypeOK /\ MemberTypeOK /\ SpendTypeOK
===============================================================================
