---------------------------- MODULE WorkspaceProofs ----------------------------
(***************************************************************************)
(* What the checks of ItemTree, Planning and StageGates amount to, for any *)
(* items, releases, cycles, stages and gates and any number of concurrent  *)
(* requests.  They share no variable with each other or with Members and   *)
(* ModelSpend (AccountProofs): a section each, with its inductive          *)
(* invariant, and at the end the five together.                            *)
(***************************************************************************)
EXTENDS MCWorkspaceWrites, AccountProofs, SequenceTheorems

(* Induction over the natural numbers, for a set of them.                   *)
LEMMA NaturalInduction ==
    ASSUME NEW G, 0 \in G, \A n \in Nat : n \in G => n + 1 \in G
    PROVE  Nat \subseteq G
<1> DEFINE Bad == Nat \ G
<1> SUFFICES ASSUME Bad # {} PROVE FALSE
  OBVIOUS
<1>1. PICK x \in Bad : \A y \in Bad : ~ (<<y, x>> \in OpToRel(<, Nat))
  <2>1. IsWellFoundedOn(OpToRel(<, Nat), Nat)
    BY NatLessThanWellFounded
  <2>2. Bad \subseteq Nat
    OBVIOUS
  <2> HIDE DEF Bad
  <2> QED BY <2>1, <2>2, WFMin
<1>2. x \in Nat /\ x # 0
  OBVIOUS
<1>3. x - 1 \in Nat /\ x - 1 < x
  BY <1>2
<1>4. x - 1 \in G
  BY <1>1, <1>2, <1>3 DEF OpToRel
<1> QED BY <1>2, <1>3, <1>4

(***************************************************************************)
(* The item tree.                                                          *)
(***************************************************************************)

(* What a request carries from one step to the next.                        *)
TreeSound(r) ==
    /\ r.stage # "idle" => r.item \in Items
    /\ r.stage = "reparent" =>
          /\ r.to \in Items \union {NoItem} /\ r.from \in Items \union {NoItem}
          /\ r.to # NoItem => ValidParent(r.saw[1], r.saw[2])
    /\ r.stage = "doomed" => r.kids = {}
    /\ r.stage = "create" => r.to \in Items \union {NoItem} /\ r.level \in Levels
    /\ r.stage = "print" => r.level \in Levels
    /\ r.stage = "convert" =>
          /\ r.level \in Levels
          /\ PlanAllows(r.plan, r.level)
          /\ ~ r.detach => ~ Detaches(r.plan, r.level)
    /\ r.stage \in {"listed", "read", "found"} => r.key \in Keys
    /\ r.stage = "found" =>
          /\ r.to \in (Items \union {NoItem}) \ {r.item}
          /\ r.act = "home" => r.row.setBy # "user"

Requests == DOMAIN call = TreeCalls /\ \A c \in TreeCalls : TreeSound(call[c])

(* A request that may put a row in the table.                               *)
Brings(r) == r.stage \in {"create", "attach", "listed", "read", "found"}

Removes(r) == r.stage \in {"delete", "delete_row"} /\ r.removed

(* An id about to be created is nobody else's, but for a clean-up that is   *)
(* going to find nothing.                                                   *)
NewIds ==
    \A c \in TreeCalls : call[c].stage = "create" =>
       /\ ~ item[call[c].item].here
       /\ call[c].item \notin file \union buried
       /\ \A d \in TreeCalls \ {c} :
             call[d].stage \in {"idle", "prune"} \/ call[d].item # call[c].item

(* Nothing that could bring back a deleted item is left.                    *)
Gone ==
    \A i \in buried \ excused :
       /\ ~ item[i].here
       /\ i \notin file
       /\ \A c \in TreeCalls : Brings(call[c]) => call[c].item # i

(* The file that a delete removed stays away, unless it was attached again. *)
Removed ==
    \A c \in TreeCalls : Removes(call[c]) => call[c].item \notin file \/ call[c].item \in excused

TreeInv == TreeTypeOK /\ LevelRule /\ Requests /\ NewIds /\ Gone /\ Removed

(* A request that may take the place of the one c stands at.                *)
Welcome(c, r) ==
    /\ TreeSound(r)
    /\ r.stage = "create" =>
          /\ ~ item[r.item].here
          /\ r.item \notin file \union buried
          /\ \A d \in TreeCalls \ {c} :
                call[d].stage \in {"idle", "prune"} \/ call[d].item # r.item
    /\ r.stage \notin {"idle", "prune"} =>
          \A d \in TreeCalls \ {c} : call[d].stage = "create" => call[d].item # r.item
    /\ Brings(r) => r.item \notin buried \ excused
    /\ Removes(r) => r.item \notin file \/ r.item \in excused

LEMMA CallMoves ==
    ASSUME TreeInv, NEW c \in TreeCalls, NEW r, call' = [call EXCEPT ![c] = r]
    PROVE  /\ call'[c] = r /\ DOMAIN call' = TreeCalls
           /\ \A d \in TreeCalls \ {c} : call'[d] = call[d]
BY DEF TreeInv, Requests

(* A step that only moves its request.                                      *)
LEMMA QuietStep ==
    ASSUME TreeInv, NEW c \in TreeCalls, NEW r, call' = [call EXCEPT ![c] = r],
           Welcome(c, r), asked' \in 0..MaxTreeCalls,
           UNCHANGED <<item, file, skewed, buried, excused>>
    PROVE  TreeInv'
<1>1. /\ call'[c] = r /\ DOMAIN call' = TreeCalls
      /\ \A d \in TreeCalls \ {c} : call'[d] = call[d]
  BY CallMoves
<1>2. TreeSound(r)
  BY DEF Welcome
<1>3. Requests'
  <2>1. \A d \in TreeCalls : TreeSound(call'[d])
    BY <1>1, <1>2 DEF TreeInv, Requests
  <2> QED BY <1>1, <2>1 DEF Requests, TreeSound
<1>4. TreeTypeOK'
  BY <1>1, <1>2 DEF TreeInv, TreeTypeOK, TreeSound
<1>5. LevelRule'
  BY DEF TreeInv, LevelRule
<1>6. NewIds'
  BY <1>1 DEF TreeInv, NewIds, Welcome
<1>7. Gone'
  BY <1>1 DEF TreeInv, Gone, Welcome, Brings
<1>8. Removed'
  BY <1>1 DEF TreeInv, Removed, Welcome, Removes
<1> QED BY <1>3, <1>4, <1>5, <1>6, <1>7, <1>8 DEF TreeInv

(* The rows stay what they are.                                             *)
Table(T) ==
    /\ T \in [Items -> Rows]
    /\ \A i \in Items : T[i].parent # NoItem => T[i].here /\ T[T[i].parent].here

(* A step that moves rows and ends its request, or goes on to a clean-up.   *)
LEMMA RowStep ==
    ASSUME TreeInv, NEW c \in TreeCalls, NEW r, call' = [call EXCEPT ![c] = r],
           TreeSound(r), r.stage \in {"idle", "prune"},
           Table(item'), skewed' \subseteq Items, LevelRule',
           \A i \in Items : item'[i].here /\ ~ item[i].here => Brings(call[c]) /\ call[c].item = i,
           UNCHANGED <<asked, file, buried, excused>>
    PROVE  TreeInv'
<1>1. /\ call'[c] = r /\ DOMAIN call' = TreeCalls
      /\ \A d \in TreeCalls \ {c} : call'[d] = call[d]
  BY CallMoves
<1>2. Requests'
  <2>1. \A d \in TreeCalls : TreeSound(call'[d])
    BY <1>1 DEF TreeInv, Requests
  <2> QED BY <1>1, <2>1 DEF Requests, TreeSound
<1>3. TreeTypeOK'
  BY <1>1 DEF TreeInv, TreeTypeOK, TreeSound, Table
<1>4. NewIds'
  <2> SUFFICES ASSUME NEW d \in TreeCalls, call'[d].stage = "create"
               PROVE  /\ ~ item'[call'[d].item].here
                      /\ call'[d].item \notin file' \union buried'
                      /\ \A e \in TreeCalls \ {d} :
                            call'[e].stage \in {"idle", "prune"} \/ call'[e].item # call'[d].item
    BY DEF NewIds
  <2>1. d # c /\ call'[d] = call[d] /\ call[d].item \in Items
    BY <1>1 DEF TreeInv, Requests, TreeSound
  <2>2. /\ ~ item[call[d].item].here
        /\ call[d].item \notin file \union buried
        /\ \A e \in TreeCalls \ {d} : call[e].stage \in {"idle", "prune"} \/ call[e].item # call[d].item
    BY <2>1 DEF TreeInv, NewIds
  <2>3. ~ item'[call[d].item].here
    BY <2>1, <2>2 DEF Brings
  <2> QED BY <1>1, <2>1, <2>2, <2>3
<1>5. Gone'
  <2> SUFFICES ASSUME NEW i \in buried \ excused
               PROVE  /\ ~ item'[i].here
                      /\ i \notin file'
                      /\ \A d \in TreeCalls : Brings(call'[d]) => call'[d].item # i
    BY DEF Gone, Brings
  <2>1. i \in Items
    BY DEF TreeInv, TreeTypeOK
  <2>2. ~ item[i].here /\ i \notin file /\ \A d \in TreeCalls : Brings(call[d]) => call[d].item # i
    BY DEF TreeInv, Gone
  <2>3. ~ Brings(r)
    BY DEF Brings
  <2> QED BY <1>1, <2>1, <2>2, <2>3
<1>6. Removed'
  <2>1. ~ Removes(r)
    BY DEF Removes
  <2> QED BY <1>1, <2>1 DEF TreeInv, Removed, Removes
<1> QED BY <1>2, <1>3, <1>4, <1>5, <1>6 DEF TreeInv

(* A request that ends changes nothing else.                                *)
LEMMA IdleIsWelcome ==
    ASSUME NEW c \in TreeCalls PROVE Welcome(c, Idle)
BY DEF Welcome, Idle, TreeSound, Brings, Removes

LEMMA EndStep ==
    ASSUME TreeInv, NEW c \in TreeCalls, Done(c), UNCHANGED <<item, file, skewed, buried, excused>>
    PROVE  TreeInv'
<1>1. call' = [call EXCEPT ![c] = Idle] /\ asked' \in 0..MaxTreeCalls
  BY DEF Done, Go, TreeInv, TreeTypeOK
<1> QED BY <1>1, IdleIsWelcome, QuietStep

(* Nobody creates or brings back an item that is there.                     *)
LEMMA HereIsFree ==
    ASSUME TreeInv, NEW i \in Items, item[i].here
    PROVE  /\ \A d \in TreeCalls : call[d].stage = "create" => call[d].item # i
           /\ i \notin buried \ excused
BY DEF TreeInv, NewIds, Gone

(* Nor one that another request has in hand.                                *)
LEMMA HandIsFree ==
    ASSUME TreeInv, NEW c \in TreeCalls, call[c].stage \notin {"idle", "prune"}
    PROVE  /\ \A d \in TreeCalls \ {c} : call[d].stage = "create" => call[d].item # call[c].item
           /\ Brings(call[c]) => call[c].item \notin buried \ excused
           /\ call[c].item \in Items
BY DEF TreeInv, NewIds, Gone, Requests, TreeSound

LEMMA AskCounts ==
    ASSUME TreeInv, NEW c \in TreeCalls, NEW r, Ask(c, r)
    PROVE  asked' \in 0..MaxTreeCalls /\ call' = [call EXCEPT ![c] = r]
BY ItemTreeAssumption DEF Ask, TreeInv, TreeTypeOK

LEMMA GoCounts ==
    ASSUME TreeInv, NEW c \in TreeCalls, NEW r, Go(c, r)
    PROVE  asked' \in 0..MaxTreeCalls /\ call' = [call EXCEPT ![c] = r]
BY DEF Go, TreeInv, TreeTypeOK

-------------------------------------------------------------------------------
LEMMA ReparentReadKeeps ==
    ASSUME TreeInv, NEW c \in TreeCalls, ReparentRead(c)
    PROVE  TreeInv'
<1>1. PICK i \in {j \in Items : item[j].here}, p \in {j \in Items : item[j].here} \union {NoItem} :
          /\ p # NoItem => MayParent(i, p)
          /\ Ask(c, [stage |-> "reparent", item |-> i, to |-> p, from |-> item[i].parent,
                     saw |-> <<item[i].level, IF p = NoItem THEN item[i].level - 1 ELSE item[p].level>>])
          /\ UNCHANGED <<item, file, skewed, buried, excused>>
  BY DEF ReparentRead
<1> DEFINE above == IF p = NoItem THEN item[i].level - 1 ELSE item[p].level
           r == [stage |-> "reparent", item |-> i, to |-> p, from |-> item[i].parent,
                 saw |-> <<item[i].level, above>>]
<1>2. item[i].parent \in Items \union {NoItem}
  BY DEF TreeInv, TreeTypeOK, Rows
<1>3. p # NoItem => ValidParent(r.saw[1], r.saw[2])
  BY <1>1 DEF MayParent
<1>4. TreeSound(r)
  BY <1>2, <1>3 DEF TreeSound
<1>5. Welcome(c, r)
  BY <1>4, HereIsFree DEF Welcome, Brings, Removes
<1>6. asked' \in 0..MaxTreeCalls /\ call' = [call EXCEPT ![c] = r]
  BY <1>1, AskCounts
<1> HIDE DEF r
<1> QED BY <1>1, <1>5, <1>6, QuietStep

LEMMA PruneReadKeeps ==
    ASSUME TreeInv, NEW c \in TreeCalls, PruneRead(c)
    PROVE  TreeInv'
<1> DEFINE g == call[c].item
           r == [stage |-> "search", item |-> g]
<1>1. UNCHANGED <<item, file, skewed, buried, excused>> /\ g \in Items
  BY DEF PruneRead, TreeInv, Requests, TreeSound
<1>2. CASE item[g].here /\ Go(c, r)
  <2>1. Welcome(c, r)
    BY <1>1, <1>2, HereIsFree DEF Welcome, TreeSound, Brings, Removes
  <2> QED BY <1>1, <1>2, <2>1, GoCounts, QuietStep
<1>3. CASE Done(c)
  BY <1>1, <1>3, EndStep
<1> QED BY <1>2, <1>3 DEF PruneRead

LEMMA PruneSearchKeeps ==
    ASSUME TreeInv, NEW c \in TreeCalls, PruneSearch(c)
    PROVE  TreeInv'
<1> DEFINE g == call[c].item
           r == [stage |-> "doomed", item |-> g, kids |-> Children(g)]
<1>1. UNCHANGED <<item, file, skewed, buried, excused>> /\ g \in Items
  BY DEF PruneSearch, TreeInv, Requests, TreeSound
<1>2. CASE item[g].here /\ Unreferenced(g) /\ Go(c, r)
  <2>1. Welcome(c, r)
    BY <1>1, <1>2, HereIsFree DEF Welcome, TreeSound, Brings, Removes, Unreferenced
  <2> QED BY <1>1, <1>2, <2>1, GoCounts, QuietStep
<1>3. CASE Done(c)
  BY <1>1, <1>3, EndStep
<1> QED BY <1>2, <1>3 DEF PruneSearch

LEMMA CreateReadKeeps ==
    ASSUME TreeInv, NEW c \in TreeCalls, CreateRead(c)
    PROVE  TreeInv'
<1>1. PICK x \in {j \in Items : Fresh(j)}, l \in Levels,
           p \in {j \in Items : item[j].here} \union {NoItem} :
          /\ Ask(c, [stage |-> "create", item |-> x, to |-> p, level |-> l])
          /\ UNCHANGED <<item, file, skewed, buried, excused>>
  BY DEF CreateRead
<1> DEFINE r == [stage |-> "create", item |-> x, to |-> p, level |-> l]
<1>2. \A d \in TreeCalls : call[d].stage # "idle" => call[d].item # x
  BY DEF Fresh, Idle
<1>3. ~ item[x].here /\ x \notin file \union buried
  BY DEF Fresh
<1>4. Welcome(c, r)
  BY <1>2, <1>3 DEF Welcome, TreeSound, Brings, Removes
<1>5. asked' \in 0..MaxTreeCalls /\ call' = [call EXCEPT ![c] = r]
  BY <1>1, AskCounts
<1> HIDE DEF r
<1> QED BY <1>1, <1>4, <1>5, QuietStep

LEMMA ConvertPrintKeeps ==
    ASSUME TreeInv, NEW c \in TreeCalls, ConvertPrint(c)
    PROVE  TreeInv'
<1>1. PICK i \in {j \in Items : item[j].here}, to \in Levels :
          /\ Ask(c, [stage |-> "print", item |-> i, level |-> to, print |-> View(i)])
          /\ UNCHANGED <<item, file, skewed, buried, excused>>
  BY DEF ConvertPrint
<1> DEFINE r == [stage |-> "print", item |-> i, level |-> to, print |-> View(i)]
<1>2. Welcome(c, r)
  BY HereIsFree DEF Welcome, TreeSound, Brings, Removes
<1>3. asked' \in 0..MaxTreeCalls /\ call' = [call EXCEPT ![c] = r]
  BY <1>1, AskCounts
<1> HIDE DEF r
<1> QED BY <1>1, <1>2, <1>3, QuietStep

LEMMA ConvertPlanKeeps ==
    ASSUME TreeInv, NEW c \in TreeCalls, ConvertPlan(c)
    PROVE  TreeInv'
<1> DEFINE i == call[c].item
           to == call[c].level
           r == [stage |-> "convert", item |-> i, level |-> to, print |-> call[c].print,
                 plan |-> View(i), detach |-> Detaches(View(i), to)]
<1>1. /\ UNCHANGED <<item, file, skewed, buried, excused>>
      /\ call[c].stage = "print" /\ i \in Items /\ to \in Levels
  BY DEF ConvertPlan, TreeInv, Requests, TreeSound
<1>2. CASE item[i].here /\ PlanAllows(View(i), to) /\ Go(c, r)
  <2>1. ~ r.detach => ~ Detaches(View(i), to)
    OBVIOUS
  <2>2. TreeSound(r)
    BY <1>1, <1>2, <2>1 DEF TreeSound
  <2>3. Welcome(c, r)
    BY <1>1, <1>2, <2>2, HereIsFree DEF Welcome, Brings, Removes
  <2> QED BY <1>1, <1>2, <2>3, GoCounts, QuietStep
<1>3. CASE Done(c)
  BY <1>1, <1>3, EndStep
<1> QED BY <1>2, <1>3 DEF ConvertPlan

LEMMA DeleteCheckKeeps ==
    ASSUME TreeInv, NEW c \in TreeCalls, DeleteCheck(c)
    PROVE  TreeInv'
<1> DEFINE i == call[c].item
           r == [stage |-> "delete_row", item |-> i, removed |-> call[c].removed]
<1>1. UNCHANGED <<item, file, skewed, buried, excused>> /\ call[c].stage = "delete" /\ i \in Items
  BY DEF DeleteCheck, TreeInv, Requests, TreeSound
<1>2. CASE item[i].here /\ Go(c, r)
  <2>1. r.removed => i \notin file \/ i \in excused
    BY <1>1 DEF TreeInv, Removed, Removes
  <2>2. Welcome(c, r)
    BY <1>1, <1>2, <2>1, HereIsFree DEF Welcome, TreeSound, Brings, Removes
  <2> QED BY <1>1, <1>2, <2>2, GoCounts, QuietStep
<1>3. CASE Done(c)
  BY <1>1, <1>3, EndStep
<1> QED BY <1>2, <1>3 DEF DeleteCheck

LEMMA AttachReadKeeps ==
    ASSUME TreeInv, NEW c \in TreeCalls, AttachRead(c)
    PROVE  TreeInv'
<1>1. PICK i \in {j \in Items : item[j].here} :
          /\ Ask(c, [stage |-> "attach", item |-> i])
          /\ UNCHANGED <<item, file, skewed, buried, excused>>
  BY DEF AttachRead
<1> DEFINE r == [stage |-> "attach", item |-> i]
<1>2. Welcome(c, r)
  BY HereIsFree DEF Welcome, TreeSound, Brings, Removes
<1>3. asked' \in 0..MaxTreeCalls /\ call' = [call EXCEPT ![c] = r]
  BY <1>1, AskCounts
<1> HIDE DEF r
<1> QED BY <1>1, <1>2, <1>3, QuietStep

LEMMA SyncListKeeps ==
    ASSUME TreeInv, NEW c \in TreeCalls, SyncList(c)
    PROVE  TreeInv'
<1>1. PICK i \in file, k \in Keys :
          /\ Ask(c, Listed(i, k))
          /\ UNCHANGED <<item, file, skewed, buried, excused>>
  BY DEF SyncList
<1> DEFINE r == Listed(i, k)
<1>2. i \in Items /\ i \notin buried \ excused
  BY DEF TreeInv, TreeTypeOK, Gone
<1>3. \A d \in TreeCalls : call[d].stage = "create" => call[d].item # i
  BY DEF TreeInv, NewIds
<1>4. Welcome(c, r)
  BY <1>2, <1>3 DEF Welcome, TreeSound, Brings, Removes, Listed
<1>5. asked' \in 0..MaxTreeCalls /\ call' = [call EXCEPT ![c] = r]
  BY <1>1, AskCounts
<1> HIDE DEF r
<1> QED BY <1>1, <1>4, <1>5, QuietStep

LEMMA SyncReadKeeps ==
    ASSUME TreeInv, NEW c \in TreeCalls, SyncRead(c)
    PROVE  TreeInv'
<1> DEFINE i == call[c].item
           r == [stage |-> "read", item |-> i, key |-> call[c].key, row |-> item[i]]
<1>1. /\ UNCHANGED <<item, file, skewed, buried, excused>> /\ Go(c, r)
      /\ call[c].stage = "listed" /\ i \in Items /\ call[c].key \in Keys
  BY DEF SyncRead, TreeInv, Requests, TreeSound
<1>2. Welcome(c, r)
  BY <1>1, HandIsFree DEF Welcome, TreeSound, Brings, Removes
<1> QED BY <1>1, <1>2, GoCounts, QuietStep

LEMMA SyncFindKeeps ==
    ASSUME TreeInv, NEW c \in TreeCalls, SyncFind(c)
    PROVE  TreeInv'
<1> DEFINE i == call[c].item
           row == call[c].row
           homes == Groupings(call[c].key) \ {i}
           r(g) == [stage |-> "found", item |-> i, key |-> call[c].key, row |-> row,
                    to |-> g, act |-> DecideReparent(row, call[c].key)]
<1>1. /\ UNCHANGED <<item, file, skewed, buried, excused>>
      /\ call[c].stage = "read" /\ i \in Items /\ call[c].key \in Keys
  BY DEF SyncFind, TreeInv, Requests, TreeSound
<1>2. CASE Done(c)
  BY <1>1, <1>2, EndStep
<1>3. CASE \E g \in IF homes = {} THEN {NoItem} ELSE homes : Go(c, r(g))
  <2>1. PICK g \in IF homes = {} THEN {NoItem} ELSE homes : Go(c, r(g))
    BY <1>3
  <2>2. g \in (Items \union {NoItem}) \ {i}
    BY <1>1, ItemTreeAssumption DEF Groupings
  <2>3. DecideReparent(row, call[c].key) = "home" => row.setBy # "user"
    BY DEF DecideReparent
  <2>4. TreeSound(r(g))
    BY <1>1, <2>2, <2>3 DEF TreeSound
  <2>5. Welcome(c, r(g))
    BY <1>1, <2>4, HandIsFree DEF Welcome, Brings, Removes
  <2> QED BY <1>1, <2>1, <2>5, GoCounts, QuietStep
<1> QED BY <1>2, <1>3 DEF SyncFind

-------------------------------------------------------------------------------
LEMMA TableNow ==
    ASSUME TreeInv
    PROVE  /\ Table(item) /\ skewed \subseteq Items
           /\ \A i \in Items : item[i] \in Rows /\ item[i].level \in Int /\ item[i].here \in BOOLEAN
           /\ \A i \in Items : ~ item[i].here => item[i].parent = NoItem /\ Children(i) = {}
           /\ \A i \in Items : item[i].parent # NoItem => item[i].parent \in Items
BY ItemTreeAssumption DEF TreeInv, TreeTypeOK, Table, Rows, Levels, Children

LEMMA NoRowIsRow ==
    /\ NoRow \in Rows /\ NoRow.here = FALSE /\ NoRow.parent = NoItem
    /\ \A row \in Rows, n \in Nat : /\ [row EXCEPT !.id = n] \in Rows
                                   /\ [row EXCEPT !.id = n].here = row.here
                                   /\ [row EXCEPT !.id = n].parent = row.parent
<1>1. 0 \in Levels
  BY ItemTreeAssumption DEF Levels
<1>2. NoRow \in Rows /\ NoRow.here = FALSE /\ NoRow.parent = NoItem
  BY <1>1 DEF NoRow, Rows, Setters
<1>3. ASSUME NEW row \in Rows, NEW n \in Nat
      PROVE  /\ [row EXCEPT !.id = n] \in Rows
             /\ [row EXCEPT !.id = n].here = row.here
             /\ [row EXCEPT !.id = n].parent = row.parent
  BY DEF Rows
<1> QED BY <1>2, <1>3

(* A row that goes takes nothing with it but the parent of its children.    *)
LEMMA RemoveKeepsTable ==
    ASSUME TreeInv, NEW i \in Items, RemoveRow(i)
    PROVE  /\ Table(item')
           /\ ~ item'[i].here
           /\ \A k \in Items : item'[k].here => item[k].here
           /\ \A k \in Items \ {i} : /\ item'[k].here = item[k].here
                                     /\ item[k].parent # i => item'[k] = item[k]
           /\ skewed' = skewed => LevelRule'
<1> DEFINE gone == [NoRow EXCEPT !.id = item[i].id]
           left(k) == [item[k] EXCEPT !.parent = IF item[k].parent = i THEN NoItem ELSE item[k].parent]
<1>1. item' = [k \in Items |-> IF k = i THEN gone ELSE left(k)]
  BY DEF RemoveRow
<1>2. gone \in Rows /\ gone.here = FALSE /\ gone.parent = NoItem
  <2>1. item[i].id \in Nat
    BY TableNow DEF Rows
  <2> QED BY <2>1, NoRowIsRow
<1>3. ASSUME NEW k \in Items
      PROVE  /\ left(k) \in Rows /\ left(k).here = item[k].here /\ left(k).level = item[k].level
             /\ left(k).parent = IF item[k].parent = i THEN NoItem ELSE item[k].parent
             /\ item[k].parent # i => left(k) = item[k]
  BY TableNow DEF Rows
<1> HIDE DEF gone, left
<1>4. Table(item')
  <2>1. item' \in [Items -> Rows]
    BY <1>1, <1>2, <1>3
  <2>2. ASSUME NEW k \in Items, item'[k].parent # NoItem
        PROVE  item'[k].here /\ item'[item'[k].parent].here
    <3>1. k # i /\ item'[k] = left(k) /\ item[k].parent # i /\ item'[k].parent = item[k].parent
      BY <1>1, <1>2, <1>3, <2>2
    <3>2. item[k].here /\ item[k].parent \in Items /\ item[item[k].parent].here
      BY <2>2, <3>1, TableNow DEF Table
    <3>3. item'[item[k].parent] = left(item[k].parent)
      BY <1>1, <3>1, <3>2
    <3> QED BY <1>3, <3>1, <3>2, <3>3
  <2> QED BY <2>1, <2>2 DEF Table
<1>5. ASSUME skewed' = skewed, NEW k \in Items \ skewed, item'[k].parent # NoItem
      PROVE  ValidParent(item'[k].level, item'[item'[k].parent].level)
  <2>1. k # i /\ item'[k] = left(k) /\ item[k].parent # i /\ item'[k].parent = item[k].parent
    BY <1>1, <1>2, <1>3, <1>5
  <2>2. item[k].parent \in Items
    BY <1>5, <2>1, TableNow
  <2>3. item'[item[k].parent] = left(item[k].parent)
    BY <1>1, <2>1, <2>2
  <2>4. ValidParent(item[k].level, item[item[k].parent].level)
    BY <1>5, <2>1 DEF TreeInv, LevelRule
  <2> QED BY <1>3, <2>1, <2>2, <2>3, <2>4
<1>6. skewed' = skewed => LevelRule'
  BY <1>5 DEF LevelRule
<1> QED BY <1>1, <1>2, <1>3, <1>4, <1>6

LEMMA PruneDeleteKeeps ==
    ASSUME TreeInv, NEW c \in TreeCalls, PruneDelete(c)
    PROVE  TreeInv'
<1>1. /\ RemoveRow(call[c].item) /\ call[c].item \in Items
      /\ UNCHANGED <<asked, file, skewed, buried, excused>>
      /\ call' = [call EXCEPT ![c] = Idle]
  BY DEF PruneDelete, Done, Go, TreeInv, Requests, TreeSound
<1>2. TreeSound(Idle) /\ Idle.stage = "idle"
  BY DEF TreeSound, Idle
<1>3. Table(item') /\ LevelRule' /\ \A k \in Items : item'[k].here => item[k].here
  BY <1>1, RemoveKeepsTable
<1>4. skewed' \subseteq Items
  BY <1>1, TableNow
<1> QED BY <1>1, <1>2, <1>3, <1>4, RowStep

LEMMA ReparentWriteKeeps ==
    ASSUME TreeInv, NEW c \in TreeCalls, ReparentWrite(c)
    PROVE  TreeInv'
<1> DEFINE i == call[c].item
           p == call[c].to
           saw == call[c].saw
           row == [item[i] EXCEPT !.parent = p, !.setBy = "user"]
           r == IF call[c].from \in {NoItem, p} THEN Idle ELSE [stage |-> "prune", item |-> call[c].from]
<1>1. /\ call[c].stage = "reparent" /\ i \in Items
      /\ p \in Items \union {NoItem} /\ call[c].from \in Items \union {NoItem}
      /\ p # NoItem => ValidParent(saw[1], saw[2])
      /\ UNCHANGED <<file, buried, excused>>
  BY DEF ReparentWrite, TreeInv, Requests, TreeSound
<1>2. CASE Done(c) /\ UNCHANGED <<item, skewed>>
  BY <1>1, <1>2, EndStep
<1>3. CASE /\ item[i].here /\ (p = NoItem \/ item[p].here)
           /\ item' = [item EXCEPT ![i].parent = p, ![i].setBy = "user"]
           /\ skewed' = IF Moved(i, p, saw) THEN skewed \union {i} ELSE skewed \ {i}
           /\ Go(c, r)
  <2>1. item' = [item EXCEPT ![i] = row]
    BY <1>3
  <2>2. row \in Rows /\ row.parent = p /\ row.here = item[i].here /\ row.level = item[i].level
    BY <1>1, TableNow DEF Rows, Setters
  <2> HIDE DEF row
  <2>3. /\ item'[i] = row /\ \A k \in Items \ {i} : item'[k] = item[k]
        /\ item' \in [Items -> Rows]
    BY <1>1, <2>1, <2>2, TableNow DEF Table
  <2>4. \A k \in Items : item'[k].here = item[k].here /\ item'[k].level = item[k].level
    BY <2>2, <2>3
  <2>5. Table(item')
    <3> SUFFICES ASSUME NEW k \in Items, item'[k].parent # NoItem
                 PROVE  item'[k].here /\ item'[item'[k].parent].here
      BY <2>3 DEF Table
    <3>1. CASE k = i
      BY <1>1, <1>3, <2>2, <2>3, <2>4, <3>1
    <3>2. CASE k # i
      BY <2>3, <2>4, <3>2, TableNow DEF Table
    <3> QED BY <3>1, <3>2
  <2>6. LevelRule'
    <3> SUFFICES ASSUME NEW k \in Items \ skewed', item'[k].parent # NoItem
                 PROVE  ValidParent(item'[k].level, item'[item'[k].parent].level)
      BY DEF LevelRule
    <3>1. CASE k # i
      <4>1. k \notin skewed /\ item'[k] = item[k] /\ item[k].parent \in Items
        BY <1>3, <2>3, <3>1, TableNow
      <4>2. ValidParent(item[k].level, item[item[k].parent].level)
        BY <4>1 DEF TreeInv, LevelRule
      <4> QED BY <2>4, <4>1, <4>2
    <3>2. CASE k = i
      <4>1. item'[k].parent = p /\ p # NoItem /\ p \in Items
        BY <1>1, <2>2, <2>3, <3>2
      <4>2. saw = <<item[i].level, item[p].level>>
        BY <1>3, <3>2, <4>1 DEF Moved
      <4>3. ValidParent(item[i].level, item[p].level)
        BY <1>1, <4>1, <4>2
      <4> QED BY <1>1, <2>4, <3>2, <4>1, <4>3
    <3> QED BY <3>1, <3>2
  <2>7. skewed' \subseteq Items
    BY <1>1, <1>3, TableNow
  <2>8. TreeSound(r) /\ r.stage \in {"idle", "prune"}
    BY <1>1 DEF TreeSound, Idle
  <2>9. call' = [call EXCEPT ![c] = r] /\ UNCHANGED asked
    BY <1>3 DEF Go
  <2> HIDE DEF r
  <2> QED BY <1>1, <2>4, <2>5, <2>6, <2>7, <2>8, <2>9, RowStep
<1> QED BY <1>2, <1>3 DEF ReparentWrite

LEMMA CreateWriteKeeps ==
    ASSUME TreeInv, NEW c \in TreeCalls, CreateWrite(c)
    PROVE  TreeInv'
<1> DEFINE x == call[c].item
           p == call[c].to
           l == call[c].level
           row == [NoRow EXCEPT !.here = TRUE, !.id = item[x].id + 1, !.level = l, !.parent = p,
                                !.setBy = IF p = NoItem THEN "nobody" ELSE "user"]
<1>1. /\ call[c].stage = "create" /\ x \in Items /\ p \in Items \union {NoItem} /\ l \in Levels
      /\ ~ item[x].here
      /\ Done(c) /\ UNCHANGED <<file, buried, excused>>
  BY DEF CreateWrite, TreeInv, Requests, TreeSound, NewIds
<1>2. CASE UNCHANGED <<item, skewed>>
  BY <1>1, <1>2, EndStep
<1>3. CASE /\ p = NoItem \/ item[p].here
           /\ item' = [item EXCEPT ![x] = row]
           /\ skewed' = IF p # NoItem /\ ~ValidParent(l, item[p].level)
                        THEN skewed \union {x} ELSE skewed
  <2>1. row \in Rows /\ row.parent = p /\ row.level = l /\ row.here = TRUE
    <3>2. item[x].id + 1 \in Nat
      BY <1>1, TableNow DEF Rows
    <3>3. (IF p = NoItem THEN "nobody" ELSE "user") \in Setters
      BY DEF Setters
    <3> DEFINE id == item[x].id + 1
               who == IF p = NoItem THEN "nobody" ELSE "user"
    <3>4. NoRow \in Rows
      BY NoRowIsRow
    <3> HIDE DEF id, who
    <3> QED BY <1>1, <3>2, <3>3, <3>4 DEF Rows
  <2> HIDE DEF row
  <2>2. /\ item'[x] = row /\ \A k \in Items \ {x} : item'[k] = item[k]
        /\ item' \in [Items -> Rows]
    BY <1>1, <1>3, <2>1, TableNow DEF Table
  <2>3. \A k \in Items : item[k].parent # x
    BY <1>1, TableNow, ItemTreeAssumption DEF Table
  <2>4. Table(item')
    BY <1>1, <1>3, <2>1, <2>2, <2>3, TableNow DEF Table
  <2>5. LevelRule'
    <3> SUFFICES ASSUME NEW k \in Items \ skewed', item'[k].parent # NoItem
                 PROVE  ValidParent(item'[k].level, item'[item'[k].parent].level)
      BY DEF LevelRule
    <3>1. CASE k # x
      <4>1. k \notin skewed /\ item'[k] = item[k] /\ item[k].parent \in Items \ {x}
        BY <1>3, <2>2, <2>3, <3>1, TableNow
      <4> QED BY <2>2, <4>1 DEF TreeInv, LevelRule
    <3>2. CASE k = x
      <4>1. item'[k].parent = p /\ p # NoItem /\ p \in Items \ {x} /\ item'[k].level = l
        BY <1>1, <1>3, <2>1, <2>2, <3>2
      <4> QED BY <1>3, <2>2, <3>2, <4>1
    <3> QED BY <3>1, <3>2
  <2>6. skewed' \subseteq Items
    BY <1>1, <1>3, TableNow
  <2>7. TreeSound(Idle) /\ Idle.stage = "idle" /\ call' = [call EXCEPT ![c] = Idle] /\ UNCHANGED asked
    BY <1>1 DEF TreeSound, Idle, Done, Go
  <2>8. \A k \in Items : item'[k].here /\ ~ item[k].here => Brings(call[c]) /\ call[c].item = k
    BY <1>1, <2>2 DEF Brings
  <2> QED BY <1>1, <2>4, <2>5, <2>6, <2>7, <2>8, RowStep
<1> QED BY <1>2, <1>3 DEF CreateWrite

(* A conversion whose plan was made of what both fingerprints saw keeps the *)
(* levels around the item right.                                            *)
LEMMA ConvertWriteKeeps ==
    ASSUME TreeInv, NEW c \in TreeCalls, ConvertWrite(c)
    PROVE  TreeInv'
<1> DEFINE i == call[c].item
           to == call[c].level
           near == {i} \union Children(i)
           row == IF call[c].detach
                  THEN [item[i] EXCEPT !.level = to, !.parent = NoItem, !.setBy = "nobody"]
                  ELSE [item[i] EXCEPT !.level = to]
<1>1. /\ call[c].stage = "convert" /\ i \in Items /\ to \in Levels
      /\ PlanAllows(call[c].plan, to)
      /\ ~ call[c].detach => ~ Detaches(call[c].plan, to)
      /\ Done(c) /\ UNCHANGED <<file, buried, excused>>
  BY DEF ConvertWrite, TreeInv, Requests, TreeSound
<1>2. CASE UNCHANGED <<item, skewed>>
  BY <1>1, <1>2, EndStep
<1>3. CASE /\ item[i].here /\ SamePrint(i, call[c].print)
           /\ item' = [item EXCEPT ![i] = row]
           /\ skewed' = IF call[c].plan = call[c].print THEN skewed \ near ELSE skewed \union near
  <2>1. /\ row \in Rows /\ row.here = item[i].here /\ row.level = to
        /\ row.parent = item[i].parent \/ row.parent = NoItem
        /\ ~ call[c].detach => row.parent = item[i].parent
        /\ call[c].detach => row.parent = NoItem
    <3> DEFINE off == [item[i] EXCEPT !.level = to, !.parent = NoItem, !.setBy = "nobody"]
               kept == [item[i] EXCEPT !.level = to]
    <3>1. /\ off \in Rows /\ off.here = item[i].here /\ off.level = to /\ off.parent = NoItem
          /\ kept \in Rows /\ kept.here = item[i].here /\ kept.level = to
          /\ kept.parent = item[i].parent
      BY <1>1, TableNow DEF Rows, Setters
    <3>2. /\ call[c].detach => row = off
          /\ ~ call[c].detach => row = kept
      BY Zenon
    <3> HIDE DEF off, kept, row
    <3>3. CASE call[c].detach
      BY <3>1, <3>2, <3>3
    <3>4. CASE ~ call[c].detach
      BY <3>1, <3>2, <3>4
    <3> QED BY <3>3, <3>4
  <2> HIDE DEF row
  <2>2. /\ item'[i] = row /\ \A k \in Items \ {i} : item'[k] = item[k]
        /\ item' \in [Items -> Rows]
    BY <1>1, <1>3, <2>1, TableNow DEF Table
  <2>3. \A k \in Items : /\ item'[k].here = item[k].here
                         /\ item'[k].parent \in {item[k].parent, NoItem}
    BY <2>1, <2>2
  <2>4. Table(item')
    <3> SUFFICES ASSUME NEW k \in Items, item'[k].parent # NoItem
                 PROVE  item'[k].here /\ item'[item'[k].parent].here
      BY <2>2 DEF Table
    <3>1. item'[k].parent = item[k].parent /\ item[k].parent \in Items
      BY <2>3, TableNow
    <3> QED BY <2>3, <3>1, TableNow DEF Table
  <2>5. LevelRule'
    <3> SUFFICES ASSUME NEW k \in Items \ skewed', item'[k].parent # NoItem
                 PROVE  ValidParent(item'[k].level, item'[item'[k].parent].level)
      BY DEF LevelRule
    <3>1. item'[k].parent = item[k].parent /\ item[k].parent \in Items /\ item[k].parent # NoItem
      BY <2>3, TableNow
    <3>2. CASE k \notin near
      <4>1. k # i /\ item[k].here
        BY <3>1, <3>2, TableNow
      <4>2. k \notin skewed /\ item[k].parent # i
        BY <1>3, <3>1, <3>2, <4>1 DEF Children
      <4>3. ValidParent(item[k].level, item[item[k].parent].level)
        BY <3>1, <4>2 DEF TreeInv, LevelRule
      <4> QED BY <2>2, <3>1, <4>1, <4>2, <4>3
    <3>3. CASE k \in near
      <4>1. call[c].plan = call[c].print
        BY <1>3, <3>3
      <4>2. call[c].plan = View(i)
        BY <1>3, <4>1 DEF SamePrint
      <4>3. \A j \in Children(i) : ValidParent(item[j].level, to)
        <5>1. \A j \in View(i).kids : ValidParent(j[2], to)
          BY <1>1, <4>2 DEF PlanAllows
        <5>2. View(i).kids = {<<j, item[j].level>> : j \in Children(i)}
          BY DEF View
        <5>3. ASSUME NEW j \in Children(i) PROVE ValidParent(item[j].level, to)
          <6>1. <<j, item[j].level>> \in View(i).kids
            BY <5>2
          <6>2. ValidParent(<<j, item[j].level>>[2], to)
            BY <5>1, <6>1, Zenon
          <6> QED BY <6>2
        <5> QED BY <5>3
      <4>4. CASE k # i
        <5>1. k \in Children(i) /\ item[k].parent = i
          BY <3>3, <4>4 DEF Children
        <5> QED BY <1>1, <2>1, <2>2, <3>1, <4>3, <4>4, <5>1
      <4>5. CASE k = i
        <5>1. ~ call[c].detach
          BY <2>1, <2>2, <3>1, <4>5
        <5>2. ~ Detaches(View(i), to)
          BY <1>1, <4>2, <5>1
        <5>3. View(i).over = {item[q].level : q \in {item[i].parent} \ {NoItem}}
          BY DEF View
        <5>4. ValidParent(to, item[item[i].parent].level)
          BY <3>1, <4>5, <5>2, <5>3 DEF Detaches
        <5>5. item[i].parent # i
          <6> SUFFICES ASSUME item[i].parent = i PROVE FALSE
            OBVIOUS
          <6>1. ValidParent(item[i].level, to)
            BY <1>1, <1>3, <4>3 DEF Children
          <6> QED BY <1>1, <5>4, <6>1, TableNow, ItemTreeAssumption DEF ValidParent, Levels
        <5> QED BY <2>1, <2>2, <3>1, <4>5, <5>4, <5>5
      <4> QED BY <4>4, <4>5
    <3> QED BY <3>2, <3>3
  <2>6. skewed' \subseteq Items
    BY <1>1, <1>3, TableNow DEF Children
  <2>7. TreeSound(Idle) /\ Idle.stage = "idle" /\ call' = [call EXCEPT ![c] = Idle] /\ UNCHANGED asked
    BY <1>1 DEF TreeSound, Idle, Done, Go
  <2> QED BY <1>1, <2>3, <2>4, <2>5, <2>6, <2>7, RowStep
<1> QED BY <1>2, <1>3 DEF ConvertWrite

(* A sync homes under a grouping one level up, and lowers nothing silently. *)
LEMMA SyncCommitKeeps ==
    ASSUME TreeInv, NEW c \in TreeCalls, SyncCommit(c)
    PROVE  TreeInv'
<1> DEFINE i == call[c].item
           g == call[c].to
           k == call[c].key
           act == call[c].act
           homed == act = "home" /\ g # NoItem
           row == Synced(i, k, g, act)
<1>1. /\ call[c].stage = "found" /\ i \in Items /\ k \in Keys
      /\ g \in (Items \union {NoItem}) \ {i}
      /\ Done(c) /\ UNCHANGED <<file, buried, excused>>
  BY DEF SyncCommit, TreeInv, Requests, TreeSound
<1>2. CASE UNCHANGED <<item, skewed>>
  BY <1>1, <1>2, EndStep
<1>3. CASE /\ homed => item[g].here
           /\ item' = [item EXCEPT ![i] = row]
           /\ skewed' = IF homed /\ item[g].level # Leaf - 1
                        THEN skewed \union Lowered(i) \union {i}
                        ELSE (skewed \union Lowered(i)) \ (IF homed THEN {i} ELSE {})
  <2>1. /\ row \in Rows /\ row.here = TRUE /\ row.level = Leaf
        /\ row.parent = IF homed THEN g ELSE item[i].parent
    <3> DEFINE born == [NoRow EXCEPT !.here = TRUE, !.id = item[i].id + 1]
               now == IF item[i].here THEN item[i] ELSE born
               leaf == [now EXCEPT !.level = Leaf, !.spec = TRUE]
    <3>1. born \in Rows /\ born.here = TRUE /\ born.parent = NoItem
      <4>1. item[i].id + 1 \in Nat
        BY <1>1, TableNow DEF Rows
      <4> QED BY <4>1, NoRowIsRow DEF Rows
    <3> HIDE DEF born
    <3>2. now \in Rows /\ now.here = TRUE /\ now.parent = item[i].parent
      BY <1>1, <3>1, TableNow
    <3> HIDE DEF now
    <3>3. /\ leaf \in Rows /\ leaf.here = TRUE /\ leaf.parent = item[i].parent /\ leaf.level = Leaf
      <4>1. Leaf \in Levels
        BY ItemTreeAssumption DEF Levels
      <4> QED BY <3>2, <4>1 DEF Rows
    <3>4. row = CASE homed -> [leaf EXCEPT !.parent = g, !.setBy = "system", !.synced = k]
                  [] act = "noop" -> leaf
                  [] OTHER -> [leaf EXCEPT !.synced = k]
      BY Zenon DEF Synced, now, born
    <3> HIDE DEF leaf, row
    <3>5. CASE homed
      <4>1. row = [leaf EXCEPT !.parent = g, !.setBy = "system", !.synced = k]
        BY <3>4, <3>5
      <4> QED BY <1>1, <3>3, <3>5, <4>1 DEF Rows, Setters
    <3>6. CASE ~ homed
      <4>1. row = leaf \/ row = [leaf EXCEPT !.synced = k]
        BY <3>4, <3>6
      <4> QED BY <1>1, <3>3, <3>6, <4>1 DEF Rows
    <3> QED BY <3>5, <3>6
  <2> HIDE DEF row
  <2>2. /\ item'[i] = row /\ \A j \in Items \ {i} : item'[j] = item[j]
        /\ item' \in [Items -> Rows]
    BY <1>1, <1>3, <2>1, TableNow DEF Table
  <2>3. Table(item')
    <3> SUFFICES ASSUME NEW j \in Items, item'[j].parent # NoItem
                 PROVE  item'[j].here /\ item'[item'[j].parent].here
      BY <2>2 DEF Table
    <3>1. \A q \in Items : item[q].here => item'[q].here
      BY <2>1, <2>2
    <3>2. CASE item'[j].parent = item[j].parent
      BY <3>1, <3>2, TableNow DEF Table
    <3>3. CASE j = i /\ homed /\ item'[j].parent = g
      BY <1>1, <1>3, <2>1, <2>2, <3>1, <3>3
    <3> QED BY <2>1, <2>2, <3>2, <3>3
  <2>4. LevelRule'
    <3> SUFFICES ASSUME NEW j \in Items \ skewed', item'[j].parent # NoItem
                 PROVE  ValidParent(item'[j].level, item'[item'[j].parent].level)
      BY DEF LevelRule
    <3>1. CASE j = i /\ homed
      <4>1. item[g].level = Leaf - 1 /\ item'[j].parent = g /\ g \in Items \ {i}
        BY <1>1, <1>3, <2>1, <2>2, <3>1
      <4>2. item'[g] = item[g] /\ item'[j].level = Leaf
        BY <2>1, <2>2, <3>1, <4>1
      <4> QED BY <4>1, <4>2, ItemTreeAssumption DEF ValidParent
    <3>2. CASE ~ (j = i /\ homed)
      <4>1. j \notin skewed /\ j \notin Lowered(i)
        BY <1>3, <3>2
      <4>2. item'[j].parent = item[j].parent /\ item[j].parent \in Items /\ item[j].parent # NoItem
        BY <2>1, <2>2, <3>2, TableNow
      <4>3. ValidParent(item[j].level, item[item[j].parent].level)
        BY <4>1, <4>2 DEF TreeInv, LevelRule
      <4>4. item[j].here /\ item[item[j].parent].here
        BY <4>2, TableNow DEF Table
      <4>5. j = i \/ item[j].parent = i => item[i].level = Leaf
        BY <4>1, <4>4 DEF Lowered, Children
      <4>6. item'[j].level = item[j].level
        BY <2>1, <2>2, <4>5
      <4>7. item'[item[j].parent].level = item[item[j].parent].level
        BY <2>1, <2>2, <4>2, <4>5
      <4> QED BY <4>2, <4>3, <4>6, <4>7
    <3> QED BY <3>1, <3>2
  <2>5. skewed' \subseteq Items
    BY <1>1, <1>3, TableNow DEF Lowered, Children
  <2>6. TreeSound(Idle) /\ Idle.stage = "idle" /\ call' = [call EXCEPT ![c] = Idle] /\ UNCHANGED asked
    BY <1>1 DEF TreeSound, Idle, Done, Go
  <2>7. \A j \in Items : item'[j].here /\ ~ item[j].here => Brings(call[c]) /\ call[c].item = j
    BY <1>1, <2>2 DEF Brings
  <2> QED BY <1>1, <2>3, <2>4, <2>5, <2>6, <2>7, RowStep
<1> QED BY <1>2, <1>3 DEF SyncCommit

(* The file goes first.                                                     *)
LEMMA DeleteReadKeeps ==
    ASSUME TreeInv, NEW c \in TreeCalls, DeleteRead(c)
    PROVE  TreeInv'
<1>1. PICK i \in {j \in Items : item[j].here} :
          /\ item[i].spec => i \in file
          /\ Ask(c, [stage |-> "delete", item |-> i, removed |-> item[i].spec])
          /\ file' = IF item[i].spec THEN WithoutFile(i) ELSE file
          /\ UNCHANGED <<item, skewed, buried, excused>>
  BY DEF DeleteRead
<1> DEFINE r == [stage |-> "delete", item |-> i, removed |-> item[i].spec]
<1>2. asked' \in 0..MaxTreeCalls /\ call' = [call EXCEPT ![c] = r]
  BY <1>1, AskCounts
<1>3. r.stage = "delete" /\ r.item = i /\ TreeSound(r)
  BY DEF TreeSound
<1>4. r.removed => i \notin file'
  BY <1>1 DEF WithoutFile
<1> HIDE DEF r
<1>5. /\ call'[c] = r /\ DOMAIN call' = TreeCalls
      /\ \A d \in TreeCalls \ {c} : call'[d] = call[d]
  BY <1>2, CallMoves
<1>6. file' \subseteq file
  BY <1>1 DEF WithoutFile
<1>7. Requests'
  <2>1. \A d \in TreeCalls : TreeSound(call'[d])
    BY <1>3, <1>5 DEF TreeInv, Requests
  <2> QED BY <1>5, <2>1 DEF Requests, TreeSound
<1>8. TreeTypeOK' /\ LevelRule'
  BY <1>1, <1>2, <1>3, <1>5, <1>6 DEF TreeInv, TreeTypeOK, TreeSound, LevelRule
<1>9. NewIds'
  BY <1>1, <1>3, <1>5, <1>6, HereIsFree DEF TreeInv, NewIds
<1>10. Gone'
  BY <1>1, <1>3, <1>5, <1>6 DEF TreeInv, Gone, Brings
<1>11. Removed'
  BY <1>1, <1>3, <1>4, <1>5, <1>6 DEF TreeInv, Removed, Removes
<1> QED BY <1>7, <1>8, <1>9, <1>10, <1>11 DEF TreeInv

(* The row goes: what still held its file is an excuse.                     *)
LEMMA DeleteRowKeeps ==
    ASSUME TreeInv, NEW c \in TreeCalls, DeleteRow(c)
    PROVE  TreeInv'
<1> DEFINE i == call[c].item
<1>1. /\ call[c].stage = "delete_row" /\ i \in Items
      /\ RemoveRow(i) /\ Done(c) /\ UNCHANGED <<file, skewed>>
      /\ buried' = IF item[i].here THEN buried \union {i} ELSE buried
      /\ excused' = IF item[i].here /\ StillHeld(i, call[c].removed) THEN excused \union {i} ELSE excused
  BY DEF DeleteRow, TreeInv, Requests, TreeSound
<1>2. /\ Table(item') /\ LevelRule' /\ ~ item'[i].here
      /\ \A k \in Items : item'[k].here => item[k].here
  BY <1>1, RemoveKeepsTable
<1>3. call' = [call EXCEPT ![c] = Idle] /\ asked' \in 0..MaxTreeCalls
  BY <1>1 DEF Done, Go, TreeInv, TreeTypeOK
<1>4. /\ call'[c] = Idle /\ DOMAIN call' = TreeCalls
      /\ \A d \in TreeCalls \ {c} : call'[d] = call[d]
  BY <1>3, CallMoves
<1>5. TreeSound(Idle) /\ Idle.stage = "idle" /\ ~ Brings(Idle) /\ ~ Removes(Idle)
  BY DEF TreeSound, Idle, Brings, Removes
<1>6. Requests'
  <2>1. \A d \in TreeCalls : TreeSound(call'[d])
    BY <1>4, <1>5 DEF TreeInv, Requests
  <2> QED BY <1>4, <2>1 DEF Requests, TreeSound
<1>7. TreeTypeOK'
  <2>1. skewed' \subseteq Items /\ buried' \subseteq Items /\ excused' \subseteq Items
    BY <1>1 DEF TreeInv, TreeTypeOK
  <2>2. \A d \in TreeCalls : call'[d].stage # "idle" => call'[d].item \in Items
    BY <1>4, <1>5 DEF TreeInv, TreeTypeOK
  <2>3. file' \subseteq Items
    BY <1>1 DEF TreeInv, TreeTypeOK
  <2> QED BY <1>2, <1>3, <2>1, <2>2, <2>3 DEF TreeTypeOK, Table
<1>8. NewIds'
  <2> SUFFICES ASSUME NEW d \in TreeCalls, call'[d].stage = "create"
               PROVE  /\ ~ item'[call'[d].item].here
                      /\ call'[d].item \notin file' \union buried'
                      /\ \A e \in TreeCalls \ {d} :
                            call'[e].stage \in {"idle", "prune"} \/ call'[e].item # call'[d].item
    BY DEF NewIds
  <2>1. d # c /\ call'[d] = call[d] /\ call[d].item \in Items
    BY <1>4, <1>5 DEF TreeInv, Requests, TreeSound
  <2>2. /\ ~ item[call[d].item].here
        /\ call[d].item \notin file \union buried
        /\ \A e \in TreeCalls \ {d} : call[e].stage \in {"idle", "prune"} \/ call[e].item # call[d].item
    BY <2>1 DEF TreeInv, NewIds
  <2>3. call[d].item # i
    BY <1>1, <2>1, <2>2
  <2> QED BY <1>1, <1>2, <1>4, <1>5, <2>1, <2>2, <2>3
<1>9. Gone'
  <2> SUFFICES ASSUME NEW j \in buried' \ excused'
               PROVE  /\ ~ item'[j].here
                      /\ j \notin file'
                      /\ \A d \in TreeCalls : Brings(call'[d]) => call'[d].item # j
    BY DEF Gone, Brings
  <2>1. CASE j \in buried \ excused
    <3>1. j \in Items /\ ~ item[j].here /\ j \notin file
          /\ \A d \in TreeCalls : Brings(call[d]) => call[d].item # j
      BY <2>1 DEF TreeInv, TreeTypeOK, Gone
    <3> QED BY <1>1, <1>2, <1>4, <1>5, <3>1
  <2>2. CASE j \notin buried \ excused
    <3>1. j = i /\ item[i].here /\ j \notin excused /\ ~ StillHeld(i, call[c].removed)
      BY <1>1, <2>2
    <3>2. i \notin file
      BY <1>1, <3>1 DEF StillHeld, TreeInv, Removed, Removes
    <3>3. \A d \in TreeCalls : Brings(call[d]) => call[d].item # i
      BY <1>1, <3>1, HereIsFree DEF StillHeld, Brings
    <3> QED BY <1>1, <1>2, <1>4, <1>5, <3>1, <3>2, <3>3
  <2> QED BY <2>1, <2>2
<1>10. Removed'
  BY <1>1, <1>4, <1>5 DEF TreeInv, Removed, Removes
<1> QED BY <1>2, <1>6, <1>7, <1>8, <1>9, <1>10 DEF TreeInv

(* A file attached under a delete is an excuse as well.                     *)
LEMMA AttachCommitKeeps ==
    ASSUME TreeInv, NEW c \in TreeCalls, AttachCommit(c)
    PROVE  TreeInv'
<1> DEFINE i == call[c].item
<1>1. /\ call[c].stage = "attach" /\ i \in Items /\ UNCHANGED <<item, skewed, buried>>
  BY DEF AttachCommit, TreeInv, Requests, TreeSound
<1>2. CASE Done(c) /\ UNCHANGED <<file, excused>>
  BY <1>1, <1>2, EndStep
<1>3. CASE /\ file' = file \union {i}
           /\ excused' = IF Deleting(i) THEN excused \union {i} ELSE excused
           /\ \E k \in Keys : Go(c, Listed(i, k))
  <2>1. PICK k \in Keys : Go(c, Listed(i, k))
    BY <1>3
  <2> DEFINE r == Listed(i, k)
  <2>2. asked' \in 0..MaxTreeCalls /\ call' = [call EXCEPT ![c] = r]
    BY <2>1, GoCounts
  <2>3. r.stage = "listed" /\ r.item = i /\ TreeSound(r)
    BY <1>1 DEF TreeSound, Listed
  <2> HIDE DEF r
  <2>4. /\ call'[c] = r /\ DOMAIN call' = TreeCalls
        /\ \A d \in TreeCalls \ {c} : call'[d] = call[d]
    BY <2>2, CallMoves
  <2>5. /\ \A d \in TreeCalls : call[d].stage = "create" => call[d].item # i
        /\ i \notin buried \ excused
    BY <1>1, HandIsFree DEF Brings
  <2>6. Requests'
    <3>1. \A d \in TreeCalls : TreeSound(call'[d])
      BY <2>3, <2>4 DEF TreeInv, Requests
    <3> QED BY <2>4, <3>1 DEF Requests, TreeSound
  <2>7. TreeTypeOK' /\ LevelRule'
    BY <1>1, <1>3, <2>2, <2>3, <2>4 DEF TreeInv, TreeTypeOK, LevelRule
  <2>8. NewIds'
    BY <1>1, <1>3, <2>3, <2>4, <2>5 DEF TreeInv, NewIds
  <2>9. Gone'
    BY <1>1, <1>3, <2>3, <2>4, <2>5 DEF TreeInv, Gone, Brings
  <2>10. Removed'
    BY <1>1, <1>3, <2>3, <2>4 DEF TreeInv, Removed, Removes, Deleting
  <2> QED BY <2>6, <2>7, <2>8, <2>9, <2>10 DEF TreeInv
<1> QED BY <1>2, <1>3 DEF AttachCommit

LEMMA PushSpecKeeps ==
    ASSUME TreeInv, NEW x \in Items, PushSpec(x)
    PROVE  TreeInv'
<1>1. /\ x \notin buried /\ \A c \in TreeCalls : call[c].stage # "idle" => call[c].item # x
      /\ file' = file \union {x}
      /\ UNCHANGED <<item, call, asked, skewed, buried, excused>>
  BY DEF PushSpec, Fresh, Idle
<1>2. TreeTypeOK' /\ LevelRule' /\ Requests'
  BY <1>1 DEF TreeInv, TreeTypeOK, LevelRule, Requests, TreeSound
<1>3. NewIds'
  BY <1>1 DEF TreeInv, NewIds
<1>4. Gone'
  BY <1>1 DEF TreeInv, Gone, Brings
<1>5. Removed'
  BY <1>1 DEF TreeInv, Removed, Removes
<1> QED BY <1>2, <1>3, <1>4, <1>5 DEF TreeInv

LEMMA UseKeeps ==
    ASSUME TreeInv, NEW g \in Items, Use(g)
    PROVE  TreeInv'
<1> DEFINE touched == [item[g] EXCEPT !.touched = TRUE]
           cited == [item[g] EXCEPT !.cited = TRUE]
<1>1. /\ UNCHANGED <<file, call, asked, skewed, buried, excused>>
      /\ item' = [item EXCEPT ![g] = touched] \/ item' = [item EXCEPT ![g] = cited]
  BY DEF Use
<1>2. \A row \in {touched, cited} : /\ row \in Rows /\ row.here = item[g].here
                                    /\ row.level = item[g].level /\ row.parent = item[g].parent
  BY TableNow DEF Rows
<1> HIDE DEF touched, cited
<1>3. /\ item' \in [Items -> Rows]
      /\ \A k \in Items : /\ item'[k].here = item[k].here /\ item'[k].level = item[k].level
                          /\ item'[k].parent = item[k].parent
  BY <1>1, <1>2, TableNow DEF Table
<1>4. TreeTypeOK'
  BY <1>1, <1>3, TableNow DEF TreeInv, TreeTypeOK
<1>5. LevelRule'
  BY <1>1, <1>3, TableNow DEF TreeInv, LevelRule
<1>6. Requests' /\ Removed'
  BY <1>1 DEF TreeInv, Requests, TreeSound, Removed, Removes
<1>7. NewIds'
  BY <1>1, <1>3 DEF TreeInv, NewIds, Requests, TreeSound
<1>8. Gone'
  BY <1>1, <1>3 DEF TreeInv, Gone, Brings, TreeTypeOK
<1> QED BY <1>4, <1>5, <1>6, <1>7, <1>8 DEF TreeInv

-------------------------------------------------------------------------------
LEMMA TreeStarts == TreeInit => TreeInv
<1> SUFFICES ASSUME TreeInit PROVE TreeInv
  OBVIOUS
<1>1. /\ item \in [Items -> Rows] /\ LegalTable(item)
      /\ file = {i \in Items : item[i].spec} /\ call = [c \in TreeCalls |-> Idle]
      /\ asked = 0 /\ skewed = {} /\ buried = {} /\ excused = {}
  BY ItemTreeAssumption DEF TreeInit
<1>2. \A i \in Items : item[i].parent # NoItem =>
         item[i].here /\ item[item[i].parent].here
         /\ ValidParent(item[i].level, item[item[i].parent].level)
  <2> SUFFICES ASSUME NEW i \in Items, item[i].parent # NoItem
               PROVE  item[i].here /\ item[item[i].parent].here
                      /\ ValidParent(item[i].level, item[item[i].parent].level)
    OBVIOUS
  <2>1. item[i].here
    <3>1. item[i].id \in Nat
      BY <1>1 DEF Rows
    <3>2. [NoRow EXCEPT !.id = item[i].id].parent = NoItem
      BY <3>1, NoRowIsRow
    <3> QED BY <1>1, <3>2 DEF LegalTable
  <2> QED BY <1>1, <2>1 DEF LegalTable
<1>3. \A c \in TreeCalls : call[c] = Idle
  BY <1>1
<1>4. TreeSound(Idle) /\ Idle.stage = "idle" /\ ~ Brings(Idle) /\ ~ Removes(Idle)
  BY DEF TreeSound, Idle, Brings, Removes
<1>5. Requests
  BY <1>1, <1>3, <1>4 DEF Requests
<1>6. 0 \in 0..MaxTreeCalls
  BY ItemTreeAssumption
<1>7. TreeTypeOK /\ LevelRule
  BY <1>1, <1>2, <1>3, <1>4, <1>6 DEF TreeTypeOK, LevelRule
<1>8. NewIds /\ Gone /\ Removed
  BY <1>1, <1>3, <1>4 DEF NewIds, Gone, Removed
<1> QED BY <1>5, <1>7, <1>8 DEF TreeInv

LEMMA TreeSteps == TreeInv /\ [TreeNext]_treeVars => TreeInv'
<1> SUFFICES ASSUME TreeInv, [TreeNext]_treeVars PROVE TreeInv'
  OBVIOUS
<1>1. CASE UNCHANGED treeVars
  BY <1>1 DEF treeVars, TreeInv, TreeTypeOK, LevelRule, Requests, TreeSound, NewIds, Gone, Removed,
     Brings, Removes
<1>2. ASSUME NEW c \in TreeCalls, Die(c) PROVE TreeInv'
  BY <1>2, EndStep DEF Die
<1>3. CASE \E i \in Items : PushSpec(i) \/ Use(i)
  BY <1>3, PushSpecKeeps, UseKeeps
<1>4. CASE \E c \in TreeCalls :
          \/ ReparentRead(c) \/ ReparentWrite(c) \/ PruneRead(c) \/ PruneSearch(c) \/ PruneDelete(c)
          \/ CreateRead(c) \/ CreateWrite(c)
  BY <1>4, ReparentReadKeeps, ReparentWriteKeeps, PruneReadKeeps, PruneSearchKeeps, PruneDeleteKeeps,
     CreateReadKeeps, CreateWriteKeeps
<1>5. CASE \E c \in TreeCalls :
          \/ ConvertPrint(c) \/ ConvertPlan(c) \/ ConvertWrite(c)
          \/ DeleteRead(c) \/ DeleteCheck(c) \/ DeleteRow(c)
  BY <1>5, ConvertPrintKeeps, ConvertPlanKeeps, ConvertWriteKeeps, DeleteReadKeeps, DeleteCheckKeeps,
     DeleteRowKeeps
<1>6. CASE \E c \in TreeCalls :
          \/ AttachRead(c) \/ AttachCommit(c)
          \/ SyncList(c) \/ SyncRead(c) \/ SyncFind(c) \/ SyncCommit(c)
  BY <1>6, AttachReadKeeps, AttachCommitKeeps, SyncListKeeps, SyncReadKeeps, SyncFindKeeps,
     SyncCommitKeeps
<1> QED BY <1>1, <1>2, <1>3, <1>4, <1>5, <1>6 DEF TreeNext

LEMMA TreeAlways == TreeSpec => []TreeInv
BY TreeStarts, TreeSteps, PTL DEF TreeSpec

(* However re-parents, conversions, deletes, attaches, syncs and clean-ups  *)
(* overlap, an item sits one level under its parent, but for the races      *)
(* LevelRule names.                                                         *)
THEOREM LevelsHold == TreeSpec => []LevelRule
<1>1. TreeInv => LevelRule
  BY DEF TreeInv
<1> QED BY <1>1, TreeAlways, PTL

(* A deleted item does not come back, whoever creates, attaches or syncs,   *)
(* but for an attach or a sync that had its file while it was deleted.      *)
THEOREM DeletedStays == TreeSpec => DeletedStaysGone
<1> DEFINE Stays == \A i \in buried \ excused : ~item[i].here => ~item'[i].here
<1>1. TreeInv /\ TreeInv' /\ [TreeNext]_treeVars => Stays
  <2> SUFFICES ASSUME TreeInv, TreeInv', [TreeNext]_treeVars, NEW i \in buried \ excused,
                      item'[i].here
               PROVE  FALSE
    BY DEF TreeInv, Gone
  <2>1. /\ i \in Items /\ ~ item[i].here /\ i \notin file
        /\ \A c \in TreeCalls : Brings(call[c]) => call[c].item # i
    BY DEF TreeInv, TreeTypeOK, Gone
  <2>2. i \in buried' /\ i \in excused'
    <3>1. buried \subseteq buried'
      BY DEF TreeNext, treeVars, Die, ReparentRead, ReparentWrite, PruneRead, PruneSearch, PruneDelete,
         CreateRead, CreateWrite, ConvertPrint, ConvertPlan, ConvertWrite, DeleteRead, DeleteCheck,
         DeleteRow, AttachRead, AttachCommit, SyncList, SyncRead, SyncFind, SyncCommit, PushSpec, Use
    <3> QED BY <3>1 DEF TreeInv, Gone
  <2>3. PICK c \in TreeCalls : DeleteRow(c) \/ AttachCommit(c)
    BY <2>2 DEF TreeNext, treeVars, Die, ReparentRead, ReparentWrite, PruneRead, PruneSearch,
       PruneDelete, CreateRead, CreateWrite, ConvertPrint, ConvertPlan, ConvertWrite, DeleteRead,
       DeleteCheck, AttachRead, SyncList, SyncRead, SyncFind, SyncCommit, PushSpec, Use
  <2>4. CASE AttachCommit(c)
    BY <2>1, <2>4 DEF AttachCommit
  <2>5. CASE DeleteRow(c)
    <3>1. RemoveRow(call[c].item) /\ call[c].item \in Items
      BY <2>5 DEF DeleteRow, TreeInv, Requests, TreeSound
    <3> QED BY <2>1, <3>1, RemoveKeepsTable
  <2> QED BY <2>3, <2>4, <2>5
<1> QED BY <1>1, TreeAlways, PTL DEF TreeSpec, DeletedStaysGone

(* The parents of the items a step leaves alone.                            *)
LEMMA ParentsMove ==
    ASSUME TreeInv, [TreeNext]_treeVars, NEW i \in Items,
           item[i].here, item'[i].here, item[i].setBy = "user", item'[i].parent # item[i].parent
    PROVE  \E c \in TreeCalls : call'[c] # call[c] /\ Unparents(c, i)
<1>1. PICK c \in TreeCalls :
         ReparentWrite(c) \/ PruneDelete(c) \/ CreateWrite(c) \/ ConvertWrite(c) \/ DeleteRow(c)
         \/ SyncCommit(c)
  <2>1. ASSUME NEW g \in Items, Use(g) PROVE FALSE
    <3>1. PICK row : row.parent = item[g].parent /\ item' = [item EXCEPT ![g] = row]
      BY <2>1, TableNow DEF Use, Rows
    <3> QED BY <3>1, TableNow DEF Table
  <2> QED BY <2>1 DEF TreeNext, treeVars, Die, ReparentRead, PruneRead, PruneSearch, CreateRead,
       ConvertPrint, ConvertPlan, DeleteRead, DeleteCheck, AttachRead, AttachCommit, SyncList,
       SyncRead, SyncFind, PushSpec
<1>2. DOMAIN call = TreeCalls /\ call[c].item \in Items
  BY <1>1 DEF TreeInv, Requests, TreeSound, ReparentWrite, PruneDelete, CreateWrite, ConvertWrite,
     DeleteRow, SyncCommit
<1>3. call'[c].stage \in {"idle", "prune"}
  BY <1>1, <1>2 DEF ReparentWrite, PruneDelete, CreateWrite, ConvertWrite, DeleteRow, SyncCommit,
     Done, Go, Idle
<1>4. call'[c] # call[c]
  BY <1>1, <1>3 DEF ReparentWrite, PruneDelete, CreateWrite, ConvertWrite, DeleteRow, SyncCommit
<1>5. Unparents(c, i)
  <2>1. CASE ReparentWrite(c) \/ ConvertWrite(c)
    BY <1>2, <2>1, TableNow DEF ReparentWrite, ConvertWrite, Unparents, Table
  <2>2. CASE PruneDelete(c) \/ DeleteRow(c)
    <3>1. RemoveRow(call[c].item)
      BY <2>2 DEF PruneDelete, DeleteRow
    <3>2. item[i].parent = call[c].item
      BY <1>2, <3>1, RemoveKeepsTable
    <3>3. call[c].stage = "doomed" => call[c].kids = {}
      BY DEF TreeInv, Requests, TreeSound
    <3> QED BY <2>2, <3>2, <3>3 DEF PruneDelete, DeleteRow, Unparents
  <2>3. CASE CreateWrite(c)
    <3>1. call[c].stage = "create" /\ ~ item[call[c].item].here
      BY <2>3 DEF CreateWrite, TreeInv, NewIds
    <3> QED BY <1>2, <2>3, <3>1, TableNow DEF CreateWrite, Table
  <2>4. CASE SyncCommit(c)
    <3>1. call[c].item = i /\ call[c].stage = "found"
      BY <1>2, <2>4, TableNow DEF SyncCommit, Table
    <3>2. item' = [item EXCEPT ![i] = Synced(i, call[c].key, call[c].to, call[c].act)]
      BY <2>4, <3>1 DEF SyncCommit
    <3>3. call[c].act = "home"
      <4> SUFFICES ASSUME call[c].act # "home" PROVE item'[i].parent = item[i].parent
        OBVIOUS
      <4> DEFINE leaf == [item[i] EXCEPT !.level = Leaf, !.spec = TRUE]
      <4>1. /\ leaf.parent = item[i].parent
            /\ [leaf EXCEPT !.synced = call[c].key].parent = item[i].parent
        BY TableNow DEF Rows
      <4>2. Synced(i, call[c].key, call[c].to, call[c].act) \in {leaf, [leaf EXCEPT !.synced = call[c].key]}
        BY Zenon DEF Synced
      <4> HIDE DEF leaf
      <4> QED BY <3>2, <4>1, <4>2, TableNow DEF Table
    <3>4. call[c].row.setBy # "user"
      BY <3>1, <3>3 DEF TreeInv, Requests, TreeSound
    <3> QED BY <3>1, <3>4 DEF Unparents
  <2> QED BY <1>1, <2>1, <2>2, <2>3, <2>4
<1> QED BY <1>4, <1>5

(* A parent that a person chose goes only with a re-parent, a conversion or *)
(* a delete, or with a sync or a clean-up that had looked before the choice.*)
THEOREM ChoiceStays == TreeSpec => ChosenParentStays
<1> DEFINE Stays == \A i \in Items :
              /\ item[i].here /\ item'[i].here
              /\ item[i].setBy = "user"
              /\ item'[i].parent # item[i].parent
              => \E c \in TreeCalls : call'[c] # call[c] /\ Unparents(c, i)
<1>1. TreeInv /\ [TreeNext]_treeVars => Stays
  BY ParentsMove
<1> QED BY <1>1, TreeAlways, PTL DEF TreeSpec, ChosenParentStays

-------------------------------------------------------------------------------
(* n steps up the tree, from items nobody skewed.                           *)
Lineage(f, n) ==
    /\ f \in [0..n -> Items]
    /\ \A k \in 0..(n - 1) : f[k] \notin skewed /\ item[f[k]].parent = f[k + 1]

NobodyAboveItself ==
    \A n \in Nat \ {0} : \A f : Lineage(f, n) =>
       f[0] # f[n] /\ item[f[n]].level = item[f[0]].level - n /\ n <= Leaf

LEMMA LineageClimbs ==
    ASSUME TreeInv, NEW n \in Nat \ {0}, NEW f, Lineage(f, n)
    PROVE  item[f[n]].level = item[f[0]].level - n
<1>1. /\ \A k \in 0..n : f[k] \in Items
      /\ \A k \in 0..(n - 1) : f[k] \notin skewed /\ item[f[k]].parent = f[k + 1]
  BY DEF Lineage
<1>2. \A i \in Items : item[i].level \in Nat
  BY ItemTreeAssumption DEF TreeInv, TreeTypeOK, Rows, Levels
<1>3. \A i \in Items \ skewed : item[i].parent \in Items =>
         item[i].level = item[item[i].parent].level + 1
  BY ItemTreeAssumption DEF TreeInv, LevelRule, ValidParent
<1> DEFINE Climbs(k) == item[f[k]].level = item[f[0]].level - k
           G == {k \in Nat : k <= n => Climbs(k)}
<1>4. 0 \in G
  BY <1>1, <1>2
<1>5. ASSUME NEW k \in Nat, k \in G PROVE k + 1 \in G
  <2> SUFFICES ASSUME k + 1 <= n PROVE Climbs(k + 1)
    OBVIOUS
  <2>1. Climbs(k)
    BY <1>5
  <2>2. k \in 0..(n - 1) /\ k \in 0..n /\ k + 1 \in 0..n /\ 0 \in 0..n
    OBVIOUS
  <2> HIDE DEF G, Climbs
  <2>3. item[f[k]].level = item[f[k + 1]].level + 1
    BY <1>1, <1>3, <2>2
  <2>4. item[f[k]].level \in Nat /\ item[f[k + 1]].level \in Nat /\ item[f[0]].level \in Nat
    BY <1>1, <1>2, <2>2
  <2> QED BY <2>1, <2>3, <2>4 DEF Climbs
<1> HIDE DEF G
<1>6. n \in G
  BY <1>4, <1>5, NaturalInduction
<1> QED BY <1>6 DEF G

(* Between the walk of assertNoParentCycle and the write of the parent      *)
(* other requests move rows, and yet no circle closes: but for the items    *)
(* LevelRule excuses, every step up is a level up, so nobody is above       *)
(* itself and no way up is longer than there are levels.                    *)
THEOREM NoCircleCloses == TreeSpec => []NobodyAboveItself
<1>1. TreeInv => NobodyAboveItself
  <2> SUFFICES ASSUME TreeInv, NEW n \in Nat \ {0}, NEW f, Lineage(f, n)
               PROVE  f[0] # f[n] /\ item[f[n]].level = item[f[0]].level - n /\ n <= Leaf
    BY DEF NobodyAboveItself
  <2>1. item[f[n]].level = item[f[0]].level - n
    BY LineageClimbs
  <2>2. f[0] \in Items /\ f[n] \in Items
    BY DEF Lineage
  <2>3. /\ item[f[0]].level \in Nat /\ item[f[n]].level \in Nat
        /\ item[f[0]].level <= Leaf /\ Leaf \in Nat
    BY <2>2, ItemTreeAssumption DEF TreeInv, TreeTypeOK, Rows, Levels
  <2> QED BY <2>1, <2>3
<1> QED BY <1>1, TreeAlways, PTL

(***************************************************************************)
(* Releases and cycles.                                                    *)
(***************************************************************************)

(* What a cascade still has to do is what it was asked to do.               *)
AllMeant(plan, todo) == \A next \in todo : next[2] \in Work /\ Meant(plan, next[2])

JobSound(r) ==
    /\ r.stage = "write" =>
          /\ r.item \in Work /\ r.axis \in Axes
          /\ r.to \in SlotsOf(r.axis) \union {NoSlot}
          /\ r.then \in {"plan", "free", "next"}
          /\ r.then # "free" => r.axis = "release"
          /\ r.then = "next" => r.to # NoSlot /\ Meant(r.plan, r.item)
          /\ r.then # "next" => r.todo = {}
          /\ AllMeant(r.plan, r.todo)
    /\ r.stage = "plan" => r.item \in Work /\ r.to \in Releases \union {NoSlot}
    /\ r.stage = "next" => r.to \in Releases /\ AllMeant(r.plan, r.todo)
    /\ r.stage = "rollover" =>
          r.from \in Cycles /\ r.to \in Cycles /\ r.product \in Products \union {Shared}

Jobs == DOMAIN job = PlanCalls /\ \A c \in PlanCalls : JobSound(job[c])

PlanInv == PlanTypeOK /\ Jobs /\ SlotFitsWork

LEMMA JobMoves ==
    ASSUME PlanInv, NEW c \in PlanCalls, NEW r, job' = [job EXCEPT ![c] = r], JobSound(r),
           r.stage = "write" => ~ Held(r.item)
    PROVE  /\ Jobs' /\ job'[c] = r
           /\ \A d, e \in PlanCalls :
                job'[d].stage = "write" /\ job'[e].stage = "write" /\ job'[d].item = job'[e].item => d = e
<1>1. job'[c] = r /\ DOMAIN job' = PlanCalls /\ \A d \in PlanCalls \ {c} : job'[d] = job[d]
  BY DEF PlanInv, Jobs
<1>2. \A d \in PlanCalls : JobSound(job'[d])
  BY <1>1 DEF PlanInv, Jobs
<1>3. Jobs'
  BY <1>1, <1>2 DEF Jobs, JobSound, SlotsOf, AllMeant, Meant
<1>4. ASSUME NEW d \in PlanCalls, NEW e \in PlanCalls,
             job'[d].stage = "write", job'[e].stage = "write", job'[d].item = job'[e].item
      PROVE  d = e
  BY <1>1, <1>4 DEF PlanInv, PlanTypeOK, Held
<1> QED BY <1>1, <1>3, <1>4

(* A step that only moves its request.                                      *)
LEMMA JobStep ==
    ASSUME PlanInv, NEW c \in PlanCalls, NEW r, job' = [job EXCEPT ![c] = r], JobSound(r),
           r.stage = "write" => ~ Held(r.item),
           booked' \in 0..MaxPlanCalls, UNCHANGED <<slot, at, overtaken>>,
           rewritten' \subseteq PlanCalls \X Work
    PROVE  PlanInv'
<1>1. /\ Jobs'
      /\ \A d, e \in PlanCalls :
            job'[d].stage = "write" /\ job'[e].stage = "write" /\ job'[d].item = job'[e].item => d = e
  BY JobMoves
<1>2. PlanTypeOK'
  BY <1>1 DEF PlanInv, PlanTypeOK
<1>3. SlotFitsWork'
  BY DEF PlanInv, SlotFitsWork, Fits
<1> QED BY <1>1, <1>2, <1>3 DEF PlanInv

LEMMA FreeIsSound == JobSound(Free) /\ Free.stage = "free"
BY DEF JobSound, Free

LEMMA BoardNow ==
    ASSUME PlanInv
    PROVE  /\ slot \in SlotTables /\ at \in Timetables
           /\ \A i \in Work : /\ at[i].release \in Releases \union {NoSlot}
                              /\ at[i].cycle \in Cycles \union {NoSlot}
           /\ \A i \in Work, axis \in Axes : at[i][axis] \in SlotsOf(axis) \union {NoSlot}
           /\ \A axis \in Axes : SlotsOf(axis) \subseteq Slots
<1>1. slot \in SlotTables /\ at \in Timetables
  BY DEF PlanInv, PlanTypeOK
<1>2. \A i \in Work : /\ at[i].release \in Releases \union {NoSlot}
                      /\ at[i].cycle \in Cycles \union {NoSlot}
  BY <1>1 DEF Timetables
<1>3. \A i \in Work : at[i]["release"] = at[i].release /\ at[i]["cycle"] = at[i].cycle
  OBVIOUS
<1>4. \A i \in Work, axis \in Axes : at[i][axis] \in SlotsOf(axis) \union {NoSlot}
  BY <1>2, <1>3 DEF Axes, SlotsOf
<1>5. \A axis \in Axes : SlotsOf(axis) \subseteq Slots
  BY DEF SlotsOf, Slots, Axes
<1> QED BY <1>1, <1>2, <1>4, <1>5

LEMMA BookCounts ==
    ASSUME PlanInv, NEW c \in PlanCalls, NEW r, Book(c, r) \/ Step(c, r)
    PROVE  /\ booked' \in 0..MaxPlanCalls /\ job' = [job EXCEPT ![c] = r]
           /\ UNCHANGED rewritten => rewritten' \subseteq PlanCalls \X Work
BY PlanningAssumption DEF Book, Step, PlanInv, PlanTypeOK

-------------------------------------------------------------------------------
LEMMA AssignKeeps ==
    ASSUME PlanInv, NEW c \in PlanCalls, Assign(c)
    PROVE  PlanInv'
<1>1. PICK i \in Work, axis \in Axes, cascade \in BOOLEAN :
         \E s \in SlotsOf(axis) \union {NoSlot} :
            /\ ~ Held(i) /\ (cascade => axis = "release")
            /\ Book(c, Writing(i, s, axis, IF cascade THEN "plan" ELSE "free", {}, NoPlan))
            /\ UNCHANGED <<slot, at, overtaken, rewritten>>
  BY DEF Assign
<1>2. PICK s \in SlotsOf(axis) \union {NoSlot} :
            /\ ~ Held(i) /\ (cascade => axis = "release")
            /\ Book(c, Writing(i, s, axis, IF cascade THEN "plan" ELSE "free", {}, NoPlan))
            /\ UNCHANGED <<slot, at, overtaken, rewritten>>
  BY <1>1
<1> DEFINE then == IF cascade THEN "plan" ELSE "free"
           r == Writing(i, s, axis, then, {}, NoPlan)
<1>3. then \in {"plan", "free"} /\ (then # "free" => axis = "release")
  BY <1>2
<1> HIDE DEF then
<1>4. JobSound(r) /\ r.stage = "write" /\ r.item = i
  BY <1>3 DEF JobSound, Writing, AllMeant
<1> HIDE DEF r
<1>5. booked' \in 0..MaxPlanCalls /\ job' = [job EXCEPT ![c] = r]
  BY <1>2, BookCounts DEF r, then
<1>6. rewritten' \subseteq PlanCalls \X Work
  BY <1>2 DEF PlanInv, PlanTypeOK
<1> QED BY <1>2, <1>4, <1>5, <1>6, JobStep

LEMMA RolloverReadKeeps ==
    ASSUME PlanInv, NEW c \in PlanCalls, RolloverRead(c)
    PROVE  PlanInv'
<1>1. PICK from \in Cycles, to \in Cycles :
         /\ Book(c, [stage |-> "rollover", from |-> from, to |-> to, product |-> slot[to].product])
         /\ UNCHANGED <<slot, at, overtaken, rewritten>>
  BY DEF RolloverRead
<1> DEFINE r == [stage |-> "rollover", from |-> from, to |-> to, product |-> slot[to].product]
<1>2. slot[to].product \in Products \union {Shared}
  BY BoardNow DEF SlotTables, Slots
<1>3. JobSound(r) /\ r.stage # "write"
  BY <1>2 DEF JobSound
<1>4. booked' \in 0..MaxPlanCalls /\ job' = [job EXCEPT ![c] = r]
  BY <1>1, BookCounts
<1>5. rewritten' \subseteq PlanCalls \X Work
  BY <1>1 DEF PlanInv, PlanTypeOK
<1> HIDE DEF r
<1> QED BY <1>1, <1>3, <1>4, <1>5, JobStep

(* The plan lists what is meant, as the slot and the items then are.        *)
LEMMA CascadePlanKeeps ==
    ASSUME PlanInv, NEW c \in PlanCalls, CascadePlan(c)
    PROVE  PlanInv'
<1> DEFINE s == job[c].to
           root == job[c].item
           todo == {<<Depth(root, i), i>> : i \in {j \in Below(root) : Moves(s, j)}}
           plan == [root |-> root, product |-> slot[s].product,
                    releases |-> [i \in Work |-> at[i].release]]
           r == [stage |-> "next", to |-> s, todo |-> todo, plan |-> plan]
<1>1. /\ job[c].stage = "plan" /\ UNCHANGED <<slot, at, overtaken>>
      /\ s \in Releases \union {NoSlot}
  BY DEF CascadePlan, PlanInv, Jobs, JobSound
<1>2. rewritten' \subseteq PlanCalls \X Work
  BY DEF CascadePlan, PlanInv, PlanTypeOK
<1>3. CASE Step(c, Free)
  BY <1>1, <1>2, <1>3, BookCounts, FreeIsSound, JobStep
<1>4. CASE s # NoSlot /\ Step(c, r)
  <2>1. /\ plan.root = root /\ plan.product = slot[s].product
        /\ \A i \in Work : plan.releases[i] = at[i].release
    OBVIOUS
  <2>2. \A next \in todo : next[2] \in Below(root) /\ Moves(s, next[2])
    OBVIOUS
  <2> HIDE DEF plan, todo
  <2>3. AllMeant(plan, todo)
    BY <2>1, <2>2 DEF AllMeant, Meant, Below, Moves
  <2>4. JobSound(r) /\ r.stage # "write"
    BY <1>1, <1>4, <2>3 DEF JobSound
  <2>5. booked' \in 0..MaxPlanCalls /\ job' = [job EXCEPT ![c] = r]
    BY <1>4, BookCounts
  <2> HIDE DEF r
  <2> QED BY <1>1, <1>2, <2>4, <2>5, JobStep
<1> QED BY <1>3, <1>4, Zenon DEF CascadePlan

LEMMA CascadeNextKeeps ==
    ASSUME PlanInv, NEW c \in PlanCalls, CascadeNext(c) \/ CascadeEnds(c)
    PROVE  PlanInv'
<1> DEFINE s == job[c].to
           todo == job[c].todo
           r(next) == Writing(next[2], s, "release", "next", todo \ {next}, job[c].plan)
<1>1. /\ job[c].stage = "next" /\ UNCHANGED <<slot, at, overtaken, rewritten>>
      /\ s \in Releases /\ AllMeant(job[c].plan, todo)
  BY DEF CascadeNext, CascadeEnds, PlanInv, Jobs, JobSound
<1>2. \/ Step(c, Free)
      \/ \E next \in todo : ~ Held(next[2]) /\ Step(c, r(next))
  BY Zenon DEF CascadeNext, CascadeEnds
<1>3. CASE Step(c, Free)
  BY <1>1, <1>3, BookCounts, FreeIsSound, JobStep
<1>4. ASSUME NEW next \in todo, ~ Held(next[2]), Step(c, r(next)) PROVE PlanInv'
  <2>1. /\ next[2] \in Work /\ Meant(job[c].plan, next[2])
        /\ AllMeant(job[c].plan, todo \ {next}) /\ s # NoSlot
    BY <1>1, PlanningAssumption DEF AllMeant, Slots
  <2>2. JobSound(r(next)) /\ r(next).stage = "write" /\ r(next).item = next[2]
    BY <1>1, <2>1 DEF JobSound, Writing, Axes, SlotsOf
  <2>3. booked' \in 0..MaxPlanCalls /\ job' = [job EXCEPT ![c] = r(next)]
    BY <1>4, BookCounts
  <2>4. rewritten' \subseteq PlanCalls \X Work
    BY <1>1 DEF PlanInv, PlanTypeOK
  <2> HIDE DEF r
  <2> QED BY <1>1, <1>4, <2>2, <2>3, <2>4, JobStep
<1> QED BY <1>2, <1>3, <1>4

(* One axis of an item's schedule changes, the other one stays.             *)
LEMMA Rescheduled ==
    ASSUME PlanInv, NEW i \in Work, NEW axis \in Axes, NEW s \in SlotsOf(axis) \union {NoSlot}
    PROVE  LET row == [at[i] EXCEPT ![axis] = s]
           IN  /\ row \in [release : Releases \union {NoSlot}, cycle : Cycles \union {NoSlot}]
               /\ row[axis] = s
               /\ \A other \in Axes \ {axis} : row[other] = at[i][other]
<1>1. at[i] \in [release : Releases \union {NoSlot}, cycle : Cycles \union {NoSlot}]
  BY BoardNow DEF Timetables
<1>2. CASE axis = "release"
  BY <1>1, <1>2 DEF Axes, SlotsOf
<1>3. CASE axis = "cycle"
  BY <1>1, <1>3 DEF Axes, SlotsOf
<1> QED BY <1>2, <1>3 DEF Axes

(* What SlotFitsWork asks of one item on one axis.                          *)
Seated(i, axis) ==
    at[i][axis] # NoSlot =>
       slot[at[i][axis]].here /\ (Fits(at[i][axis], i) \/ <<i, axis>> \in overtaken)

LEMMA EachIsSeated ==
    /\ PlanInv => \A i \in Work, axis \in Axes : Seated(i, axis)
    /\ (\A i \in Work, axis \in Axes : Seated(i, axis))' => SlotFitsWork'
BY DEF PlanInv, SlotFitsWork, Seated

LEMMA WriteKeeps ==
    ASSUME PlanInv, NEW c \in PlanCalls, Write(c)
    PROVE  PlanInv'
<1> DEFINE i == job[c].item
           s == job[c].to
           axis == job[c].axis
           todo == job[c].todo
           r == CASE job[c].then = "plan" -> [stage |-> "plan", item |-> i, to |-> s]
                  [] job[c].then = "next" -> [stage |-> "next", to |-> s, todo |-> todo, plan |-> job[c].plan]
                  [] OTHER -> Free
           row == [at[i] EXCEPT ![axis] = s]
<1>1. /\ job[c].stage = "write" /\ UNCHANGED slot
      /\ i \in Work /\ axis \in Axes /\ s \in SlotsOf(axis) \union {NoSlot}
      /\ job[c].then # "free" => axis = "release"
      /\ job[c].then = "next" => s # NoSlot
      /\ job[c].then # "next" => todo = {}
      /\ AllMeant(job[c].plan, todo)
  BY DEF Write, PlanInv, Jobs, JobSound
<1>2. CASE Step(c, Free) /\ UNCHANGED <<at, overtaken, rewritten>>
  BY <1>1, <1>2, BookCounts, FreeIsSound, JobStep
<1>3. CASE /\ s = NoSlot \/ slot[s].here
           /\ at' = [at EXCEPT ![i] = row]
           /\ overtaken' = IF s # NoSlot /\ ~Fits(s, i) THEN overtaken \union {<<i, axis>>}
                           ELSE overtaken \ {<<i, axis>>}
           /\ rewritten' = IF axis = "release"
                           THEN (rewritten \ {<<c, i>>}) \union ((Cascading \ {c}) \X {i})
                           ELSE rewritten
           /\ Step(c, r)
  <2>1. JobSound(r) /\ r.stage # "write"
    <3>1. CASE job[c].then = "plan"
      <4>1. r = [stage |-> "plan", item |-> i, to |-> s]
        BY <1>1, <3>1
      <4> HIDE DEF r
      <4>2. s \in Releases \union {NoSlot}
        BY <1>1, <3>1 DEF SlotsOf
      <4> QED BY <1>1, <4>1, <4>2 DEF JobSound
    <3>2. CASE job[c].then = "next"
      <4>1. r = [stage |-> "next", to |-> s, todo |-> todo, plan |-> job[c].plan]
        BY <1>1, <3>2
      <4> HIDE DEF r
      <4>2. s \in Releases
        BY <1>1, <3>2 DEF SlotsOf
      <4> QED BY <1>1, <4>1, <4>2 DEF JobSound
    <3>3. CASE job[c].then \notin {"plan", "next"}
      <4>1. r = Free
        BY <3>3
      <4> HIDE DEF r
      <4> QED BY <4>1, FreeIsSound
    <3> QED BY <3>1, <3>2, <3>3
  <2>2. booked' \in 0..MaxPlanCalls /\ job' = [job EXCEPT ![c] = r]
    BY <1>3, BookCounts
  <2> HIDE DEF r
  <2>3. /\ Jobs'
        /\ \A d, e \in PlanCalls :
              job'[d].stage = "write" /\ job'[e].stage = "write" /\ job'[d].item = job'[e].item => d = e
    BY <2>1, <2>2, JobMoves
  <2>4. /\ row \in [release : Releases \union {NoSlot}, cycle : Cycles \union {NoSlot}]
        /\ row[axis] = s
        /\ \A other \in Axes \ {axis} : row[other] = at[i][other]
    BY <1>1, Rescheduled
  <2> HIDE DEF row
  <2>5. at' \in Timetables /\ at'[i] = row /\ \A j \in Work \ {i} : at'[j] = at[j]
    BY <1>1, <1>3, <2>4, BoardNow DEF Timetables
  <2>6. PlanTypeOK'
    <3>1. overtaken' \subseteq Work \X Axes
      BY <1>1, <1>3 DEF PlanInv, PlanTypeOK
    <3>2. slot' \in SlotTables
      BY <1>1 DEF PlanInv, PlanTypeOK, SlotTables
    <3>3. rewritten' \subseteq PlanCalls \X Work
      BY <1>1, <1>3 DEF PlanInv, PlanTypeOK, Cascading
    <3> QED BY <2>2, <2>3, <2>5, <3>1, <3>2, <3>3 DEF PlanTypeOK
  <2>7. ASSUME NEW j \in Work, NEW ax \in Axes PROVE Seated(j, ax)'
    <3>1. CASE j = i /\ ax = axis
      <4>1. at'[j][ax] = s /\ (s # NoSlot => slot'[s].here)
        BY <1>1, <1>3, <2>4, <2>5, <3>1
      <4>2. s # NoSlot => Takes(slot'[s].product, i) \/ <<i, axis>> \in overtaken'
        BY <1>1, <1>3 DEF Fits
      <4> HIDE DEF i, s, axis
      <4> QED BY <3>1, <4>1, <4>2 DEF Seated, Fits
    <3>2. CASE ~ (j = i /\ ax = axis)
      <4>1. at'[j][ax] = at[j][ax]
        BY <2>4, <2>5, <3>2
      <4>2. <<j, ax>> \in overtaken => <<j, ax>> \in overtaken'
        BY <1>3, <3>2
      <4>3. Seated(j, ax)
        BY EachIsSeated
      <4> QED BY <1>1, <4>1, <4>2, <4>3 DEF Seated, Fits
    <3> QED BY <3>1, <3>2
  <2> QED BY <2>3, <2>6, <2>7, EachIsSeated DEF PlanInv
<1> QED BY <1>2, <1>3 DEF Write

(* Slots change hands or go, and the work they may not hold leaves them.    *)
LEMMA SlotKeeps ==
    ASSUME PlanInv, NEW s \in Slots, NEW gone \in SUBSET Work,
           slot' \in SlotTables, \A other \in Slots \ {s} : slot'[other] = slot[other],
           Unschedule(AxisOf(s), gone), booked' \in 0..MaxPlanCalls, UNCHANGED job,
           \A i \in Work \ gone : at[i][AxisOf(s)] = s => slot'[s].here /\ Takes(slot'[s].product, i)
    PROVE  PlanInv'
<1> DEFINE axis == AxisOf(s)
<1>1. axis \in Axes /\ s \in SlotsOf(axis) /\ NoSlot \in SlotsOf(axis) \union {NoSlot}
  BY DEF AxisOf, SlotsOf, Slots, Axes
<1>2. \A i \in Work, ax \in Axes : at[i][ax] = s => ax = axis
  BY BoardNow, PlanningAssumption DEF AxisOf, SlotsOf, Slots, Axes
<1>3. /\ at' = [i \in Work |-> IF i \in gone THEN [at[i] EXCEPT ![axis] = NoSlot] ELSE at[i]]
      /\ overtaken' = overtaken \ {<<i, axis>> : i \in gone}
      /\ rewritten' \subseteq PlanCalls \X Work
  BY DEF Unschedule, Cascading, PlanInv, PlanTypeOK
<1> HIDE DEF axis
<1>4. at' \in Timetables
  <2>1. \A i \in Work : [at[i] EXCEPT ![axis] = NoSlot]
                           \in [release : Releases \union {NoSlot}, cycle : Cycles \union {NoSlot}]
    BY <1>1, Rescheduled
  <2>2. \A i \in Work : at[i] \in [release : Releases \union {NoSlot}, cycle : Cycles \union {NoSlot}]
    BY BoardNow DEF Timetables
  <2> QED BY <1>3, <2>1, <2>2 DEF Timetables
<1>5. \A i \in Work, ax \in Axes :
         at'[i][ax] = IF i \in gone /\ ax = axis THEN NoSlot ELSE at[i][ax]
  <2> SUFFICES ASSUME NEW i \in Work, NEW ax \in Axes
               PROVE  at'[i][ax] = IF i \in gone /\ ax = axis THEN NoSlot ELSE at[i][ax]
    OBVIOUS
  <2> DEFINE row == [at[i] EXCEPT ![axis] = NoSlot]
  <2>1. /\ row \in [release : Releases \union {NoSlot}, cycle : Cycles \union {NoSlot}]
        /\ row[axis] = NoSlot
        /\ \A other \in Axes \ {axis} : row[other] = at[i][other]
    BY <1>1, Rescheduled
  <2>2. at'[i] = IF i \in gone THEN row ELSE at[i]
    BY <1>3
  <2> HIDE DEF row
  <2> QED BY <2>1, <2>2
<1>6. PlanTypeOK' /\ Jobs'
  BY <1>3, <1>4 DEF PlanInv, PlanTypeOK, Jobs, JobSound, AllMeant, Meant, SlotsOf
<1>7. ASSUME NEW i \in Work, NEW ax \in Axes PROVE Seated(i, ax)'
  <2>1. CASE at'[i][ax] = NoSlot
    BY <2>1 DEF Seated
  <2>2. CASE at'[i][ax] # NoSlot
    <3>1. at'[i][ax] = at[i][ax] /\ ~ (i \in gone /\ ax = axis)
      BY <1>5, <2>2
    <3>2. at[i][ax] \in Slots
      BY <2>2, <3>1, BoardNow DEF SlotsOf, Slots, Axes
    <3>3. CASE at[i][ax] = s
      <4>1. i \notin gone /\ at[i][axis] = s
        BY <1>2, <3>1, <3>3
      <4>2. slot'[s].here /\ Takes(slot'[s].product, i)
        BY <4>1 DEF axis
      <4> QED BY <3>1, <3>3, <4>2 DEF Seated, Fits
    <3>4. CASE at[i][ax] # s
      <4>1. slot'[at[i][ax]] = slot[at[i][ax]]
        BY <3>2, <3>4
      <4>2. <<i, ax>> \in overtaken => <<i, ax>> \in overtaken'
        BY <1>3, <3>1
      <4>3. Seated(i, ax)
        BY EachIsSeated
      <4> QED BY <3>1, <4>1, <4>2, <4>3 DEF Seated, Fits
    <3> QED BY <3>3, <3>4
  <2> QED BY <2>1, <2>2
<1> QED BY <1>6, <1>7, EachIsSeated DEF PlanInv

LEMMA MoveSlotKeeps ==
    ASSUME PlanInv, NEW s \in Slots, NEW p \in Products \union {Shared}, MoveSlot(s, p)
    PROVE  PlanInv'
<1>1. /\ slot[s].here /\ slot' = [slot EXCEPT ![s].product = p]
      /\ Unschedule(AxisOf(s), Unfit(s, p)) /\ UNCHANGED job
      /\ booked' \in 0..MaxPlanCalls
  BY PlanningAssumption DEF MoveSlot, PlanInv, PlanTypeOK
<1>2. /\ slot' \in SlotTables /\ \A other \in Slots \ {s} : slot'[other] = slot[other]
      /\ slot'[s].here = slot[s].here /\ slot'[s].product = p
  BY <1>1, BoardNow DEF SlotTables
<1>3. Unfit(s, p) \in SUBSET Work
  BY DEF Unfit
<1>4. \A i \in Work \ Unfit(s, p) : at[i][AxisOf(s)] = s => slot'[s].here /\ Takes(slot'[s].product, i)
  BY <1>1, <1>2 DEF Unfit
<1> QED BY <1>1, <1>2, <1>3, <1>4, SlotKeeps

LEMMA DeleteSlotKeeps ==
    ASSUME PlanInv, NEW s \in Slots, DeleteSlot(s)
    PROVE  PlanInv'
<1> DEFINE gone == {i \in Work : at[i][AxisOf(s)] = s}
<1>1. /\ slot' = [slot EXCEPT ![s].here = FALSE]
      /\ Unschedule(AxisOf(s), gone) /\ UNCHANGED job
      /\ booked' \in 0..MaxPlanCalls
  BY PlanningAssumption DEF DeleteSlot, PlanInv, PlanTypeOK
<1>2. slot' \in SlotTables /\ \A other \in Slots \ {s} : slot'[other] = slot[other]
  BY <1>1, BoardNow DEF SlotTables
<1> QED BY <1>1, <1>2, SlotKeeps

LEMMA RolloverWriteKeeps ==
    ASSUME PlanInv, NEW c \in PlanCalls, RolloverWrite(c)
    PROVE  PlanInv'
<1> DEFINE to == job[c].to
           moved == Rolled(job[c].from, job[c].product)
<1>1. /\ job[c].stage = "rollover" /\ UNCHANGED <<slot, rewritten>> /\ Step(c, Free)
      /\ to \in Cycles /\ to \in Slots /\ moved \subseteq Work
  BY DEF RolloverWrite, PlanInv, Jobs, JobSound, Rolled, Slots
<1>2. CASE UNCHANGED <<at, overtaken>>
  BY <1>1, <1>2, BookCounts, FreeIsSound, JobStep
<1>3. CASE /\ slot[to].here
           /\ at' = [i \in Work |-> IF i \in moved THEN [at[i] EXCEPT !.cycle = to] ELSE at[i]]
           /\ overtaken' = IF slot[to].product # job[c].product
                           THEN overtaken \union {<<i, "cycle">> : i \in moved}
                           ELSE overtaken \ {<<i, "cycle">> : i \in moved}
  <2>1. booked' \in 0..MaxPlanCalls /\ job' = [job EXCEPT ![c] = Free]
    BY <1>1, BookCounts
  <2>2. /\ Jobs'
        /\ \A d, e \in PlanCalls :
              job'[d].stage = "write" /\ job'[e].stage = "write" /\ job'[d].item = job'[e].item => d = e
    BY <2>1, FreeIsSound, JobMoves
  <2>3. \A i \in moved : /\ [at[i] EXCEPT !.cycle = to]
                               \in [release : Releases \union {NoSlot}, cycle : Cycles \union {NoSlot}]
                         /\ [at[i] EXCEPT !.cycle = to].cycle = to
                         /\ [at[i] EXCEPT !.cycle = to].release = at[i].release
    BY <1>1, BoardNow DEF Timetables
  <2>4. at' \in Timetables
    BY <1>1, <1>3, <2>3, BoardNow DEF Timetables
  <2>5. \A i \in Work : /\ at'[i].release = at[i].release
                        /\ at'[i].cycle = IF i \in moved THEN to ELSE at[i].cycle
    BY <1>3, <2>3
  <2>6. PlanTypeOK'
    <3>1. overtaken' \subseteq Work \X Axes
      BY <1>1, <1>3 DEF PlanInv, PlanTypeOK, Axes
    <3>2. slot' \in SlotTables
      BY <1>1 DEF PlanInv, PlanTypeOK, SlotTables
    <3>3. rewritten' \subseteq PlanCalls \X Work
      BY <1>1 DEF PlanInv, PlanTypeOK
    <3> QED BY <2>1, <2>2, <2>4, <3>1, <3>2, <3>3 DEF PlanTypeOK
  <2>7. ASSUME NEW i \in Work, NEW axis \in Axes PROVE Seated(i, axis)'
    <3>1. CASE i \in moved /\ axis = "cycle"
      <4>1. at'[i][axis] = to /\ slot'[to].here
        BY <1>1, <1>3, <2>5, <3>1
      <4>2. Takes(job[c].product, i)
        BY <3>1 DEF Rolled
      <4>3. Takes(slot'[to].product, i) \/ <<i, axis>> \in overtaken'
        BY <1>1, <1>3, <3>1, <4>2 DEF Fits
      <4> HIDE DEF to
      <4> QED BY <4>1, <4>3 DEF Seated, Fits
    <3>2. CASE ~ (i \in moved /\ axis = "cycle")
      <4>1. at'[i][axis] = at[i][axis]
        BY <2>5, <3>2 DEF Axes
      <4>2. <<i, axis>> \in overtaken => <<i, axis>> \in overtaken'
        BY <1>3, <3>2
      <4>3. Seated(i, axis)
        BY EachIsSeated
      <4> QED BY <1>1, <4>1, <4>2, <4>3 DEF Seated, Fits
    <3> QED BY <3>1, <3>2
  <2> QED BY <2>2, <2>6, <2>7, EachIsSeated DEF PlanInv
<1> QED BY <1>2, <1>3 DEF RolloverWrite

-------------------------------------------------------------------------------
LEMMA PlanStarts == PlanInit => PlanInv
<1> SUFFICES ASSUME PlanInit PROVE PlanInv
  OBVIOUS
<1>1. PICK board \in Boards : slot = board.slot /\ at = board.at
  BY DEF PlanInit
<1>2. slot \in SlotTables /\ at \in Timetables /\ LegalBoard(board)
  BY <1>1, PlanningAssumption
<1>3. job = [c \in PlanCalls |-> Free] /\ booked \in 0..MaxPlanCalls /\ overtaken = {} /\ rewritten = {}
  BY PlanningAssumption DEF PlanInit
<1>4. PlanTypeOK /\ Jobs
  BY <1>2, <1>3, FreeIsSound DEF PlanTypeOK, Jobs
<1>5. SlotFitsWork
  BY <1>1, <1>2 DEF LegalBoard, SlotFitsWork, Fits
<1> QED BY <1>4, <1>5 DEF PlanInv

LEMMA PlanSteps == PlanInv /\ [PlanNext]_planVars => PlanInv'
<1> SUFFICES ASSUME PlanInv, [PlanNext]_planVars PROVE PlanInv'
  OBVIOUS
<1>1. CASE UNCHANGED planVars
  <2>1. PlanTypeOK' /\ Jobs'
    BY <1>1 DEF planVars, PlanInv, PlanTypeOK, Jobs, JobSound, AllMeant, Meant, SlotsOf
  <2>2. SlotFitsWork'
    BY <1>1 DEF planVars, PlanInv, SlotFitsWork, Fits
  <2> QED BY <2>1, <2>2 DEF PlanInv
<1>2. CASE \E c \in PlanCalls : Assign(c) \/ Write(c) \/ CascadePlan(c) \/ CascadeNext(c)
                                \/ CascadeEnds(c) \/ RolloverRead(c) \/ RolloverWrite(c)
  BY <1>2, AssignKeeps, WriteKeeps, CascadePlanKeeps, CascadeNextKeeps, RolloverReadKeeps,
     RolloverWriteKeeps
<1>3. CASE \E s \in Slots : DeleteSlot(s) \/ \E p \in Products \union {Shared} : MoveSlot(s, p)
  BY <1>3, DeleteSlotKeeps, MoveSlotKeeps
<1> QED BY <1>1, <1>2, <1>3 DEF PlanNext

LEMMA PlanAlways == PlanSpec => []PlanInv
BY PlanStarts, PlanSteps, PTL DEF PlanSpec

(* However slots move, go and roll over while cascades run, a scheduled     *)
(* item shares the product of its slot, but for a slot that changed hands   *)
(* between a write and its check.                                           *)
THEOREM ScheduleFits == PlanSpec => []SlotFitsWork
<1>1. PlanInv => SlotFitsWork
  BY DEF PlanInv
<1> QED BY <1>1, PlanAlways, PTL

(* What a cascade has still to move, the item in its hand with the rest.    *)
Pending(c) ==
    {next[2] : next \in job[c].todo} \union (IF job[c].stage = "write" THEN {job[c].item} ELSE {})

(* Where a cascade leaves an item.                                          *)
Carries(c, i) == IF Meant(job[c].plan, i) THEN job[c].to ELSE job[c].plan.releases[i]

(* All that is not still to be moved is where the cascade leaves it.        *)
Carried(c) ==
    \A i \in Work \ Pending(c) : <<c, i>> \in rewritten \/ at[i].release = Carries(c, i)

AllCarried == \A c \in Cascading : Carried(c)

(* A cascade whose own request does not move is left as it was when every   *)
(* release that changes is noted.                                           *)
LEMMA CarriedStays ==
    ASSUME PlanInv, NEW c \in Cascading, Carried(c), job'[c] = job[c],
           \A i \in Work : <<c, i>> \in rewritten \/ at'[i].release # at[i].release
                             => <<c, i>> \in rewritten'
    PROVE  Carried(c)'
BY DEF Carried, Pending, Carries, Meant

(* So is every cascade by a step of none that changes no release.           *)
LEMMA NoneMoves ==
    ASSUME PlanInv, AllCarried, NEW c \in PlanCalls, NEW r, job' = [job EXCEPT ![c] = r],
           r.stage \in {"free", "plan", "rollover"} \/ (r.stage = "write" /\ r.then # "next"),
           \A d \in Cascading \ {c}, i \in Work :
              <<d, i>> \in rewritten \/ at'[i].release # at[i].release => <<d, i>> \in rewritten'
    PROVE  AllCarried'
<1>1. job'[c] = r /\ \A d \in PlanCalls \ {c} : job'[d] = job[d]
  BY DEF PlanInv, Jobs
<1>2. \A d \in Cascading' : d # c /\ d \in Cascading
  BY <1>1 DEF Cascading
<1>3. ASSUME NEW d \in Cascading' PROVE Carried(d)'
  <2>1. d \in Cascading \ {c} /\ job'[d] = job[d]
    BY <1>1, <1>2 DEF Cascading
  <2> QED BY <2>1, CarriedStays DEF AllCarried
<1> QED BY <1>3 DEF AllCarried

(* The plan: what is not to be moved is where it is.                        *)
LEMMA PlanCarries ==
    ASSUME PlanInv, AllCarried, NEW c \in PlanCalls, CascadePlan(c)
    PROVE  AllCarried'
<1> DEFINE s == job[c].to
           root == job[c].item
           todo == {<<Depth(root, i), i>> : i \in {j \in Below(root) : Moves(s, j)}}
           plan == [root |-> root, product |-> slot[s].product,
                    releases |-> [i \in Work |-> at[i].release]]
           r == [stage |-> "next", to |-> s, todo |-> todo, plan |-> plan]
<1>1. at' = at /\ rewritten' = rewritten \ ({c} \X Work)
  BY DEF CascadePlan
<1>2. CASE Step(c, Free)
  <2>1. job' = [job EXCEPT ![c] = Free] /\ Free.stage = "free"
    BY <1>2 DEF Step, Free
  <2>2. \A d \in Cascading \ {c}, i \in Work :
           <<d, i>> \in rewritten \/ at'[i].release # at[i].release => <<d, i>> \in rewritten'
    BY <1>1
  <2> QED BY <2>1, <2>2, NoneMoves
<1>3. CASE Step(c, r)
  <2>1. job'[c] = r /\ \A d \in PlanCalls \ {c} : job'[d] = job[d]
    BY <1>3 DEF Step, PlanInv, Jobs
  <2>2. /\ plan.root = root /\ plan.product = slot[s].product
        /\ \A i \in Work : plan.releases[i] = at[i].release
        /\ \A i \in Work : i \notin {next[2] : next \in todo} => ~ (i \in Below(root) /\ Moves(s, i))
    <3>1. \A i \in Work : i \in Below(root) /\ Moves(s, i) => <<Depth(root, i), i>> \in todo
      OBVIOUS
    <3>2. \A i \in Work : <<Depth(root, i), i>>[2] = i
      OBVIOUS
    <3>3. \A i \in Work : i \in Below(root) /\ Moves(s, i) => i \in {next[2] : next \in todo}
      <4> HIDE DEF todo
      <4> QED BY <3>1, <3>2
    <3>4. /\ plan.root = root /\ plan.product = slot[s].product
          /\ \A i \in Work : plan.releases[i] = at[i].release
      OBVIOUS
    <3> HIDE DEF todo, plan
    <3> QED BY <3>3, <3>4
  <2> HIDE DEF plan, todo
  <2>3. r.stage = "next" /\ r.to = s /\ r.todo = todo /\ r.plan = plan
    OBVIOUS
  <2> HIDE DEF r
  <2>4. ASSUME NEW i \in Work, i \notin {next[2] : next \in todo}
        PROVE  ~ Meant(plan, i) /\ at'[i].release = plan.releases[i]
    BY <1>1, <2>2, <2>4 DEF Meant, Below, Moves
  <2>5. Carried(c)'
    BY <2>1, <2>3, <2>4 DEF Carried, Pending, Carries
  <2>6. ASSUME NEW d \in Cascading', d # c PROVE Carried(d)'
    <3>1. d \in Cascading /\ job'[d] = job[d]
      BY <2>1, <2>6 DEF Cascading
    <3>2. \A i \in Work : <<d, i>> \in rewritten \/ at'[i].release # at[i].release
                              => <<d, i>> \in rewritten'
      BY <1>1, <2>6
    <3> QED BY <3>1, <3>2, CarriedStays DEF AllCarried
  <2> QED BY <2>5, <2>6 DEF AllCarried
<1> QED BY <1>2, <1>3, Zenon DEF CascadePlan

(* An item is taken in hand: it was to be moved, and still is.              *)
LEMMA NextCarries ==
    ASSUME PlanInv, AllCarried, NEW c \in PlanCalls, CascadeNext(c) \/ CascadeEnds(c)
    PROVE  AllCarried'
<1> DEFINE todo == job[c].todo
           r(next) == Writing(next[2], job[c].to, "release", "next", todo \ {next}, job[c].plan)
<1>1. job[c].stage = "next" /\ at' = at /\ rewritten' = rewritten
  BY DEF CascadeNext, CascadeEnds
<1>2. \/ Step(c, Free)
      \/ \E next \in todo : Step(c, r(next))
  BY Zenon DEF CascadeNext, CascadeEnds
<1>3. CASE Step(c, Free)
  <2>1. job' = [job EXCEPT ![c] = Free] /\ Free.stage = "free"
    BY <1>3 DEF Step, Free
  <2> QED BY <1>1, <2>1, NoneMoves
<1>4. ASSUME NEW next \in todo, Step(c, r(next)) PROVE AllCarried'
  <2>1. job'[c] = r(next) /\ \A d \in PlanCalls \ {c} : job'[d] = job[d]
    BY <1>4 DEF Step, PlanInv, Jobs
  <2>2. /\ r(next).stage = "write" /\ r(next).item = next[2] /\ r(next).to = job[c].to
        /\ r(next).todo = todo \ {next} /\ r(next).plan = job[c].plan
    BY DEF Writing
  <2> HIDE DEF r
  <2>3. Pending(c) \subseteq Pending(c)'
    BY <1>1, <2>1, <2>2 DEF Pending
  <2>4. c \in Cascading /\ Carried(c)
    BY <1>1 DEF Cascading, AllCarried
  <2>5. Carried(c)'
    BY <1>1, <2>1, <2>2, <2>3, <2>4 DEF Carried, Carries
  <2>6. ASSUME NEW d \in Cascading', d # c PROVE Carried(d)'
    <3>1. d \in Cascading /\ job'[d] = job[d]
      BY <2>1, <2>6 DEF Cascading
    <3> QED BY <1>1, <3>1, CarriedStays DEF AllCarried
  <2> QED BY <2>5, <2>6 DEF AllCarried
<1> QED BY <1>2, <1>3, <1>4

(* A write: a cascade's own moves what it was meant to move, anybody's is   *)
(* noted for every other cascade.                                           *)
LEMMA WriteCarries ==
    ASSUME PlanInv, AllCarried, NEW c \in PlanCalls, Write(c)
    PROVE  AllCarried'
<1> DEFINE i == job[c].item
           s == job[c].to
           axis == job[c].axis
           todo == job[c].todo
           r == CASE job[c].then = "plan" -> [stage |-> "plan", item |-> i, to |-> s]
                  [] job[c].then = "next" -> [stage |-> "next", to |-> s, todo |-> todo, plan |-> job[c].plan]
                  [] OTHER -> Free
           row == [at[i] EXCEPT ![axis] = s]
<1>1. /\ job[c].stage = "write" /\ i \in Work /\ axis \in Axes /\ s \in SlotsOf(axis) \union {NoSlot}
      /\ job[c].then \in {"plan", "free", "next"}
      /\ job[c].then = "next" => axis = "release" /\ Meant(job[c].plan, i)
  BY DEF Write, PlanInv, Jobs, JobSound
<1>2. CASE Step(c, Free) /\ UNCHANGED <<at, overtaken, rewritten>>
  <2>1. job' = [job EXCEPT ![c] = Free] /\ Free.stage = "free"
    BY <1>2 DEF Step, Free
  <2> QED BY <1>2, <2>1, NoneMoves
<1>3. CASE /\ at' = [at EXCEPT ![i] = row]
           /\ rewritten' = IF axis = "release"
                           THEN (rewritten \ {<<c, i>>}) \union ((Cascading \ {c}) \X {i})
                           ELSE rewritten
           /\ Step(c, r)
  <2>1. /\ axis = "release" => row.release = s
        /\ axis # "release" => row.release = at[i].release
    <3>1. at[i] \in [release : Releases \union {NoSlot}, cycle : Cycles \union {NoSlot}]
      BY <1>1, BoardNow DEF Timetables
    <3>2. CASE axis = "release"
      <4>1. row = [at[i] EXCEPT !["release"] = s]
        BY <3>2
      <4> HIDE DEF row, i
      <4> QED BY <3>1, <3>2, <4>1
    <3>3. CASE axis = "cycle"
      <4>1. row = [at[i] EXCEPT !["cycle"] = s]
        BY <3>3
      <4> HIDE DEF row, i
      <4> QED BY <3>1, <3>3, <4>1
    <3> QED BY <1>1, <3>2, <3>3 DEF Axes
  <2> HIDE DEF row
  <2>2. at'[i] = row /\ \A j \in Work \ {i} : at'[j] = at[j]
    BY <1>1, <1>3, BoardNow DEF Timetables
  <2>3. job' = [job EXCEPT ![c] = r]
    BY <1>3 DEF Step
  <2>4. \A d \in Cascading \ {c}, j \in Work :
           <<d, j>> \in rewritten \/ at'[j].release # at[j].release => <<d, j>> \in rewritten'
    <3>1. CASE axis = "release"
      <4>1. rewritten' = (rewritten \ {<<c, i>>}) \union ((Cascading \ {c}) \X {i})
        BY <1>3, <3>1
      <4> HIDE DEF i
      <4> QED BY <2>2, <4>1
    <3>2. CASE axis # "release"
      <4>1. rewritten' = rewritten
        BY <1>3, <3>2
      <4> HIDE DEF i
      <4> QED BY <2>1, <2>2, <3>2, <4>1
    <3> QED BY <3>1, <3>2
  <2>5. CASE job[c].then # "next"
    <3>1. r.stage \in {"free", "plan"}
      BY <1>1, <2>5 DEF Free
    <3> HIDE DEF r
    <3> QED BY <2>3, <2>4, <3>1, NoneMoves
  <2>6. CASE job[c].then = "next"
    <3>1. r = [stage |-> "next", to |-> s, todo |-> todo, plan |-> job[c].plan]
      BY <2>6
    <3> HIDE DEF r
    <3>2. r.stage = "next" /\ r.to = s /\ r.todo = todo /\ r.plan = job[c].plan
      BY <3>1
    <3>3. job'[c] = r /\ \A d \in PlanCalls \ {c} : job'[d] = job[d]
      BY <2>3 DEF PlanInv, Jobs
    <3>4. c \in Cascading /\ Carried(c)
      BY <1>1, <2>6 DEF Cascading, AllCarried
    <3>5. Carried(c)'
      <4> SUFFICES ASSUME NEW j \in Work, j \notin Pending(c)', <<c, j>> \notin rewritten'
                   PROVE  at'[j].release = IF Meant(job[c].plan, j) THEN s ELSE job[c].plan.releases[j]
        BY <3>2, <3>3 DEF Carried, Carries
      <4>1. CASE j = i
        BY <1>1, <2>1, <2>2, <2>6, <4>1
      <4>2. CASE j # i
        <5>1. j \notin Pending(c)
          BY <3>2, <3>3, <4>2 DEF Pending
        <5>2. <<c, j>> \notin rewritten
          BY <1>3, <4>2
        <5>3. at[j].release = Carries(c, j)
          BY <3>4, <5>1, <5>2 DEF Carried
        <5> QED BY <2>2, <4>2, <5>3 DEF Carries
      <4> QED BY <4>1, <4>2
    <3>6. ASSUME NEW d \in Cascading', d # c PROVE Carried(d)'
      <4>1. d \in Cascading \ {c} /\ job'[d] = job[d]
        BY <3>3, <3>6 DEF Cascading
      <4>2. \A j \in Work : <<d, j>> \in rewritten \/ at'[j].release # at[j].release
                                => <<d, j>> \in rewritten'
        BY <2>4, <4>1
      <4> QED BY <4>1, <4>2, CarriedStays DEF AllCarried
    <3> QED BY <3>5, <3>6 DEF AllCarried
  <2> QED BY <2>5, <2>6
<1> QED BY <1>2, <1>3, Zenon DEF Write

(* A slot changes hands or goes: what leaves a release is noted.            *)
LEMMA SlotCarries ==
    ASSUME PlanInv, AllCarried, NEW s \in Slots, NEW gone \in SUBSET Work,
           Unschedule(AxisOf(s), gone), UNCHANGED job
    PROVE  AllCarried'
<1>1. Cascading' = Cascading
  BY DEF Cascading
<1>2. /\ at' = [i \in Work |-> IF i \in gone THEN [at[i] EXCEPT ![AxisOf(s)] = NoSlot] ELSE at[i]]
      /\ rewritten' = IF AxisOf(s) = "release" THEN rewritten \union (Cascading \X gone) ELSE rewritten
  BY DEF Unschedule
<1>3. ASSUME NEW i \in Work, at'[i].release # at[i].release PROVE i \in gone /\ AxisOf(s) = "release"
  <2>1. i \in gone
    BY <1>2, <1>3
  <2>2. AxisOf(s) # "release" => [at[i] EXCEPT ![AxisOf(s)] = NoSlot].release = at[i].release
    <3> DEFINE row == [at[i] EXCEPT !["cycle"] = NoSlot]
    <3>1. \A other \in Axes \ {"cycle"} : row[other] = at[i][other]
      BY Rescheduled DEF Axes
    <3> HIDE DEF row
    <3>2. row.release = at[i].release
      BY <3>1 DEF Axes
    <3> QED BY <3>2 DEF AxisOf, row
  <2> QED BY <1>2, <1>3, <2>1, <2>2
<1>4. ASSUME NEW c \in Cascading PROVE Carried(c)'
  <2>1. \A i \in Work : <<c, i>> \in rewritten \/ at'[i].release # at[i].release
                            => <<c, i>> \in rewritten'
    BY <1>2, <1>3
  <2> QED BY <2>1, CarriedStays DEF AllCarried
<1> QED BY <1>1, <1>4 DEF AllCarried

(* Assigning, and the two halves of a rollover, are no cascade's business.  *)
LEMMA OthersCarry ==
    ASSUME PlanInv, AllCarried, NEW c \in PlanCalls, Assign(c) \/ RolloverRead(c) \/ RolloverWrite(c)
    PROVE  AllCarried'
<1>1. CASE Assign(c)
  <2>1. PICK i, s, axis, then :
           /\ job' = [job EXCEPT ![c] = Writing(i, s, axis, then, {}, NoPlan)]
           /\ then # "next" /\ at' = at /\ rewritten' = rewritten
    <3>1. PICK i \in Work, axis \in Axes, cascade \in BOOLEAN :
             \E s \in SlotsOf(axis) \union {NoSlot} :
                /\ Book(c, Writing(i, s, axis, IF cascade THEN "plan" ELSE "free", {}, NoPlan))
                /\ at' = at /\ rewritten' = rewritten
      BY <1>1, Zenon DEF Assign
    <3>2. (IF cascade THEN "plan" ELSE "free") # "next"
      OBVIOUS
    <3> QED BY <3>1, <3>2, Zenon DEF Book
  <2> DEFINE r == Writing(i, s, axis, then, {}, NoPlan)
  <2>2. r.stage = "write" /\ r.then # "next"
    BY <2>1 DEF Writing
  <2> HIDE DEF r
  <2>3. job' = [job EXCEPT ![c] = r]
    BY <2>1 DEF r
  <2> QED BY <2>1, <2>2, <2>3, NoneMoves
<1>2. CASE RolloverRead(c)
  <2>1. PICK from, to :
           /\ job' = [job EXCEPT ![c] = [stage |-> "rollover", from |-> from, to |-> to,
                                         product |-> slot[to].product]]
           /\ at' = at /\ rewritten' = rewritten
    BY <1>2, Zenon DEF RolloverRead, Book
  <2> DEFINE r == [stage |-> "rollover", from |-> from, to |-> to, product |-> slot[to].product]
  <2>2. r.stage = "rollover" /\ job' = [job EXCEPT ![c] = r]
    BY <2>1
  <2> HIDE DEF r
  <2> QED BY <2>1, <2>2, NoneMoves
<1>3. CASE RolloverWrite(c)
  <2>1. job' = [job EXCEPT ![c] = Free] /\ Free.stage = "free" /\ rewritten' = rewritten
    BY <1>3 DEF RolloverWrite, Step, Free
  <2>2. \A i \in Work : at'[i].release = at[i].release
    <3>1. \A i \in Work : [at[i] EXCEPT !.cycle = job[c].to].release = at[i].release
      BY BoardNow DEF Timetables
    <3>2. at' = at \/ \E moved : at' = [i \in Work |-> IF i \in moved
                                         THEN [at[i] EXCEPT !.cycle = job[c].to] ELSE at[i]]
      BY <1>3, Zenon DEF RolloverWrite
    <3> QED BY <3>1, <3>2
  <2> QED BY <2>1, <2>2, NoneMoves
<1> QED BY <1>1, <1>2, <1>3

LEMMA AlwaysCarried == PlanSpec => []AllCarried
<1>1. PlanInit => AllCarried
  BY DEF PlanInit, Free, AllCarried, Cascading
<1>2. PlanInv /\ AllCarried /\ [PlanNext]_planVars => AllCarried'
  <2> SUFFICES ASSUME PlanInv, AllCarried, [PlanNext]_planVars PROVE AllCarried'
    OBVIOUS
  <2>1. CASE UNCHANGED planVars
    <3>1. job' = job /\ at' = at /\ rewritten' = rewritten
      BY <2>1 DEF planVars
    <3>2. \A c \in Cascading' : c \in Cascading /\ Carried(c)
      BY <3>1 DEF Cascading, AllCarried
    <3>3. \A c \in Cascading' : Carried(c)'
      BY <3>1, <3>2, CarriedStays
    <3> QED BY <3>3 DEF AllCarried
  <2>2. CASE \E c \in PlanCalls : Assign(c) \/ Write(c) \/ CascadePlan(c) \/ CascadeNext(c)
                                  \/ CascadeEnds(c) \/ RolloverRead(c) \/ RolloverWrite(c)
    BY <2>2, OthersCarry, WriteCarries, PlanCarries, NextCarries
  <2>3. ASSUME NEW s \in Slots, DeleteSlot(s) \/ \E p \in Products \union {Shared} : MoveSlot(s, p)
        PROVE  AllCarried'
    <3>1. PICK gone \in SUBSET Work : Unschedule(AxisOf(s), gone)
      BY <2>3 DEF DeleteSlot, MoveSlot, Unfit
    <3>2. UNCHANGED job
      BY <2>3 DEF DeleteSlot, MoveSlot
    <3> QED BY <3>1, <3>2, SlotCarries
  <2> QED BY <2>1, <2>2, <2>3 DEF PlanNext
<1> QED BY <1>1, <1>2, PlanAlways, PTL DEF PlanSpec

(* For any tree, any slots and any requests beside it, a cascade that runs  *)
(* to its end has put in its release every item that was unscheduled below  *)
(* its root and that the release takes, and no other, but for items another *)
(* request has written since.                                               *)
THEOREM CascadesCarryAll == PlanSpec => []CascadeCarriesAll
<1>1. PlanInv /\ AllCarried => CascadeCarriesAll
  <2> SUFFICES ASSUME PlanInv, AllCarried, NEW c \in PlanCalls,
                      job[c].stage = "next", job[c].todo = {}, NEW i \in Work
               PROVE  <<c, i>> \in rewritten \/ at[i].release = Carries(c, i)
    BY DEF CascadeCarriesAll, Carries
  <2>1. c \in Cascading /\ i \notin Pending(c)
    BY DEF Cascading, Pending
  <2> QED BY <2>1 DEF AllCarried, Carried
<1> QED BY <1>1, PlanAlways, AlwaysCarried, PTL

(***************************************************************************)
(* Stages and gates.                                                       *)
(***************************************************************************)
Stops == Stages \union {Archived}

OrdinalIn(o, s) == CHOOSE i \in DOMAIN o : o[i] = s

FillOf(r) == IF Len(r.hops) = 1 THEN r.fill ELSE "keep"

(* How far along the stages a status is.                                    *)
Place(s) == IF s = Archived THEN 0 ELSE Ordinal(s)

(* A hop that is checked passes only gates that were satisfied as it looked.*)
Looked(r) ==
    LET saw == r.saw
        from == saw.ticket.status
        to == Head(r.hops)
    IN  /\ {from, to} \subseteq OnBoard(saw.order)
        /\ OrdinalIn(saw.order, to) > OrdinalIn(saw.order, from)
        => \A g \in Gates :
              (\E i \in OrdinalIn(saw.order, from)..(OrdinalIn(saw.order, to) - 1) :
                  saw.gate[g] = saw.order[i])
              => /\ g \in FieldGates => Field(saw.ticket.filled, FillOf(r))
                 /\ g \notin FieldGates => g \in saw.ticket.done

PatchSound(r) ==
    /\ r.stage \in {"idle", "hop", "write"}
    /\ r.stage # "idle" => /\ r.ticket \in Tickets
                           /\ r.hops \in Seq(Stops)
                           /\ r.hops # <<>>
    /\ r.stage = "write" => Looked(r)

Patches == DOMAIN patch = GateCalls /\ \A c \in GateCalls : PatchSound(patch[c])

GateInv == GateTypeOK /\ StatusIsAStage /\ Patches

LEMMA NoPatchIsSound == PatchSound(NoPatch) /\ NoPatch.stage = "idle"
BY DEF PatchSound, NoPatch

LEMMA PatchMoves ==
    ASSUME GateInv, NEW c \in GateCalls, NEW r, patch' = [patch EXCEPT ![c] = r], PatchSound(r)
    PROVE  Patches' /\ patch'[c] = r
<1>1. patch'[c] = r /\ DOMAIN patch' = GateCalls /\ \A d \in GateCalls \ {c} : patch'[d] = patch[d]
  BY DEF GateInv, Patches
<1>2. \A d \in GateCalls : PatchSound(patch'[d])
  BY <1>1 DEF GateInv, Patches
<1> QED BY <1>1, <1>2 DEF Patches, PatchSound, Looked, FillOf, OnBoard, OrdinalIn, Field

(* A step that only moves its request.                                      *)
LEMMA PatchStep ==
    ASSUME GateInv, NEW c \in GateCalls, NEW r, patch' = [patch EXCEPT ![c] = r], PatchSound(r),
           tried' \in 0..MaxGateCalls, UNCHANGED <<order, strict, gate, ticket, lost>>
    PROVE  GateInv'
<1>1. Patches'
  BY PatchMoves
<1>2. GateTypeOK'
  BY DEF GateInv, GateTypeOK
<1>3. StatusIsAStage'
  BY DEF GateInv, StatusIsAStage, OnBoard
<1> QED BY <1>1, <1>2, <1>3 DEF GateInv

LEMMA OrderNow ==
    ASSUME GateInv
    PROVE  /\ order \in Seq(Stages) /\ Len(order) >= 2 /\ DOMAIN order = 1..Len(order)
           /\ \A i, j \in 1..Len(order) : order[i] = order[j] => i = j
           /\ OnBoard(order) \subseteq Stages
           /\ \A s \in OnBoard(order) : Ordinal(s) \in 1..Len(order) /\ order[Ordinal(s)] = s
<1>1. /\ order \in Seq(Stages) /\ Len(order) >= 2
      /\ \A i, j \in 1..Len(order) : order[i] = order[j] => i = j
  BY StageGatesAssumption DEF GateInv, GateTypeOK
<1>2. DOMAIN order = 1..Len(order) /\ \A i \in 1..Len(order) : order[i] \in Stages
  BY <1>1
<1>3. \A s \in OnBoard(order) : Ordinal(s) \in DOMAIN order /\ order[Ordinal(s)] = s
  BY Zenon DEF OnBoard, Ordinal
<1> QED BY <1>1, <1>2, <1>3 DEF OnBoard

(* An item of a ticket table.                                               *)
TicketRows(keys) ==
    [status : Stages \union {Archived, NoStage}, filled : BOOLEAN, done : SUBSET keys]

-------------------------------------------------------------------------------
(* The stage a strict workflow goes back to.                                *)
LEMMA WayBack ==
    ASSUME GateInv, NEW m \in 1..Len(order)
    PROVE  /\ Back(m) \in 0..(m - 1)
           /\ \/ Back(m) = m - 1
              \/ order = BuiltIn /\ m = Len(order) /\ Back(m) = m - 2 /\ Back(m) >= 1
<1>1. Len(order) \in Nat /\ m \in Nat /\ 1 <= m /\ m <= Len(order)
  BY OrderNow
<1>2. CASE order = BuiltIn /\ m = Len(order)
  <2>1. Back(m) = m - 2 /\ Len(order) >= 3
    BY <1>2, StageGatesAssumption DEF Back
  <2> QED BY <1>1, <1>2, <2>1
<1>3. CASE ~ (order = BuiltIn /\ m = Len(order))
  <2>1. Back(m) = m - 1
    BY <1>3, Zenon DEF Back
  <2> QED BY <1>1, <2>1
<1> QED BY <1>2, <1>3

(* A path, by where it begins and ends.                                     *)
LEMMA PathNow ==
    ASSUME GateInv, NEW from, NEW to \in Stops, HasPath(from, to), ~ CanTransition(from, to)
    PROVE  /\ strict /\ to # Archived /\ from # to
           /\ from \in OnBoard(order) \union {Archived} /\ to \in OnBoard(order)
           /\ Place(to) \in 1..Len(order) /\ order[Place(to)] = to
           /\ Place(from) \in 0..Len(order) /\ Place(from) # Place(to)
           /\ from # Archived => Place(from) \in 1..Len(order) /\ order[Place(from)] = from
           /\ Place(from) < Place(to) =>
                Path(from, to) = SubSeq(order, Place(from) + 1, Place(to))
           /\ Place(to) < Place(from) /\ Place(to) <= Back(Place(from)) =>
                Path(from, to) = [n \in 1..(Back(Place(from)) - Place(to) + 1) |->
                                     order[Back(Place(from)) + 1 - n]]
           /\ Place(to) < Place(from) /\ Place(to) > Back(Place(from)) =>
                /\ Path(from, to) = SubSeq(order, Back(Place(from)), Place(to))
                /\ order = BuiltIn /\ Place(from) = Len(order)
                /\ Back(Place(from)) >= 1 /\ Place(to) = Back(Place(from)) + 1
<1>1. /\ strict /\ from # to /\ to # Archived
      /\ from \in OnBoard(order) \union {Archived} /\ to \in OnBoard(order)
  BY DEF HasPath, CanTransition
<1>2. \A s \in OnBoard(order) : s # Archived /\ Place(s) = Ordinal(s)
                                /\ Place(s) \in 1..Len(order) /\ order[Place(s)] = s
  BY OrderNow, StageGatesAssumption DEF Place
<1>3. /\ Place(to) = Ordinal(to) /\ Place(to) \in 1..Len(order) /\ order[Place(to)] = to
      /\ Len(order) \in Nat /\ Place(Archived) = 0
      /\ from # Archived => Place(from) \in 1..Len(order) /\ order[Place(from)] = from
  BY <1>1, <1>2, OrderNow DEF Place
<1>4. Place(from) \in 0..Len(order) /\ Place(from) # Place(to)
  BY <1>1, <1>3
<1> DEFINE i == Place(from)
           j == Place(to)
<1>5. Path(from, to) = CASE CanTransition(from, to) -> <<to>>
          [] ~CanTransition(from, to) /\ i < j -> SubSeq(order, i + 1, j)
          [] ~CanTransition(from, to) /\ j <= Back(i) ->
                [n \in 1..(Back(i) - j + 1) |-> order[Back(i) + 1 - n]]
          [] OTHER -> SubSeq(order, Back(i), j)
  BY <1>3, Zenon DEF Path, Place
<1>6. j < i => /\ i \in 1..Len(order)
               /\ Back(i) \in 0..(i - 1)
               /\ \/ Back(i) = i - 1
                  \/ order = BuiltIn /\ i = Len(order) /\ Back(i) = i - 2 /\ Back(i) >= 1
  <2> SUFFICES ASSUME j < i PROVE i \in 1..Len(order)
    BY WayBack
  <2> HIDE DEF i, j
  <2> QED BY <1>3, <1>4 DEF i, j
<1> HIDE DEF i, j
<1>7. i < j => Path(from, to) = SubSeq(order, i + 1, j)
  <2> SUFFICES ASSUME i < j PROVE Path(from, to) = SubSeq(order, i + 1, j)
    OBVIOUS
  <2>1. ~ (j <= Back(i))
    <3>1. i \in 0..Len(order) /\ j \in 1..Len(order) /\ Len(order) \in Nat
      BY <1>3, <1>4 DEF i, j
    <3>2. Back(i) = i - 1 \/ Back(i) = i - 2
      BY DEF Back
    <3> QED BY <3>1, <3>2
  <2> QED BY <1>5, <2>1
<1>8. j < i => ~ (i < j)
  BY <1>3, <1>4 DEF i, j
<1>9. j < i /\ j <= Back(i) => Path(from, to) = [n \in 1..(Back(i) - j + 1) |-> order[Back(i) + 1 - n]]
  BY <1>5, <1>8
<1>10. j < i /\ j > Back(i) => Path(from, to) = SubSeq(order, Back(i), j) /\ ~ (j <= Back(i))
  <2> SUFFICES ASSUME j < i, j > Back(i)
               PROVE  Path(from, to) = SubSeq(order, Back(i), j) /\ ~ (j <= Back(i))
    OBVIOUS
  <2>1. ~ (j <= Back(i))
    BY <1>3, <1>4, <1>6 DEF i, j
  <2> QED BY <1>5, <1>8, <2>1
<1>11. j < i /\ j > Back(i) => /\ order = BuiltIn /\ i = Len(order)
                               /\ Back(i) >= 1 /\ j = Back(i) + 1
  BY <1>3, <1>4, <1>6 DEF i, j
<1> QED BY <1>1, <1>3, <1>4, <1>7, <1>9, <1>10, <1>11 DEF i, j

(* A path is a walk over stages.                                            *)
LEMMA PathIsAWalk ==
    ASSUME GateInv, NEW from, NEW to \in Stops, HasPath(from, to)
    PROVE  Path(from, to) \in Seq(Stops) /\ Path(from, to) # <<>>
<1> DEFINE i == Place(from)
           j == Place(to)
           b == Back(i)
<1>1. CASE CanTransition(from, to)
  <2>1. Path(from, to) = <<to>>
    BY <1>1, Zenon DEF Path
  <2> QED BY <2>1
<1>2. CASE ~ CanTransition(from, to)
  <2>1. /\ i \in 0..Len(order) /\ j \in 1..Len(order) /\ i # j
        /\ i < j => Path(from, to) = SubSeq(order, i + 1, j)
        /\ j < i /\ j <= b => Path(from, to) = [n \in 1..(b - j + 1) |-> order[b + 1 - n]]
        /\ j < i /\ j > b => Path(from, to) = SubSeq(order, b, j) /\ b >= 1 /\ j = b + 1
    BY <1>2, PathNow
  <2>2. j < i => b \in 0..(i - 1)
    <3> SUFFICES ASSUME j < i PROVE b \in 0..(i - 1)
      OBVIOUS
    <3>1. i \in 1..Len(order)
      <4> HIDE DEF i, j
      <4> QED BY <2>1, OrderNow
    <3> QED BY <3>1, WayBack
  <2> HIDE DEF i, j, b
  <2>3. Len(order) \in Nat /\ order \in Seq(Stages) /\ \A n \in 1..Len(order) : order[n] \in Stops
    BY OrderNow DEF Stops
  <2>4. \A m, n \in 1..Len(order) : m <= n =>
           SubSeq(order, m, n) \in Seq(Stops) /\ Len(SubSeq(order, m, n)) = n - m + 1
    <3> SUFFICES ASSUME NEW m \in 1..Len(order), NEW n \in 1..Len(order), m <= n
                 PROVE  SubSeq(order, m, n) \in Seq(Stops) /\ Len(SubSeq(order, m, n)) = n - m + 1
      OBVIOUS
    <3>1. SubSeq(order, m, n) = [k \in 1..(n - m + 1) |-> order[m + k - 1]]
      BY <2>3
    <3> QED BY <2>3, <3>1
  <2>5. CASE i < j
    <3>1. i + 1 \in 1..Len(order) /\ i + 1 <= j /\ j - (i + 1) + 1 > 0
      BY <2>1, <2>3, <2>5
    <3>2. SubSeq(order, i + 1, j) \in Seq(Stops) /\ Len(SubSeq(order, i + 1, j)) > 0
      BY <2>1, <2>4, <3>1
    <3>3. Path(from, to) = SubSeq(order, i + 1, j)
      BY <2>1, <2>5
    <3>4. Path(from, to) \in Seq(Stops) /\ Len(Path(from, to)) > 0
      BY <3>2, <3>3
    <3> QED BY <3>4
  <2>6. CASE j < i /\ j <= b
    <3> DEFINE back == [n \in 1..(b - j + 1) |-> order[b + 1 - n]]
    <3>1. back \in Seq(Stops) /\ Len(back) = b - j + 1
      <4>1. b \in Nat /\ j \in Nat /\ 1 <= j /\ j <= b /\ b <= Len(order)
        BY <2>1, <2>2, <2>3, <2>6
      <4>2. \A n \in 1..(b - j + 1) : b + 1 - n \in 1..Len(order)
        BY <2>3, <4>1
      <4>3. \A n \in 1..(b - j + 1) : order[b + 1 - n] \in Stops
        BY <2>3, <4>2
      <4>4. b - j + 1 \in Nat
        BY <4>1
      <4> QED BY <4>3, <4>4
    <3>2. b - j + 1 > 0
      BY <2>1, <2>2, <2>3, <2>6
    <3>3. Path(from, to) = back
      BY <2>1, <2>6
    <3> HIDE DEF back
    <3> QED BY <3>1, <3>2, <3>3
  <2>7. CASE j < i /\ j > b
    <3>1. b \in 1..Len(order) /\ b <= j /\ j - b + 1 > 0
      BY <2>1, <2>2, <2>3, <2>7
    <3>2. SubSeq(order, b, j) \in Seq(Stops) /\ Len(SubSeq(order, b, j)) > 0
      BY <2>1, <2>4, <3>1
    <3>3. Path(from, to) = SubSeq(order, b, j)
      BY <2>1, <2>7
    <3>4. Path(from, to) \in Seq(Stops) /\ Len(Path(from, to)) > 0
      BY <3>2, <3>3
    <3> QED BY <3>4
  <2>8. i < j \/ (j < i /\ j <= b) \/ (j < i /\ j > b)
    BY <2>1, <2>2, <2>3
  <2> QED BY <2>5, <2>6, <2>7, <2>8
<1> QED BY <1>1, <1>2

LEMMA PatchAskKeeps ==
    ASSUME GateInv, NEW c \in GateCalls, NEW x \in Tickets, PatchAsk(c, x)
    PROVE  GateInv'
<1>1. PICK to \in Stages \union {Archived}, fill \in {"keep", "set", "clear"}, advance \in BOOLEAN :
       /\ tried < MaxGateCalls
       /\ advance => HasPath(ticket[x].status, to)
       /\ tried' = tried + 1
       /\ patch' = [patch EXCEPT ![c] =
             [stage |-> "hop", ticket |-> x, fill |-> fill,
              hops |-> IF advance THEN Path(ticket[x].status, to) ELSE <<to>>]]
       /\ UNCHANGED <<order, strict, gate, ticket, lost>>
  BY DEF PatchAsk
<1> DEFINE hops == IF advance THEN Path(ticket[x].status, to) ELSE <<to>>
           r == [stage |-> "hop", ticket |-> x, fill |-> fill, hops |-> hops]
<1>2. hops \in Seq(Stops) /\ hops # <<>>
  <2>1. <<to>> \in Seq(Stops) /\ <<to>> # <<>> /\ to \in Stops
    BY DEF Stops
  <2> QED BY <1>1, <2>1, PathIsAWalk
<1> HIDE DEF hops
<1>3. PatchSound(r)
  BY <1>2 DEF PatchSound
<1>4. tried' \in 0..MaxGateCalls
  BY <1>1, StageGatesAssumption DEF GateInv, GateTypeOK
<1>5. patch' = [patch EXCEPT ![c] = r]
  BY <1>1 DEF hops
<1> HIDE DEF r
<1> QED BY <1>1, <1>3, <1>4, <1>5, PatchStep

LEMMA HopReadKeeps ==
    ASSUME GateInv, NEW c \in GateCalls, HopRead(c)
    PROVE  GateInv'
<1> DEFINE x == patch[c].ticket
           to == Head(patch[c].hops)
           fill == patch[c].fill
           hops == patch[c].hops
           saw == [order |-> order, gate |-> gate, ticket |-> ticket[x]]
           r == [stage |-> "write", ticket |-> x, fill |-> fill, hops |-> hops, saw |-> saw]
<1>1. /\ patch[c].stage = "hop" /\ UNCHANGED <<order, strict, gate, ticket, tried, lost>>
      /\ x \in Tickets /\ hops \in Seq(Stops) /\ hops # <<>>
      /\ tried' \in 0..MaxGateCalls
  BY DEF HopRead, GateInv, Patches, PatchSound, GateTypeOK
<1>2. CASE patch' = [patch EXCEPT ![c] = NoPatch]
  BY <1>1, <1>2, NoPatchIsSound, PatchStep
<1>3. CASE MayMove(ticket[x], FillNow(c), to) /\ patch' = [patch EXCEPT ![c] = r]
  <2>1. ticket[x] \in TicketRows({g \in Gates : gate[g] # NoStage})
    BY <1>1 DEF GateInv, GateTypeOK, TicketRows
  <2>2. FillOf(r) = FillNow(c)
    BY DEF FillOf, FillNow
  <2>3. ASSUME {ticket[x].status, to} \subseteq OnBoard(order), Ordinal(to) > Ordinal(ticket[x].status),
               NEW g \in Gates, NEW i \in Ordinal(ticket[x].status)..(Ordinal(to) - 1),
               gate[g] = order[i]
        PROVE  /\ g \in FieldGates => Field(ticket[x].filled, FillNow(c))
               /\ g \notin FieldGates => g \in ticket[x].done
    <3>1. g \in Passed(ticket[x].status, to)
      BY <2>3 DEF Passed
    <3>2. Satisfied([ticket[x] EXCEPT !.filled = Field(ticket[x].filled, FillNow(c))], g)
      BY <1>3, <2>3, <3>1 DEF MayMove, Forward
    <3> DEFINE t == [ticket[x] EXCEPT !.filled = Field(ticket[x].filled, FillNow(c))]
    <3>3. t.filled = Field(ticket[x].filled, FillNow(c)) /\ t.done = ticket[x].done
      BY <2>1 DEF TicketRows
    <3>4. Satisfied(t, g)
      BY <3>2
    <3> HIDE DEF t
    <3> QED BY <3>3, <3>4, Zenon DEF Satisfied
  <2>4. Looked(r)
    <3>1. r.saw.order = order /\ r.saw.gate = gate /\ r.saw.ticket = ticket[x] /\ r.hops = hops
      OBVIOUS
    <3>2. \A s : OrdinalIn(order, s) = Ordinal(s)
      BY DEF OrdinalIn, Ordinal
    <3> HIDE DEF r
    <3> QED BY <2>2, <2>3, <3>1, <3>2 DEF Looked
  <2>5. PatchSound(r)
    BY <1>1, <2>4 DEF PatchSound
  <2> HIDE DEF r
  <2> QED BY <1>1, <1>3, <2>5, PatchStep
<1> QED BY <1>2, <1>3 DEF HopRead

(* The rows of the ticket table.                                            *)
LEMMA TicketsNow ==
    ASSUME GateInv
    PROVE  /\ ticket = [y \in Tickets |-> ticket[y]]
           /\ \A y \in Tickets : /\ ticket[y] \in TicketRows({g \in Gates : gate[g] # NoStage})
                                 /\ ticket[y] = [status |-> ticket[y].status, filled |-> ticket[y].filled,
                                                 done |-> ticket[y].done]
<1>1. ticket \in [Tickets -> TicketRows({g \in Gates : gate[g] # NoStage})]
  BY DEF GateInv, GateTypeOK, TicketRows
<1>2. ticket = [y \in Tickets |-> ticket[y]]
  BY <1>1
<1>3. \A y \in Tickets : ticket[y] \in TicketRows({g \in Gates : gate[g] # NoStage})
  BY <1>1
<1>4. \A y \in Tickets : ticket[y] = [status |-> ticket[y].status, filled |-> ticket[y].filled,
                                      done |-> ticket[y].done]
  BY <1>3 DEF TicketRows
<1> QED BY <1>2, <1>3, <1>4

(* A write of one row, and of nothing else of the tables.                   *)
LEMMA TicketStep ==
    ASSUME GateInv, NEW x \in Tickets, NEW row, row \in TicketRows({g \in Gates : gate[g] # NoStage}),
           ticket' = [ticket EXCEPT ![x] = row], UNCHANGED <<order, strict, gate>>,
           tried' \in 0..MaxGateCalls,
           \/ lost' = lost \union {x}
           \/ row.status \in OnBoard(order) \union {Archived, NoStage} /\ lost' \in {lost, lost \ {x}}
           \/ row.status = ticket[x].status /\ lost' = lost
    PROVE  GateTypeOK' /\ StatusIsAStage'
<1>1. gate' = gate /\ order' = order /\ strict' = strict
  OBVIOUS
<1>2. ticket' \in [Tickets -> TicketRows({g \in Gates : gate[g] # NoStage})]
  BY DEF GateInv, GateTypeOK, TicketRows
<1>3. ticket' \in [Tickets -> TicketRows({g \in Gates : gate'[g] # NoStage})]
  BY <1>1, <1>2
<1>4. lost' \subseteq Tickets
  BY DEF GateInv, GateTypeOK
<1>5. GateTypeOK'
  BY <1>1, <1>3, <1>4 DEF GateInv, GateTypeOK, TicketRows
<1>6. ticket'[x] = row /\ \A y \in Tickets \ {x} : ticket'[y] = ticket[y]
  BY TicketsNow
<1>7. \A y \in Tickets \ lost' : ticket'[y].status \in OnBoard(order) \union {Archived, NoStage}
  BY <1>6 DEF GateInv, StatusIsAStage
<1>8. OnBoard(order)' = OnBoard(order)
  BY <1>1 DEF OnBoard
<1>9. StatusIsAStage'
  BY <1>7, <1>8 DEF StatusIsAStage
<1> QED BY <1>5, <1>9

LEMMA HopWriteKeeps ==
    ASSUME GateInv, NEW c \in GateCalls, HopWrite(c)
    PROVE  GateInv'
<1> DEFINE x == patch[c].ticket
           to == Head(patch[c].hops)
           rest == Tail(patch[c].hops)
           fill == patch[c].fill
           full == Field(ticket[x].filled, FillNow(c))
           row == [status |-> to, filled |-> full, done |-> ticket[x].done]
           r == [stage |-> "hop", ticket |-> x, fill |-> fill, hops |-> rest]
<1>1. /\ patch[c].stage = "write"
      /\ ticket' = [ticket EXCEPT ![x].status = to, ![x].filled = Field(@, FillNow(c))]
      /\ lost' = IF to \in OnBoard(order) \union {Archived} THEN lost \ {x} ELSE lost \union {x}
      /\ patch' = [patch EXCEPT ![c] = IF rest = <<>> THEN NoPatch ELSE r]
      /\ UNCHANGED <<order, strict, gate, tried>>
  BY DEF HopWrite
<1>2. x \in Tickets /\ patch[c].hops \in Seq(Stops) /\ patch[c].hops # <<>>
  BY <1>1 DEF GateInv, Patches, PatchSound
<1>3. to \in Stops /\ rest \in Seq(Stops)
  BY <1>2, HeadTailProperties
<1>4. /\ ticket[x] \in TicketRows({g \in Gates : gate[g] # NoStage})
      /\ ticket[x] = [status |-> ticket[x].status, filled |-> ticket[x].filled, done |-> ticket[x].done]
      /\ ticket = [y \in Tickets |-> ticket[y]]
  BY <1>2, TicketsNow
<1>5. ticket' = [ticket EXCEPT ![x] = [ticket[x] EXCEPT !.status = to, !.filled = full]]
  BY <1>1, <1>2, <1>4
<1>6. [ticket[x] EXCEPT !.status = to, !.filled = full] = row
  <2>1. ticket[x] \in [status : Stages \union {Archived, NoStage}, filled : BOOLEAN, done : SUBSET Gates]
    BY <1>4 DEF TicketRows
  <2> DEFINE t == ticket[x]
  <2>2. t \in [status : Stages \union {Archived, NoStage}, filled : BOOLEAN, done : SUBSET Gates]
    BY <2>1
  <2> HIDE DEF full, to, t
  <2>3. [t EXCEPT !.status = to] = [status |-> to, filled |-> t.filled, done |-> t.done]
    BY <2>2
  <2>4. [t EXCEPT !.status = to, !.filled = full] = [[t EXCEPT !.status = to] EXCEPT !.filled = full]
    OBVIOUS
  <2>5. \A f : [[status |-> to, filled |-> f, done |-> t.done] EXCEPT !.filled = full]
                = [status |-> to, filled |-> full, done |-> t.done]
    OBVIOUS
  <2>6. [[status |-> to, filled |-> t.filled, done |-> t.done] EXCEPT !.filled = full]
           = [status |-> to, filled |-> full, done |-> t.done]
    BY <2>5
  <2>7. [t EXCEPT !.status = to, !.filled = full] = [status |-> to, filled |-> full, done |-> t.done]
    BY <2>3, <2>4, <2>6
  <2> QED BY <2>7 DEF t
<1>7. full \in BOOLEAN
  <2>1. ticket[x].filled \in BOOLEAN
    BY <1>4 DEF TicketRows
  <2> QED BY <2>1, Zenon DEF Field
<1>8. row \in TicketRows({g \in Gates : gate[g] # NoStage})
  <2>1. ticket[x].done \in SUBSET {g \in Gates : gate[g] # NoStage} /\ to \in Stages \union {Archived, NoStage}
    BY <1>3, <1>4 DEF TicketRows, Stops
  <2> HIDE DEF full, to
  <2> QED BY <1>7, <2>1 DEF TicketRows
<1>9. ticket' = [ticket EXCEPT ![x] = row] /\ row.status = to
  BY <1>5, <1>6
<1>10. tried' \in 0..MaxGateCalls
  BY <1>1 DEF GateInv, GateTypeOK
<1>11. PatchSound(IF rest = <<>> THEN NoPatch ELSE r)
  <2>1. rest # <<>> => PatchSound(r)
    BY <1>2, <1>3 DEF PatchSound
  <2> QED BY <2>1, NoPatchIsSound
<1> HIDE DEF x, to, rest, row, r
<1>12. Patches'
  BY <1>1, <1>11, PatchMoves
<1>13. GateTypeOK' /\ StatusIsAStage'
  <2>1. \/ lost' = lost \union {x}
        \/ row.status \in OnBoard(order) \union {Archived, NoStage} /\ lost' \in {lost, lost \ {x}}
    BY <1>1, <1>9 DEF to, x
  <2>2. UNCHANGED <<order, strict, gate>> /\ x \in Tickets
    BY <1>1, <1>2
  <2> QED BY <1>8, <1>9, <1>10, <2>1, <2>2, TicketStep
<1> QED BY <1>12, <1>13 DEF GateInv

-------------------------------------------------------------------------------
(* What an admin does leaves the patches under way alone.                   *)
LEMMA AdminKeeps ==
    ASSUME GateInv, Administer
    PROVE  Patches' /\ tried' \in 0..MaxGateCalls
<1>1. patch' = patch /\ tried' \in 0..MaxGateCalls
  BY StageGatesAssumption DEF Administer, GateInv, GateTypeOK
<1> QED BY <1>1 DEF GateInv, Patches

LEMMA ReplaceStatusesKeeps ==
    ASSUME GateInv, NEW o \in Orders, ReplaceStatuses(o)
    PROVE  GateInv'
<1> DEFINE gone == {g \in Gates : gate[g] \notin OnBoard(o) \union {Archived}}
           kept == [g \in Gates |-> IF g \in gone THEN NoStage ELSE gate[g]]
           row(x) == [Rehomed(ticket[x], o) EXCEPT !.done = @ \ gone]
<1>1. /\ Administer /\ order' = o /\ gate' = kept
      /\ ticket' = [x \in Tickets |-> row(x)]
      /\ lost' = {} /\ strict' = strict
  BY DEF ReplaceStatuses
<1>2. o[1] \in OnBoard(o) /\ OnBoard(o) \subseteq Stages
  BY StageGatesAssumption DEF OnBoard
<1>3. gate' \in [Gates -> Stages \union {NoStage}]
  BY <1>1 DEF GateInv, GateTypeOK
<1>4. \A g \in Gates : gate[g] # NoStage /\ g \notin gone => gate'[g] # NoStage
  BY <1>1
<1>5. ASSUME NEW x \in Tickets
      PROVE  /\ row(x) \in TicketRows({g \in Gates : gate'[g] # NoStage})
             /\ row(x).status \in OnBoard(o) \union {Archived, NoStage}
  <2> DEFINE t == Rehomed(ticket[x], o)
  <2>1. ticket[x] \in TicketRows({g \in Gates : gate[g] # NoStage})
    BY TicketsNow
  <2>2. /\ t \in TicketRows({g \in Gates : gate[g] # NoStage})
        /\ t.status \in OnBoard(o) \union {Archived, NoStage}
    <3>1. CASE ticket[x].status \in OnBoard(o) \union {Archived, NoStage}
      BY <2>1, <3>1, Zenon DEF Rehomed
    <3>2. CASE ticket[x].status \notin OnBoard(o) \union {Archived, NoStage}
      <4>1. t = [ticket[x] EXCEPT !.status = o[1]]
        BY <3>2, Zenon DEF Rehomed
      <4> QED BY <1>2, <2>1, <4>1 DEF TicketRows
    <3> QED BY <3>1, <3>2
  <2> HIDE DEF t
  <2>3. [t EXCEPT !.done = @ \ gone] \in TicketRows({g \in Gates : gate'[g] # NoStage})
    <3>1. t.done \ gone \in SUBSET {g \in Gates : gate'[g] # NoStage}
      BY <1>4, <2>2 DEF TicketRows
    <3> HIDE DEF gone
    <3> QED BY <2>2, <3>1 DEF TicketRows
  <2>4. [t EXCEPT !.done = @ \ gone].status = t.status
    BY <2>2 DEF TicketRows
  <2> QED BY <2>2, <2>3, <2>4 DEF t
<1> HIDE DEF row
<1>6. ticket' \in [Tickets -> TicketRows({g \in Gates : gate'[g] # NoStage})]
  BY <1>1, <1>5
<1>7. GateTypeOK'
  BY <1>1, <1>3, <1>6, AdminKeeps DEF GateInv, GateTypeOK, TicketRows
<1>8. StatusIsAStage'
  BY <1>1, <1>5 DEF StatusIsAStage, OnBoard
<1> QED BY <1>1, <1>7, <1>8, AdminKeeps DEF GateInv

LEMMA ReplaceGateKeeps ==
    ASSUME GateInv, NEW h \in Gates, NEW s \in Stages \union {NoStage}, ReplaceGate(h, s)
    PROVE  GateInv'
<1> DEFINE row(x) == IF s = NoStage THEN [ticket[x] EXCEPT !.done = @ \ {h}] ELSE ticket[x]
<1>1. /\ Administer /\ gate' = [gate EXCEPT ![h] = s]
      /\ ticket' = [x \in Tickets |-> row(x)]
      /\ order' = order /\ strict' = strict /\ lost' = lost
  BY DEF ReplaceGate
<1>2. gate' \in [Gates -> Stages \union {NoStage}]
  BY <1>1 DEF GateInv, GateTypeOK
<1>3. \A g \in Gates : gate[g] # NoStage /\ (s = NoStage => g # h) => gate'[g] # NoStage
  BY <1>1 DEF GateInv, GateTypeOK
<1>4. ASSUME NEW x \in Tickets
      PROVE  /\ row(x) \in TicketRows({g \in Gates : gate'[g] # NoStage})
             /\ row(x).status = ticket[x].status
  <2>1. ticket[x] \in TicketRows({g \in Gates : gate[g] # NoStage})
    BY TicketsNow
  <2>2. CASE s = NoStage
    <3>1. ticket[x].done \ {h} \in SUBSET {g \in Gates : gate'[g] # NoStage}
      BY <1>3, <2>1, <2>2 DEF TicketRows
    <3>2. row(x) = [ticket[x] EXCEPT !.done = ticket[x].done \ {h}]
      BY <2>2
    <3> QED BY <2>1, <3>1, <3>2 DEF TicketRows
  <2>3. CASE s # NoStage
    BY <1>3, <2>1, <2>3 DEF TicketRows
  <2> QED BY <2>2, <2>3
<1> HIDE DEF row
<1>5. ticket' \in [Tickets -> TicketRows({g \in Gates : gate'[g] # NoStage})]
  BY <1>1, <1>4
<1>6. GateTypeOK'
  BY <1>1, <1>2, <1>5, AdminKeeps DEF GateInv, GateTypeOK, TicketRows
<1>7. StatusIsAStage'
  BY <1>1, <1>4 DEF GateInv, StatusIsAStage, OnBoard
<1> QED BY <1>1, <1>6, <1>7, AdminKeeps DEF GateInv

LEMMA TransitionModeKeeps ==
    ASSUME GateInv, SetTransitionMode
    PROVE  GateInv'
<1>1. Administer /\ strict' = ~strict /\ UNCHANGED <<order, gate, ticket, lost>>
  BY DEF SetTransitionMode
<1>2. strict' \in BOOLEAN
  BY <1>1, Zenon DEF GateInv, GateTypeOK
<1>3. GateTypeOK'
  BY <1>1, <1>2, AdminKeeps DEF GateInv, GateTypeOK
<1>4. StatusIsAStage'
  BY <1>1 DEF GateInv, StatusIsAStage, OnBoard
<1> QED BY <1>1, <1>3, <1>4, AdminKeeps DEF GateInv

LEMMA CompletionKeeps ==
    ASSUME GateInv, NEW x \in Tickets, NEW g \in Gates, SetGateCompletion(x, g)
    PROVE  GateInv'
<1> DEFINE done == IF g \in ticket[x].done THEN ticket[x].done \ {g} ELSE ticket[x].done \union {g}
           row == [ticket[x] EXCEPT !.done = done]
<1>1. /\ Administer /\ gate[g] # NoStage
      /\ ticket' = [ticket EXCEPT ![x].done = done]
      /\ UNCHANGED <<order, strict, gate>> /\ lost' = lost
  BY DEF SetGateCompletion
<1>2. ticket' = [ticket EXCEPT ![x] = row]
  BY <1>1
<1>3. ticket[x] \in TicketRows({k \in Gates : gate[k] # NoStage})
  BY TicketsNow
<1>4. done \in SUBSET {k \in Gates : gate[k] # NoStage}
  BY <1>1, <1>3 DEF TicketRows
<1> HIDE DEF done
<1>5. row \in TicketRows({k \in Gates : gate[k] # NoStage}) /\ row.status = ticket[x].status
  BY <1>3, <1>4 DEF TicketRows
<1>6. Patches' /\ tried' \in 0..MaxGateCalls
  BY <1>1, AdminKeeps
<1> HIDE DEF row
<1>7. GateTypeOK' /\ StatusIsAStage'
  BY <1>1, <1>2, <1>5, <1>6, TicketStep
<1> QED BY <1>6, <1>7 DEF GateInv

LEMMA CreateKeeps ==
    ASSUME GateInv, NEW x \in Tickets, Create(x)
    PROVE  GateInv'
<1> DEFINE row == [ticket[x] EXCEPT !.status = Backlog]
<1>1. /\ Administer
      /\ ticket' = [ticket EXCEPT ![x].status = Backlog]
      /\ lost' = IF Backlog \in OnBoard(order) THEN lost ELSE lost \union {x}
      /\ UNCHANGED <<order, strict, gate>>
  BY DEF Create
<1>2. ticket' = [ticket EXCEPT ![x] = row]
  BY <1>1
<1>3. ticket[x] \in TicketRows({k \in Gates : gate[k] # NoStage})
  BY TicketsNow
<1>4. row \in TicketRows({k \in Gates : gate[k] # NoStage}) /\ row.status = Backlog
  BY <1>3, StageGatesAssumption DEF TicketRows
<1>5. Patches' /\ tried' \in 0..MaxGateCalls
  BY <1>1, AdminKeeps
<1> HIDE DEF row
<1>6. \/ lost' = lost \union {x}
      \/ row.status \in OnBoard(order) \union {Archived, NoStage} /\ lost' \in {lost, lost \ {x}}
  BY <1>1, <1>4
<1>7. GateTypeOK' /\ StatusIsAStage'
  BY <1>1, <1>2, <1>4, <1>5, <1>6, TicketStep
<1> QED BY <1>5, <1>7 DEF GateInv

-------------------------------------------------------------------------------
LEMMA GateStarts == GateInit => GateInv
<1> SUFFICES ASSUME GateInit PROVE GateInv
  OBVIOUS
<1>1. order \in Orders /\ order[1] \in OnBoard(order) /\ OnBoard(order) \subseteq Stages
  BY StageGatesAssumption DEF GateInit, OnBoard
<1>2. \A x \in Tickets : /\ ticket[x] \in TicketRows({g \in Gates : gate[g] # NoStage})
                         /\ ticket[x].status \in OnBoard(order) \union {NoStage}
  <2> SUFFICES ASSUME NEW x \in Tickets
               PROVE  /\ ticket[x] \in TicketRows({g \in Gates : gate[g] # NoStage})
                      /\ ticket[x].status \in OnBoard(order) \union {NoStage}
    OBVIOUS
  <2>1. ticket[x] \in {NoTicket, [NoTicket EXCEPT !.status = order[1]]}
    BY DEF GateInit
  <2>2. ticket[x] = [status |-> NoStage, filled |-> FALSE, done |-> {}]
        \/ ticket[x] = [status |-> order[1], filled |-> FALSE, done |-> {}]
    BY <2>1 DEF NoTicket
  <2>3. CASE ticket[x] = [status |-> NoStage, filled |-> FALSE, done |-> {}]
    BY <2>3 DEF TicketRows
  <2>4. CASE ticket[x] = [status |-> order[1], filled |-> FALSE, done |-> {}]
    <3>1. order[1] \in Stages
      BY <1>1
    <3> QED BY <1>1, <2>4, <3>1 DEF TicketRows
  <2> QED BY <2>2, <2>3, <2>4
<1>3. ticket \in [Tickets -> TicketRows({g \in Gates : gate[g] # NoStage})]
  BY <1>2 DEF GateInit
<1>4. gate \in [Gates -> Stages \union {NoStage}] /\ 0 \in 0..MaxGateCalls
  BY <1>1, StageGatesAssumption DEF GateInit
<1>5. GateTypeOK
  BY <1>1, <1>3, <1>4 DEF GateInit, GateTypeOK, TicketRows
<1>6. Patches
  BY NoPatchIsSound DEF GateInit, Patches
<1>7. StatusIsAStage
  BY <1>2 DEF StatusIsAStage
<1> QED BY <1>5, <1>6, <1>7 DEF GateInv

LEMMA GateSteps == GateInv /\ [GateNext]_gateVars => GateInv'
<1> SUFFICES ASSUME GateInv, [GateNext]_gateVars PROVE GateInv'
  OBVIOUS
<1>1. CASE UNCHANGED gateVars
  BY <1>1 DEF GateInv, GateTypeOK, StatusIsAStage, OnBoard, Patches, gateVars
<1>2. CASE GateNext
  BY <1>2, PatchAskKeeps, HopReadKeeps, HopWriteKeeps, ReplaceStatusesKeeps, ReplaceGateKeeps,
     TransitionModeKeeps, CompletionKeeps, CreateKeeps, Zenon DEF GateNext
<1> QED BY <1>1, <1>2

LEMMA GateAlways == GateSpec => []GateInv
BY GateStarts, GateSteps, PTL DEF GateSpec

(* An item is in a stage in force, but for the excused.                     *)
THEOREM StatusesAreStages == GateSpec => []StatusIsAStage
<1>1. GateInv => StatusIsAStage
  BY DEF GateInv
<1> QED BY <1>1, GateAlways, PTL

(* A patch at its write changes only there.                                 *)
LEMMA WriteIsTheStep ==
    ASSUME GateInv, [GateNext]_gateVars, NEW c \in GateCalls, patch[c].stage = "write", patch'[c] # patch[c]
    PROVE  HopWrite(c)
<1>1. ASSUME NEW d \in GateCalls, HopRead(d) \/ \E x \in Tickets : PatchAsk(d, x)
      PROVE  FALSE
  <2>1. DOMAIN patch = GateCalls /\ NoPatch.stage # "write"
    BY DEF GateInv, Patches, NoPatch
  <2>2. patch[d].stage # "write"
    BY <1>1, <2>1 DEF HopRead, PatchAsk
  <2>3. patch'[c] = patch[c]
    BY <1>1, <2>1, <2>2 DEF HopRead, PatchAsk
  <2> QED BY <2>3
<1>2. ASSUME NEW d \in GateCalls, HopWrite(d)
      PROVE  d = c
  BY <1>2 DEF HopWrite, GateInv, Patches
<1>3. ~ UNCHANGED patch
  OBVIOUS
<1> QED BY <1>1, <1>2, <1>3 DEF GateNext, gateVars, ReplaceStatuses, ReplaceGate, SetTransitionMode,
     SetGateCompletion, Create, Administer

(* A gate on the way of a write is satisfied as it moves the item, or what  *)
(* it asks for changed since the check.                                     *)
LEMMA WriteHonours ==
    ASSUME GateInv, NEW c \in GateCalls, HopWrite(c),
           Forward(ticket[patch[c].ticket].status, ticket'[patch[c].ticket].status),
           patch[c].saw.order = order, patch[c].saw.ticket.status = ticket[patch[c].ticket].status,
           NEW g \in Gates, gate[g] \in OnBoard(order),
           Ordinal(gate[g]) \in Ordinal(ticket[patch[c].ticket].status)
                                  ..(Ordinal(ticket'[patch[c].ticket].status) - 1)
    PROVE  \/ Satisfied(ticket'[patch[c].ticket], g)
           \/ gate[g] # patch[c].saw.gate[g]
           \/ (g \in ticket[patch[c].ticket].done) # (g \in patch[c].saw.ticket.done)
           \/ ticket[patch[c].ticket].filled # patch[c].saw.ticket.filled
<1> DEFINE x == patch[c].ticket
           to == Head(patch[c].hops)
           saw == patch[c].saw
           full == Field(ticket[x].filled, FillNow(c))
<1>1. /\ patch[c].stage = "write"
      /\ ticket' = [ticket EXCEPT ![x].status = to, ![x].filled = Field(@, FillNow(c))]
  BY DEF HopWrite
<1>2. x \in Tickets /\ Looked(patch[c])
  BY <1>1 DEF GateInv, Patches, PatchSound
<1>3. /\ ticket[x] \in TicketRows({h \in Gates : gate[h] # NoStage})
      /\ ticket = [y \in Tickets |-> ticket[y]]
  BY <1>2, TicketsNow
<1>4. ticket' = [ticket EXCEPT ![x] = [ticket[x] EXCEPT !.status = to, !.filled = full]]
  BY <1>1, <1>2, <1>3
<1>5. ticket'[x] = [ticket[x] EXCEPT !.status = to, !.filled = full]
  BY <1>2, <1>3, <1>4
<1>6. ticket'[x].status = to /\ ticket'[x].filled = full /\ ticket'[x].done = ticket[x].done
  <2> DEFINE t == ticket[x]
  <2>1. t \in [status : Stages \union {Archived, NoStage}, filled : BOOLEAN,
               done : SUBSET {h \in Gates : gate[h] # NoStage}]
    BY <1>3 DEF TicketRows
  <2>2. ticket'[x] = [t EXCEPT !.status = to, !.filled = full]
    BY <1>5
  <2> HIDE DEF full, to, t
  <2>3. [t EXCEPT !.status = to] = [status |-> to, filled |-> t.filled, done |-> t.done]
    BY <2>1
  <2>4. [t EXCEPT !.status = to, !.filled = full] = [[t EXCEPT !.status = to] EXCEPT !.filled = full]
    OBVIOUS
  <2>5. \A f : [[status |-> to, filled |-> f, done |-> t.done] EXCEPT !.filled = full]
                = [status |-> to, filled |-> full, done |-> t.done]
    OBVIOUS
  <2>6. [[status |-> to, filled |-> t.filled, done |-> t.done] EXCEPT !.filled = full]
           = [status |-> to, filled |-> full, done |-> t.done]
    BY <2>5
  <2>7. ticket'[x] = [status |-> to, filled |-> full, done |-> t.done]
    BY <2>2, <2>3, <2>4, <2>6
  <2> QED BY <2>7 DEF t
<1>7. /\ {ticket[x].status, to} \subseteq OnBoard(order) /\ Ordinal(to) > Ordinal(ticket[x].status)
      /\ Ordinal(gate[g]) \in Ordinal(ticket[x].status)..(Ordinal(to) - 1)
  BY <1>6 DEF Forward
<1>8. order[Ordinal(gate[g])] = gate[g]
  BY OrderNow
<1>9. \A s : OrdinalIn(order, s) = Ordinal(s)
  BY DEF OrdinalIn, Ordinal
<1> HIDE DEF x, to, full
<1>10. gate[g] = saw.gate[g]
         => /\ g \in FieldGates => Field(saw.ticket.filled, FillOf(patch[c]))
            /\ g \notin FieldGates => g \in saw.ticket.done
  <2>1. /\ saw.order = order /\ saw.ticket.status = ticket[x].status
    BY DEF x
  <2>2. to = Head(patch[c].hops)
    BY DEF to
  <2> HIDE DEF saw
  <2>3. patch[c].saw = saw
    BY DEF saw
  <2> QED BY <1>2, <1>7, <1>8, <1>9, <2>1, <2>2, <2>3 DEF Looked
<1>11. FillOf(patch[c]) = FillNow(c)
  BY DEF FillOf, FillNow
<1>12. SUFFICES ASSUME gate[g] = saw.gate[g], (g \in ticket[x].done) = (g \in saw.ticket.done),
                       ticket[x].filled = saw.ticket.filled
                PROVE  Satisfied(ticket'[x], g)
  BY Zenon DEF x
<1>13. g \in FieldGates => full
  BY <1>10, <1>11, <1>12, Zenon DEF full
<1>14. g \notin FieldGates => g \in ticket[x].done
  BY <1>10, <1>12, Zenon
<1> QED BY <1>6, <1>13, <1>14, Zenon DEF Satisfied

(* Forward past satisfied gates only, but for what changed since the check. *)
THEOREM GatesAreHonoured == GateSpec => GatesHonoured
<1> DEFINE Honours == \A c \in GateCalls :
          LET x == patch[c].ticket
              to == ticket'[x].status
              saw == patch[c].saw
          IN  /\ patch[c].stage = "write" /\ patch'[c] # patch[c]
              /\ Forward(ticket[x].status, to)
              /\ saw.order = order /\ saw.ticket.status = ticket[x].status
              => \A g \in {h \in Gates : gate[h] \in OnBoard(order)} :
                    Ordinal(gate[g]) \in Ordinal(ticket[x].status)..(Ordinal(to) - 1) =>
                       \/ Satisfied(ticket'[x], g)
                       \/ gate[g] # saw.gate[g]
                       \/ (g \in ticket[x].done) # (g \in saw.ticket.done)
                       \/ ticket[x].filled # saw.ticket.filled
<1>1. GateInv /\ [GateNext]_gateVars => Honours
  BY WriteIsTheStep, WriteHonours, Zenon
<1> QED BY <1>1, GateAlways, PTL DEF GateSpec, GatesHonoured

-------------------------------------------------------------------------------
(* shortestTransitionPath.                                                  *)

(* n hops from one status to another, none of them on archived but the last.*)
Walk(w, n, from, to) ==
    /\ w \in [0..n -> Stops] /\ w[0] = from /\ w[n] = to
    /\ \A k \in 1..n : CanTransition(w[k - 1], w[k])
    /\ \A k \in 1..(n - 1) : w[k] # Archived

(* The statuses a patch that advances goes through.                         *)
Way(from, to) == [k \in 0..Len(Path(from, to)) |-> IF k = 0 THEN from ELSE Path(from, to)[k]]

AdvanceIsShortest ==
    \A from, to \in Stops : HasPath(from, to) =>
       /\ Walk(Way(from, to), Len(Path(from, to)), from, to)
       /\ \A n \in Nat \ {0} : \A w : Walk(w, n, from, to) => Len(Path(from, to)) <= n

LEMMA PlaceOfStage ==
    ASSUME GateInv
    PROVE  /\ \A s \in OnBoard(order) \union {Archived} : Place(s) \in 0..Len(order)
           /\ \A s \in OnBoard(order) : s # Archived /\ Place(s) = Ordinal(s) /\ Place(s) \in 1..Len(order)
                                        /\ order[Place(s)] = s
           /\ \A m \in 1..Len(order) : /\ order[m] \in OnBoard(order) /\ Ordinal(order[m]) = m
                                       /\ order[m] \in Stops
           /\ Len(order) \in Nat /\ Place(Archived) = 0
<1>1. \A s \in OnBoard(order) : s # Archived
  BY OrderNow, StageGatesAssumption
<1>2. Len(order) \in Nat
  BY OrderNow
<1>3. \A m \in 1..Len(order) : order[m] \in OnBoard(order)
  BY OrderNow DEF OnBoard
<1>4. \A m \in 1..Len(order) : Ordinal(order[m]) = m
  BY <1>3, OrderNow
<1>5. \A s \in OnBoard(order) : Place(s) = Ordinal(s)
  BY <1>1 DEF Place
<1>6. Place(Archived) = 0
  BY DEF Place
<1>7. \A s \in OnBoard(order) : Place(s) \in 1..Len(order) /\ order[Place(s)] = s
  BY <1>5, OrderNow
<1>8. \A s \in OnBoard(order) \union {Archived} : Place(s) \in 0..Len(order)
  BY <1>2, <1>6, <1>7
<1>9. \A m \in 1..Len(order) : order[m] \in Stops
  BY <1>3, OrderNow DEF Stops
<1> QED BY <1>1, <1>2, <1>3, <1>4, <1>5, <1>6, <1>7, <1>8, <1>9

(* One on, and the one to go back to, are a legal hop away.                 *)
LEMMA NeighbourIsLegal ==
    ASSUME GateInv
    PROVE  /\ CanTransition(Archived, order[1])
           /\ \A m \in 1..(Len(order) - 1) : CanTransition(order[m], order[m + 1])
           /\ \A m \in 1..Len(order) : Back(m) >= 1 => CanTransition(order[m], order[Back(m)])
<1>1. 1 \in 1..Len(order) /\ Len(order) \in Nat
  BY OrderNow
<1>2. CanTransition(Archived, order[1])
  BY <1>1, PlaceOfStage DEF CanTransition
<1>3. ASSUME NEW m \in 1..(Len(order) - 1)
      PROVE  CanTransition(order[m], order[m + 1])
  <2>1. m \in 1..Len(order) /\ m + 1 \in 1..Len(order)
    BY <1>1
  <2>2. /\ order[m] \in OnBoard(order) /\ order[m + 1] \in OnBoard(order)
        /\ Ordinal(order[m]) = m /\ Ordinal(order[m + 1]) = m + 1
        /\ order[m] # Archived
    BY <2>1, PlaceOfStage
  <2> QED BY <2>2 DEF CanTransition
<1>4. ASSUME NEW m \in 1..Len(order), Back(m) >= 1
      PROVE  CanTransition(order[m], order[Back(m)])
  <2>1. Back(m) \in 1..Len(order)
    BY <1>1, <1>4, WayBack
  <2>2. /\ order[m] \in OnBoard(order) /\ order[Back(m)] \in OnBoard(order)
        /\ Ordinal(order[m]) = m /\ Ordinal(order[Back(m)]) = Back(m)
        /\ order[m] # Archived
    BY <2>1, PlaceOfStage
  <2> HIDE DEF Back
  <2> QED BY <2>2 DEF CanTransition
<1> QED BY <1>2, <1>3, <1>4

(* The path, when one hop will not do: on, back, or back and on again.      *)
LEMMA LongPath ==
    ASSUME GateInv, NEW from \in Stops, NEW to \in Stops, HasPath(from, to),
           ~ CanTransition(from, to)
    PROVE  /\ Place(from) < Place(to) =>
                /\ Len(Path(from, to)) = Place(to) - Place(from)
                /\ \A k \in 1..(Place(to) - Place(from)) : Path(from, to)[k] = order[Place(from) + k]
           /\ Place(to) < Place(from) /\ Place(to) <= Back(Place(from)) =>
                /\ Len(Path(from, to)) = Back(Place(from)) - Place(to) + 1
                /\ \A k \in 1..(Back(Place(from)) - Place(to) + 1) :
                      Path(from, to)[k] = order[Back(Place(from)) + 1 - k]
           /\ Place(to) < Place(from) /\ Place(to) > Back(Place(from)) =>
                /\ Len(Path(from, to)) = 2
                /\ Path(from, to)[1] = order[Back(Place(from))] /\ Path(from, to)[2] = to
<1> DEFINE i == Place(from)
           j == Place(to)
           b == Back(i)
<1>1. /\ i \in 0..Len(order) /\ j \in 1..Len(order) /\ order[j] = to
      /\ i < j => Path(from, to) = SubSeq(order, i + 1, j)
      /\ j < i /\ j <= b => Path(from, to) = [n \in 1..(b - j + 1) |-> order[b + 1 - n]]
      /\ j < i /\ j > b => Path(from, to) = SubSeq(order, b, j) /\ b >= 1 /\ j = b + 1
  BY PathNow
<1>2. j < i => b \in 0..(i - 1)
  <2> SUFFICES ASSUME j < i PROVE b \in 0..(i - 1)
    OBVIOUS
  <2>1. i \in 1..Len(order)
    <3> HIDE DEF i, j
    <3> QED BY <1>1, OrderNow
  <2> QED BY <2>1, WayBack
<1> HIDE DEF i, j, b
<1>3. order \in Seq(Stages) /\ Len(order) \in Nat
  BY OrderNow
<1>4. i < j => /\ Len(Path(from, to)) = j - i
               /\ \A k \in 1..(j - i) : Path(from, to)[k] = order[i + k]
  <2> SUFFICES ASSUME i < j PROVE /\ Len(Path(from, to)) = j - i
                                  /\ \A k \in 1..(j - i) : Path(from, to)[k] = order[i + k]
    OBVIOUS
  <2>1. i + 1 \in 1..Len(order) /\ j \in 1..Len(order) /\ j - i \in Nat /\ i + 1 <= j
    BY <1>1, <1>3
  <2>2. /\ Len(SubSeq(order, i + 1, j)) = j - (i + 1) + 1
        /\ \A k \in 1..(j - (i + 1) + 1) : SubSeq(order, i + 1, j)[k] = order[(i + 1) + k - 1]
    BY <1>3, <2>1, SubSeqProperties
  <2>3. Path(from, to) = SubSeq(order, i + 1, j)
    BY <1>1
  <2>4. j - (i + 1) + 1 = j - i /\ \A k \in 1..(j - i) : (i + 1) + k - 1 = i + k
    BY <1>1, <1>3, <2>1
  <2> QED BY <2>2, <2>3, <2>4
<1>5. j < i /\ j <= b => /\ Len(Path(from, to)) = b - j + 1
                         /\ \A k \in 1..(b - j + 1) : Path(from, to)[k] = order[b + 1 - k]
  <2> SUFFICES ASSUME j < i, j <= b
               PROVE  /\ Len(Path(from, to)) = b - j + 1
                      /\ \A k \in 1..(b - j + 1) : Path(from, to)[k] = order[b + 1 - k]
    OBVIOUS
  <2>1. Path(from, to) = [n \in 1..(b - j + 1) |-> order[b + 1 - n]] /\ b - j + 1 \in Nat
    BY <1>1, <1>2, <1>3
  <2> QED BY <2>1
<1>6. j < i /\ j > b => /\ Len(Path(from, to)) = 2
                        /\ Path(from, to)[1] = order[b] /\ Path(from, to)[2] = to
  <2> SUFFICES ASSUME j < i, j > b
               PROVE  /\ Len(Path(from, to)) = 2
                      /\ Path(from, to)[1] = order[b] /\ Path(from, to)[2] = to
    OBVIOUS
  <2>1. b \in 1..Len(order) /\ j \in 1..Len(order) /\ b <= j /\ j = b + 1 /\ order[j] = to
    BY <1>1, <1>2, <1>3
  <2>2. /\ Len(SubSeq(order, b, j)) = j - b + 1
        /\ \A k \in 1..(j - b + 1) : SubSeq(order, b, j)[k] = order[b + k - 1]
    BY <1>3, <2>1, SubSeqProperties
  <2>3. Path(from, to) = SubSeq(order, b, j)
    BY <1>1
  <2>4. j - b + 1 = 2 /\ b + 1 - 1 = b /\ b + 2 - 1 = j
    BY <2>1
  <2>5. 1 \in 1..(j - b + 1) /\ 2 \in 1..(j - b + 1)
    BY <2>4
  <2>6. Path(from, to)[1] = order[b + 1 - 1] /\ Path(from, to)[2] = order[b + 2 - 1]
    BY <2>2, <2>3, <2>5
  <2>7. Len(Path(from, to)) = 2
    BY <2>2, <2>3, <2>4
  <2>8. order[b + 1 - 1] = order[b] /\ order[b + 2 - 1] = order[j]
    BY <2>4
  <2> QED BY <2>1, <2>6, <2>7, <2>8
<1> QED BY <1>4, <1>5, <1>6 DEF i, j, b

(* The path is a legal way.                                                 *)
LEMMA WayIsAWalk ==
    ASSUME GateInv, NEW from \in Stops, NEW to \in Stops, HasPath(from, to)
    PROVE  Walk(Way(from, to), Len(Path(from, to)), from, to)
<1>1. CASE CanTransition(from, to)
  <2>1. Path(from, to) = <<to>>
    BY <1>1, Zenon DEF Path
  <2>2. Len(Path(from, to)) = 1 /\ Path(from, to)[1] = to
    BY <2>1
  <2>3. Way(from, to) \in [0..1 -> Stops] /\ Way(from, to)[0] = from /\ Way(from, to)[1] = to
    BY <2>2 DEF Way
  <2> QED BY <1>1, <2>2, <2>3 DEF Walk
<1>2. CASE ~ CanTransition(from, to)
  <2> DEFINE i == Place(from)
             j == Place(to)
             b == Back(i)
             n == Len(Path(from, to))
             way == Way(from, to)
  <2>1. /\ i < j => n = j - i /\ \A k \in 1..(j - i) : Path(from, to)[k] = order[i + k]
        /\ j < i /\ j <= b =>
              n = b - j + 1 /\ \A k \in 1..(b - j + 1) : Path(from, to)[k] = order[b + 1 - k]
        /\ j < i /\ j > b => n = 2 /\ Path(from, to)[1] = order[b] /\ Path(from, to)[2] = to
    BY <1>2, LongPath
  <2>2. /\ i \in 0..Len(order) /\ j \in 1..Len(order) /\ order[j] = to /\ Len(order) \in Nat
        /\ i # j
        /\ i = 0 => from = Archived
        /\ i > 0 => order[i] = from
        /\ \A m \in 1..Len(order) : order[m] \in Stops /\ order[m] # Archived
    BY <1>2, PathNow, PlaceOfStage
  <2>3. way = [k \in 0..n |-> IF k = 0 THEN from ELSE Path(from, to)[k]]
    BY DEF Way
  <2>4. /\ CanTransition(Archived, order[1])
        /\ \A m \in 1..(Len(order) - 1) : CanTransition(order[m], order[m + 1])
        /\ \A m \in 1..Len(order) : Back(m) >= 1 => CanTransition(order[m], order[Back(m)])
    BY NeighbourIsLegal
  <2>9. j < i => /\ i \in 1..Len(order) /\ b \in 0..(i - 1)
                 /\ \A m \in 1..(i - 1) : Back(m) = m - 1
                 /\ j > b => b >= 1 /\ j = b + 1
    <3> SUFFICES ASSUME j < i
                 PROVE  /\ i \in 1..Len(order) /\ b \in 0..(i - 1)
                        /\ \A m \in 1..(i - 1) : Back(m) = m - 1
                        /\ j > b => b >= 1 /\ j = b + 1
      OBVIOUS
    <3>1. i \in 1..Len(order) /\ i \in Nat /\ Len(order) \in Nat
      <4> HIDE DEF i, j
      <4> QED BY <2>2
    <3>2. b \in 0..(i - 1)
      BY <3>1, WayBack
    <3>3. \A m \in 1..(i - 1) : m \in 1..Len(order) /\ m # Len(order)
      <4> HIDE DEF i
      <4> QED BY <3>1
    <3>4. \A m \in 1..(i - 1) : Back(m) = m - 1
      BY <3>3, WayBack
    <3>5. j > b => b >= 1 /\ j = b + 1
      BY <1>2, PathNow
    <3> QED BY <3>1, <3>2, <3>4, <3>5
  <2> HIDE DEF i, j, b, n, way
  <2>5. CASE i < j
    <3>1. n = j - i /\ n \in Nat /\ n > 0
      BY <2>1, <2>2, <2>5
    <3>2. \A k \in 1..n : way[k] = order[i + k] /\ i + k \in 1..Len(order)
      BY <2>1, <2>2, <2>3, <2>5, <3>1
    <3>3. way[0] = from /\ way[n] = to
      <4>1. 0 \in 0..n /\ n \in 1..n /\ i + n = j
        BY <2>2, <3>1
      <4>2. way[0] = from
        BY <2>3, <4>1
      <4> QED BY <2>2, <3>2, <4>1, <4>2
    <3>4. way \in [0..n -> Stops]
      <4>1. DOMAIN way = 0..n /\ way = [k \in DOMAIN way |-> way[k]]
        BY <2>3
      <4>2. \A k \in 1..n : way[k] \in Stops
        BY <2>2, <3>2
      <4>3. \A k \in 0..n : way[k] \in Stops
        BY <3>1, <3>3, <4>2
      <4> QED BY <4>1, <4>3
    <3>5. ASSUME NEW k \in 1..n PROVE CanTransition(way[k - 1], way[k])
      <4>1. CASE k = 1 /\ i = 0
        BY <2>2, <2>4, <3>2, <3>3, <4>1
      <4>2. CASE k = 1 /\ i > 0
        BY <2>2, <2>4, <3>2, <3>3, <4>2
      <4>3. CASE k > 1
        <5>1. k - 1 \in 1..n /\ i + (k - 1) \in 1..(Len(order) - 1) /\ i + (k - 1) + 1 = i + k
          BY <2>2, <3>1, <3>2, <4>3
        <5>2. way[k - 1] = order[i + (k - 1)] /\ way[k] = order[i + k]
          BY <3>2, <5>1
        <5> QED BY <2>4, <5>1, <5>2
      <4> QED BY <2>2, <3>1, <4>1, <4>2, <4>3
    <3>6. \A k \in 1..(n - 1) : way[k] # Archived
      <4> SUFFICES ASSUME NEW k \in 1..(n - 1) PROVE way[k] # Archived
        OBVIOUS
      <4>1. k \in 1..n
        BY <3>1
      <4> QED BY <2>2, <3>2, <4>1
    <3> QED BY <3>3, <3>4, <3>5, <3>6 DEF Walk, n, way
  <2>6. CASE j < i /\ j <= b
    <3>1. n = b - j + 1 /\ n \in Nat /\ n > 0 /\ b \in 1..Len(order) /\ b < i
      BY <2>1, <2>2, <2>6, <2>9
    <3>2. \A k \in 1..n : way[k] = order[b + 1 - k] /\ b + 1 - k \in 1..Len(order)
      BY <2>1, <2>2, <2>3, <2>6, <3>1
    <3>3. way[0] = from /\ way[n] = to
      <4>1. 0 \in 0..n /\ n \in 1..n /\ b + 1 - n = j
        BY <2>2, <3>1
      <4>2. way[0] = from
        BY <2>3, <4>1
      <4> QED BY <2>2, <3>2, <4>1, <4>2
    <3>4. way \in [0..n -> Stops]
      <4>1. DOMAIN way = 0..n /\ way = [k \in DOMAIN way |-> way[k]]
        BY <2>3
      <4>2. \A k \in 1..n : way[k] \in Stops
        BY <2>2, <3>2
      <4>3. \A k \in 0..n : way[k] \in Stops
        BY <3>1, <3>3, <4>2
      <4> QED BY <4>1, <4>3
    <3>5. ASSUME NEW k \in 1..n PROVE CanTransition(way[k - 1], way[k])
      <4>1. CASE k = 1
        <5>1. way[k] = order[b] /\ way[k - 1] = order[i]
          BY <2>2, <2>6, <2>9, <3>1, <3>2, <3>3, <4>1
        <5>2. i \in 1..Len(order) /\ Back(i) >= 1
          BY <2>6, <2>9, <3>1 DEF b
        <5> QED BY <2>4, <5>1, <5>2 DEF b
      <4>2. CASE k > 1
        <5> DEFINE m == b + 1 - (k - 1)
        <5>1. k - 1 \in 1..n /\ m \in 1..(i - 1) /\ m \in 1..Len(order) /\ m - 1 = b + 1 - k /\ m - 1 >= 1
          BY <2>2, <2>6, <2>9, <3>1, <3>2, <4>2
        <5>2. way[k - 1] = order[m] /\ way[k] = order[m - 1]
          BY <3>2, <5>1
        <5> HIDE DEF m
        <5>3. Back(m) = m - 1
          BY <2>6, <2>9, <5>1
        <5> QED BY <2>4, <5>1, <5>2, <5>3
      <4> QED BY <3>1, <4>1, <4>2
    <3>6. \A k \in 1..(n - 1) : way[k] # Archived
      <4> SUFFICES ASSUME NEW k \in 1..(n - 1) PROVE way[k] # Archived
        OBVIOUS
      <4>1. k \in 1..n
        BY <3>1
      <4> QED BY <2>2, <3>2, <4>1
    <3> QED BY <3>3, <3>4, <3>5, <3>6 DEF Walk, n, way
  <2>7. CASE j < i /\ j > b
    <3>1. n = 2 /\ b \in 1..(Len(order) - 1) /\ j = b + 1 /\ i \in 1..Len(order)
      BY <2>1, <2>2, <2>7, <2>9
    <3>2. way[0] = order[i] /\ way[1] = order[b] /\ way[2] = order[j]
      BY <2>1, <2>2, <2>3, <2>7, <3>1
    <3>3. way[0] = from /\ way[n] = to
      BY <2>2, <3>1, <3>2
    <3>4. way \in [0..n -> Stops]
      <4>1. DOMAIN way = 0..n /\ way = [k \in DOMAIN way |-> way[k]]
        BY <2>3
      <4>2. i \in 1..Len(order) /\ b \in 1..Len(order) /\ j \in 1..Len(order)
        BY <2>2, <3>1
      <4>3. \A k \in 0..n : k = 0 \/ k = 1 \/ k = 2
        BY <3>1
      <4>4. \A k \in 0..n : way[k] \in Stops
        BY <2>2, <3>2, <4>2, <4>3
      <4> QED BY <4>1, <4>4
    <3>5. ASSUME NEW k \in 1..n PROVE CanTransition(way[k - 1], way[k])
      <4>1. CASE k = 1
        <5>1. CanTransition(order[i], order[b])
          BY <2>4, <3>1 DEF b
        <5> QED BY <3>2, <4>1, <5>1
      <4>2. CASE k = 2
        <5>1. CanTransition(order[b], order[j])
          BY <2>4, <3>1
        <5> QED BY <3>2, <4>2, <5>1
      <4> QED BY <3>1, <4>1, <4>2
    <3>6. \A k \in 1..(n - 1) : way[k] # Archived
      <4>1. \A k \in 1..(n - 1) : k = 1
        BY <3>1
      <4>2. b \in 1..Len(order)
        BY <2>2, <3>1
      <4> QED BY <2>2, <3>2, <4>1, <4>2
    <3> QED BY <3>3, <3>4, <3>5, <3>6 DEF Walk, n, way
  <2>8. i < j \/ (j < i /\ j <= b) \/ (j < i /\ j > b)
    BY <2>2, <2>9
  <2> QED BY <2>5, <2>6, <2>7, <2>8
<1> QED BY <1>1, <1>2

(* A place as a walk back counts it: from the last of the built-in stages    *)
(* it is as far as from the one before.                                     *)
Low(s) == IF order = BuiltIn /\ Place(s) = Len(order) THEN Len(order) - 1 ELSE Place(s)

(* A hop of a strict workflow, archiving aside, gets at most one place       *)
(* further on, and at most one further back.                                *)
LEMMA OnePlaceAHop ==
    ASSUME GateInv, strict, NEW s \in OnBoard(order) \union {Archived}, NEW t, t # Archived,
           CanTransition(s, t)
    PROVE  /\ t \in OnBoard(order)
           /\ Place(t) <= Place(s) + 1
           /\ Low(s) - 1 <= Low(t)
<1>1. Place(s) \in 0..Len(order) /\ Len(order) \in Nat /\ Len(order) >= 2
  BY OrderNow, PlaceOfStage
<1>2. CASE s = t
  <2>1. Low(s) \in Int
    BY <1>1 DEF Low
  <2> QED BY <1>1, <1>2, <2>1
<1>3. CASE s # t
  <2>1. t \in OnBoard(order)
    BY <1>3 DEF CanTransition
  <2>2. Place(t) = Ordinal(t) /\ Place(t) \in 1..Len(order)
    BY <2>1, PlaceOfStage
  <2>3. CASE s = Archived
    <3>1. t = order[1]
      BY <1>3, <2>3 DEF CanTransition
    <3>2. Place(t) = 1 /\ Place(s) = 0
      <4>1. 1 \in 1..Len(order)
        BY <1>1
      <4> QED BY <2>2, <2>3, <3>1, <4>1, PlaceOfStage
    <3>3. Low(s) = 0 /\ Low(t) = 1
      <4>1. Place(s) # Len(order) /\ Place(t) # Len(order)
        <5> DEFINE top == Len(order)
        <5>1. top \in Nat /\ top >= 2
          BY <1>1
        <5> HIDE DEF top
        <5>2. top # 0 /\ top # 1
          BY <5>1
        <5> QED BY <3>2, <5>2 DEF top
      <4>2. Low(s) = Place(s) /\ Low(t) = Place(t)
        BY <4>1, Zenon DEF Low
      <4> QED BY <3>2, <4>2
    <3> QED BY <2>1, <3>2, <3>3
  <2>4. CASE s # Archived
    <3>1. Ordinal(t) \in {Ordinal(s) + 1, Back(Ordinal(s))}
      BY <1>3, <2>1, <2>4 DEF CanTransition
    <3>2. Place(s) = Ordinal(s) /\ Place(s) \in 1..Len(order)
      BY <2>4, PlaceOfStage
    <3>3. /\ Back(Place(s)) \in 0..(Place(s) - 1)
          /\ \/ Back(Place(s)) = Place(s) - 1
             \/ order = BuiltIn /\ Place(s) = Len(order) /\ Back(Place(s)) = Place(s) - 2
      BY <3>2, WayBack
    <3>4. Place(t) = Place(s) + 1 \/ Place(t) = Back(Place(s))
      BY <2>2, <3>1, <3>2
    <3>5. Place(t) <= Place(s) + 1
      BY <1>1, <3>3, <3>4
    <3>6. Low(s) - 1 <= Low(t)
      <4>1. CASE order = BuiltIn
        BY <1>1, <2>2, <3>3, <3>4, <4>1 DEF Low
      <4>2. CASE order # BuiltIn
        <5>1. Low(s) = Place(s) /\ Low(t) = Place(t)
          BY <4>2 DEF Low
        <5> QED BY <1>1, <2>2, <3>3, <3>4, <4>2, <5>1
      <4> QED BY <4>1, <4>2
    <3> QED BY <2>1, <3>5, <3>6
  <2> QED BY <2>3, <2>4
<1> QED BY <1>2, <1>3

(* No way is shorter.                                                       *)
LEMMA NoWayIsShorter ==
    ASSUME GateInv, NEW from \in Stops, NEW to \in Stops, HasPath(from, to),
           NEW n \in Nat \ {0}, NEW w, Walk(w, n, from, to)
    PROVE  Len(Path(from, to)) <= n
<1>1. CASE CanTransition(from, to)
  <2>1. Len(Path(from, to)) = 1
    <3>1. Path(from, to) = <<to>>
      BY <1>1, Zenon DEF Path
    <3> QED BY <3>1
  <2> QED BY <2>1
<1>2. CASE ~ CanTransition(from, to)
  <2>1. /\ strict /\ to # Archived
        /\ from \in OnBoard(order) \union {Archived} /\ to \in OnBoard(order)
        /\ Place(from) \in 0..Len(order) /\ Place(to) \in 1..Len(order) /\ Place(from) # Place(to)
        /\ Len(order) \in Nat
    BY <1>2, PathNow, OrderNow
  <2>2. /\ w[0] = from /\ w[n] = to
        /\ \A k \in 1..n : CanTransition(w[k - 1], w[k])
        /\ \A k \in 1..(n - 1) : w[k] # Archived
    BY DEF Walk
  <2>3. \A s \in OnBoard(order) \union {Archived} : Place(s) \in Nat /\ Low(s) \in Int
    BY <2>1, PlaceOfStage DEF Low
  <2> DEFINE Near(k) == /\ w[k] \in OnBoard(order) \union {Archived}
                        /\ Place(w[k]) - Place(from) <= k /\ Low(from) - Low(w[k]) <= k
             G == {k \in Nat : k <= n => Near(k)}
  <2>4. 0 \in G
    <3>1. Near(0)
      BY <2>1, <2>2, <2>3
    <3> QED BY <3>1
  <2>5. ASSUME NEW k \in Nat, k \in G PROVE k + 1 \in G
    <3> SUFFICES ASSUME k + 1 <= n PROVE Near(k + 1)
      OBVIOUS
    <3>1. Near(k)
      BY <2>5
    <3>2. CanTransition(w[k], w[k + 1])
      <4>1. k + 1 \in 1..n /\ (k + 1) - 1 = k
        OBVIOUS
      <4> HIDE DEF G, Near
      <4> QED BY <2>2, <4>1
    <3>3. w[k + 1] # Archived
      <4>1. k + 1 = n \/ k + 1 \in 1..(n - 1)
        OBVIOUS
      <4> HIDE DEF G, Near
      <4> QED BY <2>1, <2>2, <4>1
    <3>4. /\ w[k + 1] \in OnBoard(order)
          /\ Place(w[k + 1]) <= Place(w[k]) + 1 /\ Low(w[k]) - 1 <= Low(w[k + 1])
      BY <2>1, <3>1, <3>2, <3>3, OnePlaceAHop
    <3>5. /\ Place(w[k]) \in Nat /\ Place(w[k + 1]) \in Nat /\ Place(from) \in Nat
          /\ Low(w[k]) \in Int /\ Low(w[k + 1]) \in Int /\ Low(from) \in Int
      BY <2>1, <2>3, <3>1, <3>4
    <3> QED BY <3>1, <3>4, <3>5
  <2> HIDE DEF G
  <2>6. n \in G
    BY <2>4, <2>5, NaturalInduction
  <2>7. Near(n)
    BY <2>6 DEF G
  <2>8. Place(to) - Place(from) <= n /\ Low(from) - Low(to) <= n
    BY <2>2, <2>7
  <2> HIDE DEF Near
  <2>9. CASE Place(from) < Place(to)
    <3>1. Len(Path(from, to)) = Place(to) - Place(from)
      BY <1>2, <2>9, LongPath
    <3> QED BY <2>8, <3>1
  <2>10. CASE Place(to) < Place(from)
    <3>1. Place(from) \in 1..Len(order)
      BY <2>1, <2>10
    <3>2. /\ Back(Place(from)) \in 0..(Place(from) - 1)
          /\ \/ Back(Place(from)) = Place(from) - 1
             \/ order = BuiltIn /\ Place(from) = Len(order) /\ Back(Place(from)) = Place(from) - 2
      BY <3>1, WayBack
    <3>3. CASE Place(to) <= Back(Place(from))
      <4>1. Len(Path(from, to)) = Back(Place(from)) - Place(to) + 1
        BY <1>2, <2>10, <3>3, LongPath
      <4>2. Low(to) = Place(to)
        <5>1. Place(to) # Len(order)
          BY <2>1, <2>10
        <5> QED BY <5>1, Zenon DEF Low
      <4>3. Back(Place(from)) - Place(to) + 1 <= Low(from) - Low(to)
        <5>1. CASE order = BuiltIn /\ Place(from) = Len(order)
          <6>1. Low(from) = Len(order) - 1 /\ Back(Place(from)) = Place(from) - 2
            BY <5>1, Zenon DEF Low, Back
          <6> QED BY <2>1, <4>2, <5>1, <6>1
        <5>2. CASE ~ (order = BuiltIn /\ Place(from) = Len(order))
          <6>1. Low(from) = Place(from) /\ Back(Place(from)) = Place(from) - 1
            BY <5>2, Zenon DEF Low, Back
          <6> QED BY <2>1, <4>2, <6>1
        <5> QED BY <5>1, <5>2
      <4>4. Low(from) \in Int /\ Low(to) \in Int
        BY <2>1, <2>3
      <4> QED BY <2>1, <2>8, <3>2, <4>1, <4>3, <4>4
    <3>4. CASE Place(to) > Back(Place(from))
      <4>1. Len(Path(from, to)) = 2
        BY <1>2, <2>10, <3>4, LongPath
      <4>2. n # 1
        <5> SUFFICES ASSUME n = 1 PROVE FALSE
          OBVIOUS
        <5>1. CanTransition(w[0], w[1]) /\ w[0] = from /\ w[1] = to
          BY <2>2
        <5> QED BY <1>2, <5>1
      <4> QED BY <4>1, <4>2
    <3> QED BY <2>1, <3>2, <3>3, <3>4
  <2> QED BY <2>1, <2>9, <2>10
<1> QED BY <1>1, <1>2

(* "Shortest legal path ... archived is never used as an intermediate hop"  *)
(* (status.ts): in both transition modes and for any stages, the built-in   *)
(* ones with their way straight back to work from the last among them, the  *)
(* statuses an advance walks are legal hops from where the item is to where *)
(* it is sent, and no fewer legal hops lead there.                          *)
THEOREM AdvanceIsTheShortestWay == GateSpec => []AdvanceIsShortest
<1>1. GateInv => AdvanceIsShortest
  BY WayIsAWalk, NoWayIsShorter DEF AdvanceIsShortest
<1> QED BY <1>1, GateAlways, PTL


(***************************************************************************)
(* The components together.                                                *)
(***************************************************************************)

(* A behaviour of the whole is one of each component: the parts of a step  *)
(* that are not the chosen component's stand still.                        *)
THEOREM WorkspaceIsItsParts ==
    WorkspaceSpec => TreeSpec /\ PlanSpec /\ GateSpec /\ MemberSpec /\ SpendSpec
<1>1. WorkspaceInit => TreeInit /\ PlanInit /\ GateInit /\ MemberInit /\ SpendInit
  BY Zenon DEF WorkspaceInit
<1> DEFINE all == <<part, treeVars, planVars, gateVars, memberVars, spendVars>>
<1>2. [WorkspaceNext]_all => [TreeNext]_treeVars /\ [PlanNext]_planVars /\ [GateNext]_gateVars
                             /\ [MemberNext]_memberVars /\ [SpendNext]_spendVars
  BY Zenon DEF WorkspaceNext
<1> QED
  BY <1>1, <1>2, PTL DEF WorkspaceSpec, TreeSpec, PlanSpec, GateSpec, MemberSpec, SpendSpec

(* Everything is of its kind in every component, for any constants.        *)
THEOREM WorkspaceTyped == WorkspaceSpec => []WorkspaceTypeOK
<1>1. /\ TreeInv => TreeTypeOK
      /\ PlanInv => PlanTypeOK
      /\ GateInv => GateTypeOK
      /\ SpendInv => SpendTypeOK
  BY DEF TreeInv, PlanInv, GateInv, SpendInv
<1> QED
  BY <1>1, WorkspaceIsItsParts, TreeAlways, PlanAlways, GateAlways, MembersTyped, SpendAlways, PTL
     DEF WorkspaceTypeOK
===============================================================================
