------------------------------- MODULE ItemTree -------------------------------
(***************************************************************************)
(* The tree of work items and everything that moves a row in it: creating, *)
(* re-parenting, converting and deleting an item (store/db/items-write.ts  *)
(* with features-service.ts, convert-item-service.ts and                   *)
(* work-items-service.ts), attaching a spec (spec-content.ts), the sync    *)
(* that homes an imported spec under a grouping (github-sync.ts), and the  *)
(* clean-up of a grouping that was left empty (pruneAutoGrouping).         *)
(*                                                                         *)
(* A request is a few steps with other requests in between.  Postgres runs *)
(* a transaction at read committed: a plain SELECT sees what is committed, *)
(* locks nothing and may be out of date at the next statement.  Levels are *)
(* numbered from the top; a file is the id its frontmatter carries; titles,*)
(* access checks and the other columns of a row are left out.              *)
(***************************************************************************)
EXTENDS Integers, FiniteSets

CONSTANTS
    Items,         \* spec ids: of rows that exist, and of rows yet to come
    Keys,          \* grouping keys (featureKeyFor): a frontmatter field or a folder
    NoItem,        \* no parent
    NoKey,         \* no external key; no key synced yet
    Leaf,          \* the lowest level, where specs live
    Scenes,        \* the item tables a behaviour may begin with
    TreeCalls,     \* requests that may run at once
    MaxTreeCalls   \* bound: requests

Levels == 0..Leaf
Setters == {"nobody", "user", "system"}

(* A row of features, with what of spec_index and of the tables that refer  *)
(* to it matters here.  touched: a person set a field; cited: a comment, a  *)
(* relation or a link names the row.  id counts the rows a spec id has had. *)
Rows == [here : BOOLEAN, id : Nat, level : Levels, parent : Items \union {NoItem},
         setBy : Setters, key : Keys \union {NoKey}, synced : Keys \union {NoKey},
         spec : BOOLEAN, touched : BOOLEAN, cited : BOOLEAN]

NoRow == [here |-> FALSE, id |-> 0, level |-> 0, parent |-> NoItem, setBy |-> "nobody",
          key |-> NoKey, synced |-> NoKey, spec |-> FALSE, touched |-> FALSE, cited |-> FALSE]

(* isValidParentLevel: exactly the level above.                             *)
ValidParent(child, parent) == child = parent + 1

LegalTable(T) ==
    \A i \in Items :
       /\ ~T[i].here => T[i] = [NoRow EXCEPT !.id = T[i].id]
       /\ T[i].parent # NoItem => /\ T[T[i].parent].here
                                  /\ ValidParent(T[i].level, T[T[i].parent].level)

ASSUME ItemTreeAssumption ==
    /\ NoItem \notin Items
    /\ NoKey \notin Keys
    /\ Leaf \in Nat \ {0}
    /\ Scenes \subseteq [Items -> Rows]
    /\ \A T \in Scenes : LegalTable(T)
    /\ MaxTreeCalls \in Nat

VARIABLES
    item,     \* the row of each spec id
    file,     \* the ids of the spec files on the default branch
    call,     \* the requests under way
    asked,    \* what MaxTreeCalls bounds, so far
    skewed,   \* history: items whose level, or whose parent's, moved under a request
    buried,   \* history: items that were deleted
    excused   \* history: items whose delete a sync or an attach overtook

treeVars == <<item, file, call, asked, skewed, buried, excused>>

Idle == [stage |-> "idle"]

TreeInit ==
    /\ item \in Scenes
    /\ file = {i \in Items : item[i].spec}
    /\ call = [c \in TreeCalls |-> Idle]
    /\ asked = 0
    /\ skewed = {}
    /\ buried = {}
    /\ excused = {}

Children(i) == {k \in Items : item[k].here /\ item[k].parent = i}

(* A request begins; a request is over, whatever came of it.                *)
Ask(c, request) ==
    /\ call[c] = Idle
    /\ asked < MaxTreeCalls
    /\ asked' = asked + 1
    /\ call' = [call EXCEPT ![c] = request]

Go(c, request) == call' = [call EXCEPT ![c] = request] /\ UNCHANGED asked
Done(c) == Go(c, Idle)

(* A sync has updated the row and not committed: other writers wait.        *)
Locked(i) == \E c \in TreeCalls : call[c].stage = "found" /\ call[c].item = i /\ call[c].row.here

(* The request dies, or the database refuses it, between two statements.    *)
Die(c) ==
    /\ call[c] # Idle
    /\ Done(c)
    /\ UNCHANGED <<item, file, skewed, buried, excused>>

-------------------------------------------------------------------------------
(* patchFeature with a parent, then updateFeature.                          *)

(* p and what is above it: the walk of assertNoParentCycle, which stops at  *)
(* an id it has seen.                                                       *)
Above(p) ==
    LET up[n \in 0..Cardinality(Items)] ==
          IF n = 0 THEN p
          ELSE IF up[n - 1] = NoItem THEN NoItem ELSE item[up[n - 1]].parent
    IN  {up[n] : n \in 0..Cardinality(Items)} \ {NoItem}

MayParent(i, p) ==
    /\ i \notin Above(p)
    /\ ValidParent(item[i].level, item[p].level)

(* The checks of applyFeaturePatch, each a read that locks nothing.  saw:   *)
(* the two levels they compared; from: the parent the item is leaving.      *)
ReparentRead(c) ==
    \E i \in {j \in Items : item[j].here}, p \in {j \in Items : item[j].here} \union {NoItem} :
       /\ p # NoItem => MayParent(i, p)
       /\ Ask(c, [stage |-> "reparent", item |-> i, to |-> p, from |-> item[i].parent,
                  saw |-> <<item[i].level, IF p = NoItem THEN item[i].level - 1 ELSE item[p].level>>])
       /\ UNCHANGED <<item, file, skewed, buried, excused>>

(* Did the levels a request compared move before it wrote?                  *)
Moved(i, p, saw) == p # NoItem /\ saw # <<item[i].level, item[p].level>>

(* One transaction, the row locked; the parent must exist, and no more.     *)
(* Leaving a parent, the request then sees whether it was a grouping.       *)
ReparentWrite(c) ==
    LET i == call[c].item
        p == call[c].to
    IN  /\ call[c].stage = "reparent"
        /\ ~Locked(i)
        /\ IF item[i].here /\ (p = NoItem \/ item[p].here)
           THEN /\ item' = [item EXCEPT ![i].parent = p, ![i].setBy = "user"]
                /\ skewed' = IF Moved(i, p, call[c].saw) THEN skewed \union {i} ELSE skewed \ {i}
                /\ Go(c, IF call[c].from \in {NoItem, p} THEN Idle
                         ELSE [stage |-> "prune", item |-> call[c].from])
           ELSE /\ Done(c)
                /\ UNCHANGED <<item, skewed>>
        /\ UNCHANGED <<file, buried, excused>>

-------------------------------------------------------------------------------
(* Mutant: the row goes, its children stay behind it.                       *)
RemoveRowAlone(i) ==
    /\ ~Locked(i)
    /\ item' = [item EXCEPT ![i] = [NoRow EXCEPT !.id = item[i].id]]

(* A row goes: its children lose their parent (ON DELETE SET NULL), its id  *)
(* is free for another row.                                                 *)
RemoveRow(i) ==
    /\ ~Locked(i)
    /\ \A k \in Children(i) : ~Locked(k)
    /\ item' = [k \in Items |-> IF k = i THEN [NoRow EXCEPT !.id = item[i].id]
                                ELSE [item[k] EXCEPT !.parent = IF @ = i THEN NoItem ELSE @]]

(* pruneAutoGrouping: one transaction whose SELECTs lock nothing.           *)
PruneRead(c) ==
    LET g == call[c].item
    IN  /\ call[c].stage = "prune"
        /\ IF item[g].here /\ ~item[g].spec /\ item[g].key # NoKey /\ ~item[g].touched
           THEN Go(c, [stage |-> "search", item |-> g])
           ELSE Done(c)
        /\ UNCHANGED <<item, file, skewed, buried, excused>>

Unreferenced(g) == Children(g) = {} /\ ~item[g].cited

(* What refers to the grouping; kids: what hung under it when it looked.    *)
PruneSearch(c) ==
    LET g == call[c].item
    IN  /\ call[c].stage = "search"
        /\ IF item[g].here /\ Unreferenced(g)
           THEN Go(c, [stage |-> "doomed", item |-> g, kids |-> Children(g)])
           ELSE Done(c)
        /\ UNCHANGED <<item, file, skewed, buried, excused>>

PruneDelete(c) ==
    LET g == call[c].item
    IN  /\ call[c].stage = "doomed"
        /\ RemoveRow(g)
        /\ Done(c)
        /\ UNCHANGED <<file, skewed, buried, excused>>

-------------------------------------------------------------------------------
(* createFeature: the parent is read, then the row inserted, in one         *)
(* transaction.  An id that is new is in nobody's hands.                    *)
Fresh(x) ==
    /\ ~item[x].here
    /\ x \notin file \union buried
    /\ \A c \in TreeCalls : call[c] # Idle => call[c].item # x

CreateRead(c) ==
    \E x \in {j \in Items : Fresh(j)}, l \in Levels,
       p \in {j \in Items : item[j].here} \union {NoItem} :
       /\ p # NoItem => ValidParent(l, item[p].level)
       /\ Ask(c, [stage |-> "create", item |-> x, to |-> p, level |-> l])
       /\ UNCHANGED <<item, file, skewed, buried, excused>>

CreateWrite(c) ==
    LET x == call[c].item
        p == call[c].to
        l == call[c].level
    IN  /\ call[c].stage = "create"
        /\ IF p = NoItem \/ item[p].here
           THEN /\ item' = [item EXCEPT ![x] =
                     [NoRow EXCEPT !.here = TRUE, !.id = item[x].id + 1, !.level = l, !.parent = p,
                                   !.setBy = IF p = NoItem THEN "nobody" ELSE "user"]]
                /\ skewed' = IF p # NoItem /\ ~ValidParent(l, item[p].level)
                             THEN skewed \union {x} ELSE skewed
           ELSE UNCHANGED <<item, skewed>>
        /\ Done(c)
        /\ UNCHANGED <<file, buried, excused>>

-------------------------------------------------------------------------------
(* convertItem: a fingerprint of the item's neighbourhood, a plan made from *)
(* a second read of it, and a write that takes the fingerprint again.       *)
View(i) ==
    [level  |-> item[i].level,
     parent |-> item[i].parent,
     spec   |-> item[i].spec,
     kids   |-> {<<k, item[k].level>> : k \in Children(i)},
     over   |-> {item[p].level : p \in {item[i].parent} \ {NoItem}}]

ConvertPrint(c) ==
    \E i \in {j \in Items : item[j].here}, to \in Levels :
       /\ Ask(c, [stage |-> "print", item |-> i, level |-> to, print |-> View(i)])
       /\ UNCHANGED <<item, file, skewed, buried, excused>>

(* planConversion's blockers, unsatisfiable gates left out.                 *)
PlanAllows(view, to) ==
    /\ to # view.level
    /\ view.spec => to = Leaf
    /\ \A k \in view.kids : ValidParent(k[2], to)

(* A parent that is no longer one level above is detached.                  *)
Detaches(view, to) == \E l \in view.over : ~ValidParent(to, l)

ConvertPlan(c) ==
    LET i == call[c].item
        to == call[c].level
    IN  /\ call[c].stage = "print"
        /\ IF item[i].here /\ PlanAllows(View(i), to)
           THEN Go(c, [stage |-> "convert", item |-> i, level |-> to, print |-> call[c].print,
                       plan |-> View(i), detach |-> Detaches(View(i), to)])
           ELSE Done(c)
        /\ UNCHANGED <<item, file, skewed, buried, excused>>

(* Mutant: the write looks at the item's own row only.                      *)
SamePrintOfRow(i, print) == print.level = item[i].level /\ print.parent = item[i].parent

SamePrint(i, print) == print = View(i)

(* The row is locked FOR UPDATE from before the fingerprint: what would     *)
(* hang a child on it must wait.  When the plan read something else than    *)
(* both fingerprints, the item and its children are excused.                *)
ConvertWrite(c) ==
    LET i == call[c].item
        near == {i} \union Children(i)
    IN  /\ call[c].stage = "convert"
        /\ ~Locked(i)
        /\ IF item[i].here /\ SamePrint(i, call[c].print)
           THEN /\ item' = [item EXCEPT ![i] = IF call[c].detach
                       THEN [@ EXCEPT !.level = call[c].level, !.parent = NoItem, !.setBy = "nobody"]
                       ELSE [@ EXCEPT !.level = call[c].level]]
                /\ skewed' = IF call[c].plan = call[c].print THEN skewed \ near ELSE skewed \union near
           ELSE UNCHANGED <<item, skewed>>
        /\ Done(c)
        /\ UNCHANGED <<file, buried, excused>>

-------------------------------------------------------------------------------
(* deleteWorkItem: the item is read, its file removed from git when it has  *)
(* one (a file that is gone already is an error), then the row deleted.     *)

(* Mutant: the row is deleted, the file stays.                              *)
WithoutNoFile(i) == file

WithoutFile(i) == file \ {i}

DeleteRead(c) ==
    \E i \in {j \in Items : item[j].here} :
       /\ item[i].spec => i \in file
       /\ Ask(c, [stage |-> "delete", item |-> i, removed |-> item[i].spec])
       /\ file' = IF item[i].spec THEN WithoutFile(i) ELSE file
       /\ UNCHANGED <<item, skewed, buried, excused>>

(* deleteFeature refuses an item with a spec whose file was not removed.    *)
DeleteCheck(c) ==
    LET i == call[c].item
    IN  /\ call[c].stage = "delete"
        /\ IF item[i].here /\ (item[i].spec => call[c].removed)
           THEN Go(c, [stage |-> "delete_row", item |-> i, removed |-> call[c].removed])
           ELSE Done(c)
        /\ UNCHANGED <<item, file, skewed, buried, excused>>

(* Who may bring the item back: a sync that has listed its file, an attach  *)
(* under way, or one that finished after the item was read without a spec.  *)
StillHeld(i, removed) ==
    \/ \E c \in TreeCalls : /\ call[c].stage \in {"attach", "listed", "read", "found"}
                            /\ call[c].item = i
    \/ ~removed /\ i \in file

DeleteRow(c) ==
    LET i == call[c].item
    IN  /\ call[c].stage = "delete_row"
        /\ RemoveRow(i)
        /\ buried' = IF item[i].here THEN buried \union {i} ELSE buried
        /\ excused' = IF item[i].here /\ StillHeld(i, call[c].removed)
                      THEN excused \union {i} ELSE excused
        /\ Done(c)
        /\ UNCHANGED <<file, skewed>>

-------------------------------------------------------------------------------
(* createSpec on an existing item: checked, then a commit that the branch   *)
(* refuses when the path is taken, then the sync.  A delete that has looked *)
(* at the file before the commit will not look again.                       *)
AttachRead(c) ==
    \E i \in {j \in Items : item[j].here} :
       /\ ~item[i].spec
       /\ item[i].level = Leaf
       /\ Ask(c, [stage |-> "attach", item |-> i])
       /\ UNCHANGED <<item, file, skewed, buried, excused>>

Deleting(i) ==
    \E c \in TreeCalls : call[c].stage \in {"delete", "delete_row"} /\ call[c].item = i

Listed(i, k) == [stage |-> "listed", item |-> i, key |-> k]

AttachCommit(c) ==
    LET i == call[c].item
    IN  /\ call[c].stage = "attach"
        /\ IF i \in file
           THEN Done(c) /\ UNCHANGED <<file, excused>>
           ELSE /\ file' = file \union {i}
                /\ excused' = IF Deleting(i) THEN excused \union {i} ELSE excused
                /\ \E k \in Keys : Go(c, Listed(i, k))
        /\ UNCHANGED <<item, skewed, buried>>

(* A new spec is pushed to the branch by hand.                              *)
PushSpec(x) ==
    /\ Fresh(x)
    /\ file' = file \union {x}
    /\ UNCHANGED <<item, call, asked, skewed, buried, excused>>

-------------------------------------------------------------------------------
(* syncRepository, one changed file of it: listed from git with its key,    *)
(* then one transaction.                                                    *)
SyncList(c) ==
    \E i \in file, k \in Keys :
       /\ Ask(c, Listed(i, k))
       /\ UNCHANGED <<item, file, skewed, buried, excused>>

(* The row is selected, not locked.                                         *)
SyncRead(c) ==
    /\ call[c].stage = "listed"
    /\ Go(c, [stage |-> "read", item |-> call[c].item, key |-> call[c].key, row |-> item[call[c].item]])
    /\ UNCHANGED <<item, file, skewed, buried, excused>>

(* Mutant: an item is homed whoever set its parent.                         *)
DecideReparentAnyOwner(row, key) ==
    IF row.parent = NoItem \/ row.synced \notin {NoKey, key} THEN "home"
    ELSE IF row.synced = NoKey THEN "baseline" ELSE "noop"

(* decideReparent; re-homing does what homing does, overriding nothing.     *)
DecideReparent(row, key) ==
    IF row.setBy = "user" THEN "noop"
    ELSE IF row.parent = NoItem \/ row.synced \notin {NoKey, key} THEN "home"
    ELSE IF row.synced = NoKey THEN "baseline" ELSE "noop"

Groupings(key) == {g \in Items : item[g].here /\ item[g].key = key /\ item[g].level = Leaf - 1}

(* The row is updated, or inserted, and from here on locked; the grouping   *)
(* of that key is looked up.  An update of a row that went meanwhile finds  *)
(* nothing, and the index row then has nothing to refer to: all is undone.  *)
SyncFind(c) ==
    LET i == call[c].item
        row == call[c].row
        homes == Groupings(call[c].key) \ {i}
    IN  /\ call[c].stage = "read"
        /\ ~Locked(i)
        /\ IF row.here = item[i].here /\ row.id = item[i].id
           THEN \E g \in IF homes = {} THEN {NoItem} ELSE homes :
                   Go(c, [stage |-> "found", item |-> i, key |-> call[c].key, row |-> row,
                          to |-> g, act |-> DecideReparent(row, call[c].key)])
           ELSE Done(c)
        /\ UNCHANGED <<item, file, skewed, buried, excused>>

(* The row the transaction leaves, on top of what it found or inserted.     *)
Synced(i, k, g, act) ==
    LET now == IF item[i].here THEN item[i] ELSE [NoRow EXCEPT !.here = TRUE, !.id = item[i].id + 1]
        leaf == [now EXCEPT !.level = Leaf, !.spec = TRUE]
    IN  CASE act = "home" /\ g # NoItem -> [leaf EXCEPT !.parent = g, !.setBy = "system", !.synced = k]
          [] act = "noop" -> leaf
          [] OTHER -> [leaf EXCEPT !.synced = k]

(* What a sync strands by making a leaf of an item that was none.           *)
Lowered(i) == IF item[i].here /\ item[i].level # Leaf THEN {i} \union Children(i) ELSE {}

SyncCommit(c) ==
    LET i == call[c].item
        g == call[c].to
        homed == call[c].act = "home" /\ g # NoItem
    IN  /\ call[c].stage = "found"
        /\ IF (homed => item[g].here) /\ call[c].row.here = item[i].here
           THEN /\ item' = [item EXCEPT ![i] = Synced(i, call[c].key, g, call[c].act)]
                /\ skewed' = IF homed /\ item[g].level # Leaf - 1
                             THEN skewed \union Lowered(i) \union {i}
                             ELSE (skewed \union Lowered(i)) \ (IF homed THEN {i} ELSE {})
           ELSE UNCHANGED <<item, skewed>>
        /\ Done(c)
        /\ UNCHANGED <<file, buried, excused>>

-------------------------------------------------------------------------------
(* A person puts a grouping to use: sets a field, comments, links to it.    *)
Use(g) ==
    /\ item[g].here
    /\ item[g].key # NoKey
    /\ ~Locked(g)
    /\ \/ item' = [item EXCEPT ![g].touched = TRUE]
       \/ item' = [item EXCEPT ![g].cited = TRUE]
    /\ UNCHANGED <<file, call, asked, skewed, buried, excused>>

TreeNext ==
    \/ \E c \in TreeCalls :
          \/ Die(c)
          \/ ReparentRead(c) \/ ReparentWrite(c)
          \/ PruneRead(c) \/ PruneSearch(c) \/ PruneDelete(c)
          \/ CreateRead(c) \/ CreateWrite(c)
          \/ ConvertPrint(c) \/ ConvertPlan(c) \/ ConvertWrite(c)
          \/ DeleteRead(c) \/ DeleteCheck(c) \/ DeleteRow(c)
          \/ AttachRead(c) \/ AttachCommit(c)
          \/ SyncList(c) \/ SyncRead(c) \/ SyncFind(c) \/ SyncCommit(c)
    \/ \E i \in Items : PushSpec(i) \/ Use(i)

TreeSpec == TreeInit /\ [][TreeNext]_treeVars

-------------------------------------------------------------------------------
(* Every row and every request is of its kind; no parent is a row that is   *)
(* gone, and what is gone left nothing behind.                              *)
TreeTypeOK ==
    /\ item \in [Items -> Rows]
    /\ file \subseteq Items
    /\ \A c \in TreeCalls : call[c].stage # "idle" => call[c].item \in Items
    /\ asked \in 0..MaxTreeCalls
    /\ skewed \union buried \union excused \subseteq Items
    /\ \A i \in Items : item[i].parent # NoItem => item[i].here /\ item[item[i].parent].here

(* LevelRule: an item that has a parent sits exactly one level under it     *)
(* ("a parent must sit exactly one level above", core/levels.ts), whichever *)
(* request put it there or moved either of them.  Excused: an item whose    *)
(* level, or whose parent's, changed between the check that a re-parent, a  *)
(* create or a sync made and its write; one converted after its plan read a *)
(* neighbourhood that differed from both fingerprints; and one, with its    *)
(* children, that a sync lowered to a leaf after it was attached as one.    *)
LevelRule ==
    \A i \in Items \ skewed :
       item[i].parent # NoItem => ValidParent(item[i].level, item[item[i].parent].level)

(* Request c is at the step that may move i off the parent it has.          *)
Unparents(c, i) ==
    \/ call[c].stage \in {"reparent", "convert"} /\ call[c].item = i
    \/ call[c].stage = "delete_row" /\ call[c].item = item[i].parent
    \/ call[c].stage = "found" /\ call[c].item = i /\ call[c].row.setBy # "user"
    \/ call[c].stage = "doomed" /\ call[c].item = item[i].parent /\ i \notin call[c].kids

(* ChosenParentStays: a parent a person chose, "none" included, goes only   *)
(* because somebody re-parents or converts the item or deletes the parent   *)
(* ("an item a user deliberately unparented stays there", decideReparent).  *)
(* A sync may replace it only when the choice was made after the sync had   *)
(* read the row, and the clean-up of groupings (pruneAutoGrouping) may take *)
(* it only when the child came after the clean-up had looked for children.  *)
ChosenParentStays ==
    [][\A i \in Items :
          /\ item[i].here /\ item'[i].here
          /\ item[i].setBy = "user"
          /\ item'[i].parent # item[i].parent
          => \E c \in TreeCalls : call'[c] # call[c] /\ Unparents(c, i)]_treeVars

(* DeletedStaysGone: a deleted item does not come back.  Its file is taken  *)
(* from git first, so no later sync imports it (ADR 0003 D4); excused are   *)
(* deletes overtaken by a sync that had listed the file, or by an attach.   *)
DeletedStaysGone ==
    [][\A i \in buried \ excused : ~item[i].here => ~item'[i].here]_treeVars
===============================================================================
