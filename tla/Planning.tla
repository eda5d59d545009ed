------------------------------- MODULE Planning -------------------------------
(***************************************************************************)
(* Putting work into releases and cycles (store/db/releases.ts, cycles.ts, *)
(* updateFeature in items-write.ts), and the cascade that carries a        *)
(* release from an item to the unscheduled work beneath it                 *)
(* (release-cascade.ts, release-cascade-service.ts).                       *)
(*                                                                         *)
(* A release and a cycle are slots on two independent axes.  A slot        *)
(* belongs to a product or is shared, and takes only work of its product.  *)
(* An item's write locks the item's row and reads the slot unlocked; the   *)
(* slot may change hands before the write lands.  The tree of items stands *)
(* still here (it moves in ItemTree), and so does an item's product.       *)
(***************************************************************************)
EXTENDS Integers, FiniteSets

CONSTANTS
    Work,          \* items
    NoWork,        \* no parent
    Over,          \* the parent of each item
    ProductOf,     \* the product of each item
    Finished,      \* items whose status is not rolled over
    Releases, Cycles,
    NoSlot,        \* not scheduled on that axis
    Products,
    Shared,        \* a portfolio release, a workspace-wide cycle
    Boards,        \* the slots and the schedules a behaviour may begin with
    PlanCalls,     \* requests that may run at once
    MaxPlanCalls   \* bound: requests

Slots == Releases \union Cycles
Axes == {"release", "cycle"}
SlotsOf(axis) == IF axis = "release" THEN Releases ELSE Cycles
AxisOf(s) == IF s \in Releases THEN "release" ELSE "cycle"

SlotTables == [Slots -> [here : BOOLEAN, product : Products \union {Shared}]]
Timetables == [Work -> [release : Releases \union {NoSlot}, cycle : Cycles \union {NoSlot}]]

(* A scheduled item shares the product of its slot, unless that is shared.  *)
Takes(product, i) == product \in {Shared, ProductOf[i]}

LegalBoard(board) ==
    \A i \in Work, axis \in Axes :
       LET s == board.at[i][axis]
       IN  s # NoSlot => board.slot[s].here /\ Takes(board.slot[s].product, i)

ASSUME PlanningAssumption ==
    /\ NoWork \notin Work
    /\ Over \in [Work -> Work \union {NoWork}]
    /\ ProductOf \in [Work -> Products]
    /\ Finished \subseteq Work
    /\ Releases \intersect Cycles = {}
    /\ NoSlot \notin Slots
    /\ Shared \notin Products
    /\ Boards \subseteq [slot : SlotTables, at : Timetables]
    /\ \A board \in Boards : LegalBoard(board)
    /\ MaxPlanCalls \in Nat

VARIABLES
    slot,       \* each release and cycle: the product it belongs to, and whether it exists
    at,         \* the release and the cycle of each item
    job,        \* the requests under way
    booked,     \* what MaxPlanCalls bounds, so far
    overtaken,  \* history: items whose slot changed hands between check and write
    rewritten   \* history: per cascade, the items another request put somewhere since

planVars == <<slot, at, job, booked, overtaken, rewritten>>

Free == [stage |-> "free"]

PlanInit ==
    /\ \E board \in Boards : slot = board.slot /\ at = board.at
    /\ job = [c \in PlanCalls |-> Free]
    /\ booked = 0
    /\ overtaken = {}
    /\ rewritten = {}

Fits(s, i) == slot[s].here /\ Takes(slot[s].product, i)

Book(c, request) ==
    /\ job[c] = Free
    /\ booked < MaxPlanCalls
    /\ booked' = booked + 1
    /\ job' = [job EXCEPT ![c] = request]

Step(c, request) == job' = [job EXCEPT ![c] = request] /\ UNCHANGED booked

(* updateFeature holds the item's row from its read to its write.           *)
Held(i) == \E c \in PlanCalls : job[c].stage = "write" /\ job[c].item = i

(* The transaction has read the item and the slot.  then: what the request  *)
(* does next; plan: what a cascade was planned from.                        *)
Writing(i, s, axis, then, todo, plan) ==
    [stage |-> "write", item |-> i, to |-> s, axis |-> axis, then |-> then, todo |-> todo, plan |-> plan]

NoPlan == [root |-> NoWork]

(* The requests that are carrying a release down.                           *)
Cascading ==
    {c \in PlanCalls : job[c].stage = "next" \/ (job[c].stage = "write" /\ job[c].then = "next")}

(* An item is scheduled or unscheduled, a cascade asked for or not.         *)
Assign(c) ==
    \E i \in Work, axis \in Axes, cascade \in BOOLEAN :
       \E s \in SlotsOf(axis) \union {NoSlot} :
          /\ ~Held(i)
          /\ s # NoSlot => Fits(s, i)
          /\ cascade => axis = "release"
          /\ Book(c, Writing(i, s, axis, IF cascade THEN "plan" ELSE "free", {}, NoPlan))
          /\ UNCHANGED <<slot, at, overtaken, rewritten>>

(* The write; a slot that is gone fails its foreign key.                    *)
Write(c) ==
    LET i == job[c].item
        s == job[c].to
        axis == job[c].axis
    IN  /\ job[c].stage = "write"
        /\ IF s = NoSlot \/ slot[s].here
           THEN /\ at' = [at EXCEPT ![i][axis] = s]
                /\ overtaken' = IF s # NoSlot /\ ~Fits(s, i) THEN overtaken \union {<<i, axis>>}
                                ELSE overtaken \ {<<i, axis>>}
                /\ rewritten' = IF axis = "release"
                                THEN (rewritten \ {<<c, i>>}) \union ((Cascading \ {c}) \X {i})
                                ELSE rewritten
                /\ Step(c, CASE job[c].then = "plan" -> [stage |-> "plan", item |-> i, to |-> s]
                             [] job[c].then = "next" -> [stage |-> "next", to |-> s, todo |-> job[c].todo,
                                                         plan |-> job[c].plan]
                             [] OTHER -> Free)
           ELSE Step(c, Free) /\ UNCHANGED <<at, overtaken, rewritten>>
        /\ UNCHANGED slot

-------------------------------------------------------------------------------
(* The item n levels above i.                                               *)
Ancestor(i, n) ==
    LET up[m \in 0..n] ==
          IF m = 0 THEN i ELSE IF up[m - 1] = NoWork THEN NoWork ELSE Over[up[m - 1]]
    IN  up[n]

Under(root, i) == i # root /\ \E n \in 1..Cardinality(Work) : Ancestor(i, n) = root

(* Mutant: the walk stops at the children.                                  *)
BelowDirect(root) == {i \in Work \ {root} : Over[i] = root}

(* What is below an item, and how far; the walk passes each item once, and  *)
(* goes on below one that is not moved itself.                              *)
Below(root) == {i \in Work : Under(root, i)}

Depth(root, i) ==
    CHOOSE n \in 1..Cardinality(Work) :
       Ancestor(i, n) = root /\ \A m \in 1..(n - 1) : Ancestor(i, m) # root

(* planReleaseCascade: what is scheduled keeps its release, whatever the    *)
(* target; what another product owns stays.                                 *)
Moves(s, i) == at[i].release = NoSlot /\ Takes(slot[s].product, i)

(* The plan, made after the item's own write; no release, or one that is    *)
(* gone, plans nothing.                                                     *)
CascadePlan(c) ==
    LET s == job[c].to
        root == job[c].item
        todo == {<<Depth(root, i), i>> : i \in {j \in Below(root) : Moves(s, j)}}
        plan == [root |-> root, product |-> slot[s].product,
                 releases |-> [i \in Work |-> at[i].release]]
    IN  /\ job[c].stage = "plan"
        /\ Step(c, IF s # NoSlot /\ slot[s].here
                   THEN [stage |-> "next", to |-> s, todo |-> todo, plan |-> plan]
                   ELSE Free)
        /\ rewritten' = rewritten \ ({c} \X Work)
        /\ UNCHANGED <<slot, at, overtaken>>

(* One child at a time, level by level, each an updateFeature of its own; a *)
(* refusal ends the cascade where it is.                                    *)
CascadeNext(c) ==
    LET s == job[c].to
        todo == job[c].todo
    IN  /\ job[c].stage = "next"
        /\ \E next \in todo :
              /\ \A other \in todo : next[1] <= other[1]
              /\ ~Held(next[2])
              /\ Step(c, IF Fits(s, next[2])
                         THEN Writing(next[2], s, "release", "next", todo \ {next}, job[c].plan)
                         ELSE Free)
        /\ UNCHANGED <<slot, at, overtaken, rewritten>>

(* Nothing is left to move: the request returns.                            *)
CascadeEnds(c) ==
    /\ job[c].stage = "next" /\ job[c].todo = {}
    /\ Step(c, Free)
    /\ UNCHANGED <<slot, at, overtaken, rewritten>>

-------------------------------------------------------------------------------
(* Items whose slot goes lose it; those a person is writing are waited for. *)
Unschedule(axis, gone) ==
    /\ \A i \in gone : ~Held(i)
    /\ at' = [i \in Work |-> IF i \in gone THEN [at[i] EXCEPT ![axis] = NoSlot] ELSE at[i]]
    /\ overtaken' = overtaken \ {<<i, axis>> : i \in gone}
    /\ rewritten' = IF axis = "release" THEN rewritten \union (Cascading \X gone) ELSE rewritten

(* The work a slot may no longer hold once it belongs to product p.         *)
Unfit(s, p) == {i \in Work : at[i][AxisOf(s)] = s /\ ~Takes(p, i)}

(* updateRelease and updateCycle with another product.                      *)
MoveSlot(s, p) ==
    /\ slot[s].here
    /\ p # slot[s].product
    /\ booked < MaxPlanCalls
    /\ booked' = booked + 1
    /\ slot' = [slot EXCEPT ![s].product = p]
    /\ Unschedule(AxisOf(s), Unfit(s, p))
    /\ UNCHANGED job

(* deleteRelease and deleteCycle: ON DELETE SET NULL.                       *)
DeleteSlot(s) ==
    /\ slot[s].here
    /\ booked < MaxPlanCalls
    /\ booked' = booked + 1
    /\ slot' = [slot EXCEPT ![s].here = FALSE]
    /\ Unschedule(AxisOf(s), {i \in Work : at[i][AxisOf(s)] = s})
    /\ UNCHANGED job

(* rolloverCycle: both cycles are read, then the unfinished work of one is  *)
(* moved to the other, but for other products' than the other one's was.    *)
RolloverRead(c) ==
    \E from, to \in Cycles :
       /\ from # to
       /\ slot[from].here /\ slot[to].here
       /\ Book(c, [stage |-> "rollover", from |-> from, to |-> to, product |-> slot[to].product])
       /\ UNCHANGED <<slot, at, overtaken, rewritten>>

(* Mutant: finished work is left, everything else goes.                     *)
RolledAnyProduct(from, product) == {i \in Work \ Finished : at[i].cycle = from}

Rolled(from, product) == {i \in Work \ Finished : at[i].cycle = from /\ Takes(product, i)}

RolloverWrite(c) ==
    LET to == job[c].to
        moved == Rolled(job[c].from, job[c].product)
    IN  /\ job[c].stage = "rollover"
        /\ \A i \in moved : ~Held(i)
        /\ IF slot[to].here
           THEN /\ at' = [i \in Work |-> IF i \in moved THEN [at[i] EXCEPT !.cycle = to] ELSE at[i]]
                /\ overtaken' = IF slot[to].product # job[c].product
                                THEN overtaken \union {<<i, "cycle">> : i \in moved}
                                ELSE overtaken \ {<<i, "cycle">> : i \in moved}
           ELSE UNCHANGED <<at, overtaken>>
        /\ Step(c, Free)
        /\ UNCHANGED <<slot, rewritten>>

PlanNext ==
    \/ \E c \in PlanCalls : Assign(c) \/ Write(c) \/ CascadePlan(c) \/ CascadeNext(c)
                            \/ CascadeEnds(c) \/ RolloverRead(c) \/ RolloverWrite(c)
    \/ \E s \in Slots : DeleteSlot(s) \/ \E p \in Products \union {Shared} : MoveSlot(s, p)

PlanSpec == PlanInit /\ [][PlanNext]_planVars

-------------------------------------------------------------------------------
(* Every slot and every item is of its kind; no two writers hold one row.   *)
PlanTypeOK ==
    /\ slot \in SlotTables
    /\ at \in Timetables
    /\ booked \in 0..MaxPlanCalls
    /\ overtaken \subseteq Work \X Axes
    /\ rewritten \subseteq PlanCalls \X Work
    /\ \A c, d \in PlanCalls :
          job[c].stage = "write" /\ job[d].stage = "write" /\ job[c].item = job[d].item => c = d

(* SlotFitsWork: a scheduled item shares the product of its release and of  *)
(* its cycle ("preserving the invariant that a scheduled item shares the    *)
(* release's product", store/db/releases.ts), however slots change hands,   *)
(* cascades run and cycles roll over.  Excused: an item whose slot changed  *)
(* hands between the write's check, which locks nothing, and the write.     *)
SlotFitsWork ==
    \A i \in Work, axis \in Axes :
       at[i][axis] # NoSlot =>
          slot[at[i][axis]].here /\ (Fits(at[i][axis], i) \/ <<i, axis>> \in overtaken)

(* What a cascade was asked to move: what was unscheduled below its root    *)
(* when it was planned, and may be in the release as it then was.           *)
Meant(plan, i) ==
    Under(plan.root, i) /\ plan.releases[i] = NoSlot /\ Takes(plan.product, i)

(* CascadeCarriesAll: a cascade that reports its moves has made them all    *)
(* and no other, though it is a transaction per item: at its end every item *)
(* that was unscheduled below its root, and that the release takes, is in   *)
(* the release, at whatever depth and below whatever scheduled or foreign   *)
(* item; every other item is where it was.  Excused: an item that another   *)
(* request has put somewhere since the cascade was planned, and, if it was  *)
(* to be moved, since its move.  (One chosen for another release between    *)
(* the plan and its move is moved all the same.)                            *)
CascadeCarriesAll ==
    \A c \in PlanCalls :
       job[c].stage = "next" /\ job[c].todo = {} =>
          \A i \in Work :
             \/ <<c, i>> \in rewritten
             \/ at[i].release = IF Meant(job[c].plan, i) THEN job[c].to ELSE job[c].plan.releases[i]
===============================================================================
