------------------------------ MODULE StageGates ------------------------------
(***************************************************************************)
(* An item's way through the stages of its workflow: a status patch, with  *)
(* or without "advance" (features-service.ts), the gates it must pass, and *)
(* the admin who replaces stages, gates and completions meanwhile          *)
(* (store/db/workspace-config.ts).                                         *)
(*                                                                         *)
(* One product with stages of its own.  A patch checks the status, the     *)
(* workflow and the gates with reads that lock nothing (one step here),    *)
(* then writes under the row's lock, without comparing anything unless the *)
(* caller sent a fingerprint; here none does.  A field gate asks for one   *)
(* field of the item, a checklist gate for a completion.                   *)
(***************************************************************************)
EXTENDS Integers, Sequences, FiniteSets

CONSTANTS
    Tickets,       \* items
    Stages,        \* stage keys
    Backlog,       \* the status a new item gets unless its creator names one
    Archived,      \* the status no stage has
    NoStage,       \* an item that does not exist; a gate that does not
    Orders,        \* the stage sets an admin may put in force, in order
    BuiltIn,       \* the stages every workspace starts with, in order
    Gates,         \* gate ids
    FieldGates,    \* those that ask for the field
    GateCalls,     \* patches that may run at once
    MaxGateCalls   \* bound: patches, and changes by an admin

ASSUME StageGatesAssumption ==
    /\ Backlog \in Stages
    /\ Archived \notin Stages
    /\ NoStage \notin Stages \union {Archived}
    /\ Orders \subseteq Seq(Stages)
    /\ \A o \in Orders : Len(o) >= 2 /\ \A i, j \in 1..Len(o) : o[i] = o[j] => i = j
    /\ BuiltIn \in Seq(Stages) /\ Len(BuiltIn) >= 3
    /\ FieldGates \subseteq Gates
    /\ MaxGateCalls \in Nat

VARIABLES
    order,     \* the stages in force
    strict,    \* the transition mode: strict, not flexible
    gate,      \* the stage each gate is on
    ticket,    \* each item's status, its field, the gates ticked off for it
    patch,     \* the patches under way
    tried,     \* what MaxGateCalls bounds, so far
    lost       \* history: items given a status the stages in force do not have

gateVars == <<order, strict, gate, ticket, patch, tried, lost>>

NoPatch == [stage |-> "idle"]
NoTicket == [status |-> NoStage, filled |-> FALSE, done |-> {}]

OnBoard(o) == {o[i] : i \in DOMAIN o}

GateInit ==
    /\ order \in Orders
    /\ strict \in BOOLEAN
    /\ gate \in [Gates -> OnBoard(order) \union {NoStage}]
    /\ ticket \in [Tickets -> {NoTicket, [NoTicket EXCEPT !.status = order[1]]}]
    /\ patch = [c \in GateCalls |-> NoPatch]
    /\ tried = 0
    /\ lost = {}

Ordinal(s) == CHOOSE i \in DOMAIN order : order[i] = s

(* strictTransitions: back to the stage before, but from the last of the    *)
(* built-in ones ("done") to the one before that, "straight back to work".  *)
Back(i) == IF order = BuiltIn /\ i = Len(order) THEN i - 2 ELSE i - 1

(* resolveWorkflow and strictTransitions: one on or back, or anything.      *)
CanTransition(from, to) ==
    \/ from = to
    \/ /\ from \in OnBoard(order) \union {Archived}
       /\ to \in OnBoard(order) \union {Archived}
       /\ \/ ~strict
          \/ to = Archived
          \/ from = Archived /\ to = order[1]
          \/ from # Archived /\ Ordinal(to) \in {Ordinal(from) + 1, Back(Ordinal(from))}

(* shortestTransitionPath: on through the stages between, or back through   *)
(* them, or, just below the last of the built-in ones, back past it and on; *)
(* archived is never among them.                                            *)
Path(from, to) ==
    LET i == IF from = Archived THEN 0 ELSE Ordinal(from)
        j == Ordinal(to)
    IN  CASE CanTransition(from, to) -> <<to>>
          [] ~CanTransition(from, to) /\ i < j -> SubSeq(order, i + 1, j)
          [] ~CanTransition(from, to) /\ j <= Back(i) ->
                [n \in 1..(Back(i) - j + 1) |-> order[Back(i) + 1 - n]]
          [] OTHER -> SubSeq(order, Back(i), j)

HasPath(from, to) ==
    from = to \/ {from, to} \subseteq OnBoard(order) \union {Archived}

(* isForwardTransition; an unknown status, and archiving, is never forward. *)
Forward(from, to) ==
    {from, to} \subseteq OnBoard(order) /\ Ordinal(to) > Ordinal(from)

Field(old, fill) == IF fill = "keep" THEN old ELSE fill = "set"

(* A patch arrives; to advance, it is cut into hops.                        *)
PatchAsk(c, x) ==
    \E to \in Stages \union {Archived}, fill \in {"keep", "set", "clear"}, advance \in BOOLEAN :
       /\ patch[c] = NoPatch
       /\ tried < MaxGateCalls
       /\ ticket[x].status # NoStage
       /\ advance => HasPath(ticket[x].status, to)
       /\ tried' = tried + 1
       /\ patch' = [patch EXCEPT ![c] =
             [stage |-> "hop", ticket |-> x, fill |-> fill,
              hops |-> IF advance THEN Path(ticket[x].status, to) ELSE <<to>>]]
       /\ UNCHANGED <<order, strict, gate, ticket, lost>>

(* Mutant: only the gates of the stage the item leaves are asked.           *)
PassedSource(from, to) == {g \in Gates : gate[g] = from}

(* The gates of the stages a move goes past, its source included.           *)
Passed(from, to) ==
    {g \in Gates : gate[g] \in {order[i] : i \in Ordinal(from)..(Ordinal(to) - 1)}}

(* gateSatisfied, of the item as the patch will leave it.                   *)
Satisfied(t, g) == IF g \in FieldGates THEN t.filled ELSE g \in t.done

(* The fields of a patch ride along with its last hop.                      *)
FillNow(c) == IF Len(patch[c].hops) = 1 THEN patch[c].fill ELSE "keep"

MayMove(t, fill, to) ==
    /\ CanTransition(t.status, to)
    /\ Forward(t.status, to) =>
          \A g \in Passed(t.status, to) : Satisfied([t EXCEPT !.filled = Field(@, fill)], g)

(* One hop is checked; a refusal ends the walk where it is.  saw: what the  *)
(* check was made of.                                                       *)
HopRead(c) ==
    LET x == patch[c].ticket
        to == Head(patch[c].hops)
    IN  /\ patch[c].stage = "hop"
        /\ patch' = [patch EXCEPT ![c] =
              IF MayMove(ticket[x], FillNow(c), to)
              THEN [stage |-> "write", ticket |-> x, fill |-> patch[c].fill, hops |-> patch[c].hops,
                    saw |-> [order |-> order, gate |-> gate, ticket |-> ticket[x]]]
              ELSE NoPatch]
        /\ UNCHANGED <<order, strict, gate, ticket, tried, lost>>

HopWrite(c) ==
    LET x == patch[c].ticket
        to == Head(patch[c].hops)
        rest == Tail(patch[c].hops)
    IN  /\ patch[c].stage = "write"
        /\ ticket' = [ticket EXCEPT ![x].status = to, ![x].filled = Field(@, FillNow(c))]
        /\ lost' = IF to \in OnBoard(order) \union {Archived} THEN lost \ {x} ELSE lost \union {x}
        /\ patch' = [patch EXCEPT ![c] =
              IF rest = <<>> THEN NoPatch
              ELSE [stage |-> "hop", ticket |-> x, fill |-> patch[c].fill, hops |-> rest]]
        /\ UNCHANGED <<order, strict, gate, tried>>

-------------------------------------------------------------------------------
Administer ==
    /\ tried < MaxGateCalls
    /\ tried' = tried + 1
    /\ UNCHANGED patch

(* Mutant: items in a stage that is gone stay in it.                        *)
RehomedNot(t, o) == t

(* An item whose stage is gone starts over at the first.                    *)
Rehomed(t, o) ==
    IF t.status \in OnBoard(o) \union {Archived, NoStage} THEN t ELSE [t EXCEPT !.status = o[1]]

(* replaceStatuses: gates whose stage is gone go too, and completions with  *)
(* them.  Two admins at once are not modelled.                              *)
ReplaceStatuses(o) ==
    LET gone == {g \in Gates : gate[g] \notin OnBoard(o) \union {Archived}}
    IN  /\ Administer
        /\ o # order
        /\ order' = o
        /\ gate' = [g \in Gates |-> IF g \in gone THEN NoStage ELSE gate[g]]
        /\ ticket' = [x \in Tickets |-> [Rehomed(ticket[x], o) EXCEPT !.done = @ \ gone]]
        /\ lost' = {}
        /\ UNCHANGED strict

(* replaceStageGates, one gate of it: a gate kept by id keeps what is       *)
(* ticked off, on whatever stage it is put; one left out loses it.          *)
ReplaceGate(g, s) ==
    /\ Administer
    /\ s # gate[g]
    /\ gate' = [gate EXCEPT ![g] = s]
    /\ ticket' = [x \in Tickets |-> IF s = NoStage THEN [ticket[x] EXCEPT !.done = @ \ {g}] ELSE ticket[x]]
    /\ UNCHANGED <<order, strict, lost>>

SetTransitionMode ==
    /\ Administer
    /\ strict' = ~strict
    /\ UNCHANGED <<order, gate, ticket, lost>>

(* setGateCompletion.                                                       *)
SetGateCompletion(x, g) ==
    /\ Administer
    /\ ticket[x].status # NoStage
    /\ gate[g] # NoStage
    /\ ticket' = [ticket EXCEPT ![x].done = IF g \in @ THEN @ \ {g} ELSE @ \union {g}]
    /\ UNCHANGED <<order, strict, gate, lost>>

(* createFeature and the insert of a sync name no stage: the item is in the *)
(* backlog, whether or not there is such a stage.                           *)
Create(x) ==
    /\ Administer
    /\ ticket[x].status = NoStage
    /\ ticket' = [ticket EXCEPT ![x].status = Backlog]
    /\ lost' = IF Backlog \in OnBoard(order) THEN lost ELSE lost \union {x}
    /\ UNCHANGED <<order, strict, gate>>

GateNext ==
    \/ \E c \in GateCalls : HopRead(c) \/ HopWrite(c) \/ \E x \in Tickets : PatchAsk(c, x)
    \/ \E o \in Orders : ReplaceStatuses(o)
    \/ \E g \in Gates, s \in Stages \union {NoStage} : ReplaceGate(g, s)
    \/ \E x \in Tickets : Create(x) \/ \E g \in Gates : SetGateCompletion(x, g)
    \/ SetTransitionMode

GateSpec == GateInit /\ [][GateNext]_gateVars

-------------------------------------------------------------------------------
(* Everything is of its kind, and what is ticked off is a gate that exists. *)
GateTypeOK ==
    /\ order \in Orders
    /\ strict \in BOOLEAN
    /\ gate \in [Gates -> Stages \union {NoStage}]
    /\ ticket \in [Tickets -> [status : Stages \union {Archived, NoStage}, filled : BOOLEAN,
                               done : SUBSET {g \in Gates : gate[g] # NoStage}]]
    /\ tried \in 0..MaxGateCalls
    /\ lost \subseteq Tickets

(* StatusIsAStage: an item is in one of the stages in force, or archived,   *)
(* whatever the admin did to the stages ("left the work sitting in a stage  *)
(* the board no longer draws" is what replaceStatuses exists to avoid).     *)
(* Excused: an item moved by a patch that was checked against the stages    *)
(* before, and one created in a workspace that has no backlog stage.        *)
StatusIsAStage ==
    \A x \in Tickets \ lost : ticket[x].status \in OnBoard(order) \union {Archived, NoStage}

(* GatesHonoured: a patch, one hop or a walk, takes an item forward only    *)
(* past gates that are satisfied as it does ("checking the whole range      *)
(* stops a multi-stage jump from bypassing an intermediate stage's          *)
(* checklist", features-service.ts), but for what changed since it looked.  *)
GatesHonoured ==
    [][\A c \in GateCalls :
          LET x == patch[c].ticket
              to == ticket'[x].status
              saw == patch[c].saw
          IN  /\ patch[c].stage = "write" /\ patch'[c] # patch[c]
              /\ Forward(ticket[x].status, to)
              /\ saw.order = order /\ saw.ticket.status = ticket[x].status
              => \A g \in {h \in Gates : gate[h] \in OnBoard(order)} :
                    Ordinal(gate[g]) \in Ordinal(ticket[x].status)..(Ordinal(to) - 1) =>
                       \/ Satisfied(ticket'[x], g)
                       \/ gate[g] # saw.gate[g]
                       \/ (g \in ticket[x].done) # (g \in saw.ticket.done)
                       \/ ticket[x].filled # saw.ticket.filled]_gateVars
===============================================================================
