------------------------------ MODULE ModelSpend ------------------------------
(***************************************************************************)
(* Spending tokens on the workspace's own model: the check of the caps     *)
(* before a call, the call, and the line of the ledger after it            *)
(* (usage-service.ts, model-provider-service.ts).                          *)
(*                                                                         *)
(* The check is three reads, each a transaction of its own, with the clock *)
(* as it was at the first; the ledger line is stamped when it is written.  *)
(* The endpoint is external: what it reports is what is recorded.  A call  *)
(* is budgeted an estimate of its prompt (four characters a token, which   *)
(* "under-counts for code") and its ceiling on generation, and may report  *)
(* more than that, less, or nothing.                                       *)
(***************************************************************************)
EXTENDS Integers, FiniteSetsExt

CONSTANTS
    LastDay,          \* bound: the days a behaviour may see
    MonthOf,          \* the month of each day
    People,
    Everyone,         \* the workspace, as the one who spends
    Budgets,          \* what a call may be budgeted
    Reports,          \* what an endpoint may report that a call has cost
    Caps,             \* the caps an admin may set
    NoCap,            \* uncapped, which is not zero
    SpendCalls,       \* calls that may run at once
    MaxSpendCalls     \* bound: calls, and changes of the caps

Days == 1..LastDay

ASSUME ModelSpendAssumption ==
    /\ LastDay \in Nat /\ LastDay >= 1
    /\ MonthOf \in [Days -> Nat]
    /\ \A d, e \in Days : d <= e => MonthOf[d] <= MonthOf[e]
    /\ Everyone \notin People
    /\ IsFiniteSet(People)
    /\ Budgets \subseteq Nat
    /\ Reports \subseteq Nat
    /\ Caps \subseteq Nat
    /\ NoCap \notin Nat
    /\ MaxSpendCalls \in Nat

Limits == [monthly : Caps \union {NoCap}, daily : Caps \union {NoCap}]

VARIABLES
    today,
    limits,       \* the row of workspace_usage_limits
    ledger,       \* model_usage_events: what each person spent on each day
    inference,    \* the calls under way
    begun,        \* what MaxSpendCalls bounds, so far
    slack         \* history: what each period may be over its cap, and why not more

spendVars == <<today, limits, ledger, inference, begun, slack>>

NoInference == [stage |-> "idle"]

(* The periods a cap speaks of: a month of all, a day of one person.        *)
Periods == ({MonthOf[d] : d \in Days} \X {Everyone}) \union (Days \X People)

Total(lines) == MapThenSumSet(LAMBDA line : ledger[line], lines)

Spent(p) ==
    IF p[2] = Everyone THEN Total({line \in Days \X People : MonthOf[line[1]] = p[1]})
                       ELSE ledger[p]

CapOn(p, row) == IF p[2] = Everyone THEN row.monthly ELSE row.daily

SpendInit ==
    /\ today = 1
    /\ limits \in Limits
    /\ ledger = [line \in Days \X People |-> 0]
    /\ inference = [c \in SpendCalls |-> NoInference]
    /\ begun = 0
    /\ slack = [p \in Periods |-> 0]

(* getUsageLimits.  met: the checks that are out of date by now.            *)
SpendAsk(c, u, budget) ==
    /\ inference[c] = NoInference
    /\ begun < MaxSpendCalls
    /\ begun' = begun + 1
    /\ inference' = [inference EXCEPT ![c] =
          [stage |-> "monthly", user |-> u, budget |-> budget, now |-> today,
           row |-> limits, met |-> {}]]
    /\ UNCHANGED <<today, limits, ledger, slack>>

(* Mutant: the cap is a tripwire, and the call that crosses it goes through.*)
AllowsCrossing(cap, used, budget) == cap = NoCap \/ used <= cap

Allows(cap, used, budget) == cap = NoCap \/ used + budget <= cap

(* checkUsageAllowance: the month of the workspace, then the day of the     *)
(* person, each since it began as the clock stood at first.                 *)
CheckMonthly(c) ==
    LET call == inference[c]
        used == Total({line \in Days \X People : MonthOf[line[1]] >= MonthOf[call.now]})
    IN  /\ call.stage = "monthly"
        /\ inference' = [inference EXCEPT ![c] =
              IF Allows(call.row.monthly, used, call.budget)
              THEN [call EXCEPT !.stage = "daily"] ELSE NoInference]
        /\ UNCHANGED <<today, limits, ledger, begun, slack>>

CheckDaily(c) ==
    LET call == inference[c]
        used == Total({line \in Days \X {call.user} : line[1] >= call.now})
    IN  /\ call.stage = "daily"
        /\ inference' = [inference EXCEPT ![c] =
              IF Allows(call.row.daily, used, call.budget)
              THEN [call EXCEPT !.stage = "sent"] ELSE NoInference]
        /\ UNCHANGED <<today, limits, ledger, begun, slack>>

(* A line is written: the checks made before it are out of date.            *)
Outdated(d, u) ==
    LET call == inference[d]
    IN  CASE call.stage = "idle" -> call
          [] call.stage = "monthly" -> call
          [] call.stage = "sent" /\ call.user = u -> [call EXCEPT !.met = {"monthly", "daily"}]
          [] OTHER -> [call EXCEPT !.met = @ \union {"monthly"}]

CheckOn(p) == IF p[2] = Everyone THEN "monthly" ELSE "daily"

Excess(tokens, budget) == IF tokens > budget THEN tokens - budget ELSE 0

(* The call has ended, finished, failed or abandoned, and is recorded.  One *)
(* whose check still stands was under the cap, budget and all.              *)
Record(c, tokens) ==
    LET call == inference[c]
        day == <<today, call.user>>
    IN  /\ call.stage = "sent"
        /\ ledger' = [ledger EXCEPT ![day] = @ + tokens]
        /\ slack' = [p \in Periods |->
              IF p \notin {<<MonthOf[today], Everyone>>, day} THEN slack[p]
              ELSE IF CheckOn(p) \in call.met THEN slack[p] + tokens
              ELSE Excess(tokens, call.budget)]
        /\ inference' = [d \in SpendCalls |-> IF d = c THEN NoInference ELSE Outdated(d, call.user)]
        /\ UNCHANGED <<today, limits, begun>>

(* recordUsage swallows its error; a process that dies records nothing.     *)
RecordLost(c) ==
    /\ inference[c].stage # "idle"
    /\ inference' = [inference EXCEPT ![c] = NoInference]
    /\ UNCHANGED <<today, limits, ledger, begun, slack>>

(* saveUsageLimits: what was spent by then may be over the new caps, and    *)
(* the calls under way were checked against the old ones.                   *)
SaveUsageLimits(row) ==
    /\ row # limits
    /\ begun < MaxSpendCalls
    /\ begun' = begun + 1
    /\ limits' = row
    /\ slack' = [p \in Periods |->
          IF CapOn(p, row) # NoCap /\ Spent(p) > CapOn(p, row) THEN Spent(p) - CapOn(p, row) ELSE 0]
    /\ inference' = [c \in SpendCalls |->
          IF inference[c] = NoInference THEN NoInference
          ELSE [inference[c] EXCEPT !.met = {"monthly", "daily"}]]
    /\ UNCHANGED <<today, ledger>>

NextDay ==
    /\ today + 1 \in Days
    /\ today' = today + 1
    /\ UNCHANGED <<limits, ledger, inference, begun, slack>>

SpendNext ==
    \/ \E c \in SpendCalls :
          \/ \E u \in People, budget \in Budgets : SpendAsk(c, u, budget)
          \/ CheckMonthly(c) \/ CheckDaily(c) \/ RecordLost(c)
          \/ \E tokens \in Reports : Record(c, tokens)
    \/ \E row \in Limits : SaveUsageLimits(row)
    \/ NextDay

SpendSpec == SpendInit /\ [][SpendNext]_spendVars

-------------------------------------------------------------------------------
(* The clock, the caps, the ledger and the calls are of their kind.         *)
SpendTypeOK ==
    /\ today \in Days
    /\ limits \in Limits
    /\ ledger \in [Days \X People -> Nat]
    /\ \A line \in Days \X People : line[1] > today => ledger[line] = 0
    /\ \A c \in SpendCalls : inference[c] # NoInference =>
          /\ inference[c].user \in People
          /\ inference[c].now \in 1..today
          /\ inference[c].row \in Limits
    /\ begun \in 0..MaxSpendCalls
    /\ slack \in [Periods -> Nat]

(* CapIsACeiling: no month of the workspace and no day of a person costs    *)
(* more than its cap ("a cap behaves like a ceiling rather than a           *)
(* tripwire", usage-service.ts), however calls overlap midnight, months and *)
(* each other.  What may come on top: what the last call whose check stood  *)
(* cost beyond its estimate, never that of the calls before it; since then, *)
(* the tokens of calls that were checked before another's were recorded, or *)
(* against other caps than those in force; and what had been spent when a   *)
(* cap was lowered.                                                         *)
CapIsACeiling ==
    \A p \in Periods : CapOn(p, limits) # NoCap => Spent(p) <= CapOn(p, limits) + slack[p]
===============================================================================
