# A verification development for Specboards

Specboards (`src/`) is a product-planning application: a Next.js web application
over PostgreSQL, spec documents kept as files in git, agents that work on items,
and reviewers who accept what agents propose. This directory holds TLA+ modules
that model the parts of it where concurrency, crashes and retries decide whether
the program is right, TLC configurations that check them on small instances, and
proofs, checked by TLAPS, of every safety property the passing runs check.

Paths below are relative to `src/apps/web/src/lib/` unless they begin with `app/`
(`src/apps/web/src/app/`) or `packages/`.

Contents: [the system](#the-system) · [modules and code](#modules-and-code) ·
[runs](#runs) · [bounds](#bounds) · [fairness](#fairness) · [proofs](#proofs) ·
[findings](#where-the-code-and-its-words-disagree) ·
[limits](#what-is-not-modelled) · [plan](#plan)

## The system

Several server processes may run the same build; they share nothing but the database
(and git). Every process starts the two background jobs (the outbox and webhook
drainer, every 30 s; the schedule dispatcher, every 60 s) and serves requests. So
the actors that interleave are: requests of people, calls of agents, the passes and
workers of each process's drainer, its schedule sweeps, GitHub's push webhooks, and
crashes. PostgreSQL runs at read committed. What the code relies on is row locks
(`FOR UPDATE SKIP LOCKED`), conditional updates, unique indexes, leases written into
rows, and, for git, the blob sha of a guarded write.

| Component (code) | State it keeps | Operations | How others reach it | What is hard | What makes it correct |
|---|---|---|---|---|---|
| **Outbox relay and fan-out** `webhooks/relay.ts`, `drainer.ts`, `notifications/fanout.ts` | `outbox` rows (`processedAt`), delivery rows, notices; per process `draining`, `rerun`, `soonScheduled` | emit (in the caller's transaction), drain pass, expand one event, mail after commit, prune | every mutation of a service writes an outbox row; a pass hands rows to the delivery drainer | two relays on one list of candidates, a crash anywhere in the expansion, an SQL error inside the transaction | each event expanded exactly once; stamp and effects together; every event in the end |
| **Webhook delivery** `webhooks/store.ts`, `drainer.ts` | `webhook_deliveries` (status, attempts, nextAttemptAt), `webhook_endpoints` (active, streak) | claim with a lease, POST, record an outcome, back off, give up, disable, requeue, pause, resume, delete | rows come from the relay; owners requeue and change endpoints | a lease is no lock; outcomes are written by id; a crash in the middle of a POST | one worker at a time, bounded tries, delivered stays delivered, every delivery settled |
| **Proposals** `proposals/*.ts`, `store/precondition.ts` | `proposals` (status, claim time, base), the target's text | draft, apply (staleness check, fingerprint, claim, guarded write, settle), dismiss, release, reconcile | skill runs and the assistant insert them, reviewers decide them, the item services write them | double clicks, hand edits under an apply, death between write and settlement, a reconciler that gives up on a live request | one applier, no edit lost but in the window between the two reads, a decision is final, a landed change is said to have landed |
| **Agent runs** `runs/*.ts` | `agent_runs` (status, trace, steer note) | open, report, steer, cancel, skill run | MCP tools for agents, buttons for people, schedules for skills | a report racing a cancellation or another report or a note; a model call in the middle | one active run per agent and item; an ended run stays ended; no step and no note lost, no note taken by two reports |
| **Agent schedules** `schedules/*.ts`, `schedules-service.ts` | `agent_schedules` (enabled, nextRunAt, failures) | create, edit, delete, sweep, fire, record, give up, announce | a firing is a skill run; the announcement is an outbox event | a batch leased once and fired one by one; outcomes computed from a stale row; death | fired by one sweep at a time, failures counted right as far as a stale row allows, a stop announced |
| **Spec files in git** `spec-content.ts`, `github-sync.ts`, `github-delivery-dedup.ts`, `app/api/webhooks/github/route.ts`, `packages/git` | the file in git, the index row, claimed delivery ids | guarded and unguarded save, merge and retry, id injection, sync, push handling | the editor, pushes, a save's own sync | writers in git nobody controls, syncs that overlap, redelivery, quota | no guarded save replaces what its author has not seen; the index follows git |
| **Item tree** `store/db/items-write.ts`, `features-service.ts`, `convert-item-service.ts`, `work-items-service.ts`, `spec-content.ts`, `github-sync.ts` | `features` rows (level, parent, who set it, grouping key), the spec files' ids | create, re-parent, convert, delete, attach a spec, home by a sync, prune an emptied grouping | people, agents and syncs write the same rows | levels and parents are compared before the transaction that writes; git and the database change in two steps | a child sits one level under its parent; a parent a person chose stays; a deleted item stays deleted |
| **Planning data** `store/db/releases.ts`, `cycles.ts`, `release-cascade*.ts` | releases, cycles (product), each item's release and cycle | assign, cascade, move or delete a release or cycle, roll a cycle over | item patches and the release and cycle pages | an assignment checks a slot it does not lock; a cascade is one transaction per child | scheduled work shares its slot's product; a cascade makes every move it was planned to make, and no other |
| **Workflow and gates** `features-service.ts`, `store/db/workspace-config.ts` | stages and their order, transition mode, gates, completions, each item's status | status patch, advance walk, replace stages, replace gates, tick off | item patches; the settings pages | a walk is several patches; stages and gates change under it | an item is in a stage that exists; no gate is jumped |
| **Members and invitations** `org-members-service.ts`, `invitations-service.ts`, `workspace.ts` | members (role, active), invitations | change a role, suspend, remove, invite, redeem, revoke, auto-join | settings pages, sign-in | owners are counted before the write that removes one | an active owner remains |
| **Model spend** `usage-service.ts`, `model-provider-service.ts` | caps, the usage ledger | check monthly and daily caps, call, record, change caps | skill runs, the assistant | check, call of minutes and record are apart, across midnight | a cap is a ceiling, but for what overlaps and what a call costs beyond its estimate |
| Rate limits, pull requests, notification preferences, portal, authentication, row-level security, goals, ideas, docs and comments, assistant, MCP server and command line, local file mode, user interface | — | — | — | request-response over single rows, access control, transport or rendering | not modelled |

How the components interact: a service's transaction emits an outbox event; the
relay expands it to webhook deliveries and notices; the delivery drainer sends
the deliveries. A schedule's firing opens a run, the run asks a model and
inserts a proposal, and a reviewer's apply writes the target; when the target is a
spec file, that write is a guarded save of SpecSync. Each interaction is a row
that one side inserts and the other reads, so the modules are
composed by what they assume of each other's rows (an event appears once, in one
step; a delivery row is inserted `pending`; a proposal is inserted `open`) and
share no variable. The one composition inside a module is the delivery rows of
OutboxRelay, which are the `Enqueue` of WebhookDelivery. ItemTree, Planning,
StageGates, Members and ModelSpend are five groups of columns that requests write
apart: a patch that changes a parent and a status at once is checked for each
separately.

## Modules and code

Every definition that stands for code is listed with its file and lines in
`PROJECT.json` under `map`. Conventions throughout: one action is one database
statement or one transaction (whatever commits atomically), or the local computation
between two awaits; a request's or a process's local variables are a record with a
`stage`; a crash resets that record and leaves the database alone, except that an
open transaction is rolled back. Operators commented "Mutant" are the faulty
variants that the mutants of `PROJECT.json` put in the place of the operator that
follows them; no action uses them. Time is not counted: a lease, a backoff or a
grace period ends by an action of its own. Variables marked *history* in the modules
are bookkeeping that no action reads in a guard (bounds aside); properties speak of
them. Bounds are constants named `Max…` and occur in the guards of disturbances
(crashes, edits, faults), nowhere else unless said.

**OutboxRelay** (`relay.ts`, `drainer.ts`, `store.ts` pruning, `fanout.ts`,
`email.ts`). `outbox[e]` is the event's row; `lock[e]` its row lock; `rows`,
`notices` and `mailed` count the committed effects. `proc[r]` holds a process's module-level
flags, `relay[r]` the pass under way: the candidates it selected without a lock,
the transaction's uncommitted effects, whether that transaction has been
aborted. `IntervalFires` and `KickFires` enter `drainOnce`; `Claim`, `Skip`,
`Expand`, `ExpandFaulty`, `Commit`, `Abort`, `SendMail` and `EndPass` are the
steps of a pass; `DomainCommit`, `ToggleEndpoint`, `Prune`, `Crash` and
`Restart` come from outside it. An SQL error in the fan-out is caught by the
code but leaves PostgreSQL's transaction aborted, so the stamp that follows
fails: `aborted` carries that. The deliveries a pass sends after relaying are
WebhookDelivery's.

**WebhookDelivery** (`webhooks/store.ts`, `drainer.ts`). A worker is one
`deliverOne` call in flight; the workers of one process run concurrently as
those of two do, so processes are not told apart, and a claim of a batch is as
many claims of a row. Outcomes are statements of their own (mark, then streak, then
disable) keyed by the row's id alone, as in the code. `exposed` marks the rows
that somebody requeued, or whose lease ran out, under a busy worker.

**ProposalDecision** (abstract) and **Proposals** (`proposals/service.ts`,
`handlers.ts`, `store.ts`, `reconcile.ts`, `store/precondition.ts`).
ProposalDecision says what a reviewer is promised: a proposal is open, being
applied, applied or dismissed; applied means its change has landed; a decision is
final; the change lands once, except for writes whose outcome the request did not
hear. Proposals is the detailed lifecycle: `Load`, `Check` (staleness),
`Fingerprint`, `ClaimApply`/`ClaimDismiss` (conditional updates), `Write`,
`WriteUnheard` (the write commits and the read after it fails), `WriteRefused` (the
precondition no longer holds), `ReleaseClaim`, `Settle`, hand edits, crashes,
`GraceEnds` and the two steps of the reconciler. A whole-text proposal replaces the
target's text, any other one a field that is not part of it. A request keeps its two
readings of the target apart: `saw` is what the staleness check judged, `expect` the
fingerprint its write is conditional on. `lost` records a write over an edit made
since the draft, and whether the two readings agreed.

**AtomicRuns** (abstract) and **AgentRuns** (`runs/service.ts`, `store.ts`,
`skill-run.ts`). AtomicRuns is what a caller may take the service for: opening,
reporting, steering, cancelling and settling are each one step on the row as it
is, with no lock and nothing read earlier. AgentRuns is how it is done: `openRun` is
find, insert, and on the unique index's refusal find again; opening the run one
already has (`Join` in AtomicRuns, `Answered` here) answers with the note that waits on it
and leaves it there, so that the next report answers with it again; `reportUnderLock`
locks, reads and writes under one lock; `steerRun` reads, then patches by id;
`cancelRun` is one conditional update; a skill run opens, waits for the model, and
settles by id. `said` and `fate` record every accepted step and what became of
each note in the reports, `shown` which ones an open has answered with.

**Schedules** (`schedules/dispatcher.ts`, `store.ts`, `schedules-service.ts`).
`Claim` leases up to `ClaimLimit` due rows in one statement and remembers their
failure counts as read; firings follow one by one, each ends well or not, is
recorded by id, and a failure is announced in a later transaction (a stop in one more).
`failed` and `inRow` count what has really happened, since the owner's last edit and
since the last success; `lapsed` holds the schedules that came due again under a
sweep that still had them, `muddled` those edited under one. The calendar
of a cadence is "later"; an unreadable cadence is left out.

**SpecSync** (`spec-content.ts`, `github-sync.ts`, `github-delivery-dedup.ts`,
`app/api/webhooks/github/route.ts`, `packages/git/src`). One file in direct write
mode. A document is a function from sections to who wrote them last; the three-way
merge takes each side's changed sections and refuses when both changed the same one;
a blob sha is the file it names. Saves with a version are guarded; a save without
one is not (the code's own choice, so that what it replaces is not counted as
clobbered). GitHub is modelled by what the code asks of it: a PUT compares the sha,
a push is delivered, what got no good answer comes again, and anything delivered may
come again.

**ItemTree** (`store/db/items-write.ts`, `features-service.ts`,
`convert-item-service.ts`, `work-items-service.ts`, `spec-content.ts`,
`github-sync.ts`, `packages/core/src/levels.ts`). `item` is the row of each spec id,
`file` the ids whose spec is in git, `call` the requests under way. Re-parenting,
creating, converting, deleting and attaching are a read, which locks nothing, and a
write; deleting takes the file away in between; a sync lists the files, reads the
row, finds the grouping and commits; the clean-up of a grouping looks for children,
then for references, then deletes. `skewed` and `excused` remember which races have
met.

**Planning** (`store/db/releases.ts`, `cycles.ts`, `items-write.ts`,
`release-cascade.ts`, `release-cascade-service.ts`). A slot is a release or a
cycle, `at` the two slots of each item. `Assign` reads under the item's lock and
`Write` writes; `CascadePlan` and `CascadeNext` carry a release down the tree,
shallowest first, each child a transaction, and record the board the plan was made
from; `rewritten` notes what other requests have put elsewhere since, `CascadeEnds` is
the report of the moves; `MoveSlot`, `DeleteSlot` and the rollover are the slots'
own operations. The tree and the products of items stand still here.

**StageGates** (`features-service.ts`, `gate-fields.ts`,
`store/db/workspace-config.ts`, `packages/core/src/status.ts`). A patch is cut into
hops (`PatchAsk`, `Path`; in strict mode a hop goes one stage on or back, but the
built-in stages keep `DEFAULT_TRANSITIONS`, whose last stage leads back past its
neighbour: `Back`), each checked (`HopRead`) and then written (`HopWrite`) while an
admin replaces stages, gates and the transition mode and people tick gates off.
`lost` holds the items that a patch checked against earlier stages, or a creation
without a backlog stage, left outside the stages.

**Members** (`org-members-service.ts`, `invitations-service.ts`, `workspace.ts`).
`ChangeRead` counts the owners, `ChangeWrite` writes; `RedeemRead` and
`RedeemWrite` claim an invitation and upsert the member; `AutoJoin` is the
single-tenant join. `loosened` is set when the last owner went by one of the two
ways the code leaves open.

**ModelSpend** (`usage-service.ts`, `model-provider-service.ts`). `SpendAsk`,
`CheckMonthly`, `CheckDaily`, the call, `Record`, with the clock of the check and
the clock of the ledger line apart. A call's budget is the estimate the check is
made with; what is recorded is what the endpoint reports, which may be more, less
or nothing. `slack` is what each period may be over its cap: what the last call
whose check still stood cost beyond its estimate (`Excess`), and since then the
tokens of calls checked before others were recorded.

**MCWorkspaceWrites** composes these five. They share no variable, so their
product would show nothing that each does not: a behaviour belongs to one of
them (`part`), and the others stand still.

The **MC** modules give the constants model values. **OutboxRelayProofs**,
**ProposalsProofs**, **AgentRunsProofs**, **SchedulesProofs**,
**WebhookDeliveryProofs**, **SpecSyncProofs**, **AccountProofs** (Members and
ModelSpend) and **WorkspaceProofs** (ItemTree, Planning, StageGates and the
composition) hold the theorems.

## Runs

| Run | Asks | Distinct states | Shows |
|---|---|---|---|
| `relay` | OutboxRelay, two relays, a crash, a transient SQL error | 185,200 | `ExpandedAtMostOnce`, `StampedIffExpanded`, and `EveryEventExpanded` under fairness |
| `relay_poison` | an event whose fan-out fails every time | violated | finding 1 |
| `delivery` | WebhookDelivery, two rows of one endpoint, two workers | 395,489 | `OneWorkerPerDelivery`, `BudgetRespected`, `ActiveBelowThreshold`, `DeliveredIsFinal`, `EveryDeliverySettles` |
| `delivery_requeue` | a redelivery under a busy worker | violated | finding 2 |
| `proposals` | Proposals, a whole-text and a metadata proposal on one target, two requests, an edit, a fault | 731,858 | `OneApplier`, `NoEditLostOutsideWindow`, the refinement `ImplementsDecision`, `LandedIsEventuallySaid` |
| `proposals_window` | an edit between the two reads of the target | violated | finding 3 |
| `agent_runs` | AgentRuns, two calls, two rows, two notes, a crash | 895,656 | `NoNoteClearedUndelivered`, `TraceIsLatestSteps`, `OwnedRunStaysFinished`, the refinement `ImplementsAtomicRuns` |
| `agent_runs_cancelled` | a skill run cancelled during its model call | violated | finding 4 |
| `schedules` | Schedules, two schedules, two sweeps | 160,041 | `OneSweepPerSchedule`, `FailureCountIsTrue`, `StoppedOnlyAfterFailures`, `EveryDueScheduleFires`, `StopIsAnnounced` |
| `spec_sync` | SpecSync, a save, pushes, two overlapping syncs, redelivery | 398,012 | `NoGuardedSaveClobbers`, `DeliveryActsOnce`, `IndexCatchesUp` |
| `spec_sync_refused` | a push refused for quota | violated | finding 5 |
| `workspace_writes` | ItemTree, Planning, StageGates, Members, ModelSpend: two requests at once | 1,714,052 | `LevelRule`, `ChosenParentStays`, `DeletedStaysGone`; `SlotFitsWork`, `CascadeCarriesAll`; `StatusIsAStage`, `GatesHonoured`; `OwnerRemains`; `CapIsACeiling` |

Each passing run also checks its module's `TypeOK` (`WorkspaceTypeOK`, the
conjunction of five, in the last). `StampIsFinal`, `DecisionIsFinal`,
`OnlyOwnersSwitchOn` and `OneActiveRun` (which follows from
`ImplementsAtomicRuns`) are proved and are in no run. Each property of a passing
run has a mutant in `PROJECT.json`: a plausible bug in the modelled code (a
dropped lock, a missing condition of an update, a lease left out, a swapped
order) under which TLC finds that property violated with the same bounds.

Several properties speak only of rows that are not `exposed` (WebhookDelivery) or
`lapsed` (Schedules): a lease is not a lock, and the code accepts that a lease that
runs out, or a requeue, under a live worker lets a second one in. What the
properties say is that nothing else does. An owner's edit during a firing is
no such excuse: `FailureCountIsTrue` then bounds the count from both sides, and
asks it to be exact again after the next success.

`CHECK_DEADLOCK FALSE` is set where the bounded system may stop: all proposals
decided, all runs ended, all deliveries settled, no schedule left, all pushes
handled, all requests made. The relay never stops, because a process may always be
triggered; its runs check for deadlock.

## Bounds

Two of each kind of actor are enough for every race in the code, because every
race is between one read and one write with another actor's write in between;
none of the guards counts actors. Two rows tell apart "this row" from
"another" and let a batch hold more than one.

- `relay`: 2 events, 2 processes, 1 endpoint, `Batch = 2` (so that a full batch
  asks for a rerun), 1 SQL error, 1 crash. One crash can fall between any two
  steps; the inductive invariant was checked with two, and the theorems hold for
  any number.
- `delivery`: `Budget = 1` (a retry and then a give-up), `Threshold = 2` (a
  streak that one give-up does not fill), 2 mishaps, so that a lapsed lease and
  a requeue, or a crash and a pause, can meet.
- `proposals`: 1 hand edit (it can fall into each window in turn), 1 fault
  (crash, unheard write, or a grace period ended under a live request).
- `agent_runs`: `MaxTrace = 2` with `MaxSteps = 3`, so that the cap drops a step;
  2 notes, so that one replaces the other. Calls, rows and notes are
  interchangeable and are reduced by symmetry; the run has no liveness property.
- `schedules`: `ClaimLimit = 2` (the second waits while the first fires),
  `GiveUpAfter = 2`, 1 disturbance (an owner's edit or deletion, a crash, an outlived
  lease or a swallowed announcement), which can fall between any two steps.
- `spec_sync`: 4 commits (the first one, an outside edit, a save, an injected id
  or a second edit), `MaxMerge = 2` (a merge and a second attempt), 2 sections,
  so that a merge can succeed and can conflict, 1 mishap.

- `workspace_writes`: two requests at once, interchangeable and reduced by symmetry,
  of at most two (ItemTree) or three (the rest) in all; no liveness property. Tree:
  three tables with an epic, a grouping on either side of it, a leaf with and
  without a spec, and one id to come; the tree part was also checked alone with
  three requests (600,000 states), together with the parts of its inductive
  invariant. Planning: three items in a chain, the lowest of another product, two
  releases, two cycles, own and shared. Gates: three stages in three orders, the
  built-in one, its reverse and a shorter one, a field gate and a checklist gate.
  Members: three users, one invitation. Spend: three days, the last of another
  month; budgets 1 and 3, caps 2 and 3, so that one call fits and two do not;
  reports of 0, 1 and 4 tokens, below and above what was budgeted.

Counters grow only by actions under such a bound, so the state spaces are finite
without a state constraint.

## Fairness

Only weak fairness, and only of what the program schedules itself:

- OutboxRelay: the interval keeps triggering a process, a pass once begun goes on,
  a dead process is started again by its platform.
  Crashes and SQL errors are bounded, so in the end a process stays up. Without
  the bound on errors the property fails, which is what `relay_poison` shows
  with one event.
- WebhookDelivery: clocks advance; the sweep claims what is due, oldest first with a
  limit, so no due row is passed over for ever; a `deliverOne` in flight ends (the
  POST has a timeout).
- Proposals: a request goes on unless its process dies; the grace period ends;
  the reconciler runs whenever somebody opens the review queue (`reconcile.ts`
  is called from reading the queue), so `LandedIsEventuallySaid` assumes that somebody does.
- Schedules: clocks advance, the interval ticks, a firing ends (a model call has a timeout).
- ItemTree, Planning, StageGates, Members, ModelSpend: none. Their requests are made
  by people and nothing is promised to happen.
- SpecSync: a sync that has begun goes on unless it fails; GitHub delivers
  pushes and repeats those without a good answer (external: this is what the
  route's comments say of it). No author is made to save.

Nothing is assumed of people.

## Proofs

All theorems are of the modules as they stand, for every value of the constants
that satisfies the named assumptions.

**OutboxRelayProofs.** `NeverTwice` (`ExpandedAtMostOnce`), `NeverHalf`
(`StampedIffExpanded`), `StampStays` (`StampIsFinal`) and `TypesHold`, for any set
of processes, endpoints, events and poisoned events and any bounds, from the
module's assumption that the constants have their types. None of the
first two is inductive. The invariant `IInv` adds to the types:

- `OnePass`: a process's `draining` flag is set exactly while it has a pass under
  way, and a process that is down has none; otherwise a trigger could start a
  pass over one that has a transaction open;
- `Locking`: a row is locked exactly by the pass whose transaction on it is
  open, and only while the event is pending. This is the heart: the second relay
  either skips a locked row or finds it stamped after the first commits;
- `Counting`: committed notices are one exactly when the event is stamped, and
  neither deliveries nor mails exceed them;
- `Mailing`: a pass that is about to mail an event is the only one, and the mail
  is still due.

`StampStays` follows from the same invariant: only the lock's holder commits
rows, and nobody holds the lock of a stamped event.

**ProposalsProofs.** `TypesHold`, `NeverTwoAppliers` (`OneApplier`),
`OnlyOneWindow` (`NoEditLostOutsideWindow`), `DecisionStays`
(`DecisionIsFinal`) and `LifecycleImplementsDecision` (`ImplementsDecision`), for
any proposals, targets and requests. `IInv` adds:

- `SoleApplier`: a proposal has at most one request past its claim, and while it
  has one its row says applying (or applied, if the reconciler was faster);
- `Heard`: the writes of a proposal exceed those nobody heard of by one at most;
  from the heard one on, the row is applying or applied and no request is about
  to write or to release;
- `LandedFirst`: a row that is applied or about to be reconciled, and a target
  that holds a proposal's whole text, have a landed change behind them.

The refinement shows that each step of the lifecycle is a step of ProposalDecision
under the mapping in `Proposals` (`decision` is the row's status, `landed` what has
been written, `doubtful` what was written unheard) or leaves its variables alone.
`OnlyOneWindow` needs a second invariant, `Judged`: from the staleness check to the
write a request carries the reading that was compared with the proposal's base, and
the base of a loaded proposal does not change. An edit that a write replaces since
the draft was therefore between the two readings, the case of finding 3, and in no
other place of the lifecycle. The refinement's one assumption beyond types is
`OwnTextAssumption`: nobody puts a proposed whole text on a target word for word
except by applying it. The reconciler takes "the target's text is the proposal's" as
proof that the write happened, which is right only then.

**AgentRunsProofs.** `TypesHold`, `OneRunPerAgent` (`OneActiveRun`), `NotesSurvive`
(`NoNoteClearedUndelivered`), `TraceIsTheWindow` (`TraceIsLatestSteps`),
`OutcomeStays` (`OwnedRunStaysFinished`) and `CallsAreAtomic`
(`ImplementsAtomicRuns`), for any agents, items, rows, calls, notes and bounds.
`IInv` adds: `Held`, a report under its lock sees the row as it still is, and is the
only one (what FOR UPDATE buys); `Skilled`, a skill run's row belongs to one
request; `Steered`, a note is for a row that exists; `Blank`, a row to come has
nothing in it; `Alone`, the unique index, row by row, from which the cardinality in
`OneActiveRun` follows; `NoteOnce`, a note waits in one slot. What `NotesSurvive`
promises is of reports: a note waits in its slot until one report takes it or a
later note replaces it, and no second report takes it. Opens may show it any number
of times before that.

The refinement of AtomicRuns maps the rows to themselves, the accepted steps to
their number, the notes' fates to the set of those a report has taken, and the notes
shown to themselves. The insert is the step of `Open` (the index gives its guard),
finding a run, at once or after the refusal, that of `Join`, a report's write that
of `Report` (`Held` makes the row it read the row that is), a note's patch that of
`Steer`, a skill's settlement that of `Settle` (by `Skilled` and the trace's window
nobody else has added to its trace); all other reads and the refused insert are
stutters. `Asked`, a second inductive invariant, says that a request that opens a
run is on one item. `Steer` and `Settle` ask nothing about the run being unfinished,
because the code does not: finding 4 is a behaviour of AtomicRuns too.

**SchedulesProofs.** `TypesHold`, `LeaseIsExclusive` (`OneSweepPerSchedule`),
`CountIsTrue` (`FailureCountIsTrue`), `StopsAreEarned`
(`StoppedOnlyAfterFailures`) and `StopsAreNotUndone` (`OnlyOwnersSwitchOn`). The
lease is tied to its holder as `Locking` ties the relay's lock: `Leases` says `Safe(s)` of
every schedule whose lease has not lapsed, edited or not: one sweep has it in hand, it is
not due meanwhile, and both the stored count and the one that sweep read are `Fair`,
no less than the failures since the last edit, no more than those in a row, and
exact unless an edit has come in between. The two need not be equal: an edit
resets the row and leaves the sweep's copy, and either bound survives whichever is
written last. `Known` and
`Apart` say that nothing is held of a schedule to come, and that the one being
fired has left the batch.

**WebhookDeliveryProofs.** `TypesHold`, `LeaseIsExclusive`
(`OneWorkerPerDelivery`), `TriesAreBounded` (`BudgetRespected`),
`ActiveMeansBelow` (`ActiveBelowThreshold`) and `DeliveredStays`
(`DeliveredIsFinal`). `Safe(d)` is the lease again; `Tried(d)` relates the row's
attempts to those of the workers at it, to its due date and to the tries that
were lost; `One` gives each worker one row.

**SpecSyncProofs.** `TypesHold`, `GuardedSavesAreSafe` (`NoGuardedSaveClobbers`)
and `RedeliveryIsIgnored` (`DeliveryActsOnce`). The heart is `Aware`: what a
save's guard expects to replace holds, section by section, what the author saw
or what he is about to write, through any number of merges and retries. `Named`
says that a file that was indexed or opened keeps an id; `Numbered` and
`Started` that pushes come in order and that a sync runs for a delivery that was claimed.

**AccountProofs.** Members: `MembersTyped` and `OwnerStays` (`OwnerRemains`).
`Counted`: a request that counted the owners, and was not overtaken since, leaves
one besides the member it is about to change.

ModelSpend: `CeilingHolds` (`CapIsACeiling`), for any days, months, people (a finite
set), budgets, caps and calls. Spending is a fold over a set of ledger lines, so the
proof first needs sums: `Sums` is a relation between a finite set and its sum that
each element added extends, shown to exist, to be unique and to agree with the fold,
by induction over the subsets of a finite set. (The library's induction theorems
take an operator and cannot be used; its theorem that strict inclusion of finite
sets is well founded takes sets, and gives the same, `SubsetInduction`.) From there:
a sum is a natural number, grows with its summands, and an update of one line adds
what it adds. `SpendInv` adds `StillFits` to the property: of every call under way,
that what it is budgeted still fits under each cap it was checked against, unless a
recorded call or a change of the caps has overtaken that check (`met`). A call that
is recorded while its check stands leaves its periods over by its own excess at
most, whatever they were over by before: had they been over, it would have been
refused. That people are a finite set is the module's assumption.

**WorkspaceProofs.** For any items, levels, slots, products, stages, gates and
requests:

- the tree: `LevelsHold` (`LevelRule`), `DeletedStays` (`DeletedStaysGone`),
  `ChoiceStays` (`ChosenParentStays`). `Requests` says what a request still knows
  at its write (the levels it compared, the plan it made); `NewIds` that an id
  about to be created is nobody else's; `Gone` that nothing under way can bring a
  deleted item back; `Removed` that a delete that removed the file will not find it again;
- the schedule: `ScheduleFits` (`SlotFitsWork`), by `Jobs`: what a cascade has left
  to do is what it was meant to do; and `CascadesCarryAll` (`CascadeCarriesAll`), by
  `AllCarried`: at every moment each item that is neither in the cascade's hand nor on
  its list is where the cascade leaves it, through the transactions of the children
  and the writes of the others;
- the tree again: `NoCircleCloses`, from `LevelRule` by induction along a line of
  parents: but for the races the property excuses, nobody is above itself and no
  line is longer than there are levels, although `assertNoParentCycle` walks it
  without a lock;
- the stages: `StatusesAreStages` (`StatusIsAStage`) and `GatesAreHonoured`
  (`GatesHonoured`), by `Patches`: a hop about to be written passes, in the
  workflow it was checked in, only gates that were satisfied then;
- the advance: `AdvanceIsTheShortestWay`. `Path` says in closed form what
  `shortestTransitionPath` finds by a breadth-first search; the theorem states what
  that function's comment claims (legal hops, archived never among them but as the
  end, no legal way with fewer) in both modes and for any order of stages, the
  built-in one with its irregular last stage among them. That no way is shorter
  follows from two measures, of which a hop changes each by one at most in its
  direction: a stage's `Place` going on, and `Low`, which takes the last built-in
  stage for the one before it, going back;
- together: `WorkspaceIsItsParts`, a behaviour of the composition is one of each
  component, and `WorkspaceTyped` (`WorkspaceTypeOK`).

Proving `DeletedStaysGone` showed that its excuse was too narrow in an earlier
form: a second attach of a spec while its item is being deleted brings the item back,
after four requests, more than the run makes. The excuse now covers it.

Only model-checked: the liveness properties `EveryEventExpanded`,
`EveryDeliverySettles`, `LandedIsEventuallySaid`, `EveryDueScheduleFires`,
`StopIsAnnounced` and `IndexCatchesUp`. They rest on weak fairness, hence on
`ENABLED`, which the prover does not handle. What a recursive function of a
model computes (`Above`, the walk up the tree) is not proved either.

## Where the code and its words disagree

Each has a run of its own whose property states the words; TLC finds it violated.

1. **A failing fan-out strands its event** (`relay_poison`). `fanout.ts:94-96`
   says it never throws, because failing the relay's transaction would strand
   the webhook deliveries of the same event. It catches the error, but after an
   SQL error PostgreSQL refuses every later statement of that transaction, the
   stamp included. The event is tried first again in every pass.
2. **A requeued delivery is given up unsent** (`delivery_requeue`).
   `webhooks/store.ts:242` promises an immediate send; a worker still busy with
   the row records its own outcome over the requeue.
3. **The staleness window is not closed** (`proposals_window`).
   `proposals/handlers.ts:395-398`: the check and the fingerprint are two reads,
   and an edit between them is in the fingerprint and so is replaced.
4. **A cancelled skill run comes back** (`agent_runs_cancelled`).
   `runs/types.ts:44` calls a finished run one nobody can change; `skill-run.ts`
   settles by id alone after the model call.
5. **A refused push is dropped** (`spec_sync_refused`).
   `app/api/webhooks/github/route.ts:234-235` answers 429 so that the retry
   lands late; the delivery id has been claimed by then, and the retry is
   answered as a duplicate.

Noticed while modelling, without a run:

- The endpoint's streak is reset by a statement after the one that marks the row
  delivered (`drainer.ts:148`), so "consecutive" failures (`webhooks/types.ts`)
  are approximate.
- A crash before the write, on a target whose text already equals the proposal,
  is reconciled to `applied` (`reconcile.ts:24-27`); see `OwnTextAssumption`.
- Two schedules on one item give two unfinished runs: the index and
  `findActiveRun` do not see null agents (`skill-run.ts:92-94`).
- `steerRun` may leave a note on a run that has just ended (`runs/service.ts:300`);
  the model has it, and the note stays in its slot.
- "An edited schedule starts clean" (`schedules-service.ts:213-216`): not one edited
  during its firing, whose record, computed from the claimed row, is written over
  the reset and the new next run (`schedules/dispatcher.ts:145`).
  `FailureCountIsTrue` bounds the count that results and `StoppedOnlyAfterFailures`
  allows the stop it may cause.
- A steering note is "delivered once" (`mcp/run-tools.ts:47-48`), "handed over exactly
  once and cleared as it goes" (`runs/service.ts:57-61`): not by an agent that opens its
  run again, which is answered with the note (`mcp/run-tools.ts:138-143`) and gets it
  again with its next report. `NoNoteClearedUndelivered` speaks of reports.
- A cascade respects a release somebody chose for a child
  (`release-cascade-service.ts:70-73`) if it was chosen before the plan; one chosen
  between the plan and that child's move is overwritten. `CascadeCarriesAll` has
  both.
- A cap is a ceiling of estimates: a call may cost more than the budget it was
  admitted with, by the under-count that `ai/estimate.ts:18-22` admits
  (`usage.int.test.ts:138-150` records ten times the estimate). `CapIsACeiling` lets
  in the last such excess.
- A stop is announced in a transaction after the one that stops, so a crash
  or a swallowed error leaves it silent; `StopIsAnnounced` excuses both.
- An unreadable cadence makes the claim throw after its lease has committed,
  which delays the whole batch (`schedules/store.ts:215`).
- A sync that read an older commit may write the index last
  (`github-sync.ts:882-900`); `IndexCatchesUp` excuses exactly that.
- The id injection writes without a guard (`packages/git/src/index.ts:156-165`).
- Mail is lost when the process dies after the commit; the code documents it.
- `pruneAutoGrouping` (`store/db/items-write.ts:446-450`) says that no write can slip
  a child in between its checks and its delete, because they are one transaction; at
  read committed each statement sees what has been committed by then, and such a
  child loses its parent. `ChosenParentStays` excuses it.
- The conversion compares fingerprints around its plan
  (`convert-item-service.ts:44-47`); a neighbourhood that changed and changed back
  in between passes.
- `deleteWorkItem` (`work-items-service.ts:102`) leaves a failure after the file is gone to
  the next sync; no sync removes a row, and the item cannot be deleted afterwards.
- `createFeature` and the sync put a new item in `backlog` in workspaces whose
  stages have none; `StatusIsAStage` excuses it.
- The last owner can go: by redeeming an old invitation as a member, or by two demotions
  at once (`org-members-service.ts:79`). `OwnerRemains` excuses exactly these. A
  workspace whose provisioning dies between its two inserts has no owner at all.
- The comments on the caps disagree about the overshoot: "one call's worth"
  (`usage-service.ts:314`), "one window's worth" (`rate-limit.ts:244`). In the model it
  is what the overlapping calls spend.
- A release that moves to another product between an assignment's check and its
  write keeps an item of the old one; and an item without a product is not
  swept out by the move, whose `ne()` is null for it
  (`store/db/releases.ts:340-349`).
- `addRelation` looks for a blocking cycle before it inserts, and two
  idea promotions at once both create an item; neither is modelled.

## What is not modelled

In the modelled components: who a notification goes to; signing and payloads;
the calendar of a cadence; pull-request-mode saves, file creation and deletion
inside SpecSync, and the pruning of delivery ids after 24 h; the text merge below
the grain of sections; the network inside one POST or PUT, which succeeds, fails,
or is cut off; relations between items, ranks, custom fields and repository moves;
the fall-back of stages from a product to its workspace and to the built-in ones; two
admins who replace stages at once; API keys and product grants; model providers,
their credentials and wire formats. Each worker's or request's database
statements succeed or its process dies, except where a module has an action for
the failure. All models assume one workspace; row-level security is PostgreSQL's.

Components without a module are listed in `PROJECT.json` with the reason. In
short: rate limits are one atomic statement each, and in SpecSync a spent quota is a
nondeterministic refusal; the rest are request-response over single rows, access
control, transport or rendering. By lines this is most of the repository: the
user interface, the MCP tool descriptions, the schema's other tables, the local
store and the create-read-update-delete services have no step that another
actor's step could come between in a way the models above do not already show.

## Plan

Done, in this order: OutboxRelay, WebhookDelivery, Proposals with
ProposalDecision, AgentRuns, Schedules, SpecSync, ItemTree, Planning, StageGates,
Members, ModelSpend, and the proofs. Left, in the order of what they would add:

1. SpecSync with pull-request mode (a branch per save, its merge as a push, the refresh of a
   pull request's state) and the creation and deletion of files.
2. Relations between items: the cycle check of `addRelation` against a second one.
3. The three-way merge as a function over lines, against a reference definition.
4. Promotion of an idea, and ranks under concurrent reordering.

To run: `tlc -config <run>.cfg MC<Module>.tla`, `tlapm <Module>Proofs.tla`.
