------------------------------- MODULE Proposals -------------------------------
(***************************************************************************)
(* Deciding about a proposal (apps/web/src/lib/proposals: service.ts,      *)
(* store.ts, handlers.ts, guards.ts, reconcile.ts), for the targets that   *)
(* live in the database: a card's description, release notes, an item's    *)
(* metadata.  (A git-backed spec takes the guarded write of SpecSync.)     *)
(*                                                                         *)
(* A request is one call of decideProposal.  Its awaits are the steps:     *)
(* load the row, check the target, fingerprint it, claim, write, settle.   *)
(* Between any two of them another reviewer may do the same, a person may  *)
(* edit the target, and the process may die.  What a target holds over the *)
(* fields at stake is one value, its text.                                 *)
(***************************************************************************)
EXTENDS Integers, FiniteSets

CONSTANTS
    Proposals, Targets, Requests,
    TargetOf,       \* the target of each proposal
    TextOf,         \* the text each proposal would put there
    IsWholeText,    \* proposals of kind spec_content (the others: item_metadata)
    Overrides,      \* texts reviewers put in its place ("edit before accepting")
    HandTexts,      \* texts people put there by hand, on any target
    FirstText,      \* what every target holds at first
    NoBase,         \* baseVersion IS NULL
    MaxEdits, MaxFaults   \* bounds

Texts == HandTexts \union Overrides \union {FirstText} \union {TextOf[i] : i \in Proposals}

ASSUME ProposalsAssumption ==
    /\ TargetOf \in [Proposals -> Targets]
    /\ IsWholeText \subseteq Proposals
    /\ NoBase \notin Texts
    /\ MaxEdits \in Nat /\ MaxFaults \in Nat

(* Nobody puts a proposed whole text on a target word for word, but by      *)
(* applying that proposal.                                                  *)
ASSUME OwnTextAssumption ==
    \A i \in IsWholeText :
        /\ TextOf[i] \notin HandTexts \union Overrides \union {FirstText}
        /\ \A j \in Proposals \ {i} : TextOf[j] # TextOf[i]

VARIABLES
    prop,        \* per proposal: status, base version, and whether its claim is old
    target,      \* per target: the text it holds
    req,         \* per request: where it is, and what it has seen
    reconciling, \* proposals a reconciler has found landed and is about to settle
    written,     \* history: how often each proposal's change was written
    unheard,     \* history: how many of those writes looked failed to the request
    lost,        \* history: edits since its draft an apply replaced, and how
    edits, faults   \* hand edits; crashes and unheard writes, so far

vars == <<prop, target, req, reconciling, written, unheard, lost, edits, faults>>

Statuses == {"none", "open", "applying", "applied", "dismissed"}
Stages == {"idle", "loaded", "checked", "prepared", "claimed", "written", "failed"}

(* A request that holds a claim, or believes it does.                       *)
Applying == {"claimed", "written", "failed"}

NoRequest == [stage |-> "idle", of |-> {}, saw |-> NoBase, expect |-> NoBase]

Init ==
    /\ prop = [i \in Proposals |-> [status |-> "none", base |-> NoBase, old |-> FALSE]]
    /\ target = [t \in Targets |-> FirstText]
    /\ req = [k \in Requests |-> NoRequest]
    /\ reconciling = {}
    /\ written = [i \in Proposals |-> 0]
    /\ unheard = [i \in Proposals |-> 0]
    /\ lost = {}
    /\ edits = 0
    /\ faults = 0

Status(i) == prop[i].status
Text(i) == target[TargetOf[i]]

Reach(k, stage) == req' = [req EXCEPT ![k].stage = stage]

(* Mutant: a request that is over still counts as one on its proposal.      *)
LeaveUncleared(k) == req' = [req EXCEPT ![k].stage = "idle"]
Leave(k) == req' = [req EXCEPT ![k] = NoRequest]

(* Every update of a row moves updatedAt: a fresh claim is never old.       *)
SetStatus(i, status) ==
    prop' = [prop EXCEPT ![i] = [@ EXCEPT !.status = status, !.old = FALSE]]

-------------------------------------------------------------------------------
(* insertProposal: drafted against what the target held, or without a base  *)
(* (rows older than the guard, and drafts of a run: skill-run.ts).          *)
Draft(i) ==
    /\ Status(i) = "none"
    /\ \E base \in {Text(i), NoBase} :
          prop' = [prop EXCEPT ![i] = [status |-> "open", base |-> base, old |-> FALSE]]
    /\ UNCHANGED <<target, req, reconciling, written, unheard, lost, edits, faults>>

(* A person edits the target the ordinary way: last write wins.             *)
HandEdit(t) ==
    /\ edits < MaxEdits
    /\ edits' = edits + 1
    /\ \E x \in HandTexts \ {target[t]} : target' = [target EXCEPT ![t] = x]
    /\ UNCHANGED <<prop, req, reconciling, written, unheard, lost, faults>>

-------------------------------------------------------------------------------
(* applyProposal and dismissProposal.                                       *)

(* loadOpen refuses what is already decided; nothing is held afterwards.    *)
Load(k, i) ==
    /\ req[k].stage = "idle"
    /\ Status(i) = "open"
    /\ req' = [req EXCEPT ![k] = [NoRequest EXCEPT !.stage = "loaded", !.of = {i}]]
    /\ UNCHANGED <<prop, target, reconciling, written, unheard, lost, edits, faults>>

(* assertNotStale and assertMetadataNotStale: a missing base lets it pass.  *)
NotStale(base, text) == base \in {NoBase, text}

(* prepare, first half: the target is read, the caller's role and the base  *)
(* are checked against that reading.  A refusal leaves the proposal open.   *)
Check(k) ==
    /\ req[k].stage = "loaded"
    /\ \E i \in req[k].of :
          \/ /\ NotStale(prop[i].base, Text(i))
             /\ req' = [req EXCEPT ![k] = [@ EXCEPT !.stage = "checked", !.saw = Text(i)]]
          \/ Leave(k)
    /\ UNCHANGED <<prop, target, reconciling, written, unheard, lost, edits, faults>>

(* prepare, second half: store.writePrecondition reads the target again.    *)
Fingerprint(k) ==
    /\ req[k].stage = "checked"
    /\ \E i \in req[k].of :
          req' = [req EXCEPT ![k] = [@ EXCEPT !.stage = "prepared", !.expect = Text(i)]]
    /\ UNCHANGED <<prop, target, reconciling, written, unheard, lost, edits, faults>>

(* Mutant: the guard of the claim is gone.                                  *)
CanAlwaysClaim(i) == TRUE

(* UPDATE ... WHERE status = 'open': the one atomic decision.               *)
CanClaim(i) == Status(i) = "open"

ClaimApply(k) ==
    /\ req[k].stage = "prepared"
    /\ \E i \in req[k].of :
          IF CanClaim(i)
          THEN SetStatus(i, "applying") /\ Reach(k, "claimed")
          ELSE UNCHANGED prop /\ Leave(k)
    /\ UNCHANGED <<target, reconciling, written, unheard, lost, edits, faults>>

(* A dismissal claims straight into its final status.                       *)
ClaimDismiss(k) ==
    /\ req[k].stage = "loaded"
    /\ \E i \in req[k].of :
          IF CanClaim(i) THEN SetStatus(i, "dismissed") ELSE UNCHANGED prop
    /\ Leave(k)
    /\ UNCHANGED <<target, reconciling, written, unheard, lost, edits, faults>>

(* The target no longer holds what the proposal was drafted against.        *)
Moved(i) == prop[i].base \notin {NoBase, Text(i)}

(* Both readings of the request gave the same text.                         *)
SameReadings(k) == req[k].saw = req[k].expect

(* Mutant: the write does not look at the fingerprint.                      *)
UncheckedWrite(text, expect) == TRUE

(* assertUnchanged, under the row lock that performs the write.             *)
Unchanged(text, expect) == text = expect

(* What an apply may write: the proposed text, or for a whole text the one  *)
(* the reviewer sent along.                                                 *)
Writable(i) == {TextOf[i]} \union (IF i \in IsWholeText THEN Overrides ELSE {})

(* handler.apply: what the write of a request does to its target.           *)
Lands(k, i) ==
    /\ Unchanged(Text(i), req[k].expect)
    /\ \E x \in Writable(i) : target' = [target EXCEPT ![TargetOf[i]] = x]
    /\ written' = [written EXCEPT ![i] = @ + 1]
    /\ lost' = lost \union (IF Moved(i) THEN {"sinceDraft"} ELSE {})
                    \union (IF Moved(i) /\ SameReadings(k) THEN {"outsideWindow"} ELSE {})

Write(k) ==
    /\ req[k].stage = "claimed"
    /\ \E i \in req[k].of : Lands(k, i)
    /\ Reach(k, "written")
    /\ UNCHANGED <<prop, reconciling, unheard, edits, faults>>

(* The write commits and a read that follows it (applyFeaturePatch reads    *)
(* the item back) fails: to applyProposal this is a failed write.           *)
WriteUnheard(k) ==
    /\ req[k].stage = "claimed"
    /\ faults < MaxFaults
    /\ faults' = faults + 1
    /\ \E i \in req[k].of :
          /\ Lands(k, i)
          /\ unheard' = [unheard EXCEPT ![i] = @ + 1]
    /\ Reach(k, "failed")
    /\ UNCHANGED <<prop, reconciling, edits>>

(* The StaleWriteError, or any other refusal of the ordinary write path:    *)
(* nothing is written.                                                      *)
WriteRefused(k) ==
    /\ req[k].stage = "claimed"
    /\ Reach(k, "failed")
    /\ UNCHANGED <<prop, target, reconciling, written, unheard, lost, edits, faults>>

(* releaseClaim: UPDATE ... WHERE status = 'applying'.                      *)
ReleaseClaim(k) ==
    /\ req[k].stage = "failed"
    /\ \E i \in req[k].of :
          IF Status(i) = "applying" THEN SetStatus(i, "open") ELSE UNCHANGED prop
    /\ Leave(k)
    /\ UNCHANGED <<target, reconciling, written, unheard, lost, edits, faults>>

(* settle: UPDATE ... WHERE status = 'applying', or an error to the caller. *)
Settle(k) ==
    /\ req[k].stage = "written"
    /\ \E i \in req[k].of :
          IF Status(i) = "applying" THEN SetStatus(i, "applied") ELSE UNCHANGED prop
    /\ Leave(k)
    /\ UNCHANGED <<target, reconciling, written, unheard, lost, edits, faults>>

(* The process that serves the request dies.                                *)
Crash(k) ==
    /\ req[k].stage # "idle"
    /\ faults < MaxFaults
    /\ faults' = faults + 1
    /\ Leave(k)
    /\ UNCHANGED <<prop, target, reconciling, written, unheard, lost, edits>>

-------------------------------------------------------------------------------
(* reconcileStuck.                                                          *)

Claimants(i) == {k \in Requests : req[k].stage \in Applying /\ i \in req[k].of}

(* STUCK_AFTER_MS have passed since the claim, whether or not the request   *)
(* that made it is still at work.                                           *)
GraceEnds(i) ==
    /\ Status(i) = "applying"
    /\ ~ prop[i].old
    /\ prop' = [prop EXCEPT ![i].old = TRUE]
    /\ UNCHANGED <<target, req, reconciling, written, unheard, lost, edits, faults>>

(* Mutants: the target is not compared; it is compared with the base.       *)
DecidableUnread(i) == i \in IsWholeText
DecidableByBase(i) == i \in IsWholeText /\ Text(i) = prop[i].base

(* Only a whole-text proposal can be decided, and only when the target now  *)
(* holds the proposed text.                                                 *)
Decidable(i) == i \in IsWholeText /\ Text(i) = TextOf[i]

ReconcileRead(i) ==
    /\ i \notin reconciling
    /\ Status(i) = "applying" /\ prop[i].old
    /\ Decidable(i)
    /\ reconciling' = reconciling \union {i}
    /\ UNCHANGED <<prop, target, req, written, unheard, lost, edits, faults>>

ReconcileSettle(i) ==
    /\ i \in reconciling
    /\ IF Status(i) = "applying" THEN SetStatus(i, "applied") ELSE UNCHANGED prop
    /\ reconciling' = reconciling \ {i}
    /\ UNCHANGED <<target, req, written, unheard, lost, edits, faults>>

RequestStep(k) ==
    \/ Check(k) \/ Fingerprint(k) \/ ClaimApply(k) \/ ClaimDismiss(k) \/ Write(k)
    \/ WriteUnheard(k) \/ WriteRefused(k) \/ ReleaseClaim(k) \/ Settle(k)

Next ==
    \/ \E i \in Proposals :
          \/ Draft(i) \/ GraceEnds(i) \/ ReconcileRead(i) \/ ReconcileSettle(i)
          \/ \E k \in Requests : Load(k, i)
    \/ \E t \in Targets : HandEdit(t)
    \/ \E k \in Requests : RequestStep(k) \/ Crash(k)

Spec == Init /\ [][Next]_vars

(* A request that is running goes on; time passes; the review queue is      *)
(* opened now and then, which is when the reconciler runs.                  *)
Fairness ==
    /\ \A k \in Requests : WF_vars(RequestStep(k))
    /\ \A i \in Proposals : /\ WF_vars(GraceEnds(i))
                            /\ WF_vars(ReconcileRead(i))
                            /\ WF_vars(ReconcileSettle(i))

FairSpec == Spec /\ Fairness

-------------------------------------------------------------------------------
Rows == [status : Statuses, base : Texts \union {NoBase}, old : BOOLEAN]
Calls == [stage : Stages, of : SUBSET Proposals,
          saw : Texts \union {NoBase}, expect : Texts \union {NoBase}]

(* Types, and that a request is on one proposal exactly while it runs.      *)
TypeOK ==
    /\ prop \in [Proposals -> Rows]
    /\ target \in [Targets -> Texts]
    /\ req \in [Requests -> Calls]
    /\ \A k \in Requests : req[k].stage # "idle" <=> \E i \in Proposals : req[k].of = {i}
    /\ reconciling \subseteq Proposals
    /\ written \in [Proposals -> Nat]
    /\ unheard \in [Proposals -> Nat]
    /\ lost \subseteq {"sinceDraft", "outsideWindow"}
    /\ edits \in 0..MaxEdits
    /\ faults \in 0..MaxFaults

(* "Step 3 before step 4 is what stops a double-click writing twice"        *)
(* (service.ts): two requests never both hold a proposal, and its change is *)
(* written once at most, whatever dies, is released or is claimed again,    *)
(* but for the writes that looked failed to the request that made them.     *)
OneApplier ==
    \A i \in Proposals : /\ Cardinality(Claimants(i)) <= 1
                         /\ written[i] <= 1 + unheard[i]

(* A decision is for ever: no late release, settlement or reconciliation    *)
(* touches a proposal that has been applied or dismissed.                   *)
DecisionIsFinal ==
    [][\A i \in Proposals : Status(i) \in {"applied", "dismissed"} => prop'[i] = prop[i]]_vars

(* The window of handlers.ts:239 is the only one: when an apply replaces an *)
(* edit made after the draft it applies, the edit came between the reading  *)
(* the staleness check judged and the one the fingerprint took.  An edit    *)
(* before the first is refused as stale, one after the second fails the     *)
(* write, whoever claims, releases, reconciles or dies meanwhile.           *)
NoEditLostOutsideWindow == "outsideWindow" \notin lost

(* The lifecycle implements what it promises a reviewer.                    *)
Abstract == INSTANCE ProposalDecision WITH
    decision <- [i \in Proposals |-> prop[i].status],
    landed <- {i \in Proposals : written[i] > 0},
    doubtful <- {i \in Proposals : unheard[i] > 0}

ImplementsDecision == Abstract!Spec

(* A whole-text apply whose process died after its write does not stay      *)
(* undecided: while the text it wrote is there, the row comes to say so.    *)
LandedIsEventuallySaid ==
    \A i \in IsWholeText :
        ~ <>[](Status(i) = "applying" /\ Text(i) = TextOf[i])

(* The fingerprint "closes the window" between the staleness check and the  *)
(* write (handlers.ts, precondition.ts): an apply never replaces an edit    *)
(* made after the draft it applies.                                         *)
NoEditLostSinceDraft == "sinceDraft" \notin lost
===============================================================================
