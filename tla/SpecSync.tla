------------------------------- MODULE SpecSync -------------------------------
(***************************************************************************)
(* A spec file kept in git and indexed in the database: saves from the app *)
(* (apps/web/src/lib/spec-content.ts), the sync that reads the file back   *)
(* (github-sync.ts, packages/git), and the push webhook that starts it     *)
(* (app/api/webhooks/github/route.ts, github-delivery-dedup.ts).           *)
(*                                                                         *)
(* One file of one connected repository in direct write mode.  A document  *)
(* is a function from its sections to who wrote them last; a blob sha is   *)
(* the content it names, so it is the file itself.  GitHub is modelled by  *)
(* what the code asks of it: a contents PUT compares the sha, a push to    *)
(* the default branch is delivered, and what was delivered may come again. *)
(***************************************************************************)
EXTENDS Integers, FiniteSets

CONSTANTS
    Sections,    \* the sections of the document
    NoId,        \* the file has no id in its frontmatter
    Edits,       \* the sets of sections an author may rewrite
    Authors,     \* saves from the app, one each
    Syncs,       \* syncRepository calls that may run at once, 1, 2, ...
    Commits,     \* bound: commits to the default branch, the first included
    Nothing,     \* no blob sha is expected; no index row; not a delivery
    MaxMerge,    \* MAX_MERGE_ATTEMPTS
    MaxMishaps   \* bound: refused pushes, syncs that die, redeliveries by hand

Origin == "origin"
Outside == "outside"
Docs == [Sections -> Authors \union {Origin, Outside}]
Pushes == 1..Commits     \* delivery ids: one push for each commit

(* Spec ids: the uuid a sync draws when it meets a file without one.  Once  *)
(* one has been committed no sync draws again, so a sync has only one.      *)
Ids == Syncs

ASSUME SpecSyncAssumption ==
    /\ NoId \notin Ids
    /\ Edits \subseteq SUBSET Sections \ {{}}
    /\ Nothing \notin Docs \union Pushes
    /\ Syncs \subseteq Nat
    /\ {Commits, MaxMerge} \subseteq Nat \ {0}
    /\ MaxMishaps \in Nat

VARIABLES
    head,       \* the file on the default branch: its id and its document
    index,      \* spec_index: the document each item's row holds
    save,       \* updateSpecContent calls
    sync,       \* syncRepository calls
    push,       \* what became of the push of each commit
    seen,       \* github_webhook_deliveries
    fresh,      \* history: the latest commit a sync has compared the index with
    stale,      \* history: the index was last written by an older reader than that
    dropped,    \* history: pushes whose sync was refused or died
    clobbered,  \* history: a guarded save replaced text its author had not seen
    mishaps     \* what MaxMishaps bounds, so far

vars == <<head, index, save, sync, push, seen, fresh, stale, dropped, clobbered, mishaps>>

File(id, doc) == [id |-> id, doc |-> doc]

NoSave == [stage |-> "idle", expect |-> Nothing, saw |-> Nothing, mine |-> Nothing, tries |-> 0]
NoSync == [stage |-> "idle", for |-> Nothing, file |-> Nothing, at |-> 0]

Init ==
    /\ head = File(NoId, [s \in Sections |-> Origin])
    /\ index = [i \in Ids |-> Nothing]
    /\ save = [a \in Authors |-> NoSave]
    /\ sync = [k \in Syncs |-> NoSync]
    /\ push = [p \in Pushes |-> IF p = 1 THEN "sent" ELSE "none"]
    /\ seen = {}
    /\ fresh = 0
    /\ stale = FALSE
    /\ dropped = {}
    /\ clobbered = FALSE
    /\ mishaps = 0

Unsent == {p \in Pushes : push[p] = "none"}
Latest == Commits - Cardinality(Unsent)

(* A commit to the default branch: GitHub sends one push for it.            *)
Commit(file) ==
    /\ Latest < Commits
    /\ head' = file
    /\ push' = [push EXCEPT ![Latest + 1] = "sent"]

(* The bound leaves a commit to every sync that may yet inject an id.       *)
Room == Cardinality(Unsent) > Cardinality({k \in Syncs : head.id = NoId \/ sync[k].stage = "inject"})

(* Somebody edits the file in git, on top of what is there.                 *)
PushFromOutside ==
    /\ Room
    /\ \E s \in Sections :
          /\ head.doc[s] # Outside
          /\ Commit([head EXCEPT !.doc[s] = Outside])
    /\ UNCHANGED <<index, save, sync, seen, fresh, stale, dropped, clobbered, mishaps>>

-------------------------------------------------------------------------------
(* updateSpecContent.                                                       *)

(* The author's editor holds an indexed document and its sha, and rewrites  *)
(* some sections; a caller may leave the sha out.                           *)
OpenEditor(a, i) ==
    /\ save[a].stage = "idle"
    /\ index[i] # Nothing
    /\ \E S \in Edits, expect \in {File(i, index[i]), Nothing} :
          save' = [save EXCEPT ![a] =
             [stage |-> "edited", expect |-> expect, saw |-> index[i], tries |-> 1,
              mine |-> File(i, [s \in Sections |-> IF s \in S THEN a ELSE index[i][s]])]]
    /\ UNCHANGED <<head, index, sync, push, seen, fresh, stale, dropped, clobbered, mishaps>>

(* The request reads the file for its frontmatter and puts the body in.     *)
ReadFrontmatter(a) ==
    /\ save[a].stage = "edited"
    /\ save' = [save EXCEPT ![a].stage = "write", ![a].mine.id = head.id]
    /\ UNCHANGED <<head, index, sync, push, seen, fresh, stale, dropped, clobbered, mishaps>>

(* Mutant: the sha is looked up also when one was given.                    *)
AnySha(expect) == TRUE

(* GitHub accepts a PUT whose sha is the file's; without an expected one,   *)
(* commitFile looks it up first.                                            *)
ShaAccepted(expect) == expect \in {Nothing, head}

(* Sections in which a commit replaces text its author had not seen.        *)
Unseen(saw, doc) == {s \in Sections : head.doc[s] \notin {saw[s], doc[s]}}

Write(a) ==
    /\ save[a].stage = "write"
    /\ Room
    /\ ShaAccepted(save[a].expect)
    /\ Commit(save[a].mine)
    /\ clobbered' = (clobbered \/ (save[a].expect # Nothing /\ Unseen(save[a].saw, save[a].mine.doc) # {}))
    /\ save' = [save EXCEPT ![a] = [NoSave EXCEPT !.stage = "committed"]]
    /\ UNCHANGED <<index, sync, seen, fresh, stale, dropped, mishaps>>

(* merge3 by sections: one side's change is taken, two different ones clash.*)
Clash(base, mine, theirs) ==
    \E s \in Sections : Cardinality({base[s], mine[s], theirs[s]}) = 3

(* Mutant: what is mine wins where I differ from them.                      *)
MergedOverTheirs(base, mine, theirs) == mine

Merged(base, mine, theirs) ==
    [s \in Sections |-> IF mine[s] = base[s] THEN theirs[s] ELSE mine[s]]

(* writeMerged's catch: the current file is read and merged into the body,  *)
(* under its frontmatter, and the retry is guarded by what was just read.   *)
MergeOrGiveUp(a) ==
    LET my == save[a] IN
    /\ my.stage = "write"
    /\ ~ ShaAccepted(my.expect)
    /\ save' = [save EXCEPT ![a] =
          IF my.tries >= MaxMerge \/ Clash(my.expect.doc, my.mine.doc, head.doc)
          THEN [NoSave EXCEPT !.stage = "done"]
          ELSE [my EXCEPT !.tries = @ + 1, !.expect = head,
                          !.mine = File(head.id, Merged(my.expect.doc, my.mine.doc, head.doc))]]
    /\ UNCHANGED <<head, index, sync, push, seen, fresh, stale, dropped, clobbered, mishaps>>

-------------------------------------------------------------------------------
(* syncRepository: the file is read, given an id if it has none, compared   *)
(* with the index and written to it.  Syncs are alike: the first idle one   *)
(* starts.                                                                  *)

StartSync(k, p) ==
    /\ sync[k].stage = "idle"
    /\ \A j \in Syncs : j < k => sync[j].stage # "idle"
    /\ sync' = [sync EXCEPT ![k] =
          IF head.id = NoId
          THEN [stage |-> "inject", for |-> p, file |-> File(k, head.doc), at |-> Latest]
          ELSE [stage |-> "compare", for |-> p, file |-> head, at |-> Latest]]

(* After a save, the request syncs.                                         *)
SyncAfterSave(a, k) ==
    /\ save[a].stage = "committed"
    /\ StartSync(k, Nothing)
    /\ save' = [save EXCEPT ![a].stage = "done"]
    /\ UNCHANGED <<head, index, push, seen, fresh, stale, dropped, clobbered, mishaps>>

(* reconcileSpecs gives the file an id by an unguarded write of what it has *)
(* read, under a random uuid.                                               *)
InjectId(k) ==
    /\ sync[k].stage = "inject"
    /\ Commit(sync[k].file)
    /\ sync' = [sync EXCEPT ![k].stage = "compare", ![k].at = Latest + 1]
    /\ UNCHANGED <<index, save, seen, fresh, stale, dropped, clobbered, mishaps>>

(* History: this sync has compared its reading with the index.              *)
Compared(k) ==
    /\ stale' = (sync[k].at < fresh)
    /\ fresh' = IF sync[k].at < fresh THEN fresh ELSE sync[k].at

(* An item whose row already has this sha is skipped.                       *)
Compare(k) ==
    /\ sync[k].stage = "compare"
    /\ IF index[sync[k].file.id] = sync[k].file.doc
       THEN sync' = [sync EXCEPT ![k] = NoSync] /\ Compared(k)
       ELSE sync' = [sync EXCEPT ![k].stage = "upsert"] /\ UNCHANGED <<fresh, stale>>
    /\ UNCHANGED <<head, index, save, push, seen, dropped, clobbered, mishaps>>

(* Mutant: an item that is already there keeps its row.                     *)
UpsertedOnce(id, doc) == IF index[id] = Nothing THEN [index EXCEPT ![id] = doc] ELSE index

(* INSERT ... ON CONFLICT DO UPDATE, whatever the row has become.           *)
Upserted(id, doc) == [index EXCEPT ![id] = doc]

Upsert(k) ==
    /\ sync[k].stage = "upsert"
    /\ index' = Upserted(sync[k].file.id, sync[k].file.doc)
    /\ Compared(k)
    /\ sync' = [sync EXCEPT ![k] = NoSync]
    /\ UNCHANGED <<head, save, push, seen, dropped, clobbered, mishaps>>

Mishap == mishaps < MaxMishaps /\ mishaps' = mishaps + 1

(* A sync fails, or dies with its process; the webhook answers 500, if at   *)
(* all.                                                                     *)
SyncFails(k) ==
    /\ sync[k].stage # "idle"
    /\ Mishap
    /\ sync' = [sync EXCEPT ![k] = NoSync]
    /\ dropped' = dropped \union ({sync[k].for} \ {Nothing})
    /\ UNCHANGED <<head, index, save, push, seen, fresh, stale, clobbered>>

-------------------------------------------------------------------------------
(* The webhook.                                                             *)

(* Mutant: the delivery is not recorded.                                    *)
ForgottenClaim(p) == {}

(* claimDelivery: the insert of the delivery id is the check.               *)
Claimed(p) == {p}

Claim(p) ==
    /\ push[p] \in {"sent", "again"}
    /\ p \notin seen
    /\ seen' = seen \union Claimed(p)

(* The claim, then the sync of the connected repository.                    *)
HandlePush(p, k) ==
    /\ Claim(p)
    /\ push' = [push EXCEPT ![p] = "synced"]
    /\ StartSync(k, p)
    /\ UNCHANGED <<head, index, save, fresh, stale, dropped, clobbered, mishaps>>

(* The repository's quota is spent: 429, after the claim.                   *)
RefusePush(p) ==
    /\ Claim(p)
    /\ Mishap
    /\ push' = [push EXCEPT ![p] = "refused"]
    /\ dropped' = dropped \union {p}
    /\ UNCHANGED <<head, index, save, sync, fresh, stale, clobbered>>

(* GitHub delivers again what had no good answer, or somebody does so from  *)
(* its redelivery page.                                                     *)
Redeliver(p) ==
    /\ \/ push[p] = "refused" /\ UNCHANGED mishaps
       \/ push[p] = "synced" /\ Mishap
    /\ push' = [push EXCEPT ![p] = "again"]
    /\ UNCHANGED <<head, index, save, sync, seen, fresh, stale, dropped, clobbered>>

(* A duplicate: 200, and nothing is done.                                   *)
IgnorePush(p) ==
    /\ push[p] \in {"sent", "again"}
    /\ p \in seen
    /\ push' = [push EXCEPT ![p] = "ignored"]
    /\ UNCHANGED <<head, index, save, sync, seen, fresh, stale, dropped, clobbered, mishaps>>

SyncStep(k) == InjectId(k) \/ Compare(k) \/ Upsert(k)

Next ==
    \/ PushFromOutside
    \/ \E a \in Authors :
          \/ \E i \in Ids : OpenEditor(a, i)
          \/ ReadFrontmatter(a) \/ Write(a) \/ MergeOrGiveUp(a)
          \/ \E k \in Syncs : SyncAfterSave(a, k)
    \/ \E k \in Syncs : SyncStep(k) \/ SyncFails(k)
    \/ \E p \in Pushes :
          \/ \E k \in Syncs : HandlePush(p, k)
          \/ RefusePush(p) \/ Redeliver(p) \/ IgnorePush(p)

Spec == Init /\ [][Next]_vars

(* A sync that has begun goes on; GitHub delivers its pushes, and again     *)
(* those it had no good answer to.  Nothing makes an author save, and a     *)
(* request may die between its commit and its sync.                         *)
Fairness ==
    /\ \A k \in Syncs : WF_vars(SyncStep(k))
    /\ \A p \in Pushes :
          /\ WF_vars(\E k \in Syncs : HandlePush(p, k))
          /\ WF_vars(IgnorePush(p))
          /\ WF_vars(push[p] = "refused" /\ Redeliver(p))

FairSpec == Spec /\ Fairness

-------------------------------------------------------------------------------
(* Types; a save's guard, the version it is a change of, is a whole file.   *)
TypeOK ==
    /\ head \in [id : Ids \union {NoId}, doc : Docs]
    /\ index \in [Ids -> Docs \union {Nothing}]
    /\ \A a \in Authors :
          \/ save[a] \in [stage : {"idle", "committed", "done"}, expect : {Nothing},
                          saw : {Nothing}, mine : {Nothing}, tries : {0}]
          \/ save[a] \in [stage : {"edited", "write"}, expect : [id : Ids, doc : Docs] \union {Nothing},
                          saw : Docs, mine : [id : Ids, doc : Docs], tries : 1..MaxMerge]
    /\ \A k \in Syncs :
          \/ sync[k] = NoSync
          \/ sync[k] \in [stage : {"inject", "compare", "upsert"}, for : Pushes \union {Nothing},
                          file : [id : Ids, doc : Docs], at : Pushes]
    /\ push \in [Pushes -> {"none", "sent", "synced", "refused", "again", "ignored"}]
    /\ seen = {p \in Pushes : push[p] \notin {"none", "sent"}}
    /\ fresh \in 0..Commits
    /\ {stale, clobbered} \subseteq BOOLEAN
    /\ dropped \subseteq seen
    /\ mishaps \in 0..MaxMishaps

(* "The retry is itself guarded ... so a third writer arriving mid-merge is *)
(* not clobbered either" (spec-content.ts, writeMerged): a save that names  *)
(* the version it edits never replaces text its author has not seen, in     *)
(* whatever order commits, merges and retries come.                         *)
NoGuardedSaveClobbers == ~ clobbered

(* "Process each GitHub webhook delivery once" (github-delivery-dedup.ts):  *)
(* what comes again never starts another sync.                              *)
DeliveryActsOnce == [][\A p \in Pushes : push[p] = "again" => push'[p] # "synced"]_vars

(* Git is canonical: in the end the index holds the file at the head of the *)
(* default branch, unless the sync of the last push was refused or died, or *)
(* a sync that had read an older commit wrote after one that had read a     *)
(* newer.                                                                   *)
IndexCatchesUp ==
    <>[](head \in {File(i, index[i]) : i \in Ids} \/ Latest \in dropped \/ stale)

(* "429 rather than 200 when work was skipped for quota, so GitHub retries  *)
(* with backoff and the sync lands late instead of being silently dropped"  *)
(* (app/api/webhooks/github/route.ts).  It does not hold: the delivery was  *)
(* claimed before the quota was looked at.                                  *)
RefusedPushLandsLate ==
    \A p \in Pushes : push[p] = "refused" ~> push[p] = "synced"
===============================================================================
