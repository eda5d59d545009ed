---------------------------- MODULE SpecSyncProofs ----------------------------
(***************************************************************************)
(* Spec files in git, for any sections, authors, syncs and bounds: a save  *)
(* that names the version it edits never replaces text unseen by its       *)
(* author, and a delivery that comes again starts no other sync.           *)
(***************************************************************************)
EXTENDS SpecSync, TLAPS, FiniteSetTheorems

Files == [id : Ids, doc : Docs]
Heads == [id : Ids \union {NoId}, doc : Docs]

Closed == [stage : {"idle", "committed", "done"}, expect : {Nothing}, saw : {Nothing},
           mine : {Nothing}, tries : {0}]
Open == [stage : {"edited", "write"}, expect : Files \union {Nothing}, saw : Docs,
         mine : Files, tries : 1..MaxMerge]
Working == [stage : {"inject", "compare", "upsert"}, for : Pushes \union {Nothing},
            file : Files, at : Pushes]

States == {"none", "sent", "synced", "refused", "again", "ignored"}

Typed ==
    /\ head \in Heads
    /\ index \in [Ids -> Docs \union {Nothing}]
    /\ save \in [Authors -> Closed \union Open]
    /\ sync \in [Syncs -> {NoSync} \union Working]
    /\ push \in [Pushes -> States]
    /\ seen = {p \in Pushes : push[p] \notin {"none", "sent"}}
    /\ fresh \in 0..Commits
    /\ stale \in BOOLEAN
    /\ dropped \subseteq seen
    /\ mishaps \in 0..MaxMishaps

IsOpen(a) == save[a].stage \in {"edited", "write"}

(* What has been indexed, edited or compared came from a file with an id,   *)
(* and the file keeps one once it has one.                                  *)
Named ==
    /\ \A i \in Ids : index[i] # Nothing => head.id # NoId
    /\ \A a \in Authors : IsOpen(a) => head.id # NoId
    /\ \A k \in Syncs : sync[k].stage \in {"compare", "upsert"} => head.id # NoId

(* The pushes so far are the first ones.                                    *)
Numbered == \E n \in 1..Commits : \A p \in Pushes : push[p] = "none" <=> p > n

(* A sync works for a push whose delivery was claimed.                      *)
Started == \A k \in Syncs : sync[k].for # Nothing => sync[k].for \in seen

(* What an author's guard expects to replace is what he saw or what he is   *)
(* going to write anyway.                                                   *)
Aware ==
    \A a \in Authors : IsOpen(a) /\ save[a].expect # Nothing =>
       \A s \in Sections : save[a].expect.doc[s] \in {save[a].saw[s], save[a].mine.doc[s]}

IInv ==
    Typed /\ Named /\ Numbered /\ Started /\ Aware /\ clobbered = FALSE

-------------------------------------------------------------------------------
LEMMA TypedIsTypeOK == IInv => TypeOK
<1> SUFFICES ASSUME IInv PROVE TypeOK
  OBVIOUS
<1>1. \A a \in Authors : save[a] \in Closed \/ save[a] \in Open
  BY DEF IInv, Typed
<1>2. \A k \in Syncs : sync[k] = NoSync \/ sync[k] \in Working
  BY DEF IInv, Typed
<1>3. {stale, clobbered} \subseteq BOOLEAN
  BY DEF IInv, Typed
<1> QED BY <1>1, <1>2, <1>3 DEF IInv, Typed, TypeOK, Closed, Open, Working, Files, Heads, States

LEMMA NoSyncIs ==
    /\ NoSync.stage = "idle" /\ NoSync.for = Nothing
BY DEF NoSync

LEMMA Stages ==
    ASSUME Typed
    PROVE  /\ \A a \in Authors : /\ IsOpen(a) <=> save[a] \in Open
                                 /\ ~ IsOpen(a) <=> save[a] \in Closed
           /\ \A k \in Syncs : sync[k].stage # "idle" => sync[k] \in Working
BY NoSyncIs DEF Typed, IsOpen, Closed, Open

LEMMA Bounds ==
    /\ Commits \in Nat \ {0} /\ MaxMerge \in Nat \ {0} /\ MaxMishaps \in Nat
    /\ Syncs \subseteq Nat /\ NoId \notin Ids /\ Nothing \notin Docs /\ Nothing \notin Pushes
BY SpecSyncAssumption

(* The number of pushes is the number of the latest one.                    *)
LEMMA LatestIsTheLast ==
    ASSUME NEW n \in 1..Commits, \A p \in Pushes : push[p] = "none" <=> p > n
    PROVE  Latest = n
<1>1. Commits \in Nat /\ n \in Nat /\ n <= Commits
  BY Bounds
<1>2. Unsent = (n + 1)..Commits
  BY <1>1 DEF Unsent, Pushes
<1>3. Cardinality((n + 1)..Commits) = IF n + 1 > Commits THEN 0 ELSE Commits - (n + 1) + 1
  BY <1>1, FS_Interval
<1>4. Cardinality(Unsent) = Commits - n
  BY <1>1, <1>2, <1>3
<1> QED BY <1>1, <1>4 DEF Latest

LEMMA LatestIsAPush ==
    ASSUME IInv
    PROVE  /\ Latest \in Pushes
           /\ \A p \in Pushes : push[p] = "none" <=> p > Latest
<1>1. PICK n \in 1..Commits : \A p \in Pushes : push[p] = "none" <=> p > n
  BY DEF IInv, Numbered
<1> QED BY <1>1, LatestIsTheLast DEF Pushes

(* A commit is the next push, and no delivery of it was claimed.            *)
LEMMA Committed ==
    ASSUME IInv, NEW file \in Heads, Commit(file)
    PROVE  /\ head' = file /\ push' \in [Pushes -> States]
           /\ Latest + 1 \in Pushes /\ Numbered'
           /\ seen = {p \in Pushes : push'[p] \notin {"none", "sent"}}
<1>1. /\ Latest < Commits /\ head' = file /\ push' = [push EXCEPT ![Latest + 1] = "sent"]
  BY DEF Commit
<1>2. /\ Latest \in Pushes /\ \A p \in Pushes : push[p] = "none" <=> p > Latest
  BY LatestIsAPush
<1>3. Commits \in Nat /\ Latest \in Nat /\ Latest >= 1 /\ Latest + 1 \in 1..Commits
  BY <1>1, <1>2, Bounds DEF Pushes
<1>4. /\ push' \in [Pushes -> States] /\ push'[Latest + 1] = "sent"
      /\ \A p \in Pushes : p # Latest + 1 => push'[p] = push[p]
  BY <1>1, <1>3 DEF IInv, Typed, States, Pushes
<1>5. push[Latest + 1] = "none"
  BY <1>2, <1>3 DEF Pushes
<1>6. \A p \in Pushes : push'[p] = "none" <=> p > Latest + 1
  BY <1>2, <1>3, <1>4 DEF Pushes
<1>7. Numbered'
  BY <1>3, <1>6 DEF Numbered
<1>8. \A p \in Pushes : push'[p] \in {"none", "sent"} <=> push[p] \in {"none", "sent"}
  BY <1>4, <1>5
<1> QED BY <1>1, <1>3, <1>4, <1>7, <1>8 DEF IInv, Typed, Pushes

(* One author's save moves, or one sync does.                               *)
LEMMA SaveMoves ==
    ASSUME Typed, NEW a \in Authors, NEW local \in Closed \union Open,
           save' = [save EXCEPT ![a] = local]
    PROVE  /\ save' \in [Authors -> Closed \union Open] /\ save'[a] = local
           /\ \A b \in Authors : b # a => save'[b] = save[b]
BY DEF Typed

LEMMA SyncMoves ==
    ASSUME Typed, NEW k \in Syncs, NEW local \in {NoSync} \union Working,
           sync' = [sync EXCEPT ![k] = local]
    PROVE  /\ sync' \in [Syncs -> {NoSync} \union Working] /\ sync'[k] = local
           /\ \A j \in Syncs : j # k => sync'[j] = sync[j]
BY DEF Typed

LEMMA NoSaveIsClosed == [NoSave EXCEPT !.stage = "done"] \in Closed
                        /\ [NoSave EXCEPT !.stage = "committed"] \in Closed
                        /\ NoSave \in Closed
BY DEF NoSave, Closed

-------------------------------------------------------------------------------
LEMMA OutsideKeepsInv ==
    ASSUME IInv, PushFromOutside
    PROVE  IInv'
<1>1. /\ UNCHANGED <<index, save, sync, seen, fresh, stale, dropped, clobbered, mishaps>>
      /\ \E s \in Sections : Commit([head EXCEPT !.doc[s] = Outside])
  BY DEF PushFromOutside
<1>2. PICK s \in Sections : Commit([head EXCEPT !.doc[s] = Outside])
  BY <1>1
<1> DEFINE file == [head EXCEPT !.doc[s] = Outside]
<1>3. file \in Heads /\ file.id = head.id
  <2>1. head \in Heads
    BY DEF IInv, Typed
  <2>2. [head.doc EXCEPT ![s] = Outside] \in Docs
    BY <2>1 DEF Heads, Docs
  <2>3. file = [head EXCEPT !.doc = [head.doc EXCEPT ![s] = Outside]]
    BY <2>1 DEF Heads
  <2> QED BY <2>1, <2>2, <2>3 DEF Heads
<1> HIDE DEF file
<1>4. /\ head' = file /\ push' \in [Pushes -> States] /\ Numbered'
      /\ seen = {p \in Pushes : push'[p] \notin {"none", "sent"}}
  <2>1. Commit(file)
    BY <1>2 DEF file
  <2> QED BY <1>3, <2>1, Committed
<1>5. Typed'
  BY <1>1, <1>3, <1>4 DEF IInv, Typed
<1>6. Named' /\ Started' /\ Aware'
  BY <1>1, <1>3, <1>4 DEF IInv, Named, Started, Aware, IsOpen
<1> QED BY <1>1, <1>4, <1>5, <1>6 DEF IInv

LEMMA OpenKeepsInv ==
    ASSUME IInv, NEW a \in Authors, NEW i \in Ids, OpenEditor(a, i)
    PROVE  IInv'
<1>1. PICK S \in Edits, expect \in {File(i, index[i]), Nothing} :
         save' = [save EXCEPT ![a] =
             [stage |-> "edited", expect |-> expect, saw |-> index[i], tries |-> 1,
              mine |-> File(i, [s \in Sections |-> IF s \in S THEN a ELSE index[i][s]])]]
  BY DEF OpenEditor
<1>2. /\ index[i] # Nothing
      /\ UNCHANGED <<head, index, sync, push, seen, fresh, stale, dropped, clobbered, mishaps>>
  BY DEF OpenEditor
<1> DEFINE doc == [s \in Sections |-> IF s \in S THEN a ELSE index[i][s]]
           local == [stage |-> "edited", expect |-> expect, saw |-> index[i], tries |-> 1,
                     mine |-> File(i, doc)]
<1>3. index[i] \in Docs /\ head.id # NoId
  BY <1>2 DEF IInv, Typed, Named
<1>4. doc \in Docs
  BY <1>3 DEF Docs
<1> HIDE DEF doc
<1>5. expect \in Files \union {Nothing} /\ (expect # Nothing => expect.doc = index[i])
  BY <1>3 DEF File, Files
<1>6. /\ local \in Open /\ local.stage = "edited" /\ local.expect = expect
      /\ local.saw = index[i]
  <2>1. 1 \in 1..MaxMerge
    BY Bounds
  <2> QED BY <1>3, <1>4, <1>5, <2>1 DEF Open, File, Files
<1>7. save' = [save EXCEPT ![a] = local]
  BY <1>1 DEF doc
<1> HIDE DEF local
<1>8. /\ save' \in [Authors -> Closed \union Open] /\ save'[a] = local
      /\ \A b \in Authors : b # a => save'[b] = save[b]
  BY <1>6, <1>7, SaveMoves DEF IInv
<1>9. Aware'
  BY <1>5, <1>6, <1>8 DEF IInv, Aware, IsOpen
<1>10. Named' /\ Started' /\ Numbered'
  BY <1>2, <1>3 DEF IInv, Named, Started, Numbered
<1> QED BY <1>2, <1>8, <1>9, <1>10 DEF IInv, Typed

LEMMA FrontmatterKeepsInv ==
    ASSUME IInv, NEW a \in Authors, ReadFrontmatter(a)
    PROVE  IInv'
<1>1. /\ save[a].stage = "edited"
      /\ save' = [save EXCEPT ![a].stage = "write", ![a].mine.id = head.id]
      /\ UNCHANGED <<head, index, sync, push, seen, fresh, stale, dropped, clobbered, mishaps>>
  BY DEF ReadFrontmatter
<1>2. IsOpen(a) /\ save[a] \in Open /\ head.id \in Ids
  BY <1>1, Stages DEF IInv, Named, IsOpen, Typed, Heads
<1> DEFINE mine == [save[a].mine EXCEPT !.id = head.id]
           local == [save[a] EXCEPT !.stage = "write", !.mine = mine]
<1>3. mine \in Files /\ mine.doc = save[a].mine.doc
  BY <1>2 DEF Open, Files
<1> HIDE DEF mine
<1>4. /\ local \in Open /\ local.stage = "write" /\ local.expect = save[a].expect
      /\ local.saw = save[a].saw /\ local.mine = mine
  BY <1>2, <1>3 DEF Open
<1>5. save' = [save EXCEPT ![a] = local]
  BY <1>1, <1>2 DEF IInv, Typed, Open, mine
<1> HIDE DEF local
<1>6. /\ save' \in [Authors -> Closed \union Open] /\ save'[a] = local
      /\ \A b \in Authors : b # a => save'[b] = save[b]
  BY <1>4, <1>5, SaveMoves DEF IInv
<1>7. Aware'
  BY <1>2, <1>3, <1>4, <1>6 DEF IInv, Aware, IsOpen
<1>8. Named' /\ Started' /\ Numbered'
  BY <1>1, <1>2, Bounds DEF IInv, Named, Started, Numbered
<1> QED BY <1>1, <1>6, <1>7, <1>8 DEF IInv, Typed

(* The guard: what the commit replaces is what its author expected.         *)
LEMMA WriteKeepsInv ==
    ASSUME IInv, NEW a \in Authors, Write(a)
    PROVE  IInv'
<1>1. /\ save[a].stage = "write" /\ ShaAccepted(save[a].expect) /\ Commit(save[a].mine)
      /\ clobbered' = (clobbered \/ (save[a].expect # Nothing
                                     /\ Unseen(save[a].saw, save[a].mine.doc) # {}))
      /\ save' = [save EXCEPT ![a] = [NoSave EXCEPT !.stage = "committed"]]
      /\ UNCHANGED <<index, sync, seen, fresh, stale, dropped, mishaps>>
  BY DEF Write
<1>2. IsOpen(a) /\ save[a] \in Open
  BY <1>1, Stages DEF IInv, IsOpen
<1>3. save[a].mine \in Heads /\ save[a].mine.id # NoId
  BY <1>2, Bounds DEF Open, Files, Heads
<1>4. /\ head' = save[a].mine /\ push' \in [Pushes -> States] /\ Numbered'
      /\ seen = {p \in Pushes : push'[p] \notin {"none", "sent"}}
  BY <1>1, <1>3, Committed
<1>5. save[a].expect # Nothing => Unseen(save[a].saw, save[a].mine.doc) = {}
  <2> SUFFICES ASSUME save[a].expect # Nothing, NEW s \in Sections
               PROVE  head.doc[s] \in {save[a].saw[s], save[a].mine.doc[s]}
    BY DEF Unseen
  <2>1. save[a].expect = head
    BY <1>1 DEF ShaAccepted
  <2> QED BY <1>2, <2>1 DEF IInv, Aware
<1>6. clobbered' = FALSE
  BY <1>1, <1>5 DEF IInv
<1> DEFINE local == [NoSave EXCEPT !.stage = "committed"]
<1>7. local \in Closed /\ local.stage = "committed"
  BY NoSaveIsClosed DEF NoSave
<1>8. save' = [save EXCEPT ![a] = local]
  BY <1>1
<1> HIDE DEF local
<1>9. /\ save' \in [Authors -> Closed \union Open] /\ save'[a] = local
      /\ \A b \in Authors : b # a => save'[b] = save[b]
  BY <1>7, <1>8, SaveMoves DEF IInv
<1>10. Aware'
  BY <1>7, <1>9 DEF IInv, Aware, IsOpen
<1>11. Named' /\ Started'
  BY <1>1, <1>3, <1>4 DEF IInv, Named, Started
<1>12. Typed'
  BY <1>1, <1>3, <1>4, <1>9 DEF IInv, Typed
<1> QED BY <1>4, <1>6, <1>10, <1>11, <1>12 DEF IInv

(* Three values that do not clash are not three.                            *)
LEMMA NoThree ==
    ASSUME NEW x, NEW y, NEW z, Cardinality({x, y, z}) # 3
    PROVE  x = y \/ y = z \/ x = z
<1> SUFFICES ASSUME x # y, y # z, x # z PROVE FALSE
  OBVIOUS
<1>1. IsFiniteSet({x}) /\ Cardinality({x}) = 1
  BY FS_Singleton
<1>2. IsFiniteSet({x} \union {y}) /\ Cardinality({x} \union {y}) = 2
  BY <1>1, FS_AddElement
<1>3. Cardinality(({x} \union {y}) \union {z}) = 3
  BY <1>2, FS_AddElement
<1>4. ({x} \union {y}) \union {z} = {x, y, z}
  OBVIOUS
<1> QED BY <1>3, <1>4

(* A merge leaves nothing of theirs out that the author has not seen.       *)
LEMMA MergedIsAware ==
    ASSUME NEW base \in Docs, NEW mine \in Docs, NEW theirs \in Docs, NEW saw \in Docs,
           ~ Clash(base, mine, theirs), \A s \in Sections : base[s] \in {saw[s], mine[s]}
    PROVE  /\ Merged(base, mine, theirs) \in Docs
           /\ \A s \in Sections : theirs[s] \in {saw[s], Merged(base, mine, theirs)[s]}
<1>1. Merged(base, mine, theirs) \in Docs
  BY DEF Merged, Docs
<1>2. \A s \in Sections : theirs[s] \in {saw[s], Merged(base, mine, theirs)[s]}
  <2> SUFFICES ASSUME NEW s \in Sections
               PROVE  theirs[s] \in {saw[s], Merged(base, mine, theirs)[s]}
    OBVIOUS
  <2>1. Merged(base, mine, theirs)[s] = IF mine[s] = base[s] THEN theirs[s] ELSE mine[s]
    BY DEF Merged
  <2>2. Cardinality({base[s], mine[s], theirs[s]}) # 3
    BY DEF Clash
  <2>3. ASSUME NEW x, NEW y, NEW z, x = base[s], y = mine[s], z = theirs[s]
        PROVE  x = y \/ y = z \/ x = z
    <3>1. Cardinality({x, y, z}) # 3
      BY <2>2, <2>3, Zenon
    <3> QED BY <3>1, NoThree
  <2>4. base[s] = mine[s] \/ mine[s] = theirs[s] \/ base[s] = theirs[s]
    BY <2>3
  <2> QED BY <2>1, <2>4
<1> QED BY <1>1, <1>2

LEMMA MergeKeepsInv ==
    ASSUME IInv, NEW a \in Authors, MergeOrGiveUp(a)
    PROVE  IInv'
<1>1. /\ save[a].stage = "write" /\ ~ ShaAccepted(save[a].expect)
      /\ save' = [save EXCEPT ![a] =
            IF save[a].tries >= MaxMerge
               \/ Clash(save[a].expect.doc, save[a].mine.doc, head.doc)
            THEN [NoSave EXCEPT !.stage = "done"]
            ELSE [save[a] EXCEPT !.tries = save[a].tries + 1, !.expect = head,
                    !.mine = File(head.id, Merged(save[a].expect.doc, save[a].mine.doc, head.doc))]]
      /\ UNCHANGED <<head, index, sync, push, seen, fresh, stale, dropped, clobbered, mishaps>>
  BY Zenon DEF MergeOrGiveUp
<1>2. IsOpen(a) /\ save[a] \in Open /\ head \in Files
  BY <1>1, Stages DEF IInv, Named, IsOpen, Typed, Heads, Files
<1>3. save[a].expect # Nothing /\ save[a].expect \in Files
  BY <1>1, <1>2 DEF ShaAccepted, Open
<1>4. \E local \in Closed \union Open :
         /\ save' = [save EXCEPT ![a] = local]
         /\ local.stage \in {"edited", "write"} => \A s \in Sections :
               local.expect.doc[s] \in {local.saw[s], local.mine.doc[s]}
  <2>1. CASE \/ save[a].tries >= MaxMerge
             \/ Clash(save[a].expect.doc, save[a].mine.doc, head.doc)
    <3>1. [NoSave EXCEPT !.stage = "done"] \in Closed
          /\ [NoSave EXCEPT !.stage = "done"].stage = "done"
      BY NoSaveIsClosed DEF NoSave
    <3>2. save' = [save EXCEPT ![a] = [NoSave EXCEPT !.stage = "done"]]
      BY <1>1, <2>1, Zenon
    <3> QED BY <3>1, <3>2
  <2>2. CASE /\ ~ (save[a].tries >= MaxMerge)
             /\ ~ Clash(save[a].expect.doc, save[a].mine.doc, head.doc)
    <3> DEFINE doc == Merged(save[a].expect.doc, save[a].mine.doc, head.doc)
               tries == save[a].tries + 1
               mine == File(head.id, doc)
               local == [save[a] EXCEPT !.tries = tries, !.expect = head, !.mine = mine]
    <3>1. /\ save[a].expect.doc \in Docs /\ save[a].mine.doc \in Docs /\ head.doc \in Docs
          /\ save[a].saw \in Docs
      BY <1>2, <1>3 DEF Open, Files
    <3>2. /\ doc \in Docs
          /\ \A s \in Sections : head.doc[s] \in {save[a].saw[s], doc[s]}
      BY <1>2, <1>3, <2>2, <3>1, MergedIsAware DEF IInv, Aware
    <3>3. save' = [save EXCEPT ![a] = local]
      BY <1>1, <2>2, Zenon
    <3> HIDE DEF doc
    <3>4. mine \in Files /\ mine.doc = doc
      BY <1>2, <3>2 DEF File, Files
    <3> HIDE DEF mine
    <3>5. tries \in 1..MaxMerge
      BY <1>2, <2>2, Bounds DEF Open
    <3> HIDE DEF tries
    <3>6. /\ local \in Open /\ local.expect = head /\ local.saw = save[a].saw
          /\ local.mine = mine
      BY <1>2, <3>4, <3>5 DEF Open
    <3> HIDE DEF local
    <3> QED BY <3>2, <3>3, <3>4, <3>6
  <2> QED BY <2>1, <2>2
<1>5. PICK local \in Closed \union Open :
         /\ save' = [save EXCEPT ![a] = local]
         /\ local.stage \in {"edited", "write"} => \A s \in Sections :
               local.expect.doc[s] \in {local.saw[s], local.mine.doc[s]}
  BY <1>4
<1>6. /\ save' \in [Authors -> Closed \union Open] /\ save'[a] = local
      /\ \A b \in Authors : b # a => save'[b] = save[b]
  BY <1>5, SaveMoves DEF IInv
<1>7. Aware'
  BY <1>5, <1>6 DEF IInv, Aware, IsOpen
<1>8. Named' /\ Started' /\ Numbered'
  BY <1>1, <1>2, Bounds DEF IInv, Named, Started, Numbered, Files
<1> QED BY <1>1, <1>6, <1>7, <1>8 DEF IInv, Typed

-------------------------------------------------------------------------------
(* A sync begins with what the file is.                                     *)
LEMMA SyncStarts ==
    ASSUME IInv, NEW k \in Syncs, NEW p \in Pushes \union {Nothing}, StartSync(k, p)
    PROVE  \E local \in Working :
              /\ sync' = [sync EXCEPT ![k] = local] /\ local.for = p
              /\ local.stage \in {"compare", "upsert"} => head.id # NoId
<1>1. sync' = [sync EXCEPT ![k] =
          IF head.id = NoId
          THEN [stage |-> "inject", for |-> p, file |-> File(k, head.doc), at |-> Latest]
          ELSE [stage |-> "compare", for |-> p, file |-> head, at |-> Latest]]
  BY DEF StartSync
<1>2. head \in Heads /\ Latest \in Pushes
  BY LatestIsAPush DEF IInv, Typed
<1>3. CASE head.id = NoId
  <2> DEFINE local == [stage |-> "inject", for |-> p, file |-> File(k, head.doc), at |-> Latest]
  <2>1. local \in Working /\ local.for = p /\ local.stage = "inject"
    BY <1>2 DEF Working, Files, Heads, File, Ids
  <2>2. sync' = [sync EXCEPT ![k] = local]
    BY <1>1, <1>3
  <2> HIDE DEF local
  <2> QED BY <2>1, <2>2
<1>4. CASE head.id # NoId
  <2> DEFINE local == [stage |-> "compare", for |-> p, file |-> head, at |-> Latest]
  <2>1. local \in Working /\ local.for = p
    BY <1>2, <1>4 DEF Working, Files, Heads
  <2>2. sync' = [sync EXCEPT ![k] = local]
    BY <1>1, <1>4
  <2> HIDE DEF local
  <2> QED BY <1>4, <2>1, <2>2
<1> QED BY <1>3, <1>4

LEMMA SyncAfterSaveKeepsInv ==
    ASSUME IInv, NEW a \in Authors, NEW k \in Syncs, SyncAfterSave(a, k)
    PROVE  IInv'
<1>1. /\ save[a].stage = "committed" /\ StartSync(k, Nothing)
      /\ save' = [save EXCEPT ![a].stage = "done"]
      /\ UNCHANGED <<head, index, push, seen, fresh, stale, dropped, clobbered, mishaps>>
  BY DEF SyncAfterSave
<1>2. PICK local \in Working :
         /\ sync' = [sync EXCEPT ![k] = local] /\ local.for = Nothing
         /\ local.stage \in {"compare", "upsert"} => head.id # NoId
  BY <1>1, SyncStarts
<1>3. /\ sync' \in [Syncs -> {NoSync} \union Working] /\ sync'[k] = local
      /\ \A j \in Syncs : j # k => sync'[j] = sync[j]
  BY <1>2, SyncMoves DEF IInv
<1>4. save[a] \in Closed
  BY <1>1, Stages DEF IInv, IsOpen
<1> DEFINE saved == [save[a] EXCEPT !.stage = "done"]
<1>5. saved \in Closed /\ saved.stage = "done"
  BY <1>4 DEF Closed
<1>6. save' = [save EXCEPT ![a] = saved]
  BY <1>1, <1>4 DEF Closed
<1> HIDE DEF saved
<1>7. /\ save' \in [Authors -> Closed \union Open] /\ save'[a] = saved
      /\ \A b \in Authors : b # a => save'[b] = save[b]
  BY <1>5, <1>6, SaveMoves DEF IInv
<1>8. Aware'
  BY <1>5, <1>7 DEF IInv, Aware, IsOpen
<1>9. Named'
  BY <1>1, <1>2, <1>3, <1>5, <1>7 DEF IInv, Named, IsOpen
<1>10. Started' /\ Numbered'
  BY <1>1, <1>2, <1>3 DEF IInv, Started, Numbered
<1> QED BY <1>1, <1>3, <1>7, <1>8, <1>9, <1>10 DEF IInv, Typed

(* A delivery is claimed: it is seen, whatever comes of it.                 *)
LEMMA ClaimedIsSeen ==
    ASSUME Typed, NEW p \in Pushes, Claim(p), NEW state \in {"synced", "refused"},
           push' = [push EXCEPT ![p] = state]
    PROVE  /\ push' \in [Pushes -> States] /\ p \in seen' /\ seen \subseteq seen'
           /\ seen' = {q \in Pushes : push'[q] \notin {"none", "sent"}}
           /\ \A q \in Pushes : push'[q] = "none" <=> push[q] = "none"
           /\ push[p] # "again"
<1>1. seen' = seen \union {p} /\ push[p] \in {"sent", "again"} /\ p \notin seen
  BY DEF Claim, Claimed
<1>2. /\ push' \in [Pushes -> States] /\ push'[p] = state
      /\ \A q \in Pushes : q # p => push'[q] = push[q]
  BY DEF Typed, States
<1> QED BY <1>1, <1>2 DEF Typed

LEMMA HandleKeepsInv ==
    ASSUME IInv, NEW p \in Pushes, NEW k \in Syncs, HandlePush(p, k)
    PROVE  IInv'
<1>1. /\ Claim(p) /\ push' = [push EXCEPT ![p] = "synced"] /\ StartSync(k, p)
      /\ UNCHANGED <<head, index, save, fresh, stale, dropped, clobbered, mishaps>>
  BY DEF HandlePush
<1>2. PICK local \in Working :
         /\ sync' = [sync EXCEPT ![k] = local] /\ local.for = p
         /\ local.stage \in {"compare", "upsert"} => head.id # NoId
  BY <1>1, SyncStarts
<1>3. /\ sync' \in [Syncs -> {NoSync} \union Working] /\ sync'[k] = local
      /\ \A j \in Syncs : j # k => sync'[j] = sync[j]
  BY <1>2, SyncMoves DEF IInv
<1>4. /\ push' \in [Pushes -> States] /\ p \in seen' /\ seen \subseteq seen'
      /\ seen' = {q \in Pushes : push'[q] \notin {"none", "sent"}}
      /\ \A q \in Pushes : push'[q] = "none" <=> push[q] = "none"
  BY <1>1, ClaimedIsSeen DEF IInv
<1>5. Named' /\ Aware'
  BY <1>1, <1>2, <1>3 DEF IInv, Named, Aware, IsOpen
<1>6. Started' /\ Numbered'
  BY <1>2, <1>3, <1>4 DEF IInv, Started, Numbered
<1>7. Typed'
  BY <1>1, <1>3, <1>4 DEF IInv, Typed
<1> QED BY <1>1, <1>5, <1>6, <1>7 DEF IInv

LEMMA Disturbed ==
    ASSUME Typed, Mishap
    PROVE  mishaps' \in 0..MaxMishaps
BY Bounds DEF Typed, Mishap

LEMMA RefuseKeepsInv ==
    ASSUME IInv, NEW p \in Pushes, RefusePush(p)
    PROVE  IInv'
<1>1. /\ Claim(p) /\ Mishap /\ push' = [push EXCEPT ![p] = "refused"]
      /\ dropped' = dropped \union {p}
      /\ UNCHANGED <<head, index, save, sync, fresh, stale, clobbered>>
  BY DEF RefusePush
<1>2. /\ push' \in [Pushes -> States] /\ p \in seen' /\ seen \subseteq seen'
      /\ seen' = {q \in Pushes : push'[q] \notin {"none", "sent"}}
      /\ \A q \in Pushes : push'[q] = "none" <=> push[q] = "none"
  BY <1>1, ClaimedIsSeen DEF IInv
<1>3. Named' /\ Aware' /\ Started' /\ Numbered'
  BY <1>1, <1>2 DEF IInv, Named, Aware, IsOpen, Started, Numbered
<1>4. Typed'
  BY <1>1, <1>2, Disturbed DEF IInv, Typed
<1> QED BY <1>1, <1>3, <1>4 DEF IInv

LEMMA RedeliverKeepsInv ==
    ASSUME IInv, NEW p \in Pushes, Redeliver(p) \/ IgnorePush(p)
    PROVE  IInv'
<1>1. /\ p \in seen /\ \E state \in {"again", "ignored"} : push' = [push EXCEPT ![p] = state]
      /\ UNCHANGED <<head, index, save, sync, seen, fresh, stale, dropped, clobbered>>
      /\ Mishap \/ UNCHANGED mishaps
  BY DEF Redeliver, IgnorePush, IInv, Typed
<1>2. /\ push' \in [Pushes -> States]
      /\ seen = {q \in Pushes : push'[q] \notin {"none", "sent"}}
      /\ \A q \in Pushes : push'[q] = "none" <=> push[q] = "none"
  BY <1>1 DEF IInv, Typed, States
<1>3. mishaps' \in 0..MaxMishaps
  BY <1>1, Disturbed DEF IInv, Typed
<1>4. Named' /\ Aware' /\ Started' /\ Numbered'
  BY <1>1, <1>2 DEF IInv, Named, Aware, IsOpen, Started, Numbered
<1> QED BY <1>1, <1>2, <1>3, <1>4 DEF IInv, Typed

LEMMA InjectKeepsInv ==
    ASSUME IInv, NEW k \in Syncs, InjectId(k)
    PROVE  IInv'
<1>1. /\ sync[k].stage = "inject" /\ Commit(sync[k].file)
      /\ sync' = [sync EXCEPT ![k].stage = "compare", ![k].at = Latest + 1]
      /\ UNCHANGED <<index, save, seen, fresh, stale, dropped, clobbered, mishaps>>
  BY DEF InjectId
<1>2. sync[k] \in Working
  BY <1>1, Stages DEF IInv
<1>3. sync[k].file \in Heads /\ sync[k].file.id # NoId
  BY <1>2, Bounds DEF Working, Files, Heads
<1>4. /\ head' = sync[k].file /\ push' \in [Pushes -> States] /\ Numbered'
      /\ Latest + 1 \in Pushes
      /\ seen = {p \in Pushes : push'[p] \notin {"none", "sent"}}
  BY <1>1, <1>3, Committed
<1> DEFINE at == Latest + 1
           local == [sync[k] EXCEPT !.stage = "compare", !.at = at]
<1>5. at \in Pushes
  BY <1>4
<1>6. sync' = [sync EXCEPT ![k] = local]
  BY <1>1, <1>2 DEF IInv, Typed, Working
<1> HIDE DEF at
<1>7. local \in Working /\ local.for = sync[k].for
  BY <1>2, <1>5 DEF Working
<1> HIDE DEF local
<1>8. /\ sync' \in [Syncs -> {NoSync} \union Working] /\ sync'[k] = local
      /\ \A j \in Syncs : j # k => sync'[j] = sync[j]
  BY <1>6, <1>7, SyncMoves DEF IInv
<1>9. Named' /\ Aware'
  BY <1>1, <1>3, <1>4 DEF IInv, Named, Aware, IsOpen
<1>10. Started'
  BY <1>1, <1>7, <1>8 DEF IInv, Started
<1>11. Typed'
  BY <1>1, <1>3, <1>4, <1>8 DEF IInv, Typed
<1> QED BY <1>1, <1>4, <1>9, <1>10, <1>11 DEF IInv

(* The reading that was compared is one of the commits.                     *)
LEMMA ComparedKeepsTypes ==
    ASSUME Typed, NEW k \in Syncs, sync[k] \in Working, Compared(k)
    PROVE  fresh' \in 0..Commits /\ stale' \in BOOLEAN
<1>1. sync[k].at \in 0..Commits /\ fresh \in 0..Commits
  BY Bounds DEF Typed, Working, Pushes
<1>2. fresh' = IF sync[k].at < fresh THEN fresh ELSE sync[k].at
  BY DEF Compared
<1>3. stale' \in BOOLEAN
  BY DEF Compared
<1> QED BY <1>1, <1>2, <1>3

LEMMA CompareKeepsInv ==
    ASSUME IInv, NEW k \in Syncs, Compare(k)
    PROVE  IInv'
<1>1. /\ sync[k].stage = "compare"
      /\ \/ sync' = [sync EXCEPT ![k] = NoSync] /\ Compared(k)
         \/ sync' = [sync EXCEPT ![k].stage = "upsert"] /\ UNCHANGED <<fresh, stale>>
      /\ UNCHANGED <<head, index, save, push, seen, dropped, clobbered, mishaps>>
  BY DEF Compare
<1>2. sync[k] \in Working /\ head.id # NoId
  BY <1>1, Stages DEF IInv, Named
<1>3. \E local \in {NoSync} \union Working :
         sync' = [sync EXCEPT ![k] = local] /\ local.for \in {Nothing, sync[k].for}
  <2> DEFINE local == [sync[k] EXCEPT !.stage = "upsert"]
  <2>1. local \in Working /\ local.for = sync[k].for
    BY <1>2 DEF Working
  <2>2. sync' = [sync EXCEPT ![k] = NoSync] \/ sync' = [sync EXCEPT ![k] = local]
    BY <1>1, <1>2 DEF Working
  <2> HIDE DEF local
  <2> QED BY <2>1, <2>2, NoSyncIs
<1>4. PICK local \in {NoSync} \union Working :
         sync' = [sync EXCEPT ![k] = local] /\ local.for \in {Nothing, sync[k].for}
  BY <1>3
<1>5. /\ sync' \in [Syncs -> {NoSync} \union Working] /\ sync'[k] = local
      /\ \A j \in Syncs : j # k => sync'[j] = sync[j]
  BY <1>4, SyncMoves DEF IInv
<1>6. fresh' \in 0..Commits /\ stale' \in BOOLEAN
  BY <1>1, <1>2, ComparedKeepsTypes DEF IInv, Typed
<1>7. Named' /\ Aware' /\ Numbered'
  BY <1>1, <1>2 DEF IInv, Named, Aware, IsOpen, Numbered
<1>8. Started'
  BY <1>1, <1>4, <1>5 DEF IInv, Started
<1> QED BY <1>1, <1>5, <1>6, <1>7, <1>8 DEF IInv, Typed

LEMMA UpsertKeepsInv ==
    ASSUME IInv, NEW k \in Syncs, Upsert(k)
    PROVE  IInv'
<1>1. /\ sync[k].stage = "upsert"
      /\ index' = [index EXCEPT ![sync[k].file.id] = sync[k].file.doc]
      /\ Compared(k) /\ sync' = [sync EXCEPT ![k] = NoSync]
      /\ UNCHANGED <<head, save, push, seen, dropped, clobbered, mishaps>>
  BY DEF Upsert, Upserted
<1>2. sync[k] \in Working /\ head.id # NoId
  BY <1>1, Stages DEF IInv, Named
<1>3. index' \in [Ids -> Docs \union {Nothing}]
  BY <1>1, <1>2 DEF IInv, Typed, Working, Files
<1>4. /\ sync' \in [Syncs -> {NoSync} \union Working] /\ sync'[k] = NoSync
      /\ \A j \in Syncs : j # k => sync'[j] = sync[j]
  BY <1>1, SyncMoves DEF IInv
<1>5. fresh' \in 0..Commits /\ stale' \in BOOLEAN
  BY <1>1, <1>2, ComparedKeepsTypes DEF IInv
<1>6. Named' /\ Aware' /\ Numbered'
  BY <1>1, <1>2 DEF IInv, Named, Aware, IsOpen, Numbered
<1>7. Started'
  BY <1>1, <1>4, NoSyncIs DEF IInv, Started
<1> QED BY <1>1, <1>3, <1>4, <1>5, <1>6, <1>7 DEF IInv, Typed

LEMMA SyncFailsKeepsInv ==
    ASSUME IInv, NEW k \in Syncs, SyncFails(k)
    PROVE  IInv'
<1>1. /\ Mishap /\ sync' = [sync EXCEPT ![k] = NoSync]
      /\ dropped' = dropped \union ({sync[k].for} \ {Nothing})
      /\ UNCHANGED <<head, index, save, push, seen, fresh, stale, clobbered>>
  BY DEF SyncFails
<1>2. /\ sync' \in [Syncs -> {NoSync} \union Working] /\ sync'[k] = NoSync
      /\ \A j \in Syncs : j # k => sync'[j] = sync[j]
  BY <1>1, SyncMoves DEF IInv
<1>3. dropped' \subseteq seen'
  BY <1>1 DEF IInv, Typed, Started
<1>4. Named' /\ Aware' /\ Numbered' /\ Started'
  BY <1>1, <1>2, NoSyncIs DEF IInv, Named, Aware, IsOpen, Numbered, Started
<1>5. Typed'
  BY <1>1, <1>2, <1>3, Disturbed DEF IInv, Typed
<1> QED BY <1>1, <1>4, <1>5 DEF IInv

-------------------------------------------------------------------------------
LEMMA InitInv == Init => IInv
<1> SUFFICES ASSUME Init PROVE IInv
  OBVIOUS
<1>1. /\ head = File(NoId, [s \in Sections |-> Origin]) /\ index = [i \in Ids |-> Nothing]
      /\ save = [a \in Authors |-> NoSave] /\ sync = [k \in Syncs |-> NoSync]
      /\ push = [p \in Pushes |-> IF p = 1 THEN "sent" ELSE "none"]
      /\ seen = {} /\ fresh = 0 /\ stale = FALSE /\ dropped = {}
      /\ clobbered = FALSE /\ mishaps = 0
  BY DEF Init
<1>2. [s \in Sections |-> Origin] \in Docs
  BY DEF Docs
<1>3. head \in Heads
  BY <1>1, <1>2 DEF Heads, File
<1>4. NoSave.stage = "idle" /\ NoSave \in Closed
  BY NoSaveIsClosed DEF NoSave
<1>5. 1 \in 1..Commits /\ \A p \in Pushes : push[p] = "none" <=> p > 1
  BY <1>1, Bounds DEF Pushes
<1>6. Numbered
  BY <1>5 DEF Numbered
<1>7. Typed
  <2>1. index \in [Ids -> Docs \union {Nothing}]
    BY <1>1
  <2>2. save \in [Authors -> Closed \union Open] /\ sync \in [Syncs -> {NoSync} \union Working]
    BY <1>1, <1>4
  <2>3. push \in [Pushes -> States]
    BY <1>1 DEF States
  <2>4. seen = {p \in Pushes : push[p] \notin {"none", "sent"}} /\ dropped \subseteq seen
    BY <1>1
  <2>5. stale \in BOOLEAN
    BY <1>1
  <2>6. 0 \in 0..MaxMishaps /\ 0 \in 0..Commits
    BY Bounds
  <2> QED BY <1>1, <1>3, <2>1, <2>2, <2>3, <2>4, <2>5, <2>6 DEF Typed
<1>8. Named /\ Started /\ Aware
  BY <1>1, <1>4, NoSyncIs DEF Named, Started, Aware, IsOpen
<1> QED BY <1>1, <1>6, <1>7, <1>8 DEF IInv

LEMMA EveryStep == IInv /\ [Next]_vars => IInv'
<1> SUFFICES ASSUME IInv, [Next]_vars PROVE IInv'
  OBVIOUS
<1>1. CASE UNCHANGED vars
  BY <1>1 DEF vars, IInv, Typed, Named, Numbered, Started, Aware, IsOpen
<1>2. CASE PushFromOutside
  BY <1>2, OutsideKeepsInv
<1>3. CASE \E a \in Authors :
              \/ \E i \in Ids : OpenEditor(a, i)
              \/ ReadFrontmatter(a) \/ Write(a) \/ MergeOrGiveUp(a)
              \/ \E k \in Syncs : SyncAfterSave(a, k)
  BY <1>3, OpenKeepsInv, FrontmatterKeepsInv, WriteKeepsInv, MergeKeepsInv, SyncAfterSaveKeepsInv
<1>4. CASE \E k \in Syncs : SyncStep(k) \/ SyncFails(k)
  BY <1>4, InjectKeepsInv, CompareKeepsInv, UpsertKeepsInv, SyncFailsKeepsInv DEF SyncStep
<1>5. CASE \E p \in Pushes :
              \/ \E k \in Syncs : HandlePush(p, k)
              \/ RefusePush(p) \/ Redeliver(p) \/ IgnorePush(p)
  BY <1>5, HandleKeepsInv, RefuseKeepsInv, RedeliverKeepsInv
<1> QED BY <1>1, <1>2, <1>3, <1>4, <1>5 DEF Next

LEMMA AlwaysIInv == Spec => []IInv
BY InitInv, EveryStep, PTL DEF Spec

(* The kinds of every variable, and that exactly the claimed deliveries are *)
(* recorded as seen.                                                        *)
THEOREM TypesHold == Spec => []TypeOK
BY TypedIsTypeOK, AlwaysIInv, PTL

(* However commits, merges and retries of any number of authors meet, no    *)
(* guarded save replaces text its author has not seen.                      *)
THEOREM GuardedSavesAreSafe == Spec => []NoGuardedSaveClobbers
<1>1. IInv => NoGuardedSaveClobbers
  BY DEF IInv, NoGuardedSaveClobbers
<1> QED BY <1>1, AlwaysIInv, PTL

(* What comes again starts no sync.                                         *)
THEOREM RedeliveryIsIgnored == Spec => DeliveryActsOnce
<1> DEFINE Once == \A p \in Pushes : push[p] = "again" => push'[p] # "synced"
<1>1. IInv /\ [Next]_vars => Once
  <2> SUFFICES ASSUME IInv, [Next]_vars, NEW p \in Pushes, push[p] = "again"
               PROVE  push'[p] # "synced"
    OBVIOUS
  <2>1. push \in [Pushes -> States] /\ p \in seen
    BY DEF IInv, Typed
  <2>2. CASE UNCHANGED push
    BY <2>2
  <2>3. CASE \E file : Commit(file)
    <3>1. push' = [push EXCEPT ![Latest + 1] = "sent"]
      BY <2>3 DEF Commit
    <3> QED BY <2>1, <3>1
  <2>4. CASE \E q \in Pushes, k \in Syncs : HandlePush(q, k)
    <3>1. PICK q \in Pushes : q # p /\ push' = [push EXCEPT ![q] = "synced"]
      BY <2>1, <2>4 DEF HandlePush, Claim
    <3> QED BY <2>1, <3>1
  <2>5. CASE \E q \in Pushes : RefusePush(q) \/ Redeliver(q) \/ IgnorePush(q)
    <3>1. PICK q \in Pushes, state \in {"refused", "again", "ignored"} :
             push' = [push EXCEPT ![q] = state]
      BY <2>5 DEF RefusePush, Redeliver, IgnorePush
    <3> QED BY <2>1, <3>1
  <2>6. CASE PushFromOutside \/ (\E a \in Authors : Write(a)) \/ (\E k \in Syncs : InjectId(k))
    <3>1. \E file : Commit(file)
      BY <2>6 DEF PushFromOutside, Write, InjectId
    <3> QED BY <2>3, <3>1
  <2>7. CASE \/ \E a \in Authors : \/ \E i \in Ids : OpenEditor(a, i)
                                   \/ ReadFrontmatter(a) \/ MergeOrGiveUp(a)
                                   \/ \E k \in Syncs : SyncAfterSave(a, k)
             \/ \E k \in Syncs : Compare(k) \/ Upsert(k) \/ SyncFails(k)
    <3>1. UNCHANGED push
      BY <2>7 DEF OpenEditor, ReadFrontmatter, MergeOrGiveUp, SyncAfterSave, Compare,
                  Upsert, SyncFails
    <3> QED BY <2>2, <3>1
  <2> QED BY <2>2, <2>4, <2>5, <2>6, <2>7 DEF Next, SyncStep, vars
<1> QED BY <1>1, AlwaysIInv, PTL DEF Spec, DeliveryActsOnce
===============================================================================
